--------------------------- MODULE ExecutionUnits ---------------------------
(***************************************************************************)
(* The clocked processes of IntegerUnit.cpp, BranchUnit.cpp and            *)
(* SystemRegisterUnit.cpp, and the rename buffers of RegisterFile.cpp.     *)
(* What an operation computes is abstracted to the serial number of the    *)
(* instruction, its latency to a choice in 1 .. MaxLatency, the outcome of *)
(* a branch to a choice.                                                   *)
(***************************************************************************)
EXTENDS PipelineState

\* A unit that has just been given the instruction s: Execute computes the
\* latency, counts this cycle, and finishes when none is left.
Started(s, latency) ==
  [id |-> s.id, slot |-> s.slot, dst |-> s.dst, bc |-> s.bc, ops |-> s.ops,
   lat |-> latency - 1, fin |-> latency = 1, mispredicted |-> FALSE]

\* Execute() of an integer or system register unit x, given the station s.
AfterExecute(s, x) ==
  IF s.id # 0 THEN {Started(s, latency) : latency \in 1 .. MaxLatency}
  ELSE IF x.lat > 0 THEN {[x EXCEPT !.lat = @ - 1, !.fin = x.lat = 1]}
  ELSE {Idle}

\* BranchUnit::Execute(): one cycle.
AfterBranchExecute(s) ==
  IF s.id = 0 THEN {Idle}
  ELSE {[Started(s, 1) EXCEPT !.mispredicted = m] : m \in BOOLEAN}

\* The rising edge of the units; the signals of the last dispatch are used up.
Execute ==
  /\ intUnit' \in {f \in [IntUnits -> UNION {AfterExecute(issue.int[u], intUnit[u]) : u \in IntUnits}] :
                     \A u \in IntUnits : f[u] \in AfterExecute(issue.int[u], intUnit[u])}
  /\ brUnit' \in AfterBranchExecute(issue.br)
  /\ sysUnit' \in AfterExecute(issue.sys, sysUnit)
  /\ issue' = [int |-> [u \in IntUnits |-> Nothing], br |-> Nothing, fp |-> Nothing,
             sys |-> Nothing]

\* OnFallingEdge() of an integer or system register unit: a misprediction drops
\* a dependent instruction and its results, a prediction resolves one branch.
AfterFallingEdge(x) ==
  IF Mispredicted /\ x.bc > 0 THEN Idle
  ELSE IF brUnit.fin THEN Decremented(x)
  ELSE x

UnitsOnFallingEdge ==
  /\ intUnit' = [u \in IntUnits |-> AfterFallingEdge(intUnit[u])]
  /\ sysUnit' = AfterFallingEdge(sysUnit)
  /\ brUnit' = brUnit

\* RegisterFile::WriteRename(): it sees the results as they were before the
\* units drop the mispredicted ones.
WriteRename ==
  ren' = [t \in Tag |->
            IF \E x \in Results : x.tag = t THEN (CHOOSE x \in Results : x.tag = t).val
            ELSE ren[t]]
=============================================================================
