------------------------- MODULE FloatingPointUnit -------------------------
(***************************************************************************)
(* powerpc/src/FloatingPointUnit.cpp: a three stage pipeline whose         *)
(* instructions live in a ring of three entries, and a second path for the *)
(* instructions that are not pipelined (divides, moves to the FPSCR).      *)
(* A stage holds a copy of the entry it points to.                         *)
(***************************************************************************)
EXTENDS PipelineState

\* Pipeline::Allocate(): the next entry of the ring, whatever points to it.
\* (Mutant: the ring does not turn.)
FpAllocateSame(f, s, latency) ==
  LET x == [id |-> s.id, slot |-> s.slot, dst |-> s.dst, bc |-> s.bc,
            entry |-> f.index, lats |-> <<latency, 1, 1>>]
  IN  [f EXCEPT !.size = @ + 1,
                !.stage = [i \in 1 .. FpStages |->
                   IF i = 1 \/ (@[i].id # 0 /\ @[i].entry = f.index) THEN x ELSE @[i]]]
FpAllocate(f, s, latency) ==
  LET x == [id |-> s.id, slot |-> s.slot, dst |-> s.dst, bc |-> s.bc,
            entry |-> f.index, lats |-> <<latency, 1, 1>>]
  IN  [f EXCEPT !.size = @ + 1,
                !.index = (@ + 1) % FpStages,
                !.stage = [i \in 1 .. FpStages |->
                   IF i = 1 \/ (@[i].id # 0 /\ @[i].entry = f.index) THEN x ELSE @[i]]]

\* Pipeline::Shift(): a cycle passes in every stage, then, from the last stage down,
\* an instruction that is done with its stage moves on if the next one is free.
Aged(f) == [i \in 1 .. FpStages |->
              IF f.stage[i].id # 0 /\ f.stage[i].lats[i] > 0
                THEN [f.stage[i] EXCEPT !.lats[i] = @ - 1] ELSE f.stage[i]]
Shift(f) ==
  LET aged == Aged(f)
      moves[i \in 1 .. FpStages] ==
        /\ i < FpStages /\ aged[i].id # 0 /\ aged[i].lats[i] = 0
        /\ aged[i + 1].id = 0 \/ moves[i + 1]
  IN  [f EXCEPT !.stage = [i \in 1 .. FpStages |->
         IF i > 1 /\ moves[i - 1] THEN aged[i - 1] ELSE IF moves[i] THEN Nothing ELSE aged[i]]]

\* GetOldest() and ReleaseTail(): the last stage hands over its instruction.
Finished(x) == [Idle EXCEPT !.id = x.id, !.slot = x.slot, !.dst = x.dst, !.bc = x.bc, !.fin = TRUE]
Released(f) ==
  LET last == f.stage[FpStages]
  IN  IF last.id # 0 /\ last.lats[FpStages] = 0
        THEN [f EXCEPT !.out = Finished(last), !.stage[FpStages] = Nothing, !.size = @ - 1]
        ELSE [f EXCEPT !.out = Idle]

\* A cycle of the path that is not pipelined, which takes over the outputs.
NotPipelined(f, x) ==
  IF x.lat = 1 THEN [f EXCEPT !.np = Idle, !.out = Finished(x)]
               ELSE [f EXCEPT !.np = [x EXCEPT !.lat = @ - 1], !.out = Idle]

\* Execute(), given the station s.  A multiply-add stays two cycles in the first stage.
\* The member branchCounter is not assigned when a divide begins: it is 0.
AfterFpExecute(s, f) ==
  LET g == Shift(Released(f))
  IN  IF s.id # 0 /\ s.pipelined THEN {FpAllocate(g, s, latency) : latency \in {1, 2}}
      ELSE IF s.id # 0
        THEN {NotPipelined(g, [Idle EXCEPT !.id = s.id, !.slot = s.slot, !.dst = s.dst,
                                           !.lat = latency]) : latency \in 1 .. MaxLatency}
      ELSE IF f.np.lat > 0 THEN {NotPipelined(g, f.np)}
      ELSE {g}

\* OnFallingEdge(): a misprediction takes the dependent instructions out of their
\* stages; a result that is already out is left to the completion unit.
\* (Mutant: the stages keep them.)
FpFlushKept(f) == f
FpFlush(f) ==
  LET dropped == {i \in 1 .. FpStages : f.stage[i].id # 0 /\ f.stage[i].bc > 0}
  IN  [f EXCEPT !.stage = [i \in 1 .. FpStages |-> IF i \in dropped THEN Nothing ELSE f.stage[i]],
                !.size = @ - Cardinality(dropped),
                !.np = IF f.np.bc > 0 THEN Idle ELSE @,
                !.out = IF f.np.bc > 0 THEN Idle ELSE @]

\* DecrementBranchCounter().  (Mutant: the stages are forgotten.)
FpDecrementedNpOnly(f) == [f EXCEPT !.np = Decremented(@)]
FpDecremented(f) ==
  [f EXCEPT !.stage = [i \in 1 .. FpStages |-> IF f.stage[i].id = 0 THEN Nothing ELSE Decremented(f.stage[i])],
            !.np = Decremented(@)]
AfterFpFallingEdge(f) ==
  IF Mispredicted THEN FpDecremented(FpFlush(f))
  ELSE IF Predicted THEN FpDecremented(f)
  ELSE f
=============================================================================
