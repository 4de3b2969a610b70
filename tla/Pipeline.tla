------------------------------ MODULE Pipeline ------------------------------
(***************************************************************************)
(* The out-of-order core: dispatch unit, execution units, register file    *)
(* and completion unit composed over one clock.                            *)
(***************************************************************************)
EXTENDS CompletionUnit, DispatchUnit, ExecutionUnits, FloatingPointUnit

Init == PipelineInit

\* The rising edge.
Rise ==
  /\ phase = "rise" /\ phase' = "decode"
  /\ Retire
  /\ Execute
  /\ fpUnit' \in AfterFpExecute(issue.fp, fpUnit)
  /\ UNCHANGED <<intRS, brRS, fpRS, sysRS, stationLock, reading, interlock, branchCounter,
                 ren, nextId, lockedBy>>

\* The falling edge.
Fall ==
  /\ phase = "fall" /\ phase' = "finish"
  /\ Dispatch
  /\ WriteRename
  /\ UnitsOnFallingEdge
  /\ fpUnit' = AfterFpFallingEdge(fpUnit)
  /\ UNCHANGED <<rob, robTail, binding, completionVars, arch, historyVars>>

Next == Rise \/ Decode \/ Fall \/ Finish

\* The clock never stops: it always goes on to the next step, which is a step of
\* Next, because Next is always enabled and always moves the clock.
Tick == phase' = [rise |-> "decode", decode |-> "fall", fall |-> "finish",
                  finish |-> "rise"][phase]
Spec == Init /\ [][Next]_vars /\ WF_phase(Tick)
-----------------------------------------------------------------------------
(***************************************************************************)
(* What the properties talk about.                                         *)
(***************************************************************************)

\* The units at work.  Finish deals with a finished instruction in phase "finish".
Executing ==
  SelectSeq(fpUnit.stage, LAMBDA x : x.id # 0)
  \o SelectSeq(intUnit \o <<brUnit, fpUnit.np, fpUnit.out, sysUnit>>,
               LAMBDA x : x.id # 0 /\ (x.lat > 0 \/ phase \in {"decode", "fall"}))
Stations  == FlattenSeq(intRS) \o brRS \o fpRS \o sysRS
Issued    == SelectSeq(issue.int \o <<issue.br, issue.fp, issue.sys>>, LAMBDA x : x.id # 0)
InFlight  == Stations \o Issued \o Executing

\* The branches whose outcome the dispatch unit does not know yet.
Unresolved ==
  {b.id : b \in Range(brRS) \cup {issue.br}
                \cup (IF phase \in {"decode", "fall"} THEN {brUnit} ELSE {})} \ {0}

\* The destinations of the reorder buffer entries, oldest first.
Destinations == FlattenSeq([i \in DOMAIN rob |->
                  [j \in DOMAIN rob[i].dst |-> [reg |-> rob[i].regs[j], tag |-> rob[i].dst[j]]]])
TagsOf(r) == LET own == SelectSeq(Destinations, LAMBDA d : d.reg = r)
             IN  [i \in DOMAIN own |-> own[i].tag]

TypeInvariant ==
  /\ phase \in {"rise", "decode", "fall", "finish"}
  /\ Range(rob) \subseteq RobEntry /\ Len(rob) <= NROB /\ robTail \in 0 .. NROB - 1
  /\ binding \in Binding
  /\ \A u \in IntUnits : Range(intRS[u]) \subseteq Station /\ Len(intRS[u]) <= NIntRS
  /\ Range(brRS) \cup Range(fpRS) \cup Range(sysRS) \subseteq Station
  /\ Len(brRS) <= NBranchRS /\ Len(fpRS) <= NFpRS /\ Len(sysRS) <= 1
  /\ branchCounter \in 0 .. MaxBranchs + 1
  /\ arch \in [Regs -> Value] /\ ren \in [Tag -> Value]
  /\ \A i \in DOMAIN rob : rob[i].slot = (robTail + i - 1) % NROB

(***************************************************************************)
(* Safety.                                                                 *)
(***************************************************************************)

\* No instruction is lost, duplicated or confused with another: outside the half
\* cycle of a flush, the unfinished entries of the reorder buffer are exactly the
\* instructions waiting in a station, on their way to a unit or in a unit, each in
\* one place, and with the slot and the rename buffers of the entry.
EachInstructionOnce == phase # "finish" =>
  /\ \A i, j \in DOMAIN InFlight : InFlight[i].id = InFlight[j].id => i = j
  /\ {[id |-> x.id, slot |-> x.slot, dst |-> x.dst] :
         x \in {y \in Range(InFlight) : y.slot # None}}
     = {[id |-> e.id, slot |-> e.slot, dst |-> e.dst] : e \in {f \in Range(rob) : ~ f.fin}}

\* The rename tables mirror the reorder buffer through allocation, retirement and
\* flush: the buffers of a register are those of its writers in program order, a
\* buffer is valid once its writer has finished, and then holds the writer's result.
RenameExact ==
  /\ \A r \in Regs : Chain(binding, r) = Reverse(TagsOf(r)) \o <<None>>
  /\ Allocated(binding) = {d.tag : d \in Range(Destinations)}
  /\ binding.nfree = NTags - Len(Destinations)
  /\ \A e \in Range(rob) : \A t \in Range(e.dst) :
       binding.valid[t] = e.fin /\ (e.fin => ren[t] = e.id)

\* UpdateRS gives every operand the value of the newest older writer, whichever way
\* it comes (register, rename buffer, forwarded result) and whatever retires,
\* is flushed or reuses the rename buffer meanwhile; an operand that has no value yet waits for an
\* unfinished writer that will deliver it.
OperandsCorrect == phase \in {"finish", "rise"} =>
  \A x \in Range(FlattenSeq(intRS) \o brRS \o fpRS)
           \cup {y \in Range(Issued) : y.id # issue.sys.id} :
    \A o \in Range(x.ops) :
      IF o.tag = None \/ o.valid THEN o.val = o.want
      ELSE \E e \in Range(rob) : e.id = o.want /\ o.tag \in Range(e.dst) /\ ~ e.fin

\* A serialized instruction is sent to its unit only when every older instruction
\* has retired and every older branch is resolved, the branches without a reorder
\* buffer entry included; the registers the system register unit reads
\* when it executes then hold the values of the right writers.
SerializedOldest == phase = "rise" =>
  \A x \in {y \in Range(Issued) : \E e \in Range(rob) : e.id = y.id /\ e.ser} :
    /\ Head(rob).id = x.id
    /\ \A b \in Unresolved : x.id < b
    /\ x.id = issue.sys.id => \A o \in Range(x.ops) : arch[o.reg] = o.want

\* The registers hold the results of the last retired writers, several of which may
\* be written back in one cycle.
ArchCorrect == arch = archWriter

\* Every copy of a branch counter (in the reorder buffer, the stations, the signals
\* to the units and the units) counts the unresolved branches older than the
\* instruction, and the dispatch unit's counts them all.
BranchCountersExact == phase # "finish" =>
  /\ branchCounter = Cardinality(Unresolved)
  /\ \A x \in Range(InFlight) \cup Range(rob) :
       x.id \notin {brUnit.id} => x.bc = Cardinality({b \in Unresolved : b < x.id})

\* An instruction that finishes is in the reorder buffer: the check Finish() makes of
\* every tag ("Reorder buffer does not contain tag").
FinishedInRob == phase = "finish" /\ rob # <<>> =>
  \A x \in Finishing : x.slot # None => \E e \in Range(rob) : e.slot = x.slot

\* While an instruction that sets the interlock is in the reorder buffer nothing
\* younger is decoded.
InterlockCovers ==
  (\E e \in Range(rob) : e.id = lockedBy) => nextId = lockedBy + 1

(***************************************************************************)
(* Action properties.                                                      *)
(***************************************************************************)

\* A misprediction removes exactly the instructions younger than the branch: after
\* Finish the reorder buffer has kept the older ones and nothing younger is left in a
\* station or a unit.
FlushExact ==
  [][phase = "finish" /\ Mispredicted =>
       /\ {e.id : e \in Range(rob')} = {e.id : e \in {f \in Range(rob) : f.id <= brUnit.id}}
       /\ \A x \in Range(InFlight) : x.id # brUnit.id => x.id < brUnit.id]_vars

(***************************************************************************)
(* Liveness.                                                               *)
(***************************************************************************)

\* Every instruction leaves the reorder buffer: it retires or is flushed.
EveryInstructionLeaves ==
  \A i \in Id : (\E e \in Range(rob) : e.id = i) ~> ~ (\E e \in Range(rob) : e.id = i)

\* The interlock is cleared, by the retirement or by the flush of its instruction.
InterlockCleared == interlock ~> ~ interlock
=============================================================================
