--------------------------- MODULE PipelineState ---------------------------
(***************************************************************************)
(* The state that the dispatch unit, the execution units, the register     *)
(* file and the completion unit of the "powerpc" simulator share: the      *)
(* reorder buffer and the rename tables (shared by pointer) and the        *)
(* signals between the units.                                              *)
(*                                                                         *)
(* One class of registers stands for GPR, FPR, CR, LR and CTR.  A value is *)
(* the serial number of the instruction that produced it (0 initially), so *)
(* that "the right value" means "the value of the right writer".           *)
(*                                                                         *)
(* A clock cycle is four steps, the order of the SystemC delta cycles:     *)
(*   rise    Retire, WriteBack and the units' Execute, on the rising edge  *)
(*   decode  Decode, triggered by Retire                                   *)
(*   fall    Dispatch, WriteRename and the units' OnFallingEdge            *)
(*   finish  Finish, triggered by Dispatch                                 *)
(* The processes of one step read the signals of the step before, so their *)
(* order inside the step does not matter.                                  *)
(***************************************************************************)
EXTENDS RegistersBinding, SequencesExt

CONSTANTS
  NROB,         \* nReorderBufferEntries
  NCQ,          \* nCQ, instructions retired in a cycle
  NPorts,       \* nWriteBackPorts
  NIntUnits,    \* nIntegerUnit
  NIntRS,       \* nIntegerRS, per integer unit
  NBranchRS,    \* nBranchRS
  NFpRS,        \* nFloatingPointRS
  DecodeWidth,  \* nIQ + nIQBranchs
  MaxBranchs,   \* nMaxBranchsBeforeDispatchStall
  Kinds,        \* the instructions the fetch unit may deliver
  MaxLatency,   \* bound on the latency of an instruction
  MaxInstr      \* bound on the number of instructions decoded in a run

IntUnits == 1 .. NIntUnits
Id == 1 .. MaxInstr
Value == 0 .. MaxInstr

\* What the dispatch unit needs to know of a decoded instruction.  muldiv marks
\* the integer instructions only the first unit executes, pipelined the floating
\* point ones the pipeline executes (the others are divides and moves to the FPSCR);
\* ser is io.integer.inCarry for an integer instruction, io.floatingPoint.inFPSCR
\* for a floating point one; lock is "set" for sc and for an
\* mtcrf of several fields, "keep" for mcrf, whose decoding leaves the interlock
\* flag of the reservation station as it was, and "clear" otherwise; direct is what
\* an mtcrf of several fields writes when it retires, without a rename buffer.
Kind == [unit : {"int", "fp", "br", "sys"}, src : Seq(Regs), dst : Seq(Regs),
         muldiv : BOOLEAN, pipelined : BOOLEAN, ser : BOOLEAN,
         lock : {"set", "keep", "clear"}, direct : SUBSET Regs]

ASSUME PipelineAssumption ==
  /\ {NROB, NCQ, NPorts, NIntUnits, NIntRS, NBranchRS, NFpRS,
      DecodeWidth, MaxLatency, MaxInstr} \subseteq Nat \ {0}
  /\ MaxBranchs \in Nat
  /\ \A k \in Kinds : k \in Kind /\ (k.unit = "sys" => k.ser) /\ (k.unit = "br" => ~ k.ser)
                     /\ (k.direct # {} => k.unit = "sys" /\ k.lock = "set")

VARIABLES
  phase,          \* the next step of the clock cycle
  rob,            \* ReorderBuffer, oldest first; slot is an entry's index in it
  robTail,        \* Queue::tail, the slot of the oldest entry
  binding,        \* RegistersBinding
  execute,        \* outIntegerExecute, outSystemRegisterExecute and their tag
  clearInterlock, \* outClearInterlock
  intRS,          \* integerRSQueue[u]
  brRS,           \* branchRSQueue
  fpRS,           \* floatingPointRSQueue (one unit)
  sysRS,          \* systemRegisterRSQueue (one station)
  stationLock,    \* the interlock field of that station, kept when it is free
  reading,        \* the instructions UpdateRS copies the read ports to
  interlock,      \* DispatchUnit::interlock
  branchCounter,  \* DispatchUnit::branchCounter
  issue,          \* out*Dispatched with operands and tags, per unit
  intUnit,        \* IntegerUnit u
  brUnit,         \* BranchUnit
  fpUnit,         \* FloatingPointUnit
  sysUnit,        \* SystemRegisterUnit
  arch,           \* RegisterFile::registers
  ren,            \* RegisterFile::renames
  nextId,         \* the serial number of the next instruction decoded
  archWriter,     \* history: the last retired writer of each register
  lockedBy        \* history: the last instruction that set the interlock

completionVars == <<execute, clearInterlock>>
dispatchVars   == <<intRS, brRS, fpRS, sysRS, stationLock, reading, interlock,
                    branchCounter, issue>>
unitVars       == <<intUnit, brUnit, fpUnit, sysUnit>>
fileVars       == <<arch, ren>>
historyVars    == <<nextId, archWriter, lockedBy>>
vars == <<phase, rob, robTail, binding, completionVars, dispatchVars, unitVars,
          fileVars, historyVars>>

\* A source operand in a reservation station.  read tells which port UpdateRS
\* copies it from; want is history: the instruction whose value it should be.
Operand == [reg : Regs, tag : Tag \cup {None}, valid : BOOLEAN,
            read : {"register", "rename", "none"}, val : Value, want : Value]

\* An instruction in a reservation station, and on its way to a unit.
Station == [id : Id, slot : 0 .. NROB - 1 \cup {None}, dst : Seq(Tag), bc : 0 .. MaxInstr,
            ser : BOOLEAN, pipelined : BOOLEAN, ops : Seq(Operand)]

RobEntry == [id : Id, slot : 0 .. NROB - 1, unit : {"int", "fp", "br", "sys"}, num : Nat,
             regs : Seq(Regs), dst : Seq(Tag), ser : BOOLEAN, bc : 0 .. MaxInstr,
             fin : BOOLEAN, lock : BOOLEAN, direct : SUBSET Regs]

\* A unit: lat is the number of cycles left (dispatched and outBusy while it is
\* not 0), fin its outFinished, which comes with the results of dst.
Idle == [id |-> 0, slot |-> None, dst |-> <<>>, bc |-> 0, ops |-> <<>>,
         lat |-> 0, fin |-> FALSE, mispredicted |-> FALSE]
Nothing == [id |-> 0]

\* FloatingPointUnit: the stages of its pipeline, its size and the entry of the ring
\* that the next instruction will use, the instruction that is not pipelined, and
\* the one that is finishing.
FpStages == 3
FpIdle == [size |-> 0, index |-> 0, stage |-> [i \in 1 .. FpStages |-> Nothing],
           np |-> Idle, out |-> Idle]

NoExecute == [unit |-> "none", num |-> 0, slot |-> None]

PipelineInit ==
  /\ phase = "rise"
  /\ rob = <<>> /\ robTail = 0
  /\ binding = EmptyBinding
  /\ execute = NoExecute /\ clearInterlock = FALSE
  /\ intRS = [u \in IntUnits |-> <<>>] /\ brRS = <<>> /\ fpRS = <<>> /\ sysRS = <<>>
  /\ stationLock = FALSE /\ reading = {} /\ interlock = FALSE /\ branchCounter = 0
  /\ issue = [int |-> [u \in IntUnits |-> Nothing], br |-> Nothing, fp |-> Nothing,
             sys |-> Nothing]
  /\ intUnit = [u \in IntUnits |-> Idle] /\ brUnit = Idle /\ fpUnit = FpIdle
  /\ sysUnit = Idle
  /\ arch = [r \in Regs |-> 0] /\ ren = [t \in Tag |-> 0]
  /\ nextId = 1 /\ archWriter = [r \in Regs |-> 0] /\ lockedBy = 0

\* The units whose outFinished is up, and the results that come with it: each
\* rename buffer of the instruction with its value.
Finishing == {intUnit[u] : u \in {v \in IntUnits : intUnit[v].fin}}
             \cup {x \in {brUnit, fpUnit.out, sysUnit} : x.fin}
Results == UNION {{[tag |-> x.dst[i], val |-> x.id] : i \in DOMAIN x.dst} : x \in Finishing}

\* Unit flags of a misprediction and of a correct prediction at the falling edge.
Mispredicted == brUnit.fin /\ brUnit.mispredicted
Predicted    == brUnit.fin /\ ~ brUnit.mispredicted

\* The registers an entry of the reorder buffer writes when it retires.
Writes(e) == Range(e.regs) \cup e.direct

Decremented(x) == IF x.bc > 0 THEN [x EXCEPT !.bc = @ - 1] ELSE x

\* q without the entries its head (newest) end loses to a flush: those after the
\* last one that depends on no unresolved branch.
Unflushed(q) == SubSeq(q, 1, Max({0} \cup {i \in DOMAIN q : q[i].bc = 0}))
=============================================================================
