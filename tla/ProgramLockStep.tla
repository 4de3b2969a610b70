-------------------------- MODULE ProgramLockStep --------------------------
(***************************************************************************)
(* The lock step of the two machines for everything but the integer        *)
(* instructions (those are in LockStep): an instruction retires in the     *)
(* simulator, with the prediction the fetch unit made for it, and the      *)
(* emulator executes the same instruction.  They start in the same state,  *)
(* which the loader writes into both.                                      *)
(*                                                                         *)
(* The order inside the simulator is not here: Pipeline shows that an      *)
(* instruction works with the registers its predecessors leave,            *)
(* LoadStoreSystem and MemorySystem that a load reads what the stores      *)
(* before it wrote, FetchSystem that a wrong prediction only costs time.   *)
(***************************************************************************)
EXTENDS SystemCalls

CONSTANTS Programs,     \* name -> [starts, forms, length] of the programs to run
          MemorySize,   \* the addresses that programs use are below it
          Times, HostResults, HostByte, StructSize    \* what the world outside answers
ASSUME WorldOutside ==
  Times \cup HostResults \cup {HostByte} \subseteq Word /\ {MemorySize, StructSize} \subseteq Nat

VARIABLES name,         \* the program
          sim, emu,     \* the two machines
          brk, running, \* brk_point, and whether exit was not called
          left          \* how many instructions may still retire
vars == <<name, sim, emu, brk, running, left>>

\* A start gives the registers, the address of the program and the image of the memory.
SimulatorStart(s) ==
  [gpr |-> s.gpr, fpr |-> s.fpr, cr |-> s.cr, lr |-> s.lr, ctr |-> s.ctr, so |-> FALSE,
   pc |-> s.pc,
   mem |-> [a \in 0 .. MemorySize - 1 |-> IF a < Len(s.image) THEN s.image[a + 1] ELSE 0]]
EmulatorStart(s) ==
  [gpr |-> s.gpr, fpr |-> s.fpr, cr |-> s.cr, lr |-> s.lr, ctr |-> s.ctr, xer |-> 0,
   pc |-> s.pc, mem |-> MemWrite(EmptyTable, 0, s.image)]

Init ==
  /\ name \in DOMAIN Programs
  /\ \E s \in Programs[name].starts : sim = SimulatorStart(s) /\ emu = EmulatorStart(s)
  /\ brk = 0 /\ running = TRUE /\ left = Programs[name].length

Form(ops) == {i \in Programs[name].forms : i.op \in ops}
Retired == running /\ left > 0 /\ left' = left - 1 /\ UNCHANGED name
Quiet == UNCHANGED <<brk, running>>

RetireBranch ==
  /\ Retired /\ Quiet
  /\ \E i \in Form(Branches) : \E predicted \in Predictions(i) :
       sim' = SimulateBranch(sim, i, predicted) /\ emu' = EmulateBranch(emu, i)

RetireCRLogical ==
  /\ Retired /\ Quiet
  /\ \E i \in Form(CRLogical) : sim' = SimulateCRLogical(sim, i) /\ emu' = EmulateCRLogical(emu, i)

\* held is what the result of the system register unit holds from an instruction before.
RetireMove ==
  /\ Retired /\ Quiet
  /\ \E i \in Form(Moves), time \in Times : \E held \in {0, time} :
       sim' = SimulateMove(sim, i, time, held) /\ emu' = EmulateMove(emu, i, time)

\* The simulator stops at fnmsubs.
RetireFloat ==
  /\ Retired /\ Quiet
  /\ \E i \in Form(FloatOps) :
       Implemented(i) /\ sim' = SimulateFloat(sim, i) /\ emu' = EmulateFloat(emu, i)

\* The emulator must not be asked for an access across its pages.  slot is what the
\* decoded instruction before this one left in the slot.
RetireMemory ==
  /\ Retired /\ Quiet
  /\ \E i \in Form({"load", "store", "dcbz"}) : \E write \in BOOLEAN :
       LET slot == [size |-> 4, write |-> write]
       IN  /\ TranslateMemory(i, slot).decoded
           /\ i.op # "dcbz" => InPage(EffectiveAddress(emu, i), i.size)
           /\ EffectiveAddress(emu, i) + LineSize <= MemorySize
           /\ sim' = SimulateMemory(sim, i, slot) /\ emu' = EmulateMemory(emu, i)

RetireSystemCall ==
  /\ Retired
  /\ \E i \in Form({"sc"}), answer \in HostAnswers(sim.gpr, HostResults, HostByte, StructSize) :
       LET p == SystemCall([sim |-> sim, emu |-> emu, brk |-> brk, running |-> running], answer)
       IN  sim' = p.sim /\ emu' = p.emu /\ brk' = p.brk /\ running' = p.running

Next == RetireBranch \/ RetireCRLogical \/ RetireMove \/ RetireFloat \/ RetireMemory \/ RetireSystemCall
Spec == Init /\ [][Next]_vars
-----------------------------------------------------------------------------
\* After every retirement CheckRegisters() finds the same registers in both machines: the
\* results, the condition fields and the link and count registers of the units are those
\* of the emulator ("Simulator CR != Emulator CR" and the like, PowerPC.cpp).
SameRegisters ==
  /\ sim.gpr = emu.gpr /\ sim.fpr = emu.fpr
  /\ sim.cr = emu.cr /\ sim.lr = emu.lr /\ sim.ctr = emu.ctr
  /\ sim.so = (Bit(emu.xer, W - 1) = 1)

\* The next instruction that retires in the simulator is the one the emulator goes to,
\* whatever was predicted: ppc_execute_check_path never finds another program counter.
SameNextPc == sim.pc = emu.pc

\* Every byte of the memory that loads, stores and system calls use in the simulator is
\* the byte in the pages of the emulator, however their addresses share the slots of its
\* tables and in whatever order the pages were touched (PowerPC::mem_read compares them).
SameMemory == \A a \in DOMAIN sim.mem : Contents(emu.mem, a) = sim.mem[a]
=============================================================================
