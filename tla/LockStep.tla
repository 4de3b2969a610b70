------------------------------ MODULE LockStep ------------------------------
(***************************************************************************)
(* The simulator and the emulator side by side, as the build with EMULATE  *)
(* runs them: the emulator executes an instruction when the completion     *)
(* unit retires it, and before every rising edge CheckRegisters() compares *)
(* the registers of the two machines.                                      *)
(*                                                                         *)
(* The reorder buffer is left out: an instruction is executed with the     *)
(* operands its predecessors leave (Pipeline shows that), and what remains *)
(* of the pipeline is what the XER and CR see of it.  Up to NCQ            *)
(* instructions retire on a rising edge.  Each writes its condition field  *)
(* with the summary overflow of that moment; the bits of the XER go        *)
(* through one set of signals, which the falling edge copies.  An          *)
(* instruction that reads the carry is sent when it is the oldest, so it   *)
(* is the first of those that retire with it and its carry is the register.*)
(***************************************************************************)
EXTENDS IntegerUnit

CONSTANTS Regs, Fields, NCQ, Instructions, \* what the program consists of
          AnyOperands                      \* FALSE: only operands for which Proper holds
ASSUME RetireWidth == NCQ \in Nat \ {0} /\ AnyOperands \in BOOLEAN

VARIABLES sim, emu,   \* registers of the simulator and of the emulator
          xerIn,      \* writeCarry, writeCarryData, writeOverflow, writeOverflowData
          retired     \* instructions retired on this rising edge
vars == <<sim, emu, xerIn, retired>>

Quiet == [writeCarry |-> FALSE, carry |-> FALSE, writeOverflow |-> FALSE, overflow |-> FALSE]

Init ==
  /\ \E g \in [Regs -> Word], ca, so \in BOOLEAN :
       sim = [gpr |-> g, cr |-> [f \in Fields |-> Compared(FALSE, FALSE, FALSE, FALSE)],
              ca |-> ca, ov |-> FALSE, so |-> so]
  /\ emu = sim /\ xerIn = Quiet /\ retired = 0

\* The operands of the reservation station.
Operand(r, di, k) ==
  IF k = 2 /\ di.hasImmed THEN di.immed
  ELSE IF di.src[k] = None THEN 0 ELSE r.gpr[di.src[k]]

\* The architecture leaves these results undefined, or the program does not ask for them:
\* divisions without a quotient, and shifts by more than the word.
Proper(r, i) ==
  /\ i.op \in {"divw", "divwu"} => ~ NoQuotient(i.op, r.gpr[i.a], r.gpr[i.b])
  /\ i.op = "srw" => (r.gpr[i.b] \div W) % 2 = 0

\* What the members of the unit may hold from the instructions before.
Held(i, r) ==
  IF AnyOperands /\ i.op \in {"divw", "divwu"} /\ NoQuotient(i.op, r.gpr[i.a], r.gpr[i.b])
  THEN {Plain(v) : v \in Word} ELSE {Plain(0)}

\* CompletionUnit::Retire of one integer instruction, with the WriteBack of the register
\* file and of the condition register, and the emulator's step.
WriteBack(r, di, out) ==
  LET g == IF di.dst = None THEN r ELSE Write(r, di.dst, out.result)
  IN  IF di.outCR THEN [g EXCEPT !.cr[di.crf] = Compared(out.lt, out.gt, out.eq, r.so)] ELSE g
Signals(s, di, out) ==
  LET c == IF di.outCarry THEN [s EXCEPT !.writeCarry = TRUE, !.carry = out.ca] ELSE s
  IN  IF di.outOverflow THEN [c EXCEPT !.writeOverflow = TRUE, !.overflow = out.ov] ELSE c

Retire(i) ==
  LET di == Translate(i)
  IN  /\ retired < NCQ
      /\ di.inCarry => retired = 0
      /\ AnyOperands \/ Proper(sim, i)
      /\ \E held \in Held(i, sim) :
           LET out == Execute(i, Operand(sim, di, 1), Operand(sim, di, 2), sim.ca, held)
           IN  sim' = WriteBack(sim, di, out) /\ xerIn' = Signals(xerIn, di, out)
      /\ emu' = Emulate(emu, i)
      /\ retired' = retired + 1

\* XERRegister::Write, on the falling edge.
XERWrite ==
  /\ retired > 0 /\ retired' = 0
  /\ sim' = [sim EXCEPT !.ca = IF xerIn.writeCarry THEN xerIn.carry ELSE @,
                        !.ov = IF xerIn.writeOverflow THEN xerIn.overflow ELSE @,
                        !.so = @ \/ (xerIn.writeOverflow /\ xerIn.overflow)]
  /\ xerIn' = Quiet
  /\ UNCHANGED emu

Next == (\E i \in Instructions : Retire(i)) \/ XERWrite
Spec == Init /\ [][Next]_vars
-----------------------------------------------------------------------------
\* CheckRegisters() before a rising edge, without the summary overflow: the general
\* registers, the carry, the overflow and the comparison bits of the condition fields are
\* those of the emulator, whatever retired together ("Simulator carry != Emulator carry").
Comparison(r) == [f \in Fields |-> [r.cr[f] EXCEPT !.so = FALSE]]
RegistersAgree == retired = 0 =>
  /\ sim.gpr = emu.gpr /\ sim.ca = emu.ca /\ sim.ov = emu.ov
  /\ Comparison(sim) = Comparison(emu)

\* The summary overflow and its copies in the condition fields, which CheckRegisters() also
\* compares ("Simulator summary overflow != Emulator summary overflow").
SummaryAgrees == retired = 0 => sim.so = emu.so /\ sim.cr = emu.cr

\* The carry of an instruction that may retire next is that of an addition of integers, of
\* the operands or of the complement of one: the loop of Carry() and the way it is applied
\* twice when there is a carry in lose none.  (addme and subfme are not in the list: with
\* the carry set they add 0 to the operand and report no carry.)
Exact == {"addc", "adde", "addze", "subfc", "subfe", "subfze"}
CarryExact == retired = 0 =>
  \A i \in {j \in Instructions : j.op \in Exact} :
    LET di == Translate(i)
        x == Operand(sim, di, 1)
        y == Operand(sim, di, 2)
        first == IF i.op \in Subtracts THEN Not(x) ELSE x
        second == IF i.op \in {"addze", "subfze"} THEN 0 ELSE y
        extra == CASE i.op \in Extended -> IF sim.ca THEN 1 ELSE 0
                   [] i.op = "subfc" -> 1
                   [] i.op = "addc" -> 0
    IN  Emulate(emu, i).ca <=> first + second + extra >= 2 ^ W
=============================================================================
