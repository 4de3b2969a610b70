-------------------------- MODULE EmulatedControl --------------------------
(***************************************************************************)
(* The branches and the instructions on the condition register and the     *)
(* special registers, as the emulator executes them.  A machine m has the  *)
(* registers m.gpr, m.cr, m.lr, m.ctr, m.xer and the program counter m.pc. *)
(* The condition register is a word of fields of four bits, and field 0    *)
(* and bit 0 are the leftmost ones.  An instruction i has the fields of    *)
(* its encoding; i.imm is the displacement before its two zero bits.       *)
(***************************************************************************)
EXTENDS MachineWord

NF == W \div 4                           \* fields of the condition register
CRBit(cr, k) == Bit(cr, W - 1 - k)
SetBit(cr, k, b) == cr + (b - CRBit(cr, k)) * 2 ^ (W - 1 - k)
Field(cr, f) == (cr \div 16 ^ (NF - 1 - f)) % 16
SetField(cr, f, v) == cr + (v - Field(cr, f)) * 16 ^ (NF - 1 - f)
Not01(b) == 1 - b

Branches == {"b", "bc", "bclr", "bcctr"}
CRLogical == {"crand", "crandc", "creqv", "crnand", "crnor", "cror", "crorc", "crxor"}
Moves == {"mfspr", "mtspr", "mfcr", "mftb", "mtcrf", "mcrf"}

\* The bits of the field BO.
Conditional(i) == Bit(i.bo, 4) = 0
IfTrue(i) == Bit(i.bo, 3) = 1
Decrements(i) == Bit(i.bo, 2) = 0
IfZero(i) == Bit(i.bo, 1) = 1

\* bx_impl, bcx_impl, bclrx_impl, bcctrx_impl, with the NPC of ppc_execute.
EmulateBranch(m, i) ==
  LET counts == i.op \in {"bc", "bclr"} /\ Decrements(i)
      ctr    == IF counts THEN Trunc(m.ctr - 1) ELSE m.ctr
      ctrOk  == counts => (ctr = 0) = IfZero(i)
      condOk == i.op # "b" /\ Conditional(i) => (CRBit(m.cr, i.bi) = 1) = IfTrue(i)
      base   == IF i.aa THEN 0 ELSE m.pc
      target == CASE i.op = "b"     -> Trunc(base + Extend(i.imm * 4, W - 2))
                  [] i.op = "bc"    -> Trunc(base + Extend(i.imm * 4, W \div 2))
                  [] i.op = "bclr"  -> m.lr - (m.lr % 4)
                  [] i.op = "bcctr" -> ctr - (ctr % 4)
  IN  [m EXCEPT !.pc  = IF ctrOk /\ condOk THEN target ELSE Trunc(m.pc + 4),
                !.ctr = ctr,
                !.lr  = IF i.lk THEN Trunc(m.pc + 4) ELSE @]

\* The operation of two bits, the same expression in both programs.
BitLogic(op, a, b) ==
  CASE op = "crand"  -> a * b
    [] op = "crandc" -> a * Not01(b)
    [] op = "crnand" -> Not01(a * b)
    [] op = "cror"   -> a + b - a * b
    [] op = "crnor"  -> Not01(a + b - a * b)
    [] op = "crorc"  -> a + Not01(b) - a * Not01(b)
    [] op = "crxor"  -> (a + b) % 2
    [] op = "creqv"  -> Not01((a + b) % 2)

\* mtcrf_impl: the fields of the mask, one after the other.
MoveFields(cr, value, crm) ==
  MapThenSumSet(LAMBDA f : Field(IF f \in crm THEN value ELSE cr, f) * 16 ^ (NF - 1 - f),
                0 .. NF - 1)

\* mfspr and mtspr know three registers and do nothing for another; mftb reads the
\* register that the system register unit leaves.
EmulateMove(m, i, time) ==
  LET known == i.spr \in {"xer", "lr", "ctr"}
      next  == [m EXCEPT !.pc = Trunc(@ + 4)]
  IN  CASE i.op = "mfspr" -> IF known THEN [next EXCEPT !.gpr[i.d] = m[i.spr]] ELSE next
        [] i.op = "mtspr" -> IF known THEN [next EXCEPT ![i.spr] = m.gpr[i.d]] ELSE next
        [] i.op = "mfcr"  -> [next EXCEPT !.gpr[i.d] = m.cr]
        [] i.op = "mftb"  -> [next EXCEPT !.gpr[i.d] = time]
        [] i.op = "mtcrf" -> [next EXCEPT !.cr = MoveFields(@, m.gpr[i.d], i.crm)]
        [] i.op = "mcrf"  -> [next EXCEPT !.cr = SetField(@, i.crf, Field(@, i.crs))]

EmulateCRLogical(m, i) ==
  [m EXCEPT !.cr = SetBit(@, i.d, BitLogic(i.op, CRBit(@, i.a), CRBit(@, i.b))),
            !.pc = Trunc(@ + 4)]
=============================================================================
