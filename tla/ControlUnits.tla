---------------------------- MODULE ControlUnits ----------------------------
(***************************************************************************)
(* The same instructions in the simulator: the target that the fetch unit  *)
(* computes, the branch unit, the system register unit, and the write back *)
(* of LR, CTR and the condition register when they retire.  A machine r    *)
(* has the registers of the register files, the summary overflow r.so, and *)
(* r.pc, the address of the next instruction that enters the reorder       *)
(* buffer and stays there.                                                 *)
(***************************************************************************)
EXTENDS EmulatedControl

\* (Mutant: an absolute target is taken for a displacement.)
FetchTargetRelative(pc, i) ==
  Trunc(pc + Extend(i.imm * 4, IF i.op = "b" THEN W - 2 ELSE W \div 2))

\* ppc_get_conditional_branch_target_addr and the unconditional one, for entry.nia.
FetchTarget(pc, i) ==
  Trunc((IF i.aa THEN 0 ELSE pc) + Extend(i.imm * 4, IF i.op = "b" THEN W - 2 ELSE W \div 2))

\* BHT::Predict answers for bc only; the other branches wait for the branch unit,
\* and b is taken by the fetch unit.
Predictions(i) == IF i.op = "bc" THEN BOOLEAN ELSE {i.op = "b"}

\* The *_translate functions: the operands, the results and the displacement.  That of b
\* is the field before its two zero bits.
TranslateBranch(i) ==
  LET counts == i.op \in {"bc", "bclr"} /\ Decrements(i)
  IN  [reads |-> {x \in {"cr", "lr", "ctr"} :
                    CASE x = "cr"  -> i.op # "b" /\ Conditional(i)
                      [] x = "lr"  -> i.op = "bclr"
                      [] x = "ctr" -> i.op = "bcctr" \/ counts},
       crf |-> i.bi \div 4, outLR |-> i.lk, outCTR |-> counts,
       immed |-> IF i.op = "b" THEN Extend(i.imm, W - 2) ELSE Extend(i.imm * 4, W \div 2)]

\* BranchUnit::OnRisingEdge.  Of b only the link register counts: it never reports a
\* misprediction.
BranchResult(i, ops, immed, predicted) ==
  LET ctr    == Trunc(ops.ctr - 1)
      ctrOk  == i.op \in {"bc", "bclr"} /\ Decrements(i) => (ctr = 0) = IfZero(i)
      condOk == Conditional(i) => (Bit(ops.crfield, 3 - (i.bi % 4)) = 1) = IfTrue(i)
      taken  == i.op = "b" \/ (ctrOk /\ condOk)
      nia    == CASE ~ taken -> Trunc(ops.pc + 4)
                  [] taken /\ i.op \in {"b", "bc"} -> Trunc((IF i.aa THEN 0 ELSE ops.pc) + immed)
                  [] taken /\ i.op = "bclr"  -> And(ops.lr, 2 ^ W - 4)
                  [] taken /\ i.op = "bcctr" -> And(ops.ctr, 2 ^ W - 4)
  IN  [nia |-> nia, lr |-> Trunc(ops.pc + 4), ctr |-> ctr,
       mispredicted |-> i.op # "b" /\ predicted # taken]

\* The branch in order: its operands, its result, what the fetch unit fetched after it,
\* and CompletionUnit::Retire, with the recovery from a wrong prediction.
SimulateBranch(r, i, predicted) ==
  LET di == TranslateBranch(i)
      port(x, value) == IF x \in di.reads THEN value ELSE 0
      ops == [pc |-> r.pc, crfield |-> port("cr", Field(r.cr, di.crf)),
              lr |-> port("lr", r.lr), ctr |-> port("ctr", r.ctr)]
      out == BranchResult(i, ops, di.immed, predicted)
      fetched == IF predicted THEN FetchTarget(r.pc, i) ELSE Trunc(r.pc + 4)
  IN  [r EXCEPT !.lr  = IF di.outLR THEN out.lr ELSE @,
                !.ctr = IF di.outCTR THEN out.ctr ELSE @,
                !.pc  = IF out.mispredicted THEN out.nia ELSE fetched]

\* (Mutant: the field is not cleared.)
WriteBackCRMerged(r, f, data) ==
  [r EXCEPT !.cr = Or(@, Trunc((IF r.so THEN Or(data, 1) ELSE data) * 16 ^ (NF - 1 - f)))]

\* ConditionRegister::WriteBack of one renamed field: the summary overflow enters the
\* buffer, the field is cleared and the buffer is or'ed in, whatever bits it has.
WriteBackCR(r, f, data) ==
  LET sh == 16 ^ (NF - 1 - f)
      buffer == IF r.so THEN Or(data, 1) ELSE data
  IN  [r EXCEPT !.cr = Or(And(@, Not(15 * sh)), Trunc(buffer * sh))]

\* ConditionRegister::WriteCR, the masked write.
WriteCR(r, crm, value) ==
  LET mask == MapThenSumSet(LAMBDA f : 15 * 16 ^ (NF - 1 - f), crm)
  IN  [r EXCEPT !.cr = Or(And(@, Not(mask)), And(value, mask))]

\* The logical instructions of the system register unit: the field of the destination
\* bit, with the fields to the left of it, and the new bit in it.
UnitCRLogical(cr, i) ==
  LET k == W - 1 - i.d
      crfield == cr \div 2 ^ (k - (k % 4))
      d == BitLogic(i.op, CRBit(cr, i.a), CRBit(cr, i.b)) * 2 ^ (k % 4)
  IN  Or(And(crfield, Not(2 ^ (k % 4))), d)

SimulateCRLogical(r, i) ==
  [WriteBackCR(r, i.d \div 4, UnitCRLogical(r.cr, i)) EXCEPT !.pc = Trunc(@ + 4)]

\* The results of the system register unit for a register and for a renamed field: a
\* register other than LR and CTR gives held, the result of an instruction before.
UnitResult(r, i, time, held) ==
  CASE i.op = "mfspr" -> IF i.spr \in {"lr", "ctr"} THEN r[i.spr] ELSE held
    [] i.op = "mfcr"  -> r.cr
    [] i.op = "mftb"  -> time
UnitField(r, i, f) == IF i.op = "mcrf" THEN Field(r.cr, i.crs) ELSE Field(r.gpr[i.d], f)

\* The moves, with their retirement: mtspr writes only LR or CTR, and mtcrf one field by a
\* renamed field and several by the mask.
SimulateMove(r, i, time, held) ==
  LET next == [r EXCEPT !.pc = Trunc(@ + 4)]
      fields == IF i.op = "mcrf" THEN {i.crf} ELSE i.crm
  IN  CASE i.op \in {"mfspr", "mfcr", "mftb"} ->
             [next EXCEPT !.gpr[i.d] = UnitResult(r, i, time, held)]
        [] i.op = "mtspr" ->
             IF i.spr \in {"lr", "ctr"} THEN [next EXCEPT ![i.spr] = r.gpr[i.d]] ELSE next
        [] i.op \in {"mcrf", "mtcrf"} ->
             IF Cardinality(fields) = 1
             THEN LET f == CHOOSE f \in fields : TRUE IN WriteBackCR(next, f, UnitField(r, i, f))
             ELSE WriteCR(next, fields, r.gpr[i.d])
=============================================================================
