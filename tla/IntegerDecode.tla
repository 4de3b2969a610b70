--------------------------- MODULE IntegerDecode ---------------------------
(***************************************************************************)
(* The *_translate functions of ppcemul/src/integer.c: what the decoder    *)
(* tells the simulator about an integer instruction, that is the registers *)
(* it reads and writes, its immediate, whether it writes a condition field *)
(* and which bits of the XER it reads and writes.                          *)
(*                                                                         *)
(* An instruction is a record: op is its name without the suffixes "o" and *)
(* ".", which are the flags oe and rc; d is its destination (rA of a       *)
(* logical instruction), a and b its sources, where a is None for an rA of *)
(* 0 that stands for the value 0; imm, sh, mb, me and crf are its fields.  *)
(***************************************************************************)
EXTENDS MachineWord

CONSTANT None

Half == W \div 2

Decoded(i, sources) ==
  [src |-> sources, hasImmed |-> FALSE, immed |-> 0, dst |-> i.d, outCR |-> i.rc, crf |-> 0,
   inCarry |-> FALSE, outCarry |-> FALSE, outOverflow |-> i.oe]
Compare(i, sources) == [Decoded(i, sources) EXCEPT !.dst = None, !.outCR = TRUE, !.crf = i.crf]

\* addi and the other forms with an immediate.  An ori that changes nothing has no destination.
ArithmeticImmediate == {"addi", "addic", "addis", "mulli", "subfic", "cmpi"}
LogicalImmediate == {"andi", "andis", "ori", "oris", "xori", "xoris", "cmpli"}
TranslateImmediate(i) ==
  LET base == IF i.op \in {"cmpi", "cmpli"} THEN Compare(i, <<i.a, None>>)
              ELSE Decoded(i, <<i.a, None>>)
      nop == i.op = "ori" /\ i.a = i.d /\ i.imm = 0
  IN  [base EXCEPT !.hasImmed = TRUE,
                   !.immed = IF i.op \in ArithmeticImmediate THEN Extend(i.imm, Half) ELSE i.imm,
                   !.dst = IF nop THEN None ELSE @,
                   !.outCarry = i.op \in {"addic", "subfic"}]

Rotates == {"rlwimi", "rlwinm", "rlwnm"}
TranslateRotate(i) ==
  Decoded(i, CASE i.op = "rlwimi" -> <<i.a, i.d>>      \* rA is a source too
               [] i.op = "rlwinm" -> <<i.a, None>>
               [] i.op = "rlwnm"  -> <<i.a, i.b>>)

Logical == {"and", "andc", "eqv", "nand", "nor", "or", "orc", "xor"}
Unary == {"cntlzw", "extsb", "extsh"}
Compares == {"cmp", "cmpl"}
TranslateLogical(i) ==
  CASE i.op \in Compares -> Compare(i, <<i.a, i.b>>)
    [] i.op \in Unary    -> Decoded(i, <<i.a, None>>)
    [] i.op \in Logical  -> Decoded(i, <<i.a, i.b>>)

Shifts == {"slw", "srw", "sraw", "srawi"}
TranslateShift(i) ==
  [Decoded(i, <<i.a, IF i.op = "srawi" THEN None ELSE i.b>>)
     EXCEPT !.outCarry = i.op \in {"sraw", "srawi"}]

Adds == {"add", "addc", "adde", "addme", "addze"}
Extended == {"adde", "addme", "addze", "subfe", "subfme", "subfze"}
\* (Mutant: an addition with the carry does not write the carry.)
TranslateAddSilently(i) ==
  [Decoded(i, <<i.a, i.b>>) EXCEPT !.inCarry = i.op \in Extended, !.outCarry = i.op = "addc"]
TranslateAdd(i) ==
  [Decoded(i, <<i.a, IF i.op \in {"addme", "addze"} THEN None ELSE i.b>>)
     EXCEPT !.inCarry = i.op \in Extended, !.outCarry = i.op # "add"]

MulDivs == {"divw", "divwu", "mulhw", "mulhwu", "mullw"}
TranslateMulDiv(i) == Decoded(i, <<i.a, i.b>>)

Subtracts == {"neg", "subf", "subfc", "subfe", "subfme", "subfze"}
TranslateSubtract(i) ==
  [Decoded(i, <<i.a, IF i.op \in {"neg", "subfme"} THEN None ELSE i.b>>)
     EXCEPT !.inCarry = i.op \in Extended,
            !.outCarry = i.op \in {"subfc", "subfe", "subfme", "subfze"}]

Translate(i) ==
  CASE i.op \in ArithmeticImmediate \cup LogicalImmediate -> TranslateImmediate(i)
    [] i.op \in Rotates -> TranslateRotate(i)
    [] i.op \in Logical \cup Unary \cup Compares -> TranslateLogical(i)
    [] i.op \in Shifts -> TranslateShift(i)
    [] i.op \in Adds -> TranslateAdd(i)
    [] i.op \in MulDivs -> TranslateMulDiv(i)
    [] i.op \in Subtracts -> TranslateSubtract(i)
=============================================================================
