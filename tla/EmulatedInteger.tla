--------------------------- MODULE EmulatedInteger ---------------------------
(***************************************************************************)
(* The integer instructions of the functional emulator: the *_impl         *)
(* functions of ppcemul/src/integer.c.  A register state r is what         *)
(* registers.h declares, as far as these instructions see it: gpr, the     *)
(* fields of CR, and the bits CA, OV and SO of XER.                        *)
(***************************************************************************)
EXTENDS IntegerDecode

\* The four bits of a condition field.
Compared(lt, gt, eq, so) == [lt |-> lt, gt |-> gt, eq |-> eq, so |-> so]
BySign(v, so) == Compared(Signed(v) < 0, Signed(v) > 0, v = 0, so)

Write(r, d, v) == [r EXCEPT !.gpr[d] = v]
SetCA(r, c) == [r EXCEPT !.ca = c]
SetOV(r, i, o) ==
  IF ~ i.oe THEN r ELSE IF o THEN [r EXCEPT !.ov = TRUE, !.so = TRUE] ELSE [r EXCEPT !.ov = FALSE]
\* COMPUTE_CR0, with the summary overflow that the instruction leaves.
Record(r, i, v) == IF i.rc THEN [r EXCEPT !.cr[0] = BySign(v, r.so)] ELSE r

ImmediateImpl(r, i) ==
  LET a == IF i.a = None THEN 0 ELSE r.gpr[i.a]
      s == Extend(i.imm, Half)
      high == Shl(i.imm, Half)
      v == CASE i.op \in {"addi", "addic"} -> Trunc(a + s)
             [] i.op = "addis"  -> Trunc(a + high)
             [] i.op = "mulli"  -> Trunc(a * s)
             [] i.op = "subfic" -> Trunc(s - a)
             [] i.op = "andi"   -> And(a, i.imm)
             [] i.op = "andis"  -> And(a, high)
             [] i.op = "ori"    -> Or(a, i.imm)
             [] i.op = "oris"   -> Or(a, high)
             [] i.op = "xori"   -> Xor(a, i.imm)
             [] i.op = "xoris"  -> Xor(a, high)
  IN  CASE i.op = "cmpi"   -> [r EXCEPT !.cr[i.crf] = BySign(Trunc(a - s), r.so)]
        [] i.op = "cmpli"  -> [r EXCEPT !.cr[i.crf] = Compared(a < i.imm, a > i.imm, a = i.imm, r.so)]
        [] i.op = "addic"  -> Record(SetCA(Write(r, i.d, v), Carry(a, s)), i, v)
        [] i.op = "subfic" -> SetCA(Write(r, i.d, v), a = 0 \/ Carry(Neg(a), s))
        [] OTHER           -> Record(Write(r, i.d, v), i, v)

RotateImpl(r, i) ==
  LET m == Mask(i.mb, i.me)
      by == IF i.op = "rlwnm" THEN r.gpr[i.b] % W ELSE i.sh
      kept == IF i.op = "rlwimi" THEN And(r.gpr[i.d], Not(m)) ELSE 0
      v == Or(And(Rotate(r.gpr[i.a], by), m), kept)
  IN  Record(Write(r, i.d, v), i, v)

\* The number of zeros before the first one.
LeadingZeros(x) == W - Cardinality({k \in 0 .. W - 1 : x >= 2 ^ k})

LogicalImpl(r, i) ==
  LET a == r.gpr[i.a]
      b == r.gpr[i.b]
      v == CASE i.op = "and"  -> And(a, b)
             [] i.op = "andc" -> And(a, Not(b))
             [] i.op = "eqv"  -> Not(Xor(a, b))
             [] i.op = "nand" -> Not(And(a, b))
             [] i.op = "nor"  -> Not(Or(a, b))
             [] i.op = "or"   -> Or(a, b)
             [] i.op = "orc"  -> Or(a, Not(b))
             [] i.op = "xor"  -> Xor(a, b)
             [] i.op = "cntlzw" -> LeadingZeros(a)
             [] i.op = "extsb"  -> Extend(a, W \div 4)
             [] i.op = "extsh"  -> Extend(a, Half)
  IN  CASE i.op = "cmp"  -> [r EXCEPT !.cr[i.crf] = BySign(Trunc(a - b), r.so)]
        [] i.op = "cmpl" -> [r EXCEPT !.cr[i.crf] = Compared(a < b, a > b, a = b, r.so)]
        [] OTHER         -> Record(Write(r, i.d, v), i, v)

\* srw, unlike slw and sraw, does not look at the bit of the count above the shift.
ShiftImpl(r, i) ==
  LET a == r.gpr[i.a]
      n == IF i.op = "srawi" THEN i.sh ELSE r.gpr[i.b]
      over == (n \div W) % 2 = 1                                     \* n & 0x20
      negative == Signed(a) < 0
      v == CASE i.op = "slw" -> IF over THEN 0 ELSE Shl(a, n)
             [] i.op = "srw" -> Shr(a, n)
             [] i.op \in {"sraw", "srawi"} /\ over -> IF negative THEN Not(0) ELSE 0
             [] i.op \in {"sraw", "srawi"} /\ ~ over -> Sar(a, n)
      lost == CASE n = 0 -> FALSE
                [] n # 0 /\ over -> negative /\ And(a, MaxInt) # 0
                [] n # 0 /\ ~ over -> negative /\ Shl(a, W - (n % W)) # 0
      s == IF i.op \in {"sraw", "srawi"} THEN SetCA(r, lost) ELSE r
  IN  Record(Write(s, i.d, v), i, v)

AddImpl(r, i) ==
  LET a == r.gpr[i.a]
      b == r.gpr[i.b]
      c == IF r.ca THEN 1 ELSE 0
      m == Trunc(c - 1)
      v == CASE i.op \in {"add", "addc"} -> Trunc(a + b)
             [] i.op = "adde"  -> Trunc(a + b + c)
             [] i.op = "addme" -> Trunc(a + m)
             [] i.op = "addze" -> Trunc(a + c)
      carry == CASE i.op = "addc"  -> Carry(a, b)
                 [] i.op = "adde"  -> Carry(a, b) \/ (c # 0 /\ Carry(Trunc(a + b), c))
                 [] i.op = "addme" -> Carry(a, m)
                 [] i.op = "addze" -> Carry(a, c)
      over == CASE i.op \in {"add", "addc"} -> Overflow(a, b)
                [] i.op = "adde"  -> Overflow(a, b) \/ Overflow(Trunc(a + b), c)
                [] i.op = "addme" -> Overflow(a, m)
                [] i.op = "addze" -> Overflow(a, c)
      s == IF i.op = "add" THEN r ELSE SetCA(r, carry)
  IN  Record(SetOV(Write(s, i.d, v), i, over), i, v)

\* Truncation towards zero, as C divides.
Abs(x) == IF x >= 0 THEN x ELSE - x
Quotient(x, y) ==
  LET q == Abs(x) \div Abs(y) IN IF (x >= 0) = (y >= 0) THEN q ELSE - q
\* A division without a quotient, which leaves the registers.
NoQuotient(op, a, b) == b = 0 \/ (op = "divw" /\ a = MinInt /\ b = Not(0))

DivideImpl(r, i) ==
  LET a == r.gpr[i.a]
      b == r.gpr[i.b]
      v == IF i.op = "divw" THEN Trunc(Quotient(Signed(a), Signed(b))) ELSE a \div b
  IN  IF NoQuotient(i.op, a, b) THEN SetOV(r, i, TRUE)
      ELSE Record(SetOV(Write(r, i.d, v), i, FALSE), i, v)

\* mullwo without overflow resets SO and not OV.
MultiplyImpl(r, i) ==
  LET a == r.gpr[i.a]
      b == r.gpr[i.b]
      product == Signed(a) * Signed(b)
      v == CASE i.op = "mulhw"  -> Trunc(product \div 2 ^ W)
             [] i.op = "mulhwu" -> (a * b) \div 2 ^ W
             [] i.op = "mullw"  -> Trunc(product)
      s == IF i.op # "mullw" \/ ~ i.oe THEN r
           ELSE IF product \div 2 ^ W # 0 THEN SetOV(r, i, TRUE) ELSE [r EXCEPT !.so = FALSE]
  IN  Record(Write(s, i.d, v), i, v)

SubtractImpl(r, i) ==
  LET x == r.gpr[i.a]
      a == Not(x)
      b == r.gpr[i.b]
      c == IF r.ca THEN 1 ELSE 0
      m == Trunc(c - 1)
      v == CASE i.op = "neg" -> Neg(x)
             [] i.op \in {"subf", "subfc"} -> Trunc(b - x)
             [] i.op = "subfe"  -> Trunc(a + b + c)
             [] i.op = "subfme" -> Trunc(a + m)
             [] i.op = "subfze" -> Trunc(a + c)
      carry == CASE i.op = "subfc"  -> x = 0 \/ Carry(b, Neg(x))
                 [] i.op = "subfe"  -> Carry(a, b) \/ Carry(Trunc(a + b), c)
                 [] i.op = "subfme" -> Carry(a, m)
                 [] i.op = "subfze" -> Carry(a, c)
      over == CASE i.op = "neg" -> x = MinInt
                [] i.op \in {"subf", "subfc"} -> Underflow(b, x)
                [] i.op = "subfe"  -> Overflow(b, a) \/ Overflow(Trunc(b + a), c)
                [] i.op = "subfme" -> Overflow(a, m)
                [] i.op = "subfze" -> Overflow(a, c)
      s == IF i.op \in {"neg", "subf"} THEN r ELSE SetCA(r, carry)
  IN  Record(SetOV(Write(s, i.d, v), i, over), i, v)

\* ppc_execute() of an integer instruction.
Emulate(r, i) ==
  CASE i.op \in ArithmeticImmediate \cup LogicalImmediate -> ImmediateImpl(r, i)
    [] i.op \in Rotates -> RotateImpl(r, i)
    [] i.op \in Logical \cup Unary \cup Compares -> LogicalImpl(r, i)
    [] i.op \in Shifts -> ShiftImpl(r, i)
    [] i.op \in Adds -> AddImpl(r, i)
    [] i.op \in {"divw", "divwu"} -> DivideImpl(r, i)
    [] i.op \in MulDivs \ {"divw", "divwu"} -> MultiplyImpl(r, i)
    [] i.op \in Subtracts -> SubtractImpl(r, i)
=============================================================================
