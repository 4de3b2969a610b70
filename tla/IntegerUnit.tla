----------------------------- MODULE IntegerUnit -----------------------------
(***************************************************************************)
(* What the integer unit of the simulator computes: the switch of          *)
(* IntegerUnit::Execute().  The unit sees two operands, x and y (the       *)
(* second is the immediate if there is one), the carry of the XER, and     *)
(* what its members hold from the instruction before.  How long it takes,  *)
(* and when it is flushed, is in ExecutionUnits.                           *)
(***************************************************************************)
EXTENDS EmulatedInteger

\* What the unit sends: the result, the comparison bits and the XER bits.  Only the tags
\* of the instruction decide which of them anybody takes.
Out(v, ca, ov) ==
  [result |-> v, lt |-> Signed(v) < 0, gt |-> Signed(v) > 0, eq |-> v = 0, ca |-> ca, ov |-> ov]
Plain(v) == Out(v, FALSE, FALSE)

ExecuteImmediate(op, x, y) ==
  CASE op \in {"addi", "addic"} -> Out(Trunc(x + y), (op = "addic" /\ Carry(x, y)), FALSE)
    [] op = "addis"  -> Plain(Trunc(x + Shl(y, Half)))
    [] op = "mulli"  -> Plain(Trunc(x * y))
    [] op = "subfic" -> Out(Trunc(y - x), (x = 0 \/ Carry(Neg(x), y)), FALSE)
    [] op = "cmpi"   -> Plain(Trunc(x - y))
    [] op = "cmpli"  -> [Plain(0) EXCEPT !.lt = x < y, !.gt = x > y, !.eq = x = y]
    [] op = "andi"   -> Plain(And(x, y))
    [] op = "andis"  -> Plain(And(x, Shl(y, Half)))
    [] op = "ori"    -> Plain(Or(x, y))
    [] op = "oris"   -> Plain(Or(x, Shl(y, Half)))
    [] op = "xori"   -> Plain(Xor(x, y))
    [] op = "xoris"  -> Plain(Xor(x, Shl(y, Half)))

ExecuteRotate(i, x, y) ==
  LET m == Mask(i.mb, i.me)
      r == Rotate(x, IF i.op = "rlwnm" THEN y % W ELSE i.sh)
  IN  Plain(IF i.op = "rlwimi" THEN Or(And(r, m), And(y, Not(m))) ELSE And(r, m))

ExecuteCarrying(op, x, y) ==
  CASE op = "addc"  -> Out(Trunc(x + y), Carry(x, y), Overflow(x, y))
    [] op = "subfc" -> Out(Trunc(y - x), (x = 0 \/ Carry(Neg(x), y)), Underflow(y, x))
    [] op = "cmp"   -> Plain(Trunc(x - y))
    [] op = "cmpl"  -> [Plain(0) EXCEPT !.lt = x < y, !.gt = x > y, !.eq = x = y]

\* Both slw and srw look at the bit of the count above the shift.
ExecuteShift(i, x, y) ==
  LET n == IF i.op = "srawi" THEN i.sh ELSE y
      over == (n \div W) % 2 = 1
      negative == Signed(x) < 0
  IN  CASE i.op = "slw" -> Plain(IF over THEN 0 ELSE Shl(x, n))
        [] i.op = "srw" -> Plain(IF over THEN 0 ELSE Shr(x, n))
        [] i.op = "sraw" /\ n = 0 -> Plain(x)
        [] i.op = "sraw" /\ over -> Out(IF negative THEN Not(0) ELSE 0,
                                        (negative /\ And(x, MaxInt) # 0), FALSE)
        [] i.op = "srawi" \/ (i.op = "sraw" /\ n # 0 /\ ~ over) ->
             Out(Sar(x, n), (n # 0 /\ negative /\ Shl(x, W - (n % W)) # 0), FALSE)

\* The loop that looks for the first one from the left.
CountZeros(x) ==
  LET n[k \in 0 .. W] == IF k = W \/ Bit(x, W - 1 - k) = 1 THEN k ELSE n[k + 1] IN n[0]

ExecuteLogical(op, x, y) ==
  Plain(CASE op = "and"  -> And(x, y)
          [] op = "andc" -> And(x, Not(y))
          [] op = "nor"  -> Not(Or(x, y))
          [] op = "eqv"  -> Not(Xor(x, y))
          [] op = "xor"  -> Xor(x, y)
          [] op = "orc"  -> Or(x, Not(y))
          [] op = "or"   -> Or(x, y)
          [] op = "nand" -> Not(And(x, y))
          [] op = "cntlzw" -> CountZeros(x)
          [] op = "extsb"  -> Extend(x, W \div 4)
          [] op = "extsh"  -> Extend(x, Half))

\* subf and neg: an overflow, and no carry.
ExecuteSubtract(op, x, y) ==
  IF op = "subf" THEN Out(Trunc(y - x), FALSE, Underflow(y, x))
  ELSE Out(Neg(x), FALSE, x = MinInt)

\* The instructions that add the carry: the first operand is x or its complement.
First(op, x) == IF op \in Subtracts THEN Not(x) ELSE x
CarryIn(inCarry) == IF inCarry THEN 1 ELSE 0

ExecuteExtended(op, x, y, inCarry) ==
  LET a == First(op, x)
      c == CarryIn(inCarry)
  IN  Out(Trunc(a + y + c), Carry(a, y) \/ Carry(Trunc(a + y), c),
          Overflow(a, y) \/ Overflow(Trunc(a + y), c))

\* The same with 0 or -1 for the second operand, added to the carry first.
ExecuteZeroOrMinusOne(op, x, inCarry) ==
  LET a == First(op, x)
      m == IF op \in {"addme", "subfme"} THEN Trunc(CarryIn(inCarry) - 1) ELSE CarryIn(inCarry)
  IN  Out(Trunc(a + m), Carry(a, m), Overflow(a, m))

\* mullwo compares the low word of the product, extended with zeros, with both bounds, so
\* that every product overflows.
ExecuteMultiply(op, x, y) ==
  LET low == Trunc(x * y)
  IN  CASE op = "mulhw"  -> Plain(Trunc((Signed(x) * Signed(y)) \div 2 ^ W))
        [] op = "mulhwu" -> Plain((x * y) \div 2 ^ W)
        [] op = "mullw"  -> Out(low, FALSE, low > MaxInt \/ low < MinInt)

\* addo tests bit 27 (0x8000000) of a sum of 32 bits, whose carry is gone.
TestedBit == IF W > 4 THEN W - 5 ELSE 0
ExecuteAdd(x, y) ==
  LET v == Trunc(x + y) IN Out(v, FALSE, Bit(v, TestedBit) # 0)

\* Division: without a quotient the result is 0 or what the unit holds, and the bits of
\* the comparison are those it holds.
ExecuteDivide(op, x, y, held) ==
  IF y = 0 THEN [held EXCEPT !.result = 0, !.ca = FALSE, !.ov = TRUE]
  ELSE IF NoQuotient(op, x, y) THEN [held EXCEPT !.ca = FALSE, !.ov = TRUE]
  ELSE Plain(IF op = "divw" THEN Trunc(Quotient(Signed(x), Signed(y))) ELSE x \div y)

Execute(i, x, y, inCarry, held) ==
  CASE i.op \in {"addi", "addis"} /\ i.a = None ->                       \* operation.nullRA
         Plain(IF i.op = "addi" THEN y ELSE Shl(y, Half))
    [] i.op \in ArithmeticImmediate \cup LogicalImmediate
         /\ ~ (i.op \in {"addi", "addis"} /\ i.a = None) -> ExecuteImmediate(i.op, x, y)
    [] i.op \in Rotates -> ExecuteRotate(i, x, y)
    [] i.op \in {"addc", "subfc"} \cup Compares -> ExecuteCarrying(i.op, x, y)
    [] i.op \in Shifts -> ExecuteShift(i, x, y)
    [] i.op \in Logical \cup Unary -> ExecuteLogical(i.op, x, y)
    [] i.op \in {"subf", "neg"} -> ExecuteSubtract(i.op, x, y)
    [] i.op \in {"adde", "subfe"} -> ExecuteExtended(i.op, x, y, inCarry)
    [] i.op \in Extended \ {"adde", "subfe"} -> ExecuteZeroOrMinusOne(i.op, x, inCarry)
    [] i.op \in {"divw", "divwu"} -> ExecuteDivide(i.op, x, y, held)
    [] i.op \in MulDivs \ {"divw", "divwu"} -> ExecuteMultiply(i.op, x, y)
    [] i.op = "add" -> ExecuteAdd(x, y)
=============================================================================
