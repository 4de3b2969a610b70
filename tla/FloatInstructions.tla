------------------------- MODULE FloatInstructions -------------------------
(***************************************************************************)
(* The floating point instructions in the emulator (EmulateFloat), and     *)
(* what the simulator makes of them: the operands that the translation     *)
(* asks for, the result of the floating point unit and the write back of   *)
(* the register and of the condition field (SimulateFloat).  i.single is   *)
(* set for the forms that end in s.                                        *)
(***************************************************************************)
EXTENDS ControlUnits

(***************************************************************************)
(* The floating point arithmetic of the host, which both programs use: an  *)
(* abstraction with the properties that they rely on.  A double is a       *)
(* pattern of 2W bits, read as a fixed point number in two's complement    *)
(* with one pattern for NaN.  A float keeps the upper W bits, in another   *)
(* order (its exponent is not where that of a double is), so that a        *)
(* conversion to float loses the lower half, every float is a double, and  *)
(* the bytes of a float are not bytes of the double.                       *)
(***************************************************************************)
Double == 0 .. 2 ^ (2 * W) - 1
Single == Word
NaN == 2 ^ (2 * W - 1)

Number(x)  == IF x >= NaN THEN x - 2 ^ (2 * W) ELSE x
Rounded(n) == n % 2 ^ (2 * W)            \* a sum out of the range wraps

Strict(a, b, n) == IF NaN \in {a, b} THEN NaN ELSE Rounded(n)
FAdd(a, b) == Strict(a, b, Number(a) + Number(b))
FSub(a, b) == Strict(a, b, Number(a) - Number(b))
FMul(a, b) == Strict(a, b, (Number(a) * Number(b)) \div 2 ^ W)
FDiv(a, b) ==
  LET n == Number(a) * 2 ^ W
  IN  IF b = 0 THEN NaN
      ELSE Strict(a, b, IF Number(b) > 0 THEN n \div Number(b) ELSE (- n) \div (- Number(b)))
FNeg(a)    == Strict(a, a, - Number(a))
FAbs(a)    == IF Number(a) < 0 THEN FNeg(a) ELSE a
FLess(a, b) == Number(a) < Number(b)

Half == 2 ^ (W \div 2)
SwapHalves(s) == (s % Half) * Half + s \div Half
ToSingle(x) == SwapHalves(x \div 2 ^ W)  \* (float) x, as the pattern of the float
ToDouble(s) == SwapHalves(s) * 2 ^ W
Narrow(x)   == ToDouble(ToSingle(x))     \* (double)(float) x

\* (int) x, toward zero, as a word; the host gives the smallest integer for a NaN.
ToInteger(x) ==
  IF x = NaN THEN MinInt
  ELSE Trunc(IF Number(x) >= 0 THEN Number(x) \div 2 ^ W ELSE - ((- Number(x)) \div 2 ^ W))
-----------------------------------------------------------------------------
TwoSources == {"fadd", "fsub", "fdiv"}
Fused  == {"fmadd", "fmsub", "fnmadd", "fnmsub"}
OneSource == {"fmr", "fneg", "fabs", "fnabs", "frsp", "fctiwz"}
ToFPSCR == {"mtfsb0", "mtfsf", "mtfsfi"}
FloatOps == TwoSources \cup Fused \cup OneSource \cup ToFPSCR \cup {"fmul", "fcmpu", "mffs"}

\* The results of the *_impl functions, of the registers FA, FB and FC.
EmulatedFloat(op, a, b, c) ==
  CASE op = "fadd"   -> FAdd(a, b)
    [] op = "fsub"   -> FSub(a, b)
    [] op = "fmul"   -> FMul(a, c)
    [] op = "fdiv"   -> FDiv(a, b)
    [] op = "fmadd"  -> FAdd(FMul(a, c), b)
    [] op = "fmsub"  -> FSub(FMul(a, c), b)
    [] op = "fnmadd" -> FNeg(FAdd(FMul(a, c), b))
    [] op = "fnmsub" -> FNeg(FSub(FMul(a, c), b))
    [] op = "fmr"    -> b
    [] op = "fneg"   -> FNeg(b)
    [] op = "fabs"   -> FAbs(b)
    [] op = "fnabs"  -> FNeg(FAbs(b))
    [] op = "frsp"   -> Narrow(b)
    [] op = "fctiwz" -> ToInteger(b)
    [] op = "mffs"   -> 0                 \* nothing ever writes the FPSCR

FloatCompared(a, b) ==
  IF NaN \in {a, b} THEN 1 ELSE IF FLess(a, b) THEN 8 ELSE IF FLess(b, a) THEN 4 ELSE 2

\* COMPUTE_CR1 moves bits of the FPSCR, which are zero.  fctiwz and mffs leave CR1 alone,
\* and the instructions that would write the FPSCR do nothing.
EmulateFloat(m, i) ==
  LET a == m.fpr[i.a]
      b == m.fpr[i.b]
      value == EmulatedFloat(i.op, a, b, m.fpr[i.c])
      next == [m EXCEPT !.pc = Trunc(@ + 4)]
      done == [next EXCEPT !.fpr[i.d] = IF i.single THEN Narrow(value) ELSE value]
  IN  CASE i.op \in ToFPSCR -> next
        [] i.op = "fcmpu"   -> [next EXCEPT !.cr = SetField(@, i.crf, FloatCompared(a, b))]
        [] i.op \notin ToFPSCR \cup {"fcmpu"} ->
             IF i.rc /\ i.op \notin {"fctiwz", "mffs"}
             THEN [done EXCEPT !.cr = SetField(@, 1, 0)] ELSE done

\* The *_translate functions: which of the three operands is a register, and whether
\* there is a result and a condition field.
TranslateFloat(i) ==
  [src |-> CASE i.op \in TwoSources \cup {"fcmpu"} -> {0, 1}
             [] i.op = "fmul"     -> {0, 2}
             [] i.op \in Fused    -> {0, 1, 2}
             [] i.op \in OneSource \cup {"mtfsf"} -> {1}
             [] i.op \in {"mffs", "mtfsb0", "mtfsfi"} -> {},
   dst |-> i.op \notin ToFPSCR \cup {"fcmpu"},
   outCR |-> i.op = "fcmpu" \/ (i.rc /\ i.op \notin ToFPSCR),
   crf |-> IF i.op = "fcmpu" THEN i.crf ELSE 1]

\* FloatingPointUnit::Execute: the result of data[0], data[1] and data[2], and the flags
\* fx, fex, vx, ox, which only a comparison sets.  The unit does not know fnmsubs.
Implemented(i) == ~ (i.op = "fnmsub" /\ i.single)
FloatResult(i, data) ==
  LET product == FMul(data[0], data[2])
      value == CASE i.op \in {"mffs", "fcmpu"} \cup ToFPSCR -> 0
                 [] i.op = "fmr"    -> data[1]
                 [] i.op = "fneg"   -> FNeg(data[1])
                 [] i.op = "fabs"   -> FAbs(data[1])
                 [] i.op = "fnabs"  -> FNeg(FAbs(data[1]))
                 [] i.op = "frsp"   -> Narrow(data[1])
                 [] i.op = "fctiwz" -> ToInteger(data[1])
                 [] i.op = "fadd"   -> FAdd(data[0], data[1])
                 [] i.op = "fsub"   -> FSub(data[0], data[1])
                 [] i.op = "fdiv"   -> FDiv(data[0], data[1])
                 [] i.op = "fmul"   -> product
                 [] i.op = "fmadd"  -> FAdd(product, data[1])
                 [] i.op = "fmsub"  -> FSub(product, data[1])
                 [] i.op = "fnmadd" -> FNeg(FAdd(product, data[1]))
                 [] i.op = "fnmsub" -> FNeg(FSub(product, data[1]))
      ox  == NaN \in {data[0], data[1]}
      fx  == ~ ox /\ FLess(data[0], data[1])
      fex == ~ ox /\ ~ fx /\ FLess(data[1], data[0])
  IN  [data |-> IF i.single THEN Narrow(value) ELSE value,
       cr |-> IF i.op # "fcmpu" THEN 0
              ELSE IF ox THEN 1 ELSE IF fx THEN 8 ELSE IF fex THEN 4 ELSE 2]

\* The operands of the reservation station, and the retirement.
SimulateFloat(r, i) ==
  LET di   == TranslateFloat(i)
      port == [k \in 0 .. 2 |-> r.fpr[<<i.a, i.b, i.c>>[k + 1]]]
      out  == FloatResult(i, [k \in 0 .. 2 |-> IF k \in di.src THEN port[k] ELSE 0])
      next == [r EXCEPT !.pc = Trunc(@ + 4)]
      done == IF di.dst THEN [next EXCEPT !.fpr[i.d] = out.data] ELSE next
  IN  IF di.outCR THEN WriteBackCR(done, di.crf, out.cr) ELSE done
=============================================================================
