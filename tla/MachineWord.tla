---------------------------- MODULE MachineWord ----------------------------
(***************************************************************************)
(* Words of W bits, as the integers below 2^W, with the operations of C    *)
(* that both implementations of the integer instructions use, and the      *)
(* helper functions that are the same text in both (Carry, Overflow,       *)
(* Underflow, the rotation and its mask).                                  *)
(***************************************************************************)
EXTENDS Integers, FiniteSetsExt

CONSTANT W
\* A shift count is masked with W - 1, and a half word has W / 2 bits.
ASSUME WordSize == \E k \in 1 .. 5 : W = 2 ^ k

Word == 0 .. 2 ^ W - 1
Trunc(x) == x % 2 ^ W
Signed(x) == IF x >= 2 ^ (W - 1) THEN x - 2 ^ W ELSE x
MaxInt == 2 ^ (W - 1) - 1
MinInt == 2 ^ (W - 1)                    \* the word 0x80000000

\* Sign extension of the low n bits.
Extend(x, n) ==
  LET low == x % 2 ^ n IN IF low >= 2 ^ (n - 1) THEN Trunc(low - 2 ^ n) ELSE low

Bit(x, k) == (x \div 2 ^ k) % 2
AndOf == [a, b \in Word |-> MapThenSumSet(LAMBDA k : 2 ^ k * Bit(a, k) * Bit(b, k), 0 .. W - 1)]
And(a, b) == AndOf[a, b]
Or(a, b)  == a + b - And(a, b)
Xor(a, b) == a + b - 2 * And(a, b)
Not(a)    == 2 ^ W - 1 - a
Neg(a)    == Trunc(- a)

\* The host masks the count of a shift, so a shift by W bits leaves the word.
Shl(x, n) == Trunc(x * 2 ^ (n % W))
Shr(x, n) == x \div 2 ^ (n % W)
Sar(x, n) == Trunc(Signed(x) \div 2 ^ (n % W))

\* (v << n) | ((v >> (32 - n)) & ((1 << n) - 1))
Rotate(v, n) == Or(Shl(v, n), And(Shr(v, W - n), 2 ^ n - 1))
\* The ones from bit mb to bit me, counted from the left and round the end if mb > me.
Ones(n) == 2 ^ (W - n) - 1               \* (UInt32) -1 >> n
Mask(mb, me) ==
  LET m == Xor(Ones(mb), IF me >= W - 1 THEN 0 ELSE Ones(me + 1))
  IN  IF mb > me THEN Not(m) ELSE m

\* (Mutant: the carry into the last bit instead of the carry out of it.)
CarryIntoTop(a, b) == a # 0 /\ b # 0 /\ (a % 2 ^ (W - 1)) + (b % 2 ^ (W - 1)) >= 2 ^ (W - 1)

\* The carry of a + b, computed bit by bit.
Carry(a, b) ==
  LET c[k \in 0 .. W] ==
        IF k = 0 THEN 0
        ELSE (Bit(a, k - 1) + Bit(b, k - 1) + c[k - 1]) \div 2
  IN  a # 0 /\ b # 0 /\ c[W] = 1

\* Overflow of a + b and of a - b, of the signed values of the words.
Overflow(x, y) ==
  LET a == Signed(x)
      b == Signed(y)
  IN  \/ a > 0 /\ b > 0 /\ MaxInt - a < b
      \/ a < 0 /\ b < 0 /\ - MaxInt - a > b
Underflow(x, y) ==
  LET a == Signed(x)
      b == Signed(y)
  IN  \/ a > 0 /\ b < 0 /\ MaxInt + b < a
      \/ a < 0 /\ b > 0 /\ - MaxInt + b > a
=============================================================================
