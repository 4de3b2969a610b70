--------------------------- MODULE MCMemorySystem ---------------------------
(***************************************************************************)
(* Two lines of data and two of instructions, of two words of two units.   *)
(***************************************************************************)
EXTENDS MemorySystem

CONSTANTS d1, d2, i1, i2

Request(write, zero, l, o, d) ==
  [req |-> TRUE, write |-> write, zero |-> zero, line |-> l, offset |-> o,
   size |-> Len(d), data |-> IF write THEN d ELSE <<>>]
Load(l, o, n) == Request(FALSE, FALSE, l, o, [k \in 1 .. n |-> Zero])

\* What memory holds tells the units of a line apart.
SmallImage == [l \in {d1, d2, i1, i2} |->
                [u \in 0 .. LineUnits - 1 |-> IF l \in {d1, i1} THEN 1 + u ELSE 1 + LineUnits + u]]

\* Aligned loads and stores of one and two units, and dcbz.
AlignedData ==
  {Load(d1, 1, 1), Load(d2, 2, 2), Request(TRUE, FALSE, d1, 3, <<9>>),
   Request(TRUE, TRUE, d2, 0, <<Zero, Zero, Zero, Zero>>)}

\* What Fetch() asks for: from an address to the end of the line.
LineFetches == {Load(i1, 1, 3), Load(i2, 3, 1)}

NoFetches == {}
\* A double word at an address that is only word aligned.
UnalignedData == {Load(d1, 1, 2), Request(TRUE, FALSE, d1, 1, <<9, 9>>)}
=============================================================================
