----------------------------- MODULE MCLockStep -----------------------------
(* Words of four bits and two registers. *)
EXTENDS LockStep

CONSTANTS r1, r2

Op(name) == [op |-> name, rc |-> FALSE, oe |-> FALSE, d |-> r1, a |-> r1, b |-> r2, imm |-> 0,
             sh |-> 0, mb |-> 0, me |-> 0, crf |-> 0]
Imm(name, k) == [Op(name) EXCEPT !.imm = k, !.d = r2]
Recording(s) == {[i EXCEPT !.rc = TRUE] : i \in s}
Overflowing(s) == {[i EXCEPT !.oe = TRUE] : i \in s}
Swapped(i) == [i EXCEPT !.a = r2, !.b = r1]

\* Both forms of every immediate, with a negative one for those that extend it.
Immediates ==
  {Imm(n, 3) : n \in ArithmeticImmediate \cup {"addic", "subfic"}}
  \cup {Imm(n, 2) : n \in LogicalImmediate}
  \cup {[Imm("addi", 1) EXCEPT !.a = None], [Imm("addis", 1) EXCEPT !.a = None], [Op("ori") EXCEPT !.imm = 0]}
  \cup Recording({Imm("addic", 1), Imm("andi", 2), Imm("andis", 3)})

RotateForms ==
  {[Op("rlwimi") EXCEPT !.d = r2, !.sh = 1, !.mb = 1, !.me = 2],
   [Op("rlwinm") EXCEPT !.sh = 3, !.mb = 3, !.me = 0],
   [Op("rlwnm") EXCEPT !.mb = 0, !.me = 3, !.rc = TRUE]}

LogicalForms ==
  {Op(n) : n \in Logical \cup Unary \cup Compares} \cup Recording({Op("xor"), Op("nor"), Op("extsb"), Op("cntlzw")})

ShiftForms ==
  {[Op(n) EXCEPT !.sh = 1] : n \in Shifts} \cup Recording({Op("sraw"), Swapped(Op("slw"))})

CarryForms == {Op(n) : n \in Extended \cup {"addc", "subfc"}}

\* addo and mullwo are left out: the two machines disagree on their overflow.
Arithmetic ==
  {Op("add"), Op("subf"), Swapped(Op("subf")), Op("neg")} \cup {Op(n) : n \in MulDivs}
  \cup CarryForms \cup Recording({Op("add"), Op("mulhw"), Op("divw")} \cup {Op("adde"), Op("subfme")})
  \cup Overflowing({Op("subf"), Op("neg"), Op("divw"), Op("divwu"), Op("addc")}
                   \cup {Op(n) : n \in Extended})

AllForms == Immediates \cup RotateForms \cup LogicalForms \cup ShiftForms \cup Arithmetic

\* Two subtractions with overflow.
Overflows == Overflowing({Op("subf"), Swapped(Op("subf"))})
=============================================================================
