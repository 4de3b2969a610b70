---------------------------- MODULE MCLoadStore ----------------------------
(***************************************************************************)
(* Six bytes, two to a line.                                               *)
(***************************************************************************)
EXTENDS LoadStoreSystem

Op(kind, a, n, d) == [kind |-> kind, addr |-> a, size |-> n, data |-> d, single |-> FALSE]

\* Every byte differs from what the stores write.
SmallContents == [a \in 0 .. 5 |-> 3]

\* A load and a store across lines that overlap nowhere, and dcbz of the line they share.
Mixed == {Op("Load", 1, 2, <<>>), Op("Store", 3, 2, <<1, 2>>), Op("Zero", 2, 1, <<>>)}

\* Both across a line, for the liveness run.
OneOfEach == {Op("Load", 1, 2, <<>>), Op("Store", 1, 2, <<1, 2>>)}

\* dcbz of an address inside a line, and a load of the byte before it.
UnalignedZero == {Op("Zero", 3, 1, <<>>), Op("Load", 2, 1, <<>>)}

\* A single precision store across a line.
SingleStore == {[Op("Store", 1, 2, <<1, 2>>) EXCEPT !.single = TRUE]}

SystemCalls == {Op("Store", 1, 1, <<1>>), Op("Store", 4, 1, <<2>>), Op("SystemCall", 0, 1, <<>>)}
=============================================================================
