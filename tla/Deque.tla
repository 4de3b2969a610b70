------------------------------- MODULE Deque -------------------------------
(***************************************************************************)
(* A bounded sequence of entries, oldest first: entries are added at the   *)
(* newest end and leave at either end.                                     *)
(***************************************************************************)
EXTENDS Integers, Sequences

CONSTANTS Values, Capacity

VARIABLE contents

Init == contents = <<>>

Push(v) ==
  /\ Len(contents) < Capacity
  /\ contents' = Append(contents, v)

PopOldest(n) ==
  /\ n <= Len(contents)
  /\ contents' = SubSeq(contents, n + 1, Len(contents))

PopNewest(n) ==
  /\ n <= Len(contents)
  /\ contents' = SubSeq(contents, 1, Len(contents) - n)

Next ==
  \/ \E v \in Values : Push(v)
  \/ \E n \in 0 .. Capacity : PopOldest(n) \/ PopNewest(n)

Spec == Init /\ [][Next]_contents
=============================================================================
