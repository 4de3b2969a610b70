------------------------------ MODULE MCFetch ------------------------------
(* Small programs for the fetch unit and its neighbours. *)
EXTENDS FetchSystem

Plain == [kind |-> "Plain", target |-> 0]
Goto(t) == [kind |-> "Goto", target |-> t]
Cond(t) == [kind |-> "Cond", target |-> t]
Return == [kind |-> "Return", target |-> 0]

\* Three lines of four instructions.  Branches follow each other, jump to branches, into the
\* middle of a line and across its end; the last line has no branch and fills the queue.
ThreeLines ==
  [a \in 0 .. 11 |-> <<Plain, Cond(5), Goto(6), Return, Plain, Goto(1), Plain, Cond(4),
                      Plain, Plain, Plain, Plain>>[a + 1]]

\* A loop inside a line, with a branch at its end whose tag is 0.
OneLine == [a \in 0 .. 3 |-> <<Plain, Cond(3), Return, Goto(1)>>[a + 1]]
=============================================================================
