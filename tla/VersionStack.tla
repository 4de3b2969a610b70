---------------------------- MODULE VersionStack ----------------------------
(***************************************************************************)
(* What register renaming promises to the pipeline, without the links:     *)
(* every register has a list of versions in program order.  A new writer   *)
(* takes a buffer that is no other instruction's; retirement removes the   *)
(* oldest version, a flush the newest one; a version becomes ready once,   *)
(* and a buffer that changes hands is not ready.                           *)
(***************************************************************************)
EXTENDS Integers, Sequences

CONSTANTS Regs, Buffers

VARIABLES versions, ready
vars == <<versions, ready>>

InUse == {t \in Buffers : \E r \in Regs : \E i \in 1 .. Len(versions[r]) :
                            versions[r][i] = t}

Init ==
  /\ versions = [r \in Regs |-> <<>>]
  /\ ready = {}

Write(r) ==
  /\ \E t \in Buffers \ InUse : versions' = [versions EXCEPT ![r] = Append(@, t)]
  /\ UNCHANGED ready

Retire(r) ==
  /\ versions[r] # <<>>
  /\ versions' = [versions EXCEPT ![r] = Tail(@)]
  /\ ready' = ready \ {Head(versions[r])}

Flush(r) ==
  /\ versions[r] # <<>>
  /\ versions' = [versions EXCEPT ![r] = SubSeq(@, 1, Len(@) - 1)]
  /\ ready' = ready \ {versions[r][Len(versions[r])]}

Produce(t) ==
  /\ t \in InUse
  /\ ready' = ready \cup {t}
  /\ UNCHANGED versions

Next ==
  \/ \E r \in Regs : Write(r) \/ Retire(r) \/ Flush(r)
  \/ \E t \in Buffers : Produce(t)

Spec == Init /\ [][Next]_vars
=============================================================================
