---------------------------- MODULE MCRenamedROB ----------------------------
(***************************************************************************)
(* Two registers; loads, loads with update, and instructions without a     *)
(* destination.                                                            *)
(***************************************************************************)
EXTENDS RenamedROB

CONSTANTS r1, r2

UpdateForms == {<<>>, <<r1>>, <<r1, r2>>, <<r2, r1>>}

\* A load with update whose two destinations are the same register.
SameRegisterForms == {<<r1>>, <<r1, r1>>}
=============================================================================
