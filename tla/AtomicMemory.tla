---------------------------- MODULE AtomicMemory ----------------------------
(***************************************************************************)
(* What the data cache promises the load/store unit: one memory, and one   *)
(* request at a time, which reads or writes it in a single step between    *)
(* the moment it is made and the moment it is over.                        *)
(***************************************************************************)
EXTENDS Integers, Sequences

CONSTANTS Requests, Contents0, NoRequest, NoReply,
          Value(_, _),   \* what a load reads in a memory
          Effect(_, _)   \* a memory after a request

VARIABLES mem, req, reply
vars == <<mem, req, reply>>

Init == mem = Contents0 /\ req = NoRequest /\ reply = NoReply

\* A load that is answered at once is a hit.
Ask ==
  /\ req = NoRequest /\ req' \in Requests
  /\ reply' \in {NoReply} \cup (IF req'.write THEN {} ELSE {Value(mem, req')})
  /\ UNCHANGED mem

Answer ==
  /\ req # NoRequest /\ ~ req.write /\ reply = NoReply
  /\ reply' = Value(mem, req)
  /\ UNCHANGED <<mem, req>>

\* A store may be done before it is acknowledged.
Perform ==
  /\ req # NoRequest /\ req.write
  /\ mem' = Effect(mem, req)
  /\ UNCHANGED <<req, reply>>

Finish ==
  /\ req # NoRequest /\ (~ req.write => reply # NoReply)
  /\ mem' = Effect(mem, req)
  /\ req' = NoRequest /\ reply' = NoReply

Next == Ask \/ Answer \/ Perform \/ Finish
Spec == Init /\ [][Next]_vars
=============================================================================
