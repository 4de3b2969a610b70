-------------------------- MODULE RegistersBinding --------------------------
(***************************************************************************)
(* The rename tables of powerpc/src/RegistersBinding.cpp.  The source      *)
(* keeps five copies of one algorithm (general purpose and floating point  *)
(* registers, CR fields, LR, CTR) that differ only in the number of        *)
(* registers and of rename buffers; this module is that algorithm, with    *)
(* Regs and NTags as parameters.                                           *)
(*                                                                         *)
(* A binding is a record of the class's fields:                            *)
(*   renames[r]     the newest rename buffer of register r, or None        *)
(*   reg[t]         renameBuffers[t].renamedRegister, or None when free    *)
(*   valid[t]       the buffer holds its result                            *)
(*   prev[t], next[t]  the older and the newer buffer of the same register *)
(*   nfree          the counter the dispatch unit reads as a resource      *)
(* A freed buffer keeps its stale prev and next, as in the source.         *)
(***************************************************************************)
EXTENDS Integers, Sequences, FiniteSets

CONSTANTS Regs,    \* the architectural registers of the class
          NTags    \* nRenameBuffers (or its CR, LR, CTR, FP counterpart)

None == -1
Tag  == 0 .. NTags - 1

ASSUME BindingAssumption == NTags \in Nat \ {0} /\ None \notin Regs

Binding == [renames : [Regs -> Tag \cup {None}],
            reg     : [Tag -> Regs \cup {None}],
            valid   : [Tag -> BOOLEAN],
            prev    : [Tag -> Tag \cup {None}],
            next    : [Tag -> Tag \cup {None}],
            nfree   : 0 .. NTags]

\* Reset()
EmptyBinding == [renames |-> [r \in Regs |-> None],
                 reg     |-> [t \in Tag |-> None],
                 valid   |-> [t \in Tag |-> FALSE],
                 prev    |-> [t \in Tag |-> None],
                 next    |-> [t \in Tag |-> None],
                 nfree   |-> NTags]

Allocated(b) == {t \in Tag : b.reg[t] # None}

\* The buffer the allocation loop stops at: the first one that is free.
IsFirstFree(b, t) ==
  /\ b.reg[t] = None
  /\ \A u \in Tag : b.reg[u] = None => t <= u
FirstFree(b) == CHOOSE t \in Tag : IsFirstFree(b, t)

\* AllocateRenameBuffer(r) once the loop has stopped at t.  (Mutant: the counter is
\* not decremented.)
AllocateUncounted(b, r, t) ==
  [b EXCEPT !.renames[r] = t, !.reg[t] = r, !.valid[t] = FALSE, !.prev[t] = b.renames[r],
            !.next = [u \in Tag |-> IF u = t THEN None ELSE IF u = b.renames[r] THEN t ELSE @[u]]]
AllocateAt(b, r, t) ==
  [renames |-> [b.renames EXCEPT ![r] = t],
   reg     |-> [b.reg EXCEPT ![t] = r],
   valid   |-> [b.valid EXCEPT ![t] = FALSE],
   prev    |-> [b.prev EXCEPT ![t] = b.renames[r]],
   next    |-> [u \in Tag |-> IF u = t THEN None
                              ELSE IF u = b.renames[r] THEN t ELSE b.next[u]],
   nfree   |-> b.nfree - 1]

\* FreeRenameBuffer(t): called at retirement, oldest buffer first.  (Mutants: the
\* newer buffer keeps its link to the freed one; renames is reset even when a newer
\* buffer is in use; the freed buffer still claims to hold its result.)
FreeKeepingLink(b, t) ==
  IF b.reg[t] = None THEN b
  ELSE [b EXCEPT !.renames[b.reg[t]] = IF b.next[t] = None THEN None ELSE @,
                 !.reg[t] = None, !.valid[t] = FALSE, !.nfree = @ + 1]
FreeResettingRenames(b, t) ==
  IF b.reg[t] = None THEN b
  ELSE [b EXCEPT !.renames[b.reg[t]] = None, !.reg[t] = None, !.valid[t] = FALSE,
                 !.prev = [u \in Tag |-> IF u = b.next[t] THEN None ELSE @[u]], !.nfree = @ + 1]
FreeKeepingValid(b, t) ==
  IF b.reg[t] = None THEN b
  ELSE [b EXCEPT !.renames[b.reg[t]] = IF b.next[t] = None THEN None ELSE @, !.reg[t] = None,
                 !.prev = [u \in Tag |-> IF u = b.next[t] THEN None ELSE @[u]], !.nfree = @ + 1]
FreeRenameBuffer(b, t) ==
  IF b.reg[t] = None THEN b
  ELSE [renames |-> IF b.next[t] = None
                      THEN [b.renames EXCEPT ![b.reg[t]] = None] ELSE b.renames,
        reg     |-> [b.reg EXCEPT ![t] = None],
        valid   |-> [b.valid EXCEPT ![t] = FALSE],
        prev    |-> [u \in Tag |-> IF u = b.next[t] THEN None ELSE b.prev[u]],
        next    |-> b.next,
        nfree   |-> b.nfree + 1]

\* FreeRenameBufferReverseOrder(t): called by a flush, newest buffer first.
\* (Mutants: the buffer is not counted; it still claims to hold its result.)
FreeReverseUncounted(b, t) ==
  IF b.reg[t] = None THEN b
  ELSE [b EXCEPT !.renames[b.reg[t]] = b.prev[t], !.reg[t] = None, !.valid[t] = FALSE,
                 !.next = [u \in Tag |-> IF u = b.prev[t] THEN None ELSE @[u]]]
FreeReverseKeepingValid(b, t) ==
  IF b.reg[t] = None THEN b
  ELSE [b EXCEPT !.renames[b.reg[t]] = b.prev[t], !.reg[t] = None, !.nfree = @ + 1,
                 !.next = [u \in Tag |-> IF u = b.prev[t] THEN None ELSE @[u]]]
FreeRenameBufferReverseOrder(b, t) ==
  IF b.reg[t] = None THEN b
  ELSE [renames |-> [b.renames EXCEPT ![b.reg[t]] = b.prev[t]],
        reg     |-> [b.reg EXCEPT ![t] = None],
        valid   |-> [b.valid EXCEPT ![t] = FALSE],
        prev    |-> b.prev,
        next    |-> [u \in Tag |-> IF u = b.prev[t] THEN None ELSE b.next[u]],
        nfree   |-> b.nfree + 1]

\* ValidateRenameBuffer(t): the result has been produced.
ValidateRenameBuffer(b, t) == [b EXCEPT !.valid[t] = TRUE]

(***************************************************************************)
(* Precondition(): the consistency check the source runs around every      *)
(* operation when it is compiled with CONDITION.  Walking the prev links   *)
(* from every renames[r] must stay inside buffers of r, visit no buffer    *)
(* twice, and visit every allocated buffer.                                *)
(***************************************************************************)
Chain(b, r) ==
  LET walk[n \in 0 .. NTags] ==
        IF n = 0 THEN <<b.renames[r]>>
        ELSE LET w == walk[n - 1] IN
             IF w[Len(w)] = None THEN w ELSE Append(w, b.prev[w[Len(w)]])
  IN  walk[NTags]

Precondition(b) ==
  /\ \A r \in Regs : LET w == Chain(b, r) IN
       /\ w[Len(w)] = None
       /\ \A i \in 1 .. Len(w) - 1 : b.reg[w[i]] = r
       /\ \A i, j \in 1 .. Len(w) : w[i] = w[j] => i = j
  /\ \A t \in Allocated(b) : \E i \in DOMAIN Chain(b, b.reg[t]) : Chain(b, b.reg[t])[i] = t

\* The links of b that start at renames[r] represent the list v: renames[r] is
\* the last of v, the links connect neighbours, the ends are None, and no buffer
\* occurs twice.
IsListOf(b, r, v) ==
  /\ Len(v) = 0 => b.renames[r] = None
  /\ Len(v) > 0 => b.renames[r] = v[Len(v)]
  /\ \A i \in 1 .. Len(v) :
       /\ b.reg[v[i]] = r
       /\ i = 1 => b.prev[v[i]] = None
       /\ i > 1 => b.prev[v[i]] = v[i - 1]
       /\ i = Len(v) => b.next[v[i]] = None
       /\ i < Len(v) => b.next[v[i]] = v[i + 1]
       /\ \A j \in 1 .. Len(v) : v[i] = v[j] => i = j
=============================================================================
