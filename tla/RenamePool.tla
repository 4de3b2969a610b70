----------------------------- MODULE RenamePool -----------------------------
(***************************************************************************)
(* The rename tables as an object: one action for every method of          *)
(* RegistersBinding that changes a table, called under the conditions its  *)
(* callers establish.  The dispatch unit allocates only when nfree says    *)
(* that a buffer is left; the completion unit frees the oldest buffer of a *)
(* register at retirement and the newest one at a flush, and validates a   *)
(* buffer that is allocated.                                               *)
(*                                                                         *)
(* versions is a history variable: for every register, the buffers that    *)
(* rename it, oldest first.  The source does not keep it; its renames,     *)
(* prev and next links are a representation of it.                         *)
(***************************************************************************)
EXTENDS RegistersBinding

VARIABLES binding, versions
vars == <<binding, versions>>

Init ==
  /\ binding = EmptyBinding
  /\ versions = [r \in Regs |-> <<>>]

\* AllocateRenameBuffer and its FP, CR, LR and CTR copies.
Allocate(r) ==
  /\ binding.nfree > 0
  /\ \E t \in Tag :
       /\ IsFirstFree(binding, t)
       /\ binding' = AllocateAt(binding, r, t)
       /\ versions' = [versions EXCEPT ![r] = Append(@, t)]

\* FreeRenameBuffer at retirement.
FreeOldest(r) ==
  /\ versions[r] # <<>>
  /\ binding' = FreeRenameBuffer(binding, Head(versions[r]))
  /\ versions' = [versions EXCEPT ![r] = Tail(@)]

\* FreeRenameBufferReverseOrder at a flush.
FreeNewest(r) ==
  /\ versions[r] # <<>>
  /\ binding' = FreeRenameBufferReverseOrder(binding, versions[r][Len(versions[r])])
  /\ versions' = [versions EXCEPT ![r] = SubSeq(@, 1, Len(@) - 1)]

\* ValidateRenameBuffer when the result of an instruction in flight arrives.
Validate(t) ==
  /\ \E r \in Regs : \E i \in 1 .. Len(versions[r]) : versions[r][i] = t
  /\ binding' = ValidateRenameBuffer(binding, t)
  /\ UNCHANGED versions

Next ==
  \/ \E r \in Regs : Allocate(r) \/ FreeOldest(r) \/ FreeNewest(r)
  \/ \E t \in Tag : Validate(t)

Spec == Init /\ [][Next]_vars

\* The tables keep their types, and nfree stays within the pool.
TypeInvariant ==
  /\ binding \in Binding
  /\ versions \in [Regs -> Seq(Tag)]

\* The links of every register are the list of its buffers in flight in program
\* order.  The ends are what the source tests before each free ("is not called
\* in order", "is not called in reverse order"), and the last element is the
\* writer a new source operand waits for.
Linked == \A r \in Regs : IsListOf(binding, r, versions[r])

\* A buffer marked with a register is one of the versions of that register: no
\* sequence of frees leaves a buffer allocated that no instruction will free.
Owned ==
  \A t \in Tag : binding.reg[t] # None =>
    \E i \in 1 .. Len(versions[binding.reg[t]]) : versions[binding.reg[t]][i] = t

\* nfree, the count the dispatch unit trusts instead of looking, is the number
\* of free buffers: no sequence of allocations, retirements and flushes leaks a
\* buffer or counts one twice, so an allocation that nfree allows never falls
\* off the end of the search loop.
NoLeak ==
  /\ binding.nfree = Cardinality({t \in Tag : binding.reg[t] = None})
  /\ binding.nfree > 0 => \E t \in Tag : IsFirstFree(binding, t)

\* A buffer that is not allocated never claims to hold a result.
ValidOwned == \A t \in Tag : binding.valid[t] => binding.reg[t] # None

\* A source operand is never handed to another writer behind its back: the
\* newest version of a register changes only when a version is put on top of
\* it, or when it is itself removed, and then the version below shows again.
RenameStable ==
  [][\A r \in Regs : LET old == binding.renames[r]
                         new == binding'.renames[r]
     IN old # new => \/ new # None /\ binding'.prev[new] = old
                     \/ old # None /\ new = binding.prev[old]]_vars

-----------------------------------------------------------------------------
\* The tables implement a stack of versions per register.
Stack == INSTANCE VersionStack WITH Buffers <- Tag,
           ready <- {t \in Tag : binding.valid[t]}
RefinesVersionStack == Stack!Spec
=============================================================================
