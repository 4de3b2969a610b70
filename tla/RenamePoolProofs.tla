-------------------------- MODULE RenamePoolProofs --------------------------
(***************************************************************************)
(* Proofs about RenamePool for every set of registers and every number of  *)
(* rename buffers.                                                         *)
(*                                                                         *)
(* The inductive invariant says that the tables represent the versions of  *)
(* every register (Represents in RenameTableProofs): their types, Linked,  *)
(* Owned (every buffer is one version of one register), the count of free  *)
(* buffers, and ValidOwned.                                                *)
(***************************************************************************)
EXTENDS RenamePool, RenameTableProofs

USE BindingAssumption

IInv == Represents(binding, versions)

-----------------------------------------------------------------------------
\* The parts of the invariant that the runs check.
LEMMA InvariantParts ==
  IInv => /\ TypeInvariant /\ Linked /\ Owned /\ ValidOwned
          /\ binding.nfree = Cardinality({t \in Tag : binding.reg[t] = None})
BY DEF IInv, Represents, TypeInvariant, Linked, Owned, ValidOwned, IsVersion, FreeTags

\* Every method keeps the invariant: the tables go on representing the versions.
LEMMA NextIInv == IInv /\ [Next]_vars => IInv'
<1> SUFFICES ASSUME IInv, [Next]_vars PROVE IInv' OBVIOUS
<1>1. ASSUME NEW r \in Regs, Allocate(r) PROVE IInv'
  <2>1. PICK t \in Tag : /\ binding.reg[t] = None
                         /\ binding' = AllocateAt(binding, r, t)
                         /\ versions' = [versions EXCEPT ![r] = Append(@, t)]
    BY <1>1 DEF Allocate, IsFirstFree
  <2> QED BY <2>1, AllocateRepresents DEF IInv
<1>2. ASSUME NEW r \in Regs, FreeOldest(r) PROVE IInv'
  BY <1>2, FreeOldestRepresents DEF IInv, FreeOldest
<1>3. ASSUME NEW r \in Regs, FreeNewest(r) PROVE IInv'
  BY <1>3, FreeNewestRepresents DEF IInv, FreeNewest
<1>4. ASSUME NEW t \in Tag, Validate(t) PROVE IInv'
  <2>1. PICK r \in Regs : \E i \in 1 .. Len(versions[r]) : versions[r][i] = t
    BY <1>4 DEF Validate
  <2>2. binding.reg[t] = r BY <2>1 DEF IInv, Represents, IsListOf
  <2> QED BY <1>4, <2>2, r # None, ValidateRepresents DEF IInv, Validate
<1>5. CASE UNCHANGED vars BY <1>5 DEF vars, IInv
<1> QED BY <1>1, <1>2, <1>3, <1>4, <1>5 DEF Next

\* The invariant holds in every reachable state.
THEOREM Invariance == Spec => []IInv
<1>1. Init => IInv BY EmptyRepresents DEF Init, IInv
<1> QED BY <1>1, NextIInv, PTL DEF Spec

\* The tables keep their types: in particular nfree never leaves 0 .. NTags,
\* and renames never names a buffer outside the pool.
THEOREM TypeCorrect == Spec => []TypeInvariant
BY Invariance, InvariantParts, PTL

\* The links represent the versions of every register in program order, so the
\* tests the source makes before each free never fail for a caller that frees
\* the oldest buffer at retirement and the newest at a flush.
THEOREM LinksCorrect == Spec => [](Linked /\ Owned)
BY Invariance, InvariantParts, PTL

\* nfree is the number of free buffers, and the search loop of an allocation
\* that nfree allows finds one.
THEOREM NothingLeaks == Spec => []NoLeak
<1>1. ASSUME IInv PROVE NoLeak
  <2>1. binding.nfree > 0 => \E t \in Tag : IsFirstFree(binding, t)
    BY <1>1, FirstFreeExists DEF IInv
  <2> QED BY <1>1, <2>1, InvariantParts DEF NoLeak
<1> QED BY <1>1, Invariance, PTL

\* A buffer that is free does not claim to hold a result.
THEOREM NoStaleResult == Spec => []ValidOwned
BY Invariance, InvariantParts, PTL

\* The newest version of a register changes only by a push on top of it or by
\* its own removal.
THEOREM RenameIsStable == Spec => RenameStable
<1> DEFINE A == \A r \in Regs :
                  LET old == binding.renames[r]
                      new == binding'.renames[r]
                  IN old # new => \/ new # None /\ binding'.prev[new] = old
                                  \/ old # None /\ new = binding.prev[old]
<1>1. ASSUME IInv, [Next]_vars PROVE A
  <2> USE <1>1
  <2>a. TypeInvariant /\ Linked /\ Owned /\ ValidOwned BY InvariantParts
  <2> USE <2>a
  <2>0. binding \in Binding /\ versions \in [Regs -> Seq(Tag)] /\ None \notin Tag
    BY DEF TypeInvariant, None, Tag
  <2>1. ASSUME NEW q \in Regs, Allocate(q) PROVE A
    <3>1. PICK t \in Tag : binding' = AllocateAt(binding, q, t) BY <2>1 DEF Allocate
    <3>2. /\ binding'.renames[q] = t /\ binding'.prev[t] = binding.renames[q] /\ t # None
          /\ \A r \in Regs \ {q} : binding'.renames[r] = binding.renames[r]
      BY <2>0, <3>1 DEF AllocateAt, Binding
    <3> QED BY <3>2
  <2>2. ASSUME NEW q \in Regs, FreeOldest(q) PROVE A
    <3>1. PICK v \in Seq(Tag) : v = versions[q] /\ v # <<>> BY <2>0, <2>2 DEF FreeOldest
    <3>2. /\ Len(v) \in Nat \ {0} /\ Head(v) = v[1] /\ v[1] \in Tag
          /\ binding' = FreeRenameBuffer(binding, v[1])
      BY <2>2, <3>1 DEF FreeOldest
    <3>3. /\ binding.reg[v[1]] = q /\ q # None
          /\ Len(v) > 1 => binding.next[v[1]] = v[2] /\ v[2] \in Tag
          /\ binding.prev[v[1]] = None
          /\ binding.renames[q] = v[Len(v)]
      BY <3>1, <3>2 DEF Linked, IsListOf
    <3>4. /\ \A r \in Regs \ {q} : binding'.renames[r] = binding.renames[r]
          /\ \/ binding'.renames[q] = binding.renames[q]
             \/ binding.next[v[1]] = None /\ binding'.renames[q] = None
      BY <2>0, <3>2, <3>3 DEF FreeRenameBuffer, Binding
    <3>5. CASE Len(v) = 1
      <4>1. binding.renames[q] = v[1] BY <3>3, <3>5
      <4> QED BY <2>0, <3>2, <3>3, <3>4, <4>1
    <3>6. CASE Len(v) > 1 BY <2>0, <3>3, <3>4, <3>6
    <3>7. Len(v) = 1 \/ Len(v) > 1
      <4>1. \A n \in Nat \ {0} : n = 1 \/ n > 1 OBVIOUS
      <4> QED BY <3>2, <4>1
    <3> HIDE DEF A
    <3> QED BY <3>5, <3>6, <3>7
  <2>3. ASSUME NEW q \in Regs, FreeNewest(q) PROVE A
    <3>1. PICK v \in Seq(Tag) : v = versions[q] /\ v # <<>> BY <2>0, <2>3 DEF FreeNewest
    <3>2. PICK t : t = v[Len(v)] OBVIOUS
    <3>3. /\ t \in Tag /\ binding.reg[t] = q /\ q # None /\ binding.renames[q] = t
          /\ binding' = FreeRenameBufferReverseOrder(binding, t)
      <4>1. Len(v) \in Nat \ {0} BY <3>1
      <4> QED BY <2>3, <3>1, <3>2, <4>1 DEF FreeNewest, Linked, IsListOf
    <3>4. /\ \A r \in Regs \ {q} : binding'.renames[r] = binding.renames[r]
          /\ binding'.renames[q] = binding.prev[t]
      BY <2>0, <3>3 DEF FreeRenameBufferReverseOrder, Binding
    <3> QED BY <2>0, <3>3, <3>4
  <2>4. ASSUME NEW t \in Tag, Validate(t) PROVE A
    BY <2>0, <2>4 DEF Validate, ValidateRenameBuffer, Binding
  <2>5. CASE UNCHANGED vars BY <2>5 DEF vars
  <2> QED BY <2>1, <2>2, <2>3, <2>4, <2>5 DEF Next
<1>2. IInv /\ [Next]_vars => [A]_vars BY <1>1
<1> QED BY <1>2, Invariance, PTL DEF Spec, RenameStable

\* The rename tables implement the stack of versions: every method is a step of
\* VersionStack on the versions and on the set of buffers that hold a result.
THEOREM Refinement == Spec => RefinesVersionStack
<1> DEFINE Ready == {t \in Tag : binding.valid[t]}
<1>1. Init => Stack!Init
  BY DEF Init, Stack!Init, EmptyBinding
<1>2. ASSUME IInv, [Next]_vars PROVE [Stack!Next]_<<versions, Ready>>
  <2> USE <1>2
  <2>a. TypeInvariant /\ Linked /\ Owned /\ ValidOwned BY InvariantParts
  <2> USE <2>a
  <2>0. /\ binding \in Binding /\ versions \in [Regs -> Seq(Tag)]
        /\ \A r \in Regs : \A i \in 1 .. Len(versions[r]) : versions[r][i] \in Tag
    BY DEF TypeInvariant
  <2>1. ASSUME NEW r \in Regs, Allocate(r) PROVE Stack!Write(r)
    <3>1. PICK t \in Tag : /\ binding.reg[t] = None
                           /\ binding' = AllocateAt(binding, r, t)
                           /\ versions' = [versions EXCEPT ![r] = Append(@, t)]
      BY <2>1 DEF Allocate, IsFirstFree
    <3>2. t \in Tag \ Stack!InUse
      BY <3>1 DEF Stack!InUse, Linked, IsListOf, None
    <3>3. Ready' = Ready
      BY <2>0, <3>1 DEF ValidOwned, AllocateAt, Binding
    <3> QED BY <3>1, <3>2, <3>3 DEF Stack!Write
  <2>2. ASSUME NEW r \in Regs, FreeOldest(r) PROVE Stack!Retire(r)
    <3>1. /\ versions[r] # <<>> /\ Head(versions[r]) \in Tag
          /\ versions' = [versions EXCEPT ![r] = Tail(@)]
          /\ binding' = FreeRenameBuffer(binding, Head(versions[r]))
      BY <2>0, <2>2 DEF FreeOldest
    <3>2. binding'.valid = [binding.valid EXCEPT ![Head(versions[r])] = FALSE]
      BY <2>0, <3>1 DEF FreeRenameBuffer, Binding, ValidOwned
    <3>3. Ready' = Ready \ {Head(versions[r])} BY <2>0, <3>1, <3>2 DEF Binding
    <3> QED BY <3>1, <3>3 DEF Stack!Retire
  <2>3. ASSUME NEW r \in Regs, FreeNewest(r) PROVE Stack!Flush(r)
    <3>0. PICK t : t = versions[r][Len(versions[r])] OBVIOUS
    <3>1. /\ versions[r] # <<>> /\ t \in Tag
          /\ versions' = [versions EXCEPT ![r] = SubSeq(@, 1, Len(@) - 1)]
          /\ binding' = FreeRenameBufferReverseOrder(binding, t)
      BY <2>0, <2>3, <3>0 DEF FreeNewest
    <3>2. binding'.valid = [binding.valid EXCEPT ![t] = FALSE]
      BY <2>0, <3>1 DEF FreeRenameBufferReverseOrder, Binding, ValidOwned
    <3>3. Ready' = Ready \ {t} BY <2>0, <3>1, <3>2 DEF Binding
    <3> QED BY <3>0, <3>1, <3>3 DEF Stack!Flush
  <2>4. ASSUME NEW t \in Tag, Validate(t) PROVE Stack!Produce(t)
    <3>1. /\ versions' = versions /\ t \in Stack!InUse
          /\ binding'.valid = [binding.valid EXCEPT ![t] = TRUE]
      BY <2>0, <2>4 DEF Validate, ValidateRenameBuffer, Binding, Stack!InUse
    <3>2. Ready' = Ready \cup {t} BY <2>0, <3>1 DEF Binding
    <3> QED BY <3>1, <3>2 DEF Stack!Produce
  <2>5. CASE UNCHANGED vars BY <2>5 DEF vars
  <2> QED BY <2>1, <2>2, <2>3, <2>4, <2>5 DEF Next, Stack!Next
<1>3. IInv /\ [Next]_vars => [Stack!Next]_<<versions, Ready>> BY <1>2
<1> QED BY <1>1, <1>3, Invariance, PTL
        DEF Spec, RefinesVersionStack, Stack!Spec, Stack!vars

=============================================================================
