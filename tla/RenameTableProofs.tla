-------------------------- MODULE RenameTableProofs --------------------------
(***************************************************************************)
(* What the operations of RegistersBinding do to tables that represent a   *)
(* list of versions for every register.  Represents(b, v) is what every    *)
(* user of the tables keeps.  That the links are the lists would not be    *)
(* enough: updating the neighbour of a buffer is harmless to the other     *)
(* lists only because no buffer is in two of them.                         *)
(***************************************************************************)
EXTENDS RegistersBinding, FiniteSetTheorems, WellFoundedInduction, TLAPS

USE BindingAssumption

FreeTags(b) == {t \in Tag : b.reg[t] = None}

\* A buffer is one of the versions in v of the register it is marked with.
IsVersion(v, r, t) == \E i \in 1 .. Len(v[r]) : v[r][i] = t

Represents(b, v) ==
  /\ b \in Binding /\ v \in [Regs -> Seq(Tag)]
  /\ \A r \in Regs : IsListOf(b, r, v[r])
  /\ \A t \in Tag : b.reg[t] # None => IsVersion(v, b.reg[t], t)
  /\ b.nfree = Cardinality(FreeTags(b))
  /\ \A t \in Tag : b.valid[t] => b.reg[t] # None

-----------------------------------------------------------------------------
\* The pool is a finite set of NTags buffers.
LEMMA TagFinite == IsFiniteSet(Tag) /\ Cardinality(Tag) = NTags
  BY FS_Interval DEF Tag

\* The set of the free buffers loses one element when a buffer is allocated.
LEMMA OneLess ==
  ASSUME NEW S \in SUBSET Tag, NEW t \in S
  PROVE  /\ Cardinality(S) \in Nat
         /\ Cardinality(S) > 0
         /\ Cardinality(S \ {t}) = Cardinality(S) - 1
<1>1. IsFiniteSet(S) BY TagFinite, FS_Subset
<1>2. Cardinality(S) \in Nat BY <1>1, FS_CardinalityType
<1>3. Cardinality(S \ {t}) = Cardinality(S) - 1 BY <1>1, FS_RemoveElement
<1>4. Cardinality(S \ {t}) \in Nat BY <1>1, FS_RemoveElement, FS_CardinalityType, FS_Subset
<1> QED BY <1>2, <1>3, <1>4

\* And the set gains one when a buffer is freed.
LEMMA OneMore ==
  ASSUME NEW S \in SUBSET Tag, NEW t \in Tag \ S
  PROVE  /\ Cardinality(S \cup {t}) = Cardinality(S) + 1
         /\ Cardinality(S) + 1 \in 0 .. NTags
<1>1. IsFiniteSet(S) BY TagFinite, FS_Subset
<1>2. Cardinality(S) \in Nat BY <1>1, FS_CardinalityType
<1>3. Cardinality(S \cup {t}) = Cardinality(S) + 1 BY <1>1, FS_AddElement
<1>4. Cardinality(S \cup {t}) <= NTags BY TagFinite, FS_Subset, S \cup {t} \subseteq Tag
<1> QED BY <1>2, <1>3, <1>4

-----------------------------------------------------------------------------
(***************************************************************************)
(* The three operations on the links of one list, and on those of another. *)
(***************************************************************************)

\* Allocating a free buffer appends it to the list of its register.
LEMMA AllocateAppends ==
  ASSUME NEW b \in Binding, NEW r \in Regs, NEW v \in Seq(Tag), IsListOf(b, r, v),
         NEW t \in Tag, b.reg[t] = None
  PROVE  IsListOf(AllocateAt(b, r, t), r, Append(v, t))
<1> DEFINE c == AllocateAt(b, r, t)
           w == Append(v, t)
<1>1. /\ Len(v) \in Nat
      /\ \A i \in 1 .. Len(v) : v[i] \in Tag /\ v[i] # t
  BY DEF IsListOf
<1>2. /\ Len(w) = Len(v) + 1
      /\ w[Len(w)] = t
      /\ \A i \in 1 .. Len(v) : w[i] = v[i]
  BY <1>1
<1>3. /\ c.renames[r] = t
      /\ c.reg[t] = r /\ c.next[t] = None /\ c.prev[t] = b.renames[r]
      /\ \A u \in Tag \ {t} : c.reg[u] = b.reg[u] /\ c.prev[u] = b.prev[u]
      /\ \A u \in Tag \ {t} : u # b.renames[r] => c.next[u] = b.next[u]
      /\ b.renames[r] \in Tag \ {t} => c.next[b.renames[r]] = t
  BY DEF AllocateAt, Binding
<1> HIDE DEF c, w
<1>4. ASSUME NEW i \in 1 .. Len(w)
      PROVE  /\ c.reg[w[i]] = r
             /\ i = 1 => c.prev[w[i]] = None
             /\ i > 1 => c.prev[w[i]] = w[i - 1]
             /\ i = Len(w) => c.next[w[i]] = None
             /\ i < Len(w) => c.next[w[i]] = w[i + 1]
             /\ \A j \in 1 .. Len(w) : w[i] = w[j] => i = j
  <2>1. CASE i = Len(w) BY <1>1, <1>2, <1>3, <2>1 DEF IsListOf
  <2>2. CASE i < Len(w)
    <3>1. i \in 1 .. Len(v) /\ w[i] = v[i] /\ v[i] \in Tag \ {t} BY <1>1, <1>2, <2>2
    <3>2. v[i] = b.renames[r] <=> i = Len(v) BY <1>1, <3>1 DEF IsListOf
    <3>3. c.reg[w[i]] = r /\ c.prev[w[i]] = b.prev[v[i]] BY <1>3, <3>1 DEF IsListOf
    <3>4. i = Len(v) => c.next[w[i]] = w[i + 1] BY <1>2, <1>3, <3>1, <3>2
    <3>5. i < Len(v) => c.next[w[i]] = w[i + 1] BY <1>1, <1>2, <1>3, <3>1, <3>2 DEF IsListOf
    <3>6. /\ i = 1 => c.prev[w[i]] = None
          /\ i > 1 => c.prev[w[i]] = w[i - 1]
      BY <1>1, <1>2, <3>1, <3>3 DEF IsListOf
    <3>7. \A j \in 1 .. Len(w) : w[i] = w[j] => i = j
      BY <1>1, <1>2, <3>1 DEF IsListOf
    <3> QED BY <1>1, <1>2, <2>2, <3>1, <3>3, <3>4, <3>5, <3>6, <3>7
  <2> QED BY <1>1, <1>2, <2>1, <2>2
<1>5. Len(w) > 0 /\ c.renames[r] = w[Len(w)] BY <1>1, <1>2, <1>3
<1>6. IsListOf(c, r, w) BY <1>4, <1>5 DEF IsListOf
<1> QED BY <1>6 DEF c, w

\* Freeing the oldest buffer removes the first element of its list.
LEMMA FreeRemovesFirst ==
  ASSUME NEW b \in Binding, NEW r \in Regs, NEW v \in Seq(Tag), IsListOf(b, r, v),
         v # <<>>
  PROVE  IsListOf(FreeRenameBuffer(b, Head(v)), r, Tail(v))
<1> DEFINE c == FreeRenameBuffer(b, Head(v))
           w == Tail(v)
<1>1. /\ Len(v) \in Nat \ {0} /\ Head(v) = v[1]
      /\ \A i \in 1 .. Len(v) : v[i] \in Tag
  OBVIOUS
<1>2. /\ Len(w) = Len(v) - 1
      /\ \A i \in 1 .. Len(v) - 1 : w[i] = v[i + 1]
  BY <1>1
<1>3. b.reg[v[1]] = r /\ r # None BY <1>1 DEF IsListOf
<1>4. /\ b.next[v[1]] = None => c.renames[r] = None
      /\ b.next[v[1]] # None => c.renames[r] = b.renames[r]
      /\ \A u \in Tag \ {v[1]} : c.reg[u] = b.reg[u]
      /\ \A u \in Tag : u = b.next[v[1]] => c.prev[u] = None
      /\ \A u \in Tag : u # b.next[v[1]] => c.prev[u] = b.prev[u]
      /\ c.next = b.next
  BY <1>1, <1>3 DEF FreeRenameBuffer, Binding
<1>5. None \notin Tag BY DEF None, Tag
<1> HIDE DEF c, w
<1>6. ASSUME NEW i \in 1 .. Len(w)
      PROVE  /\ c.reg[w[i]] = r
             /\ i = 1 => c.prev[w[i]] = None
             /\ i > 1 => c.prev[w[i]] = w[i - 1]
             /\ i = Len(w) => c.next[w[i]] = None
             /\ i < Len(w) => c.next[w[i]] = w[i + 1]
             /\ \A j \in 1 .. Len(w) : w[i] = w[j] => i = j
  <2>1. i + 1 \in 2 .. Len(v) /\ w[i] = v[i + 1] /\ v[i + 1] \in Tag /\ 1 \in 1 .. Len(v)
    BY <1>1, <1>2
  <2>2. v[i + 1] # v[1] BY <1>1, <2>1 DEF IsListOf
  <2>3. b.next[v[1]] = v[2] BY <1>1, <2>1 DEF IsListOf
  <2>4. v[i + 1] = v[2] <=> i = 1 BY <1>1, <2>1 DEF IsListOf
  <2>5. c.reg[w[i]] = r BY <1>1, <1>4, <2>1, <2>2 DEF IsListOf
  <2>6. i = 1 => c.prev[w[i]] = None BY <1>4, <2>1, <2>3
  <2>7. i > 1 => c.prev[w[i]] = w[i - 1]
    <3>1. b.prev[v[i + 1]] = v[i] BY <1>1, <2>1 DEF IsListOf
    <3> QED BY <1>1, <1>2, <1>4, <2>1, <2>3, <2>4, <3>1
  <2>8. /\ i = Len(w) => c.next[w[i]] = None
        /\ i < Len(w) => c.next[w[i]] = w[i + 1]
    <3>1. i + 1 = Len(v) => b.next[v[i + 1]] = None BY <1>1, <2>1 DEF IsListOf
    <3>2. i + 1 < Len(v) => b.next[v[i + 1]] = v[i + 1 + 1] BY <1>1, <2>1 DEF IsListOf
    <3> QED BY <1>1, <1>2, <1>4, <2>1, <3>1, <3>2
  <2>9. \A j \in 1 .. Len(w) : w[i] = w[j] => i = j
    BY <1>1, <1>2, <2>1 DEF IsListOf
  <2> QED BY <2>5, <2>6, <2>7, <2>8, <2>9
<1>7. /\ Len(w) = 0 => c.renames[r] = None
      /\ Len(w) > 0 => c.renames[r] = w[Len(w)]
  <2>1. 1 \in 1 .. Len(v) BY <1>1
  <2>2. Len(v) = 1 => b.next[v[1]] = None BY <2>1 DEF IsListOf
  <2>3. Len(v) > 1 => b.next[v[1]] = v[2] /\ v[2] \in Tag BY <1>1, <2>1 DEF IsListOf
  <2>4. b.renames[r] = v[Len(v)] BY <1>1 DEF IsListOf
  <2> QED BY <1>1, <1>2, <1>4, <1>5, <2>2, <2>3, <2>4
<1>8. IsListOf(c, r, w) BY <1>6, <1>7 DEF IsListOf
<1> QED BY <1>8 DEF c, w

\* Freeing the newest buffer removes the last element of its list.
LEMMA FreeReverseRemovesLast ==
  ASSUME NEW b \in Binding, NEW r \in Regs, NEW v \in Seq(Tag), IsListOf(b, r, v),
         v # <<>>
  PROVE  IsListOf(FreeRenameBufferReverseOrder(b, v[Len(v)]), r, SubSeq(v, 1, Len(v) - 1))
<1> DEFINE t == v[Len(v)]
           c == FreeRenameBufferReverseOrder(b, t)
           w == SubSeq(v, 1, Len(v) - 1)
<1>1. /\ Len(v) \in Nat \ {0}
      /\ \A i \in 1 .. Len(v) : v[i] \in Tag
  OBVIOUS
<1>2. /\ Len(w) = Len(v) - 1
      /\ \A i \in 1 .. Len(v) - 1 : w[i] = v[i]
  <2>1. PICK n : n = Len(v) OBVIOUS
  <2>2. w = SubSeq(v, 1, n - 1) BY <2>1
  <2> HIDE DEF w
  <2> QED BY <1>1, <2>1, <2>2
<1>3. t \in Tag /\ b.reg[t] = r /\ r # None BY <1>1 DEF IsListOf
<1>4. /\ c.renames[r] = b.prev[t]
      /\ \A u \in Tag \ {t} : c.reg[u] = b.reg[u]
      /\ \A u \in Tag : u = b.prev[t] => c.next[u] = None
      /\ \A u \in Tag : u # b.prev[t] => c.next[u] = b.next[u]
      /\ c.prev = b.prev
  BY <1>3 DEF FreeRenameBufferReverseOrder, Binding
<1>5. /\ Len(v) = 1 => b.prev[t] = None
      /\ Len(v) > 1 => b.prev[t] = v[Len(v) - 1]
  BY <1>1 DEF IsListOf
<1>6. \A i \in 1 .. Len(v) - 1 : v[i] # t BY <1>1 DEF IsListOf
<1> HIDE DEF c, t, w
<1>7. ASSUME NEW i \in 1 .. Len(w)
      PROVE  /\ c.reg[w[i]] = r
             /\ i = 1 => c.prev[w[i]] = None
             /\ i > 1 => c.prev[w[i]] = w[i - 1]
             /\ i = Len(w) => c.next[w[i]] = None
             /\ i < Len(w) => c.next[w[i]] = w[i + 1]
             /\ \A j \in 1 .. Len(w) : w[i] = w[j] => i = j
  <2>1. i \in 1 .. Len(v) - 1 /\ i \in 1 .. Len(v) /\ w[i] = v[i] /\ v[i] \in Tag
    BY <1>1, <1>2
  <2>2. v[i] = v[Len(v) - 1] <=> i = Len(v) - 1 BY <1>1, <2>1 DEF IsListOf
  <2>3. c.reg[w[i]] = r BY <1>4, <1>6, <2>1 DEF IsListOf
  <2>4. /\ i = 1 => c.prev[w[i]] = None
        /\ i > 1 => c.prev[w[i]] = w[i - 1]
    BY <1>1, <1>2, <1>4, <2>1 DEF IsListOf
  <2>5. i = Len(w) => c.next[w[i]] = None
    BY <1>1, <1>2, <1>4, <1>5, <2>1
  <2>6. i < Len(w) => c.next[w[i]] = w[i + 1]
    <3>1. b.next[v[i]] = v[i + 1] BY <1>1, <2>1 DEF IsListOf
    <3> QED BY <1>1, <1>2, <1>4, <1>5, <2>1, <2>2, <3>1
  <2>7. \A j \in 1 .. Len(w) : w[i] = w[j] => i = j
    BY <1>1, <1>2, <2>1 DEF IsListOf
  <2> QED BY <2>3, <2>4, <2>5, <2>6, <2>7
<1>8. /\ Len(w) = 0 => c.renames[r] = None
      /\ Len(w) > 0 => c.renames[r] = w[Len(w)]
  BY <1>1, <1>2, <1>4, <1>5
<1>9. IsListOf(c, r, w) BY <1>7, <1>8 DEF IsListOf
<1> QED BY <1>9 DEF c, t, w

\* None of the three touches the links of another register.
LEMMA OtherListsKept ==
  ASSUME NEW b \in Binding, NEW r \in Regs, NEW v \in Seq(Tag), IsListOf(b, r, v),
         NEW q \in Regs \ {r}, NEW w \in Seq(Tag), IsListOf(b, q, w)
  PROVE  /\ \A t \in Tag : b.reg[t] = None => IsListOf(AllocateAt(b, r, t), q, w)
         /\ v # <<>> => IsListOf(FreeRenameBuffer(b, Head(v)), q, w)
         /\ v # <<>> => IsListOf(FreeRenameBufferReverseOrder(b, v[Len(v)]), q, w)
<1>1. /\ Len(v) \in Nat /\ Len(w) \in Nat
      /\ \A i \in 1 .. Len(v) : v[i] \in Tag
      /\ \A i \in 1 .. Len(w) : w[i] \in Tag
      /\ r # None /\ q # None
      /\ v # <<>> => Len(v) > 0 /\ Head(v) = v[1]
  OBVIOUS
<1>2. \A i \in 1 .. Len(w) : \A j \in 1 .. Len(v) : w[i] # v[j] BY DEF IsListOf
<1>3. ASSUME NEW c,
             c.renames[q] = b.renames[q],
             \A i \in 1 .. Len(w) : /\ c.reg[w[i]] = b.reg[w[i]]
                                    /\ c.prev[w[i]] = b.prev[w[i]]
                                    /\ c.next[w[i]] = b.next[w[i]]
      PROVE  IsListOf(c, q, w)
  BY <1>3 DEF IsListOf
<1>4. b.renames[r] = None \/ \E j \in 1 .. Len(v) : b.renames[r] = v[j]
  <2>1. Len(v) > 0 => Len(v) \in 1 .. Len(v) BY <1>1
  <2> QED BY <1>1, <2>1 DEF IsListOf
<1>5. ASSUME NEW t \in Tag, b.reg[t] = None
      PROVE  IsListOf(AllocateAt(b, r, t), q, w)
  <2>1. \A i \in 1 .. Len(w) : w[i] # t /\ w[i] # b.renames[r]
    BY <1>1, <1>2, <1>4, <1>5 DEF IsListOf, None, Tag
  <2>2. /\ AllocateAt(b, r, t).renames[q] = b.renames[q]
        /\ \A i \in 1 .. Len(w) : /\ AllocateAt(b, r, t).reg[w[i]] = b.reg[w[i]]
                                  /\ AllocateAt(b, r, t).prev[w[i]] = b.prev[w[i]]
                                  /\ AllocateAt(b, r, t).next[w[i]] = b.next[w[i]]
    BY <1>1, <2>1 DEF AllocateAt, Binding
  <2> QED BY <1>3, <2>2
<1>6. ASSUME v # <<>> PROVE IsListOf(FreeRenameBuffer(b, Head(v)), q, w)
  <2>1. 1 \in 1 .. Len(v) /\ b.reg[v[1]] = r BY <1>1, <1>6 DEF IsListOf
  <2>2. \A i \in 1 .. Len(w) : w[i] # v[1] /\ w[i] # b.next[v[1]]
    <3>1. b.next[v[1]] = None \/ (2 \in 1 .. Len(v) /\ b.next[v[1]] = v[2])
      BY <1>1, <2>1 DEF IsListOf
    <3> QED BY <1>1, <1>2, <2>1, <3>1 DEF None, Tag
  <2>3. /\ FreeRenameBuffer(b, v[1]).renames[q] = b.renames[q]
        /\ \A i \in 1 .. Len(w) : /\ FreeRenameBuffer(b, v[1]).reg[w[i]] = b.reg[w[i]]
                                  /\ FreeRenameBuffer(b, v[1]).prev[w[i]] = b.prev[w[i]]
                                  /\ FreeRenameBuffer(b, v[1]).next[w[i]] = b.next[w[i]]
    BY <1>1, <2>1, <2>2 DEF FreeRenameBuffer, Binding
  <2> QED BY <1>1, <1>3, <1>6, <2>3
<1>7. ASSUME v # <<>> PROVE IsListOf(FreeRenameBufferReverseOrder(b, v[Len(v)]), q, w)
  <2> DEFINE t == v[Len(v)]
             c == FreeRenameBufferReverseOrder(b, t)
  <2>1. Len(v) \in 1 .. Len(v) /\ t \in Tag /\ b.reg[t] = r BY <1>1, <1>7 DEF IsListOf
  <2>2. \A i \in 1 .. Len(w) : w[i] # t /\ w[i] # b.prev[t]
    <3>1. b.prev[t] = None \/ (Len(v) - 1 \in 1 .. Len(v) /\ b.prev[t] = v[Len(v) - 1])
      BY <1>1, <2>1 DEF IsListOf
    <3> QED BY <1>1, <1>2, <2>1, <3>1 DEF None, Tag
  <2>3. /\ c.renames[q] = b.renames[q]
        /\ \A i \in 1 .. Len(w) : /\ c.reg[w[i]] = b.reg[w[i]]
                                  /\ c.prev[w[i]] = b.prev[w[i]]
                                  /\ c.next[w[i]] = b.next[w[i]]
    <3> HIDE DEF t
    <3> QED BY <1>1, <2>1, <2>2 DEF FreeRenameBufferReverseOrder, Binding
  <2> QED BY <1>3, <2>3
<1> QED BY <1>5, <1>6, <1>7

-----------------------------------------------------------------------------
(***************************************************************************)
(* The operations on the tables as a whole.                                *)
(***************************************************************************)

\* Reset(): every list is empty and every buffer is counted.
LEMMA EmptyRepresents == Represents(EmptyBinding, [r \in Regs |-> <<>>])
<1> DEFINE v == [r \in Regs |-> <<>>]
<1>1. EmptyBinding \in Binding /\ v \in [Regs -> Seq(Tag)]
  BY DEF EmptyBinding, Binding, Tag, None
<1>2. \A r \in Regs : IsListOf(EmptyBinding, r, v[r])
  BY \A i \in 1 .. 0 : FALSE DEF EmptyBinding, IsListOf
<1>3. FreeTags(EmptyBinding) = Tag BY DEF EmptyBinding, FreeTags
<1>4. EmptyBinding.nfree = Cardinality(FreeTags(EmptyBinding))
  BY <1>3, TagFinite DEF EmptyBinding
<1>5. \A t \in Tag : EmptyBinding.reg[t] = None /\ ~ EmptyBinding.valid[t]
  BY DEF EmptyBinding
<1> QED BY <1>1, <1>2, <1>4, <1>5 DEF Represents

\* An allocation: its register gets one more version, the other lists are untouched, and
\* one buffer fewer is free.
LEMMA AllocateRepresents ==
  ASSUME NEW b, NEW v, Represents(b, v), NEW r \in Regs, NEW t \in Tag, b.reg[t] = None
  PROVE  Represents(AllocateAt(b, r, t), [v EXCEPT ![r] = Append(@, t)])
<1> DEFINE c == AllocateAt(b, r, t)
           w == [v EXCEPT ![r] = Append(@, t)]
<1>1. b \in Binding /\ v \in [Regs -> Seq(Tag)] /\ v[r] \in Seq(Tag) BY DEF Represents
<1>2. /\ c.reg = [b.reg EXCEPT ![t] = r] /\ c.valid = [b.valid EXCEPT ![t] = FALSE]
      /\ c.nfree = b.nfree - 1
      /\ c.nfree \in 0 .. NTags => c \in Binding
  BY <1>1 DEF AllocateAt, Binding
<1>3. /\ w[r] = Append(v[r], t) /\ w \in [Regs -> Seq(Tag)]
      /\ \A q \in Regs \ {r} : w[q] = v[q]
  <2>1. Append(v[r], t) \in Seq(Tag) BY <1>1
  <2> QED BY <1>1, <2>1
<1>4. \A q \in Regs : IsListOf(c, q, w[q])
  <2>1. IsListOf(c, r, w[r]) BY <1>1, <1>3, AllocateAppends DEF Represents
  <2>2. ASSUME NEW q \in Regs \ {r} PROVE IsListOf(c, q, w[q])
    BY <1>1, <1>3, OtherListsKept DEF Represents
  <2> QED BY <2>1, <2>2
<1> HIDE DEF c, w
<1>5. c.nfree = Cardinality(FreeTags(c)) /\ c.nfree \in 0 .. NTags
  <2>1. t \in FreeTags(b) /\ FreeTags(b) \in SUBSET Tag BY DEF FreeTags
  <2>2. FreeTags(c) = FreeTags(b) \ {t} BY <1>1, <1>2 DEF FreeTags, Binding, Tag, None
  <2>3. b.nfree \in 0 .. NTags BY <1>1 DEF Binding
  <2>4. b.nfree = Cardinality(FreeTags(b)) BY DEF Represents
  <2>5. c.nfree = b.nfree - 1 BY <1>2
  <2> QED BY <2>1, <2>2, <2>3, <2>4, <2>5, OneLess
<1>6. ASSUME NEW u \in Tag, c.reg[u] # None PROVE IsVersion(w, c.reg[u], u)
  <2>1. CASE u = t
    <3>1. c.reg[u] = r BY <1>1, <1>2, <2>1 DEF Binding
    <3>2. Len(w[r]) \in 1 .. Len(w[r]) /\ w[r][Len(w[r])] = t BY <1>1, <1>3
    <3> QED BY <2>1, <3>1, <3>2 DEF IsVersion
  <2>2. CASE u # t
    <3>1. c.reg[u] = b.reg[u] /\ b.reg[u] \in Regs BY <1>1, <1>2, <1>6, <2>2 DEF Binding
    <3>2. PICK i \in 1 .. Len(v[b.reg[u]]) : v[b.reg[u]][i] = u
      BY <1>6, <3>1 DEF Represents, IsVersion
    <3>3. CASE b.reg[u] = r
      <4>1. i \in 1 .. Len(w[r]) /\ w[r][i] = v[r][i] BY <1>1, <1>3, <3>2, <3>3
      <4> QED BY <3>1, <3>2, <3>3, <4>1 DEF IsVersion
    <3>4. CASE b.reg[u] # r BY <1>3, <3>1, <3>2, <3>4 DEF IsVersion
    <3> QED BY <3>3, <3>4
  <2> QED BY <2>1, <2>2
<1>7. \A u \in Tag : c.valid[u] => c.reg[u] # None
  BY <1>1, <1>2 DEF Represents, Binding, Tag, None
<1>8. Represents(c, w) BY <1>2, <1>3, <1>4, <1>5, <1>6, <1>7 DEF Represents
<1> QED BY <1>8 DEF c, w

\* What a free does to everything but the links: it frees exactly the buffer t.
Frees(b, c, t) ==
  /\ c.reg = [b.reg EXCEPT ![t] = None] /\ c.valid = [b.valid EXCEPT ![t] = FALSE]
  /\ c.nfree = b.nfree + 1 /\ (c.nfree \in 0 .. NTags => c \in Binding)
LosesOnly(v, t, s) ==
  \A i \in 1 .. Len(v) : v[i] # t => \E j \in 1 .. Len(s) : s[j] = v[i]
OthersKept(c, v, r) == \A q \in Regs \ {r} : IsListOf(c, q, v[q])

LEMMA FreeRepresents ==
  ASSUME NEW b, NEW v, Represents(b, v), NEW r \in Regs, NEW t \in Tag, b.reg[t] = r,
         NEW c, NEW s \in Seq(Tag),
         Frees(b, c, t), LosesOnly(v[r], t, s), IsListOf(c, r, s), OthersKept(c, v, r)
  PROVE  Represents(c, [v EXCEPT ![r] = s])
<1> DEFINE w == [v EXCEPT ![r] = s]
<1>1. b \in Binding /\ v \in [Regs -> Seq(Tag)] BY DEF Represents
<1>0. /\ c.reg = [b.reg EXCEPT ![t] = None] /\ c.valid = [b.valid EXCEPT ![t] = FALSE]
      /\ c.nfree = b.nfree + 1 /\ (c.nfree \in 0 .. NTags => c \in Binding)
  BY DEF Frees
<1>2. w[r] = s /\ w \in [Regs -> Seq(Tag)] /\ \A q \in Regs \ {r} : w[q] = v[q] BY <1>1
<1> HIDE DEF w
<1>3. t \in Tag \ FreeTags(b) /\ FreeTags(b) \in SUBSET Tag BY DEF FreeTags
<1>4. FreeTags(c) = FreeTags(b) \cup {t} BY <1>0, <1>1 DEF FreeTags, Binding
<1>5. c.nfree = Cardinality(FreeTags(c)) /\ c.nfree \in 0 .. NTags
  <2>1. b.nfree = Cardinality(FreeTags(b)) BY DEF Represents
  <2>2. c.nfree = b.nfree + 1 BY <1>0
  <2> QED BY <1>3, <1>4, <2>1, <2>2, OneMore
<1>6. \A u \in Tag : c.valid[u] => c.reg[u] # None BY <1>0, <1>1 DEF Represents, Binding
<1>7. ASSUME NEW u \in Tag, c.reg[u] # None PROVE IsVersion(w, c.reg[u], u)
  <2>1. u # t /\ c.reg[u] = b.reg[u] /\ b.reg[u] \in Regs BY <1>0, <1>1, <1>7 DEF Binding
  <2>2. PICK i \in 1 .. Len(v[b.reg[u]]) : v[b.reg[u]][i] = u
    BY <1>7, <2>1 DEF Represents, IsVersion
  <2>3. CASE b.reg[u] = r
    <3>1. \E j \in 1 .. Len(s) : s[j] = u BY <2>1, <2>2, <2>3 DEF LosesOnly
    <3> QED BY <1>2, <2>1, <2>3, <3>1 DEF IsVersion
  <2>4. CASE b.reg[u] # r BY <1>2, <2>1, <2>2, <2>4 DEF IsVersion
  <2> QED BY <2>3, <2>4
<1>8. \A q \in Regs : IsListOf(c, q, w[q]) BY <1>2 DEF OthersKept
<1>9. Represents(c, w) BY <1>0, <1>2, <1>5, <1>6, <1>7, <1>8 DEF Represents
<1> QED BY <1>9 DEF w

\* A retirement: the list of the register loses its first version.
LEMMA FreeOldestRepresents ==
  ASSUME NEW b, NEW v, Represents(b, v), NEW r \in Regs, v[r] # <<>>
  PROVE  /\ Head(v[r]) \in Tag /\ b.reg[Head(v[r])] = r
         /\ Represents(FreeRenameBuffer(b, Head(v[r])), [v EXCEPT ![r] = Tail(@)])
<1>1. b \in Binding /\ v \in [Regs -> Seq(Tag)] /\ v[r] \in Seq(Tag) BY DEF Represents
<1> DEFINE t == Head(v[r])
           s == Tail(v[r])
           c == FreeRenameBuffer(b, t)
<1>2. /\ Len(v[r]) \in Nat \ {0} /\ t = v[r][1] /\ t \in Tag
      /\ s \in Seq(Tag) /\ Len(s) = Len(v[r]) - 1
      /\ \A i \in 1 .. Len(v[r]) - 1 : s[i] = v[r][i + 1]
  BY <1>1
<1>3. b.reg[t] = r /\ r # None BY <1>2 DEF Represents, IsListOf
<1>4. IsListOf(c, r, s) BY <1>1, FreeRemovesFirst DEF Represents
<1>5. OthersKept(c, v, r) BY <1>1, OtherListsKept DEF Represents, OthersKept
<1>6. [v EXCEPT ![r] = Tail(@)] = [v EXCEPT ![r] = s] BY <1>1
<1> HIDE DEF t, s
<1>7. Frees(b, c, t) BY <1>1, <1>2, <1>3 DEF Frees, FreeRenameBuffer, Binding
<1> HIDE DEF c
<1>8. LosesOnly(v[r], t, s)
  <2> SUFFICES ASSUME NEW i \in 1 .. Len(v[r]), v[r][i] # t
               PROVE  \E j \in 1 .. Len(s) : s[j] = v[r][i]
    BY DEF LosesOnly
  <2>1. i - 1 \in 1 .. Len(s) /\ s[i - 1] = v[r][i] BY <1>2
  <2> QED BY <2>1
<1>9. Represents(c, [v EXCEPT ![r] = s])
  BY <1>2, <1>3, <1>4, <1>5, <1>7, <1>8, FreeRepresents
<1> QED BY <1>2, <1>3, <1>6, <1>9 DEF c, t

\* A flush: the list of the register loses its last version.
LEMMA FreeNewestRepresents ==
  ASSUME NEW b, NEW v, Represents(b, v), NEW r \in Regs, v[r] # <<>>
  PROVE  /\ v[r][Len(v[r])] \in Tag /\ b.reg[v[r][Len(v[r])]] = r
         /\ Represents(FreeRenameBufferReverseOrder(b, v[r][Len(v[r])]),
                       [v EXCEPT ![r] = SubSeq(@, 1, Len(@) - 1)])
<1>1. b \in Binding /\ v \in [Regs -> Seq(Tag)] /\ v[r] \in Seq(Tag) BY DEF Represents
<1>2. PICK n : n = Len(v[r]) OBVIOUS
<1>3. PICK t : t = v[r][n] OBVIOUS
<1> DEFINE s == SubSeq(v[r], 1, n - 1)
           c == FreeRenameBufferReverseOrder(b, t)
<1>4. n \in Nat \ {0} /\ t \in Tag BY <1>1, <1>2, <1>3
<1>5. /\ s \in Seq(Tag) /\ Len(s) = n - 1
      /\ \A i \in 1 .. n - 1 : s[i] = v[r][i]
  BY <1>1, <1>2, <1>4
<1>6. b.reg[t] = r /\ r # None BY <1>2, <1>3, <1>4 DEF Represents, IsListOf
<1>7. IsListOf(c, r, s) BY <1>1, <1>2, <1>3, FreeReverseRemovesLast DEF Represents
<1>8. OthersKept(c, v, r) BY <1>1, <1>2, <1>3, OtherListsKept DEF Represents, OthersKept
<1>9. [v EXCEPT ![r] = SubSeq(@, 1, Len(@) - 1)] = [v EXCEPT ![r] = s] BY <1>1, <1>2
<1> HIDE DEF s
<1>10. Frees(b, c, t)
  BY <1>1, <1>4, <1>6 DEF Frees, FreeRenameBufferReverseOrder, Binding
<1> HIDE DEF c
<1>11. LosesOnly(v[r], t, s) BY <1>2, <1>3, <1>4, <1>5 DEF LosesOnly
<1>12. Represents(c, [v EXCEPT ![r] = s])
  BY <1>4, <1>5, <1>6, <1>7, <1>8, <1>10, <1>11, FreeRepresents
<1> QED BY <1>2, <1>3, <1>4, <1>6, <1>9, <1>12 DEF c

\* The arrival of a result: the buffer it validates is allocated.
LEMMA ValidateRepresents ==
  ASSUME NEW b, NEW v, Represents(b, v), NEW t \in Tag, b.reg[t] # None
  PROVE  Represents(ValidateRenameBuffer(b, t), v)
<1> DEFINE c == ValidateRenameBuffer(b, t)
<1>1. b \in Binding BY DEF Represents
<1>2. /\ c.renames = b.renames /\ c.reg = b.reg /\ c.prev = b.prev /\ c.next = b.next
      /\ c.nfree = b.nfree /\ c.valid = [b.valid EXCEPT ![t] = TRUE] /\ c \in Binding
  BY <1>1 DEF ValidateRenameBuffer, Binding
<1> HIDE DEF c
<1>3. FreeTags(c) = FreeTags(b) BY <1>2 DEF FreeTags
<1>4. \A u \in Tag : c.valid[u] => c.reg[u] # None BY <1>1, <1>2 DEF Represents, Binding
<1>5. \A r \in Regs : IsListOf(c, r, v[r]) BY <1>2 DEF Represents, IsListOf
<1>6. Represents(c, v) BY <1>2, <1>3, <1>4, <1>5 DEF Represents
<1> QED BY <1>6 DEF c

\* A free buffer exists whenever nfree says so, and then a first one does.
LEMMA FirstFreeExists ==
  ASSUME NEW b, NEW v, Represents(b, v), b.nfree > 0
  PROVE  \E t \in Tag : IsFirstFree(b, t)
<1>1. FreeTags(b) # {} /\ FreeTags(b) \subseteq Nat
  <2>1. b.nfree = Cardinality(FreeTags(b)) BY DEF Represents
  <2> QED BY <2>1, FS_EmptySet DEF FreeTags, Tag
<1> DEFINE less == OpToRel(<, Nat)
<1>2. \A m, n \in Nat : <<m, n>> \in less <=> m < n
  BY DEF OpToRel
<1>3. IsWellFoundedOn(less, Nat) BY NatLessThanWellFounded
<1> HIDE DEF less
<1>4. \E t \in FreeTags(b) : \A u \in FreeTags(b) : ~ (<<u, t>> \in less)
  BY <1>1, <1>3, WFMin
<1>5. PICK t \in FreeTags(b) : \A u \in FreeTags(b) : ~ (<<u, t>> \in less) BY <1>4
<1>6. t \in Nat /\ t \in Tag /\ b.reg[t] = None BY <1>1 DEF FreeTags
<1>7. ASSUME NEW u \in Tag, b.reg[u] = None PROVE t <= u
  <2>1. u \in FreeTags(b) /\ u \in Nat BY <1>1, <1>7 DEF FreeTags
  <2>2. ~ (u < t) BY <1>2, <1>5, <1>6, <2>1
  <2> QED BY <1>6, <2>1, <2>2
<1> QED BY <1>6, <1>7 DEF IsFirstFree
=============================================================================
