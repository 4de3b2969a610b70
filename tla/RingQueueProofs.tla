-------------------------- MODULE RingQueueProofs --------------------------
(***************************************************************************)
(* The ring queue is correct for every number of entries: its type         *)
(* invariant, the meaning of Contains(), the stability of the tags, and    *)
(* the refinement of the bounded sequence.  The type invariant is          *)
(* inductive; it ties head to tail and size modulo the size of the ring.   *)
(***************************************************************************)
EXTENDS RingQueue, TLAPS

\* The remainder of a sum that makes at most one turn of the ring.
Turn(a) == IF a < nQueueEntries THEN a ELSE a - nQueueEntries

\* The sums the queue computes make at most one turn.
LEMMA OneTurn ==
  ASSUME NEW a \in 0 .. 2 * nQueueEntries - 1
  PROVE  a % nQueueEntries = Turn(a) /\ Turn(a) \in Index
<1>1. CASE a < nQueueEntries BY <1>1, QueueAssumption DEF Index, Turn
<1>2. CASE a >= nQueueEntries BY <1>2, QueueAssumption DEF Index, Turn
<1> QED BY <1>1, <1>2, QueueAssumption

\* The type invariant without remainders.
LEMMA TypeLinear ==
  TypeInvariant <=>
    /\ queue \in [Index -> Values]
    /\ head \in -1 .. nQueueEntries - 1 /\ tail \in Index /\ size \in 0 .. nQueueEntries
    /\ Turn(head + 1) = Turn(tail + size)
    /\ head = -1 => size = 0
<1> SUFFICES ASSUME head \in -1 .. nQueueEntries - 1, tail \in Index, size \in 0 .. nQueueEntries
             PROVE  /\ (head + 1) % nQueueEntries = Turn(head + 1)
                    /\ (tail + size) % nQueueEntries = Turn(tail + size)
  BY DEF TypeInvariant
<1>1. head + 1 \in 0 .. 2 * nQueueEntries - 1 BY QueueAssumption
<1>2. tail + size \in 0 .. 2 * nQueueEntries - 1 BY QueueAssumption DEF Index
<1> QED BY <1>1, <1>2, OneTurn

-----------------------------------------------------------------------------
\* The constructor sets the ends of an empty queue.
LEMMA InitType == Init => TypeInvariant
  BY QueueAssumption, TypeLinear DEF Init, Turn, Index

\* Every operation keeps head the entry before the place of the next one.
LEMMA NextType == TypeInvariant /\ [Next]_vars => TypeInvariant'
<1> SUFFICES ASSUME TypeInvariant, [Next]_vars PROVE TypeInvariant'
  OBVIOUS
<1> DEFINE Linear == /\ queue \in [Index -> Values]
                     /\ head \in -1 .. nQueueEntries - 1 /\ tail \in Index
                     /\ size \in 0 .. nQueueEntries
                     /\ Turn(head + 1) = Turn(tail + size)
                     /\ head = -1 => size = 0
<1>0. Linear BY TypeLinear
<1>1. ASSUME NEW v \in Values, Allocate(v) PROVE Linear'
  <2>1. (head + 1) % nQueueEntries = Turn(head + 1) /\ Turn(head + 1) \in Index
    <3>1. head + 1 \in 0 .. 2 * nQueueEntries - 1 BY <1>0, QueueAssumption
    <3> QED BY <3>1, OneTurn
  <2>2. /\ head' = Turn(head + 1) /\ tail' = tail /\ size' = size + 1 /\ size < nQueueEntries
        /\ queue' = [queue EXCEPT ![Turn(head + 1)] = v]
    BY <1>1, <2>1 DEF Allocate, MayAllocate
  <2>3. queue' \in [Index -> Values] BY <1>0, <2>1, <2>2
  <2> QED BY <1>0, <2>1, <2>2, <2>3, QueueAssumption DEF Turn, Index
<1>2. ASSUME NEW n \in 1 .. nQueueEntries, Pop(n) PROVE Linear'
  <2>1. (tail + n) % nQueueEntries = Turn(tail + n) /\ Turn(tail + n) \in Index
    <3>1. tail + n \in 0 .. 2 * nQueueEntries - 1 BY <1>0, QueueAssumption DEF Index
    <3> QED BY <3>1, OneTurn
  <2>2. /\ tail' = Turn(tail + n) /\ size' = size - n /\ n <= size
        /\ head' = head /\ queue' = queue
    BY <1>2, <2>1 DEF Pop
  <2> QED BY <1>0, <2>1, <2>2, QueueAssumption DEF Turn, Index
<1>3. ASSUME NEW n \in 1 .. nQueueEntries, FlushNewest(n) PROVE Linear'
  <2>0. n <= size /\ head >= 0
    BY <1>0, <1>3 DEF FlushNewest
  <2>1. HeadAfterFlush(n) = Turn(head + nQueueEntries - n) /\ HeadAfterFlush(n) \in Index
    <3>1. head + nQueueEntries - n \in 0 .. 2 * nQueueEntries - 1
      BY <1>0, <2>0, QueueAssumption
    <3> QED BY <3>1, OneTurn DEF HeadAfterFlush
  <2>2. /\ head' = Turn(head + nQueueEntries - n) /\ size' = size - n
        /\ tail' = tail /\ queue' = queue
    BY <1>3, <2>1 DEF FlushNewest
  <2> QED BY <1>0, <2>0, <2>1, <2>2, QueueAssumption DEF Turn, Index
<1>4. ASSUME FlushAll PROVE Linear'
  BY <1>0, <1>4, QueueAssumption DEF FlushAll, Turn, Index
<1>5. ASSUME UNCHANGED vars PROVE Linear'
  BY <1>0, <1>5 DEF vars
<1>6. Linear' BY <1>1, <1>2, <1>3, <1>4, <1>5 DEF Next
<1> QED BY <1>6, TypeLinear, PTL

\* The ends of the ring never drift apart from its size: head, tail and size stay in
\* their ranges and agree through every wrap and every flush.
THEOREM TypeCorrect == Spec => []TypeInvariant
BY InitType, NextType, PTL DEF Spec

-----------------------------------------------------------------------------
\* The places of the ring are reached from the tail in at most one turn.
LEMMA Places ==
  ASSUME TypeInvariant, NEW k \in 0 .. nQueueEntries
  PROVE  (tail + k) % nQueueEntries = Turn(tail + k) /\ Turn(tail + k) \in Index
<1>1. tail + k \in 0 .. 2 * nQueueEntries - 1 BY QueueAssumption DEF TypeInvariant, Index
<1> QED BY <1>1, OneTurn

\* A tag the units hold is found in the queue exactly when its entry is there.
THEOREM ContainsIsExact == Spec => []ContainsExact
<1>1. TypeInvariant => ContainsExact
  <2> SUFFICES ASSUME TypeInvariant, size > 0, NEW i \in Index
               PROVE  Contains(i) <=> i \in Occupied
    BY DEF ContainsExact
  <2>0. /\ tail \in Index /\ size \in 1 .. nQueueEntries /\ head \in Index
        /\ Turn(head + 1) = Turn(tail + size)
    BY TypeLinear DEF Index
  <2>1. ASSUME Contains(i) PROVE i \in Occupied
    <3>1. PICK k \in 0 .. size - 1 : Turn(tail + k) = i
      <4>1. CASE i >= tail
        <5>1. i - tail \in 0 .. size - 1
          BY <2>0, <2>1, <4>1, QueueAssumption DEF Contains, Turn, Index
        <5>2. Turn(tail + (i - tail)) = i BY <2>0, <4>1, QueueAssumption DEF Turn, Index
        <5> QED BY <5>1, <5>2
      <4>2. CASE i < tail
        <5>1. i + nQueueEntries - tail \in 0 .. size - 1
          BY <2>0, <2>1, <4>2, QueueAssumption DEF Contains, Turn, Index
        <5>2. Turn(tail + (i + nQueueEntries - tail)) = i
          BY <2>0, <4>2, QueueAssumption DEF Turn, Index
        <5> QED BY <5>1, <5>2
      <4> QED BY <4>1, <4>2, <2>0 DEF Index
    <3>2. k \in 0 .. nQueueEntries BY <2>0, QueueAssumption
    <3>3. (tail + k) % nQueueEntries = i BY <3>1, <3>2, Places
    <3> QED BY <3>3 DEF Occupied
  <2>2. ASSUME i \in Occupied PROVE Contains(i)
    <3>1. PICK k \in 0 .. size - 1 : i = (tail + k) % nQueueEntries BY <2>2 DEF Occupied
    <3>2. k \in 0 .. nQueueEntries BY <2>0, QueueAssumption
    <3>3. i = Turn(tail + k) BY <3>1, <3>2, Places
    <3> QED BY <2>0, <3>3, QueueAssumption DEF Contains, Turn, Index
  <2> QED BY <2>1, <2>2
<1> QED BY <1>1, TypeCorrect, PTL

\* Both ends of the queue show the same sequence.
THEOREM EndsDoAgree == Spec => []EndsAgree
<1>1. TypeInvariant => EndsAgree
  <2> SUFFICES ASSUME TypeInvariant, NEW i \in 0 .. size - 1
               PROVE  (head + nQueueEntries - i) % nQueueEntries
                      = (tail + (size - 1 - i)) % nQueueEntries
    BY DEF EndsAgree, GetRecentEntry, At
  <2>0. /\ tail \in Index /\ size \in 1 .. nQueueEntries /\ head \in Index
        /\ Turn(head + 1) = Turn(tail + size)
    BY TypeLinear DEF Index
  <2>1. (head + nQueueEntries - i) % nQueueEntries = Turn(head + nQueueEntries - i)
    <3>1. head + nQueueEntries - i \in 0 .. 2 * nQueueEntries - 1
      BY <2>0, QueueAssumption DEF Index
    <3> QED BY <3>1, OneTurn
  <2>2. (tail + (size - 1 - i)) % nQueueEntries = Turn(tail + (size - 1 - i))
    <3>1. size - 1 - i \in 0 .. nQueueEntries BY <2>0, QueueAssumption
    <3> QED BY <3>1, Places
  <2>3. Turn(head + nQueueEntries - i) = Turn(tail + (size - 1 - i))
    BY <2>0, QueueAssumption DEF Turn, Index
  <2> QED BY <2>1, <2>2, <2>3
<1> QED BY <1>1, TypeCorrect, PTL

-----------------------------------------------------------------------------
\* The queue as a sequence, without remainders.
Listed == [i \in 1 .. size |-> queue[Turn(tail + i - 1)]]

\* It is what the refinement mapping says.
LEMMA ListedContents == TypeInvariant => [i \in 1 .. size |-> At(i - 1)] = Listed
<1> SUFFICES ASSUME TypeInvariant, NEW i \in 1 .. size
             PROVE  At(i - 1) = queue[Turn(tail + i - 1)]
  BY DEF Listed
<1>1. i - 1 \in 0 .. nQueueEntries BY QueueAssumption DEF TypeInvariant
<1>2. (tail + (i - 1)) % nQueueEntries = Turn(tail + (i - 1)) BY <1>1, Places
<1>3. tail + (i - 1) = tail + i - 1 BY DEF TypeInvariant, Index
<1> QED BY <1>2, <1>3 DEF At

\* An allocation takes the place after the newest entry, which no queued entry has.
LEMMA AllocatePlace ==
  ASSUME TypeInvariant, NEW v \in Values, Allocate(v)
  PROVE  /\ size < nQueueEntries /\ size' = size + 1 /\ tail' = tail
         /\ queue' = [queue EXCEPT ![Turn(tail + size)] = v]
         /\ Turn(tail + size) \in Index
         /\ \A k \in 0 .. size - 1 : Turn(tail + k) # Turn(tail + size)
<1>0. /\ tail \in Index /\ size \in 0 .. nQueueEntries /\ head \in -1 .. nQueueEntries - 1
      /\ Turn(head + 1) = Turn(tail + size)
  BY TypeLinear
<1>1. (head + 1) % nQueueEntries = Turn(tail + size) /\ Turn(tail + size) \in Index
  <2>1. head + 1 \in 0 .. 2 * nQueueEntries - 1 BY <1>0, QueueAssumption
  <2> QED BY <1>0, <2>1, OneTurn
<1>2. size < nQueueEntries BY DEF Allocate, MayAllocate
<1>3. \A k \in 0 .. size - 1 : Turn(tail + k) # Turn(tail + size)
  BY <1>0, <1>2, QueueAssumption DEF Turn, Index
<1> QED BY <1>1, <1>2, <1>3 DEF Allocate

\* A pop moves the tail by the entries it removes.
LEMMA PopPlaces ==
  ASSUME TypeInvariant, NEW n \in 1 .. nQueueEntries, Pop(n)
  PROVE  /\ n <= size /\ size' = size - n /\ queue' = queue /\ tail' = Turn(tail + n)
         /\ \A i \in 1 .. size - n : Turn(tail' + i - 1) = Turn(tail + (n + i) - 1)
<1>0. tail \in Index /\ size \in 0 .. nQueueEntries BY DEF TypeInvariant
<1>1. tail' = Turn(tail + n)
  <2>1. n \in 0 .. nQueueEntries OBVIOUS
  <2> QED BY <2>1, Places DEF Pop
<1>2. \A i \in 1 .. size - n : Turn(tail' + i - 1) = Turn(tail + (n + i) - 1)
  BY <1>0, <1>1, QueueAssumption DEF Turn, Index
<1> QED BY <1>1, <1>2 DEF Pop

\* A tag stays with its entry while the entry is queued, whatever the queue does.
THEOREM TagsAreStable == Spec => TagStable
<1> DEFINE A == \A i \in Occupied \cap Occupied' : queue'[i] = queue[i]
<1>1. ASSUME TypeInvariant, [Next]_vars PROVE A
  <2>1. ASSUME NEW v \in Values, Allocate(v) PROVE A
    <3> SUFFICES ASSUME NEW i \in Occupied PROVE queue'[i] = queue[i]
      OBVIOUS
    <3>1. PICK k \in 0 .. size - 1 : i = (tail + k) % nQueueEntries BY DEF Occupied
    <3>2. k \in 0 .. nQueueEntries BY <1>1, QueueAssumption DEF TypeInvariant
    <3>3. i = Turn(tail + k) /\ i \in Index BY <1>1, <3>1, <3>2, Places
    <3>4. i # Turn(tail + size) BY <1>1, <2>1, <3>3, AllocatePlace
    <3>5. queue' = [queue EXCEPT ![Turn(tail + size)] = v] BY <1>1, <2>1, AllocatePlace
    <3> QED BY <1>1, <3>3, <3>4, <3>5 DEF TypeInvariant
  <2>2. ASSUME NEW n \in 1 .. nQueueEntries, Pop(n) \/ FlushNewest(n) PROVE A
    BY <2>2 DEF Pop, FlushNewest
  <2>3. ASSUME FlushAll \/ UNCHANGED vars PROVE A
    BY <2>3 DEF FlushAll, vars
  <2> QED BY <1>1, <2>1, <2>2, <2>3 DEF Next
<1>2. TypeInvariant /\ [Next]_vars => [A]_vars BY <1>1
<1> QED BY <1>2, TypeCorrect, PTL DEF Spec, TagStable

\* What the operations do to the queue as a sequence.
LEMMA ListedSize ==
  ASSUME TypeInvariant
  PROVE  /\ size \in 0 .. nQueueEntries /\ size \in Nat /\ tail \in Index
         /\ queue \in [Index -> Values] /\ Len(Listed) = size
<1>1. size \in Nat BY QueueAssumption DEF TypeInvariant
<1> QED BY <1>1 DEF Listed, TypeInvariant

LEMMA AllocateListed ==
  ASSUME TypeInvariant, NEW v \in Values, Allocate(v)
  PROVE  Listed' = Append(Listed, v) /\ size' = size + 1 /\ size < nQueueEntries
<1>0. /\ size \in 0 .. nQueueEntries /\ size \in Nat /\ tail \in Index
      /\ queue \in [Index -> Values] /\ Len(Listed) = size
  BY ListedSize
<1>1. size < nQueueEntries /\ size' = size + 1 /\ tail' = tail BY AllocatePlace
<1>2. Append(Listed, v) = [i \in 1 .. size + 1 |-> IF i = size + 1 THEN v ELSE Listed[i]]
  BY <1>0 DEF Listed
<1>3. ASSUME NEW i \in 1 .. size + 1
      PROVE  queue'[Turn(tail + i - 1)] = IF i = size + 1 THEN v ELSE Listed[i]
  <2>1. queue' = [queue EXCEPT ![Turn(tail + size)] = v] /\ Turn(tail + size) \in Index
    BY AllocatePlace
  <2>2. CASE i = size + 1
    <3>1. tail + i - 1 = tail + size BY <2>2, <1>0 DEF Index
    <3> QED BY <1>0, <2>1, <2>2, <3>1
  <2>3. CASE i # size + 1
    <3>1. i - 1 \in 0 .. size - 1 /\ i \in 1 .. size BY <2>3, <1>0
    <3>2. tail + (i - 1) = tail + i - 1 BY <1>0 DEF Index
    <3>3. Turn(tail + i - 1) # Turn(tail + size) BY <3>1, <3>2, AllocatePlace
    <3> QED BY <1>0, <2>1, <2>3, <3>1, <3>3 DEF Listed
  <2> QED BY <2>2, <2>3
<1> QED BY <1>1, <1>2, <1>3 DEF Listed

LEMMA PopListed ==
  ASSUME TypeInvariant, NEW n \in 1 .. nQueueEntries, Pop(n)
  PROVE  Listed' = SubSeq(Listed, n + 1, size) /\ size' = size - n /\ n <= size
<1>0. size \in Nat /\ tail \in Index /\ Len(Listed) = size BY ListedSize
<1>1. /\ n <= size /\ size' = size - n /\ queue' = queue
      /\ \A i \in 1 .. size - n : Turn(tail' + i - 1) = Turn(tail + (n + i) - 1)
  BY PopPlaces
<1>2. SubSeq(Listed, n + 1, size) = [i \in 1 .. size - n |-> Listed[n + i]]
  BY <1>0, <1>1 DEF Listed
<1>3. \A i \in 1 .. size - n : n + i \in 1 .. size BY <1>0, <1>1
<1>4. \A i \in 1 .. size - n : Listed[n + i] = queue[Turn(tail + (n + i) - 1)]
  BY <1>3 DEF Listed
<1> QED BY <1>1, <1>2, <1>4 DEF Listed

LEMMA FlushListed ==
  ASSUME TypeInvariant, NEW n \in 1 .. nQueueEntries, FlushNewest(n)
  PROVE  Listed' = SubSeq(Listed, 1, size - n) /\ size' = size - n /\ n <= size
<1>0. size \in Nat /\ tail \in Index /\ Len(Listed) = size BY ListedSize
<1>1. n <= size /\ size' = size - n /\ queue' = queue /\ tail' = tail BY DEF FlushNewest
<1>2. SubSeq(Listed, 1, size - n) = [i \in 1 .. size - n |-> Listed[i]]
  BY <1>0, <1>1 DEF Listed
<1> QED BY <1>0, <1>1, <1>2 DEF Listed

\* The ring implements the bounded sequence: an allocation is a push, a pop removes
\* the oldest entries, a flush the newest ones or all of them.
THEOREM Refinement == Spec => RefinesDeque
<1> DEFINE Contents == [i \in 1 .. size |-> At(i - 1)]
<1>1. Init => Abstract!Init
  BY DEF Init, Abstract!Init
<1>2. ASSUME TypeInvariant, TypeInvariant', [Next]_vars PROVE [Abstract!Next]_Contents
  <2>0. /\ Contents = Listed /\ Contents' = Listed'
        /\ size \in 0 .. nQueueEntries /\ Len(Listed) = size
    <3>1. Contents = Listed BY <1>2, ListedContents
    <3>2. (TypeInvariant => Contents = Listed)' BY ListedContents, PTL
    <3> QED BY <1>2, <3>1, <3>2, ListedSize
  <2>1. ASSUME NEW v \in Values, Allocate(v) PROVE Abstract!Push(v)
    BY <1>2, <2>0, <2>1, AllocateListed DEF Abstract!Push
  <2>2. ASSUME NEW n \in 1 .. nQueueEntries, Pop(n) PROVE Abstract!PopOldest(n)
    BY <1>2, <2>0, <2>2, PopListed DEF Abstract!PopOldest
  <2>3. ASSUME NEW n \in 1 .. nQueueEntries, FlushNewest(n) PROVE Abstract!PopNewest(n)
    BY <1>2, <2>0, <2>3, FlushListed DEF Abstract!PopNewest
  <2>4. ASSUME FlushAll PROVE Abstract!PopNewest(size)
    <3>1. Listed' = <<>> BY <2>4 DEF FlushAll, Listed
    <3>2. SubSeq(Listed, 1, 0) = <<>> BY <2>0 DEF Listed
    <3> QED BY <2>0, <3>1, <3>2 DEF Abstract!PopNewest
  <2>5. ASSUME UNCHANGED vars PROVE Contents' = Contents BY <2>5 DEF vars, At
  <2> QED BY <1>2, <2>0, <2>1, <2>2, <2>3, <2>4, <2>5 DEF Next, Abstract!Next
<1>3. TypeInvariant /\ TypeInvariant' /\ [Next]_vars => [Abstract!Next]_Contents BY <1>2
<1> QED BY <1>1, <1>3, TypeCorrect, PTL DEF Spec, RefinesDeque, Abstract!Spec
=============================================================================
