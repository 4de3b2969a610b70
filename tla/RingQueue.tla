----------------------------- MODULE RingQueue -----------------------------
(***************************************************************************)
(* The template Queue of powerpc/include/Queue.h: a ring of entries behind *)
(* the reorder buffer, the instruction queue, the branch queue and the     *)
(* queues of branch, system register and load/store stations.  The index   *)
(* of an entry in the ring is the tag by which the units name an           *)
(* instruction, so it must not change hands while the entry is queued.     *)
(***************************************************************************)
EXTENDS Integers, Sequences

CONSTANTS Values,        \* what an entry may hold
          nQueueEntries

ASSUME QueueAssumption == nQueueEntries \in Nat \ {0} /\ Values # {}

Index == 0 .. nQueueEntries - 1

VARIABLES queue, head, tail, size
vars == <<queue, head, tail, size>>

\* The constructor; what the entries hold before their first use is arbitrary.
Init ==
  /\ queue \in [Index -> Values]
  /\ head = -1 /\ tail = 0 /\ size = 0

\* The callers test Full() first.  (Mutant: they do not.)
MayAllocateAlways == size <= nQueueEntries
MayAllocate == size < nQueueEntries

\* Allocate(), and the assignment of the caller to the entry it returns.
Allocate(v) ==
  /\ MayAllocate
  /\ head' = (head + 1) % nQueueEntries
  /\ queue' = [queue EXCEPT ![(head + 1) % nQueueEntries] = v]
  /\ size' = size + 1
  /\ UNCHANGED tail

\* Pop(n); ReleaseTail() is Pop(1).
Pop(n) ==
  /\ n <= size
  /\ tail' = (tail + n) % nQueueEntries
  /\ size' = size - n
  /\ UNCHANGED <<queue, head>>

\* Flush(n); ReleaseHead() is Flush(1).  (Mutant: one entry too few.)
HeadAfterFlushOneLess(n) == (head + nQueueEntries - n + 1) % nQueueEntries
HeadAfterFlush(n) == (head + nQueueEntries - n) % nQueueEntries
FlushNewest(n) ==
  /\ n <= size
  /\ head' = HeadAfterFlush(n)
  /\ size' = size - n
  /\ UNCHANGED <<queue, tail>>

\* Flush()
FlushAll ==
  /\ head' = -1 /\ tail' = 0 /\ size' = 0
  /\ UNCHANGED queue

Next ==
  \/ \E v \in Values : Allocate(v)
  \/ \E n \in 1 .. nQueueEntries : Pop(n) \/ FlushNewest(n)
  \/ FlushAll

Spec == Init /\ [][Next]_vars

\* operator [](i), GetRecentEntry(i): the entry i places from the oldest, from the
\* newest.
At(i) == queue[(tail + i) % nQueueEntries]
GetRecentEntry(i) == queue[(head + nQueueEntries - i) % nQueueEntries]

\* Contains(i)  (Mutant: a queue of one entry is taken for a full one.)
ContainsStrict(i) ==
  IF tail < head THEN i >= tail /\ i <= head ELSE i >= tail \/ i <= head
Contains(i) ==
  IF tail <= head THEN i >= tail /\ i <= head ELSE i >= tail \/ i <= head
-----------------------------------------------------------------------------
\* head is the entry before the place of the next one, wherever the ring has turned.
TypeInvariant ==
  /\ queue \in [Index -> Values]
  /\ head \in -1 .. nQueueEntries - 1 /\ tail \in Index /\ size \in 0 .. nQueueEntries
  /\ (head + 1) % nQueueEntries = (tail + size) % nQueueEntries
  /\ head = -1 => size = 0

\* The places of the ring that hold queued entries.
Occupied == {(tail + i) % nQueueEntries : i \in 0 .. size - 1}

\* Contains(), the check the units' tags undergo, is right about a queue that is not
\* empty (it holds of every index of one that is).
ContainsExact == size > 0 => \A i \in Index : Contains(i) <=> i \in Occupied

\* The entries read from the newest end are those read from the oldest end.
EndsAgree == \A i \in 0 .. size - 1 : GetRecentEntry(i) = At(size - 1 - i)

\* A tag does not change hands: an entry that stays in the queue stays in its place,
\* with its contents, whatever enters or leaves at either end.
TagStable == [][\A i \in Occupied \cap Occupied' : queue'[i] = queue[i]]_vars

\* The ring implements the bounded sequence.
Abstract == INSTANCE Deque WITH Capacity <- nQueueEntries,
                                contents <- [i \in 1 .. size |-> At(i - 1)]
RefinesDeque == Abstract!Spec
=============================================================================
