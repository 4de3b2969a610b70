------------------------- MODULE LoadStoreUnitProofs -------------------------
(***************************************************************************)
(* What the operations of the load/store unit do to the relation between   *)
(* the unit, the reorder buffer and memory, for queues and reorder buffers *)
(* of any length, lines of any size and any operations.                    *)
(*                                                                         *)
(* The reorder buffer names a store by its tag, the completion unit        *)
(* retires it through a port, and WriteBack() marks the first store of the *)
(* queue that waits: this is the same store only because the queue keeps   *)
(* program order (QueueOrder), holds every store that has been sent        *)
(* (StoresThere) and drops the same ones when a branch was mispredicted    *)
(* (LeftOf).  A load reads the cache while older stores wait: what it gets *)
(* is right only because it waits for every store it overlaps (Depends)    *)
(* and because memory and the pending stores together are the program's    *)
(* memory (Memory).  Core is the conjunction; one lemma for each part of   *)
(* an edge says that it keeps it.                                          *)
(***************************************************************************)
EXTENDS LoadStoreSystem, NaturalsInduction, WellFoundedInduction, FiniteSetTheorems, TLAPS

-----------------------------------------------------------------------------
\* Numbers.

\* What is true of 0 and passes from each number to the next is true up to N.
LEMMA Counting ==
  ASSUME NEW N \in Nat, NEW S, 0 \in S, \A n \in 0 .. N - 1 : n \in S => n + 1 \in S
  PROVE  \A n \in 0 .. N : n \in S
<1> SUFFICES ASSUME (0 .. N) \ S # {} PROVE FALSE
  OBVIOUS
<1> DEFINE less == OpToRel(<, Nat)
           T == (0 .. N) \ S
<1>1. \A m, n \in Nat : <<m, n>> \in less <=> m < n BY DEF OpToRel
<1>2. IsWellFoundedOn(less, Nat) BY NatLessThanWellFounded
<1>3. T \subseteq Nat /\ T # {} OBVIOUS
<1> HIDE DEF less, T
<1>4. PICK m \in T : \A n \in T : ~ (<<n, m>> \in less) BY <1>2, <1>3, WFMin
<1>5. m \in Nat /\ \A n \in T : ~ (n < m) BY <1>1, <1>3, <1>4
<1>6. m # 0 /\ m \in 0 .. N /\ m \notin S BY <1>4 DEF T
<1>7. m - 1 \in 0 .. N - 1 /\ m - 1 \notin T BY <1>5, <1>6
<1>8. m - 1 \in S BY <1>7 DEF T
<1> QED BY <1>6, <1>7, <1>8

\* A set of numbers that is not empty has a least one, and a greatest one if it is bounded.
LEMMA Least ==
  ASSUME NEW S \in SUBSET Nat, S # {}
  PROVE  Min(S) \in S /\ \A y \in S : Min(S) <= y
<1> DEFINE less == OpToRel(<, Nat)
<1>1. \A m, n \in Nat : <<m, n>> \in less <=> m < n BY DEF OpToRel
<1>2. IsWellFoundedOn(less, Nat) BY NatLessThanWellFounded
<1> HIDE DEF less
<1>3. PICK m \in S : \A n \in S : ~ (<<n, m>> \in less) BY <1>2, WFMin
<1>4. ASSUME NEW n \in S PROVE m <= n
  <2>1. m \in Nat /\ n \in Nat OBVIOUS
  <2>2. ~ (n < m) BY <1>1, <1>3, <2>1
  <2> QED BY <2>1, <2>2
<1> QED BY <1>4 DEF Min

\* A bounded set of numbers that is not empty has a greatest one.
LEMMA Greatest ==
  ASSUME NEW N \in Nat, NEW S \in SUBSET (0 .. N), S # {}
  PROVE  Max(S) \in S /\ \A y \in S : y <= Max(S)
<1> DEFINE B == {n \in 0 .. N : \A y \in S : y <= n}
<1>1. N \in B /\ B \in SUBSET Nat OBVIOUS
<1>2. Min(B) \in B /\ \A n \in B : Min(B) <= n BY <1>1, Least
<1> DEFINE m == Min(B)
<1>3. m \in S
  <2> SUFFICES ASSUME m \notin S PROVE FALSE
    OBVIOUS
  <2>1. m \in Nat /\ \A y \in S : y < m BY <1>2, SMTT(30)
  <2>2. PICK z \in S : z \in 0 .. N /\ z < m BY <2>1
  <2>3. m \in 0 .. N /\ m - 1 \in 0 .. N BY <1>2, <2>2
  <2>4. \A y \in S : y <= m - 1 BY <2>1, <2>3
  <2> HIDE DEF m
  <2>5. m - 1 \in B BY <2>3, <2>4
  <2>6. m <= m - 1 BY <1>2, <2>5 DEF m
  <2> QED BY <2>3, <2>6
<1>4. \A y \in S : y <= m BY <1>2
<1> QED BY <1>3, <1>4 DEF Max

-----------------------------------------------------------------------------
\* The unit: its types, and what its operations do to each field.

\* The types of what the unit holds: tags of the reorder buffer, packets from the dispatch
\* unit, entries of the store queue.
Tag == 0 .. NRob - 1

\* How far an access that crosses a line has come.
Halfway == {"Normal", "Msb", "Lsb"}
Packet == [valid : BOOLEAN, tag : Tag \cup {None}, op : Operation, branchCounter : Nat]
Entry == [full : BOOLEAN, valid : BOOLEAN, tag : Tag \cup {None}, op : Operation,
          branchCounter : Nat, dependentLoadTag : Tag \cup {None}, state : Halfway]
Queue == [1 .. NStoreQueue -> Entry]
\* What the unit holds of the data is told by Asks, Halves and Result.
Typed(u) ==
  u \in [loadWaiting : BOOLEAN, storeWaiting : BOOLEAN, stage1 : Packet,
         load : [valid : BOOLEAN, tag : Tag \cup {None}, op : Operation,
                 branchCounter : Nat, state : Halfway, data : {u.load.data}],
         storeQueue : Queue, dcache : {u.dcache},
         storeQueueStalled : BOOLEAN, loadQueueStalled : BOOLEAN, empty : BOOLEAN,
         finished : SUBSET (Tag \cup {None}), result : {u.result}]

\* The queue has a first and a last entry.
LEMMA One == 1 \in 1 .. NStoreQueue /\ NStoreQueue \in 1 .. NStoreQueue /\ NStoreQueue \in Nat
  BY LoadStoreAssumption

\* The next part of an access is one of the three.
LEMMA StateIs == ASSUME NEW o, NEW s \in Halfway PROVE StateOf(o, s) \in Halfway
  BY DEF StateOf, Halfway

\* What the unit makes of an operation: a dcbz takes a whole line.
LEMMA CarriedIs ==
  ASSUME NEW o \in Operation
  PROVE  /\ Carried(o) \in Operation /\ Carried(o).kind = o.kind /\ Carried(o).addr = o.addr
         /\ Carried(o).data = o.data /\ Carried(o).single = o.single
         /\ IsWrite(Carried(o)) <=> IsWrite(o)
         /\ Carried(o).size = IF o.kind = "Zero" THEN LineSize ELSE o.size
  BY LoadStoreAssumption DEF Carried, Operation, IsWrite

\* The operations of the program are operations.
LEMMA OperationsAre == Operations \subseteq Operation
  BY OperationsAssumption

\* A packet goes on with its operation as the unit carries it.
LEMMA SentIs ==
  ASSUME NEW d \in Packet
  PROVE  LET c == [d EXCEPT !.op = Carried(@)]
         IN  /\ c \in Packet /\ c.valid = d.valid /\ c.tag = d.tag
             /\ c.branchCounter = d.branchCounter /\ c.op = Carried(d.op)
  BY CarriedIs DEF Packet

\* The queue is the same, except for how far its entries are on the way to the cache.
Alike(q, w) ==
  /\ w \in Queue
  /\ \A p \in 1 .. NStoreQueue :
       /\ w[p].full = q[p].full /\ w[p].valid = q[p].valid /\ w[p].tag = q[p].tag
       /\ w[p].op = q[p].op /\ w[p].branchCounter = q[p].branchCounter
       /\ w[p].dependentLoadTag = q[p].dependentLoadTag
       /\ w[p].state # q[p].state => p = 1

\* Load() asks the cache for a part or all of the load.
LEMMA LoadStep ==
  ASSUME NEW u, Typed(u), NEW v, v = Load(u)
  PROVE  /\ Typed(v)
         /\ v.storeQueue = u.storeQueue /\ v.stage1 = u.stage1
         /\ v.loadWaiting /\ v.storeWaiting = u.storeWaiting
         /\ v.load.valid = u.load.valid /\ v.load.op = u.load.op /\ v.load.tag = u.load.tag
         /\ v.load.branchCounter = u.load.branchCounter /\ v.load.data = u.load.data
         /\ v.load.state = StateOf(u.load.op, u.load.state)
         /\ v.dcache = RequestOf(u.load.op, v.load.state)
         /\ v.finished = u.finished /\ v.result = u.result
<1>1. u.load.state \in Halfway BY DEF Typed
<1>2. StateOf(u.load.op, u.load.state) \in Halfway BY <1>1, StateIs
<1> QED BY <1>2 DEF Typed, Load

\* Store() asks the cache to take a part or all of the first store.
LEMMA StoreStep ==
  ASSUME NEW u, Typed(u), NEW v, v = Store(u)
  PROVE  /\ Typed(v)
         /\ v.stage1 = u.stage1 /\ v.load = u.load
         /\ v.storeWaiting /\ v.loadWaiting = u.loadWaiting
         /\ v.storeQueue = [u.storeQueue EXCEPT ![1].state = v.storeQueue[1].state]
         /\ v.storeQueue[1].state = StateOf(u.storeQueue[1].op, u.storeQueue[1].state)
         /\ v.dcache = RequestOf(u.storeQueue[1].op, v.storeQueue[1].state)
         /\ v.storeQueueStalled = u.storeQueueStalled /\ v.loadQueueStalled = u.loadQueueStalled
         /\ v.finished = u.finished /\ v.result = u.result
         /\ Alike(u.storeQueue, v.storeQueue)
<1> DEFINE e == u.storeQueue[1]
<1>1. e \in Entry /\ u.storeQueue \in Queue BY One DEF Typed, Queue
<1>2. StateOf(e.op, e.state) \in Halfway BY <1>1, StateIs DEF Entry
<1> DEFINE w == [u.storeQueue EXCEPT ![1].state = StateOf(e.op, e.state)]
<1>3. w \in Queue /\ w[1].state = StateOf(e.op, e.state) /\ Alike(u.storeQueue, w)
  BY <1>1, <1>2, One DEF Queue, Entry, Alike
<1> QED BY <1>2, <1>3 DEF Typed, Store

\* The load that waits for the cache stays the same.
LoadKept(u, v) ==
  /\ v.load.valid = u.load.valid /\ v.load.op = u.load.op /\ v.load.tag = u.load.tag
  /\ v.load.branchCounter = u.load.branchCounter /\ v.load.data = u.load.data

\* The request the unit makes on the front edge, if it can make one.
Asked(u, v) ==
  \/ /\ u.loadWaiting \/ u.storeWaiting
     /\ v.loadWaiting = u.loadWaiting /\ v.storeWaiting = u.storeWaiting
     /\ v.load.state = u.load.state /\ v.storeQueue = u.storeQueue /\ v.dcache = u.dcache
  \/ /\ ~ u.loadWaiting /\ ~ u.storeWaiting /\ MayLoad(u)
     /\ v.loadWaiting /\ ~ v.storeWaiting
     /\ v.load.state = StateOf(u.load.op, u.load.state) /\ v.storeQueue = u.storeQueue
     /\ v.dcache = RequestOf(u.load.op, v.load.state)
  \/ /\ ~ u.loadWaiting /\ ~ u.storeWaiting /\ ~ MayLoad(u)
     /\ u.storeQueue[1].full /\ u.storeQueue[1].valid
     /\ ~ v.loadWaiting /\ v.storeWaiting /\ v.load.state = u.load.state
     /\ v.storeQueue = [u.storeQueue EXCEPT ![1].state = v.storeQueue[1].state]
     /\ v.storeQueue[1].state = StateOf(u.storeQueue[1].op, u.storeQueue[1].state)
     /\ v.dcache = RequestOf(u.storeQueue[1].op, v.storeQueue[1].state)
  \/ /\ ~ u.loadWaiting /\ ~ u.storeWaiting /\ ~ MayLoad(u)
     /\ ~ (u.storeQueue[1].full /\ u.storeQueue[1].valid)
     /\ ~ v.loadWaiting /\ ~ v.storeWaiting /\ v.load.state = u.load.state
     /\ v.storeQueue = u.storeQueue /\ v.dcache = u.dcache

\* OnFrontEdge() takes the packet and makes at most one request.
LEMMA FrontEdgeStep ==
  ASSUME NEW u, Typed(u), NEW d \in Packet, NEW v, v = OnFrontEdge(u, d)
  PROVE  /\ Typed(v)
         /\ v.stage1 = IF d.valid THEN [d EXCEPT !.op = Carried(@)] ELSE u.stage1
         /\ Alike(u.storeQueue, v.storeQueue)
         /\ LoadKept(u, v) /\ Asked(u, v)
         /\ v.finished = (IF d.valid /\ IsWrite(d.op) THEN {d.tag} ELSE {}) /\ v.result = <<>>
         /\ v.storeQueueStalled = StoreStall(v, d.valid /\ IsWrite(d.op))
         /\ v.loadQueueStalled = (u.load.valid \/ v.loadWaiting
                                  \/ (d.valid /\ ~ IsWrite(d.op)))
<1> DEFINE w == IF u.loadWaiting \/ u.storeWaiting THEN u
                ELSE IF MayLoad(u) THEN Load(u)
                ELSE IF u.storeQueue[1].full /\ u.storeQueue[1].valid THEN Store(u)
                ELSE u
           c == [d EXCEPT !.op = Carried(@)]
<1>1. c \in Packet BY SentIs
<1>2. Alike(u.storeQueue, u.storeQueue) BY DEF Alike, Typed
<1>3. PICK x : x = w OBVIOUS
<1> HIDE DEF w, c
<1>4. /\ Typed(x) /\ x.stage1 = u.stage1 /\ Alike(u.storeQueue, x.storeQueue)
      /\ LoadKept(u, x) /\ x.finished = u.finished /\ Asked(u, x)
  <2>1. CASE u.loadWaiting \/ u.storeWaiting
    <3>1. x = u BY <1>3, <2>1 DEF w
    <3> QED BY <1>2, <2>1, <3>1 DEF LoadKept, Asked
  <2>2. CASE ~ u.loadWaiting /\ ~ u.storeWaiting /\ MayLoad(u)
    <3>1. x = Load(u) BY <1>3, <2>2 DEF w
    <3> QED BY <1>2, <2>2, <3>1, LoadStep DEF LoadKept, Asked
  <2>3. CASE /\ ~ u.loadWaiting /\ ~ u.storeWaiting /\ ~ MayLoad(u)
             /\ u.storeQueue[1].full /\ u.storeQueue[1].valid
    <3>1. x = Store(u) BY <1>3, <2>3 DEF w
    <3> QED BY <2>3, <3>1, StoreStep DEF LoadKept, Asked
  <2>4. CASE /\ ~ u.loadWaiting /\ ~ u.storeWaiting /\ ~ MayLoad(u)
             /\ ~ (u.storeQueue[1].full /\ u.storeQueue[1].valid)
    <3>1. x = u BY <1>3, <2>4 DEF w
    <3> QED BY <1>2, <2>4, <3>1 DEF LoadKept, Asked
  <2> QED BY <2>1, <2>2, <2>3, <2>4
<1>5. v = [x EXCEPT
         !.stage1 = IF d.valid THEN c ELSE x.stage1,
         !.finished = IF d.valid /\ IsWrite(d.op) THEN {d.tag} ELSE {},
         !.result = <<>>,
         !.storeQueueStalled = StoreStall(x, d.valid /\ IsWrite(d.op)),
         !.loadQueueStalled = x.load.valid \/ x.loadWaiting
                              \/ (d.valid /\ ~ (d.valid /\ IsWrite(d.op)))]
  BY <1>3 DEF OnFrontEdge, w, c
<1>6. StoreStall(x, d.valid /\ IsWrite(d.op)) \in BOOLEAN BY DEF StoreStall
<1>7. /\ v.stage1 = IF d.valid THEN c ELSE u.stage1
      /\ v.load = x.load /\ v.storeQueue = x.storeQueue /\ v.dcache = x.dcache
      /\ v.loadWaiting = x.loadWaiting /\ v.storeWaiting = x.storeWaiting
      /\ v.finished = (IF d.valid /\ IsWrite(d.op) THEN {d.tag} ELSE {}) /\ v.result = <<>>
      /\ v.storeQueueStalled = StoreStall(x, d.valid /\ IsWrite(d.op))
      /\ v.loadQueueStalled = (x.load.valid \/ x.loadWaiting \/ (d.valid /\ ~ IsWrite(d.op)))
  BY <1>4, <1>5 DEF Typed
<1>8. Typed(v)
  <2>1. x.stage1 \in Packet /\ d.tag \in Tag \cup {None} BY <1>4 DEF Typed, Packet
  <2>2. (x.load.valid \/ x.loadWaiting \/ (d.valid /\ ~ (d.valid /\ IsWrite(d.op)))) \in BOOLEAN
    OBVIOUS
  <2>3. (IF d.valid THEN c ELSE x.stage1) \in Packet BY <1>1, <2>1
  <2>4. (IF d.valid /\ IsWrite(d.op) THEN {d.tag} ELSE {}) \in SUBSET (Tag \cup {None}) BY <2>1
  <2> QED BY <1>4, <1>5, <1>6, <2>2, <2>3, <2>4 DEF Typed
<1>9. StoreStall(x, d.valid /\ IsWrite(d.op)) = StoreStall(v, d.valid /\ IsWrite(d.op))
  BY <1>7 DEF StoreStall
<1>10. LoadKept(u, v) /\ Asked(u, v) BY <1>4, <1>7 DEF LoadKept, Asked
<1>11. x.load.valid = u.load.valid /\ x.loadWaiting = v.loadWaiting BY <1>4, <1>7 DEF LoadKept
<1>12. v.loadQueueStalled = (u.load.valid \/ v.loadWaiting \/ (d.valid /\ ~ IsWrite(d.op)))
  BY <1>7, <1>11
<1>13. Alike(u.storeQueue, v.storeQueue) BY <1>4, <1>7
<1>14. v.stage1 = IF d.valid THEN [d EXCEPT !.op = Carried(@)] ELSE u.stage1 BY <1>7 DEF c
<1>15. v.storeQueueStalled = StoreStall(v, d.valid /\ IsWrite(d.op)) BY <1>7, <1>9
<1> QED BY <1>7, <1>8, <1>10, <1>12, <1>13, <1>14, <1>15

\* What write back and the cache's answer leave alone.
SameLoad(u, v) ==
  /\ v.loadWaiting = u.loadWaiting /\ v.stage1 = u.stage1
  /\ v.load.valid = u.load.valid /\ v.load.op = u.load.op /\ v.load.tag = u.load.tag
  /\ v.load.branchCounter = u.load.branchCounter /\ v.load.state = u.load.state

\* A port starts the first store, or marks the first one that waits.
Written(u, v, tag) ==
  \/ /\ ~ u.loadWaiting /\ ~ u.storeWaiting
     /\ u.storeQueue[1].full /\ u.storeQueue[1].tag = tag
     /\ v.storeWaiting
     /\ v.storeQueue = [u.storeQueue EXCEPT ![1].valid = TRUE,
                                            ![1].state = v.storeQueue[1].state]
     /\ v.storeQueue[1].state = StateOf(u.storeQueue[1].op, u.storeQueue[1].state)
     /\ v.dcache = RequestOf(u.storeQueue[1].op, v.storeQueue[1].state)
  \/ /\ u.loadWaiting \/ u.storeWaiting \/ ~ u.storeQueue[1].full
        \/ u.storeQueue[1].tag # tag
     /\ v.storeWaiting = u.storeWaiting /\ v.dcache = u.dcache
     /\ \A p \in Queued(u.storeQueue) :
          (\A k \in Queued(u.storeQueue) : p <= k) =>
            v.storeQueue = [u.storeQueue EXCEPT ![p].valid = TRUE]
     /\ Queued(u.storeQueue) = {} => v.storeQueue = u.storeQueue

\* WriteBack() of one port.
LEMMA WriteBackStep ==
  ASSUME NEW u, Typed(u), NEW tag, tag # None, NEW v, v = WriteBackOne(u, tag)
  PROVE  /\ Typed(v) /\ SameLoad(u, v) /\ v.load = u.load
         /\ v.storeQueueStalled = u.storeQueueStalled /\ v.loadQueueStalled = u.loadQueueStalled
         /\ v.finished = u.finished /\ v.result = u.result
         /\ Written(u, v, tag)
<1> DEFINE q == u.storeQueue
<1>0. q \in Queue BY DEF Typed
<1>1. CASE ~ u.loadWaiting /\ ~ u.storeWaiting /\ q[1].full /\ q[1].tag = tag
  <2>0. PICK x : x = [u EXCEPT !.storeQueue[1].valid = TRUE] OBVIOUS
  <2>1. v = Store(x) BY <1>1, <2>0 DEF WriteBackOne
  <2>2. [q EXCEPT ![1].valid = TRUE] \in Queue BY <1>0, One DEF Queue, Entry
  <2>3. /\ Typed(x) /\ x.storeQueue = [q EXCEPT ![1].valid = TRUE] /\ SameLoad(u, x)
        /\ x.load = u.load /\ x.storeWaiting = u.storeWaiting /\ x.finished = u.finished
        /\ x.result = u.result
        /\ x.storeQueueStalled = u.storeQueueStalled /\ x.loadQueueStalled = u.loadQueueStalled
    BY <2>0, <2>2 DEF Typed, SameLoad
  <2>4. /\ Typed(v)
         /\ v.stage1 = x.stage1 /\ v.load = x.load
         /\ v.storeWaiting /\ v.loadWaiting = x.loadWaiting
         /\ v.storeQueue = [x.storeQueue EXCEPT ![1].state = v.storeQueue[1].state]
         /\ v.storeQueue[1].state = StateOf(x.storeQueue[1].op, x.storeQueue[1].state)
         /\ v.dcache = RequestOf(x.storeQueue[1].op, v.storeQueue[1].state)
         /\ v.storeQueueStalled = x.storeQueueStalled /\ v.loadQueueStalled = x.loadQueueStalled
         /\ v.finished = x.finished /\ v.result = x.result
    <3>1. Typed(x) BY <2>3
    <3> QED BY <2>1, <3>1, StoreStep
  <2>5. x.storeQueue[1].op = q[1].op /\ x.storeQueue[1].state = q[1].state
    BY <1>0, <2>3, One DEF Queue, Entry
  <2>6. [x.storeQueue EXCEPT ![1].state = v.storeQueue[1].state]
          = [q EXCEPT ![1].valid = TRUE, ![1].state = v.storeQueue[1].state]
    BY <1>0, <2>3, One DEF Queue, Entry
  <2>7. v.storeQueue = [q EXCEPT ![1].valid = TRUE, ![1].state = v.storeQueue[1].state]
    BY <2>4, <2>6
  <2>8. SameLoad(u, v) BY <2>3, <2>4 DEF SameLoad
  <2>9. Written(u, v, tag) BY <1>1, <2>4, <2>5, <2>7 DEF Written
  <2> QED BY <2>3, <2>4, <2>8, <2>9
<1>2. CASE ~ (~ u.loadWaiting /\ ~ u.storeWaiting /\ q[1].full /\ q[1].tag = tag)
  <2>1. v = [u EXCEPT !.storeQueue = Validate(q)] BY <1>2 DEF WriteBackOne
  <2>2. Queued(q) = {i \in Full(q) : ~ q[i].valid} /\ Queued(q) \in SUBSET Nat
        /\ Queued(q) \subseteq 1 .. NStoreQueue
    <3>1. DOMAIN q = 1 .. NStoreQueue BY <1>0 DEF Queue
    <3>2. Queued(q) \subseteq 1 .. NStoreQueue BY <3>1 DEF Queued, Full
    <3> QED BY <3>2, One, SMTT(30) DEF Queued
  <2>3. Validate(q) = IF Queued(q) = {} THEN q ELSE [q EXCEPT ![Min(Queued(q))].valid = TRUE]
    BY <2>2 DEF Validate
  <2>4. Validate(q) \in Queue
    <3>1. CASE Queued(q) = {} BY <1>0, <2>3, <3>1
    <3>2. CASE Queued(q) # {}
      <4>1. Min(Queued(q)) \in 1 .. NStoreQueue BY <2>2, <3>2, Least
      <4> QED BY <1>0, <2>3, <4>1, <3>2 DEF Queue, Entry
    <3> QED BY <3>1, <3>2
  <2>5. /\ Typed(v) /\ SameLoad(u, v) /\ v.load = u.load
        /\ v.finished = u.finished /\ v.result = u.result
        /\ v.storeQueueStalled = u.storeQueueStalled /\ v.loadQueueStalled = u.loadQueueStalled
        /\ v.storeWaiting = u.storeWaiting /\ v.dcache = u.dcache
        /\ v.storeQueue = Validate(q)
    <3> HIDE DEF q
    <3> QED BY <2>1, <2>4 DEF Typed, SameLoad
  <2>6. ASSUME NEW p \in Queued(q), \A k \in Queued(q) : p <= k
        PROVE  v.storeQueue = [q EXCEPT ![p].valid = TRUE]
    <3>1. Min(Queued(q)) \in Queued(q) /\ Min(Queued(q)) <= p BY <2>2, Least
    <3>2. p <= Min(Queued(q)) BY <2>6, <3>1
    <3>3. p \in Nat /\ Min(Queued(q)) \in Nat BY <2>2, <3>1
    <3>4. p = Min(Queued(q)) BY <3>1, <3>2, <3>3
    <3> QED BY <2>3, <2>5, <3>4
  <2>7. Written(u, v, tag) BY <1>2, <2>3, <2>5, <2>6 DEF Written
  <2> QED BY <2>5, <2>7
<1> QED BY <1>1, <1>2

\* Answering: the last part of a load arrives.
Answering(u, a) == a /\ u.loadWaiting /\ u.load.valid /\ u.load.state # "Msb"
\* The first store is done.
Freeing(u, a) == a /\ u.storeWaiting /\ u.storeQueue[1].state # "Msb"

\* What the answer changes.
Answered(u, v, data) ==
  /\ v.storeQueueStalled = IF u.storeWaiting THEN u.storeQueue[1].state = "Msb"
                           ELSE u.storeQueueStalled
  /\ Answering(u, TRUE) =>
       /\ v.finished = u.finished \cup {u.load.tag} /\ ~ v.loadQueueStalled
       /\ v.result = u.load.data \o data
  /\ ~ Answering(u, TRUE) =>
       /\ v.finished = u.finished /\ v.loadQueueStalled = u.loadQueueStalled
       /\ v.result = u.result
       /\ v.load.data = IF u.loadWaiting /\ u.load.valid THEN data ELSE u.load.data

\* The unit forwards the answer of the cache.
LEMMA ForwardStep ==
  ASSUME NEW u, Typed(u), NEW data, NEW v, v = Forward(u, data)
  PROVE  /\ Typed(v) /\ SameLoad(u, v)
         /\ v.storeQueue = u.storeQueue /\ v.storeWaiting = u.storeWaiting /\ v.dcache = u.dcache
         /\ Answered(u, v, data)
<1> DEFINE x == IF ~ u.loadWaiting \/ ~ u.load.valid THEN u
           ELSE CASE u.load.state = "Msb" -> [u EXCEPT !.load.data = data]
                  [] OTHER -> [u EXCEPT !.load.data = @ \o data, !.result = u.load.data \o data,
                                           !.finished = @ \cup {u.load.tag},
                                           !.loadQueueStalled = FALSE]
<1>1. PICK y : y = x OBVIOUS
<1>2. v = IF y.storeWaiting THEN [y EXCEPT !.storeQueueStalled = y.storeQueue[1].state = "Msb"] ELSE y
  BY <1>1 DEF Forward
<1>3. /\ Typed(y) /\ SameLoad(u, y)
      /\ y.storeQueue = u.storeQueue /\ y.storeWaiting = u.storeWaiting /\ y.dcache = u.dcache
      /\ y.storeQueueStalled = u.storeQueueStalled
      /\ Answering(u, TRUE) =>
           /\ y.finished = u.finished \cup {u.load.tag} /\ ~ y.loadQueueStalled
           /\ y.result = u.load.data \o data
      /\ ~ Answering(u, TRUE) =>
           /\ y.finished = u.finished /\ y.loadQueueStalled = u.loadQueueStalled
           /\ y.result = u.result
           /\ y.load.data = IF u.loadWaiting /\ u.load.valid THEN data ELSE u.load.data
  <2>1. CASE ~ u.loadWaiting \/ ~ u.load.valid
    <3>1. y = u BY <1>1, <2>1
    <3> QED BY <2>1, <3>1 DEF Answering, SameLoad
  <2>2. CASE u.loadWaiting /\ u.load.valid /\ u.load.state = "Msb"
    <3>1. y = [u EXCEPT !.load.data = data] BY <1>1, <2>2
    <3> HIDE DEF x
    <3> QED BY <2>2, <3>1 DEF Answering, SameLoad, Typed
  <2>3. CASE u.loadWaiting /\ u.load.valid /\ u.load.state # "Msb"
    <3>1. y = [u EXCEPT !.load.data = @ \o data, !.result = u.load.data \o data,
                        !.finished = @ \cup {u.load.tag}, !.loadQueueStalled = FALSE]
      BY <1>1, <2>3
    <3> HIDE DEF x
    <3> DEFINE r == u.load.data \o data
    <3>2. y = [u EXCEPT !.load.data = r, !.result = r,
                        !.finished = @ \cup {u.load.tag}, !.loadQueueStalled = FALSE]
      BY <3>1 DEF Typed
    <3>3. u.finished \cup {u.load.tag} \in SUBSET (Tag \cup {None}) BY DEF Typed
    <3>4. PICK z : z = r OBVIOUS
    <3>5. y = [u EXCEPT !.load.data = z, !.result = z,
                        !.finished = @ \cup {u.load.tag}, !.loadQueueStalled = FALSE]
      BY <3>2, <3>4
    <3> HIDE DEF r
    <3> QED BY <2>3, <3>3, <3>4, <3>5 DEF Answering, SameLoad, Typed, r
  <2> QED BY <2>1, <2>2, <2>3
<1> HIDE DEF x
<1>4. (y.storeQueue[1].state = "Msb") \in BOOLEAN OBVIOUS
<1>5. CASE ~ y.storeWaiting
  <2>1. v = y BY <1>2, <1>5
  <2> QED BY <1>3, <1>5, <2>1 DEF Answered
<1>6. CASE y.storeWaiting
  <2>1. PICK b \in BOOLEAN : b = (y.storeQueue[1].state = "Msb") BY <1>4
  <2>2. v = [y EXCEPT !.storeQueueStalled = b] BY <1>2, <1>6, <2>1
  <2>3. /\ Typed(v) /\ v.storeQueueStalled = b /\ v.storeQueue = y.storeQueue
        /\ v.storeWaiting = y.storeWaiting /\ v.dcache = y.dcache
        /\ v.loadWaiting = y.loadWaiting /\ v.stage1 = y.stage1 /\ v.load = y.load
        /\ v.finished = y.finished /\ v.loadQueueStalled = y.loadQueueStalled
        /\ v.result = y.result
    BY <1>3, <2>2 DEF Typed
  <2> QED BY <1>3, <1>6, <2>1, <2>3 DEF SameLoad, Answered
<1> QED BY <1>5, <1>6

\* A free entry is an entry.
LEMMA FreeIs == Free \in Entry /\ ~ Free.full /\ Free.state = "Normal"
  BY DEF Free, Entry, NoOperation, Operation, Halfway

\* No packet is a packet that is not valid.
LEMMA NothingIs == Nothing \in Packet /\ ~ Nothing.valid
  BY DEF Nothing, Packet, NoOperation, Operation

\* What an answer to a store leaves alone.
SameOthers(u, v) ==
  /\ v.stage1 = u.stage1 /\ v.result = u.result /\ v.finished = u.finished

\* The cache has taken a store: its second part is next, or its entry becomes free.
LEMMA StoreServedStep ==
  ASSUME NEW u, Typed(u), NEW v, v = StoreServed(u)
  PROVE  /\ Typed(v) /\ SameOthers(u, v) /\ v.load = u.load
         /\ v.loadWaiting = u.loadWaiting /\ ~ v.storeWaiting /\ v.dcache = NoRequest
         /\ v.storeQueue \in Queue
         /\ \A p \in 2 .. NStoreQueue : v.storeQueue[p] = u.storeQueue[p]
         /\ v.storeQueue[1] = IF u.storeQueue[1].state = "Msb"
                              THEN [u.storeQueue[1] EXCEPT !.state = "Lsb"] ELSE Free
<1>1. PICK e : e = IF u.storeQueue[1].state = "Msb"
                   THEN [u.storeQueue[1] EXCEPT !.state = "Lsb"] ELSE Free
  OBVIOUS
<1>2. u.storeQueue \in Queue BY DEF Typed
<1>3. e \in Entry BY <1>1, <1>2, FreeIs, One DEF Queue, Entry, Halfway
<1>4. PICK w : w = [u.storeQueue EXCEPT ![1] = e] OBVIOUS
<1>5. /\ w \in Queue /\ w[1] = e /\ \A p \in 2 .. NStoreQueue : w[p] = u.storeQueue[p]
  BY <1>2, <1>3, <1>4, One DEF Queue
<1>6. v = [u EXCEPT !.storeWaiting = FALSE, !.dcache = NoRequest, !.storeQueue = w]
  BY <1>1, <1>4 DEF StoreServed, Typed
<1>7. /\ Typed(v) /\ SameOthers(u, v) /\ v.load = u.load /\ v.loadWaiting = u.loadWaiting
      /\ ~ v.storeWaiting /\ v.dcache = NoRequest /\ v.storeQueue = w
  BY <1>5, <1>6 DEF Typed, SameOthers
<1> QED BY <1>1, <1>5, <1>7

\* No load is a load that is not valid.
LEMMA NoLoadIs ==
  /\ NoLoad.valid = FALSE /\ NoLoad.tag = None /\ NoLoad.op \in Operation
  /\ NoLoad.branchCounter = 0 /\ NoLoad.state = "Normal" /\ NoLoad.data = <<>>
  /\ NoLoad \in [valid : BOOLEAN, tag : Tag \cup {None}, op : Operation,
                 branchCounter : Nat, state : Halfway, data : {<<>>}]
  BY DEF NoLoad, NoOperation, Operation, Halfway

\* The cache has answered a load: its second part is next, or the load is over.
LEMMA LoadServedStep ==
  ASSUME NEW u, Typed(u), NEW v, v = LoadServed(u)
  PROVE  /\ Typed(v) /\ SameOthers(u, v) /\ v.storeQueue = u.storeQueue
         /\ ~ v.loadWaiting /\ v.storeWaiting = u.storeWaiting /\ v.dcache = NoRequest
         /\ v.load = IF u.load.state = "Msb" /\ u.load.valid
                     THEN [u.load EXCEPT !.state = "Lsb"] ELSE NoLoad
<1>1. CASE u.load.state = "Msb" /\ u.load.valid
  <2>1. v = [u EXCEPT !.loadWaiting = FALSE, !.dcache = NoRequest, !.load.state = "Lsb"]
    BY <1>1 DEF LoadServed, Typed
  <2>2. PICK l : l = [u.load EXCEPT !.state = "Lsb"] OBVIOUS
  <2>3. v = [u EXCEPT !.loadWaiting = FALSE, !.dcache = NoRequest, !.load = l]
    BY <2>1, <2>2 DEF Typed
  <2>4. l \in [valid : BOOLEAN, tag : Tag \cup {None}, op : Operation,
               branchCounter : Nat, state : Halfway, data : {l.data}]
    BY <2>2 DEF Typed, Halfway
  <2>5. /\ SameOthers(u, v) /\ v.storeQueue = u.storeQueue /\ ~ v.loadWaiting
        /\ v.storeWaiting = u.storeWaiting /\ v.dcache = NoRequest /\ v.load = l
    BY <2>3 DEF Typed, SameOthers
  <2>6. Typed(v) BY <2>3, <2>4 DEF Typed
  <2> QED BY <1>1, <2>2, <2>5, <2>6
<1>2. CASE ~ (u.load.state = "Msb" /\ u.load.valid)
  <2>1. v = [u EXCEPT !.loadWaiting = FALSE, !.dcache = NoRequest, !.load = NoLoad]
    BY <1>2 DEF LoadServed, Typed
  <2>2. /\ SameOthers(u, v) /\ v.storeQueue = u.storeQueue /\ ~ v.loadWaiting
        /\ v.storeWaiting = u.storeWaiting /\ v.dcache = NoRequest /\ v.load = NoLoad
    BY <2>1 DEF Typed, SameOthers
  <2>3. Typed(v)
    <3>1. NoLoad \in [valid : BOOLEAN, tag : Tag \cup {None}, op : Operation,
                 branchCounter : Nat, state : Halfway, data : {NoLoad.data}]
      BY NoLoadIs
    <3> QED BY <2>1, <3>1 DEF Typed
  <2> QED BY <1>2, <2>2, <2>3
<1> QED BY <1>1, <1>2

\* A resolved branch: what is left of a queue, a load and the first stage.
Flushed(e, result) == result = "Mispredicted" /\ e.branchCounter # 0

\* BranchFinished() flushes what depends on the branch, or counts the branch down.
LEMMA BranchStep ==
  ASSUME NEW u, Typed(u), NEW result, result \in {"None", "Correct", "Mispredicted"},
         NEW v, v = BranchFinished(u, result)
  PROVE  /\ Typed(v) /\ v.finished = u.finished /\ v.result = u.result
         /\ v.loadWaiting = u.loadWaiting /\ v.storeWaiting = u.storeWaiting
         /\ v.dcache = u.dcache
         /\ \A p \in 1 .. NStoreQueue :
              /\ v.storeQueue[p].full <=> u.storeQueue[p].full /\ ~ Flushed(u.storeQueue[p], result)
              /\ v.storeQueue[p].full =>
                   /\ v.storeQueue[p].valid = u.storeQueue[p].valid
                   /\ v.storeQueue[p].tag = u.storeQueue[p].tag
                   /\ v.storeQueue[p].op = u.storeQueue[p].op
                   /\ v.storeQueue[p].dependentLoadTag = u.storeQueue[p].dependentLoadTag
                   /\ v.storeQueue[p].branchCounter =
                        IF result = "None" THEN u.storeQueue[p].branchCounter
                        ELSE Decrement(u.storeQueue[p].branchCounter)
              /\ v.storeQueue[p].state = "Normal" \/ v.storeQueue[p].state = u.storeQueue[p].state
              /\ ~ Flushed(u.storeQueue[p], result) => v.storeQueue[p].state = u.storeQueue[p].state
         /\ v.stage1.valid <=> u.stage1.valid /\ ~ Flushed(u.stage1, result)
         /\ v.stage1.valid =>
              /\ v.stage1.tag = u.stage1.tag /\ v.stage1.op = u.stage1.op
              /\ v.stage1.branchCounter = IF result = "None" THEN u.stage1.branchCounter
                                          ELSE Decrement(u.stage1.branchCounter)
         /\ v.load.valid <=> u.load.valid /\ ~ Flushed(u.load, result)
         /\ v.load.valid =>
              /\ v.load.tag = u.load.tag /\ v.load.op = u.load.op /\ v.load.data = u.load.data
              /\ v.load.state = u.load.state
              /\ v.load.branchCounter = IF result = "None" THEN u.load.branchCounter
                                        ELSE Decrement(u.load.branchCounter)
         /\ v.load.state # "Normal" => v.load.state = u.load.state
<1> DEFINE w == IF result = "Mispredicted" THEN FlushStores(u.storeQueue) ELSE u.storeQueue
           s == IF result = "Mispredicted" /\ u.stage1.branchCounter > 0 THEN Nothing ELSE u.stage1
           l == IF result = "Mispredicted" /\ u.load.branchCounter > 0 THEN NoLoad ELSE u.load
           D(n) == IF result = "None" THEN n ELSE Decrement(n)
           x == [p \in 1 .. NStoreQueue |-> [w[p] EXCEPT !.branchCounter = D(@)]]
           t == [s EXCEPT !.branchCounter = D(@)]
           k == [l EXCEPT !.branchCounter = D(@)]
<1>1. u.storeQueue \in Queue /\ DOMAIN u.storeQueue = 1 .. NStoreQueue BY DEF Typed, Queue
<1>2. \A n \in Nat : D(n) \in Nat BY DEF Decrement
<1>3. /\ w \in Queue /\ DOMAIN w = 1 .. NStoreQueue
      /\ \A p \in 1 .. NStoreQueue :
           w[p] = IF u.storeQueue[p].full /\ Flushed(u.storeQueue[p], result) THEN Free
                  ELSE u.storeQueue[p]
  BY <1>1, FreeIs DEF Queue, FlushStores, Flushed
<1>4. s \in Packet /\ s = IF Flushed(u.stage1, result) THEN Nothing ELSE u.stage1
  BY NothingIs DEF Typed, Packet, Flushed
<1>5. /\ l = IF Flushed(u.load, result) THEN NoLoad ELSE u.load
      /\ l \in [valid : BOOLEAN, tag : Tag \cup {None}, op : Operation,
                branchCounter : Nat, state : Halfway, data : {l.data}]
  BY NoLoadIs DEF Typed, Flushed
<1> HIDE DEF w, s, l
<1>6. x \in Queue /\ \A p \in 1 .. NStoreQueue : x[p] = [w[p] EXCEPT !.branchCounter = D(@)]
  BY <1>2, <1>3 DEF Queue, Entry
<1>7. t \in Packet /\ t.valid = s.valid /\ t.tag = s.tag /\ t.op = s.op
      /\ t.branchCounter = D(s.branchCounter)
  BY <1>2, <1>4 DEF Packet
<1>8. /\ k \in [valid : BOOLEAN, tag : Tag \cup {None}, op : Operation,
                branchCounter : Nat, state : Halfway, data : {k.data}]
      /\ k.valid = l.valid /\ k.tag = l.tag /\ k.op = l.op /\ k.data = l.data
      /\ k.state = l.state /\ k.branchCounter = D(l.branchCounter)
  BY <1>2, <1>5
<1>9. v = [u EXCEPT !.storeQueue = x, !.stage1 = t, !.load = k]
  <2>1. CASE result = "None"
    <3>1. v = u BY <2>1 DEF BranchFinished
    <3>2. x = u.storeQueue BY <1>1, <2>1, <1>3 DEF Queue, Entry, w
    <3>3. t = u.stage1 BY <2>1, <1>4 DEF s, Typed, Packet
    <3>4. k = u.load BY <2>1 DEF l, Typed
    <3> HIDE DEF x, t, k
    <3> QED BY <3>1, <3>2, <3>3, <3>4 DEF Typed
  <2>2. CASE result # "None"
    <3>1. PICK y : y = IF result # "Mispredicted" THEN u
           ELSE [u EXCEPT !.storeQueue = FlushStores(@),
                             !.stage1 = IF @.branchCounter > 0 THEN Nothing ELSE @,
                             !.load = IF @.branchCounter > 0 THEN NoLoad ELSE @]
      OBVIOUS
    <3>2. v = [y EXCEPT !.stage1.branchCounter = Decrement(@), !.load.branchCounter = Decrement(@),
                        !.storeQueue = DecrementAll(@)]
      BY <2>2, <3>1 DEF BranchFinished
    <3>3. y = [u EXCEPT !.storeQueue = w, !.stage1 = s, !.load = l]
      BY <3>1 DEF w, s, l, Typed
    <3>4. y.storeQueue = w /\ y.stage1 = s /\ y.load = l BY <3>3 DEF Typed
    <3>5. \A n : D(n) = Decrement(n) BY <2>2
    <3>6. t = [s EXCEPT !.branchCounter = Decrement(@)] BY <3>5
    <3>7. k = [l EXCEPT !.branchCounter = Decrement(@)] BY <3>5
    <3>8. x = DecrementAll(w) BY <1>3, <3>5 DEF DecrementAll
    <3>9. v = [y EXCEPT !.stage1 = t, !.load = k, !.storeQueue = x]
      <4>1. Typed(y) BY <1>3, <1>4, <1>5, <3>3 DEF Typed
      <4>2. v = [y EXCEPT !.stage1 = [y.stage1 EXCEPT !.branchCounter = Decrement(@)],
                          !.load = [y.load EXCEPT !.branchCounter = Decrement(@)],
                          !.storeQueue = DecrementAll(y.storeQueue)]
        BY <3>2, <4>1 DEF Typed
      <4> HIDE DEF x, t, k
      <4> QED BY <3>4, <3>6, <3>7, <3>8, <4>2
    <3> HIDE DEF x, t, k
    <3> QED BY <3>3, <3>9 DEF Typed
  <2> QED BY <2>1, <2>2
<1> HIDE DEF x, t, k
<1>10. /\ Typed(v) /\ v.finished = u.finished /\ v.result = u.result
       /\ v.loadWaiting = u.loadWaiting /\ v.storeWaiting = u.storeWaiting
       /\ v.dcache = u.dcache /\ v.storeQueue = x /\ v.stage1 = t /\ v.load = k
  BY <1>6, <1>7, <1>8, <1>9 DEF Typed
<1>11. ASSUME NEW p \in 1 .. NStoreQueue
       PROVE  /\ x[p].full = w[p].full /\ x[p].valid = w[p].valid /\ x[p].tag = w[p].tag
              /\ x[p].op = w[p].op /\ x[p].dependentLoadTag = w[p].dependentLoadTag
              /\ x[p].state = w[p].state /\ x[p].branchCounter = D(w[p].branchCounter)
  BY <1>3, <1>6 DEF Queue, Entry
<1>12. ASSUME NEW p \in 1 .. NStoreQueue
       PROVE  /\ x[p].full <=> u.storeQueue[p].full /\ ~ Flushed(u.storeQueue[p], result)
              /\ x[p].full => w[p] = u.storeQueue[p]
              /\ x[p].state = "Normal" \/ x[p].state = u.storeQueue[p].state
              /\ ~ Flushed(u.storeQueue[p], result) => x[p].state = u.storeQueue[p].state
  BY <1>3, <1>11, FreeIs
<1>13. /\ t.valid <=> u.stage1.valid /\ ~ Flushed(u.stage1, result)
       /\ t.valid => s = u.stage1
  BY <1>4, <1>7, NothingIs
<1>14. /\ k.valid <=> u.load.valid /\ ~ Flushed(u.load, result)
       /\ k.valid => l = u.load
       /\ k.state # "Normal" => k.state = u.load.state
  BY <1>5, <1>8, NoLoadIs
<1> QED BY <1>7, <1>8, <1>10, <1>11, <1>12, <1>13, <1>14

\* The queue renumbered: entry p was entry h[p].
Renumbered(q, w, h) ==
  /\ w \in Queue /\ h \in [1 .. NStoreQueue -> 1 .. NStoreQueue]
  /\ \A p \in 1 .. NStoreQueue : w[p] = q[h[p]]
  /\ \A p, k \in 1 .. NStoreQueue : h[p] = h[k] => p = k
  /\ \A p, k \in 1 .. NStoreQueue : w[p].full /\ w[k].full => (p < k <=> h[p] < h[k])
  /\ \A p \in 1 .. NStoreQueue : \E k \in 1 .. NStoreQueue : h[k] = p
  /\ q[1].full => h[1] = 1

\* Shift() only renumbers the queue, and leaves its last entry free if any entry is.
LEMMA ShiftStep ==
  ASSUME NEW q \in Queue, NEW w, w = Shift(q)
  PROVE  /\ \E h : Renumbered(q, w, h)
         /\ (\E p \in 1 .. NStoreQueue : ~ q[p].full) => ~ w[NStoreQueue].full
<1> DEFINE N == NStoreQueue
           free == DOMAIN q \ Full(q)
           m == Min(free)
<1>0. DOMAIN q = 1 .. N /\ free \in SUBSET Nat /\ free \subseteq 1 .. N
      /\ \A p \in 1 .. N : p \in free <=> ~ q[p].full
  BY DEF Queue, Full
<1>1. CASE free = {}
  <2>1. w = q BY <1>1 DEF Shift
  <2> DEFINE h == [p \in 1 .. N |-> p]
  <2>2. Renumbered(q, w, h) BY <2>1, One DEF Renumbered
  <2> QED BY <1>0, <1>1, <2>2
<1>2. CASE free # {}
  <2>1. m \in free /\ \A y \in free : m <= y BY <1>0, <1>2, Least
  <2>2. m \in 1 .. N /\ ~ q[m].full /\ \A y \in 1 .. N : ~ q[y].full => m <= y
    BY <1>0, <2>1
  <2>3. w = Append(RemoveAt(q, m), q[m]) BY <1>2 DEF Shift
  <2> HIDE DEF free, m
  <2>4. q \in Seq(Entry) /\ Len(q) = N BY <1>0, One DEF Queue
  <2>5. PICK a : a = SubSeq(q, 1, m - 1) OBVIOUS
  <2>6. PICK b : b = SubSeq(q, m + 1, N) OBVIOUS
  <2>7. a \in Seq(Entry) /\ Len(a) = m - 1 /\ \A p \in 1 .. m - 1 : a[p] = q[p]
    BY <2>2, <2>4, <2>5, One
  <2>8. b \in Seq(Entry) /\ Len(b) = N - m /\ \A p \in 1 .. N - m : b[p] = q[p + m]
    BY <2>2, <2>4, <2>6, One
  <2>9. w = Append(a \o b, q[m]) BY <2>3, <2>4, <2>5, <2>6 DEF RemoveAt
  <2>10. q[m] \in Entry BY <2>2 DEF Queue
  <2>11. /\ w \in Seq(Entry) /\ Len(w) = N
         /\ \A p \in 1 .. N : w[p] = IF p < m THEN q[p] ELSE IF p < N THEN q[p + 1] ELSE q[m]
    <3>1. PICK c : c = a \o b OBVIOUS
    <3>2. /\ c \in Seq(Entry) /\ Len(c) = N - 1
          /\ \A p \in 1 .. N - 1 : c[p] = IF p < m THEN a[p] ELSE b[p - m + 1]
      <4>1. Len(a) \in Nat /\ Len(b) \in Nat /\ Len(a) + Len(b) = N - 1
        BY <2>2, <2>7, <2>8, One
      <4>0. a \in Seq(Entry) /\ b \in Seq(Entry) BY <2>7, <2>8
      <4>2. c \in Seq(Entry) /\ Len(c) = Len(a) + Len(b)
        <5>1. c \in Seq(Entry) BY <3>1, <4>0
        <5>2. Len(c) = Len(a) + Len(b) BY <3>1, <4>0
        <5> QED BY <5>1, <5>2
      <4>3. ASSUME NEW p \in 1 .. N - 1 PROVE c[p] = IF p < m THEN a[p] ELSE b[p - m + 1]
        <5>1. p \in 1 .. Len(a) + Len(b) BY <4>1
        <5>2. c[p] = IF p <= Len(a) THEN a[p] ELSE b[p - Len(a)] BY <2>7, <2>8, <3>1, <5>1
        <5>3. (p <= Len(a) <=> p < m) /\ p - Len(a) = p - m + 1 BY <2>2, <2>7
        <5> QED BY <5>2, <5>3
      <4> QED BY <4>1, <4>2, <4>3
    <3>3. /\ w \in Seq(Entry) /\ Len(w) = N
          /\ \A p \in 1 .. N : w[p] = IF p < N THEN c[p] ELSE q[m]
      <4>1. w = Append(c, q[m]) BY <2>9, <3>1
      <4>2. w \in Seq(Entry) /\ Len(w) = Len(c) + 1 BY <2>10, <3>2, <4>1
      <4>3. \A p \in 1 .. Len(c) + 1 : w[p] = IF p <= Len(c) THEN c[p] ELSE q[m]
        BY <2>10, <3>2, <4>1
      <4>4. Len(c) + 1 = N /\ \A p \in 1 .. N : p <= Len(c) <=> p < N BY <3>2, One
      <4> QED BY <4>2, <4>3, <4>4
    <3>4. ASSUME NEW p \in 1 .. N
          PROVE  w[p] = IF p < m THEN q[p] ELSE IF p < N THEN q[p + 1] ELSE q[m]
      <4>1. CASE p < m BY <2>2, <2>7, <3>2, <3>3, <4>1, One
      <4>2. CASE m <= p /\ p < N
        <5>1. w[p] = b[p - m + 1] BY <2>2, <3>2, <3>3, <4>2, One
        <5>2. p - m + 1 \in 1 .. N - m /\ (p - m + 1) + m = p + 1 BY <2>2, <4>2, One
        <5>3. b[p - m + 1] = q[p + 1] BY <2>8, <5>2
        <5> QED BY <2>2, <4>2, <5>1, <5>3, One
      <4>3. CASE m <= p /\ p = N BY <2>2, <3>3, <4>3, One
      <4> QED BY <2>2, <4>1, <4>2, <4>3, One
    <3> QED BY <3>3, <3>4
  <2>12. PICK h : h = [p \in 1 .. N |-> IF p < m THEN p ELSE IF p < N THEN p + 1 ELSE m] OBVIOUS
  <2>13. /\ h \in [1 .. N -> 1 .. N]
         /\ \A p \in 1 .. N : h[p] = IF p < m THEN p ELSE IF p < N THEN p + 1 ELSE m
    BY <2>2, <2>12, One, SMTT(30)
  <2>14. w \in Queue BY <2>11, One DEF Queue
  <2>15. \A p \in 1 .. N : w[p] = q[h[p]] BY <2>11, <2>13
  <2>16. w[N] = q[m] /\ ~ w[N].full BY <2>2, <2>11, One
  <2>17. \A p, k \in 1 .. N : h[p] = h[k] => p = k BY <2>2, <2>13, One, SMTT(30)
  <2>18. ASSUME NEW p \in 1 .. N, NEW k \in 1 .. N, w[p].full, w[k].full
         PROVE  p < k <=> h[p] < h[k]
    <3>1. p # N /\ k # N BY <2>16, <2>18
    <3>2. p < N /\ k < N BY <3>1, One
    <3>3. h[p] = (IF p < m THEN p ELSE p + 1) /\ h[k] = (IF k < m THEN k ELSE k + 1)
      BY <2>13, <3>2
    <3> QED BY <2>2, <3>3
  <2>19. ASSUME NEW p \in 1 .. N PROVE \E k \in 1 .. N : h[k] = p
    <3>1. CASE p < m BY <2>13, <3>1
    <3>2. CASE p = m
      <4>1. N \in 1 .. N /\ h[N] = m BY <2>2, <2>13, One
      <4> QED BY <3>2, <4>1
    <3>3. CASE p > m
      <4>1. p - 1 \in 1 .. N /\ h[p - 1] = p BY <2>2, <2>13, <3>3, One
      <4> QED BY <4>1
    <3> QED BY <2>2, <3>1, <3>2, <3>3
  <2>20. q[1].full => h[1] = 1 BY <2>2, <2>13, One
  <2>21. Renumbered(q, w, h) BY <2>13, <2>14, <2>15, <2>17, <2>18, <2>19, <2>20 DEF Renumbered
  <2> QED BY <2>16, <2>21
<1> QED BY <1>1, <1>2

\* The place where Advance() puts what leaves the first stage.
StoreAdvanced(u, v) ==
  /\ v.load = u.load
  /\ \A p \in 1 .. NStoreQueue - 1 : v.storeQueue[p] = u.storeQueue[p]
  /\ v.storeQueue[NStoreQueue] =
       [full |-> TRUE, valid |-> FALSE, tag |-> u.stage1.tag, op |-> u.stage1.op,
        branchCounter |-> u.stage1.branchCounter, dependentLoadTag |-> None,
        state |-> "Normal"]

\* A load is noted in the entries of the queue that it overlaps.
LoadAdvanced(u, v) ==
  /\ v.load = [valid |-> TRUE, tag |-> u.stage1.tag, op |-> u.stage1.op, data |-> <<>>,
               branchCounter |-> u.stage1.branchCounter, state |-> "Normal"]
  /\ \A p \in 1 .. NStoreQueue :
       /\ v.storeQueue[p].full = u.storeQueue[p].full
       /\ v.storeQueue[p].valid = u.storeQueue[p].valid
       /\ v.storeQueue[p].tag = u.storeQueue[p].tag
       /\ v.storeQueue[p].op = u.storeQueue[p].op
       /\ v.storeQueue[p].branchCounter = u.storeQueue[p].branchCounter
       /\ v.storeQueue[p].state = u.storeQueue[p].state
       /\ v.storeQueue[p].dependentLoadTag =
            IF u.storeQueue[p].full /\ Overlaps(u.storeQueue[p], u.stage1.op)
            THEN u.stage1.tag ELSE u.storeQueue[p].dependentLoadTag

\* Advance() empties the first stage.
LEMMA AdvanceStep ==
  ASSUME NEW u, Typed(u), NEW v, v = Advance(u)
  PROVE  /\ Typed(v) /\ v.finished = u.finished /\ v.result = u.result
         /\ v.loadWaiting = u.loadWaiting /\ v.storeWaiting = u.storeWaiting
         /\ v.dcache = u.dcache /\ ~ v.stage1.valid
         /\ ~ u.stage1.valid => v.load = u.load /\ v.storeQueue = u.storeQueue
         /\ u.stage1.valid /\ IsWrite(u.stage1.op) => StoreAdvanced(u, v)
         /\ u.stage1.valid /\ ~ IsWrite(u.stage1.op) => LoadAdvanced(u, v)
<1> DEFINE c == u.stage1
           q == u.storeQueue
<1>1. c \in Packet /\ q \in Queue /\ DOMAIN q = 1 .. NStoreQueue BY DEF Typed, Queue
<1>2. CASE ~ c.valid
  <2>1. v = u BY <1>2 DEF Advance
  <2> QED BY <1>2, <2>1
<1>3. CASE c.valid /\ IsWrite(c.op)
  <2>1. PICK e : e = [full |-> TRUE, valid |-> FALSE, tag |-> c.tag, op |-> c.op,
                      branchCounter |-> c.branchCounter, dependentLoadTag |-> None,
                      state |-> "Normal"]
    OBVIOUS
  <2>2. e \in Entry BY <1>1, <2>1 DEF Entry, Packet, Halfway
  <2>3. PICK w : w = [q EXCEPT ![NStoreQueue] = e] OBVIOUS
  <2>4. w \in Queue /\ w[NStoreQueue] = e /\ \A p \in 1 .. NStoreQueue - 1 : w[p] = q[p]
    BY <1>1, <2>2, <2>3, One DEF Queue
  <2>5. v = [u EXCEPT !.stage1 = Nothing, !.storeQueue = w]
    BY <1>3, <2>1, <2>3 DEF Advance, Typed
  <2>6. /\ Typed(v) /\ v.finished = u.finished /\ v.result = u.result
        /\ v.loadWaiting = u.loadWaiting /\ v.storeWaiting = u.storeWaiting
        /\ v.dcache = u.dcache /\ ~ v.stage1.valid /\ v.load = u.load /\ v.storeQueue = w
    BY <2>4, <2>5, NothingIs DEF Typed
  <2>7. StoreAdvanced(u, v) BY <2>1, <2>4, <2>6 DEF StoreAdvanced
  <2> QED BY <1>3, <2>6, <2>7
<1>4. CASE c.valid /\ ~ IsWrite(c.op)
  <2>1. PICK w : w = [i \in DOMAIN q |-> IF q[i].full /\ Overlaps(q[i], c.op)
                                        THEN [q[i] EXCEPT !.dependentLoadTag = c.tag] ELSE q[i]]
    OBVIOUS
  <2>2. PICK l : l = [valid |-> TRUE, tag |-> c.tag, op |-> c.op, data |-> <<>>,
                      branchCounter |-> c.branchCounter, state |-> "Normal"]
    OBVIOUS
  <2>3. l \in [valid : BOOLEAN, tag : Tag \cup {None}, op : Operation,
                branchCounter : Nat, state : Halfway, data : {l.data}]
    BY <1>1, <2>2 DEF Packet, Halfway
  <2>4. w \in Queue
    <3>1. q \in Queue /\ c.tag \in Tag \cup {None} BY <1>1 DEF Packet
    <3>2. ASSUME NEW p \in 1 .. NStoreQueue PROVE w[p] \in Entry
      <4>1. p \in DOMAIN q /\ q[p] \in Entry BY <3>1 DEF Queue
      <4>2. w[p] = q[p] \/ w[p] = [q[p] EXCEPT !.dependentLoadTag = c.tag] BY <2>1, <4>1
      <4> QED BY <3>1, <4>1, <4>2 DEF Entry
    <3>3. DOMAIN w = 1 .. NStoreQueue BY <2>1, <3>1 DEF Queue
    <3> QED BY <2>1, <3>2, <3>3 DEF Queue
  <2>5. ASSUME NEW p \in 1 .. NStoreQueue
        PROVE  /\ w[p].full = q[p].full /\ w[p].valid = q[p].valid /\ w[p].tag = q[p].tag
               /\ w[p].op = q[p].op /\ w[p].branchCounter = q[p].branchCounter
               /\ w[p].state = q[p].state
               /\ w[p].dependentLoadTag = IF q[p].full /\ Overlaps(q[p], c.op)
                                          THEN c.tag ELSE q[p].dependentLoadTag
    BY <1>1, <2>1 DEF Queue, Entry
  <2>6. v = [u EXCEPT !.stage1 = Nothing, !.load = l, !.storeQueue = w]
    BY <1>4, <2>1, <2>2 DEF Advance
  <2>7. /\ Typed(v) /\ v.finished = u.finished /\ v.result = u.result
        /\ v.loadWaiting = u.loadWaiting /\ v.storeWaiting = u.storeWaiting
        /\ v.dcache = u.dcache /\ ~ v.stage1.valid /\ v.load = l /\ v.storeQueue = w
    BY <2>3, <2>4, <2>6, NothingIs DEF Typed
  <2>8. LoadAdvanced(u, v) BY <2>2, <2>5, <2>7 DEF LoadAdvanced
  <2> QED BY <1>4, <2>7, <2>8
<1> QED BY <1>2, <1>3, <1>4

-----------------------------------------------------------------------------
\* The store queue and the reorder buffer: the order between them, and how retirement,
\* decoding, the cache, branches and dispatch keep it.

\* The entries of the reorder buffer, and those that the unit executes.
RobEntry == [tag : Tag, op : Operations, stage : {"Station", "Dispatched", "Finished"},
             branchCounter : Nat]
IsMemory(o) == o.kind # "SystemCall"

\* The reorder buffer: tags are distinct, a newer entry depends on at least as many branches,
\* and the instructions of the unit are sent in program order.
RobOrder(r, b) ==
  /\ r \in Seq(RobEntry)
  /\ \A i, j \in DOMAIN r : r[i].tag = r[j].tag => i = j
  /\ \A i, j \in DOMAIN r : i < j => r[i].branchCounter <= r[j].branchCounter
  /\ \A i \in DOMAIN r : r[i].branchCounter <= b
  /\ \A i, j \in DOMAIN r : i < j /\ IsMemory(r[i].op) /\ IsMemory(r[j].op)
                            /\ Sent(r[j]) => Sent(r[i])

\* e, an entry or a packet of the unit, is the instruction x of the reorder buffer.
Carries(e, x) == e.tag = x.tag /\ e.op = Carried(x.op) /\ e.branchCounter = x.branchCounter

\* The stores that have retired are the oldest of the queue and depend on no branch; only
\* the first one can be on its way to the cache.
Retired(q) ==
  /\ \A p, k \in Full(q) : p < k /\ q[k].valid => q[p].valid
  /\ \A p \in Pending(q) : q[p].branchCounter = 0
  /\ \A p \in DOMAIN q : q[p].state # "Normal" => p = 1 /\ q[p].full /\ q[p].valid

\* Each store that waits for retirement is in the reorder buffer, in the same order.
QueueOrder(q, r) ==
  /\ \A p \in Queued(q) : \E i \in DOMAIN r :
       IsWrite(r[i].op) /\ Sent(r[i]) /\ Carries(q[p], r[i])
  /\ \A p, k \in Queued(q), i, j \in DOMAIN r :
       q[p].tag = r[i].tag /\ q[k].tag = r[j].tag => (p < k <=> i < j)

\* No store is lost: one that has been sent is in the queue or on its way, as c.
StoresThere(q, r, c) ==
  \A i \in DOMAIN r : Sent(r[i]) /\ IsWrite(r[i].op) =>
    \/ \E p \in Queued(q) : q[p].tag = r[i].tag
    \/ c.valid /\ c.tag = r[i].tag

\* What is on its way is the newest instruction that has been sent.
LastSent(q, r, c) == c.valid =>
  /\ \E i \in DOMAIN r :
       /\ IsMemory(r[i].op) /\ Sent(r[i]) /\ Carries(c, r[i])
       /\ \A j \in DOMAIN r : j > i /\ IsMemory(r[j].op) => ~ Sent(r[j])
  /\ \A p \in Queued(q) : q[p].tag # c.tag

\* The store queue follows the reorder buffer.
QueueInv(q, r, c) ==
  q \in Queue /\ Retired(q) /\ QueueOrder(q, r) /\ StoresThere(q, r, c) /\ LastSent(q, r, c)

\* A load that has not been flushed is in the reorder buffer.
LoadThere(l, r) ==
  l.valid => \E i \in DOMAIN r : r[i].op.kind = "Load" /\ Sent(r[i]) /\ Carries(l, r[i])

\* The oldest entry of r has left.
Shifted(r, s) ==
  /\ r \in Seq(RobEntry) /\ s \in Seq(RobEntry) /\ Len(r) = Len(s) + 1
  /\ \A i \in 1 .. Len(s) : s[i] = r[i + 1]

\* The entries of a queue, by what they are.
LEMMA InQueue ==
  ASSUME NEW q \in Queue
  PROVE  /\ DOMAIN q = 1 .. NStoreQueue /\ Full(q) \subseteq 1 .. NStoreQueue
         /\ \A p : p \in Full(q) <=> p \in 1 .. NStoreQueue /\ q[p].full
         /\ \A p : p \in Queued(q) <=> p \in 1 .. NStoreQueue /\ q[p].full /\ ~ q[p].valid
         /\ \A p : p \in Pending(q) <=> p \in 1 .. NStoreQueue /\ q[p].full /\ q[p].valid
  BY DEF Queue, Full, Queued, Pending

\* The full entries depend on the flags only.
LEMMA SameFull ==
  ASSUME NEW q \in Queue, NEW w \in Queue, \A p \in 1 .. NStoreQueue : w[p].full = q[p].full
  PROVE  Full(w) = Full(q)
<1>1. \A p : p \in Full(w) <=> p \in Full(q) BY InQueue
<1> QED BY <1>1

LEMMA SameQueued ==
  ASSUME NEW q \in Queue, NEW w \in Queue,
         \A p \in 1 .. NStoreQueue : w[p].full = q[p].full /\ (q[p].full => w[p].valid = q[p].valid)
  PROVE  Full(w) = Full(q) /\ Queued(w) = Queued(q) /\ Pending(w) = Pending(q)
<1>1. \A p : p \in Queued(w) <=> p \in Queued(q) BY InQueue
<1>2. \A p : p \in Pending(w) <=> p \in Pending(q) BY InQueue
<1>3. Queued(w) = Queued(q) BY <1>1
<1>4. Pending(w) = Pending(q) BY <1>2
<1>5. Full(w) = Full(q) BY SameFull
<1> QED BY <1>3, <1>4, <1>5

\* A store is an instruction of the unit and no load.
LEMMA WriteIsMemory == \A o : IsWrite(o) => IsMemory(o) /\ o.kind # "Load"
  BY DEF IsWrite, IsMemory

\* How far the first store has come does not matter to the order.
LEMMA QueueAlike ==
  ASSUME NEW q, NEW r, NEW c, QueueInv(q, r, c), NEW w, Alike(q, w),
         w[1].state # "Normal" => q[1].full /\ q[1].valid
  PROVE  QueueInv(w, r, c)
<1>1. q \in Queue /\ w \in Queue BY DEF QueueInv, Alike
<1>2. Full(w) = Full(q) /\ Queued(w) = Queued(q) /\ Pending(w) = Pending(q)
  <2>1. \A p \in 1 .. NStoreQueue : w[p].full = q[p].full /\ w[p].valid = q[p].valid BY DEF Alike
  <2> QED BY <1>1, <2>1, SameQueued
<1>3. \A p \in 1 .. NStoreQueue :
       /\ w[p].full = q[p].full /\ w[p].valid = q[p].valid /\ w[p].tag = q[p].tag
       /\ w[p].op = q[p].op /\ w[p].branchCounter = q[p].branchCounter
       /\ w[p].state # q[p].state => p = 1
  BY DEF Alike
<1>4. Queued(q) \subseteq 1 .. NStoreQueue /\ Pending(q) \subseteq 1 .. NStoreQueue
      /\ Full(q) \subseteq 1 .. NStoreQueue /\ DOMAIN w = DOMAIN q /\ DOMAIN q = 1 .. NStoreQueue
  BY <1>1, InQueue
<1>5. Retired(w) BY <1>2, <1>3, <1>4 DEF QueueInv, Retired
<1>6. QueueOrder(w, r) BY <1>2, <1>3, <1>4 DEF QueueInv, QueueOrder, Carries
<1>7. StoresThere(w, r, c) /\ LastSent(w, r, c)
  BY <1>2, <1>3, <1>4 DEF QueueInv, StoresThere, LastSent
<1> QED BY <1>1, <1>5, <1>6, <1>7 DEF QueueInv

\* The oldest entry leaves, and is no store.
LEMMA QueueRetireOther ==
  ASSUME NEW q, NEW r, NEW c, QueueInv(q, r, c), NEW b, RobOrder(r, b), NEW s, Shifted(r, s),
         ~ IsWrite(r[1].op), ~ (c.valid /\ c.tag = r[1].tag)
  PROVE  QueueInv(q, s, c)
<1>1. /\ DOMAIN r = 1 .. Len(s) + 1 /\ DOMAIN s = 1 .. Len(s) /\ Len(s) \in Nat
      /\ 1 \in DOMAIN r
  BY DEF Shifted
<1>2. \A i \in DOMAIN s : i + 1 \in DOMAIN r /\ s[i] = r[i + 1] BY <1>1 DEF Shifted
<1>3. \A i \in DOMAIN r : i # 1 => i - 1 \in DOMAIN s /\ s[i - 1] = r[i] BY <1>1, <1>2
<1>4. QueueOrder(q, s)
  <2>1. ASSUME NEW p \in Queued(q)
        PROVE  \E i \in DOMAIN s : IsWrite(s[i].op) /\ Sent(s[i]) /\ Carries(q[p], s[i])
    <3>1. PICK i \in DOMAIN r : IsWrite(r[i].op) /\ Sent(r[i]) /\ Carries(q[p], r[i])
      BY DEF QueueInv, QueueOrder
    <3>2. i # 1 BY <3>1
    <3> QED BY <1>3, <3>1, <3>2
  <2>2. ASSUME NEW p \in Queued(q), NEW k \in Queued(q), NEW i \in DOMAIN s, NEW j \in DOMAIN s,
               q[p].tag = s[i].tag, q[k].tag = s[j].tag
        PROVE  p < k <=> i < j
    <3>1. p < k <=> i + 1 < j + 1 BY <1>2, <2>2 DEF QueueInv, QueueOrder
    <3> QED BY <1>1, <3>1
  <2> QED BY <2>1, <2>2 DEF QueueOrder
<1>5. StoresThere(q, s, c) BY <1>2 DEF QueueInv, StoresThere
<1>6. LastSent(q, s, c)
  <2> SUFFICES ASSUME c.valid PROVE LastSent(q, s, c)
    BY DEF LastSent
  <2>1. PICK i \in DOMAIN r : /\ IsMemory(r[i].op) /\ Sent(r[i]) /\ Carries(c, r[i])
                              /\ \A j \in DOMAIN r : j > i /\ IsMemory(r[j].op) => ~ Sent(r[j])
    BY DEF QueueInv, LastSent
  <2>2. i # 1 BY <2>1 DEF Carries
  <2>3. i - 1 \in DOMAIN s /\ s[i - 1] = r[i] BY <1>3, <2>2
  <2>4. \A j \in DOMAIN s : j > i - 1 /\ IsMemory(s[j].op) => ~ Sent(s[j])
    BY <1>1, <1>2, <2>1
  <2>5. \A p \in Queued(q) : q[p].tag # c.tag BY DEF QueueInv, LastSent
  <2> QED BY <2>1, <2>3, <2>4, <2>5 DEF LastSent
<1> QED BY <1>4, <1>5, <1>6 DEF QueueInv

\* The store that retires is the first of the queue that has not been written back.
LEMMA StoreIsFirst ==
  ASSUME NEW q, NEW r, NEW c, QueueInv(q, r, c), NEW b, RobOrder(r, b), 1 \in DOMAIN r,
         IsWrite(r[1].op), Sent(r[1]), ~ (c.valid /\ c.tag = r[1].tag)
  PROVE  \E p \in Queued(q) : /\ Carries(q[p], r[1])
                              /\ \A k \in Queued(q) : p <= k
                              /\ \A k \in Queued(q) : q[k].tag = r[1].tag => k = p
<1>1. PICK p \in Queued(q) : q[p].tag = r[1].tag BY DEF QueueInv, StoresThere
<1>2. PICK i \in DOMAIN r : IsWrite(r[i].op) /\ Sent(r[i]) /\ Carries(q[p], r[i])
  BY DEF QueueInv, QueueOrder
<1>3. i = 1 BY <1>1, <1>2 DEF RobOrder, Carries
<1>4. Queued(q) \subseteq 1 .. NStoreQueue BY InQueue DEF QueueInv
<1>5. ASSUME NEW k \in Queued(q) PROVE p <= k
  <2>1. PICK j \in DOMAIN r : Carries(q[k], r[j]) BY DEF QueueInv, QueueOrder
  <2>2. ~ (j < 1) BY DEF RobOrder
  <2>3. ~ (k < p) BY <1>1, <2>1, <2>2 DEF QueueInv, QueueOrder, Carries
  <2> QED BY <1>4, <2>3
<1>6. ASSUME NEW k \in Queued(q), q[k].tag = r[1].tag PROVE k = p
  <2>1. ~ (1 < 1) OBVIOUS
  <2>2. ~ (k < p) /\ ~ (p < k) BY <1>1, <1>6, <2>1 DEF QueueInv, QueueOrder
  <2> QED BY <1>4, <2>2
<1> QED BY <1>2, <1>3, <1>5, <1>6

\* Entry p is written back.
WrittenBack(q, w, p) ==
  /\ w \in Queue /\ p \in Queued(q) /\ w[p].valid
  /\ \A k \in 1 .. NStoreQueue :
       /\ w[k].full = q[k].full /\ w[k].tag = q[k].tag
       /\ w[k].op = q[k].op /\ w[k].branchCounter = q[k].branchCounter
       /\ w[k].dependentLoadTag = q[k].dependentLoadTag
       /\ k # p => w[k].valid = q[k].valid
       /\ w[k].state # q[k].state => k = 1
  /\ w[1].state # "Normal" => w[1].full /\ w[1].valid

\* The entry written back is pending, and no other one changes.
LEMMA WrittenBackSets ==
  ASSUME NEW q \in Queue, NEW w, NEW p, WrittenBack(q, w, p)
  PROVE  /\ Full(w) = Full(q) /\ Queued(w) = Queued(q) \ {p} /\ Pending(w) = Pending(q) \cup {p}
         /\ p \in 1 .. NStoreQueue
<1>1. w \in Queue /\ p \in 1 .. NStoreQueue /\ q[p].full BY InQueue DEF WrittenBack
<1>2. \A k \in 1 .. NStoreQueue : w[k].full = q[k].full BY DEF WrittenBack
<1>3. \A k \in 1 .. NStoreQueue : w[k].valid <=> q[k].valid \/ k = p
  BY DEF WrittenBack
<1>4. Full(w) = Full(q) BY <1>1, <1>2, SameFull
<1>5. Queued(w) = Queued(q) \ {p} BY <1>1, <1>2, <1>3, InQueue
<1>6. Pending(w) = Pending(q) \cup {p} BY <1>1, <1>2, <1>3, InQueue
<1> QED BY <1>1, <1>4, <1>5, <1>6

\* The oldest entry leaves and is the first store of the queue that waits.
LEMMA QueueRetireStore ==
  ASSUME NEW q, NEW r, NEW c, QueueInv(q, r, c), NEW b, RobOrder(r, b), NEW s, Shifted(r, s),
         IsWrite(r[1].op), Sent(r[1]), r[1].branchCounter = 0, ~ (c.valid /\ c.tag = r[1].tag),
         NEW w, NEW p, WrittenBack(q, w, p), \A k \in Queued(q) : p <= k
  PROVE  QueueInv(w, s, c) /\ Carries(q[p], r[1])
<1>1. /\ DOMAIN r = 1 .. Len(s) + 1 /\ DOMAIN s = 1 .. Len(s) /\ Len(s) \in Nat
      /\ 1 \in DOMAIN r
  BY DEF Shifted
<1>2. \A i \in DOMAIN s : i + 1 \in DOMAIN r /\ s[i] = r[i + 1] BY <1>1 DEF Shifted
<1>3. \A i \in DOMAIN r : i # 1 => i - 1 \in DOMAIN s /\ s[i - 1] = r[i] BY <1>1, <1>2
<1>4. q \in Queue /\ w \in Queue BY DEF QueueInv, WrittenBack
<1>5. /\ Full(w) = Full(q) /\ Queued(w) = Queued(q) \ {p} /\ Pending(w) = Pending(q) \cup {p}
      /\ p \in 1 .. NStoreQueue
  BY <1>4, WrittenBackSets
<1>6. /\ Queued(q) \subseteq 1 .. NStoreQueue /\ Pending(q) \subseteq 1 .. NStoreQueue
      /\ Full(q) \subseteq 1 .. NStoreQueue /\ DOMAIN w = DOMAIN q /\ DOMAIN q = 1 .. NStoreQueue
      /\ p \in Queued(q)
  BY <1>4, InQueue DEF WrittenBack
<1>7. Carries(q[p], r[1]) /\ \A k \in Queued(q) : q[k].tag = r[1].tag => k = p
  <2>1. PICK l \in Queued(q) : /\ Carries(q[l], r[1]) /\ \A k \in Queued(q) : l <= k
                               /\ \A k \in Queued(q) : q[k].tag = r[1].tag => k = l
    BY <1>1, StoreIsFirst
  <2>2. l <= p /\ p <= l BY <1>6, <2>1
  <2>3. l = p BY <1>6, <2>2
  <2> QED BY <2>1, <2>3
<1>8. \A k \in 1 .. NStoreQueue :
       /\ w[k].full = q[k].full /\ w[k].tag = q[k].tag
       /\ w[k].op = q[k].op /\ w[k].branchCounter = q[k].branchCounter
       /\ k # p => w[k].valid = q[k].valid
  BY DEF WrittenBack
<1>9. Retired(w)
  <2>1. ASSUME NEW i \in Full(w), NEW k \in Full(w), i < k, w[k].valid PROVE w[i].valid
    <3>1. CASE i = p BY <3>1 DEF WrittenBack
    <3>2. CASE i # p /\ k = p
      <4>1. i \notin Queued(q) BY <1>5, <1>6, <2>1, <3>2
      <4> QED BY <1>4, <1>5, <1>6, <1>8, <3>2, <4>1, InQueue
    <3>3. CASE i # p /\ k # p
      <4>1. q[k].valid BY <1>5, <1>6, <1>8, <2>1, <3>3
      <4>2. q[i].valid BY <1>5, <2>1, <4>1 DEF QueueInv, Retired
      <4> QED BY <1>5, <1>6, <1>8, <3>3, <4>2
    <3> QED BY <3>1, <3>2, <3>3
  <2>2. ASSUME NEW k \in Pending(w) PROVE w[k].branchCounter = 0
    <3>1. CASE k = p BY <1>5, <1>7, <1>8, <3>1 DEF Carries
    <3>2. CASE k # p BY <1>5, <1>6, <1>8, <2>2, <3>2 DEF QueueInv, Retired
    <3> QED BY <3>1, <3>2
  <2>3. ASSUME NEW k \in DOMAIN w, w[k].state # "Normal" PROVE k = 1 /\ w[k].full /\ w[k].valid
    <3>1. CASE w[k].state # q[k].state BY <1>6, <2>3, <3>1 DEF WrittenBack
    <3>2. CASE w[k].state = q[k].state
      <4>1. k = 1 BY <1>6, <2>3, <3>2 DEF QueueInv, Retired
      <4> QED BY <2>3, <4>1 DEF WrittenBack
    <3> QED BY <3>1, <3>2
  <2> QED BY <2>1, <2>2, <2>3 DEF Retired
<1>10. QueueOrder(w, s)
  <2>1. ASSUME NEW k \in Queued(w)
        PROVE  \E i \in DOMAIN s : IsWrite(s[i].op) /\ Sent(s[i]) /\ Carries(w[k], s[i])
    <3>1. k \in Queued(q) /\ k # p BY <1>5, <2>1
    <3>2. PICK i \in DOMAIN r : IsWrite(r[i].op) /\ Sent(r[i]) /\ Carries(q[k], r[i])
      BY <3>1 DEF QueueInv, QueueOrder
    <3>3. i # 1 BY <1>7, <3>1, <3>2 DEF Carries
    <3>4. Carries(w[k], r[i]) BY <1>6, <1>8, <3>1, <3>2 DEF Carries
    <3> QED BY <1>3, <3>2, <3>3, <3>4
  <2>2. ASSUME NEW k \in Queued(w), NEW l \in Queued(w), NEW i \in DOMAIN s, NEW j \in DOMAIN s,
               w[k].tag = s[i].tag, w[l].tag = s[j].tag
        PROVE  k < l <=> i < j
    <3>1. k \in Queued(q) /\ l \in Queued(q) BY <1>5
    <3>2. q[k].tag = r[i + 1].tag /\ q[l].tag = r[j + 1].tag BY <1>2, <1>6, <1>8, <2>2, <3>1
    <3>3. k < l <=> i + 1 < j + 1 BY <1>2, <3>1, <3>2 DEF QueueInv, QueueOrder
    <3> QED BY <1>1, <3>3
  <2> QED BY <2>1, <2>2 DEF QueueOrder
<1>11. StoresThere(w, s, c)
  <2> SUFFICES ASSUME NEW i \in DOMAIN s, Sent(s[i]), IsWrite(s[i].op),
                      ~ (c.valid /\ c.tag = s[i].tag)
               PROVE  \E k \in Queued(w) : w[k].tag = s[i].tag
    BY DEF StoresThere
  <2>1. i + 1 \in DOMAIN r /\ s[i] = r[i + 1] /\ i + 1 # 1 BY <1>1, <1>2
  <2>2. PICK k \in Queued(q) : q[k].tag = r[i + 1].tag BY <2>1 DEF QueueInv, StoresThere
  <2>3. k # p BY <1>1, <1>7, <2>1, <2>2 DEF RobOrder, Carries
  <2> QED BY <1>5, <1>6, <1>8, <2>1, <2>2, <2>3
<1>12. LastSent(w, s, c)
  <2> SUFFICES ASSUME c.valid PROVE LastSent(w, s, c)
    BY DEF LastSent
  <2>1. PICK i \in DOMAIN r : /\ IsMemory(r[i].op) /\ Sent(r[i]) /\ Carries(c, r[i])
                              /\ \A j \in DOMAIN r : j > i /\ IsMemory(r[j].op) => ~ Sent(r[j])
    BY DEF QueueInv, LastSent
  <2>2. i # 1 BY <2>1 DEF Carries
  <2>3. i - 1 \in DOMAIN s /\ s[i - 1] = r[i] BY <1>3, <2>2
  <2>4. \A j \in DOMAIN s : j > i - 1 /\ IsMemory(s[j].op) => ~ Sent(s[j])
    BY <1>1, <1>2, <2>1
  <2>5. \A k \in Queued(w) : w[k].tag # c.tag BY <1>5, <1>6, <1>8 DEF QueueInv, LastSent
  <2> QED BY <2>1, <2>3, <2>4, <2>5 DEF LastSent
<1> QED BY <1>4, <1>7, <1>9, <1>10, <1>11, <1>12 DEF QueueInv

\* New entries that wait in their stations.
Extended(r, s) ==
  /\ r \in Seq(RobEntry) /\ s \in Seq(RobEntry) /\ Len(r) <= Len(s)
  /\ \A i \in 1 .. Len(r) : s[i] = r[i]
  /\ \A i \in Len(r) + 1 .. Len(s) : ~ Sent(s[i])

\* What is decoded has no part in the queue.
LEMMA QueueExtended ==
  ASSUME NEW q, NEW r, NEW c, QueueInv(q, r, c), NEW b, NEW s, Extended(r, s), RobOrder(s, b)
  PROVE  QueueInv(q, s, c)
<1>1. DOMAIN r \subseteq DOMAIN s /\ DOMAIN r = 1 .. Len(r) /\ DOMAIN s = 1 .. Len(s)
  BY DEF Extended
<1>2. \A i \in DOMAIN r : s[i] = r[i] BY <1>1 DEF Extended
<1>3. \A i \in DOMAIN s : Sent(s[i]) => i \in DOMAIN r BY <1>1 DEF Extended
<1>4. QueueOrder(q, s)
  <2>1. \A p \in Queued(q) : \E i \in DOMAIN s :
          IsWrite(s[i].op) /\ Sent(s[i]) /\ Carries(q[p], s[i])
    BY <1>1, <1>2 DEF QueueInv, QueueOrder
  <2>2. ASSUME NEW p \in Queued(q), NEW i \in DOMAIN s, q[p].tag = s[i].tag
        PROVE  i \in DOMAIN r /\ q[p].tag = r[i].tag
    <3>1. PICK j \in DOMAIN r : Carries(q[p], r[j]) BY DEF QueueInv, QueueOrder
    <3>2. s[j].tag = s[i].tag BY <1>2, <2>2, <3>1 DEF Carries
    <3>3. i = j BY <1>1, <3>1, <3>2 DEF RobOrder
    <3> QED BY <1>2, <2>2, <3>1, <3>3
  <2>3. \A p, k \in Queued(q), i, j \in DOMAIN s :
          q[p].tag = s[i].tag /\ q[k].tag = s[j].tag => (p < k <=> i < j)
    BY <2>2 DEF QueueInv, QueueOrder
  <2> QED BY <2>1, <2>3 DEF QueueOrder
<1>5. StoresThere(q, s, c) BY <1>2, <1>3 DEF QueueInv, StoresThere
<1>6. LastSent(q, s, c)
  <2> SUFFICES ASSUME c.valid PROVE LastSent(q, s, c)
    BY DEF LastSent
  <2>1. PICK i \in DOMAIN r : /\ IsMemory(r[i].op) /\ Sent(r[i]) /\ Carries(c, r[i])
                              /\ \A j \in DOMAIN r : j > i /\ IsMemory(r[j].op) => ~ Sent(r[j])
    BY DEF QueueInv, LastSent
  <2>2. \A j \in DOMAIN s : j > i /\ IsMemory(s[j].op) => ~ Sent(s[j])
    BY <1>2, <1>3, <2>1
  <2>3. \A p \in Queued(q) : q[p].tag # c.tag BY DEF QueueInv, LastSent
  <2> QED BY <1>1, <1>2, <2>1, <2>2, <2>3 DEF LastSent
<1> QED BY <1>4, <1>5, <1>6 DEF QueueInv

\* The cache has taken a part or all of the first store.
LEMMA QueueServed ==
  ASSUME NEW q, NEW r, NEW c, QueueInv(q, r, c), q[1].full, q[1].valid, NEW w \in Queue,
         \A p \in 2 .. NStoreQueue : w[p] = q[p],
         w[1] = IF q[1].state = "Msb" THEN [q[1] EXCEPT !.state = "Lsb"] ELSE Free
  PROVE  QueueInv(w, r, c) /\ Queued(w) = Queued(q)
<1>1. q \in Queue /\ q[1] \in Entry BY One DEF QueueInv, Queue
<1>2. Queued(w) = Queued(q) /\ Full(w) \subseteq Full(q)
  <2>1. \A p \in 1 .. NStoreQueue : p # 1 => w[p] = q[p] OBVIOUS
  <2>2. ~ w[1].full \/ (w[1].full /\ w[1].valid) BY <1>1, FreeIs DEF Entry
  <2>3. 1 \notin Queued(q) /\ 1 \notin Queued(w) BY <1>1, <2>2, InQueue
  <2>4. \A p : p \in Queued(w) <=> p \in Queued(q) BY <1>1, <2>1, <2>3, InQueue
  <2>5. \A p : p \in Full(w) => p \in Full(q) BY <1>1, <2>1, One, InQueue
  <2> QED BY <2>4, <2>5
<1>3. DOMAIN q = 1 .. NStoreQueue /\ DOMAIN w = 1 .. NStoreQueue
      /\ Full(q) \subseteq 1 .. NStoreQueue /\ Queued(q) \subseteq 1 .. NStoreQueue
  BY <1>1, InQueue
<1>4. \A p \in Queued(q) : p # 1 /\ w[p] = q[p]
  <2>1. 1 \notin Queued(q) BY <1>1, InQueue
  <2> QED BY <1>3, <2>1
<1>5. Retired(w)
  <2>0. w[1].full => w[1].valid /\ w[1].branchCounter = q[1].branchCounter BY <1>1, FreeIs DEF Entry
  <2>1. ASSUME NEW p \in Full(w), NEW k \in Full(w), p < k, w[k].valid PROVE w[p].valid
    <3>1. k # 1 /\ w[k] = q[k] BY <1>2, <1>3, <2>1
    <3>2. CASE p = 1 BY <2>0, <2>1, <3>2, InQueue
    <3>3. CASE p # 1 BY <1>2, <1>3, <2>1, <3>1, <3>3 DEF QueueInv, Retired
    <3> QED BY <3>2, <3>3
  <2>2. ASSUME NEW p \in Pending(w) PROVE w[p].branchCounter = 0
    <3>1. p \in Pending(q)
      <4>0. p \in 1 .. NStoreQueue /\ w[p].full /\ w[p].valid BY <2>2, InQueue
      <4>1. CASE p = 1 BY <1>1, <4>1, One, InQueue
      <4>2. CASE p # 1
        <5>1. w[p] = q[p] BY <4>0, <4>2
        <5> QED BY <1>1, <4>0, <5>1, InQueue
      <4> QED BY <4>1, <4>2
    <3>2. q[p].branchCounter = 0 BY <3>1 DEF QueueInv, Retired
    <3>3. p \in 1 .. NStoreQueue /\ w[p].full BY <2>2, InQueue
    <3>4. p # 1 => w[p] = q[p] BY <3>3
    <3> QED BY <2>0, <3>2, <3>3, <3>4
  <2>3. ASSUME NEW p \in DOMAIN w, w[p].state # "Normal" PROVE p = 1 /\ w[p].full /\ w[p].valid
    <3>1. CASE p = 1 BY <1>1, <2>3, <3>1, FreeIs DEF Entry
    <3>2. CASE p # 1 BY <1>3, <2>3, <3>2 DEF QueueInv, Retired
    <3> QED BY <3>1, <3>2
  <2> QED BY <2>1, <2>2, <2>3 DEF Retired
<1>6. QueueOrder(w, r) BY <1>2, <1>4 DEF QueueInv, QueueOrder, Carries
<1>7. StoresThere(w, r, c) /\ LastSent(w, r, c)
  BY <1>2, <1>4 DEF QueueInv, StoresThere, LastSent
<1> QED BY <1>2, <1>5, <1>6, <1>7 DEF QueueInv

\* What a branch leaves of the reorder buffer.
LeftOf(r, s, result) ==
  /\ r \in Seq(RobEntry) /\ s \in Seq(RobEntry) /\ Len(s) <= Len(r)
  /\ \A i \in 1 .. Len(s) :
       /\ ~ Flushed(r[i], result)
       /\ s[i].tag = r[i].tag /\ s[i].op = r[i].op /\ s[i].stage = r[i].stage
       /\ s[i].branchCounter = IF result = "None" THEN r[i].branchCounter
                               ELSE Decrement(r[i].branchCounter)
  /\ \A i \in Len(s) + 1 .. Len(r) : Flushed(r[i], result)

\* Finish(), Flush() and DecrementBranchCounter() of the reorder buffer leave its oldest part.
LEMMA BranchLeaves ==
  ASSUME NEW b, RobOrder(rob, b), branch \in {"None", "Correct", "Mispredicted"}
  PROVE  LeftOf(rob, AfterBranch(rob), branch)
<1>0. rob \in Seq(RobEntry) /\ DOMAIN rob = 1 .. Len(rob) /\ Len(rob) \in Nat BY DEF RobOrder
<1>00. \A i \in DOMAIN rob : rob[i] \in RobEntry /\ rob[i].branchCounter \in Nat
  <2>1. ASSUME NEW i \in DOMAIN rob PROVE rob[i] \in RobEntry BY <1>0
  <2> QED BY <2>1 DEF RobEntry
<1>1. CASE branch = "None"
  <2>1. AfterBranch(rob) = rob BY <1>1 DEF AfterBranch
  <2> QED BY <1>0, <1>1, <2>1 DEF LeftOf, Flushed
<1>2. CASE branch = "Correct"
  <2>1. PICK s : s = [i \in DOMAIN rob |-> [rob[i] EXCEPT !.branchCounter = Decrement(@)]] OBVIOUS
  <2>2. AfterBranch(rob) = s BY <1>2, <2>1 DEF AfterBranch
  <2>3. ASSUME NEW i \in DOMAIN rob
        PROVE  /\ s[i] \in RobEntry /\ s[i].branchCounter = Decrement(rob[i].branchCounter)
               /\ s[i].tag = rob[i].tag /\ s[i].op = rob[i].op /\ s[i].stage = rob[i].stage
    BY <1>00, <2>1 DEF RobEntry, Decrement
  <2>4. s \in Seq(RobEntry) /\ Len(s) = Len(rob)
    <3>1. DOMAIN s = 1 .. Len(rob) /\ \A i \in 1 .. Len(rob) : s[i] \in RobEntry
      BY <1>0, <2>1, <2>3
    <3>2. s = [i \in 1 .. Len(rob) |-> s[i]] BY <1>0, <2>1, <3>1
    <3>3. s \in [1 .. Len(rob) -> RobEntry] BY <3>1, <3>2
    <3> QED BY <1>0, <3>3
  <2> QED BY <1>0, <1>2, <2>2, <2>3, <2>4 DEF LeftOf, Flushed
<1>3. CASE branch = "Mispredicted"
  <2> DEFINE S == {0} \cup {i \in DOMAIN rob : rob[i].branchCounter = 0}
             m == Max(S)
  <2>1. S \in SUBSET (0 .. Len(rob)) /\ S # {} BY <1>0
  <2>2. m \in S /\ \A y \in S : y <= m BY <1>0, <2>1, Greatest
  <2>3. AfterBranch(rob) = SubSeq(rob, 1, m) BY <1>3 DEF AfterBranch
  <2> HIDE DEF m
  <2>4. m \in 0 .. Len(rob) BY <2>1, <2>2
  <2>5. PICK s : s = SubSeq(rob, 1, m) OBVIOUS
  <2>6. s \in Seq(RobEntry) /\ Len(s) = m /\ \A i \in 1 .. m : s[i] = rob[i]
    BY <1>0, <2>4, <2>5
  <2>7. ASSUME NEW i \in 1 .. m PROVE rob[i].branchCounter = 0
    <3>1. m \in DOMAIN rob /\ i \in DOMAIN rob BY <1>0, <2>4
    <3>2. rob[m].branchCounter = 0 BY <2>2, <3>1
    <3>3. i < m => rob[i].branchCounter <= rob[m].branchCounter BY <3>1 DEF RobOrder
    <3> QED BY <1>00, <2>4, <3>1, <3>2, <3>3
  <2>8. ASSUME NEW i \in m + 1 .. Len(rob) PROVE rob[i].branchCounter # 0
    <3>1. i \in DOMAIN rob /\ ~ (i <= m) BY <1>0, <2>4
    <3> QED BY <2>2, <3>1
  <2>9. Decrement(0) = 0 BY DEF Decrement
  <2> QED BY <1>0, <1>3, <2>3, <2>4, <2>5, <2>6, <2>7, <2>8, <2>9 DEF LeftOf, Flushed
<1> QED BY <1>1, <1>2, <1>3

\* The order outlives a branch.
LEMMA OrderLeft ==
  ASSUME NEW b \in Nat, NEW r, RobOrder(r, b), NEW result \in {"None", "Correct", "Mispredicted"},
         NEW s, LeftOf(r, s, result), result # "None" => b > 0
  PROVE  RobOrder(s, CASE result = "None" -> b [] result = "Correct" -> b - 1
                       [] result = "Mispredicted" -> 0)
<1>1. /\ DOMAIN s = 1 .. Len(s) /\ DOMAIN r = 1 .. Len(r) /\ DOMAIN s \subseteq DOMAIN r
      /\ s \in Seq(RobEntry) /\ r \in Seq(RobEntry)
  BY DEF LeftOf
<1>2. \A i \in DOMAIN s :
        /\ s[i].tag = r[i].tag /\ s[i].op = r[i].op /\ (Sent(s[i]) <=> Sent(r[i]))
        /\ r[i].branchCounter \in Nat /\ ~ Flushed(r[i], result)
        /\ s[i].branchCounter = IF result = "None" THEN r[i].branchCounter
                                ELSE Decrement(r[i].branchCounter)
  <2> SUFFICES ASSUME NEW i \in DOMAIN s
               PROVE  /\ s[i].tag = r[i].tag /\ s[i].op = r[i].op /\ (Sent(s[i]) <=> Sent(r[i]))
                      /\ r[i].branchCounter \in Nat /\ ~ Flushed(r[i], result)
                      /\ s[i].branchCounter = IF result = "None" THEN r[i].branchCounter
                                              ELSE Decrement(r[i].branchCounter)
    OBVIOUS
  <2>1. r[i] \in RobEntry BY <1>1
  <2>2. r[i].branchCounter \in Nat BY <2>1 DEF RobEntry
  <2> QED BY <1>1, <2>2 DEF LeftOf, Sent
<1>3. \A i, j \in DOMAIN s : s[i].tag = s[j].tag => i = j BY <1>1, <1>2 DEF RobOrder
<1>4. \A i, j \in DOMAIN s : i < j /\ IsMemory(s[i].op) /\ IsMemory(s[j].op)
                            /\ Sent(s[j]) => Sent(s[i])
  BY <1>1, <1>2 DEF RobOrder
<1>5. \A i, j \in DOMAIN s : i < j => s[i].branchCounter <= s[j].branchCounter
  <2> SUFFICES ASSUME NEW i \in DOMAIN s, NEW j \in DOMAIN s, i < j
               PROVE  s[i].branchCounter <= s[j].branchCounter
    OBVIOUS
  <2>1. r[i].branchCounter <= r[j].branchCounter BY <1>1 DEF RobOrder
  <2> QED BY <1>2, <2>1 DEF Decrement
<1>6. ASSUME NEW i \in DOMAIN s
      PROVE  s[i].branchCounter <= CASE result = "None" -> b [] result = "Correct" -> b - 1
                                     [] result = "Mispredicted" -> 0
  <2>1. r[i].branchCounter <= b BY <1>1 DEF RobOrder
  <2>2. CASE result = "None" BY <1>2, <2>1, <2>2
  <2>3. CASE result = "Correct" BY <1>2, <2>1, <2>3 DEF Decrement
  <2>4. CASE result = "Mispredicted"
    <3>1. r[i].branchCounter = 0 BY <1>2, <2>4 DEF Flushed
    <3> QED BY <1>2, <2>4, <3>1 DEF Decrement
  <2> QED BY <2>2, <2>3, <2>4
<1> QED BY <1>1, <1>3, <1>4, <1>5, <1>6 DEF RobOrder

\* What the flush keeps of an entry of the unit, and the counter it is left with.
Kept(e, x, result) ==
  /\ x.tag = e.tag /\ x.op = e.op /\ ~ Flushed(e, result)
  /\ x.branchCounter = IF result = "None" THEN e.branchCounter ELSE Decrement(e.branchCounter)

\* An entry of the reorder buffer that carries the same instruction is kept too.
LEMMA KeptTogether ==
  ASSUME NEW r, NEW s, NEW result, LeftOf(r, s, result), NEW e, NEW x, Kept(e, x, result),
         NEW i \in DOMAIN r, Carries(e, r[i])
  PROVE  i \in DOMAIN s /\ Carries(x, s[i]) /\ s[i].op = r[i].op /\ (Sent(s[i]) <=> Sent(r[i]))
<1>1. DOMAIN r = 1 .. Len(r) /\ DOMAIN s = 1 .. Len(s) /\ Len(r) \in Nat /\ Len(s) \in Nat
  BY DEF LeftOf
<1>2. ~ Flushed(r[i], result) BY DEF Kept, Carries, Flushed
<1>3. i \in 1 .. Len(s) BY <1>1, <1>2 DEF LeftOf
<1> QED BY <1>1, <1>3 DEF LeftOf, Carries, Kept, Sent

\* The entries that are left, field by field.
LEMMA LeftFields ==
  ASSUME NEW r, NEW s, NEW result, LeftOf(r, s, result)
  PROVE  /\ DOMAIN s \subseteq DOMAIN r /\ DOMAIN r \subseteq Int
         /\ \A i \in DOMAIN s : /\ s[i].tag = r[i].tag /\ s[i].op = r[i].op
                                /\ (Sent(s[i]) <=> Sent(r[i])) /\ ~ Flushed(r[i], result)
                                /\ s[i].stage = r[i].stage
<1>1. DOMAIN r = 1 .. Len(r) /\ DOMAIN s = 1 .. Len(s) /\ Len(r) \in Nat /\ Len(s) \in Nat
      /\ Len(s) <= Len(r)
  BY DEF LeftOf
<1> QED BY <1>1 DEF LeftOf, Sent

\* The queue and the reorder buffer flush the same stores.
LEMMA QueueFlushed ==
  ASSUME NEW q, NEW r, NEW c, QueueInv(q, r, c), NEW b, RobOrder(r, b),
         NEW result, NEW s, LeftOf(r, s, result), NEW w \in Queue, NEW d,
         \A p \in 1 .. NStoreQueue :
           /\ w[p].full <=> q[p].full /\ ~ Flushed(q[p], result)
           /\ w[p].full => Kept(q[p], w[p], result) /\ w[p].valid = q[p].valid
           /\ w[p].state = "Normal" \/ w[p].state = q[p].state,
         d.valid <=> c.valid /\ ~ Flushed(c, result),
         d.valid => Kept(c, d, result)
  PROVE  QueueInv(w, s, d)
<1>1. q \in Queue BY DEF QueueInv
<1>2. /\ DOMAIN q = 1 .. NStoreQueue /\ DOMAIN w = 1 .. NStoreQueue
      /\ Queued(q) \subseteq 1 .. NStoreQueue /\ Queued(w) \subseteq 1 .. NStoreQueue
      /\ Pending(q) \subseteq 1 .. NStoreQueue /\ Pending(w) \subseteq 1 .. NStoreQueue
  BY <1>1, InQueue
<1>3. ASSUME NEW p \in Queued(w)
      PROVE  p \in Queued(q) /\ Kept(q[p], w[p], result)
  <2>1. p \in 1 .. NStoreQueue /\ w[p].full /\ ~ w[p].valid BY InQueue
  <2> QED BY <1>1, <2>1, InQueue
<1>4. ASSUME NEW p \in Pending(w)
      PROVE  p \in Pending(q) /\ Kept(q[p], w[p], result)
  <2>1. p \in 1 .. NStoreQueue /\ w[p].full /\ w[p].valid BY InQueue
  <2> QED BY <1>1, <2>1, InQueue
<1>5. Retired(w)
  <2>1. ASSUME NEW p \in Full(w), NEW k \in Full(w), p < k, w[k].valid PROVE w[p].valid
    <3>1. p \in 1 .. NStoreQueue /\ k \in 1 .. NStoreQueue /\ w[p].full /\ w[k].full
      BY InQueue
    <3>2. p \in Full(q) /\ k \in Full(q) /\ q[k].valid BY <1>1, <2>1, <3>1, InQueue
    <3>3. q[p].valid BY <2>1, <3>2 DEF QueueInv, Retired
    <3> QED BY <3>1, <3>3
  <2>2. ASSUME NEW p \in Pending(w) PROVE w[p].branchCounter = 0
    <3>1. q[p].branchCounter = 0 BY <1>4 DEF QueueInv, Retired
    <3> QED BY <1>4, <3>1 DEF Kept, Decrement
  <2>3. ASSUME NEW p \in DOMAIN w, w[p].state # "Normal" PROVE p = 1 /\ w[p].full /\ w[p].valid
    <3>1. p \in 1 .. NStoreQueue /\ q[p].state # "Normal" BY <1>2, <2>3
    <3>2. p = 1 /\ q[p].full /\ q[p].valid BY <1>2, <3>1 DEF QueueInv, Retired
    <3>3. p \in Pending(q) BY <1>1, <3>1, <3>2, InQueue
    <3>4. q[p].branchCounter = 0 BY <3>3 DEF QueueInv, Retired
    <3> QED BY <3>1, <3>2, <3>4 DEF Flushed
  <2> QED BY <2>1, <2>2, <2>3 DEF Retired
<1>6. QueueOrder(w, s)
  <2>1. ASSUME NEW p \in Queued(w)
        PROVE  \E i \in DOMAIN s : IsWrite(s[i].op) /\ Sent(s[i]) /\ Carries(w[p], s[i])
    <3>1. PICK i \in DOMAIN r : IsWrite(r[i].op) /\ Sent(r[i]) /\ Carries(q[p], r[i])
      BY <1>3 DEF QueueInv, QueueOrder
    <3> QED BY <1>3, <3>1, KeptTogether
  <2>2. ASSUME NEW p \in Queued(w), NEW k \in Queued(w), NEW i \in DOMAIN s, NEW j \in DOMAIN s,
               w[p].tag = s[i].tag, w[k].tag = s[j].tag
        PROVE  p < k <=> i < j
    <3>1. q[p].tag = r[i].tag /\ q[k].tag = r[j].tag BY <1>3, <2>2, LeftFields DEF Kept
    <3>2. i \in DOMAIN r /\ j \in DOMAIN r BY LeftFields
    <3> QED BY <1>3, <3>1, <3>2 DEF QueueInv, QueueOrder
  <2> QED BY <2>1, <2>2 DEF QueueOrder
<1>7. StoresThere(w, s, d)
  <2> SUFFICES ASSUME NEW i \in DOMAIN s, Sent(s[i]), IsWrite(s[i].op)
               PROVE  \/ \E p \in Queued(w) : w[p].tag = s[i].tag
                      \/ d.valid /\ d.tag = s[i].tag
    BY DEF StoresThere
  <2>1. /\ i \in DOMAIN r /\ s[i].tag = r[i].tag /\ s[i].op = r[i].op /\ Sent(r[i])
        /\ ~ Flushed(r[i], result)
    BY LeftFields
  <2>2. CASE \E p \in Queued(q) : q[p].tag = r[i].tag
    <3>1. PICK p \in Queued(q) : q[p].tag = r[i].tag BY <2>2
    <3>2. PICK j \in DOMAIN r : Carries(q[p], r[j]) BY DEF QueueInv, QueueOrder
    <3>3. j = i BY <2>1, <3>1, <3>2 DEF RobOrder, Carries
    <3>4. ~ Flushed(q[p], result) BY <2>1, <3>2, <3>3 DEF Flushed, Carries
    <3>5. p \in 1 .. NStoreQueue /\ q[p].full /\ ~ q[p].valid BY <1>1, InQueue
    <3>6. w[p].full /\ ~ w[p].valid /\ w[p].tag = q[p].tag BY <3>4, <3>5 DEF Kept
    <3>7. p \in Queued(w) BY <3>5, <3>6, InQueue
    <3> QED BY <2>1, <3>1, <3>6, <3>7
  <2>3. CASE c.valid /\ c.tag = r[i].tag
    <3>1. PICK j \in DOMAIN r : Carries(c, r[j]) BY <2>3 DEF QueueInv, LastSent
    <3>2. j = i BY <2>1, <2>3, <3>1 DEF RobOrder, Carries
    <3>3. ~ Flushed(c, result) BY <2>1, <3>1, <3>2 DEF Flushed, Carries
    <3> QED BY <2>1, <2>3, <3>3 DEF Kept
  <2> QED BY <2>1, <2>2, <2>3 DEF QueueInv, StoresThere
<1>8. LastSent(w, s, d)
  <2> SUFFICES ASSUME d.valid PROVE LastSent(w, s, d)
    BY DEF LastSent
  <2>0. c.valid /\ Kept(c, d, result) OBVIOUS
  <2>1. PICK i \in DOMAIN r : /\ IsMemory(r[i].op) /\ Sent(r[i]) /\ Carries(c, r[i])
                              /\ \A j \in DOMAIN r : j > i /\ IsMemory(r[j].op) => ~ Sent(r[j])
    BY <2>0 DEF QueueInv, LastSent
  <2>2. i \in DOMAIN s /\ Carries(d, s[i]) /\ s[i].op = r[i].op /\ Sent(s[i])
    BY <2>0, <2>1, KeptTogether
  <2>3. \A j \in DOMAIN s : j > i /\ IsMemory(s[j].op) => ~ Sent(s[j])
    BY <2>1, LeftFields
  <2>4. \A p \in Queued(w) : w[p].tag # d.tag
    BY <1>3, <2>0 DEF QueueInv, LastSent, Kept
  <2> QED BY <2>1, <2>2, <2>3, <2>4 DEF LastSent
<1> QED BY <1>5, <1>6, <1>7, <1>8 DEF QueueInv

\* Renumbering keeps the order.
LEMMA QueueRenumbered ==
  ASSUME NEW q, NEW r, NEW c, QueueInv(q, r, c), NEW w, NEW h, Renumbered(q, w, h)
  PROVE  QueueInv(w, r, c)
<1>1. q \in Queue /\ w \in Queue BY DEF QueueInv, Renumbered
<1>2. DOMAIN q = 1 .. NStoreQueue /\ DOMAIN w = 1 .. NStoreQueue
  BY <1>1, InQueue
<1>3. \A p \in 1 .. NStoreQueue : h[p] \in 1 .. NStoreQueue /\ w[p] = q[h[p]]
  BY DEF Renumbered
<1>4. ASSUME NEW p \in Full(w) PROVE p \in 1 .. NStoreQueue /\ h[p] \in Full(q) /\ w[p] = q[h[p]]
  <2>1. p \in 1 .. NStoreQueue /\ w[p].full BY <1>1, InQueue
  <2> QED BY <1>1, <1>3, <2>1, InQueue
<1>5. ASSUME NEW p \in Queued(w)
      PROVE  p \in Full(w) /\ h[p] \in Queued(q) /\ w[p] = q[h[p]]
  <2>1. p \in 1 .. NStoreQueue /\ w[p].full /\ ~ w[p].valid BY <1>1, InQueue
  <2> QED BY <1>1, <1>3, <2>1, InQueue
<1>6. ASSUME NEW p \in Pending(w)
      PROVE  p \in Full(w) /\ h[p] \in Pending(q) /\ w[p] = q[h[p]]
  <2>1. p \in 1 .. NStoreQueue /\ w[p].full /\ w[p].valid BY <1>1, InQueue
  <2> QED BY <1>1, <1>3, <2>1, InQueue
<1>7. ASSUME NEW p \in Full(w), NEW k \in Full(w) PROVE p < k <=> h[p] < h[k]
  <2>1. p \in 1 .. NStoreQueue /\ w[p].full /\ k \in 1 .. NStoreQueue /\ w[k].full
    BY <1>1, InQueue
  <2> QED BY <2>1 DEF Renumbered
<1>8. Retired(w)
  <2>1. ASSUME NEW p \in Full(w), NEW k \in Full(w), p < k, w[k].valid PROVE w[p].valid
    <3>1. h[p] < h[k] BY <1>7, <2>1
    <3> QED BY <1>4, <2>1, <3>1 DEF QueueInv, Retired
  <2>2. \A p \in Pending(w) : w[p].branchCounter = 0 BY <1>6 DEF QueueInv, Retired
  <2>3. ASSUME NEW p \in DOMAIN w, w[p].state # "Normal" PROVE p = 1 /\ w[p].full /\ w[p].valid
    <3>1. h[p] = 1 /\ q[1].full /\ q[1].valid
      BY <1>2, <1>3, <2>3 DEF QueueInv, Retired
    <3>2. p = 1 BY <1>2, <3>1, One DEF Renumbered
    <3> QED BY <1>2, <1>3, <3>1, <3>2
  <2> QED BY <2>1, <2>2, <2>3 DEF Retired
<1>9. QueueOrder(w, r)
  <2>1. \A p \in Queued(w) : \E i \in DOMAIN r :
          IsWrite(r[i].op) /\ Sent(r[i]) /\ Carries(w[p], r[i])
    BY <1>5 DEF QueueInv, QueueOrder
  <2>2. ASSUME NEW p \in Queued(w), NEW k \in Queued(w), NEW i \in DOMAIN r, NEW j \in DOMAIN r,
               w[p].tag = r[i].tag, w[k].tag = r[j].tag
        PROVE  p < k <=> i < j
    <3>1. h[p] < h[k] <=> i < j BY <1>5, <2>2 DEF QueueInv, QueueOrder
    <3> QED BY <1>5, <1>7, <3>1
  <2> QED BY <2>1, <2>2 DEF QueueOrder
<1>10. ASSUME NEW p \in Queued(q) PROVE \E k \in Queued(w) : w[k].tag = q[p].tag
  <2>1. p \in 1 .. NStoreQueue /\ q[p].full /\ ~ q[p].valid BY <1>1, InQueue
  <2>2. PICK k \in 1 .. NStoreQueue : h[k] = p BY <2>1 DEF Renumbered
  <2>3. w[k] = q[p] BY <1>3, <2>2
  <2>4. k \in Queued(w) BY <1>1, <2>1, <2>3, InQueue
  <2> QED BY <2>3, <2>4
<1>11. StoresThere(w, r, c) BY <1>10 DEF QueueInv, StoresThere
<1>12. LastSent(w, r, c) BY <1>5 DEF QueueInv, LastSent
<1> QED BY <1>1, <1>8, <1>9, <1>11, <1>12 DEF QueueInv

\* The store in the first stage becomes the newest of the queue.
LEMMA QueueAppended ==
  ASSUME NEW q, NEW r, NEW c, QueueInv(q, r, c), NEW b, RobOrder(r, b),
         c.valid, IsWrite(c.op), ~ q[NStoreQueue].full,
         NEW w \in Queue, \A p \in 1 .. NStoreQueue - 1 : w[p] = q[p],
         NEW e, w[NStoreQueue] = e, e.full, ~ e.valid, e.tag = c.tag, e.op = c.op,
         e.branchCounter = c.branchCounter, e.state = "Normal", NEW d, ~ d.valid
  PROVE  QueueInv(w, r, d)
<1> DEFINE N == NStoreQueue
<1>0. q \in Queue BY DEF QueueInv
<1>1. /\ DOMAIN q = 1 .. N /\ DOMAIN w = 1 .. N /\ N \in 1 .. N /\ N \in Nat
      /\ DOMAIN r = 1 .. Len(r) /\ DOMAIN r \subseteq Int
  BY <1>0, One, InQueue DEF RobOrder
<1>2. \A p \in 1 .. N : p # N => p < N /\ w[p] = q[p] BY <1>1
<1>3. ASSUME NEW p \in Full(w), p # N
      PROVE  p \in Full(q) /\ p \in 1 .. N /\ p < N /\ w[p] = q[p]
  <2>1. p \in 1 .. N /\ w[p].full BY InQueue
  <2> QED BY <1>0, <1>2, <1>3, <2>1, InQueue
<1>4. ASSUME NEW p \in Queued(w), p # N
      PROVE  p \in Queued(q) /\ p \in 1 .. N /\ p < N /\ w[p] = q[p]
  <2>1. p \in 1 .. N /\ w[p].full /\ ~ w[p].valid BY InQueue
  <2> QED BY <1>0, <1>2, <1>4, <2>1, InQueue
<1>5. ASSUME NEW p \in Pending(w) PROVE p # N /\ p \in Pending(q) /\ w[p] = q[p]
  <2>1. p \in 1 .. N /\ w[p].full /\ w[p].valid BY InQueue
  <2> QED BY <1>0, <1>2, <2>1, InQueue
<1>6. ASSUME NEW p \in Queued(q) PROVE p \in Queued(w) /\ p # N /\ w[p] = q[p]
  <2>1. p \in 1 .. N /\ q[p].full /\ ~ q[p].valid BY <1>0, InQueue
  <2>2. p # N BY <2>1
  <2>3. w[p] = q[p] BY <1>2, <2>1, <2>2
  <2>4. p \in Queued(w) BY <2>1, <2>3, InQueue
  <2> QED BY <2>2, <2>3, <2>4
<1>7. N \in Queued(w) BY <1>1, InQueue
<1>8. PICK l \in DOMAIN r : /\ IsMemory(r[l].op) /\ Sent(r[l]) /\ Carries(c, r[l])
                            /\ \A j \in DOMAIN r : j > l /\ IsMemory(r[j].op) => ~ Sent(r[j])
  BY DEF QueueInv, LastSent
<1>9. \A p \in Queued(q) : q[p].tag # c.tag BY DEF QueueInv, LastSent
<1>10. Retired(w)
  <2>1. ASSUME NEW p \in Full(w), NEW k \in Full(w), p < k, w[k].valid PROVE w[p].valid
    <3>1. k # N BY <2>1
    <3>2. p # N BY <1>1, <1>3, <2>1, <3>1
    <3> QED BY <1>3, <2>1, <3>1, <3>2 DEF QueueInv, Retired
  <2>2. \A p \in Pending(w) : w[p].branchCounter = 0 BY <1>5 DEF QueueInv, Retired
  <2>3. ASSUME NEW p \in DOMAIN w, w[p].state # "Normal" PROVE p = 1 /\ w[p].full /\ w[p].valid
    <3>1. p # N /\ p \in 1 .. N BY <1>1, <2>3
    <3> QED BY <1>1, <1>2, <2>3, <3>1 DEF QueueInv, Retired
  <2> QED BY <2>1, <2>2, <2>3 DEF Retired
<1>11. QueueOrder(w, r)
  <2>1. ASSUME NEW p \in Queued(w)
        PROVE  \E i \in DOMAIN r : IsWrite(r[i].op) /\ Sent(r[i]) /\ Carries(w[p], r[i])
    <3>1. CASE p = N
      <4>1. IsWrite(r[l].op)
        <5>1. r[l] \in RobEntry BY DEF RobOrder
        <5>2. r[l].op \in Operation BY <5>1, OperationsAre DEF RobEntry
        <5> QED BY <1>8, <5>2, CarriedIs DEF Carries
      <4>2. Carries(w[p], r[l]) BY <1>8, <3>1 DEF Carries
      <4> QED BY <1>8, <4>1, <4>2
    <3>2. CASE p # N BY <1>4, <3>2 DEF QueueInv, QueueOrder
    <3> QED BY <3>1, <3>2
  <2>2. ASSUME NEW p \in Queued(q), NEW i \in DOMAIN r, q[p].tag = r[i].tag PROVE i < l
    <3>1. PICK j \in DOMAIN r : IsWrite(r[j].op) /\ Sent(r[j]) /\ Carries(q[p], r[j])
      BY DEF QueueInv, QueueOrder
    <3>2. j = i BY <2>2, <3>1 DEF RobOrder, Carries
    <3>3. ~ (i > l) BY <1>8, <3>1, <3>2, WriteIsMemory
    <3>4. i # l BY <1>8, <1>9, <2>2 DEF Carries
    <3> QED BY <1>1, <3>3, <3>4
  <2>3. ASSUME NEW i \in DOMAIN r, c.tag = r[i].tag PROVE i = l
    BY <1>8, <2>3 DEF RobOrder, Carries
  <2>4. ASSUME NEW p \in Queued(w), NEW k \in Queued(w), NEW i \in DOMAIN r, NEW j \in DOMAIN r,
               w[p].tag = r[i].tag, w[k].tag = r[j].tag
        PROVE  p < k <=> i < j
    <3>1. CASE p = N /\ k = N
      <4>1. i = l /\ j = l BY <2>3, <2>4, <3>1
      <4> QED BY <1>1, <3>1, <4>1
    <3>2. CASE p = N /\ k # N
      <4>1. i = l /\ j < l BY <1>4, <2>2, <2>3, <2>4, <3>2
      <4>2. k < p /\ k \in 1 .. N BY <1>4, <3>2
      <4> QED BY <1>1, <3>2, <4>1, <4>2
    <3>3. CASE p # N /\ k = N
      <4>1. j = l /\ i < l BY <1>4, <2>2, <2>3, <2>4, <3>3
      <4>2. p < k BY <1>4, <3>3
      <4> QED BY <4>1, <4>2
    <3>4. CASE p # N /\ k # N
      <4>1. p \in Queued(q) /\ k \in Queued(q) /\ q[p].tag = r[i].tag /\ q[k].tag = r[j].tag
        BY <1>4, <2>4, <3>4
      <4> QED BY <4>1 DEF QueueInv, QueueOrder
    <3> QED BY <3>1, <3>2, <3>3, <3>4
  <2> QED BY <2>1, <2>4 DEF QueueOrder
<1>12. StoresThere(w, r, d)
  <2> SUFFICES ASSUME NEW i \in DOMAIN r, Sent(r[i]), IsWrite(r[i].op)
               PROVE  \E p \in Queued(w) : w[p].tag = r[i].tag
    BY DEF StoresThere
  <2>1. CASE \E p \in Queued(q) : q[p].tag = r[i].tag BY <1>6, <2>1
  <2>2. CASE c.tag = r[i].tag BY <1>7, <2>2
  <2> QED BY <2>1, <2>2 DEF QueueInv, StoresThere
<1>13. LastSent(w, r, d) BY DEF LastSent
<1> QED BY <1>10, <1>11, <1>12, <1>13 DEF QueueInv

\* What is not a store leaves the first stage.
LEMMA QueueUnsent ==
  ASSUME NEW q, NEW r, NEW c, QueueInv(q, r, c), NEW b, RobOrder(r, b), c.valid => ~ IsWrite(c.op),
         NEW d, ~ d.valid
  PROVE  QueueInv(q, r, d)
<1>1. LastSent(q, r, d) BY DEF LastSent
<1>2. StoresThere(q, r, d)
  <2> SUFFICES ASSUME NEW i \in DOMAIN r, Sent(r[i]), IsWrite(r[i].op),
                      c.valid, c.tag = r[i].tag
               PROVE  FALSE
    BY DEF StoresThere, QueueInv
  <2>1. PICK j \in DOMAIN r : Carries(c, r[j]) BY DEF QueueInv, LastSent
  <2>2. j = i BY <2>1 DEF RobOrder, Carries
  <2>3. r[i] \in RobEntry BY DEF RobOrder
  <2>4. r[i].op \in Operation BY <2>3, OperationsAre DEF RobEntry
  <2> QED BY <2>1, <2>2, <2>4, CarriedIs DEF Carries
<1> QED BY <1>1, <1>2 DEF QueueInv

\* The reorder buffer, when the dispatch unit sends entry k.
Sends(r, s, k) ==
  /\ r \in Seq(RobEntry) /\ s \in Seq(RobEntry) /\ Len(r) = Len(s)
  /\ \A i \in DOMAIN r :
       /\ s[i].tag = r[i].tag /\ s[i].op = r[i].op /\ s[i].branchCounter = r[i].branchCounter
       /\ IsMemory(r[i].op) => (Sent(s[i]) <=> Sent(r[i]) \/ i = k)

\* The dispatch unit sends the oldest instruction that waits, which keeps the order.
LEMMA OrderSent ==
  ASSUME NEW r, NEW b, RobOrder(r, b), NEW s, NEW k, Sends(r, s, k),
         \A j \in DOMAIN r : j < k /\ IsMemory(r[j].op) => Sent(r[j])
  PROVE  RobOrder(s, b)
<1>1. DOMAIN r = DOMAIN s /\ s \in Seq(RobEntry) BY DEF Sends
<1>2. \A i, j \in DOMAIN s : i < j /\ IsMemory(s[i].op) /\ IsMemory(s[j].op)
                             /\ Sent(s[j]) => Sent(s[i])
  BY <1>1 DEF Sends, RobOrder
<1> QED BY <1>1, <1>2 DEF Sends, RobOrder

\* A packet for the instruction that is sent makes up for it.
LEMMA QueueSent ==
  ASSUME NEW q, NEW r, NEW c, QueueInv(q, r, c), NEW b, RobOrder(r, b), ~ c.valid,
         NEW s, NEW k, Sends(r, s, k), NEW d,
         d.valid => /\ k \in DOMAIN r /\ ~ Sent(r[k]) /\ Carries(d, r[k])
                    /\ IsMemory(r[k].op),
         ~ d.valid => k \notin DOMAIN r
  PROVE  QueueInv(q, s, d)
<1>1. DOMAIN r = DOMAIN s BY DEF Sends
<1>2. QueueOrder(q, s)
  <2>1. \A p \in Queued(q) : \E i \in DOMAIN s :
          IsWrite(s[i].op) /\ Sent(s[i]) /\ Carries(q[p], s[i])
    BY <1>1, WriteIsMemory DEF QueueInv, QueueOrder, Sends, Carries
  <2>2. \A p, l \in Queued(q), i, j \in DOMAIN s :
          q[p].tag = s[i].tag /\ q[l].tag = s[j].tag => (p < l <=> i < j)
    BY <1>1 DEF QueueInv, QueueOrder, Sends
  <2> QED BY <2>1, <2>2 DEF QueueOrder
<1>3. StoresThere(q, s, d)
  <2> SUFFICES ASSUME NEW i \in DOMAIN s, Sent(s[i]), IsWrite(s[i].op)
               PROVE  \/ \E p \in Queued(q) : q[p].tag = s[i].tag
                      \/ d.valid /\ d.tag = s[i].tag
    BY DEF StoresThere
  <2>1. i \in DOMAIN r /\ r[i].tag = s[i].tag /\ r[i].op = s[i].op /\ (Sent(r[i]) \/ i = k)
    BY <1>1, WriteIsMemory DEF Sends
  <2>2. CASE Sent(r[i]) BY <2>1, <2>2 DEF QueueInv, StoresThere
  <2>3. CASE i = k BY <1>1, <2>1, <2>3 DEF Carries
  <2> QED BY <2>1, <2>2, <2>3
<1>4. LastSent(q, s, d)
  <2> SUFFICES ASSUME d.valid PROVE LastSent(q, s, d)
    BY DEF LastSent
  <2>1. k \in DOMAIN s /\ IsMemory(s[k].op) /\ Sent(s[k]) /\ Carries(d, s[k])
    BY <1>1 DEF Sends, Carries
  <2>2. ASSUME NEW j \in DOMAIN s, j > k, IsMemory(s[j].op), Sent(s[j]) PROVE FALSE
    <3>1. j \in DOMAIN r /\ IsMemory(r[j].op) BY <1>1, <2>2 DEF Sends
    <3>2. DOMAIN r \subseteq Int BY DEF Sends
    <3>3. j # k BY <1>1, <2>1, <2>2, <3>2
    <3>4. Sent(r[j]) BY <2>2, <3>1, <3>3 DEF Sends
    <3>5. k < j BY <1>1, <2>1, <2>2, <3>2
    <3> QED BY <3>1, <3>4, <3>5 DEF RobOrder
  <2>3. ASSUME NEW p \in Queued(q), q[p].tag = d.tag PROVE FALSE
    <3>1. PICK i \in DOMAIN r : Sent(r[i]) /\ Carries(q[p], r[i]) BY DEF QueueInv, QueueOrder
    <3>2. i = k BY <2>3, <3>1 DEF RobOrder, Carries
    <3> QED BY <3>1, <3>2
  <2> QED BY <2>1, <2>2, <2>3 DEF LastSent
<1> QED BY <1>2, <1>3, <1>4 DEF QueueInv

-----------------------------------------------------------------------------
\* Memory: what a sequence of operations leaves in it.

\* Memory, byte by byte, and the stores that have retired and are still in the queue.
InMemory == [DOMAIN Contents0 -> Byte]
Ops(q) == [p \in Pending(q) |-> q[p].op]

\* The operations of f that write byte x, and the last of them.
LastWriter(f, x, d) ==
  d \in DOMAIN f /\ Touches(f[d], x) /\ \A e \in DOMAIN f : Touches(f[e], x) => e <= d

\* What operations leave in a byte: what it held, or what the last writer put there.
LEMMA EffectsAre ==
  ASSUME NEW m, NEW f, NEW N \in Nat, DOMAIN f \subseteq 0 .. N, NEW x \in DOMAIN m
  PROVE  \/ /\ \A d \in DOMAIN f : ~ Touches(f[d], x)
            /\ Effects(m, f)[x] = m[x]
         \/ \E d \in DOMAIN f : LastWriter(f, x, d) /\ Effects(m, f)[x] = ByteOf(f[d], x)
<1> DEFINE writers == {i \in DOMAIN f : Touches(f[i], x)}
<1>1. Effects(m, f)[x] = IF writers = {} THEN m[x] ELSE ByteOf(f[Max(writers)], x)
  BY DEF Effects
<1>2. CASE writers = {} BY <1>1, <1>2
<1>3. CASE writers # {}
  <2>1. writers \in SUBSET (0 .. N) OBVIOUS
  <2>2. Max(writers) \in writers /\ \A y \in writers : y <= Max(writers)
    BY <1>3, <2>1, Greatest
  <2> DEFINE d == Max(writers)
  <2>3. d \in DOMAIN f /\ Touches(f[d], x) /\ \A e \in DOMAIN f : Touches(f[e], x) => e <= d
    BY <2>2
  <2> HIDE DEF d
  <2>4. LastWriter(f, x, d) BY <2>3 DEF LastWriter
  <2>5. Effects(m, f)[x] = ByteOf(f[d], x)
    <3> HIDE DEF writers
    <3> QED BY <1>1, <1>3 DEF d
  <2> QED BY <2>3, <2>4, <2>5
<1> QED BY <1>2, <1>3

\* There is only one last writer.
LEMMA EffectsLast ==
  ASSUME NEW m, NEW f, NEW N \in Nat, DOMAIN f \subseteq 0 .. N, NEW x \in DOMAIN m,
         NEW d, LastWriter(f, x, d)
  PROVE  Effects(m, f)[x] = ByteOf(f[d], x)
<1>1. PICK e \in DOMAIN f : LastWriter(f, x, e) /\ Effects(m, f)[x] = ByteOf(f[e], x)
  BY EffectsAre DEF LastWriter
<1>2. e <= d /\ d <= e BY <1>1 DEF LastWriter
<1>3. d \in Nat /\ e \in Nat BY DEF LastWriter
<1>4. d = e BY <1>2, <1>3
<1> QED BY <1>1, <1>4

\* A byte that none of the operations writes.
LEMMA EffectsNone ==
  ASSUME NEW m, NEW f, NEW N \in Nat, DOMAIN f \subseteq 0 .. N, NEW x \in DOMAIN m,
         \A d \in DOMAIN f : ~ Touches(f[d], x)
  PROVE  Effects(m, f)[x] = m[x]
BY EffectsAre DEF LastWriter

\* Operations change no addresses.
LEMMA EffectsDomain ==
  ASSUME NEW m, NEW f
  PROVE  /\ DOMAIN Effects(m, f) = DOMAIN m
         /\ Effects(m, f) = [x \in DOMAIN m |-> Effects(m, f)[x]]
<1> DEFINE g(x) == LET writers == {i \in DOMAIN f : Touches(f[i], x)}
                   IN  IF writers = {} THEN m[x] ELSE ByteOf(f[Max(writers)], x)
<1>1. Effects(m, f) = [x \in DOMAIN m |-> g(x)] BY DEF Effects
<1> HIDE DEF g
<1> QED BY <1>1

\* The pending operations are numbered by their places in the queue.
LEMMA PendingRange ==
  ASSUME NEW q \in Queue
  PROVE  /\ DOMAIN Ops(q) = Pending(q) /\ NStoreQueue \in Nat
         /\ DOMAIN Ops(q) \subseteq 0 .. NStoreQueue
         /\ \A p \in Pending(q) : Ops(q)[p] = q[p].op /\ p \in 1 .. NStoreQueue
  BY InQueue, One DEF Ops

\* One more operation after all others.
LEMMA EffectsMore ==
  ASSUME NEW m, NEW f, NEW g, NEW N \in Nat, DOMAIN g \subseteq 0 .. N, NEW p \in DOMAIN g,
         DOMAIN f = DOMAIN g \ {p}, \A d \in DOMAIN f : f[d] = g[d] /\ d < p
  PROVE  Effects(m, g) = Effect(Effects(m, f), g[p])
<1>1. DOMAIN f \subseteq 0 .. N /\ DOMAIN g \subseteq Nat OBVIOUS
<1>2. ASSUME NEW x \in DOMAIN m
      PROVE  Effects(m, g)[x] = IF Touches(g[p], x) THEN ByteOf(g[p], x) ELSE Effects(m, f)[x]
  <2>1. CASE Touches(g[p], x)
    <3>1. \A e \in DOMAIN g : e <= p
      <4> SUFFICES ASSUME NEW e \in DOMAIN g PROVE e <= p
        OBVIOUS
      <4>1. e \in Nat /\ p \in Nat BY <1>1
      <4> QED BY <4>1
    <3>2. LastWriter(g, x, p) BY <2>1, <3>1 DEF LastWriter
    <3> QED BY <2>1, <3>2, EffectsLast
  <2>2. CASE ~ Touches(g[p], x)
    <3>1. CASE \A d \in DOMAIN f : ~ Touches(f[d], x)
      <4>1. \A d \in DOMAIN g : ~ Touches(g[d], x) BY <2>2, <3>1
      <4> QED BY <1>1, <2>2, <3>1, <4>1, EffectsNone
    <3>2. CASE \E d \in DOMAIN f : Touches(f[d], x)
      <4>1. PICK d \in DOMAIN f : LastWriter(f, x, d) /\ Effects(m, f)[x] = ByteOf(f[d], x)
        BY <1>1, <3>2, EffectsAre
      <4>2. LastWriter(g, x, d) BY <2>2, <4>1 DEF LastWriter
      <4> QED BY <2>2, <4>1, <4>2, EffectsLast
    <3> QED BY <3>1, <3>2
  <2> QED BY <2>1, <2>2
<1>3. Effect(Effects(m, f), g[p]) =
        [x \in DOMAIN m |-> IF Touches(g[p], x) THEN ByteOf(g[p], x) ELSE Effects(m, f)[x]]
  BY EffectsDomain DEF Effect
<1>4. Effects(m, g) = [x \in DOMAIN m |-> Effects(m, g)[x]] BY EffectsDomain
<1> QED BY <1>2, <1>3, <1>4

\* The first operation takes effect.
LEMMA EffectsFirst ==
  ASSUME NEW m, NEW k, NEW f, NEW g, NEW N \in Nat, DOMAIN f \subseteq 0 .. N, NEW p \in DOMAIN f,
         DOMAIN g = DOMAIN f \ {p}, \A d \in DOMAIN g : f[d] = g[d] /\ p < d,
         DOMAIN k = DOMAIN m,
         \A x \in DOMAIN m : k[x] = IF Touches(f[p], x) THEN ByteOf(f[p], x) ELSE m[x]
  PROVE  Effects(k, g) = Effects(m, f)
<1>1. DOMAIN g \subseteq 0 .. N /\ DOMAIN f \subseteq Nat OBVIOUS
<1>2. ASSUME NEW x \in DOMAIN m PROVE Effects(k, g)[x] = Effects(m, f)[x]
  <2>1. CASE \E d \in DOMAIN g : Touches(g[d], x)
    <3>1. PICK d \in DOMAIN g : LastWriter(g, x, d) /\ Effects(k, g)[x] = ByteOf(g[d], x)
      BY <1>1, <2>1, EffectsAre
    <3>2. p <= d
      <4>1. p \in Nat /\ d \in Nat /\ p < d BY <1>1
      <4> QED BY <4>1
    <3>3. LastWriter(f, x, d) BY <3>1, <3>2 DEF LastWriter
    <3> QED BY <3>1, <3>3, EffectsLast
  <2>2. CASE \A d \in DOMAIN g : ~ Touches(g[d], x)
    <3>1. Effects(k, g)[x] = k[x] BY <1>1, <2>2, EffectsNone
    <3>2. CASE Touches(f[p], x)
      <4>1. p <= p BY <1>1
      <4>2. LastWriter(f, x, p) BY <2>2, <3>2, <4>1 DEF LastWriter
      <4> QED BY <3>1, <3>2, <4>2, EffectsLast
    <3>3. CASE ~ Touches(f[p], x)
      <4>1. \A d \in DOMAIN f : ~ Touches(f[d], x) BY <2>2, <3>3
      <4> QED BY <3>1, <3>3, <4>1, EffectsNone
    <3> QED BY <3>2, <3>3
  <2> QED BY <2>1, <2>2
<1>3. Effects(k, g) = [x \in DOMAIN m |-> Effects(k, g)[x]] BY EffectsDomain
<1>4. Effects(m, f) = [x \in DOMAIN m |-> Effects(m, f)[x]] BY EffectsDomain
<1> QED BY <1>2, <1>3, <1>4

\* Bytes that one of the operations writes do not matter.
LEMMA EffectsCovered ==
  ASSUME NEW m, NEW k, NEW f, NEW N \in Nat, DOMAIN f \subseteq 0 .. N, NEW p \in DOMAIN f,
         DOMAIN k = DOMAIN m,
         \A x \in DOMAIN m : Touches(f[p], x) \/ k[x] = m[x]
  PROVE  Effects(k, f) = Effects(m, f)
<1>2. ASSUME NEW x \in DOMAIN m PROVE Effects(k, f)[x] = Effects(m, f)[x]
  <2>1. CASE \E d \in DOMAIN f : Touches(f[d], x)
    <3>1. PICK d \in DOMAIN f : LastWriter(f, x, d) /\ Effects(k, f)[x] = ByteOf(f[d], x)
      BY <2>1, EffectsAre
    <3> QED BY <3>1, EffectsLast
  <2>2. CASE \A d \in DOMAIN f : ~ Touches(f[d], x) BY <2>2, EffectsNone
  <2> QED BY <2>1, <2>2
<1>3. Effects(k, f) = [x \in DOMAIN m |-> Effects(k, f)[x]] BY EffectsDomain
<1>4. Effects(m, f) = [x \in DOMAIN m |-> Effects(m, f)[x]] BY EffectsDomain
<1> QED BY <1>2, <1>3, <1>4

\* Only the order of the operations matters.
LEMMA EffectsRenumbered ==
  ASSUME NEW m, NEW f, NEW g, NEW N \in Nat, DOMAIN f \subseteq 0 .. N, DOMAIN g \subseteq 0 .. N,
         NEW h, \A d \in DOMAIN g : h[d] \in DOMAIN f /\ g[d] = f[h[d]],
         \A d \in DOMAIN f : \E e \in DOMAIN g : h[e] = d,
         \A d, e \in DOMAIN g : d < e <=> h[d] < h[e]
  PROVE  Effects(m, g) = Effects(m, f)
<1>2. ASSUME NEW x \in DOMAIN m PROVE Effects(m, g)[x] = Effects(m, f)[x]
  <2>1. CASE \E d \in DOMAIN g : Touches(g[d], x)
    <3>1. PICK d \in DOMAIN g : LastWriter(g, x, d) /\ Effects(m, g)[x] = ByteOf(g[d], x)
      BY <2>1, EffectsAre
    <3>2. ASSUME NEW c \in DOMAIN f, Touches(f[c], x) PROVE c <= h[d]
      <4>1. PICK e \in DOMAIN g : h[e] = c OBVIOUS
      <4>2. Touches(g[e], x) BY <3>2, <4>1
      <4>3. e <= d BY <3>1, <4>2 DEF LastWriter
      <4>4. ~ (d < e) /\ e \in Nat /\ d \in Nat BY <4>3
      <4>5. ~ (h[d] < h[e]) BY <4>4
      <4>6. h[d] \in Nat /\ h[e] \in Nat BY <4>1
      <4> QED BY <4>1, <4>5, <4>6
    <3>3. LastWriter(f, x, h[d]) BY <3>1, <3>2 DEF LastWriter
    <3>4. Effects(m, f)[x] = ByteOf(f[h[d]], x) BY <3>3, EffectsLast
    <3> QED BY <3>1, <3>4
  <2>2. CASE \A d \in DOMAIN g : ~ Touches(g[d], x)
    <3>1. \A d \in DOMAIN f : ~ Touches(f[d], x) BY <2>2
    <3> QED BY <2>2, <3>1, EffectsNone
  <2> QED BY <2>1, <2>2
<1>3. Effects(m, g) = [x \in DOMAIN m |-> Effects(m, g)[x]] BY EffectsDomain
<1>4. Effects(m, f) = [x \in DOMAIN m |-> Effects(m, f)[x]] BY EffectsDomain
<1> QED BY <1>2, <1>3, <1>4

-----------------------------------------------------------------------------
\* The requests of loads and stores to the cache.

\* A store of a program has as many bytes as its size says.
Sound(o) == o \in Operation /\ (o.kind = "Store" => Len(o.data) = o.size)

\* No single precision store crosses a line.
WholeSingles == \A o \in Operations : o.single => ~ Crosses(o)

\* A dcbz names the first byte of its line.
AlignedZeros == \A o \in Operations : o.kind = "Zero" => o.addr % LineSize = 0

\* The unit writes the same bytes as the instruction it carries.
LEMMA SoundOperations ==
  ASSUME NEW o \in Operations
  PROVE  /\ Sound(o) /\ Sound(Carried(o))
         /\ \A x : Touches(Carried(o), x) <=> Touches(o, x)
         /\ \A x : ByteOf(Carried(o), x) = ByteOf(o, x)
         /\ o.kind # "Zero" => Carried(o) = o
<1>1. o \in Operation /\ Sound(o) BY OperationsAssumption DEF Sound
<1>2. Sound(Carried(o)) BY <1>1, CarriedIs DEF Sound
<1>3. \A x : Touches(Carried(o), x) <=> Touches(o, x)
  BY <1>1, CarriedIs DEF Touches
<1>4. \A x : ByteOf(Carried(o), x) = ByteOf(o, x) BY <1>1, CarriedIs DEF ByteOf
<1> QED BY <1>1, <1>2, <1>3, <1>4 DEF Carried

\* An access that crosses a line has two parts that are not empty.
LEMMA Parts ==
  ASSUME NEW o \in Operation
  PROVE  /\ FirstPart(o) \in 1 .. LineSize /\ Crosses(o) \in BOOLEAN
         /\ Crosses(o) => FirstPart(o) \in 1 .. o.size - 1
<1>1. o.addr \in Nat /\ o.size \in Nat BY DEF Operation
<1>2. o.addr % LineSize \in 0 .. LineSize - 1 /\ LineSize \in Nat
  BY <1>1, LoadStoreAssumption
<1>3. FirstPart(o) \in 1 .. LineSize BY <1>2 DEF FirstPart
<1> QED BY <1>1, <1>3 DEF Crosses

\* What a request of a store writes.
InPart(o, state, x) ==
  /\ state = "Msb" => x < o.addr + FirstPart(o)
  /\ state = "Lsb" => x >= o.addr + FirstPart(o)

\* The request of a store writes the bytes of its part, as the store does.
LEMMA RequestWrites ==
  ASSUME NEW o, Sound(o), IsWrite(o), NEW state \in Halfway, state = StateOf(o, state),
         state # "Normal" => Crosses(o) /\ o.kind = "Store",
         o.kind = "Store" => ~ (o.single /\ Crosses(o)), NEW x \in Nat
  PROVE  LET request == RequestOf(o, state)
         IN  /\ request.req /\ request.kind = o.kind
             /\ Touches(request, x) <=> Touches(o, x) /\ InPart(o, state, x)
             /\ Touches(request, x) => ByteOf(request, x) = ByteOf(o, x)
<1> DEFINE request == RequestOf(o, state)
           from == IF state = "Lsb" THEN FirstPart(o) ELSE 0
           size == IF state = "Msb" THEN FirstPart(o) ELSE o.size - from
<1>1. /\ o \in Operation /\ o.addr \in Nat /\ o.size \in Nat \ {0}
      /\ o.data \in Seq(Byte) /\ (o.kind = "Store" => Len(o.data) = o.size)
  BY DEF Sound, Operation
<1>2. FirstPart(o) \in 1 .. LineSize /\ (Crosses(o) => FirstPart(o) \in 1 .. o.size - 1)
  BY <1>1, Parts
<1>3. from \in 0 .. o.size /\ size \in 0 .. o.size /\ from + size <= o.size
      /\ (state = "Normal" => size = o.size /\ from = 0)
      /\ (state = "Msb" => from = 0 /\ size = FirstPart(o))
      /\ (state = "Lsb" => from = FirstPart(o) /\ size = o.size - FirstPart(o))
  BY <1>1, <1>2 DEF Halfway
<1>4. /\ request.req /\ request.kind = o.kind /\ request.addr = o.addr + from /\ request.size = size
      /\ o.kind = "Store" => request.data = SubSeq(o.data, from + 1, from + size)
  BY DEF RequestOf
<1> HIDE DEF request, from, size
<1>5. CASE o.kind = "Zero"
  <2>1. state = "Normal" BY <1>5
  <2>2. request.kind = "Zero" /\ request.addr = o.addr BY <1>1, <1>3, <1>4, <1>5, <2>1
  <2>3. Touches(request, x) <=> Touches(o, x) BY <1>5, <2>2 DEF Touches
  <2>4. ByteOf(request, x) = ByteOf(o, x) BY <1>5, <2>2 DEF ByteOf
  <2>5. InPart(o, state, x) BY <2>1 DEF InPart
  <2> QED BY <1>4, <2>3, <2>4, <2>5 DEF request
<1>6. CASE o.kind = "Store"
  <2>1. Touches(request, x) <=> x \in o.addr + from .. o.addr + from + size - 1
    BY <1>4, <1>6 DEF Touches
  <2>2. Touches(o, x) <=> x \in o.addr .. o.addr + o.size - 1 BY <1>6 DEF Touches
  <2>3. Touches(request, x) <=> Touches(o, x) /\ InPart(o, state, x)
    <3>1. CASE state = "Normal" BY <1>1, <1>3, <2>1, <2>2, <3>1 DEF InPart
    <3>2. CASE state = "Msb"
      <4>1. Crosses(o) /\ from = 0 /\ size = FirstPart(o) BY <1>3, <3>2
      <4>2. FirstPart(o) \in 1 .. o.size - 1 BY <1>2, <4>1
      <4>3. InPart(o, state, x) <=> x < o.addr + FirstPart(o) BY <3>2 DEF InPart
      <4> QED BY <1>1, <2>1, <2>2, <4>1, <4>2, <4>3
    <3>3. CASE state = "Lsb"
      <4>1. Crosses(o) /\ from = FirstPart(o) /\ size = o.size - FirstPart(o) BY <1>3, <3>3
      <4>2. FirstPart(o) \in 1 .. o.size - 1 BY <1>2, <4>1
      <4>3. InPart(o, state, x) <=> x >= o.addr + FirstPart(o) BY <3>3 DEF InPart
      <4> QED BY <1>1, <2>1, <2>2, <4>1, <4>2, <4>3
    <3> QED BY <3>1, <3>2, <3>3 DEF Halfway
  <2>4. ASSUME Touches(request, x) PROVE ByteOf(request, x) = ByteOf(o, x)
    <3>1. x \in o.addr + from .. o.addr + from + size - 1 BY <2>1, <2>4
    <3>2. PICK k \in 1 .. size : k = x - (o.addr + from) + 1 BY <1>1, <1>3, <3>1
    <3>3. ByteOf(request, x) = SubSeq(o.data, from + 1, from + size)[k]
      BY <1>4, <1>6, <3>2 DEF ByteOf
    <3>4. SubSeq(o.data, from + 1, from + size)[k] = o.data[from + k]
      <4>1. o.data \in Seq(Byte) /\ from + 1 \in Nat /\ from + size <= Len(o.data)
            /\ from \in Nat /\ size \in Nat /\ 1 <= from + 1
        BY <1>1, <1>3, <1>6
      <4>2. k \in Nat /\ 1 <= k /\ k <= size /\ (from + 1) + k - 1 = from + k BY <3>2, <4>1
      <4>3. (from + size) - (from + 1) + 1 = size BY <4>1
      <4>4. \A s \in Seq(Byte), a, b \in Nat : 1 <= a /\ b <= Len(s) =>
              \A l \in 1 .. b - a + 1 : SubSeq(s, a, b)[l] = s[a + l - 1]
        OBVIOUS
      <4>5. from + size \in Nat /\ k \in 1 .. (from + size) - (from + 1) + 1 BY <4>1, <4>2, <4>3
      <4>6. SubSeq(o.data, from + 1, from + size)[k] = o.data[(from + 1) + k - 1]
        BY <4>1, <4>4, <4>5
      <4> QED BY <4>2, <4>6
    <3>5. from + k = x - o.addr + 1 BY <1>1, <1>3, <3>2
    <3> QED BY <1>6, <3>3, <3>4, <3>5 DEF ByteOf
  <2> QED BY <1>4, <2>3, <2>4 DEF request
<1> QED BY <1>5, <1>6 DEF IsWrite

\* What a request of a load reads.
LEMMA RequestReads ==
  ASSUME NEW o \in Operation, o.kind = "Load", NEW state
  PROVE  LET request == RequestOf(o, state)
         IN  /\ request.req /\ request.kind = "Load" /\ \A x : ~ Touches(request, x)
             /\ request.addr = IF state = "Lsb" THEN o.addr + FirstPart(o) ELSE o.addr
             /\ request.size = IF state = "Lsb" THEN o.size - FirstPart(o)
                               ELSE IF state = "Msb" THEN FirstPart(o) ELSE o.size
<1>1. o.addr \in Nat /\ o.size \in Nat BY DEF Operation
<1>2. o.addr + 0 = o.addr /\ o.size - 0 = o.size BY <1>1
<1> QED BY <1>2 DEF RequestOf, Touches

\* An access that shares no byte with a store, or with the line of a dcbz, is not
\* touched by it.
LEMMA ApartUntouched ==
  ASSUME NEW o, Sound(o), NEW e, e.op \in Operation, ~ Overlaps(e, o),
         e.op.kind = "Zero" => e.op.addr % LineSize = 0 /\ e.op.size = LineSize,
         NEW x \in o.addr .. o.addr + o.size - 1
  PROVE  ~ Touches(e.op, x)
<1>1. /\ o.addr \in Nat /\ o.size \in Nat /\ e.op.addr \in Nat /\ e.op.size \in Nat \ {0}
      /\ LineSize \in Nat \ {0}
  BY LoadStoreAssumption DEF Sound, Operation
<1>2. ~ (x \in e.op.addr .. e.op.addr + e.op.size - 1) BY <1>1 DEF Overlaps
<1>3. ASSUME e.op.kind = "Zero", Line(x) = Line(e.op.addr) PROVE FALSE
  <2> DEFINE a == e.op.addr
  <2>1. x \in Nat BY <1>1
  <2>2. x = LineSize * (x \div LineSize) + (x % LineSize) /\ x % LineSize \in 0 .. LineSize - 1
    BY <1>1, <2>1
  <2>3. a = LineSize * (a \div LineSize) + (a % LineSize) /\ a % LineSize = 0
    <3>1. a \in Nat BY <1>1
    <3> HIDE DEF a
    <3>2. a = LineSize * (a \div LineSize) + (a % LineSize) BY <1>1, <3>1
    <3> QED BY <1>3, <3>2 DEF a
  <2>4. x \div LineSize = a \div LineSize BY <1>3 DEF Line
  <2>5. x = a + (x % LineSize)
    <3>1. PICK y : y = LineSize * (a \div LineSize) OBVIOUS
    <3>2. a = y + (a % LineSize) /\ x = y + (x % LineSize) BY <2>2, <2>3, <2>4, <3>1
    <3>3. a \in Nat /\ x \in Nat /\ y \in Int BY <1>1, <2>1, <3>1
    <3> QED BY <2>2, <2>3, <3>2, <3>3
  <2>6. x \in a .. a + LineSize - 1 BY <1>1, <2>1, <2>2, <2>5
  <2> QED BY <1>2, <1>3, <2>6
<1> QED BY <1>2, <1>3 DEF Touches

-----------------------------------------------------------------------------
\* The invariant of the unit, and how each part of an edge keeps it.

\* The operations as the unit carries them.
CarriedOperations == {Carried(o) : o \in Operations}

\* The queue holds stores of the program.
Origins(q) == \A p \in Full(q) : IsWrite(q[p].op) /\ q[p].op \in CarriedOperations

\* A load is only on its way, as c, when the unit has none.
LoadAlone(u, c) == c.valid /\ ~ IsWrite(c.op) => ~ u.load.valid /\ ~ u.loadWaiting

\* The request to the cache is that of the load or of the first store, whichever waits; only
\* an access that crosses a line is ever half done.
Asks(u) ==
  /\ u.storeWaiting =>
       /\ ~ u.loadWaiting /\ u.storeQueue[1].full /\ u.storeQueue[1].valid
       /\ u.storeQueue[1].state = StateOf(u.storeQueue[1].op, u.storeQueue[1].state)
       /\ u.dcache = RequestOf(u.storeQueue[1].op, u.storeQueue[1].state)
  /\ u.loadWaiting => /\ u.dcache.kind = "Load" /\ u.dcache.req
                      /\ u.load.valid => /\ u.load.state = StateOf(u.load.op, u.load.state)
                                         /\ u.dcache = RequestOf(u.load.op, u.load.state)
  /\ ~ u.storeWaiting => u.storeQueue[1].state # "Msb"
  /\ ~ u.loadWaiting => u.load.state # "Msb"
  /\ ~ u.storeWaiting /\ ~ u.loadWaiting => ~ u.dcache.req
  /\ u.storeQueue[1].state # "Normal" => Crosses(u.storeQueue[1].op) /\ u.storeQueue[1].op.kind = "Store"
  /\ u.load.valid /\ u.load.state # "Normal" => Crosses(u.load.op)

\* The store e is older than the load with tag t: it has retired, or comes before it.
IsOlder(e, r, t) ==
  e.valid \/ \E i, j \in DOMAIN r : r[i].tag = t /\ r[j].tag = e.tag /\ j < i

\* The load waits for every older store that it overlaps.
Depends(u, r) == u.load.valid =>
  \A p \in 1 .. NStoreQueue :
    LET e == u.storeQueue[p]
    IN  e.full /\ IsOlder(e, r, u.load.tag) /\ Overlaps(e, u.load.op) =>
          e.dependentLoadTag = u.load.tag /\ ~ u.loadWaiting /\ u.load.state = "Normal"

\* The load holds the first part once it has been answered.  a: the cache answers in this
\* cycle.
Halves(u, m, a) ==
  u.load.valid /\ ~ (a /\ u.loadWaiting /\ u.load.state # "Msb") =>
    u.load.data = IF u.load.state = "Lsb" \/ (u.load.state = "Msb" /\ a)
                  THEN Bytes(m, u.load.op.addr, FirstPart(u.load.op)) ELSE <<>>

\* The program's memory ct is what the cache has, m, after the stores that have retired; the
\* cache has the first part of a store that is half done.
Memory(q, m, ct) ==
  /\ m \in InMemory /\ ct = Effects(m, Ops(q))
  /\ q[1].state = "Lsb" =>
       \A x \in DOMAIN m : Touches(q[1].op, x) /\ x < q[1].op.addr + FirstPart(q[1].op)
                           => m[x] = ByteOf(q[1].op, x)

\* The unit u, when c is in its first stage or on its way there, r is the reorder buffer, a
\* tells whether the cache answers in this cycle, m is what the cache has and ct what the
\* program has.
Core(u, r, c, a, m, ct) ==
  /\ Typed(u) /\ c \in Packet
  /\ QueueInv(u.storeQueue, r, c) /\ LoadThere(u.load, r) /\ LoadAlone(u, c)
  /\ Asks(u) /\ Origins(u.storeQueue) /\ Depends(u, r)
  /\ WholeSingles => Memory(u.storeQueue, m, ct)
  /\ WholeSingles /\ AlignedZeros => Halves(u, m, a)

\* A request for the cache is on the way when there is one to make.
Started(u) ==
  ~ u.loadWaiting /\ ~ u.storeWaiting => ~ (u.storeQueue[1].full /\ u.storeQueue[1].valid)

\* The operations as the unit carries them.
LEMMA CarriedAre ==
  ASSUME NEW o \in CarriedOperations
  PROVE  /\ o \in Operation /\ Sound(o)
         /\ WholeSingles => (o.kind = "Store" => ~ (o.single /\ Crosses(o)))
         /\ AlignedZeros => (o.kind = "Zero" => o.addr % LineSize = 0)
         /\ o.kind = "Zero" => o.size = LineSize
<1>1. PICK z \in Operations : o = Carried(z) BY DEF CarriedOperations
<1>2. z \in Operation BY OperationsAre
<1>3. Sound(o) /\ o \in Operation BY <1>1, SoundOperations DEF Sound
<1>4. CASE z.kind = "Zero"
  <2>1. o.kind = "Zero" /\ o.addr = z.addr /\ o.size = LineSize BY <1>1, <1>2, <1>4, CarriedIs
  <2> QED BY <1>3, <1>4, <2>1 DEF AlignedZeros
<1>5. CASE z.kind # "Zero"
  <2>1. o = z BY <1>1, <1>5, SoundOperations
  <2> QED BY <1>3, <1>5, <2>1 DEF WholeSingles, AlignedZeros
<1> QED BY <1>4, <1>5

\* An entry of the queue has the same fields, except for its state.
LEMMA AlikeFields ==
  ASSUME NEW q \in Queue, NEW w, Alike(q, w), Origins(q)
  PROVE  Origins(w) /\ Ops(w) = Ops(q) /\ Full(w) = Full(q) /\ Pending(w) = Pending(q)
<1>1. w \in Queue /\ \A p \in 1 .. NStoreQueue : w[p].full = q[p].full /\ w[p].valid = q[p].valid
                                              /\ w[p].op = q[p].op
  BY DEF Alike
<1>2. Full(w) = Full(q) /\ Pending(w) = Pending(q) BY <1>1, SameQueued
<1>3. Full(q) \subseteq 1 .. NStoreQueue /\ Pending(q) \subseteq 1 .. NStoreQueue BY InQueue
<1> QED BY <1>1, <1>2, <1>3 DEF Origins, Ops

\* OnFrontEdge() keeps the invariant, and starts what can start.
LEMMA CoreFrontEdge ==
  ASSUME NEW u, NEW r, NEW d \in Packet, NEW m, NEW ct, ~ u.stage1.valid,
         Core(u, r, [d EXCEPT !.op = Carried(@)], FALSE, m, ct),
         NEW v, v = OnFrontEdge(u, d)
  PROVE  Core(v, r, v.stage1, FALSE, m, ct) /\ Started(v)
<1>0. PICK c : c = [d EXCEPT !.op = Carried(@)] OBVIOUS
<1> DEFINE q == u.storeQueue
           w == v.storeQueue
<1>1. Core(u, r, c, FALSE, m, ct) BY <1>0
<1>2. /\ Typed(u) /\ QueueInv(q, r, c) /\ LoadThere(u.load, r) /\ LoadAlone(u, c)
      /\ Asks(u) /\ Origins(q) /\ Depends(u, r) /\ c \in Packet
  BY <1>1 DEF Core
<1>2a. Typed(u) BY <1>2
<1>2b. /\ Typed(v) /\ LoadKept(u, v) /\ Asked(u, v) /\ Alike(q, w)
       /\ v.stage1 = IF d.valid THEN [d EXCEPT !.op = Carried(@)] ELSE u.stage1
  BY <1>2a, FrontEdgeStep
<1>3. /\ Typed(v) /\ Alike(q, w)
      /\ v.load.valid = u.load.valid /\ v.load.op = u.load.op /\ v.load.tag = u.load.tag
      /\ v.load.branchCounter = u.load.branchCounter /\ v.load.data = u.load.data
      /\ v.stage1 = IF d.valid THEN c ELSE u.stage1
  BY <1>0, <1>2b DEF LoadKept
<1>4. \/ /\ u.loadWaiting \/ u.storeWaiting
         /\ v.loadWaiting = u.loadWaiting /\ v.storeWaiting = u.storeWaiting
         /\ v.load.state = u.load.state /\ w = q /\ v.dcache = u.dcache
      \/ /\ ~ u.loadWaiting /\ ~ u.storeWaiting /\ MayLoad(u)
         /\ v.loadWaiting /\ ~ v.storeWaiting
         /\ v.load.state = StateOf(u.load.op, u.load.state) /\ w = q
         /\ v.dcache = RequestOf(u.load.op, v.load.state)
      \/ /\ ~ u.loadWaiting /\ ~ u.storeWaiting /\ ~ MayLoad(u)
         /\ q[1].full /\ q[1].valid
         /\ ~ v.loadWaiting /\ v.storeWaiting /\ v.load.state = u.load.state
         /\ w[1].state = StateOf(q[1].op, q[1].state)
         /\ v.dcache = RequestOf(q[1].op, w[1].state)
      \/ /\ ~ u.loadWaiting /\ ~ u.storeWaiting /\ ~ MayLoad(u)
         /\ ~ (q[1].full /\ q[1].valid)
         /\ ~ v.loadWaiting /\ ~ v.storeWaiting /\ v.load.state = u.load.state
         /\ w = q /\ v.dcache = u.dcache
  BY <1>2b DEF Asked
<1> HIDE DEF q, w
<1>5. q \in Queue /\ w \in Queue /\ c.valid = d.valid
  <2>1. q \in Queue BY <1>2 DEF QueueInv
  <2>2. w \in Queue BY <1>3 DEF Alike
  <2>3. c.valid = d.valid BY <1>0, SentIs
  <2> QED BY <2>1, <2>2, <2>3
<1>6. PICK e : e = v.stage1 OBVIOUS
<1>7. e.valid <=> c.valid BY <1>3, <1>5, <1>6
<1>8. e.valid => e = c BY <1>3, <1>5, <1>6
<1>9. QueueInv(q, r, e)
  BY <1>2, <1>7, <1>8 DEF QueueInv, StoresThere, LastSent
<1>10. QueueInv(w, r, e)
  <2>1. Retired(q) BY <1>2 DEF QueueInv
  <2>2. \A p \in DOMAIN q : q[p].state # "Normal" => p = 1 /\ q[p].full /\ q[p].valid
    BY <2>1 DEF Retired
  <2>3. DOMAIN q = 1 .. NStoreQueue BY <1>5, InQueue
  <2>4. w[1].state # "Normal" => q[1].full /\ q[1].valid BY <1>4, <2>2, <2>3, One
  <2> QED BY <1>3, <1>9, <2>4, QueueAlike
<1>11. LoadThere(v.load, r) BY <1>2, <1>3 DEF LoadThere, Carries
<1>12. LoadAlone(v, e) BY <1>2, <1>3, <1>4, <1>7, <1>8 DEF LoadAlone, MayLoad
<1>13. u.load.valid => u.load.op.kind = "Load"
  <2>1. ASSUME u.load.valid PROVE u.load.op.kind = "Load"
    <3>1. PICK i \in DOMAIN r : r[i].op.kind = "Load" /\ Carries(u.load, r[i])
      BY <1>2, <2>1 DEF LoadThere
    <3> QED BY <3>1 DEF Carries, Carried
  <2> QED BY <2>1
<1>14. /\ w[1].op = q[1].op /\ w[1].full = q[1].full /\ w[1].valid = q[1].valid
  BY <1>3, One DEF Alike
<1>15. q[1].state \in Halfway /\ u.load.state \in Halfway
  BY <1>2, <1>5, One DEF Queue, Entry, Typed
<1>16. Asks(v)
  <2>1. \A o, s : s \in Halfway => StateOf(o, StateOf(o, s)) = StateOf(o, s)
    BY DEF StateOf
  <2>2. \A o, s : StateOf(o, s) # "Normal" => s # "Normal" \/ (Crosses(o) /\ o.kind # "Zero")
    BY DEF StateOf
  <2>3. \A o, s : RequestOf(o, s).req /\ RequestOf(o, s).kind = o.kind BY DEF RequestOf
  <2>4. CASE u.loadWaiting \/ u.storeWaiting
    BY <1>2, <1>3, <1>4, <2>4 DEF Asks, q, w
  <2>5. CASE ~ u.loadWaiting /\ ~ u.storeWaiting /\ MayLoad(u)
    <3>1. /\ v.loadWaiting /\ ~ v.storeWaiting
          /\ v.load.state = StateOf(u.load.op, u.load.state) /\ w = q
          /\ v.dcache = RequestOf(u.load.op, v.load.state)
      BY <1>4, <2>5
    <3>2. u.load.valid /\ u.load.op.kind = "Load" BY <1>13, <2>5 DEF MayLoad
    <3>3. v.load.state = StateOf(v.load.op, v.load.state) /\ v.dcache.req /\ v.dcache.kind = "Load"
      BY <1>3, <1>15, <2>1, <2>3, <3>1, <3>2
    <3>4. v.load.state # "Normal" => Crosses(v.load.op)
      BY <1>2, <1>3, <2>2, <3>1, <3>2 DEF Asks
    <3>5. w[1].state # "Msb"
          /\ (w[1].state # "Normal" => Crosses(w[1].op) /\ w[1].op.kind = "Store")
      BY <1>2, <2>5, <3>1 DEF Asks, q
    <3> QED BY <1>3, <3>1, <3>3, <3>4, <3>5 DEF Asks, w
  <2>6. CASE /\ ~ u.loadWaiting /\ ~ u.storeWaiting /\ ~ MayLoad(u)
             /\ q[1].full /\ q[1].valid
    <3>1. /\ ~ v.loadWaiting /\ v.storeWaiting /\ v.load.state = u.load.state
          /\ w[1].state = StateOf(q[1].op, q[1].state)
          /\ v.dcache = RequestOf(q[1].op, w[1].state)
      BY <1>4, <2>6
    <3>2. w[1].state = StateOf(w[1].op, w[1].state) BY <1>14, <1>15, <2>1, <3>1
    <3>3. IsWrite(q[1].op)
      <4>1. 1 \in Full(q) BY <1>5, <2>6, One, InQueue
      <4> QED BY <1>2, <4>1 DEF Origins, q
    <3>4. w[1].state # "Normal" => Crosses(w[1].op) /\ w[1].op.kind = "Store"
      BY <1>2, <1>14, <2>2, <3>1, <3>3 DEF Asks, q, IsWrite
    <3>5. v.load.state # "Msb" /\ (v.load.valid /\ v.load.state # "Normal" => Crosses(v.load.op))
      BY <1>2, <1>3, <2>6, <3>1 DEF Asks
    <3> QED BY <1>14, <2>6, <3>1, <3>2, <3>4, <3>5 DEF Asks, w
  <2>7. CASE /\ ~ u.loadWaiting /\ ~ u.storeWaiting /\ ~ MayLoad(u)
             /\ ~ (q[1].full /\ q[1].valid)
    BY <1>2, <1>3, <1>4, <2>7 DEF Asks, q, w
  <2> QED BY <2>4, <2>5, <2>6, <2>7
<1>17. Origins(w) /\ Ops(w) = Ops(q) /\ Full(w) = Full(q) BY <1>2, <1>3, <1>5, AlikeFields DEF q, w
<1>18. Depends(v, r)
  <2> SUFFICES ASSUME v.load.valid, NEW p \in 1 .. NStoreQueue, w[p].full,
                      IsOlder(w[p], r, v.load.tag), Overlaps(w[p], v.load.op)
               PROVE  w[p].dependentLoadTag = v.load.tag /\ ~ v.loadWaiting /\ v.load.state = "Normal"
    BY DEF Depends, w
  <2>1. /\ q[p].full /\ IsOlder(q[p], r, u.load.tag) /\ Overlaps(q[p], u.load.op)
        /\ w[p].dependentLoadTag = q[p].dependentLoadTag
    BY <1>3 DEF Alike, IsOlder, Overlaps, q, w
  <2>2. q[p].dependentLoadTag = u.load.tag /\ ~ u.loadWaiting /\ u.load.state = "Normal"
    BY <1>2, <1>3, <2>1 DEF Depends, q
  <2>3. ~ MayLoad(u)
    <3>1. p \in Full(q) BY <1>5, <2>1, InQueue
    <3> QED BY <2>2, <3>1 DEF MayLoad, HasLoadDependency, q
  <2> QED BY <1>3, <1>4, <2>1, <2>2, <2>3
<1>19. ASSUME WholeSingles PROVE Memory(w, m, ct)
  <2>1. Memory(q, m, ct) BY <1>1, <1>19 DEF Core, q
  <2>2. w[1].state = "Lsb" => q[1].state = "Lsb" BY <1>4 DEF StateOf
  <2> QED BY <1>14, <1>17, <2>1, <2>2 DEF Memory
<1>20. ASSUME WholeSingles, AlignedZeros PROVE Halves(v, m, FALSE)
  <2>1. Halves(u, m, FALSE) BY <1>1, <1>20 DEF Core
  <2>2. v.load.state = "Lsb" <=> u.load.state = "Lsb" BY <1>4 DEF StateOf
  <2> QED BY <1>3, <2>1, <2>2 DEF Halves
<1>21. Started(v) BY <1>4, <1>5 DEF Started, w
<1>22. e \in Packet BY <1>3, <1>6 DEF Typed
<1> QED BY <1>3, <1>6, <1>10, <1>11, <1>12, <1>16, <1>17, <1>18, <1>19, <1>20, <1>21, <1>22 DEF Core, w

-----------------------------------------------------------------------------
\* Retirement.

\* What the ports leave alone.
SameOutside(u, v) ==
  /\ v.stage1 = u.stage1 /\ v.load = u.load /\ v.loadWaiting = u.loadWaiting
  /\ v.finished = u.finished /\ v.result = u.result
  /\ v.storeQueueStalled = u.storeQueueStalled /\ v.loadQueueStalled = u.loadQueueStalled
  /\ \A p \in 1 .. NStoreQueue : v.storeQueue[p].full = u.storeQueue[p].full

\* The load stays when another instruction retires.
LEMMA LoadShifted ==
  ASSUME NEW l, NEW r, LoadThere(l, r), NEW s, Shifted(r, s), ~ (l.valid /\ l.tag = r[1].tag)
  PROVE  LoadThere(l, s)
<1> SUFFICES ASSUME l.valid PROVE LoadThere(l, s)
  BY DEF LoadThere
<1>1. PICK i \in DOMAIN r : r[i].op.kind = "Load" /\ Sent(r[i]) /\ Carries(l, r[i])
  BY DEF LoadThere
<1>2. i # 1 BY <1>1 DEF Carries
<1>3. DOMAIN r = 1 .. Len(s) + 1 /\ DOMAIN s = 1 .. Len(s) /\ Len(s) \in Nat BY DEF Shifted
<1>4. i - 1 \in DOMAIN s /\ s[i - 1] = r[i] BY <1>2, <1>3 DEF Shifted
<1> QED BY <1>1, <1>4 DEF LoadThere

\* What is older than a load stays so, when entries leave at the tail.
LEMMA OlderShifted ==
  ASSUME NEW e, NEW r, NEW s, Shifted(r, s), NEW t, IsOlder(e, s, t)
  PROVE  IsOlder(e, r, t)
<1> SUFFICES ASSUME ~ e.valid PROVE IsOlder(e, r, t)
  BY DEF IsOlder
<1>1. PICK i, j \in DOMAIN s : s[i].tag = t /\ s[j].tag = e.tag /\ j < i
  BY DEF IsOlder
<1>2. DOMAIN r = 1 .. Len(s) + 1 /\ DOMAIN s = 1 .. Len(s) /\ Len(s) \in Nat BY DEF Shifted
<1>3. i + 1 \in DOMAIN r /\ j + 1 \in DOMAIN r /\ r[i + 1] = s[i] /\ r[j + 1] = s[j] /\ j + 1 < i + 1
  BY <1>1, <1>2 DEF Shifted
<1> QED BY <1>1, <1>3 DEF IsOlder

\* What is no store has no effect.
LEMMA EffectNone ==
  ASSUME NEW m, NEW f, NEW o, ~ IsWrite(o)
  PROVE  Effect(Effects(m, f), o) = Effects(m, f)
<1>1. \A x : ~ Touches(o, x) BY DEF IsWrite, Touches
<1>2. Effect(Effects(m, f), o) = [x \in DOMAIN m |-> Effects(m, f)[x]]
  BY <1>1, EffectsDomain DEF Effect
<1> QED BY <1>2, EffectsDomain

\* One instruction retires: a store or a dcbz is written back.
LEMMA CoreWriteBack ==
  ASSUME NEW u, NEW r, NEW c, NEW m, NEW ct, Core(u, r, c, FALSE, m, ct), Started(u),
         NEW b, RobOrder(r, b), NEW s, Shifted(r, s), Ready(r[1]),
         ~ (c.valid /\ c.tag = r[1].tag), ~ (u.load.valid /\ u.load.tag = r[1].tag),
         NEW v, v = WriteBackOne(u, IF IsWrite(r[1].op) THEN r[1].tag ELSE None)
  PROVE  Core(v, s, c, FALSE, m, Effect(ct, r[1].op)) /\ Started(v) /\ SameOutside(u, v)
<1> DEFINE q == u.storeQueue
           w == v.storeQueue
           o == r[1].op
<1>1. /\ Typed(u) /\ QueueInv(q, r, c) /\ LoadThere(u.load, r) /\ LoadAlone(u, c)
      /\ Asks(u) /\ Origins(q) /\ Depends(u, r) /\ c \in Packet
      /\ WholeSingles => Memory(q, m, ct)
      /\ WholeSingles /\ AlignedZeros => Halves(u, m, FALSE)
  BY DEF Core
<1>2. q \in Queue BY <1>1 DEF QueueInv
<1>3. /\ 1 \in DOMAIN r /\ r[1] \in RobEntry
      /\ DOMAIN r = 1 .. Len(s) + 1 /\ DOMAIN s = 1 .. Len(s) /\ Len(s) \in Nat
      /\ \A i \in DOMAIN s : s[i] = r[i + 1]
  <2>1. 1 \in DOMAIN r /\ r \in Seq(RobEntry) BY DEF Shifted
  <2>2. r[1] \in RobEntry BY <2>1
  <2> QED BY <2>1, <2>2 DEF Shifted
<1>4. o \in Operations /\ r[1].tag \in Tag /\ Sent(r[1]) /\ r[1].branchCounter = 0
  BY <1>3 DEF RobEntry, Ready, Sent
<1>5. LoadThere(u.load, s) BY <1>1, LoadShifted
<1>6. CASE ~ IsWrite(o)
  <2>1. v = u BY <1>6 DEF WriteBackOne
  <2>2. QueueInv(q, s, c) BY <1>1, <1>6, QueueRetireOther
  <2>3. Depends(u, s) BY <1>1, OlderShifted DEF Depends
  <2>4. ASSUME WholeSingles PROVE Memory(q, m, Effect(ct, o))
    <3>1. Memory(q, m, ct) BY <1>1, <2>4
    <3>2. Effect(ct, o) = ct BY <1>6, <3>1, EffectNone DEF Memory
    <3> QED BY <3>1, <3>2
  <2>5. SameOutside(u, u) BY DEF SameOutside
  <2> QED BY <1>1, <1>5, <2>1, <2>2, <2>3, <2>4, <2>5 DEF Core
<1>7. CASE IsWrite(o)
  <2>1. v = WriteBackOne(u, r[1].tag) /\ r[1].tag # None
    BY <1>4, <1>7, OperationsAssumption DEF Tag
  <2>2. /\ Typed(v) /\ SameLoad(u, v) /\ v.load = u.load
        /\ v.storeQueueStalled = u.storeQueueStalled /\ v.loadQueueStalled = u.loadQueueStalled
        /\ v.finished = u.finished /\ v.result = u.result
        /\ Written(u, v, r[1].tag)
    <3>1. Typed(u) BY <1>1
    <3> QED BY <2>1, <3>1, WriteBackStep
  <2>3. PICK p \in Queued(q) : /\ Carries(q[p], r[1])
                               /\ \A k \in Queued(q) : p <= k
                               /\ \A k \in Queued(q) : q[k].tag = r[1].tag => k = p
    BY <1>1, <1>3, <1>4, <1>7, StoreIsFirst
  <2>4. p \in 1 .. NStoreQueue /\ q[p].full /\ ~ q[p].valid /\ q[p].tag = r[1].tag
        /\ q[p].op = Carried(o)
    BY <1>2, <2>3, InQueue DEF Carries
  <2>5. \/ /\ ~ u.loadWaiting /\ ~ u.storeWaiting /\ p = 1
           /\ v.storeWaiting
           /\ w = [q EXCEPT ![1].valid = TRUE, ![1].state = w[1].state]
           /\ w[1].state = StateOf(q[1].op, q[1].state)
           /\ v.dcache = RequestOf(q[1].op, w[1].state)
        \/ /\ u.loadWaiting \/ u.storeWaiting \/ ~ q[1].full \/ q[1].tag # r[1].tag
           /\ v.storeWaiting = u.storeWaiting /\ v.dcache = u.dcache
           /\ w = [q EXCEPT ![p].valid = TRUE]
    <3>1. \/ /\ ~ u.loadWaiting /\ ~ u.storeWaiting
             /\ q[1].full /\ q[1].tag = r[1].tag
             /\ v.storeWaiting
             /\ w = [q EXCEPT ![1].valid = TRUE, ![1].state = w[1].state]
             /\ w[1].state = StateOf(q[1].op, q[1].state)
             /\ v.dcache = RequestOf(q[1].op, w[1].state)
          \/ /\ u.loadWaiting \/ u.storeWaiting \/ ~ q[1].full \/ q[1].tag # r[1].tag
             /\ v.storeWaiting = u.storeWaiting /\ v.dcache = u.dcache
             /\ w = [q EXCEPT ![p].valid = TRUE]
      BY <2>2, <2>3 DEF Written
    <3>2. ASSUME ~ u.loadWaiting, ~ u.storeWaiting, q[1].full, q[1].tag = r[1].tag PROVE p = 1
      <4>1. ~ q[1].valid BY <3>2 DEF Started
      <4>2. 1 \in Queued(q) BY <1>2, <3>2, <4>1, One, InQueue
      <4> QED BY <2>3, <3>2, <4>2
    <3> QED BY <3>1, <3>2
  <2> HIDE DEF q, w
  <2>6. w \in Queue BY <2>2 DEF Typed, w
  <2>7. \A k \in 1 .. NStoreQueue :
       /\ w[k].full = q[k].full /\ w[k].tag = q[k].tag
       /\ w[k].op = q[k].op /\ w[k].branchCounter = q[k].branchCounter
       /\ w[k].dependentLoadTag = q[k].dependentLoadTag
       /\ w[k].valid <=> q[k].valid \/ k = p
       /\ w[k].state # q[k].state => k = 1
    <3>1. CASE w = [q EXCEPT ![p].valid = TRUE] BY <1>2, <2>4, <3>1 DEF Queue, Entry
    <3>2. CASE p = 1 /\ w = [q EXCEPT ![1].valid = TRUE, ![1].state = w[1].state]
      <4>1. PICK x : x = w[1].state OBVIOUS
      <4>2. w = [q EXCEPT ![1].valid = TRUE, ![1].state = x] BY <3>2, <4>1
      <4> QED BY <1>2, <3>2, <4>2 DEF Queue, Entry
    <3> QED BY <2>5, <3>1, <3>2
  <2>8. w[1].state = q[1].state \/ (p = 1 /\ w[1].state = StateOf(q[1].op, q[1].state))
    <3>1. CASE w = [q EXCEPT ![p].valid = TRUE] BY <1>2, <2>4, <3>1, One DEF Queue, Entry
    <3> QED BY <2>5, <3>1
  <2>9. q[1].state # "Normal" => q[1].full /\ q[1].valid
    BY <1>1, <1>2, One, InQueue DEF QueueInv, Retired
  <2>10. WrittenBack(q, w, p)
    <3>1. w[1].state # "Normal" => w[1].full /\ w[1].valid BY <2>4, <2>7, <2>8, <2>9, One
    <3>2. w[p].valid BY <2>4, <2>7
    <3> QED BY <2>3, <2>6, <2>7, <3>1, <3>2, <1>2 DEF WrittenBack, Queue, Entry
  <2>11. QueueInv(w, s, c)
    BY <1>1, <1>4, <1>7, <2>3, <2>10, QueueRetireStore DEF q
  <2>12. Full(w) = Full(q) /\ Pending(w) = Pending(q) \cup {p} BY <1>2, <2>10, WrittenBackSets
  <2>13. Started(v)
    <3> SUFFICES ASSUME ~ v.loadWaiting, ~ v.storeWaiting, w[1].full, w[1].valid PROVE FALSE
      BY DEF Started, w
    <3>1. ~ u.loadWaiting /\ ~ u.storeWaiting /\ (~ q[1].full \/ q[1].tag # r[1].tag)
      BY <2>2, <2>5 DEF SameLoad
    <3>2. q[1].full /\ (q[1].valid \/ p = 1) BY <2>7, One
    <3> QED BY <2>4, <3>1, <3>2 DEF Started, q
  <2>14. Asks(v)
    <3>1. /\ w[1].state # "Normal" => Crosses(w[1].op) /\ w[1].op.kind = "Store"
          /\ q[1].state \in Halfway /\ w[1].op = q[1].op
      <4>1. q[1].state \in Halfway BY <1>2, One DEF Queue, Entry
      <4>2. w[1].op = q[1].op BY <2>7, One
      <4>3. CASE w[1].state = q[1].state BY <1>1, <4>1, <4>2, <4>3 DEF Asks, q
      <4>4. CASE p = 1 /\ w[1].state = StateOf(q[1].op, q[1].state)
        <5>1. IsWrite(q[1].op)
          <6>1. 1 \in Full(q) BY <1>2, <2>4, <4>4, InQueue
          <6> QED BY <1>1, <6>1 DEF Origins, q
        <5> QED BY <1>1, <4>1, <4>2, <4>4, <5>1 DEF Asks, q, StateOf, IsWrite
      <4> QED BY <2>8, <4>1, <4>2, <4>3, <4>4
    <3>2. CASE /\ ~ u.loadWaiting /\ ~ u.storeWaiting /\ p = 1
               /\ v.storeWaiting
               /\ w[1].state = StateOf(q[1].op, q[1].state)
               /\ v.dcache = RequestOf(q[1].op, w[1].state)
      <4>1. w[1].full /\ w[1].valid BY <2>4, <2>7, <3>2
      <4>2. w[1].state = StateOf(w[1].op, w[1].state) BY <3>1, <3>2 DEF StateOf
      <4>3. ~ v.loadWaiting /\ v.load.state # "Msb"
            /\ (v.load.valid /\ v.load.state # "Normal" => Crosses(v.load.op))
        BY <1>1, <2>2, <3>2 DEF Asks, SameLoad
      <4> QED BY <3>1, <3>2, <4>1, <4>2, <4>3 DEF Asks, w
    <3>3. CASE /\ v.storeWaiting = u.storeWaiting /\ v.dcache = u.dcache
               /\ w = [q EXCEPT ![p].valid = TRUE]
      <4>0. v.loadWaiting = u.loadWaiting /\ v.load = u.load BY <2>2 DEF SameLoad
      <4>1. w[1].state = q[1].state BY <1>2, <2>4, <3>3, One DEF Queue, Entry
      <4>2. w[1].full = q[1].full /\ (q[1].valid => w[1].valid) /\ w[1].op = q[1].op
        BY <2>7, One
      <4> QED BY <1>1, <3>1, <3>3, <4>0, <4>1, <4>2 DEF Asks, q, w
    <3> QED BY <2>5, <3>2, <3>3
  <2>15. Origins(w)
    <3>1. Full(q) \subseteq 1 .. NStoreQueue BY <1>2, InQueue
    <3> QED BY <1>1, <2>7, <2>12, <3>1 DEF Origins, q
  <2>16. Depends(v, s)
    <3> SUFFICES ASSUME v.load.valid, NEW k \in 1 .. NStoreQueue, w[k].full,
                        IsOlder(w[k], s, v.load.tag), Overlaps(w[k], v.load.op)
                 PROVE  w[k].dependentLoadTag = v.load.tag /\ ~ v.loadWaiting
                        /\ v.load.state = "Normal"
      BY DEF Depends, w
    <3>1. v.load = u.load /\ v.loadWaiting = u.loadWaiting BY <2>2 DEF SameLoad
    <3>2. IsOlder(q[k], r, u.load.tag)
      <4>1. CASE k = p
        <5>1. PICK i \in DOMAIN r : Carries(u.load, r[i]) BY <1>1, <3>1 DEF LoadThere
        <5>2. i # 1 /\ r[i].tag = u.load.tag BY <3>1, <5>1 DEF Carries
        <5>3. 1 < i BY <1>3, <5>2
        <5> QED BY <1>3, <2>4, <4>1, <5>2, <5>3 DEF IsOlder
      <4>2. CASE k # p
        <5>1. IsOlder(q[k], s, u.load.tag) BY <2>7, <3>1, <4>2 DEF IsOlder
        <5> QED BY <5>1, OlderShifted
      <4> QED BY <4>1, <4>2
    <3>3. q[k].full /\ Overlaps(q[k], u.load.op) BY <2>7, <3>1 DEF Overlaps
    <3> QED BY <1>1, <2>7, <3>1, <3>2, <3>3 DEF Depends, q
  <2>17. ASSUME WholeSingles PROVE Memory(w, m, Effect(ct, o))
    <3>1. Memory(q, m, ct) BY <1>1, <2>17
    <3>2. /\ DOMAIN Ops(q) = Pending(q) /\ DOMAIN Ops(w) = Pending(w) /\ NStoreQueue \in Nat
          /\ DOMAIN Ops(w) \subseteq 0 .. NStoreQueue
          /\ \A d \in Pending(q) : Ops(q)[d] = q[d].op /\ d \in 1 .. NStoreQueue
          /\ \A d \in Pending(w) : Ops(w)[d] = w[d].op /\ d \in 1 .. NStoreQueue
      BY <1>2, <2>6, PendingRange
    <3>3. p \notin Pending(q) BY <1>2, <2>4, InQueue
    <3>4. ASSUME NEW d \in Pending(q) PROVE Ops(q)[d] = Ops(w)[d] /\ d < p
      <4>1. d \in 1 .. NStoreQueue /\ q[d].full /\ q[d].valid BY <1>2, InQueue
      <4>2. d \in Full(q) /\ p \in Full(q) BY <1>2, <2>4, <4>1, InQueue
      <4>3. ~ (p < d) BY <1>1, <2>4, <4>1, <4>2 DEF QueueInv, Retired
      <4>4. d # p BY <3>3
      <4> QED BY <2>4, <2>7, <2>12, <3>2, <4>1, <4>3, <4>4
    <3>5. Effects(m, Ops(w)) = Effect(Effects(m, Ops(q)), Ops(w)[p])
      <4>1. p \in DOMAIN Ops(w) /\ DOMAIN Ops(q) = DOMAIN Ops(w) \ {p}
        BY <2>12, <3>2, <3>3
      <4>2. \A d \in DOMAIN Ops(q) : Ops(q)[d] = Ops(w)[d] /\ d < p BY <3>2, <3>4
      <4> QED BY <3>2, <4>1, <4>2, EffectsMore
    <3>6. Ops(w)[p] = Carried(o) BY <2>4, <2>7, <2>12, <3>2
    <3>7. Effect(ct, Carried(o)) = Effect(ct, o) BY <1>4, SoundOperations DEF Effect
    <3>8. w[1].state = "Lsb" => q[1].state = "Lsb" BY <2>8 DEF StateOf
    <3>9. w[1].op = q[1].op BY <2>7, One
    <3> QED BY <3>1, <3>5, <3>6, <3>7, <3>8, <3>9 DEF Memory
  <2>18. ASSUME WholeSingles, AlignedZeros PROVE Halves(v, m, FALSE)
    BY <1>1, <2>2, <2>18 DEF Halves, SameLoad
  <2>19. LoadThere(v.load, s) /\ LoadAlone(v, c)
    BY <1>1, <1>5, <2>2 DEF LoadAlone, SameLoad
  <2>20. SameOutside(u, v) BY <2>2, <2>7 DEF SameOutside, SameLoad, q, w
  <2> QED BY <1>1, <2>2, <2>11, <2>13, <2>14, <2>15, <2>16, <2>17, <2>18, <2>19, <2>20 DEF Core, w
<1> QED BY <1>6, <1>7

\* The loop over the ports.
PortRun(f, u, tags, N) ==
  f = [n \in 0 .. N |-> IF n = 0 THEN u ELSE WriteBackOne(f[n - 1], tags[n])]

\* The loop defines a function of the number of ports done.
LEMMA PortsExist ==
  ASSUME NEW u, NEW tags, NEW N \in Nat
  PROVE  \E f : PortRun(f, u, tags, N)
<1> DEFINE IsRun(f, M) == PortRun(f, u, tags, M)
           S == {M \in 0 .. N : \E f : IsRun(f, M)}
<1>1. 0 \in S
  <2> DEFINE g == [n \in 0 .. 0 |-> u]
  <2>1. g = [n \in 0 .. 0 |-> g[n]] /\ \A n \in 0 .. 0 : n = 0 /\ g[n] = u OBVIOUS
  <2> HIDE DEF g
  <2>2. IsRun(g, 0) BY <2>1 DEF PortRun
  <2> QED BY <2>2
<1>2. ASSUME NEW M \in 0 .. N - 1, M \in S PROVE M + 1 \in S
  <2>1. PICK f : IsRun(f, M) BY <1>2
  <2> DEFINE g == [n \in 0 .. M + 1 |-> IF n = M + 1 THEN WriteBackOne(f[M], tags[n]) ELSE f[n]]
  <2>2. \A n \in 0 .. M + 1 : g[n] = IF n = 0 THEN u ELSE WriteBackOne(g[n - 1], tags[n])
    <3> SUFFICES ASSUME NEW n \in 0 .. M + 1
                 PROVE  g[n] = IF n = 0 THEN u ELSE WriteBackOne(g[n - 1], tags[n])
      OBVIOUS
    <3>1. CASE n = M + 1
      <4>1. n # 0 /\ n - 1 = M /\ g[M] = f[M] BY <3>1
      <4> QED BY <3>1, <4>1
    <3>2. CASE n # M + 1
      <4>1. n \in 0 .. M /\ g[n] = f[n] BY <3>2
      <4>2. f[n] = IF n = 0 THEN u ELSE WriteBackOne(f[n - 1], tags[n]) BY <2>1, <4>1 DEF PortRun
      <4>3. n # 0 => g[n - 1] = f[n - 1] BY <4>1
      <4> QED BY <4>1, <4>2, <4>3
    <3> QED BY <3>1, <3>2
  <2>3. g = [n \in 0 .. M + 1 |-> g[n]] OBVIOUS
  <2> HIDE DEF g
  <2>4. IsRun(g, M + 1) BY <2>2, <2>3 DEF PortRun
  <2>5. M + 1 \in 0 .. N OBVIOUS
  <2> HIDE DEF IsRun
  <2> QED BY <2>4, <2>5
<1> HIDE DEF S
<1>3. N \in S BY <1>1, <1>2, Counting
<1> QED BY <1>3 DEF S

\* The loop, one port at a time.
LEMMA WriteBackIs ==
  ASSUME NEW u, NEW tags, NEW N \in Nat, Len(tags) = N
  PROVE  \E f : /\ f[0] = u /\ \A n \in 0 .. N - 1 : f[n + 1] = WriteBackOne(f[n], tags[n + 1])
                /\ WriteBack(u, tags) = f[N]
<1> DEFINE f == CHOOSE f : PortRun(f, u, tags, N)
<1>1. \E g : PortRun(g, u, tags, N) BY PortsExist
<1>2. PortRun(f, u, tags, N) BY <1>1
<1>3. WriteBack(u, tags) = f[N] BY DEF WriteBack, PortRun
<1> HIDE DEF f
<1>4. f[0] = u BY <1>2 DEF PortRun
<1>5. ASSUME NEW n \in 0 .. N - 1 PROVE f[n + 1] = WriteBackOne(f[n], tags[n + 1])
  <2>1. n + 1 \in 0 .. N /\ n + 1 # 0 /\ (n + 1) - 1 = n OBVIOUS
  <2> QED BY <1>2, <2>1 DEF PortRun
<1> QED BY <1>3, <1>4, <1>5

\* The operations of the first n entries; the entries after them.
Firsts(r, n) == [i \in 1 .. n |-> r[i].op]

\* One more entry retires.
LEMMA FirstsMore ==
  ASSUME NEW ct, NEW r, NEW n \in Nat
  PROVE  /\ Effects(ct, Firsts(r, n + 1)) = Effect(Effects(ct, Firsts(r, n)), r[n + 1].op)
         /\ ct = [x \in DOMAIN ct |-> ct[x]] => Effects(ct, Firsts(r, 0)) = ct
<1>1. PICK N \in Nat : N = n + 1 OBVIOUS
<1>2. /\ DOMAIN Firsts(r, N) = 1 .. N /\ DOMAIN Firsts(r, n) = 1 .. n
      /\ \A i \in 1 .. N : Firsts(r, N)[i] = r[i].op
      /\ \A i \in 1 .. n : Firsts(r, n)[i] = r[i].op
  BY DEF Firsts
<1>3. /\ N \in DOMAIN Firsts(r, N) /\ DOMAIN Firsts(r, n) = DOMAIN Firsts(r, N) \ {N}
      /\ DOMAIN Firsts(r, N) \subseteq 0 .. N
  BY <1>1, <1>2
<1>4. \A d \in DOMAIN Firsts(r, n) : Firsts(r, n)[d] = Firsts(r, N)[d] /\ d < N BY <1>1, <1>2
<1>5. Effects(ct, Firsts(r, N)) = Effect(Effects(ct, Firsts(r, n)), Firsts(r, N)[N])
  BY <1>3, <1>4, EffectsMore
<1>6. Firsts(r, N)[N] = r[N].op BY <1>2, <1>3
<1>7. ASSUME ct = [x \in DOMAIN ct |-> ct[x]] PROVE Effects(ct, Firsts(r, 0)) = ct
  <2>1. DOMAIN Firsts(r, 0) = {} BY DEF Firsts
  <2>2. DOMAIN Firsts(r, 0) \subseteq 0 .. 0 /\ 0 \in Nat BY <2>1
  <2>3. \A x \in DOMAIN ct : Effects(ct, Firsts(r, 0))[x] = ct[x]
    BY <2>1, <2>2, EffectsNone
  <2>4. Effects(ct, Firsts(r, 0)) = [x \in DOMAIN ct |-> Effects(ct, Firsts(r, 0))[x]]
    BY EffectsDomain
  <2> QED BY <1>7, <2>3, <2>4
<1> QED BY <1>1, <1>5, <1>6, <1>7

Rest(r, n) == SubSeq(r, n + 1, Len(r))

\* The entries that are left, one by one.
LEMMA RestIs ==
  ASSUME NEW r \in Seq(RobEntry), NEW n \in 0 .. Len(r)
  PROVE  /\ Rest(r, n) \in Seq(RobEntry) /\ Len(Rest(r, n)) = Len(r) - n
         /\ DOMAIN Rest(r, n) = 1 .. Len(r) - n
         /\ \A i \in 1 .. Len(r) - n : Rest(r, n)[i] = r[i + n]
         /\ n < Len(r) => Shifted(Rest(r, n), Rest(r, n + 1))
         /\ Rest(r, 0) = r
<1>1. \A k \in 0 .. Len(r) : /\ Rest(r, k) \in Seq(RobEntry) /\ Len(Rest(r, k)) = Len(r) - k
                             /\ \A i \in 1 .. Len(r) - k : Rest(r, k)[i] = r[i + k]
  <2> SUFFICES ASSUME NEW k \in 0 .. Len(r)
               PROVE  /\ Rest(r, k) \in Seq(RobEntry) /\ Len(Rest(r, k)) = Len(r) - k
                      /\ \A i \in 1 .. Len(r) - k : Rest(r, k)[i] = r[i + k]
    OBVIOUS
  <2>1. PICK a \in Nat : a = k + 1 OBVIOUS
  <2>2. PICK s : s = SubSeq(r, a, Len(r)) OBVIOUS
  <2>3. s \in Seq(RobEntry) /\ Len(s) = Len(r) - k BY <2>1, <2>2
  <2>4. \A i \in 1 .. Len(r) - k : s[i] = r[a + i - 1] BY <2>1, <2>2
  <2>5. \A i \in 1 .. Len(r) - k : a + i - 1 = i + k BY <2>1
  <2> QED BY <2>1, <2>2, <2>3, <2>4, <2>5 DEF Rest
<1>2. Len(r) \in Nat OBVIOUS
<1>3. ASSUME n < Len(r) PROVE Shifted(Rest(r, n), Rest(r, n + 1))
  <2>1. PICK k \in 0 .. Len(r) : k = n + 1 BY <1>2, <1>3
  <2>2. Len(Rest(r, n)) = Len(Rest(r, k)) + 1 BY <1>1, <1>2, <2>1
  <2>3. ASSUME NEW i \in 1 .. Len(Rest(r, k)) PROVE Rest(r, k)[i] = Rest(r, n)[i + 1]
    <3>1. i \in 1 .. Len(r) - k BY <1>1, <2>1
    <3>2. PICK j \in 1 .. Len(r) - n : j = i + 1 BY <1>2, <2>1, <3>1
    <3>3. i + k = j + n BY <2>1, <3>1, <3>2
    <3>4. Rest(r, k)[i] = r[i + k] BY <1>1, <3>1
    <3>5. Rest(r, n)[j] = r[j + n] BY <1>1, <3>2
    <3> QED BY <3>2, <3>3, <3>4, <3>5
  <2> QED BY <1>1, <2>1, <2>2, <2>3 DEF Shifted
<1>4. Rest(r, 0) = r
  <2>1. Rest(r, 0) \in Seq(RobEntry) /\ Len(Rest(r, 0)) = Len(r)
        /\ \A i \in 1 .. Len(r) : Rest(r, 0)[i] = r[i]
    BY <1>1, <1>2
  <2> QED BY <2>1
<1> QED BY <1>1, <1>2, <1>3, <1>4

\* The order outlives retirement.
LEMMA OrderRest ==
  ASSUME NEW r, NEW b, RobOrder(r, b), NEW n \in 0 .. Len(r)
  PROVE  RobOrder(Rest(r, n), b)
<1> DEFINE s == Rest(r, n)
<1>1. r \in Seq(RobEntry) /\ Len(r) \in Nat /\ DOMAIN r = 1 .. Len(r) BY DEF RobOrder
<1>2. s \in Seq(RobEntry) /\ DOMAIN s = 1 .. Len(r) - n /\ \A i \in 1 .. Len(r) - n : s[i] = r[i + n]
  BY <1>1, RestIs
<1> HIDE DEF s
<1>3. ASSUME NEW i \in DOMAIN s PROVE i \in Int /\ i + n \in DOMAIN r /\ s[i] = r[i + n]
  BY <1>1, <1>2
<1>4. \A i, j \in DOMAIN s : (i + n = j + n => i = j) /\ (i < j => i + n < j + n) BY <1>3
<1>5. \A i, j \in DOMAIN s : s[i].tag = s[j].tag => i = j BY <1>3, <1>4 DEF RobOrder
<1>6. \A i, j \in DOMAIN s : i < j => s[i].branchCounter <= s[j].branchCounter
  BY <1>3, <1>4 DEF RobOrder
<1>7. \A i \in DOMAIN s : s[i].branchCounter <= b BY <1>3 DEF RobOrder
<1>8. \A i, j \in DOMAIN s : i < j /\ IsMemory(s[i].op) /\ IsMemory(s[j].op)
                            /\ Sent(s[j]) => Sent(s[i])
  BY <1>3, <1>4 DEF RobOrder
<1> QED BY <1>2, <1>5, <1>6, <1>7, <1>8 DEF RobOrder, s

\* The first n instructions retire: none of them is still under way.
IsMap(m) == m = [x \in DOMAIN m |-> m[x]]
Over(u, r, c, n) ==
  \A i \in 1 .. n : /\ Ready(r[i]) /\ ~ (c.valid /\ c.tag = r[i].tag)
                     /\ ~ (u.load.valid /\ u.load.tag = r[i].tag)

\* The tags that the completion unit puts on the ports of the store queue.
Ports(r, n) == [i \in 1 .. n |-> IF IsWrite(r[i].op) THEN r[i].tag ELSE None]

\* Retirement of any number of instructions keeps the invariant: the unit writes back the
\* stores among them.
LEMMA CoreRetires ==
  ASSUME NEW u, NEW r, NEW c, NEW m, NEW ct, Core(u, r, c, FALSE, m, ct), Started(u), IsMap(ct),
         NEW b, RobOrder(r, b), NEW N \in 0 .. Len(r), Over(u, r, c, N),
         NEW v, v = WriteBack(u, Ports(r, N)), NEW k, k = Effects(ct, Firsts(r, N))
  PROVE  Core(v, Rest(r, N), c, FALSE, m, k) /\ Started(v) /\ SameOutside(u, v)
<1>0. r \in Seq(RobEntry) /\ Len(r) \in Nat /\ DOMAIN r = 1 .. Len(r) /\ N \in Nat BY DEF RobOrder
<1> DEFINE tags == [i \in 1 .. N |-> IF IsWrite(r[i].op) THEN r[i].tag ELSE None]
<1>1. Len(tags) = N
  <2>1. \A i \in 1 .. N : tags[i] \in Tag \cup {None}
    <3> SUFFICES ASSUME NEW i \in 1 .. N PROVE tags[i] \in Tag \cup {None}
      OBVIOUS
    <3>1. i \in 1 .. Len(r) BY <1>0
    <3>2. r[i] \in RobEntry BY <1>0, <3>1
    <3> QED BY <3>2 DEF RobEntry
  <2>2. tags \in [1 .. N -> Tag \cup {None}] BY <2>1
  <2> HIDE DEF tags
  <2> QED BY <1>0, <2>2
<1>2. \A i \in 1 .. N : tags[i] = IF IsWrite(r[i].op) THEN r[i].tag ELSE None OBVIOUS
<1>3. v = WriteBack(u, tags) BY DEF Ports
<1> HIDE DEF tags
<1>4. PICK f : /\ f[0] = u /\ \A n \in 0 .. N - 1 : f[n + 1] = WriteBackOne(f[n], tags[n + 1])
               /\ WriteBack(u, tags) = f[N]
  <2>1. PICK M \in Nat : M = N BY <1>0
  <2>2. Len(tags) = M BY <1>1, <2>1
  <2>3. \E f : /\ f[0] = u /\ \A n \in 0 .. M - 1 : f[n + 1] = WriteBackOne(f[n], tags[n + 1])
              /\ WriteBack(u, tags) = f[M]
    BY ONLY <2>2, WriteBackIs
  <2> QED BY <2>1, <2>3
<1> DEFINE P(n) == /\ Core(f[n], Rest(r, n), c, FALSE, m, Effects(ct, Firsts(r, n)))
                   /\ Started(f[n]) /\ SameOutside(u, f[n])
           S == {n \in 0 .. N : P(n)}
<1>5. 0 \in S
  <2>1. Rest(r, 0) = r BY <1>0, RestIs
  <2>2. Effects(ct, Firsts(r, 0)) = ct BY FirstsMore DEF IsMap
  <2>3. SameOutside(u, u) BY DEF SameOutside
  <2>4. 0 \in 0 .. N BY <1>0
  <2> QED BY <1>4, <2>1, <2>2, <2>3, <2>4
<1>6. ASSUME NEW n \in 0 .. N - 1, n \in S PROVE n + 1 \in S
  <2>1. n + 1 \in 1 .. N /\ n + 1 \in 0 .. N /\ n \in 0 .. Len(r) /\ n < Len(r) /\ n \in Nat
    BY <1>0
  <2>2. Shifted(Rest(r, n), Rest(r, n + 1)) /\ Rest(r, n)[1] = r[n + 1] /\ RobOrder(Rest(r, n), b)
    <3>1. 1 \in 1 .. Len(r) - n /\ 1 + n = n + 1 BY <1>0, <2>1
    <3>2. Rest(r, n)[1] = r[1 + n] BY <1>0, <2>1, <3>1, RestIs
    <3>3. Shifted(Rest(r, n), Rest(r, n + 1)) BY <1>0, <2>1, RestIs
    <3>4. RobOrder(Rest(r, n), b) BY <2>1, OrderRest
    <3> QED BY <3>1, <3>2, <3>3, <3>4
  <2>3. PICK x : x = f[n] OBVIOUS
  <2>4. Core(x, Rest(r, n), c, FALSE, m, Effects(ct, Firsts(r, n))) /\ Started(x) /\ SameOutside(u, x)
    BY <1>6, <2>3
  <2>5. PICK y : y = f[n + 1] OBVIOUS
  <2>6. y = WriteBackOne(x, IF IsWrite(r[n + 1].op) THEN r[n + 1].tag ELSE None)
    BY <1>2, <1>4, <2>1, <2>3, <2>5
  <2>7. Ready(r[n + 1]) /\ ~ (c.valid /\ c.tag = r[n + 1].tag)
        /\ ~ (x.load.valid /\ x.load.tag = r[n + 1].tag)
    BY <2>1, <2>4 DEF SameOutside, Over
  <2>8. /\ Core(y, Rest(r, n + 1), c, FALSE, m, Effect(Effects(ct, Firsts(r, n)), r[n + 1].op))
        /\ Started(y) /\ SameOutside(x, y)
    BY <2>2, <2>4, <2>6, <2>7, CoreWriteBack
  <2>9. Effect(Effects(ct, Firsts(r, n)), r[n + 1].op) = Effects(ct, Firsts(r, n + 1))
    BY <2>1, FirstsMore
  <2>10. SameOutside(u, y) BY <2>4, <2>8 DEF SameOutside
  <2> QED BY <2>1, <2>5, <2>8, <2>9, <2>10
<1> HIDE DEF S
<1>7. N \in S
  <2>1. \A n \in 0 .. N - 1 : n \in S => n + 1 \in S BY <1>6
  <2>2. PICK M \in Nat : M = N BY <1>0
  <2>3. \A n \in 0 .. M - 1 : n \in S => n + 1 \in S BY <2>1, <2>2
  <2>4. \A n \in 0 .. M : n \in S BY <1>5, <2>3, Counting
  <2> QED BY <2>2, <2>4
<1> QED BY <1>3, <1>4, <1>7 DEF S

-----------------------------------------------------------------------------
\* Decoding.

\* The tags of the reorder buffer go round the ring.
Turn(a) == IF a < NRob THEN a ELSE a - NRob

\* The tags of the buffer are those of n places from the tail on.
Tagged(r, t) == Len(r) <= NRob /\ \A i \in DOMAIN r : r[i].tag = (t + i - 1) % NRob

\* The modulus, without division.
LEMMA TurnIs ==
  ASSUME NEW a \in 0 .. 2 * NRob - 1
  PROVE  a % NRob = Turn(a) /\ Turn(a) \in Tag
<1>1. NRob \in Nat \ {0} BY OperationsAssumption
<1>2. CASE a < NRob
  <2>1. a % NRob = a BY <1>1, <1>2
  <2> QED BY <1>1, <1>2, <2>1 DEF Turn, Tag
<1>3. CASE ~ (a < NRob)
  <2>1. PICK b \in 0 .. NRob - 1 : b = a - NRob BY <1>1, <1>3
  <2>2. a = NRob * 1 + b BY <1>1, <2>1
  <2>3. a % NRob = b BY <1>1, <2>1, <2>2
  <2> QED BY <1>1, <1>3, <2>1, <2>3 DEF Turn, Tag
<1> QED BY <1>2, <1>3

LEMMA TaggedTurn ==
  ASSUME NEW r \in Seq(RobEntry), NEW t \in Tag
  PROVE  Tagged(r, t) <=> Len(r) <= NRob /\ \A i \in 1 .. Len(r) : r[i].tag = Turn(t + i - 1)
<1>1. NRob \in Nat \ {0} /\ t \in 0 .. NRob - 1 /\ Len(r) \in Nat /\ DOMAIN r = 1 .. Len(r)
  BY OperationsAssumption DEF Tag
<1>2. ASSUME NEW i \in 1 .. Len(r), Len(r) <= NRob
      PROVE  (t + i - 1) % NRob = Turn(t + i - 1)
  <2>1. t + i - 1 \in 0 .. 2 * NRob - 1 BY <1>1, <1>2
  <2> QED BY <2>1, TurnIs
<1> QED BY <1>1, <1>2 DEF Tagged

\* No tag is used twice while the buffer is no longer than the ring.
LEMMA TagsDistinct ==
  ASSUME NEW r \in Seq(RobEntry), NEW t \in Tag, Tagged(r, t)
  PROVE  \A i, j \in DOMAIN r : r[i].tag = r[j].tag => i = j
<1>1. NRob \in Nat \ {0} /\ t \in 0 .. NRob - 1 /\ Len(r) \in Nat /\ DOMAIN r = 1 .. Len(r)
  BY OperationsAssumption DEF Tag
<1>2. Len(r) <= NRob /\ \A i \in 1 .. Len(r) : r[i].tag = Turn(t + i - 1) BY TaggedTurn
<1> SUFFICES ASSUME NEW i \in 1 .. Len(r), NEW j \in 1 .. Len(r), r[i].tag = r[j].tag
             PROVE  i = j
  BY <1>1
<1>3. Turn(t + i - 1) = Turn(t + j - 1) BY <1>2
<1> QED BY <1>1, <1>2, <1>3 DEF Turn

\* Some retire, and perhaps one is decoded.
LEMMA TaggedNext ==
  ASSUME NEW r \in Seq(RobEntry), NEW t \in Tag, Tagged(r, t), NEW n \in 0 .. Len(r),
         NEW s \in Seq(RobEntry), Extended(Rest(r, n), s), Len(s) <= NRob,
         Len(s) <= Len(r) - n + 1,
         Len(s) = Len(r) - n + 1 => s[Len(r) - n + 1].tag = (t + Len(r)) % NRob
  PROVE  (t + n) % NRob \in Tag /\ Tagged(s, (t + n) % NRob)
<1>1. NRob \in Nat \ {0} /\ t \in 0 .. NRob - 1 /\ Len(r) \in Nat /\ Len(s) \in Nat
  BY OperationsAssumption DEF Tag
<1>2. Len(r) <= NRob /\ \A i \in 1 .. Len(r) : r[i].tag = Turn(t + i - 1) BY TaggedTurn
<1>3. /\ t + n \in 0 .. 2 * NRob - 1 /\ t + Len(r) \in 0 .. 2 * NRob - 1 BY <1>1, <1>2
<1>4. (t + n) % NRob = Turn(t + n) /\ Turn(t + n) \in Tag /\ (t + Len(r)) % NRob = Turn(t + Len(r))
  BY <1>3, TurnIs
<1>5. PICK k \in Tag : k = Turn(t + n) BY <1>4
<1>6. k \in 0 .. NRob - 1 BY <1>5 DEF Tag
<1>7. Len(Rest(r, n)) = Len(r) - n /\ \A i \in 1 .. Len(r) - n : Rest(r, n)[i] = r[i + n]
  BY RestIs
<1>8. ASSUME NEW i \in 1 .. Len(s) PROVE s[i].tag = Turn(k + i - 1)
  <2>1. CASE i <= Len(r) - n
    <3>1. i \in 1 .. Len(r) - n BY <1>1, <2>1
    <3>2. s[i] = Rest(r, n)[i] BY <1>7, <3>1 DEF Extended
    <3>3. i + n \in 1 .. Len(r) BY <1>1, <3>1
    <3>4. s[i].tag = Turn(t + (i + n) - 1) BY <1>2, <1>7, <3>1, <3>2, <3>3
    <3>5. Turn(t + (i + n) - 1) = Turn(k + i - 1)
      BY <1>1, <1>2, <1>5, <1>6, <3>1 DEF Turn
    <3> QED BY <3>4, <3>5
  <2>2. CASE ~ (i <= Len(r) - n)
    <3>1. i = Len(r) - n + 1 /\ Len(s) = Len(r) - n + 1 BY <1>1, <2>2
    <3>2. s[i].tag = Turn(t + Len(r)) BY <1>4, <3>1
    <3>3. Len(r) - n + 1 <= NRob BY <1>1, <3>1
    <3>4. Turn(t + Len(r)) = Turn(k + (Len(r) - n + 1) - 1)
      <4>1. PICK l \in Nat : l = Len(r) BY <1>1
      <4>2. n \in 0 .. l /\ l - n + 1 <= NRob /\ l <= NRob BY <1>2, <3>3, <4>1
      <4>3. k + (l - n + 1) - 1 = k + l - n BY <1>6, <4>2
      <4>4. CASE t + n < NRob
        <5>1. k + l - n = t + l BY <1>1, <1>5, <4>2, <4>4 DEF Turn
        <5> QED BY <4>1, <4>3, <5>1
      <4>5. CASE ~ (t + n < NRob)
        <5>1. k + l - n = t + l - NRob BY <1>1, <1>5, <4>2, <4>5 DEF Turn
        <5>2. ~ (t + l < NRob) /\ t + l - NRob < NRob BY <1>1, <4>2, <4>5
        <5>3. Turn(t + l) = t + l - NRob
          <6>1. PICK a : a = t + l OBVIOUS
          <6>2. ~ (a < NRob) BY <5>2, <6>1
          <6>3. Turn(a) = a - NRob BY <6>2 DEF Turn
          <6> QED BY <1>1, <6>1, <6>3
        <5>4. Turn(t + l - NRob) = t + l - NRob BY <5>2 DEF Turn
        <5> QED BY <4>1, <4>3, <5>1, <5>3, <5>4
      <4> QED BY <4>4, <4>5
    <3> QED BY <3>1, <3>2, <3>4
  <2> QED BY <2>1, <2>2
<1> QED BY <1>4, <1>5, <1>8, TaggedTurn

\* What is decoded waits at the head of the buffer.
Decoded(s, ops, t, b) ==
  s \o [i \in DOMAIN ops |-> [tag |-> t, op |-> ops[i], stage |-> "Station", branchCounter |-> b]]

\* At most one entry is new, and it waits in its station.
LEMMA DecodedIs ==
  ASSUME NEW s \in Seq(RobEntry), NEW ops \in {<<>>} \cup {<<o>> : o \in Operations},
         NEW t \in Tag, NEW b \in Nat, NEW r, r = Decoded(s, ops, t, b)
  PROVE  /\ Extended(s, r)
         /\ ops = <<>> => r = s
         /\ ops # <<>> =>
              /\ Len(r) = Len(s) + 1 /\ r[Len(s) + 1].tag = t /\ r[Len(s) + 1].branchCounter = b
              /\ r[Len(s) + 1].stage = "Station"
<1> DEFINE f == [i \in DOMAIN ops |-> [tag |-> t, op |-> ops[i], stage |-> "Station",
                                       branchCounter |-> b]]
<1>1. CASE ops = <<>>
  <2>1. f = <<>> BY <1>1
  <2>2. r = s \o <<>> BY <2>1 DEF Decoded
  <2>3. r = s BY <2>2
  <2> QED BY <1>1, <2>3 DEF Extended
<1>2. CASE ops \in {<<o>> : o \in Operations}
  <2>1. PICK o \in Operations : ops = <<o>> BY <1>2
  <2>2. PICK x : x = [tag |-> t, op |-> o, stage |-> "Station", branchCounter |-> b] OBVIOUS
  <2>3. x \in RobEntry /\ ~ Sent(x) BY <2>2 DEF RobEntry, Sent
  <2>4. f = <<x>>
    <3>1. DOMAIN ops = 1 .. 1 /\ ops[1] = o BY <2>1
    <3>2. DOMAIN f = 1 .. 1 /\ f[1] = x BY <2>2, <3>1
    <3>3. f = [i \in 1 .. 1 |-> x] BY <2>2, <3>1
    <3> HIDE DEF f
    <3> QED BY <3>3
  <2>5. r = Append(s, x) BY <2>3, <2>4 DEF Decoded
  <2>6. /\ r \in Seq(RobEntry) /\ Len(r) = Len(s) + 1 /\ r[Len(s) + 1] = x
        /\ \A i \in 1 .. Len(s) : r[i] = s[i]
    BY <2>3, <2>5
  <2>7. \A i \in Len(s) + 1 .. Len(r) : i = Len(s) + 1 BY <2>6
  <2>8. Extended(s, r) BY <2>3, <2>6, <2>7 DEF Extended
  <2> QED BY <2>1, <2>2, <2>6, <2>8
<1> QED BY <1>1, <1>2

\* What is decoded is the newest and depends on all branches.
LEMMA OrderExtended ==
  ASSUME NEW s, NEW b \in Nat, RobOrder(s, b), NEW r, Extended(s, r),
         Len(r) <= Len(s) + 1, Len(r) = Len(s) + 1 => r[Len(s) + 1].branchCounter = b,
         NEW t \in Tag, Tagged(r, t)
  PROVE  RobOrder(r, b)
<1>1. /\ r \in Seq(RobEntry) /\ s \in Seq(RobEntry) /\ Len(r) \in Nat /\ Len(s) \in Nat
      /\ DOMAIN r = 1 .. Len(r) /\ DOMAIN s = 1 .. Len(s)
  BY DEF Extended
<1>1a. PICK K \in Nat : K = Len(s) BY <1>1
<1>1b. PICK L \in Nat : L = Len(r) BY <1>1
<1>1c. DOMAIN r = 1 .. L /\ DOMAIN s = 1 .. K /\ L <= K + 1 BY <1>1, <1>1a, <1>1b
<1>2. \A i, j \in DOMAIN r : r[i].tag = r[j].tag => i = j BY <1>1, TagsDistinct
<1>3. \A i \in DOMAIN r : \/ i \in DOMAIN s /\ r[i] = s[i]
                          \/ i = Len(s) + 1 /\ ~ Sent(r[i]) /\ r[i].branchCounter = b
  <2> SUFFICES ASSUME NEW i \in DOMAIN r
               PROVE  \/ i \in DOMAIN s /\ r[i] = s[i]
                      \/ i = Len(s) + 1 /\ ~ Sent(r[i]) /\ r[i].branchCounter = b
    OBVIOUS
  <2>0. i \in 1 .. L BY <1>1c
  <2>1. CASE i <= K
    <3>1. i \in 1 .. K BY <2>0, <2>1
    <3> QED BY <1>1a, <1>1c, <3>1 DEF Extended
  <2>2. CASE ~ (i <= K)
    <3>1. i = K + 1 /\ L = K + 1 /\ i \in K + 1 .. L BY <1>1c, <2>0, <2>2
    <3>2. ~ Sent(r[i]) BY <1>1a, <1>1b, <3>1 DEF Extended
    <3> QED BY <1>1a, <1>1b, <3>1, <3>2
  <2> QED BY <2>1, <2>2
<1>4. ASSUME NEW i \in DOMAIN r PROVE r[i].branchCounter <= b
  <2>1. CASE i \in DOMAIN s /\ r[i] = s[i] BY <2>1 DEF RobOrder
  <2>2. CASE r[i].branchCounter = b BY <2>2
  <2> QED BY <1>3, <2>1, <2>2
<1>5. ASSUME NEW i \in DOMAIN r, NEW j \in DOMAIN r, i < j
      PROVE  /\ r[i].branchCounter <= r[j].branchCounter
             /\ IsMemory(r[i].op) /\ IsMemory(r[j].op) /\ Sent(r[j]) => Sent(r[i])
  <2>1. i \in DOMAIN s /\ r[i] = s[i]
    <3>1. i \in 1 .. L /\ j \in 1 .. L BY <1>1c
    <3>2. i # K + 1 BY <1>1c, <1>5, <3>1
    <3> QED BY <1>3, <1>1a, <3>2
  <2>2. CASE j \in DOMAIN s /\ r[j] = s[j] BY <1>5, <2>1, <2>2 DEF RobOrder
  <2>3. CASE ~ Sent(r[j]) /\ r[j].branchCounter = b BY <1>4, <2>3
  <2> QED BY <1>3, <2>2, <2>3
<1> QED BY <1>1, <1>2, <1>4, <1>5 DEF RobOrder

\* What is decoded keeps the invariant.
LEMMA CoreExtended ==
  ASSUME NEW u, NEW r, NEW c, NEW m, NEW ct, Core(u, r, c, FALSE, m, ct),
         NEW b, NEW s, Extended(r, s), RobOrder(s, b)
  PROVE  Core(u, s, c, FALSE, m, ct)
<1>1. QueueInv(u.storeQueue, r, c) /\ LoadThere(u.load, r) /\ Depends(u, r) BY DEF Core
<1>2. DOMAIN r \subseteq DOMAIN s /\ DOMAIN r = 1 .. Len(r) /\ DOMAIN s = 1 .. Len(s)
      /\ \A i \in DOMAIN r : s[i] = r[i]
  BY DEF Extended
<1>3. QueueInv(u.storeQueue, s, c) BY <1>1, QueueExtended
<1>4. LoadThere(u.load, s) BY <1>1, <1>2 DEF LoadThere
<1>5. ASSUME u.load.valid, NEW e, IsOlder(e, s, u.load.tag) PROVE IsOlder(e, r, u.load.tag)
  <2> SUFFICES ASSUME ~ e.valid PROVE IsOlder(e, r, u.load.tag)
    BY DEF IsOlder
  <2>1. PICK i, j \in DOMAIN s : s[i].tag = u.load.tag /\ s[j].tag = e.tag /\ j < i
    BY <1>5 DEF IsOlder
  <2>2. PICK k \in DOMAIN r : Carries(u.load, r[k]) BY <1>1, <1>5 DEF LoadThere
  <2>3. k = i BY <1>2, <2>1, <2>2 DEF RobOrder, Carries
  <2>4. j \in DOMAIN r
    <3>1. Len(r) \in Nat /\ Len(s) \in Nat BY DEF Extended
    <3> QED BY <1>2, <2>1, <2>2, <2>3, <3>1
  <2> QED BY <1>2, <2>1, <2>2, <2>3, <2>4 DEF IsOlder
<1>6. Depends(u, s) BY <1>1, <1>5 DEF Depends
<1> QED BY <1>3, <1>4, <1>6 DEF Core

-----------------------------------------------------------------------------
\* The value of a load.

\* The bytes of an access, one by one.
LEMMA BytesIs ==
  ASSUME NEW m, NEW a \in Nat, NEW n \in Nat, NEW V, \A x \in a .. a + n - 1 : m[x] \in V
  PROVE  /\ Bytes(m, a, n) \in Seq(V) /\ Len(Bytes(m, a, n)) = n
         /\ \A i \in 1 .. n : Bytes(m, a, n)[i] = m[a + i - 1]
<1> DEFINE s == Bytes(m, a, n)
<1>1. s = [i \in 1 .. n |-> m[a + i - 1]] BY DEF Bytes
<1>2. \A i \in 1 .. n : s[i] = m[a + i - 1] BY <1>1
<1>3. ASSUME NEW i \in 1 .. n PROVE s[i] \in V
  <2>1. a + i - 1 \in a .. a + n - 1 OBVIOUS
  <2> QED BY <1>2, <2>1
<1>4. s \in [1 .. n -> V]
  <2>1. DOMAIN s = 1 .. n /\ s = [i \in 1 .. n |-> s[i]] BY <1>1
  <2> HIDE DEF s
  <2> QED BY <1>3, <2>1
<1> HIDE DEF s
<1>5. s \in Seq(V) /\ Len(s) = n BY <1>4
<1> QED BY <1>2, <1>5 DEF s

\* Two sequences joined, place by place.
LEMMA Joined ==
  ASSUME NEW V, NEW s \in Seq(V), NEW t \in Seq(V)
  PROVE  /\ s \o t \in Seq(V) /\ Len(s \o t) = Len(s) + Len(t)
         /\ \A i \in 1 .. Len(s) + Len(t) :
              (s \o t)[i] = IF i <= Len(s) THEN s[i] ELSE t[i - Len(s)]
  OBVIOUS

\* Two parts make the whole.
LEMMA BytesJoin ==
  ASSUME NEW m, NEW a \in Nat, NEW n \in Nat, NEW k \in 0 .. n
  PROVE  Bytes(m, a, k) \o Bytes(m, a + k, n - k) = Bytes(m, a, n)
<1>1. k \in Nat /\ n - k \in Nat /\ a + k \in Nat OBVIOUS
<1>2. PICK l \in Nat : l = n - k BY <1>1
<1>3. PICK e \in Nat : e = a + k BY <1>1
<1>4. PICK s : s = Bytes(m, a, k) OBVIOUS
<1>5. PICK t : t = Bytes(m, e, l) OBVIOUS
<1>6. PICK w : w = Bytes(m, a, n) OBVIOUS
<1>7. PICK V : \A x \in a .. a + n - 1 : m[x] \in V
  <2>1. \A x \in a .. a + n - 1 : m[x] \in {m[y] : y \in a .. a + n - 1} OBVIOUS
  <2> QED BY <2>1
<1>8. s \in Seq(V) /\ Len(s) = k /\ \A i \in 1 .. k : s[i] = m[a + i - 1]
  <2>1. \A x \in a .. a + k - 1 : m[x] \in V BY <1>7
  <2> QED BY <1>1, <1>4, <2>1, BytesIs
<1>9. t \in Seq(V) /\ Len(t) = l /\ \A i \in 1 .. l : t[i] = m[e + i - 1]
  <2>1. \A x \in e .. e + l - 1 : m[x] \in V BY <1>2, <1>3, <1>7
  <2> QED BY <1>5, <2>1, BytesIs
<1>10. w \in Seq(V) /\ Len(w) = n /\ \A i \in 1 .. n : w[i] = m[a + i - 1]
  BY <1>6, <1>7, BytesIs
<1>11. PICK j : j = s \o t OBVIOUS
<1>12. s \in Seq(V) /\ t \in Seq(V) /\ Len(s) = k /\ Len(t) = l BY <1>8, <1>9
<1>13. j \in Seq(V) /\ Len(j) = n
  <2>1. Len(j) = Len(s) + Len(t) /\ j \in Seq(V) BY <1>11, <1>12, Joined
  <2>2. k + l = n BY <1>2
  <2> QED BY <1>12, <2>1, <2>2
<1>14. ASSUME NEW i \in 1 .. n PROVE j[i] = w[i]
  <2>0. j[i] = IF i <= Len(s) THEN s[i] ELSE t[i - Len(s)]
    <3>1. i \in 1 .. Len(s) + Len(t) BY <1>2, <1>12
    <3> QED BY <1>11, <1>12, <3>1, Joined
  <2>1. CASE i <= k
    <3>1. i \in 1 .. k BY <2>1
    <3> QED BY <1>8, <1>10, <1>12, <2>0, <2>1, <3>1
  <2>2. CASE ~ (i <= k)
    <3>1. PICK h \in 1 .. l : h = i - k
      <4>1. i - k \in 1 .. l BY <1>2, <2>2
      <4> QED BY <4>1
    <3>2. j[i] = t[h] BY <1>12, <2>0, <2>2, <3>1
    <3>3. e + h - 1 = a + i - 1 BY <1>3, <3>1
    <3> QED BY <1>9, <1>10, <3>1, <3>2, <3>3
  <2> QED BY <2>1, <2>2
<1>15. j = w
  <2>1. Len(w) = n /\ w \in Seq(V) BY <1>10
  <2>2. DOMAIN j = 1 .. n /\ DOMAIN w = 1 .. n BY <1>13, <2>1
  <2>3. j = [i \in 1 .. n |-> j[i]] /\ w = [i \in 1 .. n |-> w[i]] BY <1>13, <2>1, <2>2
  <2> QED BY <1>14, <2>3
<1> QED BY <1>2, <1>3, <1>4, <1>5, <1>6, <1>11, <1>15

\* The bytes of a load whose request is on the way, or half answered, are those of memory:
\* no older store that waits writes one of them.
LEMMA LoadUntouched ==
  ASSUME NEW u, NEW r, NEW c, NEW m, NEW ct, NEW a, Core(u, r, c, a, m, ct), NEW b, RobOrder(r, b),
         AlignedZeros, u.load.valid, u.loadWaiting \/ u.load.state # "Normal",
         NEW i \in DOMAIN r, Carries(u.load, r[i]),
         NEW x \in u.load.op.addr .. u.load.op.addr + u.load.op.size - 1
  PROVE  /\ \A p \in Pending(u.storeQueue) : ~ Touches(u.storeQueue[p].op, x)
         /\ \A j \in DOMAIN r : j < i => ~ Touches(r[j].op, x)
         /\ r[i].op.kind = "Load" /\ u.load.op = r[i].op /\ x \in DOMAIN Contents0
<1> DEFINE q == u.storeQueue
<1>1. /\ Typed(u) /\ QueueInv(q, r, c) /\ LoadThere(u.load, r) /\ LoadAlone(u, c)
      /\ Origins(q) /\ Depends(u, r) /\ q \in Queue
  BY DEF Core, QueueInv
<1>2. r[i].op.kind = "Load" /\ Sent(r[i]) /\ r[i].op \in Operations
  <2>1. PICK j \in DOMAIN r : r[j].op.kind = "Load" /\ Sent(r[j]) /\ Carries(u.load, r[j])
    BY <1>1 DEF LoadThere
  <2>2. j = i BY <2>1 DEF RobOrder, Carries
  <2>3. r[i] \in RobEntry BY DEF RobOrder
  <2> QED BY <2>1, <2>2, <2>3 DEF RobEntry
<1>3. u.load.op = r[i].op /\ Sound(u.load.op) BY <1>2, SoundOperations DEF Carries
<1>4. x \in DOMAIN Contents0 BY <1>2, <1>3, OperationsAssumption
<1>5. ASSUME NEW p \in Full(q), IsOlder(q[p], r, u.load.tag) PROVE ~ Touches(q[p].op, x)
  <2>1. p \in 1 .. NStoreQueue /\ q[p].full BY <1>1, InQueue
  <2>2. ~ Overlaps(q[p], u.load.op) BY <1>1, <1>5, <2>1 DEF Depends
  <2>3. q[p].op \in CarriedOperations BY <1>1 DEF Origins
  <2>4. q[p].op \in Operation /\ (q[p].op.kind = "Zero" => q[p].op.addr % LineSize = 0
                                                          /\ q[p].op.size = LineSize)
    BY <2>3, CarriedAre
  <2> QED BY <1>3, <2>2, <2>4, ApartUntouched
<1>6. ASSUME NEW p \in Pending(q) PROVE ~ Touches(q[p].op, x)
  <2>1. p \in Full(q) /\ q[p].valid BY <1>1, InQueue
  <2> QED BY <1>5, <2>1 DEF IsOlder
<1>7. ASSUME NEW j \in DOMAIN r, j < i PROVE ~ Touches(r[j].op, x)
  <2> SUFFICES ASSUME IsWrite(r[j].op) PROVE ~ Touches(r[j].op, x)
    BY DEF IsWrite, Touches
  <2>1. Sent(r[j])
    <3>1. IsMemory(r[j].op) /\ IsMemory(r[i].op) BY <1>2, WriteIsMemory DEF IsMemory
    <3> QED BY <1>2, <1>7, <3>1 DEF RobOrder
  <2>2. ~ (c.valid /\ c.tag = r[j].tag)
    <3> SUFFICES ASSUME c.valid, c.tag = r[j].tag PROVE FALSE
      OBVIOUS
    <3>1. PICK l \in DOMAIN r : /\ Carries(c, r[l])
                                /\ \A k \in DOMAIN r : k > l /\ IsMemory(r[k].op) => ~ Sent(r[k])
      BY <1>1 DEF QueueInv, LastSent
    <3>2. l = j BY <3>1 DEF RobOrder, Carries
    <3>3. IsMemory(r[i].op) BY <1>2 DEF IsMemory
    <3>4. i > j BY <1>7
    <3> QED BY <1>2, <3>1, <3>2, <3>3, <3>4
  <2>3. PICK p \in Queued(q) : q[p].tag = r[j].tag
    BY <1>1, <2>1, <2>2 DEF QueueInv, StoresThere
  <2>4. PICK k \in DOMAIN r : Carries(q[p], r[k]) BY <1>1 DEF QueueInv, QueueOrder
  <2>5. k = j BY <2>3, <2>4 DEF RobOrder, Carries
  <2>6. IsOlder(q[p], r, u.load.tag) BY <1>7, <2>3 DEF IsOlder, Carries
  <2>7. p \in Full(q) BY DEF Queued
  <2>8. ~ Touches(q[p].op, x) BY <1>5, <2>6, <2>7
  <2>9. r[j] \in RobEntry BY DEF RobOrder
  <2>10. r[j].op \in Operations BY <2>9 DEF RobEntry
  <2> QED BY <2>4, <2>5, <2>8, <2>10, SoundOperations DEF Carries
<1> QED BY <1>2, <1>3, <1>4, <1>6, <1>7

\* What the program reads there, when the instructions that have retired leave ct.
Reads(r, i, ct) == Bytes(Effects(ct, Firsts(r, i - 1)), r[i].op.addr, r[i].op.size)

\* The bytes that the cache has for a load are those the program reads.
LEMMA LoadIsExact ==
  ASSUME NEW u, NEW r, NEW c, NEW m, NEW ct, NEW a, Core(u, r, c, a, m, ct), NEW b, RobOrder(r, b),
         WholeSingles, AlignedZeros, u.load.valid, u.loadWaiting \/ u.load.state # "Normal",
         NEW i \in DOMAIN r, Carries(u.load, r[i])
  PROVE  Reads(r, i, ct) = Bytes(m, r[i].op.addr, r[i].op.size)
<1> DEFINE q == u.storeQueue
           o == r[i].op
           k == Effects(ct, Firsts(r, i - 1))
<1>1. q \in Queue /\ m \in InMemory /\ ct = Effects(m, Ops(q))
  BY DEF Core, QueueInv, Memory
<1>2. r \in Seq(RobEntry) /\ DOMAIN r = 1 .. Len(r) /\ Len(r) \in Nat BY DEF RobOrder
<1>3. r[i] \in RobEntry BY <1>2
<1>4. o.addr \in Nat /\ o.size \in Nat BY <1>3, OperationsAre DEF RobEntry, Operation
<1>5. o = u.load.op
  <2>1. LoadThere(u.load, r) BY DEF Core
  <2>2. PICK j \in DOMAIN r : r[j].op.kind = "Load" /\ Carries(u.load, r[j])
    BY <2>1 DEF LoadThere
  <2>3. j = i BY <2>2 DEF RobOrder, Carries
  <2> QED BY <2>2, <2>3 DEF Carries, Carried
<1>6. /\ DOMAIN Firsts(r, i - 1) = 1 .. i - 1 /\ i - 1 \in Nat
      /\ \A j \in 1 .. i - 1 : Firsts(r, i - 1)[j] = r[j].op /\ j \in DOMAIN r /\ j < i
  BY <1>2 DEF Firsts
<1>7. DOMAIN m = DOMAIN Contents0 BY <1>1 DEF InMemory
<1>8. DOMAIN ct = DOMAIN m BY <1>1, EffectsDomain
<1>9. ASSUME NEW x \in o.addr .. o.addr + o.size - 1 PROVE k[x] = m[x]
  <2>0. x \in u.load.op.addr .. u.load.op.addr + u.load.op.size - 1 BY <1>5
  <2>1. /\ \A p \in Pending(q) : ~ Touches(q[p].op, x)
        /\ \A j \in DOMAIN r : j < i => ~ Touches(r[j].op, x)
        /\ x \in DOMAIN m
    BY <1>7, <2>0, LoadUntouched
  <2>2. ct[x] = m[x]
    <3>1. \A d \in DOMAIN Ops(q) : ~ Touches(Ops(q)[d], x) BY <1>1, <2>1, PendingRange
    <3>2. DOMAIN Ops(q) \subseteq 0 .. NStoreQueue /\ NStoreQueue \in Nat BY <1>1, PendingRange
    <3> QED BY <1>1, <2>1, <3>1, <3>2, EffectsNone
  <2>3. k[x] = ct[x]
    <3>1. \A d \in DOMAIN Firsts(r, i - 1) : ~ Touches(Firsts(r, i - 1)[d], x) BY <1>6, <2>1
    <3>2. DOMAIN Firsts(r, i - 1) \subseteq 0 .. i - 1 BY <1>6
    <3> QED BY <1>6, <1>8, <2>1, <3>1, <3>2, EffectsNone
  <2> QED BY <2>2, <2>3
<1> HIDE DEF k
<1>10. Bytes(k, o.addr, o.size) = Bytes(m, o.addr, o.size)
  <2>1. PICK f \in Nat : f = o.addr BY <1>4
  <2>2. PICK n \in Nat : n = o.size BY <1>4
  <2>3. \A j \in 1 .. n : k[f + j - 1] = m[f + j - 1]
    <3> SUFFICES ASSUME NEW j \in 1 .. n PROVE k[f + j - 1] = m[f + j - 1]
      OBVIOUS
    <3>1. f + j - 1 \in f .. f + n - 1 OBVIOUS
    <3> QED BY <1>9, <2>1, <2>2, <3>1
  <2>4. Bytes(k, f, n) = Bytes(m, f, n) BY <2>3 DEF Bytes
  <2> QED BY <2>1, <2>2, <2>4
<1> QED BY <1>10 DEF k, Reads

\* What the cache answers to the request of the unit.
Answer(u, m) ==
  IF u.dcache.kind = "Load" THEN Bytes(m, u.dcache.addr, u.dcache.size) ELSE <<>>

\* The bytes a load waits for.
LEMMA AnswerIs ==
  ASSUME NEW u, NEW r, NEW c, NEW m, NEW ct, NEW a, Core(u, r, c, a, m, ct),
         u.load.valid, u.loadWaiting
  PROVE  LET o == u.load.op
         IN  /\ o \in Operation /\ o.kind = "Load" /\ u.load.state \in Halfway
             /\ u.load.state # "Normal" => Crosses(o)
             /\ u.load.state = "Msb" => Answer(u, m) = Bytes(m, o.addr, FirstPart(o))
             /\ u.load.state = "Lsb" =>
                  Answer(u, m) = Bytes(m, o.addr + FirstPart(o), o.size - FirstPart(o))
             /\ u.load.state = "Normal" => Answer(u, m) = Bytes(m, o.addr, o.size)
<1> DEFINE o == u.load.op
<1>1. /\ Typed(u) /\ LoadThere(u.load, r) /\ Asks(u) BY DEF Core
<1>2. o \in Operation /\ u.load.state \in Halfway BY <1>1 DEF Typed
<1>3. o.kind = "Load"
  <2>1. PICK j \in DOMAIN r : r[j].op.kind = "Load" /\ Carries(u.load, r[j])
    BY <1>1 DEF LoadThere
  <2> QED BY <2>1 DEF Carries, Carried
<1>4. /\ u.dcache = RequestOf(o, u.load.state) /\ u.dcache.kind = "Load"
      /\ u.load.state # "Normal" => Crosses(o)
  BY <1>1 DEF Asks
<1>5. /\ u.dcache.addr = IF u.load.state = "Lsb" THEN o.addr + FirstPart(o) ELSE o.addr
      /\ u.dcache.size = IF u.load.state = "Lsb" THEN o.size - FirstPart(o)
                         ELSE IF u.load.state = "Msb" THEN FirstPart(o) ELSE o.size
  BY <1>2, <1>3, <1>4, RequestReads
<1>6. Answer(u, m) = Bytes(m, u.dcache.addr, u.dcache.size) BY <1>4 DEF Answer
<1> HIDE DEF o
<1>7. /\ u.load.state = "Msb" => Answer(u, m) = Bytes(m, o.addr, FirstPart(o))
      /\ u.load.state = "Lsb" =>
           Answer(u, m) = Bytes(m, o.addr + FirstPart(o), o.size - FirstPart(o))
      /\ u.load.state = "Normal" => Answer(u, m) = Bytes(m, o.addr, o.size)
  BY <1>5, <1>6
<1> QED BY <1>2, <1>3, <1>4, <1>7 DEF o

\* The unit is told the answer.
LEMMA CoreForward ==
  ASSUME NEW u, NEW r, NEW c, NEW m, NEW ct, Core(u, r, c, FALSE, m, ct),
         NEW v, v = Forward(u, Answer(u, m))
  PROVE  Core(v, r, c, TRUE, m, ct)
<1>1. /\ Typed(u) /\ c \in Packet
      /\ QueueInv(u.storeQueue, r, c) /\ LoadThere(u.load, r) /\ LoadAlone(u, c)
      /\ Asks(u) /\ Origins(u.storeQueue) /\ Depends(u, r)
      /\ WholeSingles => Memory(u.storeQueue, m, ct)
      /\ WholeSingles /\ AlignedZeros => Halves(u, m, FALSE)
  BY DEF Core
<1>0. PICK data : data = Answer(u, m) OBVIOUS
<1>2. /\ Typed(v) /\ SameLoad(u, v) /\ v.storeQueue = u.storeQueue
      /\ v.storeWaiting = u.storeWaiting /\ v.dcache = u.dcache /\ Answered(u, v, data)
  <2>1. Typed(u) /\ v = Forward(u, data) BY <1>0, <1>1
  <2> QED BY <2>1, ForwardStep
<1>3. LoadThere(v.load, r) BY <1>1, <1>2 DEF LoadThere, SameLoad, Carries
<1>4. LoadAlone(v, c) BY <1>1, <1>2 DEF LoadAlone, SameLoad
<1>5. Asks(v) BY <1>1, <1>2 DEF Asks, SameLoad
<1>6. Depends(v, r) BY <1>1, <1>2 DEF Depends, SameLoad
<1>7. ASSUME WholeSingles, AlignedZeros PROVE Halves(v, m, TRUE)
  <2> SUFFICES ASSUME v.load.valid, ~ (v.loadWaiting /\ v.load.state # "Msb")
               PROVE  v.load.data = IF v.load.state = "Lsb" \/ v.load.state = "Msb"
                                    THEN Bytes(m, v.load.op.addr, FirstPart(v.load.op)) ELSE <<>>
    BY DEF Halves
  <2>1. u.load.valid /\ v.load.op = u.load.op /\ v.load.state = u.load.state
        /\ v.loadWaiting = u.loadWaiting
    BY <1>2 DEF SameLoad
  <2>2. ~ Answering(u, TRUE) BY <2>1 DEF Answering
  <2>3. CASE u.loadWaiting
    <3>1. u.load.state = "Msb" BY <2>1, <2>3
    <3>2. v.load.data = Answer(u, m) BY <1>0, <1>2, <2>1, <2>2, <2>3 DEF Answered
    <3>3. Answer(u, m) = Bytes(m, u.load.op.addr, FirstPart(u.load.op))
      BY <2>1, <2>3, <3>1, AnswerIs
    <3> QED BY <2>1, <3>1, <3>2, <3>3
  <2>4. CASE ~ u.loadWaiting
    <3>1. v.load.data = u.load.data BY <1>2, <2>2, <2>4 DEF Answered
    <3>2. u.load.state # "Msb" BY <1>1, <2>4 DEF Asks
    <3>3. Halves(u, m, FALSE) BY <1>1, <1>7
    <3>4. u.load.data = IF u.load.state = "Lsb"
                        THEN Bytes(m, u.load.op.addr, FirstPart(u.load.op)) ELSE <<>>
      BY <2>1, <3>2, <3>3 DEF Halves
    <3> QED BY <2>1, <3>1, <3>2, <3>4
  <2> QED BY <2>3, <2>4
<1> QED BY <1>1, <1>2, <1>3, <1>4, <1>5, <1>6, <1>7 DEF Core

\* The answer completes the bytes of a load.
LEMMA AnswerIsWhole ==
  ASSUME NEW u, NEW r, NEW c, NEW m, NEW ct, NEW a, a = FALSE, Core(u, r, c, a, m, ct),
         WholeSingles, AlignedZeros,
         u.load.valid, u.loadWaiting, u.load.state # "Msb", NEW v, v = Forward(u, Answer(u, m))
  PROVE  v.result = Bytes(m, u.load.op.addr, u.load.op.size)
<1> DEFINE o == u.load.op
<1>1. Typed(u) /\ Halves(u, m, FALSE) BY DEF Core
<1>2. v.result = u.load.data \o Answer(u, m)
  <2>1. PICK data : data = Answer(u, m) OBVIOUS
  <2>2. Typed(u) /\ v = Forward(u, data) BY <1>1, <2>1
  <2>3. Answered(u, v, data) BY <2>2, ForwardStep
  <2> QED BY <2>1, <2>3 DEF Answered, Answering
<1>3. /\ o \in Operation /\ u.load.state \in Halfway
      /\ u.load.state # "Normal" => Crosses(o)
      /\ u.load.state = "Lsb" =>
           Answer(u, m) = Bytes(m, o.addr + FirstPart(o), o.size - FirstPart(o))
      /\ u.load.state = "Normal" => Answer(u, m) = Bytes(m, o.addr, o.size)
  BY AnswerIs
<1>4. o.addr \in Nat /\ o.size \in Nat BY <1>3 DEF Operation
<1>5. u.load.data = IF u.load.state = "Lsb" THEN Bytes(m, o.addr, FirstPart(o)) ELSE <<>>
  BY <1>1 DEF Halves
<1>6. CASE u.load.state = "Lsb"
  <2>1. FirstPart(o) \in 1 .. o.size - 1 BY <1>3, <1>6, Parts
  <2>2. PICK k \in 0 .. o.size : k = FirstPart(o) BY <1>4, <2>1
  <2>3. Bytes(m, o.addr, k) \o Bytes(m, o.addr + k, o.size - k) = Bytes(m, o.addr, o.size)
    BY <1>4, BytesJoin
  <2>4. u.load.data = Bytes(m, o.addr, k) BY <1>5, <1>6, <2>2
  <2>5. Answer(u, m) = Bytes(m, o.addr + k, o.size - k) BY <1>3, <1>6, <2>2
  <2> QED BY <1>2, <2>3, <2>4, <2>5
<1>7. CASE u.load.state = "Normal"
  <2>1. PICK s : s = Bytes(m, o.addr, o.size) OBVIOUS
  <2>2. PICK V : \A x \in o.addr .. o.addr + o.size - 1 : m[x] \in V
    <3>1. \A x \in o.addr .. o.addr + o.size - 1 :
            m[x] \in {m[y] : y \in o.addr .. o.addr + o.size - 1}
      OBVIOUS
    <3> QED BY <3>1
  <2>3. s \in Seq(V) BY <1>4, <2>1, <2>2, BytesIs
  <2>4. <<>> \o s = s BY <2>3
  <2> QED BY <1>2, <1>3, <1>5, <1>7, <2>1, <2>4
<1> QED BY <1>3, <1>6, <1>7 DEF Halfway

-----------------------------------------------------------------------------
\* The falling edge.

\* What a byte that an operation writes becomes.
LEMMA ByteIs ==
  ASSUME NEW o, Sound(o), NEW x \in Nat, Touches(o, x)
  PROVE  ByteOf(o, x) \in Byte
<1>1. CASE o.kind = "Zero" BY <1>1 DEF ByteOf, Byte
<1>2. CASE o.kind = "Store" /\ x \in o.addr .. o.addr + o.size - 1
  <2>1. o.data \in Seq(Byte) /\ Len(o.data) = o.size /\ o.addr \in Nat /\ o.size \in Nat
    BY <1>2 DEF Sound, Operation
  <2>2. x - o.addr + 1 \in 1 .. Len(o.data) BY <1>2, <2>1
  <2>3. o.data[x - o.addr + 1] \in Byte BY <2>1, <2>2
  <2> QED BY <1>2, <2>3 DEF ByteOf
<1> QED BY <1>1, <1>2 DEF Touches

\* Memory, when the cache has taken a part or all of the first store.
LEMMA MemoryServed ==
  ASSUME NEW q \in Queue, NEW m, NEW ct, Memory(q, m, ct), WholeSingles, Origins(q),
         q[1].full, q[1].valid, q[1].state = StateOf(q[1].op, q[1].state),
         q[1].state # "Normal" => Crosses(q[1].op) /\ q[1].op.kind = "Store",
         NEW request, request = RequestOf(q[1].op, q[1].state),
         NEW w \in Queue, \A p \in 2 .. NStoreQueue : w[p] = q[p],
         w[1] = IF q[1].state = "Msb" THEN [q[1] EXCEPT !.state = "Lsb"] ELSE Free
  PROVE  Memory(w, Effect(m, request), ct)
<1>1. PICK o : o = q[1].op OBVIOUS
<1>2. PICK state : state = q[1].state OBVIOUS
<1>3. PICK k : k = Effect(m, request) OBVIOUS
<1>4. q[1] \in Entry /\ 1 \in 1 .. NStoreQueue /\ NStoreQueue \in Nat BY One DEF Queue
<1>5. state \in Halfway BY <1>2, <1>4 DEF Entry
<1>6. 1 \in Full(q) /\ 1 \in Pending(q) BY <1>4, InQueue
<1>7. IsWrite(o) /\ o \in CarriedOperations BY <1>1, <1>6 DEF Origins
<1>8. Sound(o) /\ (o.kind = "Store" => ~ (o.single /\ Crosses(o))) BY <1>7, CarriedAre
<1>9. ASSUME NEW x \in Nat
      PROVE  /\ Touches(request, x) <=> Touches(o, x) /\ InPart(o, state, x)
             /\ Touches(request, x) => ByteOf(request, x) = ByteOf(o, x)
  <2>1. state = StateOf(o, state) /\ (state # "Normal" => Crosses(o) /\ o.kind = "Store")
    BY <1>1, <1>2
  <2>2. request = RequestOf(o, state) BY <1>1, <1>2
  <2> QED BY <1>5, <1>7, <1>8, <2>1, <2>2, RequestWrites
<1>10. m \in InMemory /\ ct = Effects(m, Ops(q)) BY DEF Memory
<1>11. DOMAIN m = DOMAIN Contents0 /\ DOMAIN m \subseteq Nat /\ \A x \in DOMAIN m : m[x] \in Byte
  BY <1>10, OperationsAssumption DEF InMemory
<1>12. /\ DOMAIN k = DOMAIN m /\ k = [x \in DOMAIN m |-> k[x]]
       /\ \A x \in DOMAIN m : k[x] = IF Touches(request, x) THEN ByteOf(request, x) ELSE m[x]
  BY <1>3 DEF Effect
<1>13. ASSUME NEW x \in DOMAIN m
       PROVE  k[x] = IF Touches(o, x) /\ InPart(o, state, x) THEN ByteOf(o, x) ELSE m[x]
  <2>1. x \in Nat BY <1>11
  <2> QED BY <1>9, <1>12, <2>1
<1>14. k \in InMemory
  <2>1. ASSUME NEW x \in DOMAIN m PROVE k[x] \in Byte
    <3>1. x \in Nat BY <1>11
    <3> QED BY <1>8, <1>11, <1>13, <3>1, ByteIs
  <2> QED BY <1>11, <1>12, <2>1 DEF InMemory
<1>15. o.addr \in Nat /\ FirstPart(o) \in Nat
  <2>1. o \in Operation BY <1>8 DEF Sound
  <2>2. FirstPart(o) \in 1 .. LineSize /\ LineSize \in Nat BY <2>1, Parts, LoadStoreAssumption
  <2> QED BY <2>1, <2>2 DEF Operation
<1>16. DOMAIN Ops(q) = Pending(q) /\ DOMAIN Ops(q) \subseteq 0 .. NStoreQueue
       /\ \A p \in Pending(q) : Ops(q)[p] = q[p].op /\ p \in 1 .. NStoreQueue
  BY PendingRange
<1>17. DOMAIN Ops(w) = Pending(w) /\ \A p \in Pending(w) : Ops(w)[p] = w[p].op /\ p \in 1 .. NStoreQueue
  BY PendingRange
<1>18. \A p \in 1 .. NStoreQueue : p # 1 => p \in 2 .. NStoreQueue BY <1>4
<1>19. CASE state = "Msb"
  <2>1. w[1] = [q[1] EXCEPT !.state = "Lsb"] BY <1>2, <1>19
  <2>2. w[1].full /\ w[1].valid /\ w[1].op = o /\ w[1].state = "Lsb"
    BY <1>1, <1>4, <2>1 DEF Entry
  <2>3. \A p \in 1 .. NStoreQueue : /\ w[p].full = q[p].full /\ w[p].valid = q[p].valid
                                    /\ w[p].op = q[p].op
    BY <1>1, <1>4, <1>18, <2>1 DEF Entry
  <2>4. Pending(w) = Pending(q) BY <2>3, SameQueued
  <2>5. Ops(w) = Ops(q) BY <1>16, <1>17, <2>3, <2>4 DEF Ops
  <2>6. \A x \in DOMAIN m : Touches(Ops(q)[1], x) \/ k[x] = m[x]
    BY <1>1, <1>6, <1>13, <1>16
  <2>7. Effects(k, Ops(q)) = Effects(m, Ops(q))
    BY <1>4, <1>6, <1>12, <1>16, <2>6, EffectsCovered
  <2>8. ASSUME NEW x \in DOMAIN k, Touches(w[1].op, x), x < w[1].op.addr + FirstPart(w[1].op)
        PROVE  k[x] = ByteOf(w[1].op, x)
    <3>1. InPart(o, state, x) BY <1>19, <2>2, <2>8 DEF InPart
    <3> QED BY <1>12, <1>13, <2>2, <2>8, <3>1
  <2> QED BY <1>3, <1>10, <1>14, <2>5, <2>7, <2>8 DEF Memory
<1>20. CASE state # "Msb"
  <2>1. w[1] = Free BY <1>2, <1>20
  <2>2. ~ w[1].full /\ w[1].state # "Lsb" BY <2>1, FreeIs
  <2>3. \A p \in Pending(w) : p # 1 /\ p \in 2 .. NStoreQueue
    BY <1>18, <2>2, InQueue
  <2>4. Pending(w) = Pending(q) \ {1}
    <3>1. ASSUME NEW p \in Pending(w) PROVE p \in Pending(q) \ {1}
      BY <2>3, <3>1, InQueue
    <3>2. ASSUME NEW p \in Pending(q) \ {1} PROVE p \in Pending(w)
      <4>1. p \in 2 .. NStoreQueue BY <1>18, <3>2, InQueue
      <4> QED BY <3>2, <4>1, InQueue
    <3> QED BY <3>1, <3>2
  <2>5. ASSUME NEW d \in DOMAIN Ops(w) PROVE Ops(q)[d] = Ops(w)[d] /\ 1 < d
    <3>1. d \in Pending(w) /\ d \in Pending(q) BY <1>17, <2>4
    <3>2. d \in 2 .. NStoreQueue BY <2>3, <3>1
    <3> QED BY <1>16, <1>17, <3>1, <3>2
  <2>6. ASSUME NEW x \in DOMAIN m
        PROVE  k[x] = IF Touches(Ops(q)[1], x) THEN ByteOf(Ops(q)[1], x) ELSE m[x]
    <3>1. Ops(q)[1] = o BY <1>1, <1>6, <1>16
    <3>2. CASE InPart(o, state, x) BY <1>13, <3>1, <3>2
    <3>3. CASE ~ InPart(o, state, x)
      <4>1. state = "Lsb" /\ x \in Nat /\ ~ (x >= o.addr + FirstPart(o))
        BY <1>11, <1>20, <3>3 DEF InPart
      <4>2. x < o.addr + FirstPart(o) BY <1>15, <4>1
      <4>3. Touches(o, x) => m[x] = ByteOf(o, x) BY <1>1, <1>2, <4>1, <4>2 DEF Memory
      <4> QED BY <1>13, <3>1, <3>3, <4>3
    <3> QED BY <3>2, <3>3
  <2>7. Effects(k, Ops(w)) = Effects(m, Ops(q))
    <3>1. DOMAIN Ops(w) = DOMAIN Ops(q) \ {1} /\ 1 \in DOMAIN Ops(q) BY <1>6, <1>16, <1>17, <2>4
    <3> QED BY <1>4, <1>12, <1>16, <2>5, <2>6, <3>1, EffectsFirst
  <2> QED BY <1>3, <1>10, <1>14, <2>2, <2>7 DEF Memory
<1> QED BY <1>19, <1>20

\* The cache has taken a part or all of the first store.
LEMMA CoreStoreServed ==
  ASSUME NEW u, NEW r, NEW c, NEW m, NEW ct, Core(u, r, c, TRUE, m, ct), u.storeWaiting,
         NEW b, RobOrder(r, b), NEW v, v = StoreServed(u), NEW k, k = Effect(m, u.dcache)
  PROVE  Core(v, r, c, FALSE, k, ct)
<1> DEFINE q == u.storeQueue
           w == v.storeQueue
<1>1. /\ Typed(u) /\ c \in Packet /\ QueueInv(q, r, c) /\ LoadThere(u.load, r) /\ LoadAlone(u, c)
      /\ Asks(u) /\ Origins(q) /\ Depends(u, r)
      /\ WholeSingles => Memory(q, m, ct)
      /\ WholeSingles /\ AlignedZeros => Halves(u, m, TRUE)
  BY DEF Core
<1>2. /\ ~ u.loadWaiting /\ q[1].full /\ q[1].valid
      /\ q[1].state = StateOf(q[1].op, q[1].state)
      /\ u.dcache = RequestOf(q[1].op, q[1].state)
      /\ q[1].state # "Normal" => Crosses(q[1].op) /\ q[1].op.kind = "Store"
      /\ u.load.state # "Msb"
      /\ u.load.valid /\ u.load.state # "Normal" => Crosses(u.load.op)
  BY <1>1 DEF Asks
<1>3. /\ Typed(v) /\ SameOthers(u, v) /\ v.load = u.load
      /\ v.loadWaiting = u.loadWaiting /\ ~ v.storeWaiting /\ v.dcache = NoRequest
      /\ w \in Queue
      /\ \A p \in 2 .. NStoreQueue : w[p] = q[p]
      /\ w[1] = IF q[1].state = "Msb" THEN [q[1] EXCEPT !.state = "Lsb"] ELSE Free
  <2>1. Typed(u) BY <1>1
  <2> QED BY <2>1, StoreServedStep
<1> HIDE DEF q, w
<1>4. q \in Queue /\ 1 \in 1 .. NStoreQueue /\ NStoreQueue \in Nat
      /\ \A p \in 1 .. NStoreQueue : p # 1 => p \in 2 .. NStoreQueue
  BY <1>1, One DEF QueueInv
<1>5. QueueInv(w, r, c) BY <1>1, <1>2, <1>3, QueueServed
<1>6. \A p \in 1 .. NStoreQueue : w[p].full =>
        /\ q[p].full /\ w[p].valid = q[p].valid /\ w[p].op = q[p].op /\ w[p].tag = q[p].tag
        /\ w[p].dependentLoadTag = q[p].dependentLoadTag
  <2> SUFFICES ASSUME NEW p \in 1 .. NStoreQueue, w[p].full
               PROVE  /\ q[p].full /\ w[p].valid = q[p].valid /\ w[p].op = q[p].op
                      /\ w[p].tag = q[p].tag /\ w[p].dependentLoadTag = q[p].dependentLoadTag
    OBVIOUS
  <2>1. CASE p # 1 BY <1>3, <1>4, <2>1
  <2>2. CASE p = 1
    <3>1. w[1] = [q[1] EXCEPT !.state = "Lsb"] BY <1>3, <2>2, FreeIs
    <3>2. q[1] \in Entry BY <1>4 DEF Queue
    <3> QED BY <1>2, <2>2, <3>1, <3>2 DEF Entry
  <2> QED BY <2>1, <2>2
<1>7. LoadAlone(v, c) BY <1>1, <1>3 DEF LoadAlone
<1>8. Asks(v)
  <2>1. w[1].state # "Normal" => /\ w[1].state = "Lsb" /\ w[1].op = q[1].op
                                 /\ q[1].state # "Normal"
    <3>1. q[1] \in Entry BY <1>4 DEF Queue
    <3> QED BY <1>3, <3>1, FreeIs DEF Entry
  <2>2. ~ v.dcache.req BY <1>3 DEF NoRequest
  <2> QED BY <1>2, <1>3, <2>1, <2>2 DEF Asks, w
<1>9. Origins(w)
  <2>1. \A p \in Full(w) : p \in 1 .. NStoreQueue /\ w[p].full BY <1>3, InQueue
  <2>2. \A p \in Full(w) : p \in Full(q) /\ w[p].op = q[p].op BY <1>4, <1>6, <2>1, InQueue
  <2> QED BY <1>1, <2>2 DEF Origins
<1>10. Depends(v, r)
  <2> SUFFICES ASSUME v.load.valid, NEW p \in 1 .. NStoreQueue, w[p].full,
                      IsOlder(w[p], r, v.load.tag), Overlaps(w[p], v.load.op)
               PROVE  w[p].dependentLoadTag = v.load.tag /\ ~ v.loadWaiting
                      /\ v.load.state = "Normal"
    BY DEF Depends, w
  <2>1. q[p].full /\ IsOlder(q[p], r, u.load.tag) /\ Overlaps(q[p], u.load.op)
    BY <1>3, <1>6 DEF IsOlder, Overlaps
  <2> QED BY <1>1, <1>3, <1>6, <2>1 DEF Depends, q
<1>11. ASSUME WholeSingles PROVE Memory(w, k, ct)
  <2>1. Memory(q, m, ct) BY <1>1, <1>11
  <2>2. PICK request : request = u.dcache OBVIOUS
  <2>3. k = Effect(m, request) /\ request = RequestOf(q[1].op, q[1].state) BY <1>2, <2>2
  <2>4. Memory(w, Effect(m, request), ct)
    BY <1>1, <1>2, <1>3, <1>4, <1>11, <2>1, <2>3, MemoryServed
  <2> QED BY <2>3, <2>4
<1>12. ASSUME WholeSingles, AlignedZeros PROVE Halves(v, k, FALSE)
  <2> SUFFICES ASSUME u.load.valid
               PROVE  u.load.data = IF u.load.state = "Lsb"
                                    THEN Bytes(k, u.load.op.addr, FirstPart(u.load.op)) ELSE <<>>
    BY <1>2, <1>3 DEF Halves
  <2>1. u.load.data = IF u.load.state = "Lsb"
                      THEN Bytes(m, u.load.op.addr, FirstPart(u.load.op)) ELSE <<>>
    BY <1>1, <1>2, <1>12 DEF Halves
  <2>2. ASSUME u.load.state = "Lsb"
        PROVE  Bytes(k, u.load.op.addr, FirstPart(u.load.op))
                 = Bytes(m, u.load.op.addr, FirstPart(u.load.op))
    <3>1. PICK o : o = u.load.op OBVIOUS
    <3>2. Crosses(o) /\ o \in Operation BY <1>1, <1>2, <2>2, <3>1 DEF Typed
    <3>3. PICK n \in Nat : n = FirstPart(o) /\ n <= o.size - 1
      <4>1. FirstPart(o) \in 1 .. o.size - 1 /\ o.size \in Nat BY <3>2, Parts DEF Operation
      <4> QED BY <4>1
    <3>4. PICK f \in Nat : f = o.addr BY <3>2 DEF Operation
    <3>5. PICK i \in DOMAIN r : Carries(u.load, r[i]) BY <1>1 DEF LoadThere
    <3>6. ASSUME NEW x \in f .. f + n - 1 PROVE k[x] = m[x]
      <4>1. x \in u.load.op.addr .. u.load.op.addr + u.load.op.size - 1
        BY <3>1, <3>2, <3>3, <3>4 DEF Operation
      <4>2. u.load.valid /\ (u.loadWaiting \/ u.load.state # "Normal") BY <2>2
      <4>3. PICK a : Core(u, r, c, a, m, ct) BY Zenon
      <4>4. /\ \A p \in Pending(q) : ~ Touches(q[p].op, x)
            /\ x \in DOMAIN Contents0
        BY <1>12, <3>5, <4>1, <4>2, <4>3, LoadUntouched DEF q
      <4>5. 1 \in Pending(q) /\ 1 \in Full(q) BY <1>2, <1>4, InQueue
      <4>6. IsWrite(q[1].op) /\ q[1].op \in CarriedOperations BY <1>1, <4>5 DEF Origins
      <4>7. Sound(q[1].op) /\ (q[1].op.kind = "Store" => ~ (q[1].op.single /\ Crosses(q[1].op)))
        BY <1>12, <4>6, CarriedAre
      <4>8. ~ Touches(u.dcache, x)
        <5>1. q[1].state \in Halfway BY <1>4 DEF Queue, Entry
        <5>2. PICK e : e = q[1].op OBVIOUS
        <5>3. PICK s : s = q[1].state OBVIOUS
        <5>4. /\ Sound(e) /\ IsWrite(e) /\ s \in Halfway /\ s = StateOf(e, s)
              /\ s # "Normal" => Crosses(e) /\ e.kind = "Store"
              /\ e.kind = "Store" => ~ (e.single /\ Crosses(e))
              /\ x \in Nat
          BY <1>2, <4>6, <4>7, <5>1, <5>2, <5>3
        <5>5. Touches(RequestOf(e, s), x) => Touches(e, x) BY <5>4, RequestWrites
        <5> QED BY <1>2, <4>4, <4>5, <5>2, <5>3, <5>5
      <4>9. x \in DOMAIN m
        <5>1. Memory(q, m, ct) BY <1>1, <1>12
        <5> QED BY <4>4, <5>1 DEF Memory, InMemory
      <4> QED BY <4>8, <4>9 DEF Effect
    <3>7. \A i1 \in 1 .. n : k[f + i1 - 1] = m[f + i1 - 1]
      <4> SUFFICES ASSUME NEW j \in 1 .. n PROVE k[f + j - 1] = m[f + j - 1]
        OBVIOUS
      <4>1. f + j - 1 \in f .. f + n - 1 OBVIOUS
      <4> QED BY <3>6, <4>1
    <3>8. Bytes(k, f, n) = Bytes(m, f, n) BY <3>7 DEF Bytes
    <3> QED BY <3>1, <3>3, <3>4, <3>8
  <2> QED BY <2>1, <2>2
<1> QED BY <1>1, <1>3, <1>5, <1>7, <1>8, <1>9, <1>10, <1>11, <1>12 DEF Core, w

\* The cache has answered a part or all of the load.
LEMMA CoreLoadServed ==
  ASSUME NEW u, NEW r, NEW c, NEW m, NEW ct, Core(u, r, c, TRUE, m, ct),
         u.loadWaiting, ~ u.storeWaiting, NEW v, v = LoadServed(u), NEW k, k = Effect(m, u.dcache)
  PROVE  Core(v, r, c, FALSE, k, ct)
<1>1. /\ Typed(u) /\ c \in Packet /\ QueueInv(u.storeQueue, r, c) /\ LoadThere(u.load, r)
      /\ LoadAlone(u, c) /\ Asks(u) /\ Origins(u.storeQueue) /\ Depends(u, r)
      /\ WholeSingles => Memory(u.storeQueue, m, ct)
      /\ WholeSingles /\ AlignedZeros => Halves(u, m, TRUE)
  BY DEF Core
<1>2. /\ Typed(v) /\ SameOthers(u, v) /\ v.storeQueue = u.storeQueue
      /\ ~ v.loadWaiting /\ v.storeWaiting = u.storeWaiting /\ v.dcache = NoRequest
      /\ v.load = IF u.load.state = "Msb" /\ u.load.valid
                  THEN [u.load EXCEPT !.state = "Lsb"] ELSE NoLoad
  <2>1. Typed(u) BY <1>1
  <2> QED BY <2>1, LoadServedStep
<1>3. \/ /\ ~ v.load.valid /\ v.load.state = "Normal"
      \/ /\ u.load.state = "Msb" /\ u.load.valid /\ v.load.valid /\ v.load.state = "Lsb"
         /\ v.load.tag = u.load.tag /\ v.load.op = u.load.op /\ v.load.data = u.load.data
         /\ v.load.branchCounter = u.load.branchCounter
  <2>1. CASE u.load.state = "Msb" /\ u.load.valid
    <3>1. v.load = [u.load EXCEPT !.state = "Lsb"] BY <1>2, <2>1
    <3>2. u.load \in [valid : BOOLEAN, tag : Tag \cup {None}, op : Operation,
                      branchCounter : Nat, state : Halfway, data : {u.load.data}]
      BY <1>1 DEF Typed
    <3> QED BY <2>1, <3>1, <3>2
  <2>2. CASE ~ (u.load.state = "Msb" /\ u.load.valid)
    BY <1>2, <2>2, NoLoadIs
  <2> QED BY <2>1, <2>2
<1>4. LoadThere(v.load, r) BY <1>1, <1>3 DEF LoadThere, Carries
<1>5. LoadAlone(v, c) BY <1>1, <1>2, <1>3 DEF LoadAlone
<1>6. Asks(v)
  <2>1. ~ v.dcache.req BY <1>2 DEF NoRequest
  <2> QED BY <1>1, <1>2, <1>3, <2>1 DEF Asks
<1>7. Depends(v, r)
  <2> SUFFICES ASSUME v.load.valid, NEW p \in 1 .. NStoreQueue, u.storeQueue[p].full,
                      IsOlder(u.storeQueue[p], r, v.load.tag),
                      Overlaps(u.storeQueue[p], v.load.op)
               PROVE  FALSE
    BY <1>2 DEF Depends
  <2>1. u.load.valid /\ v.load.tag = u.load.tag /\ v.load.op = u.load.op BY <1>3
  <2>2. ~ u.loadWaiting BY <1>1, <2>1 DEF Depends
  <2> QED BY <2>2
<1>8. ASSUME WholeSingles PROVE k = m
  <2>1. m \in InMemory BY <1>1, <1>8 DEF Memory
  <2>2. m = [x \in DOMAIN m |-> m[x]] BY <2>1 DEF InMemory
  <2>3. u.dcache.kind = "Load" BY <1>1 DEF Asks
  <2>4. \A x : ~ Touches(u.dcache, x) BY <2>3 DEF Touches
  <2>5. k = [x \in DOMAIN m |-> m[x]] BY <2>4 DEF Effect
  <2> QED BY <2>2, <2>5
<1>9. ASSUME WholeSingles PROVE Memory(v.storeQueue, k, ct)
  BY <1>1, <1>2, <1>8, <1>9
<1>10. ASSUME WholeSingles, AlignedZeros PROVE Halves(v, k, FALSE)
  <2>1. k = m BY <1>8, <1>10
  <2>2. Halves(u, m, TRUE) BY <1>1, <1>10
  <2> SUFFICES ASSUME v.load.valid
               PROVE  v.load.data = Bytes(m, v.load.op.addr, FirstPart(v.load.op))
    BY <1>2, <1>3, <2>1 DEF Halves
  <2>3. u.load.state = "Msb" /\ u.load.valid /\ v.load.op = u.load.op /\ v.load.data = u.load.data
    BY <1>3
  <2>4. u.load.data = Bytes(m, u.load.op.addr, FirstPart(u.load.op))
    BY <2>2, <2>3 DEF Halves
  <2> QED BY <2>3, <2>4
<1> QED BY <1>1, <1>2, <1>4, <1>5, <1>6, <1>7, <1>9, <1>10 DEF Core

\* What the falling edge does first.
Served(u, a) ==
  LET s == IF a /\ u.storeWaiting THEN StoreServed(u) ELSE u
  IN  IF a /\ u.loadWaiting THEN LoadServed(s) ELSE s

\* What is left of the unit: the free entries stay so, and the first one may become free.
ServedLeaves(u, v, a) ==
  /\ v.stage1 = u.stage1 /\ v.result = u.result /\ v.finished = u.finished
  /\ \A p \in 1 .. NStoreQueue : v.storeQueue[p].full => u.storeQueue[p].full
  /\ Freeing(u, a) => u.storeQueue[1].full /\ ~ v.storeQueue[1].full
  /\ v.load.valid <=> u.load.valid /\ ~ Answering(u, a)
  /\ v.load.valid => v.load.tag = u.load.tag
  /\ v.loadWaiting => u.loadWaiting /\ ~ a

\* What the cache has after its answer.
MemoryAfter(u, m, a) == IF a THEN Effect(m, u.dcache) ELSE m

\* The answer of the cache keeps the invariant.
LEMMA CoreServed ==
  ASSUME NEW u, NEW r, NEW c, NEW m, NEW ct, NEW a, a = TRUE \/ a = FALSE, Core(u, r, c, a, m, ct),
         NEW b, RobOrder(r, b), a = TRUE => u.dcache.req,
         NEW v, v = Served(u, a), NEW k, k = MemoryAfter(u, m, a)
  PROVE  Core(v, r, c, FALSE, k, ct) /\ ServedLeaves(u, v, a)
<1>0. Typed(u) /\ Asks(u) BY DEF Core
<1>1. CASE a = FALSE
  <2>1. v = u /\ k = m BY <1>1 DEF Served, MemoryAfter
  <2>2. Core(u, r, c, FALSE, m, ct) BY <1>1
  <2> QED BY <1>1, <2>1, <2>2 DEF ServedLeaves, Freeing, Answering
<1>2. CASE a = TRUE /\ u.storeWaiting
  <2>1. a = TRUE /\ ~ u.loadWaiting BY <1>0, <1>2 DEF Asks
  <2>2. v = StoreServed(u) /\ k = Effect(m, u.dcache) BY <2>1, <1>2 DEF Served, MemoryAfter
  <2>3. Core(u, r, c, TRUE, m, ct) BY <2>1
  <2>4. Core(v, r, c, FALSE, k, ct) BY <1>2, <2>2, <2>3, CoreStoreServed
  <2>5. /\ SameOthers(u, v) /\ v.load = u.load /\ v.loadWaiting = u.loadWaiting
        /\ \A p \in 2 .. NStoreQueue : v.storeQueue[p] = u.storeQueue[p]
        /\ v.storeQueue[1] = IF u.storeQueue[1].state = "Msb"
                              THEN [u.storeQueue[1] EXCEPT !.state = "Lsb"] ELSE Free
    BY <1>0, <2>2, StoreServedStep
  <2>6. u.storeQueue[1].full BY <1>0, <1>2 DEF Asks
  <2>7. \A p \in 1 .. NStoreQueue : v.storeQueue[p].full => u.storeQueue[p].full
    <3>1. \A p \in 1 .. NStoreQueue : p # 1 => p \in 2 .. NStoreQueue BY One
    <3> QED BY <2>5, <2>6, <3>1
  <2>8. Freeing(u, a) => ~ v.storeQueue[1].full BY <2>5, FreeIs DEF Freeing
  <2> QED BY <2>1, <2>4, <2>5, <2>6, <2>7, <2>8 DEF ServedLeaves, Answering, SameOthers
<1>3. CASE a = TRUE /\ ~ u.storeWaiting
  <2>1. a = TRUE /\ u.loadWaiting BY <1>0, <1>3 DEF Asks
  <2>2. v = LoadServed(u) /\ k = Effect(m, u.dcache) BY <2>1, <1>3 DEF Served, MemoryAfter
  <2>3. Core(u, r, c, TRUE, m, ct) BY <2>1
  <2>4. Core(v, r, c, FALSE, k, ct) BY <1>3, <2>1, <2>2, <2>3, CoreLoadServed
  <2>5. /\ SameOthers(u, v) /\ v.storeQueue = u.storeQueue /\ ~ v.loadWaiting
        /\ v.load = IF u.load.state = "Msb" /\ u.load.valid
                     THEN [u.load EXCEPT !.state = "Lsb"] ELSE NoLoad
    BY <1>0, <2>2, LoadServedStep
  <2>6. /\ v.load.valid <=> u.load.valid /\ ~ Answering(u, a)
        /\ v.load.valid => v.load.tag = u.load.tag
    <3>1. CASE u.load.state = "Msb" /\ u.load.valid
      <4>1. v.load = [u.load EXCEPT !.state = "Lsb"] BY <2>5, <3>1
      <4>2. u.load \in [valid : BOOLEAN, tag : Tag \cup {None}, op : Operation,
                        branchCounter : Nat, state : Halfway, data : {u.load.data}]
        BY <1>0 DEF Typed
      <4> QED BY <3>1, <4>1, <4>2 DEF Answering
    <3>2. CASE ~ (u.load.state = "Msb" /\ u.load.valid)
      <4>1. v.load = NoLoad BY <2>5, <3>2
      <4> QED BY <2>1, <3>2, <4>1, NoLoadIs DEF Answering
    <3> QED BY <3>1, <3>2
  <2> QED BY <1>3, <2>4, <2>5, <2>6 DEF ServedLeaves, Freeing, SameOthers
<1> QED BY <1>1, <1>2, <1>3

\* What a resolved branch leaves of the unit.
BranchLeft(u, v, result) ==
  /\ v.finished = u.finished /\ v.result = u.result /\ v.loadWaiting = u.loadWaiting
  /\ \A p \in 1 .. NStoreQueue : v.storeQueue[p].full => u.storeQueue[p].full
  /\ v.stage1.valid <=> u.stage1.valid /\ ~ Flushed(u.stage1, result)
  /\ v.stage1.valid => v.stage1.tag = u.stage1.tag /\ v.stage1.op = u.stage1.op
  /\ v.load.valid <=> u.load.valid /\ ~ Flushed(u.load, result)
  /\ v.load.valid => v.load.tag = u.load.tag

\* A resolved branch keeps the invariant: the unit and the reorder buffer drop the same
\* instructions.
LEMMA CoreBranch ==
  ASSUME NEW u, NEW r, NEW m, NEW ct, Core(u, r, u.stage1, FALSE, m, ct), NEW b, RobOrder(r, b),
         NEW result \in {"None", "Correct", "Mispredicted"}, NEW s, LeftOf(r, s, result),
         NEW v, v = BranchFinished(u, result)
  PROVE  Core(v, s, v.stage1, FALSE, m, ct) /\ BranchLeft(u, v, result)
<1> DEFINE q == u.storeQueue
           w == v.storeQueue
<1>0. PICK c : c = u.stage1 OBVIOUS
<1>1. /\ Typed(u) /\ QueueInv(q, r, c) /\ LoadThere(u.load, r) /\ LoadAlone(u, c)
      /\ Asks(u) /\ Origins(q) /\ Depends(u, r)
      /\ WholeSingles => Memory(q, m, ct)
      /\ WholeSingles /\ AlignedZeros => Halves(u, m, FALSE)
  BY <1>0 DEF Core
<1>2. /\ Typed(v) /\ v.finished = u.finished /\ v.result = u.result
      /\ v.loadWaiting = u.loadWaiting /\ v.storeWaiting = u.storeWaiting
      /\ v.dcache = u.dcache
      /\ \A p \in 1 .. NStoreQueue :
           /\ w[p].full <=> q[p].full /\ ~ Flushed(q[p], result)
           /\ w[p].full =>
                /\ w[p].valid = q[p].valid
                /\ w[p].tag = q[p].tag
                /\ w[p].op = q[p].op
                /\ w[p].dependentLoadTag = q[p].dependentLoadTag
                /\ w[p].branchCounter =
                     IF result = "None" THEN q[p].branchCounter
                     ELSE Decrement(q[p].branchCounter)
           /\ w[p].state = "Normal" \/ w[p].state = q[p].state
           /\ ~ Flushed(q[p], result) => w[p].state = q[p].state
      /\ v.stage1.valid <=> u.stage1.valid /\ ~ Flushed(u.stage1, result)
      /\ v.stage1.valid =>
           /\ v.stage1.tag = u.stage1.tag /\ v.stage1.op = u.stage1.op
           /\ v.stage1.branchCounter = IF result = "None" THEN u.stage1.branchCounter
                                       ELSE Decrement(u.stage1.branchCounter)
      /\ v.load.valid <=> u.load.valid /\ ~ Flushed(u.load, result)
      /\ v.load.valid =>
           /\ v.load.tag = u.load.tag /\ v.load.op = u.load.op /\ v.load.data = u.load.data
           /\ v.load.state = u.load.state
           /\ v.load.branchCounter = IF result = "None" THEN u.load.branchCounter
                                     ELSE Decrement(u.load.branchCounter)
      /\ v.load.state # "Normal" => v.load.state = u.load.state
  <2>1. Typed(u) BY <1>1
  <2>2. result \in {"None", "Correct", "Mispredicted"} OBVIOUS
  <2> QED BY <2>1, <2>2, BranchStep
<1> HIDE DEF q, w
<1>3. q \in Queue /\ w \in Queue /\ 1 \in 1 .. NStoreQueue
  <2>1. w \in Queue BY <1>2 DEF Typed, w
  <2> QED BY <1>1, <2>1, One DEF QueueInv
<1>4. PICK d : d = v.stage1 OBVIOUS
<1>5. d \in Packet BY <1>2, <1>4 DEF Typed
<1>6. QueueInv(w, s, d)
  <2>1. \A p \in 1 .. NStoreQueue :
          /\ w[p].full <=> q[p].full /\ ~ Flushed(q[p], result)
          /\ w[p].full => Kept(q[p], w[p], result) /\ w[p].valid = q[p].valid
          /\ w[p].state = "Normal" \/ w[p].state = q[p].state
    BY <1>2 DEF Kept
  <2>2. d.valid <=> c.valid /\ ~ Flushed(c, result) BY <1>0, <1>2, <1>4
  <2>3. d.valid => Kept(c, d, result) BY <1>0, <1>2, <1>4 DEF Kept
  <2> QED BY <1>1, <1>3, <2>1, <2>2, <2>3, QueueFlushed
<1>7. LoadThere(v.load, s)
  <2> SUFFICES ASSUME v.load.valid
               PROVE  \E i \in DOMAIN s : s[i].op.kind = "Load" /\ Sent(s[i]) /\ Carries(v.load, s[i])
    BY DEF LoadThere
  <2>1. u.load.valid /\ Kept(u.load, v.load, result) BY <1>2 DEF Kept
  <2>2. PICK i \in DOMAIN r : r[i].op.kind = "Load" /\ Sent(r[i]) /\ Carries(u.load, r[i])
    BY <1>1, <2>1 DEF LoadThere
  <2>3. PICK e : e = u.load OBVIOUS
  <2>4. PICK x : x = v.load OBVIOUS
  <2>5. i \in DOMAIN s /\ Carries(x, s[i]) /\ s[i].op = r[i].op /\ (Sent(s[i]) <=> Sent(r[i]))
    BY <2>1, <2>2, <2>3, <2>4, KeptTogether
  <2> QED BY <2>2, <2>4, <2>5
<1>8. LoadAlone(v, d) BY <1>0, <1>1, <1>2, <1>4 DEF LoadAlone
<1>9. \A p \in Pending(q) : ~ Flushed(q[p], result) /\ q[p].branchCounter = 0
  BY <1>1 DEF QueueInv, Retired, Flushed
<1>10. q[1].full /\ q[1].valid => w[1].full /\ w[1].valid /\ w[1].op = q[1].op /\ w[1].state = q[1].state
  <2> SUFFICES ASSUME q[1].full, q[1].valid
               PROVE  w[1].full /\ w[1].valid /\ w[1].op = q[1].op /\ w[1].state = q[1].state
    OBVIOUS
  <2>1. 1 \in Pending(q) BY <1>3, InQueue
  <2> QED BY <1>2, <1>3, <1>9, <2>1
<1>11. w[1].state # "Normal" => /\ w[1].state = q[1].state /\ q[1].full /\ q[1].valid
  <2> SUFFICES ASSUME w[1].state # "Normal"
               PROVE  w[1].state = q[1].state /\ q[1].full /\ q[1].valid
    OBVIOUS
  <2>1. w[1].state = q[1].state BY <1>2, <1>3
  <2>2. 1 \in DOMAIN q BY <1>3, InQueue
  <2> QED BY <1>1, <2>1, <2>2 DEF QueueInv, Retired
<1>12. Asks(v)
  <2>1. v.load.valid => u.load.valid /\ v.load.op = u.load.op /\ v.load.state = u.load.state
    BY <1>2
  <2> QED BY <1>1, <1>2, <1>10, <1>11, <2>1 DEF Asks, q, w
<1>13. Origins(w)
  <2>1. \A p \in Full(w) : p \in 1 .. NStoreQueue /\ w[p].full BY <1>3, InQueue
  <2>2. \A p \in Full(w) : p \in Full(q) /\ w[p].op = q[p].op BY <1>2, <1>3, <2>1, InQueue
  <2> QED BY <1>1, <2>2 DEF Origins
<1>14. Depends(v, s)
  <2> SUFFICES ASSUME v.load.valid, NEW p \in 1 .. NStoreQueue, w[p].full,
                      IsOlder(w[p], s, v.load.tag), Overlaps(w[p], v.load.op)
               PROVE  w[p].dependentLoadTag = v.load.tag /\ ~ v.loadWaiting
                      /\ v.load.state = "Normal"
    BY DEF Depends, w
  <2>1. /\ q[p].full /\ w[p].valid = q[p].valid /\ w[p].tag = q[p].tag /\ w[p].op = q[p].op
        /\ w[p].dependentLoadTag = q[p].dependentLoadTag
    BY <1>2
  <2>2. /\ u.load.valid /\ v.load.tag = u.load.tag /\ v.load.op = u.load.op
        /\ v.load.state = u.load.state /\ v.loadWaiting = u.loadWaiting
    BY <1>2
  <2>3. Overlaps(q[p], u.load.op) BY <2>1, <2>2 DEF Overlaps
  <2>4. IsOlder(q[p], r, u.load.tag)
    <3>1. DOMAIN s \subseteq DOMAIN r /\ \A i \in DOMAIN s : s[i].tag = r[i].tag BY LeftFields
    <3> QED BY <2>1, <2>2, <3>1 DEF IsOlder
  <2> QED BY <1>1, <2>1, <2>2, <2>3, <2>4 DEF Depends, q
<1>15. ASSUME WholeSingles PROVE Memory(w, m, ct)
  <2>1. Memory(q, m, ct) BY <1>1, <1>15
  <2>2. Pending(w) = Pending(q)
    <3>1. ASSUME NEW p \in Pending(w) PROVE p \in Pending(q)
      <4>1. p \in 1 .. NStoreQueue /\ w[p].full /\ w[p].valid BY <1>3, InQueue
      <4> QED BY <1>2, <1>3, <4>1, InQueue
    <3>2. ASSUME NEW p \in Pending(q) PROVE p \in Pending(w)
      <4>1. p \in 1 .. NStoreQueue /\ q[p].full /\ q[p].valid /\ ~ Flushed(q[p], result)
        BY <1>3, <1>9, InQueue
      <4>2. w[p].full /\ w[p].valid BY <1>2, <4>1
      <4> QED BY <1>3, <4>1, <4>2, InQueue
    <3> QED BY <3>1, <3>2
  <2>3. \A p \in Pending(w) : w[p].op = q[p].op
    <3>1. \A p \in Pending(w) : p \in 1 .. NStoreQueue /\ w[p].full BY <1>3, InQueue
    <3> QED BY <1>2, <3>1
  <2>4. Ops(w) = Ops(q) BY <2>2, <2>3 DEF Ops
  <2>5. w[1].state = "Lsb" => q[1].state = "Lsb" /\ w[1].op = q[1].op BY <1>10, <1>11
  <2> QED BY <2>1, <2>4, <2>5 DEF Memory
<1>16. ASSUME WholeSingles, AlignedZeros PROVE Halves(v, m, FALSE)
  <2>1. Halves(u, m, FALSE) BY <1>1, <1>16
  <2> QED BY <1>2, <2>1 DEF Halves
<1>17. Core(v, s, d, FALSE, m, ct)
  BY <1>2, <1>5, <1>6, <1>7, <1>8, <1>12, <1>13, <1>14, <1>15, <1>16 DEF Core, w
<1>18. BranchLeft(u, v, result) BY <1>2 DEF BranchLeft, q, w
<1> QED BY <1>4, <1>17, <1>18

\* The unit with the queue renumbered.
ShiftLeft(u, v) ==
  /\ v.stage1 = u.stage1 /\ v.load = u.load /\ v.loadWaiting = u.loadWaiting
  /\ v.finished = u.finished /\ v.result = u.result
  /\ \E h : Renumbered(u.storeQueue, v.storeQueue, h)
  /\ (\E p \in 1 .. NStoreQueue : ~ u.storeQueue[p].full) => ~ v.storeQueue[NStoreQueue].full

\* Shift() keeps the invariant.
LEMMA CoreShift ==
  ASSUME NEW u, NEW r, NEW c, NEW m, NEW ct, Core(u, r, c, FALSE, m, ct),
         NEW v, v = [u EXCEPT !.storeQueue = Shift(@)]
  PROVE  Core(v, r, c, FALSE, m, ct) /\ ShiftLeft(u, v)
<1> DEFINE q == u.storeQueue
<1>1. /\ Typed(u) /\ c \in Packet /\ QueueInv(q, r, c) /\ LoadThere(u.load, r) /\ LoadAlone(u, c)
      /\ Asks(u) /\ Origins(q) /\ Depends(u, r)
      /\ WholeSingles => Memory(q, m, ct)
      /\ WholeSingles /\ AlignedZeros => Halves(u, m, FALSE)
  BY DEF Core
<1>2. PICK w : w = Shift(q) OBVIOUS
<1> HIDE DEF q
<1>3. q \in Queue BY <1>1 DEF QueueInv
<1>4. /\ \E h : Renumbered(q, w, h)
      /\ (\E p \in 1 .. NStoreQueue : ~ q[p].full) => ~ w[NStoreQueue].full
  BY <1>2, <1>3, ShiftStep
<1>5. PICK h : Renumbered(q, w, h) BY <1>4
<1>6. w \in Queue BY <1>5 DEF Renumbered
<1>7. /\ Typed(v) /\ v.storeQueue = w /\ v.stage1 = u.stage1 /\ v.load = u.load
      /\ v.loadWaiting = u.loadWaiting /\ v.storeWaiting = u.storeWaiting /\ v.dcache = u.dcache
      /\ v.finished = u.finished /\ v.result = u.result
  <2>1. v = [u EXCEPT !.storeQueue = w] BY <1>2 DEF q
  <2> QED BY <1>1, <1>6, <2>1 DEF Typed
<1>8. QueueInv(w, r, c) BY <1>1, <1>5, QueueRenumbered
<1>9. LoadAlone(v, c) BY <1>1, <1>7 DEF LoadAlone
<1>10. 1 \in 1 .. NStoreQueue /\ h[1] \in 1 .. NStoreQueue /\ w[1] = q[h[1]]
       /\ (q[1].full => w[1] = q[1])
  BY <1>5, One DEF Renumbered
<1>11. w[1].state # "Normal" => w[1] = q[1] /\ q[1].full
  <2> SUFFICES ASSUME w[1].state # "Normal" PROVE w[1] = q[1] /\ q[1].full
    OBVIOUS
  <2>1. h[1] \in DOMAIN q BY <1>3, <1>10, InQueue
  <2>2. h[1] = 1 /\ q[1].full BY <1>1, <1>10, <2>1 DEF QueueInv, Retired
  <2> QED BY <1>10, <2>2
<1>12. Asks(v)
  <2>1. u.storeWaiting => w[1] = q[1] BY <1>1, <1>10 DEF Asks, q
  <2>2. w[1].state = "Msb" => w[1] = q[1] BY <1>11
  <2> QED BY <1>1, <1>7, <1>11, <2>1, <2>2 DEF Asks, q
<1>13. \A p \in 1 .. NStoreQueue : h[p] \in 1 .. NStoreQueue /\ w[p] = q[h[p]]
  BY <1>5 DEF Renumbered
<1>14. Origins(w)
  <2>1. ASSUME NEW p \in Full(w) PROVE h[p] \in Full(q) /\ w[p] = q[h[p]]
    <3>1. p \in 1 .. NStoreQueue /\ w[p].full BY <1>6, InQueue
    <3> QED BY <1>3, <1>13, <3>1, InQueue
  <2> QED BY <1>1, <2>1 DEF Origins
<1>15. Depends(v, r) BY <1>1, <1>7, <1>13 DEF Depends, q
<1>16. ASSUME WholeSingles PROVE Memory(w, m, ct)
  <2>1. Memory(q, m, ct) BY <1>1, <1>16
  <2>2. Effects(m, Ops(w)) = Effects(m, Ops(q))
    <3>1. /\ DOMAIN Ops(q) = Pending(q) /\ DOMAIN Ops(q) \subseteq 0 .. NStoreQueue
          /\ \A p \in Pending(q) : Ops(q)[p] = q[p].op /\ p \in 1 .. NStoreQueue
          /\ NStoreQueue \in Nat
      BY <1>3, PendingRange
    <3>2. /\ DOMAIN Ops(w) = Pending(w) /\ DOMAIN Ops(w) \subseteq 0 .. NStoreQueue
          /\ \A p \in Pending(w) : Ops(w)[p] = w[p].op /\ p \in 1 .. NStoreQueue
      BY <1>6, PendingRange
    <3>3. ASSUME NEW d \in DOMAIN Ops(w) PROVE h[d] \in DOMAIN Ops(q) /\ Ops(w)[d] = Ops(q)[h[d]]
      <4>1. d \in Pending(w) /\ d \in 1 .. NStoreQueue /\ w[d].full /\ w[d].valid
        BY <1>6, <3>2, InQueue
      <4>2. h[d] \in Pending(q) BY <1>3, <1>13, <4>1, InQueue
      <4> QED BY <1>13, <3>1, <3>2, <4>1, <4>2
    <3>4. ASSUME NEW d \in DOMAIN Ops(q) PROVE \E e \in DOMAIN Ops(w) : h[e] = d
      <4>1. d \in 1 .. NStoreQueue /\ q[d].full /\ q[d].valid BY <1>3, <3>1, InQueue
      <4>2. PICK e \in 1 .. NStoreQueue : h[e] = d BY <1>5, <4>1 DEF Renumbered
      <4>3. e \in Pending(w) BY <1>6, <1>13, <4>1, <4>2, InQueue
      <4> QED BY <3>2, <4>2, <4>3
    <3>5. ASSUME NEW d \in DOMAIN Ops(w), NEW e \in DOMAIN Ops(w) PROVE d < e <=> h[d] < h[e]
      <4>1. d \in 1 .. NStoreQueue /\ e \in 1 .. NStoreQueue /\ w[d].full /\ w[e].full
        BY <1>6, <3>2, InQueue
      <4> QED BY <1>5, <4>1 DEF Renumbered
    <3> QED BY <3>1, <3>2, <3>3, <3>4, <3>5, EffectsRenumbered
  <2>3. w[1].state = "Lsb" => q[1].state = "Lsb" /\ w[1] = q[1] BY <1>11
  <2> QED BY <2>1, <2>2, <2>3 DEF Memory
<1>17. ASSUME WholeSingles, AlignedZeros PROVE Halves(v, m, FALSE)
  <2>1. Halves(u, m, FALSE) BY <1>1, <1>17
  <2> QED BY <1>7, <2>1 DEF Halves
<1>18. LoadThere(v.load, r) BY <1>1, <1>7
<1>19. Core(v, r, c, FALSE, m, ct)
  BY <1>1, <1>7, <1>8, <1>9, <1>12, <1>14, <1>15, <1>16, <1>17, <1>18 DEF Core
<1>20. ShiftLeft(u, v) BY <1>4, <1>7 DEF ShiftLeft, q
<1> QED BY <1>19, <1>20

\* The operation in the first stage is a load or a write.
LEMMA MemoryKinds ==
  ASSUME NEW c \in Packet, NEW q, NEW r, LastSent(q, r, c), c.valid, NEW b, RobOrder(r, b)
  PROVE  \E i \in DOMAIN r :
           /\ IsMemory(r[i].op) /\ Sent(r[i]) /\ Carries(c, r[i])
           /\ \A j \in DOMAIN r : j > i /\ IsMemory(r[j].op) => ~ Sent(r[j])
           /\ r[i].op \in Operations /\ c.op.kind = r[i].op.kind
           /\ IsWrite(c.op) <=> IsWrite(r[i].op)
           /\ ~ IsWrite(c.op) => r[i].op.kind = "Load"
           /\ c.op \in CarriedOperations
<1>1. PICK i \in DOMAIN r : /\ IsMemory(r[i].op) /\ Sent(r[i]) /\ Carries(c, r[i])
                            /\ \A j \in DOMAIN r : j > i /\ IsMemory(r[j].op) => ~ Sent(r[j])
  BY DEF LastSent
<1>2. r[i] \in RobEntry BY DEF RobOrder
<1>3. r[i].op \in Operations /\ r[i].op \in Operation BY <1>2, OperationsAre DEF RobEntry
<1>4. c.op = Carried(r[i].op) BY <1>1 DEF Carries
<1>5. c.op.kind = r[i].op.kind /\ (IsWrite(c.op) <=> IsWrite(r[i].op))
  BY <1>3, <1>4, CarriedIs
<1>6. ~ IsWrite(c.op) => r[i].op.kind = "Load"
  <2>1. r[i].op.kind \in {"Load", "Store", "Zero", "SystemCall"} BY <1>3 DEF Operation
  <2> QED BY <1>1, <1>5, <2>1 DEF IsWrite, IsMemory
<1>7. c.op \in CarriedOperations BY <1>3, <1>4 DEF CarriedOperations
<1> QED BY <1>1, <1>3, <1>5, <1>6, <1>7

\* What Advance() does to the rest of the unit.
AdvanceLeft(u, v) ==
  /\ ~ v.stage1.valid /\ v.finished = u.finished /\ v.result = u.result
  /\ v.loadWaiting = u.loadWaiting
  /\ u.stage1.valid /\ ~ IsWrite(u.stage1.op) => v.load.valid /\ v.load.tag = u.stage1.tag
  /\ ~ (u.stage1.valid /\ ~ IsWrite(u.stage1.op)) => v.load = u.load
  /\ \A p \in 1 .. NStoreQueue :
       v.storeQueue[p].full => \/ u.storeQueue[p].full
                               \/ p = NStoreQueue /\ u.stage1.valid /\ IsWrite(u.stage1.op)

\* A store leaves the first stage.
LEMMA CoreAdvanceStore ==
  ASSUME NEW u, NEW r, NEW m, NEW ct, Core(u, r, u.stage1, FALSE, m, ct), NEW b, RobOrder(r, b),
         u.stage1.valid, IsWrite(u.stage1.op), ~ u.storeQueue[NStoreQueue].full,
         NEW v, v = Advance(u), NEW d \in Packet, ~ d.valid
  PROVE  Core(v, r, d, FALSE, m, ct) /\ AdvanceLeft(u, v)
<1> DEFINE q == u.storeQueue
           w == v.storeQueue
           N == NStoreQueue
<1>0. PICK c : c = u.stage1 OBVIOUS
<1>1. /\ Typed(u) /\ c \in Packet /\ QueueInv(q, r, c) /\ LoadThere(u.load, r)
      /\ LoadAlone(u, c) /\ Asks(u) /\ Origins(q) /\ Depends(u, r)
      /\ WholeSingles => Memory(q, m, ct)
      /\ WholeSingles /\ AlignedZeros => Halves(u, m, FALSE)
  BY <1>0 DEF Core
<1>2. PICK e : e = [full |-> TRUE, valid |-> FALSE, tag |-> c.tag, op |-> c.op,
                    branchCounter |-> c.branchCounter, dependentLoadTag |-> None,
                    state |-> "Normal"]
  OBVIOUS
<1>3. /\ Typed(v) /\ v.finished = u.finished /\ v.result = u.result
      /\ v.loadWaiting = u.loadWaiting /\ v.storeWaiting = u.storeWaiting
      /\ v.dcache = u.dcache /\ ~ v.stage1.valid /\ v.load = u.load
      /\ \A p \in 1 .. N - 1 : w[p] = q[p]
      /\ w[N] = e
  <2>1. Typed(u) BY <1>1
  <2>2. /\ Typed(v) /\ v.finished = u.finished /\ v.result = u.result
        /\ v.loadWaiting = u.loadWaiting /\ v.storeWaiting = u.storeWaiting
        /\ v.dcache = u.dcache /\ ~ v.stage1.valid
    BY <2>1, AdvanceStep
  <2>3. StoreAdvanced(u, v)
    <3>1. u.stage1.valid /\ IsWrite(u.stage1.op) OBVIOUS
    <3> QED BY <2>1, <3>1, AdvanceStep
  <2> QED BY <1>0, <1>2, <2>2, <2>3 DEF StoreAdvanced
<1> HIDE DEF q, w
<1>4. q \in Queue /\ w \in Queue /\ 1 \in 1 .. N /\ N \in 1 .. N /\ N \in Nat
      /\ \A p \in 1 .. N : p # N => p \in 1 .. N - 1
  <2>1. w \in Queue BY <1>3 DEF Typed, w
  <2>2. 1 \in 1 .. N /\ N \in 1 .. N /\ N \in Nat BY One
  <2>3. \A p \in 1 .. N : p # N => p \in 1 .. N - 1 BY <2>2
  <2> QED BY <1>1, <2>1, <2>2, <2>3 DEF QueueInv
<1>5. /\ e.full /\ ~ e.valid /\ e.tag = c.tag /\ e.op = c.op
      /\ e.branchCounter = c.branchCounter /\ e.state = "Normal"
  BY <1>2
<1>6. ~ q[N].full /\ c.valid /\ IsWrite(c.op) BY <1>0 DEF q
<1>7. QueueInv(w, r, d) BY <1>1, <1>3, <1>4, <1>5, <1>6, QueueAppended
<1>8. PICK i \in DOMAIN r :
        /\ IsMemory(r[i].op) /\ Carries(c, r[i])
        /\ \A j \in DOMAIN r : j > i /\ IsMemory(r[j].op) => ~ Sent(r[j])
        /\ c.op \in CarriedOperations
  <2>1. LastSent(q, r, c) BY <1>1 DEF QueueInv
  <2> QED BY <1>1, <1>6, <2>1, MemoryKinds
<1>9. LoadAlone(v, d) BY DEF LoadAlone
<1>10. w[1] = q[1] \/ (w[1].state = "Normal" /\ ~ q[1].full)
  BY <1>3, <1>4, <1>5, <1>6
<1>11. Asks(v)
  BY <1>1, <1>3, <1>10 DEF Asks, q, w
<1>12. Origins(w)
  <2>1. ASSUME NEW p \in Full(w) PROVE IsWrite(w[p].op) /\ w[p].op \in CarriedOperations
    <3>1. p \in 1 .. N /\ w[p].full BY <1>4, InQueue
    <3>2. CASE p = N BY <1>3, <1>5, <1>6, <1>8, <3>2
    <3>3. CASE p # N
      <4>1. w[p] = q[p] BY <1>3, <1>4, <3>1, <3>3
      <4>2. p \in Full(q) BY <1>4, <3>1, <4>1, InQueue
      <4> QED BY <1>1, <4>1, <4>2 DEF Origins
    <3> QED BY <3>2, <3>3
  <2> QED BY <2>1 DEF Origins
<1>13. Depends(v, r)
  <2> SUFFICES ASSUME v.load.valid, NEW p \in 1 .. N, w[p].full,
                      IsOlder(w[p], r, v.load.tag), Overlaps(w[p], v.load.op)
               PROVE  w[p].dependentLoadTag = v.load.tag /\ ~ v.loadWaiting
                      /\ v.load.state = "Normal"
    BY DEF Depends, w
  <2>1. CASE p # N
    <3>1. w[p] = q[p] BY <1>3, <1>4, <2>1
    <3> QED BY <1>1, <1>3, <3>1 DEF Depends, q
  <2>2. CASE p = N
    <3>1. w[p] = e BY <1>3, <2>2
    <3>2. PICK j, k \in DOMAIN r : r[j].tag = v.load.tag /\ r[k].tag = c.tag /\ k < j
      BY <1>5, <3>1 DEF IsOlder
    <3>3. k = i BY <1>8, <3>2 DEF RobOrder, Carries
    <3>4. PICK l \in DOMAIN r : r[l].op.kind = "Load" /\ Sent(r[l]) /\ Carries(u.load, r[l])
      BY <1>1, <1>3 DEF LoadThere
    <3>5. l = j BY <1>3, <3>2, <3>4 DEF RobOrder, Carries
    <3>6. j > i /\ IsMemory(r[j].op) /\ Sent(r[j])
      <4>1. DOMAIN r = 1 .. Len(r) /\ Len(r) \in Nat BY DEF RobOrder
      <4>2. IsMemory(r[j].op) BY <3>4, <3>5 DEF IsMemory
      <4> QED BY <3>2, <3>3, <3>4, <3>5, <4>1, <4>2
    <3> QED BY <1>8, <3>6
  <2> QED BY <2>1, <2>2
<1>14. ASSUME WholeSingles PROVE Memory(w, m, ct)
  <2>1. Memory(q, m, ct) BY <1>1, <1>14
  <2>2. ASSUME NEW p PROVE /\ p \in Pending(w) <=> p \in Pending(q)
                           /\ p \in Pending(w) => w[p].op = q[p].op
    <3>1. CASE p = N
      <4>1. ~ w[p].valid /\ ~ q[p].full BY <1>3, <1>5, <1>6, <3>1
      <4> QED BY <1>4, <4>1, InQueue
    <3>2. CASE p \in 1 .. N /\ p # N
      <4>1. w[p] = q[p] BY <1>3, <1>4, <3>2
      <4> QED BY <1>4, <3>2, <4>1, InQueue
    <3>3. CASE p \notin 1 .. N BY <1>4, <3>3, InQueue
    <3> QED BY <3>1, <3>2, <3>3
  <2>3. Pending(w) = Pending(q) BY <2>2
  <2>4. Ops(w) = Ops(q) BY <2>2, <2>3 DEF Ops
  <2>5. w[1].state = "Lsb" => w[1] = q[1] BY <1>10
  <2> QED BY <2>1, <2>4, <2>5 DEF Memory
<1>15. ASSUME WholeSingles, AlignedZeros PROVE Halves(v, m, FALSE)
  <2>1. Halves(u, m, FALSE) BY <1>1, <1>15
  <2> QED BY <1>3, <2>1 DEF Halves
<1>16. LoadThere(v.load, r) BY <1>1, <1>3
<1>17. Core(v, r, d, FALSE, m, ct)
  BY <1>3, <1>7, <1>9, <1>11, <1>12, <1>13, <1>14, <1>15, <1>16 DEF Core, w
<1>18. AdvanceLeft(u, v)
  <2>1. \A p \in 1 .. N : w[p].full => q[p].full \/ p = N BY <1>3, <1>4
  <2> QED BY <1>3, <2>1 DEF AdvanceLeft, q, w
<1> QED BY <1>17, <1>18

\* The order of the queue does not depend on the loads that wait.
LEMMA QueueNoted ==
  ASSUME NEW q, NEW r, NEW c, QueueInv(q, r, c), NEW b, RobOrder(r, b), NEW w \in Queue,
         \A p \in 1 .. NStoreQueue :
           /\ w[p].full = q[p].full /\ w[p].valid = q[p].valid /\ w[p].tag = q[p].tag
           /\ w[p].op = q[p].op /\ w[p].branchCounter = q[p].branchCounter
           /\ w[p].state = q[p].state
  PROVE  QueueInv(w, r, c)
<1>1. \A e : ~ Flushed(e, "None") BY DEF Flushed
<1>2. r \in Seq(RobEntry) BY DEF RobOrder
<1>3. LeftOf(r, r, "None")
  <2>1. Len(r) \in Nat BY <1>2
  <2> QED BY <1>1, <1>2, <2>1 DEF LeftOf
<1>4. q \in Queue BY DEF QueueInv
<1>5. \A p \in 1 .. NStoreQueue :
        /\ w[p].full <=> q[p].full /\ ~ Flushed(q[p], "None")
        /\ w[p].full => Kept(q[p], w[p], "None") /\ w[p].valid = q[p].valid
        /\ w[p].state = "Normal" \/ w[p].state = q[p].state
  BY <1>1, <1>4 DEF Kept, Queue, Entry
<1>6. c.valid <=> c.valid /\ ~ Flushed(c, "None") BY <1>1
<1>7. c.valid => Kept(c, c, "None") BY <1>1 DEF Kept
<1>8. PICK result : result = "None" OBVIOUS
<1> QED BY <1>3, <1>5, <1>6, <1>7, <1>8, QueueFlushed

\* A load leaves the first stage.
LEMMA CoreAdvanceLoad ==
  ASSUME NEW u, NEW r, NEW m, NEW ct, Core(u, r, u.stage1, FALSE, m, ct), NEW b, RobOrder(r, b),
         u.stage1.valid, ~ IsWrite(u.stage1.op),
         NEW v, v = Advance(u), NEW d \in Packet, ~ d.valid
  PROVE  Core(v, r, d, FALSE, m, ct) /\ AdvanceLeft(u, v)
<1> DEFINE q == u.storeQueue
           w == v.storeQueue
<1>0. PICK c : c = u.stage1 OBVIOUS
<1>1. /\ Typed(u) /\ c \in Packet /\ QueueInv(q, r, c) /\ LoadThere(u.load, r)
      /\ LoadAlone(u, c) /\ Asks(u) /\ Origins(q)
      /\ WholeSingles => Memory(q, m, ct)
  BY <1>0 DEF Core
<1>2. /\ Typed(v) /\ v.finished = u.finished /\ v.result = u.result
      /\ v.loadWaiting = u.loadWaiting /\ v.storeWaiting = u.storeWaiting
      /\ v.dcache = u.dcache /\ ~ v.stage1.valid /\ LoadAdvanced(u, v)
  <2>1. Typed(u) BY <1>1
  <2>2. u.stage1.valid /\ ~ IsWrite(u.stage1.op) OBVIOUS
  <2> QED BY <2>1, <2>2, AdvanceStep
<1>3. /\ v.load.valid /\ v.load.tag = c.tag /\ v.load.op = c.op /\ v.load.data = <<>>
      /\ v.load.branchCounter = c.branchCounter /\ v.load.state = "Normal"
      /\ \A p \in 1 .. NStoreQueue :
           /\ w[p].full = q[p].full /\ w[p].valid = q[p].valid /\ w[p].tag = q[p].tag
           /\ w[p].op = q[p].op /\ w[p].branchCounter = q[p].branchCounter
           /\ w[p].state = q[p].state
           /\ w[p].dependentLoadTag = IF q[p].full /\ Overlaps(q[p], c.op)
                                      THEN c.tag ELSE q[p].dependentLoadTag
  BY <1>0, <1>2 DEF LoadAdvanced
<1> HIDE DEF q, w
<1>4. q \in Queue /\ w \in Queue /\ 1 \in 1 .. NStoreQueue
  <2>1. w \in Queue BY <1>2 DEF Typed, w
  <2> QED BY <1>1, <2>1, One DEF QueueInv
<1>5. c.valid /\ ~ IsWrite(c.op) /\ ~ u.load.valid /\ ~ u.loadWaiting
  BY <1>0, <1>1 DEF LoadAlone
<1>6. QueueInv(w, r, d)
  <2>1. QueueInv(q, r, d) BY <1>1, <1>5, QueueUnsent
  <2>2. \A p \in 1 .. NStoreQueue :
           /\ w[p].full = q[p].full /\ w[p].valid = q[p].valid /\ w[p].tag = q[p].tag
           /\ w[p].op = q[p].op /\ w[p].branchCounter = q[p].branchCounter
           /\ w[p].state = q[p].state
    BY <1>3
  <2> QED BY <1>4, <2>1, <2>2, QueueNoted
<1>7. PICK i \in DOMAIN r : /\ Sent(r[i]) /\ Carries(c, r[i]) /\ r[i].op.kind = "Load"
  <2>1. LastSent(q, r, c) BY <1>1 DEF QueueInv
  <2> QED BY <1>1, <1>5, <2>1, MemoryKinds
<1>8. LoadThere(v.load, r) BY <1>3, <1>7 DEF LoadThere, Carries
<1>9. LoadAlone(v, d) BY DEF LoadAlone
<1>10. Asks(v)
  <2>1. /\ w[1].full = q[1].full /\ w[1].valid = q[1].valid
        /\ w[1].op = q[1].op /\ w[1].state = q[1].state
    BY <1>3, <1>4
  <2> QED BY <1>1, <1>2, <1>3, <1>5, <2>1 DEF Asks, q, w
<1>11. Full(w) = Full(q) /\ Pending(w) = Pending(q) BY <1>3, <1>4, SameQueued
<1>12. \A p \in Full(w) : p \in 1 .. NStoreQueue BY <1>4, InQueue
<1>13. Origins(w) BY <1>1, <1>3, <1>11, <1>12 DEF Origins
<1>14. Depends(v, r)
  <2> SUFFICES ASSUME NEW p \in 1 .. NStoreQueue, w[p].full, Overlaps(w[p], v.load.op)
               PROVE  w[p].dependentLoadTag = v.load.tag
    BY <1>2, <1>3, <1>5 DEF Depends, w
  <2>1. q[p].full /\ Overlaps(q[p], c.op) BY <1>3 DEF Overlaps
  <2> QED BY <1>3, <2>1
<1>15. ASSUME WholeSingles PROVE Memory(w, m, ct)
  <2>1. Memory(q, m, ct) BY <1>1, <1>15
  <2>2. \A p \in Pending(w) : p \in 1 .. NStoreQueue BY <1>4, InQueue
  <2>3. Ops(w) = Ops(q) BY <1>3, <1>11, <2>2 DEF Ops
  <2>4. w[1].op = q[1].op /\ w[1].state = q[1].state BY <1>3, <1>4
  <2> QED BY <2>1, <2>3, <2>4 DEF Memory
<1>16. Halves(v, m, FALSE) BY <1>3 DEF Halves
<1>17. Core(v, r, d, FALSE, m, ct)
  BY <1>2, <1>6, <1>8, <1>9, <1>10, <1>13, <1>14, <1>15, <1>16 DEF Core, w
<1>18. AdvanceLeft(u, v)
  <2>1. \A p \in 1 .. NStoreQueue : w[p].full => q[p].full BY <1>3
  <2> QED BY <1>0, <1>2, <1>3, <1>5, <2>1 DEF AdvanceLeft, q, w
<1> QED BY <1>17, <1>18

\* Advance() keeps the invariant, when the last entry is free for a store.
LEMMA CoreAdvance ==
  ASSUME NEW u, NEW r, NEW m, NEW ct, Core(u, r, u.stage1, FALSE, m, ct), NEW b, RobOrder(r, b),
         u.stage1.valid /\ IsWrite(u.stage1.op) => ~ u.storeQueue[NStoreQueue].full,
         NEW v, v = Advance(u), NEW d \in Packet, ~ d.valid
  PROVE  Core(v, r, d, FALSE, m, ct) /\ AdvanceLeft(u, v)
<1>1. CASE u.stage1.valid /\ IsWrite(u.stage1.op) BY <1>1, CoreAdvanceStore
<1>2. CASE u.stage1.valid /\ ~ IsWrite(u.stage1.op) BY <1>2, CoreAdvanceLoad
<1>3. CASE ~ u.stage1.valid
  <2>1. PICK c : c = u.stage1 OBVIOUS
  <2>2. v = u BY <1>3 DEF Advance
  <2>3. Core(u, r, c, FALSE, m, ct) /\ ~ c.valid BY <1>3, <2>1
  <2>4. QueueInv(u.storeQueue, r, c) BY <2>3 DEF Core
  <2>5. QueueInv(u.storeQueue, r, d) BY <2>3, <2>4, QueueUnsent
  <2>6. LoadAlone(u, d) BY DEF LoadAlone
  <2>7. Core(u, r, d, FALSE, m, ct) BY <2>3, <2>5, <2>6 DEF Core
  <2> QED BY <1>3, <2>2, <2>7 DEF AdvanceLeft
<1> QED BY <1>1, <1>2, <1>3

-----------------------------------------------------------------------------
\* Room in the queue.

\* There is a free entry; there are two.
HasRoom(q) == \E p \in 1 .. NStoreQueue : ~ q[p].full
HasMoreRoom(q) == \E p, k \in 1 .. NStoreQueue : p # k /\ ~ q[p].full /\ ~ q[k].full

\* What is in the first stage, or on its way there, is a store, or a load.
Storing(c) == c.valid /\ IsWrite(c.op)
Loading(c) == c.valid /\ ~ IsWrite(c.op)

\* There is room for one more, when what is in the first stage has been put in the queue.
RoomNext(u, a) ==
  Freeing(u, a) \/ IF Storing(u.stage1) THEN HasMoreRoom(u.storeQueue) ELSE HasRoom(u.storeQueue)

\* The stall counts the free entries.
LEMMA SpaceIs ==
  ASSUME NEW q \in Queue
  PROVE  /\ ~ (FreeSpace(q) <= 0) => HasRoom(q)
         /\ ~ (FreeSpace(q) <= 1) => HasMoreRoom(q)
<1>1. NStoreQueue \in Nat /\ \A p : p \in Full(q) <=> p \in 1 .. NStoreQueue /\ q[p].full
  BY One, InQueue
<1>2. IsFiniteSet(1 .. NStoreQueue) /\ Cardinality(1 .. NStoreQueue) = NStoreQueue
  BY <1>1, FS_Interval
<1>3. ASSUME ~ HasRoom(q) PROVE FreeSpace(q) <= 0
  <2>1. Full(q) = 1 .. NStoreQueue BY <1>1, <1>3 DEF HasRoom
  <2> QED BY <1>1, <1>2, <2>1 DEF FreeSpace
<1>4. ASSUME ~ HasMoreRoom(q) PROVE FreeSpace(q) <= 1
  <2>1. CASE ~ HasRoom(q)
    <3>1. Full(q) = 1 .. NStoreQueue BY <1>1, <2>1 DEF HasRoom
    <3> QED BY <1>1, <1>2, <3>1 DEF FreeSpace
  <2>2. CASE HasRoom(q)
    <3>1. PICK p \in 1 .. NStoreQueue : ~ q[p].full BY <2>2 DEF HasRoom
    <3>2. Full(q) = (1 .. NStoreQueue) \ {p} BY <1>1, <1>4, <3>1 DEF HasMoreRoom
    <3>3. Cardinality((1 .. NStoreQueue) \ {p}) = NStoreQueue - 1
      BY <1>2, <3>1, FS_RemoveElement
    <3> QED BY <1>1, <3>2, <3>3 DEF FreeSpace
  <2> QED BY <2>1, <2>2
<1> QED BY <1>3, <1>4

\* The flag about emptiness says nothing about the rest.
EmptyLeft(u, v) ==
  /\ v.stage1 = u.stage1 /\ v.load = u.load /\ v.loadWaiting = u.loadWaiting
  /\ v.finished = u.finished /\ v.result = u.result /\ v.storeQueue = u.storeQueue

\* The flag about emptiness does not matter.
LEMMA CoreEmpty ==
  ASSUME NEW u, NEW r, NEW c, NEW m, NEW ct, Core(u, r, c, FALSE, m, ct),
         NEW e \in BOOLEAN, NEW v, v = [u EXCEPT !.empty = e]
  PROVE  Core(v, r, c, FALSE, m, ct) /\ EmptyLeft(u, v)
<1>1. /\ Typed(u) /\ c \in Packet /\ QueueInv(u.storeQueue, r, c) /\ LoadThere(u.load, r)
      /\ LoadAlone(u, c) /\ Asks(u) /\ Origins(u.storeQueue) /\ Depends(u, r)
      /\ WholeSingles => Memory(u.storeQueue, m, ct)
      /\ WholeSingles /\ AlignedZeros => Halves(u, m, FALSE)
  BY DEF Core
<1>2. /\ Typed(v) /\ v.stage1 = u.stage1 /\ v.load = u.load /\ v.loadWaiting = u.loadWaiting
      /\ v.storeWaiting = u.storeWaiting /\ v.dcache = u.dcache
      /\ v.finished = u.finished /\ v.result = u.result /\ v.storeQueue = u.storeQueue
  BY <1>1 DEF Typed
<1>3. LoadAlone(v, c) /\ Asks(v) /\ Depends(v, r) BY <1>1, <1>2 DEF LoadAlone, Asks, Depends
<1>4. WholeSingles /\ AlignedZeros => Halves(v, m, FALSE) BY <1>1, <1>2 DEF Halves
<1>5. Core(v, r, c, FALSE, m, ct) BY <1>1, <1>2, <1>3, <1>4 DEF Core
<1> QED BY <1>2, <1>5 DEF EmptyLeft

\* The room in the queue from one falling edge to the next.
LEMMA RoomLeft ==
  ASSUME NEW q, NEW w, \A p \in 1 .. NStoreQueue : w[p].full => q[p].full
  PROVE  (HasRoom(q) => HasRoom(w)) /\ (HasMoreRoom(q) => HasMoreRoom(w))
  BY DEF HasRoom, HasMoreRoom

LEMMA RoomRenumbered ==
  ASSUME NEW q, NEW w, NEW h, Renumbered(q, w, h)
  PROVE  (HasRoom(q) => HasRoom(w)) /\ (HasMoreRoom(q) => HasMoreRoom(w))
<1>1. /\ \A p \in 1 .. NStoreQueue : w[p] = q[h[p]]
      /\ \A p \in 1 .. NStoreQueue : \E k \in 1 .. NStoreQueue : h[k] = p
  BY DEF Renumbered
<1>2. ASSUME HasRoom(q) PROVE HasRoom(w) BY <1>1, <1>2 DEF HasRoom
<1>3. ASSUME HasMoreRoom(q) PROVE HasMoreRoom(w)
  <2>1. PICK p, k \in 1 .. NStoreQueue : p # k /\ ~ q[p].full /\ ~ q[k].full
    BY <1>3 DEF HasMoreRoom
  <2>2. PICK e \in 1 .. NStoreQueue : h[e] = p BY <1>1
  <2>3. PICK f \in 1 .. NStoreQueue : h[f] = k BY <1>1
  <2>4. e # f /\ ~ w[e].full /\ ~ w[f].full BY <1>1, <2>1, <2>2, <2>3
  <2> QED BY <2>4 DEF HasMoreRoom
<1> QED BY <1>2, <1>3

\* The load l has tag t, when it has left the first stage or has not been answered.
LoadAfter(u, a, l, t) ==
  l.valid /\ l.tag = t <=> \/ Loading(u.stage1) /\ u.stage1.tag = t
                           \/ u.load.valid /\ u.load.tag = t /\ ~ Answering(u, a)

\* What the falling edge leaves of the unit; s is what the branch leaves of the reorder
\* buffer.
FallLeft(u, v, a, s) ==
  /\ ~ v.stage1.valid /\ v.finished = u.finished /\ v.result = u.result
  /\ \A i \in DOMAIN s : LoadAfter(u, a, v.load, s[i].tag)
  /\ RoomNext(u, a) => HasRoom(v.storeQueue)
  /\ ~ Loading(u.stage1) /\ (Answering(u, a) \/ (~ u.load.valid /\ ~ u.loadWaiting)) =>
       ~ v.load.valid /\ ~ v.loadWaiting

\* The loads that are left.
LEMMA LoadLeft ==
  ASSUME NEW u, NEW r, NEW m, NEW ct, NEW a, Core(u, r, u.stage1, a, m, ct),
         NEW b, RobOrder(r, b), NEW result, NEW s, LeftOf(r, s, result),
         NEW l, NEW k, Core(l, r, l.stage1, FALSE, k, ct), ServedLeaves(u, l, a),
         NEW x, BranchLeft(l, x, result), NEW y, ShiftLeft(x, y), NEW z, AdvanceLeft(y, z),
         NEW i \in DOMAIN s
  PROVE  LoadAfter(u, a, z.load, s[i].tag)
<1>1. /\ DOMAIN s \subseteq DOMAIN r /\ s[i].tag = r[i].tag /\ ~ Flushed(r[i], result)
      /\ i \in DOMAIN r
  BY LeftFields
<1>2. /\ LoadAlone(u, u.stage1) /\ u.stage1 \in Packet
      /\ LastSent(u.storeQueue, r, u.stage1)
  BY DEF Core, QueueInv
<1>3. LoadThere(l.load, r) BY DEF Core
<1>4. /\ l.stage1 = u.stage1 /\ (l.load.valid <=> u.load.valid /\ ~ Answering(u, a))
      /\ l.load.valid => l.load.tag = u.load.tag
  BY DEF ServedLeaves
<1>5. /\ x.stage1.valid <=> l.stage1.valid /\ ~ Flushed(l.stage1, result)
      /\ x.stage1.valid => x.stage1.tag = l.stage1.tag /\ x.stage1.op = l.stage1.op
      /\ x.load.valid <=> l.load.valid /\ ~ Flushed(l.load, result)
      /\ x.load.valid => x.load.tag = l.load.tag
  BY DEF BranchLeft
<1>6. y.stage1 = x.stage1 /\ y.load = x.load BY DEF ShiftLeft
<1>7. /\ Loading(y.stage1) => z.load.valid /\ z.load.tag = y.stage1.tag
      /\ ~ Loading(y.stage1) => z.load = y.load
  BY DEF AdvanceLeft, Loading
<1>8. Loading(y.stage1) <=> Loading(u.stage1) /\ ~ Flushed(u.stage1, result)
  BY <1>4, <1>5, <1>6 DEF Loading
<1>9. Loading(u.stage1) => ~ u.load.valid BY <1>2 DEF LoadAlone, Loading
<1>10. ASSUME Loading(u.stage1), u.stage1.tag = s[i].tag PROVE ~ Flushed(u.stage1, result)
  <2>1. PICK j \in DOMAIN r : Carries(u.stage1, r[j]) BY <1>2, <1>10 DEF LastSent, Loading
  <2>2. j = i BY <1>1, <1>10, <2>1 DEF RobOrder, Carries
  <2> QED BY <1>1, <2>1, <2>2 DEF Carries, Flushed
<1>11. ASSUME l.load.valid, l.load.tag = s[i].tag PROVE ~ Flushed(l.load, result)
  <2>1. PICK j \in DOMAIN r : Carries(l.load, r[j]) BY <1>3, <1>11 DEF LoadThere
  <2>2. j = i BY <1>1, <1>11, <2>1 DEF RobOrder, Carries
  <2> QED BY <1>1, <2>1, <2>2 DEF Carries, Flushed
<1>12. CASE Loading(y.stage1)
  <2>1. z.load.valid /\ z.load.tag = u.stage1.tag
    BY <1>4, <1>5, <1>6, <1>7, <1>12 DEF Loading
  <2>2. Loading(u.stage1) /\ ~ u.load.valid BY <1>8, <1>9, <1>12
  <2> QED BY <2>1, <2>2 DEF LoadAfter
<1>13. CASE ~ Loading(y.stage1)
  <2>1. z.load = x.load BY <1>6, <1>7, <1>13
  <2>2. ~ (Loading(u.stage1) /\ u.stage1.tag = s[i].tag) BY <1>8, <1>10, <1>13
  <2> QED BY <1>4, <1>5, <1>11, <2>1, <2>2 DEF LoadAfter
<1> QED BY <1>12, <1>13

\* A store always finds a free entry when it leaves the first stage.
LEMMA RoomFalls ==
  ASSUME NEW u, NEW a, Storing(u.stage1) => HasRoom(u.storeQueue), RoomNext(u, a),
         NEW l, ServedLeaves(u, l, a), NEW x, NEW result, BranchLeft(l, x, result),
         NEW y, ShiftLeft(x, y), NEW z, AdvanceLeft(y, z)
  PROVE  HasRoom(z.storeQueue)
<1> DEFINE q == u.storeQueue
           w == x.storeQueue
<1>1. \A p \in 1 .. NStoreQueue : w[p].full => q[p].full
  BY DEF ServedLeaves, BranchLeft
<1>2. Freeing(u, a) => q[1].full /\ ~ w[1].full
  BY One DEF ServedLeaves, BranchLeft
<1>3. Storing(y.stage1) => Storing(u.stage1)
  BY DEF Storing, ServedLeaves, BranchLeft, ShiftLeft
<1>4. PICK h : Renumbered(w, y.storeQueue, h) BY DEF ShiftLeft
<1>5. /\ (\E p \in 1 .. NStoreQueue : ~ w[p].full) => ~ y.storeQueue[NStoreQueue].full
      /\ \A p \in 1 .. NStoreQueue :
           z.storeQueue[p].full => \/ y.storeQueue[p].full
                                   \/ p = NStoreQueue /\ Storing(y.stage1)
  BY DEF ShiftLeft, AdvanceLeft, Storing
<1> HIDE DEF q, w
<1>6. CASE Storing(y.stage1)
  <2>1. HasMoreRoom(w)
    <3>1. CASE Freeing(u, a)
      <4>1. PICK p \in 1 .. NStoreQueue : ~ q[p].full BY <1>3, <1>6 DEF HasRoom, q
      <4>2. p # 1 /\ ~ w[p].full /\ ~ w[1].full BY <1>1, <1>2, <3>1, <4>1
      <4> QED BY <4>2, One DEF HasMoreRoom
    <3>2. CASE HasMoreRoom(q) BY <1>1, <3>2, RoomLeft
    <3> QED BY <1>3, <1>6, <3>1, <3>2 DEF RoomNext, q
  <2>2. HasMoreRoom(y.storeQueue) BY <1>4, <2>1, RoomRenumbered
  <2>3. PICK p, k \in 1 .. NStoreQueue : p # k /\ ~ y.storeQueue[p].full /\ ~ y.storeQueue[k].full
    BY <2>2 DEF HasMoreRoom
  <2>4. ~ z.storeQueue[p].full \/ ~ z.storeQueue[k].full BY <1>5, <2>3
  <2> QED BY <2>4 DEF HasRoom
<1>7. CASE ~ Storing(y.stage1)
  <2>1. HasRoom(w)
    <3>1. CASE Freeing(u, a) BY <1>2, <3>1, One DEF HasRoom
    <3>2. CASE HasRoom(q) BY <1>1, <3>2, RoomLeft
    <3> QED BY <3>1, <3>2 DEF RoomNext, HasMoreRoom, HasRoom, q
  <2>2. HasRoom(y.storeQueue) BY <1>4, <2>1, RoomRenumbered
  <2> QED BY <1>5, <1>7, <2>2 DEF HasRoom
<1> QED BY <1>6, <1>7

\* The unit on a falling edge.
LEMMA CoreFalls ==
  ASSUME NEW u, NEW r, NEW m, NEW ct, NEW a, a = TRUE \/ a = FALSE,
         Core(u, r, u.stage1, a, m, ct), NEW b, RobOrder(r, b), a = TRUE => u.dcache.req,
         NEW result \in {"None", "Correct", "Mispredicted"},
         NEW s, LeftOf(r, s, result), NEW e, RobOrder(s, e),
         Storing(u.stage1) => HasRoom(u.storeQueue),
         NEW v, v = OnFallingEdge(u, a, result), NEW k, k = MemoryAfter(u, m, a),
         NEW d \in Packet, ~ d.valid
  PROVE  Core(v, s, d, FALSE, k, ct) /\ FallLeft(u, v, a, s)
<1>1. PICK l : l = Served(u, a) OBVIOUS
<1>2. PICK x : x = BranchFinished(l, result) OBVIOUS
<1>3. PICK y : y = [x EXCEPT !.storeQueue = Shift(@)] OBVIOUS
<1>4. PICK z : z = Advance(y) OBVIOUS
<1>5. PICK em : em = (~ z.stage1.valid /\ ~ z.load.valid /\ Full(z.storeQueue) = {}) OBVIOUS
<1>6. em \in BOOLEAN BY <1>5
<1>7. v = [z EXCEPT !.empty = em]
  BY <1>1, <1>2, <1>3, <1>4, <1>5 DEF OnFallingEdge, Served
<1>8. PICK c : c = u.stage1 OBVIOUS
<1>9. Core(u, r, c, a, m, ct) BY <1>8
<1>10. Core(l, r, c, FALSE, k, ct) /\ ServedLeaves(u, l, a)
  <2>1. (a = TRUE \/ a = FALSE) /\ (a = TRUE => u.dcache.req) /\ RobOrder(r, b) OBVIOUS
  <2>2. k = MemoryAfter(u, m, a) OBVIOUS
  <2> QED BY <1>1, <1>9, <2>1, <2>2, CoreServed
<1>11. Core(l, r, l.stage1, FALSE, k, ct) BY <1>8, <1>10 DEF ServedLeaves
<1>12. Core(x, s, x.stage1, FALSE, k, ct) /\ BranchLeft(l, x, result) BY <1>2, <1>11, CoreBranch
<1>13. Core(y, s, x.stage1, FALSE, k, ct) /\ ShiftLeft(x, y)
  <2>1. PICK f : f = x.stage1 OBVIOUS
  <2>2. Core(x, s, f, FALSE, k, ct) BY <1>12, <2>1
  <2> QED BY <1>3, <2>1, <2>2, CoreShift
<1>14. Core(y, s, y.stage1, FALSE, k, ct) BY <1>13 DEF ShiftLeft
<1>15. y.stage1.valid /\ IsWrite(y.stage1.op) => ~ y.storeQueue[NStoreQueue].full
  <2> SUFFICES ASSUME y.stage1.valid, IsWrite(y.stage1.op)
               PROVE  ~ y.storeQueue[NStoreQueue].full
    OBVIOUS
  <2>1. Storing(u.stage1)
    BY <1>10, <1>12, <1>13 DEF Storing, ServedLeaves, BranchLeft, ShiftLeft
  <2>2. \E p \in 1 .. NStoreQueue : ~ x.storeQueue[p].full
    BY <1>10, <1>12, <2>1 DEF HasRoom, ServedLeaves, BranchLeft
  <2> QED BY <1>13, <2>2 DEF ShiftLeft
<1>16. Core(z, s, d, FALSE, k, ct) /\ AdvanceLeft(y, z) BY <1>4, <1>14, <1>15, CoreAdvance
<1>17. /\ Core(v, s, d, FALSE, k, ct)
       /\ v.stage1 = z.stage1 /\ v.load = z.load /\ v.loadWaiting = z.loadWaiting
       /\ v.finished = z.finished /\ v.result = z.result /\ v.storeQueue = z.storeQueue
  <2>1. Core(z, s, d, FALSE, k, ct) BY <1>16
  <2>2. Core(v, s, d, FALSE, k, ct) /\ EmptyLeft(z, v) BY <1>6, <1>7, <2>1, CoreEmpty
  <2> QED BY <2>2 DEF EmptyLeft
<1>18. ASSUME NEW i \in DOMAIN s
       PROVE  LoadAfter(u, a, v.load, s[i].tag)
  <2>1. LoadAfter(u, a, z.load, s[i].tag)
    BY <1>10, <1>11, <1>12, <1>13, <1>16, LoadLeft
  <2> QED BY <1>17, <2>1
<1>19. RoomNext(u, a) => HasRoom(v.storeQueue)
  BY <1>10, <1>12, <1>13, <1>16, <1>17, RoomFalls
<1>20. ~ Loading(u.stage1) /\ (Answering(u, a) \/ (~ u.load.valid /\ ~ u.loadWaiting)) =>
         ~ v.load.valid /\ ~ v.loadWaiting
  <2> SUFFICES ASSUME ~ Loading(u.stage1), Answering(u, a) \/ (~ u.load.valid /\ ~ u.loadWaiting)
               PROVE  ~ v.load.valid /\ ~ v.loadWaiting
    OBVIOUS
  <2>1. ~ l.load.valid /\ ~ l.loadWaiting
    <3>1. Answering(u, a) => a BY DEF Answering
    <3> QED BY <1>10, <3>1 DEF ServedLeaves
  <2>2. ~ x.load.valid /\ ~ x.loadWaiting BY <1>12, <2>1 DEF BranchLeft
  <2>3. ~ (y.stage1.valid /\ ~ IsWrite(y.stage1.op))
    BY <1>10, <1>12, <1>13 DEF Loading, ServedLeaves, BranchLeft, ShiftLeft
  <2> QED BY <1>13, <1>16, <1>17, <2>2, <2>3 DEF ShiftLeft, AdvanceLeft
<1>21. ~ v.stage1.valid /\ v.finished = u.finished /\ v.result = u.result
  BY <1>10, <1>12, <1>13, <1>16, <1>17 DEF ServedLeaves, BranchLeft, ShiftLeft, AdvanceLeft
<1> QED BY <1>17, <1>18, <1>19, <1>20, <1>21 DEF FallLeft
=============================================================================
