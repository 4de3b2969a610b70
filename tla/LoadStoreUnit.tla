--------------------------- MODULE LoadStoreUnit ---------------------------
(***************************************************************************)
(* The load/store unit of LoadStoreUnit.cpp and its StoreQueue: one load,  *)
(* and a queue of stores that wait until the completion unit retires them; *)
(* a load passes the stores it does not overlap.  An access that crosses a *)
(* line is made in two requests, "Msb" and "Lsb".                          *)
(*                                                                         *)
(* A unit is a record: its registers, the request it makes to the data     *)
(* cache, and the signals it drives.  The queue is the linked list of the  *)
(* code, oldest entry first.  What a free entry holds is never read.  The  *)
(* second result of a load or store with update is left out.               *)
(***************************************************************************)
EXTENDS Integers, SequencesExt

CONSTANTS
  NStoreQueue,  \* nStoreQueueEntries
  LineSize,     \* linesize, in bytes
  Garbage,      \* a byte that no program has written
  None          \* no tag

ASSUME LoadStoreAssumption == NStoreQueue \in Nat \ {0} /\ LineSize \in Nat \ {0}

\* Operations: kind is "Load", "Store", "Zero" (dcbz) or "SystemCall"; data holds the
\* bytes of a store, single says that they come from a double converted to single.
NoOperation == [kind |-> "Load", addr |-> 0, size |-> 1, data |-> <<>>, single |-> FALSE]
IsWrite(o) == o.kind \in {"Store", "Zero"}

\* A dcbz takes a whole line.
Carried(o) == IF o.kind = "Zero" THEN [o EXCEPT !.size = LineSize] ELSE o

NoRequest == [req |-> FALSE, kind |-> "Load", addr |-> 0, size |-> 0, data |-> <<>>]

Free == [full |-> FALSE, valid |-> FALSE, tag |-> None, op |-> NoOperation, branchCounter |-> 0,
         dependentLoadTag |-> None, state |-> "Normal"]
Nothing == [valid |-> FALSE, tag |-> None, op |-> NoOperation, branchCounter |-> 0]
NoLoad == [valid |-> FALSE, tag |-> None, op |-> NoOperation, branchCounter |-> 0,
           state |-> "Normal", data |-> <<>>]

\* Reset()
EmptyUnit ==
  [loadWaiting |-> FALSE, storeWaiting |-> FALSE, stage1 |-> Nothing, load |-> NoLoad,
   storeQueue |-> [i \in 1 .. NStoreQueue |-> Free], dcache |-> NoRequest,
   storeQueueStalled |-> FALSE, loadQueueStalled |-> FALSE, empty |-> TRUE,
   finished |-> {}, result |-> <<>>]

Line(a) == a \div LineSize
FirstPart(o) == LineSize - (o.addr % LineSize)
Crosses(o) == o.addr % o.size # 0 /\ FirstPart(o) < o.size

Full(q) == {i \in DOMAIN q : q[i].full}
FreeSpace(q) == NStoreQueue - Cardinality(Full(q))

\* SetLoadDependency(): the access shares a byte with the entry.
Overlaps(e, o) ==
  \/ o.addr \in e.op.addr .. e.op.addr + e.op.size - 1
  \/ e.op.addr \in o.addr .. o.addr + o.size - 1
HasLoadDependency(q, tag) == \E i \in Full(q) : q[i].dependentLoadTag = tag

\* What Load() and Store() ask for, and the state they leave.
StateOf(o, state) ==
  IF o.kind # "Zero" /\ state = "Normal" /\ Crosses(o) THEN "Msb" ELSE state
RequestOf(o, state) ==
  LET from == IF state = "Lsb" THEN FirstPart(o) ELSE 0
      size == IF state = "Msb" THEN FirstPart(o) ELSE o.size - from
  IN  [req |-> TRUE, kind |-> o.kind, addr |-> o.addr + from, size |-> size,
       data |-> IF o.kind # "Store" THEN <<>>
                \* The bits of the double are shifted before they are converted.
                ELSE IF o.single /\ state = "Lsb" THEN [i \in 1 .. size |-> Garbage]
                ELSE SubSeq(o.data, from + 1, from + size)]

Load(u) ==
  LET state == StateOf(u.load.op, u.load.state)
  IN  [u EXCEPT !.load.state = state, !.loadWaiting = TRUE,
                !.dcache = RequestOf(u.load.op, state)]
Store(u) ==
  LET e == u.storeQueue[1]
      state == StateOf(e.op, e.state)
  IN  [u EXCEPT !.storeQueue[1].state = state, !.storeWaiting = TRUE,
                !.dcache = RequestOf(e.op, state)]

\* A load waits for the stores it overlaps.  (Mutant: it does not.)
MayLoadAlways(u) == u.load.valid
MayLoad(u) == u.load.valid /\ ~ HasLoadDependency(u.storeQueue, u.load.tag)

\* The stalls OnFrontEdge() computes.  (Mutant: the store in the first stage is not
\* counted.)
StoreStallLate(u, storing) == FreeSpace(u.storeQueue) <= 0
StoreStall(u, storing) == FreeSpace(u.storeQueue) <= IF storing THEN 1 ELSE 0

\* OnFrontEdge(): d is what the dispatch unit has sent.
OnFrontEdge(unit, d) ==
  LET u == IF unit.loadWaiting \/ unit.storeWaiting THEN unit
           ELSE IF MayLoad(unit) THEN Load(unit)
           ELSE IF unit.storeQueue[1].full /\ unit.storeQueue[1].valid THEN Store(unit)
           ELSE unit
      storing == d.valid /\ IsWrite(d.op)
  IN  [u EXCEPT
         !.stage1 = IF d.valid THEN [d EXCEPT !.op = Carried(@)] ELSE @,
         !.finished = IF storing THEN {d.tag} ELSE {},
         !.result = <<>>,
         !.storeQueueStalled = StoreStall(u, storing),
         !.loadQueueStalled = u.load.valid \/ u.loadWaiting \/ (d.valid /\ ~ storing)]

\* Validate(): the first entry that has not been retired.
Validate(q) ==
  LET waiting == {i \in Full(q) : ~ q[i].valid}
  IN  IF waiting = {} THEN q ELSE [q EXCEPT ![Min(waiting)].valid = TRUE]

\* WriteBack() of one port; None is the tag of a port that is not used.
WriteBackOne(u, tag) ==
  IF tag = None THEN u
  ELSE IF ~ u.loadWaiting /\ ~ u.storeWaiting /\ u.storeQueue[1].full /\ u.storeQueue[1].tag = tag
  THEN Store([u EXCEPT !.storeQueue[1].valid = TRUE])
  ELSE [u EXCEPT !.storeQueue = Validate(@)]
WriteBack(unit, tags) ==
  LET done[n \in 0 .. Len(tags)] ==
        IF n = 0 THEN unit ELSE WriteBackOne(done[n - 1], tags[n])
  IN  done[Len(tags)]

\* Forward(): the cache has acknowledged.
Forward(unit, data) ==
  LET u == IF ~ unit.loadWaiting \/ ~ unit.load.valid THEN unit
           ELSE CASE unit.load.state = "Msb" -> [unit EXCEPT !.load.data = data]
                  [] OTHER -> [unit EXCEPT !.load.data = @ \o data, !.result = unit.load.data \o data,
                                           !.finished = @ \cup {unit.load.tag},
                                           !.loadQueueStalled = FALSE]
  IN  IF u.storeWaiting THEN [u EXCEPT !.storeQueueStalled = u.storeQueue[1].state = "Msb"] ELSE u

\* The request has been served.
StoreServed(u) ==
  [u EXCEPT !.storeWaiting = FALSE, !.dcache = NoRequest,
            !.storeQueue[1] = IF @.state = "Msb" THEN [@ EXCEPT !.state = "Lsb"] ELSE Free]
LoadServed(u) ==
  [u EXCEPT !.loadWaiting = FALSE, !.dcache = NoRequest,
            !.load = CASE @.state = "Msb" /\ @.valid -> [@ EXCEPT !.state = "Lsb"]
                       [] OTHER -> NoLoad]

\* Flush() and DecrementBranchCounter() for a branch that has been resolved.  (Mutant:
\* the entries of a mispredicted path stay.)
KeepAll(q) == q
FlushStores(q) ==
  [i \in DOMAIN q |-> IF q[i].full /\ q[i].branchCounter # 0 THEN Free ELSE q[i]]
Decrement(n) == IF n > 0 THEN n - 1 ELSE n
DecrementAll(q) == [i \in DOMAIN q |-> [q[i] EXCEPT !.branchCounter = Decrement(@)]]
BranchFinished(unit, branch) ==
  LET u == IF branch # "Mispredicted" THEN unit
           ELSE [unit EXCEPT !.storeQueue = FlushStores(@),
                             !.stage1 = IF @.branchCounter > 0 THEN Nothing ELSE @,
                             !.load = IF @.branchCounter > 0 THEN NoLoad ELSE @]
  IN  IF branch = "None" THEN u
      ELSE [u EXCEPT !.stage1.branchCounter = Decrement(@), !.load.branchCounter = Decrement(@),
                     !.storeQueue = DecrementAll(@)]

\* Shift(): the oldest free entry becomes the newest one.
Shift(q) ==
  LET free == DOMAIN q \ Full(q)
  IN  IF free = {} THEN q ELSE Append(RemoveAt(q, Min(free)), q[Min(free)])

\* The first stage empties: a load takes note of the stores it overlaps, a store becomes
\* the newest entry of the queue.
Advance(u) ==
  LET s == u.stage1
      q == u.storeQueue
  IN  CASE ~ s.valid -> u
        [] s.valid /\ ~ IsWrite(s.op) ->
             [u EXCEPT !.stage1 = Nothing,
                       !.load = [valid |-> TRUE, tag |-> s.tag, op |-> s.op, data |-> <<>>,
                                 branchCounter |-> s.branchCounter, state |-> "Normal"],
                       !.storeQueue = [i \in DOMAIN q |->
                         IF q[i].full /\ Overlaps(q[i], s.op)
                         THEN [q[i] EXCEPT !.dependentLoadTag = s.tag] ELSE q[i]]]
        [] OTHER ->
             [u EXCEPT !.stage1 = Nothing,
                       !.storeQueue[NStoreQueue] =
                         [full |-> TRUE, valid |-> FALSE, tag |-> s.tag, op |-> s.op,
                          branchCounter |-> s.branchCounter, dependentLoadTag |-> None,
                          state |-> "Normal"]]

\* OnFallingEdge()
OnFallingEdge(unit, ack, branch) ==
  LET s == IF ack /\ unit.storeWaiting THEN StoreServed(unit) ELSE unit
      l == IF ack /\ unit.loadWaiting THEN LoadServed(s) ELSE s
      u == Advance([BranchFinished(l, branch) EXCEPT !.storeQueue = Shift(@)])
  IN  [u EXCEPT !.empty = ~ u.stage1.valid /\ ~ u.load.valid /\ Full(u.storeQueue) = {}]
=============================================================================
