-------------------------- MODULE LoadStoreProofs --------------------------
(***************************************************************************)
(* The invariants of LoadStoreSystem, for reorder buffers and store queues *)
(* of any length, any cache latency and any program.                       *)
(*                                                                         *)
(* They are not inductive: what the unit holds on one edge depends on the  *)
(* packet that the dispatch unit sent on the other, and on stalls that it  *)
(* was told half a cycle before.  IInv adds to Core (LoadStoreUnitProofs)  *)
(* which instructions are under way (Stages), that the tags of the reorder *)
(* buffer go round the ring (Tagged), that a store is never sent without a *)
(* free entry (Rising), and what the stall signals promise (Flags).        *)
(***************************************************************************)
EXTENDS LoadStoreUnitProofs

-----------------------------------------------------------------------------
\* The rising edge.

\* An instruction is under way while it waits for the first stage or is a load without an
\* answer.
Stages(l, r, c) ==
  \A i \in DOMAIN r :
    IsMemory(r[i].op) =>
      (r[i].stage = "Dispatched" <=> \/ c.valid /\ c.tag = r[i].tag
                                     \/ l.valid /\ l.tag = r[i].tag)

\* What the dispatch unit sends, as the unit takes it.
Coming(d) == [d EXCEPT !.op = Carried(@)]

\* What has finished is no longer in the first stage, and is not the load.
LEMMA FinishedElsewhere ==
  ASSUME NEW q, NEW r, NEW c, NEW l, LastSent(q, r, c), LoadThere(l, r),
         NEW b, RobOrder(r, b), Stages(l, r, c), NEW i \in DOMAIN r, r[i].stage = "Finished"
  PROVE  ~ (c.valid /\ c.tag = r[i].tag) /\ ~ (l.valid /\ l.tag = r[i].tag)
<1>2. \A j, k \in DOMAIN r : r[j].tag = r[k].tag => j = k BY DEF RobOrder
<1>3. ASSUME c.valid, c.tag = r[i].tag PROVE FALSE
  <2>1. PICK j \in DOMAIN r : IsMemory(r[j].op) /\ Carries(c, r[j]) BY <1>3 DEF LastSent
  <2>2. j = i BY <1>2, <1>3, <2>1 DEF Carries
  <2> QED BY <1>3, <2>1, <2>2 DEF Stages
<1>4. ASSUME l.valid, l.tag = r[i].tag PROVE FALSE
  <2>1. PICK j \in DOMAIN r : r[j].op.kind = "Load" /\ Carries(l, r[j])
    BY <1>4 DEF LoadThere
  <2>2. j = i BY <1>2, <1>4, <2>1 DEF Carries
  <2> QED BY <1>4, <2>1, <2>2 DEF Stages, IsMemory
<1> QED BY <1>3, <1>4

\* What the rising edge leaves of the unit, before the cache answers.
RiseLeft(u, v, d) ==
  /\ v.stage1.valid = d.valid /\ (v.stage1.valid => v.stage1 = Coming(d))
  /\ v.load.valid = u.load.valid /\ v.load.tag = u.load.tag
  /\ v.finished = (IF Storing(v.stage1) THEN {v.stage1.tag} ELSE {}) /\ v.result = <<>>
  /\ v.storeQueueStalled = StoreStall(v, Storing(v.stage1))
  /\ v.loadQueueStalled = (v.load.valid \/ v.loadWaiting \/ Loading(v.stage1))
  /\ HasRoom(u.storeQueue) => HasRoom(v.storeQueue)

\* OnFrontEdge() and the signals of the unit.
LEMMA FrontLeft ==
  ASSUME NEW u, Typed(u), ~ u.stage1.valid, NEW d \in Packet, NEW v, v = OnFrontEdge(u, d)
  PROVE  RiseLeft(u, v, d) /\ Typed(v)
<1>1. /\ Typed(v)
      /\ v.stage1 = (IF d.valid THEN Coming(d) ELSE u.stage1)
      /\ Alike(u.storeQueue, v.storeQueue) /\ LoadKept(u, v)
      /\ v.finished = (IF d.valid /\ IsWrite(d.op) THEN {d.tag} ELSE {}) /\ v.result = <<>>
      /\ v.storeQueueStalled = StoreStall(v, d.valid /\ IsWrite(d.op))
      /\ v.loadQueueStalled = (u.load.valid \/ v.loadWaiting \/ (d.valid /\ ~ IsWrite(d.op)))
  BY FrontEdgeStep DEF Coming
<1>2. /\ Coming(d) \in Packet /\ Coming(d).valid = d.valid /\ Coming(d).tag = d.tag
      /\ Coming(d).op = Carried(d.op)
  BY SentIs DEF Coming
<1>3. IsWrite(Carried(d.op)) <=> IsWrite(d.op)
  <2>1. d.op \in Operation BY DEF Packet
  <2> QED BY <2>1, CarriedIs
<1>4. d.valid \in BOOLEAN /\ u.stage1.valid = FALSE BY DEF Packet, Typed
<1>5. v.stage1.valid = d.valid /\ (v.stage1.valid => v.stage1 = Coming(d))
  BY <1>1, <1>2, <1>4
<1>6. (d.valid /\ IsWrite(d.op)) = Storing(v.stage1) /\ (d.valid /\ ~ IsWrite(d.op)) = Loading(v.stage1)
  <2>1. CASE d.valid BY <1>2, <1>3, <1>5, <2>1 DEF Storing, Loading, IsWrite
  <2>2. CASE ~ d.valid BY <1>5, <2>2 DEF Storing, Loading
  <2> QED BY <2>1, <2>2
<1>7. Storing(v.stage1) => v.stage1.tag = d.tag BY <1>2, <1>5 DEF Storing
<1>8. HasRoom(u.storeQueue) => HasRoom(v.storeQueue) BY <1>1 DEF Alike, HasRoom
<1>9. v.load.valid = u.load.valid /\ v.load.tag = u.load.tag BY <1>1 DEF LoadKept
<1>10. v.finished = (IF Storing(v.stage1) THEN {v.stage1.tag} ELSE {}) BY <1>1, <1>6, <1>7
<1>11. v.storeQueueStalled = StoreStall(v, Storing(v.stage1)) BY <1>1, <1>6
<1>12. v.loadQueueStalled = (v.load.valid \/ v.loadWaiting \/ Loading(v.stage1))
  BY <1>1, <1>6, <1>9
<1> QED BY <1>1, <1>5, <1>8, <1>9, <1>10, <1>11, <1>12 DEF RiseLeft

\* The unit on the rising edge, before the cache answers.
LEMMA UnitRises ==
  ASSUME NEW u, NEW r, NEW d \in Packet, NEW m, NEW ct, ~ u.stage1.valid,
         Core(u, r, Coming(d), FALSE, m, ct), Stages(u.load, r, Coming(d)),
         IsMap(ct), NEW b, RobOrder(r, b), NEW N \in 0 .. Len(r),
         \A i \in 1 .. N : Ready(r[i]),
         NEW v, v = WriteBack(OnFrontEdge(u, d), Ports(r, N)),
         NEW k, k = Effects(ct, Firsts(r, N))
  PROVE  Core(v, Rest(r, N), v.stage1, FALSE, m, k) /\ RiseLeft(u, v, d)
<1>1. PICK f : f = OnFrontEdge(u, d) OBVIOUS
<1>2. Core(f, r, f.stage1, FALSE, m, ct) /\ Started(f)
  BY <1>1, CoreFrontEdge DEF Coming
<1>3. Typed(u) BY DEF Core
<1>4. RiseLeft(u, f, d) BY <1>1, <1>3, FrontLeft
<1>5. ASSUME NEW i \in 1 .. N
      PROVE  /\ Ready(r[i]) /\ ~ (f.stage1.valid /\ f.stage1.tag = r[i].tag)
             /\ ~ (f.load.valid /\ f.load.tag = r[i].tag)
  <2>1. i \in DOMAIN r BY DEF RobOrder
  <2>2. Ready(r[i]) /\ r[i].stage = "Finished" BY DEF Ready
  <2>3. PICK c : c = Coming(d) OBVIOUS
  <2>4. LastSent(u.storeQueue, r, c) /\ LoadThere(u.load, r) /\ Stages(u.load, r, c)
    BY <2>3 DEF Core, QueueInv
  <2>5. ~ (c.valid /\ c.tag = r[i].tag) /\ ~ (u.load.valid /\ u.load.tag = r[i].tag)
    BY <2>1, <2>2, <2>4, FinishedElsewhere
  <2>6. /\ f.stage1.valid => f.stage1 = c
        /\ f.load.valid = u.load.valid /\ f.load.tag = u.load.tag
    BY <1>4, <2>3 DEF RiseLeft
  <2> QED BY <2>2, <2>5, <2>6
<1>6. PICK c : c = f.stage1 OBVIOUS
<1>7. Core(f, r, c, FALSE, m, ct) BY <1>2, <1>6
<1>8. v = WriteBack(f, Ports(r, N)) BY <1>1
<1>9. Core(v, Rest(r, N), c, FALSE, m, k) /\ SameOutside(f, v)
  <2>1. Over(f, r, c, N) BY <1>5, <1>6 DEF Over
  <2> QED BY <1>2, <1>7, <1>8, <2>1, CoreRetires
<1>10. v.stage1 = c BY <1>6, <1>9 DEF SameOutside
<1>11. Core(v, Rest(r, N), v.stage1, FALSE, m, k) BY <1>9, <1>10
<1>12. FreeSpace(v.storeQueue) = FreeSpace(f.storeQueue)
  <2>1. v.storeQueue \in Queue /\ f.storeQueue \in Queue BY <1>7, <1>9 DEF Core, QueueInv
  <2>2. Full(v.storeQueue) = Full(f.storeQueue) BY <1>9, <2>1, SameFull DEF SameOutside
  <2> QED BY <2>2 DEF FreeSpace
<1>13. HasRoom(f.storeQueue) => HasRoom(v.storeQueue) BY <1>9 DEF SameOutside, HasRoom
<1>14. RiseLeft(u, v, d)
  BY <1>4, <1>6, <1>9, <1>12, <1>13 DEF RiseLeft, SameOutside, StoreStall
<1> QED BY <1>11, <1>14

\* The signals of the unit on the falling edge.
Flags(v, a) ==
  /\ a = TRUE => v.dcache.req
  /\ v.finished = (IF Storing(v.stage1) THEN {v.stage1.tag} ELSE {})
                  \cup (IF Answering(v, a) THEN {v.load.tag} ELSE {})
  /\ Storing(v.stage1) => HasRoom(v.storeQueue)
  /\ ~ v.storeQueueStalled => RoomNext(v, a)
  /\ ~ v.loadQueueStalled => /\ ~ Loading(v.stage1)
                             /\ Answering(v, a) \/ (~ v.load.valid /\ ~ v.loadWaiting)
\* A load has what the program reads.
Result(u, r, ct) ==
  u.result # <<>> =>
    \A i \in DOMAIN r :
      r[i].op.kind = "Load" /\ r[i].tag \in u.finished => u.result = Reads(r, i, ct)

\* The signals when the cache does not answer.
LEMMA FlagsRise ==
  ASSUME NEW u, NEW d, NEW w, Typed(w), RiseLeft(u, w, d),
         Storing(Coming(d)) => HasRoom(u.storeQueue)
  PROVE  /\ Flags(w, FALSE) /\ w.storeQueueStalled = StoreStall(w, Storing(w.stage1))
         /\ Storing(w.stage1) => HasRoom(w.storeQueue)
         /\ w.finished = (IF Storing(w.stage1) THEN {w.stage1.tag} ELSE {})
         /\ ~ w.loadQueueStalled => ~ Loading(w.stage1) /\ ~ w.load.valid /\ ~ w.loadWaiting
         /\ ~ w.storeQueueStalled => RoomNext(w, FALSE)
<1>1. /\ w.stage1.valid => w.stage1 = Coming(d)
      /\ w.finished = (IF Storing(w.stage1) THEN {w.stage1.tag} ELSE {})
      /\ w.storeQueueStalled = StoreStall(w, Storing(w.stage1))
      /\ w.loadQueueStalled = (w.load.valid \/ w.loadWaiting \/ Loading(w.stage1))
      /\ HasRoom(u.storeQueue) => HasRoom(w.storeQueue)
  BY DEF RiseLeft
<1>2. Storing(w.stage1) => HasRoom(w.storeQueue) BY <1>1 DEF Storing
<1>3. ~ w.storeQueueStalled => RoomNext(w, FALSE)
  <2>1. w.storeQueue \in Queue BY DEF Typed
  <2>2. /\ ~ (FreeSpace(w.storeQueue) <= 0) => HasRoom(w.storeQueue)
        /\ ~ (FreeSpace(w.storeQueue) <= 1) => HasMoreRoom(w.storeQueue)
    BY <2>1, SpaceIs
  <2> QED BY <1>1, <2>2 DEF StoreStall, RoomNext
<1>4. ~ Answering(w, FALSE) BY DEF Answering
<1>5. ~ w.loadQueueStalled => ~ Loading(w.stage1) /\ ~ w.load.valid /\ ~ w.loadWaiting
  <2>1. w.load.valid \in BOOLEAN /\ w.loadWaiting \in BOOLEAN BY DEF Typed
  <2> QED BY <1>1, <2>1
<1> QED BY <1>1, <1>2, <1>3, <1>4, <1>5 DEF Flags

\* The signals when the cache answers.
LEMMA FlagsAnswered ==
  ASSUME NEW u, NEW d, NEW w, Typed(w), RiseLeft(u, w, d), LoadAlone(w, w.stage1),
         Storing(Coming(d)) => HasRoom(u.storeQueue), w.dcache.req,
         NEW data, NEW v, v = Forward(w, data)
  PROVE  Flags(v, TRUE) /\ v.load.valid = w.load.valid /\ v.load.tag = w.load.tag
         /\ v.stage1 = w.stage1
<1>1. /\ w.storeQueueStalled = StoreStall(w, Storing(w.stage1))
      /\ Storing(w.stage1) => HasRoom(w.storeQueue)
      /\ w.finished = (IF Storing(w.stage1) THEN {w.stage1.tag} ELSE {})
      /\ ~ w.loadQueueStalled => ~ Loading(w.stage1) /\ ~ w.load.valid /\ ~ w.loadWaiting
      /\ ~ w.storeQueueStalled => RoomNext(w, FALSE)
  BY FlagsRise
<1>2. /\ SameLoad(w, v) /\ v.storeQueue = w.storeQueue /\ v.storeWaiting = w.storeWaiting
      /\ v.dcache = w.dcache /\ Answered(w, v, data)
  BY ForwardStep
<1>3. Answering(v, TRUE) <=> Answering(w, TRUE) BY <1>2 DEF SameLoad, Answering
<1>4. Freeing(v, TRUE) <=> w.storeWaiting /\ w.storeQueue[1].state # "Msb"
  BY <1>2 DEF Freeing
<1>5. v.finished = (IF Storing(v.stage1) THEN {v.stage1.tag} ELSE {})
                   \cup (IF Answering(v, TRUE) THEN {v.load.tag} ELSE {})
  BY <1>1, <1>2, <1>3 DEF Answered, SameLoad
<1>6. ~ v.storeQueueStalled => RoomNext(v, TRUE)
  <2>1. CASE w.storeWaiting BY <1>2, <1>4, <2>1 DEF Answered, RoomNext
  <2>2. CASE ~ w.storeWaiting
    <3>1. v.storeQueueStalled = w.storeQueueStalled BY <1>2, <2>2 DEF Answered
    <3>2. ~ Freeing(w, FALSE) BY DEF Freeing
    <3> QED BY <1>1, <1>2, <3>1, <3>2 DEF RoomNext, SameLoad
  <2> QED BY <2>1, <2>2
<1>7. ~ v.loadQueueStalled => /\ ~ Loading(v.stage1)
                              /\ Answering(v, TRUE) \/ (~ v.load.valid /\ ~ v.loadWaiting)
  <2>1. CASE Answering(w, TRUE)
    <3>1. w.load.valid BY <2>1 DEF Answering
    <3>2. ~ Loading(w.stage1) BY <3>1 DEF LoadAlone, Loading
    <3> QED BY <1>2, <1>3, <2>1, <3>2 DEF SameLoad
  <2>2. CASE ~ Answering(w, TRUE)
    <3>1. v.loadQueueStalled = w.loadQueueStalled BY <1>2, <2>2 DEF Answered
    <3> QED BY <1>1, <1>2, <3>1 DEF SameLoad
  <2> QED BY <2>1, <2>2
<1>8. Storing(v.stage1) => HasRoom(v.storeQueue) BY <1>1, <1>2 DEF SameLoad
<1>9. v.dcache.req BY <1>2
<1>10. v.load.valid = w.load.valid /\ v.load.tag = w.load.tag /\ v.stage1 = w.stage1
  BY <1>2 DEF SameLoad
<1> QED BY <1>5, <1>6, <1>7, <1>8, <1>9, <1>10 DEF Flags

\* The unit and the program when the cache may have answered.
Replied(w, v, r, ct, a) ==
  /\ Flags(v, a)
  /\ v.load.valid = w.load.valid /\ v.load.tag = w.load.tag /\ v.stage1 = w.stage1
  /\ WholeSingles /\ AlignedZeros => Result(v, r, ct)

\* The answer keeps the invariant, and completes a load with what the program reads.
LEMMA UnitAnswered ==
  ASSUME NEW u, NEW d, NEW w, NEW r, NEW m, NEW ct, Core(w, r, w.stage1, FALSE, m, ct),
         NEW b, RobOrder(r, b), RiseLeft(u, w, d), Storing(Coming(d)) => HasRoom(u.storeQueue),
         NEW a, a = TRUE \/ a = FALSE, a = TRUE => w.dcache.req,
         NEW v, v = IF a THEN Forward(w, Answer(w, m)) ELSE w
  PROVE  Core(v, r, v.stage1, a, m, ct) /\ Replied(w, v, r, ct, a)
<1>1. Typed(w) /\ LoadAlone(w, w.stage1) BY DEF Core
<1>2. w.result = <<>> /\ w.finished = (IF Storing(w.stage1) THEN {w.stage1.tag} ELSE {})
  BY DEF RiseLeft
<1>3. CASE a = FALSE
  <2>1. v = w BY <1>3
  <2>2. Flags(v, FALSE) BY <1>1, <2>1, FlagsRise
  <2>3. Result(v, r, ct) BY <1>2, <2>1 DEF Result
  <2> QED BY <1>3, <2>1, <2>2, <2>3 DEF Replied
<1>4. CASE a = TRUE
  <2>1. v = Forward(w, Answer(w, m)) BY <1>4
  <2>2. Flags(v, TRUE) /\ v.load.valid = w.load.valid /\ v.load.tag = w.load.tag
        /\ v.stage1 = w.stage1
    <3>1. w.dcache.req BY <1>4
    <3>2. PICK data : data = Answer(w, m) OBVIOUS
    <3>3. v = Forward(w, data) BY <2>1, <3>2
    <3>4. Typed(w) /\ LoadAlone(w, w.stage1) BY <1>1
    <3> QED BY <3>1, <3>3, <3>4, FlagsAnswered
  <2>3. PICK c : c = w.stage1 OBVIOUS
  <2>4. Core(w, r, c, FALSE, m, ct) BY <2>3
  <2>5. Core(v, r, c, TRUE, m, ct) BY <2>1, <2>4, CoreForward
  <2>6. Core(v, r, v.stage1, a, m, ct) BY <1>4, <2>2, <2>3, <2>5
  <2>7. ASSUME WholeSingles, AlignedZeros PROVE Result(v, r, ct)
    <3>1. Answered(w, v, Answer(w, m)) BY <1>1, <2>1, ForwardStep
    <3>2. CASE ~ Answering(w, TRUE)
      <4>1. v.result = <<>> BY <1>2, <3>1, <3>2 DEF Answered
      <4> QED BY <4>1 DEF Result
    <3>3. CASE Answering(w, TRUE)
      <4> SUFFICES ASSUME NEW i \in DOMAIN r, r[i].op.kind = "Load", r[i].tag \in v.finished
                   PROVE  v.result = Reads(r, i, ct)
        BY DEF Result
      <4>1. v.finished = w.finished \cup {w.load.tag} BY <3>1, <3>3 DEF Answered
      <4>2. ASSUME Storing(w.stage1), r[i].tag = w.stage1.tag PROVE FALSE
        <5>1. c \in Packet /\ LastSent(w.storeQueue, r, c) /\ c.valid /\ IsWrite(c.op)
          BY <2>3, <2>4, <4>2 DEF Core, QueueInv, Storing
        <5>2. PICK j \in DOMAIN r : Carries(c, r[j]) /\ (IsWrite(c.op) <=> IsWrite(r[j].op))
          BY <5>1, MemoryKinds
        <5>3. i = j BY <2>3, <4>2, <5>2 DEF Carries, RobOrder
        <5> QED BY <5>1, <5>2, <5>3, WriteIsMemory
      <4>3. r[i].tag = w.load.tag BY <1>2, <4>1, <4>2
      <4>4. PICK e : e = FALSE OBVIOUS
      <4>5. Core(w, r, c, e, m, ct) BY <2>4, <4>4
      <4>6. w.load.valid /\ w.loadWaiting /\ w.load.state # "Msb" BY <3>3 DEF Answering
      <4>7. v.result = Bytes(m, w.load.op.addr, w.load.op.size)
        BY <2>1, <2>7, <4>4, <4>5, <4>6, AnswerIsWhole
      <4>8. Carries(w.load, r[i]) /\ w.load.op = r[i].op
        <5>1. LoadThere(w.load, r) BY <2>4 DEF Core
        <5>2. PICK j \in DOMAIN r : r[j].op.kind = "Load" /\ Carries(w.load, r[j])
          BY <4>6, <5>1 DEF LoadThere
        <5>3. j = i BY <4>3, <5>2 DEF RobOrder, Carries
        <5> QED BY <5>2, <5>3 DEF Carries, Carried
      <4>9. Reads(r, i, ct) = Bytes(m, r[i].op.addr, r[i].op.size)
        BY <2>7, <4>5, <4>6, <4>8, LoadIsExact
      <4> QED BY <4>7, <4>8, <4>9
    <3> QED BY <3>2, <3>3
  <2>8. Flags(v, a) BY <1>4, <2>2
  <2> QED BY <2>2, <2>6, <2>7, <2>8 DEF Replied
<1> QED BY <1>3, <1>4

\* Retirement and decoding change nothing of what is under way.
LEMMA StagesRise ==
  ASSUME NEW r, NEW b, RobOrder(r, b), NEW n \in 0 .. Len(r), NEW s, Extended(Rest(r, n), s),
         NEW e, RobOrder(s, e), NEW l, NEW c, Stages(l, r, c),
         NEW d, d.valid = c.valid, d.valid => d.tag = c.tag,
         NEW k, k.valid = l.valid, k.tag = l.tag, NEW q, LastSent(q, s, d), LoadThere(k, s)
  PROVE  Stages(k, s, d)
<1> SUFFICES ASSUME NEW i \in DOMAIN s, IsMemory(s[i].op)
             PROVE  s[i].stage = "Dispatched" <=> \/ d.valid /\ d.tag = s[i].tag
                                                  \/ k.valid /\ k.tag = s[i].tag
  BY DEF Stages
<1>1. /\ r \in Seq(RobEntry) /\ Len(r) \in Nat /\ DOMAIN r = 1 .. Len(r)
      /\ s \in Seq(RobEntry) /\ Len(s) \in Nat /\ DOMAIN s = 1 .. Len(s)
  BY DEF RobOrder
<1>2. /\ Rest(r, n) \in Seq(RobEntry) /\ Len(Rest(r, n)) = Len(r) - n
      /\ \A j \in 1 .. Len(r) - n : Rest(r, n)[j] = r[j + n]
  BY <1>1, RestIs
<1>3. /\ \A j \in 1 .. Len(r) - n : s[j] = Rest(r, n)[j]
      /\ \A j \in Len(r) - n + 1 .. Len(s) : ~ Sent(s[j])
  BY <1>2 DEF Extended
<1>4. CASE i <= Len(r) - n
  <2>1. i + n \in DOMAIN r /\ s[i] = r[i + n] BY <1>1, <1>2, <1>3, <1>4
  <2> QED BY <2>1 DEF Stages
<1>5. CASE ~ (i <= Len(r) - n)
  <2>1. ~ Sent(s[i]) BY <1>1, <1>3, <1>5
  <2>2. \A j \in DOMAIN s : Sent(s[j]) => s[j].tag # s[i].tag BY <2>1 DEF RobOrder
  <2>3. ~ (d.valid /\ d.tag = s[i].tag) BY <2>2 DEF LastSent, Carries
  <2>4. ~ (k.valid /\ k.tag = s[i].tag) BY <2>2 DEF LoadThere, Carries
  <2>5. s[i].stage # "Dispatched" BY <2>1 DEF Sent
  <2> QED BY <2>3, <2>4, <2>5
<1> QED BY <1>4, <1>5

\* The newest entry depends on no more branches than there are.
LEMMA OrderMore ==
  ASSUME NEW r, NEW b \in Nat, RobOrder(r, b), NEW e \in Nat, b <= e
  PROVE  RobOrder(r, e)
<1>1. r \in Seq(RobEntry) /\ DOMAIN r = 1 .. Len(r) BY DEF RobOrder
<1>2. \A i \in DOMAIN r : r[i] \in RobEntry BY <1>1
<1>3. \A i \in DOMAIN r : r[i].branchCounter \in Nat BY <1>2 DEF RobEntry
<1>4. \A i \in DOMAIN r : r[i].branchCounter <= e BY <1>3 DEF RobOrder
<1> QED BY <1>4 DEF RobOrder

\* The reorder buffer when n instructions retire and perhaps one is decoded.
LEMMA RobRises ==
  ASSUME NEW r, NEW b \in Nat, RobOrder(r, b), NEW t \in Tag, Tagged(r, t), NEW n \in 0 .. Len(r),
         NEW ops \in {<<>>} \cup {<<o>> : o \in Operations},
         NEW s, s = Decoded(Rest(r, n), ops, (t + Len(r)) % NRob, b),
         ops # <<>> => Len(Rest(r, n)) < NRob
  PROVE  /\ Extended(Rest(r, n), s) /\ RobOrder(s, b)
         /\ (t + n) % NRob \in Tag /\ Tagged(s, (t + n) % NRob)
<1>1. r \in Seq(RobEntry) /\ Len(r) \in Nat /\ t \in Nat /\ NRob \in Nat \ {0} /\ t < NRob
  BY OperationsAssumption DEF RobOrder, Tag
<1>2. PICK h : h = (t + Len(r)) % NRob OBVIOUS
<1>3. Len(r) <= NRob BY DEF Tagged
<1>4. h \in Tag
  <2>1. t + Len(r) \in 0 .. 2 * NRob - 1 BY <1>1, <1>3
  <2> QED BY <1>2, <2>1, TurnIs
<1>5. Rest(r, n) \in Seq(RobEntry) /\ Len(Rest(r, n)) = Len(r) - n BY <1>1, RestIs
<1>6. /\ Extended(Rest(r, n), s)
      /\ ops = <<>> => s = Rest(r, n)
      /\ ops # <<>> => /\ Len(s) = Len(Rest(r, n)) + 1 /\ s[Len(Rest(r, n)) + 1].tag = h
                       /\ s[Len(Rest(r, n)) + 1].branchCounter = b
  <2>1. s = Decoded(Rest(r, n), ops, h, b) BY <1>2
  <2> QED BY <1>4, <1>5, <2>1, DecodedIs
<1>7. /\ s \in Seq(RobEntry) /\ Len(s) \in Nat /\ Len(s) <= Len(r) - n + 1 /\ Len(s) <= NRob
      /\ Len(s) = Len(r) - n + 1 => /\ s[Len(r) - n + 1].tag = h
                                    /\ s[Len(r) - n + 1].branchCounter = b
  <2>1. s \in Seq(RobEntry) BY <1>6 DEF Extended
  <2> HIDE DEF Decoded
  <2>2. CASE ops = <<>> BY <1>1, <1>3, <1>5, <1>6, <2>1, <2>2
  <2>3. CASE ops # <<>> BY <1>1, <1>3, <1>5, <1>6, <2>1, <2>3
  <2> QED BY <2>2, <2>3
<1>8. (t + n) % NRob \in Tag /\ Tagged(s, (t + n) % NRob)
  <2>1. Len(s) = Len(r) - n + 1 => s[Len(r) - n + 1].tag = (t + Len(r)) % NRob BY <1>2, <1>7
  <2> QED BY <1>1, <1>6, <1>7, <2>1, TaggedNext
<1>9. RobOrder(s, b)
  <2>1. PICK k \in Tag : k = (t + n) % NRob /\ Tagged(s, k) BY <1>8
  <2>2. PICK w : w = Rest(r, n) OBVIOUS
  <2>3. RobOrder(w, b) BY <2>2, OrderRest
  <2>4. /\ Extended(w, s) /\ Len(s) <= Len(w) + 1
        /\ Len(s) = Len(w) + 1 => s[Len(w) + 1].branchCounter = b
    BY <1>5, <1>6, <1>7, <2>2
  <2> QED BY <2>1, <2>3, <2>4, OrderExtended
<1> QED BY <1>6, <1>8, <1>9

-----------------------------------------------------------------------------
\* The inductive invariant.

\* Between the falling and the rising edge, when an instruction is on its way to the unit:
\* no store is sent without a free entry to put it in.
Rising ==
  /\ ack = FALSE /\ branch = "None" /\ ~ unit.stage1.valid
  /\ Core(unit, rob, Coming(dispatched), FALSE, mem, contents)
  /\ Stages(unit.load, rob, Coming(dispatched))
  /\ Storing(Coming(dispatched)) => HasRoom(unit.storeQueue)

\* Between the rising and the falling edge.
Falling ==
  /\ branch # "None" => branches > 0
  /\ Core(unit, rob, unit.stage1, ack, mem, contents)
  /\ Stages(unit.load, rob, unit.stage1) /\ Flags(unit, ack)

\* The inductive invariant.
IInv ==
  /\ phase \in {"rise", "fall"} /\ branches \in Nat /\ tail \in Tag
  /\ ack = TRUE \/ ack = FALSE
  /\ branch \in {"None", "Correct", "Mispredicted"} /\ dispatched \in Packet
  /\ RobOrder(rob, branches) /\ Tagged(rob, tail) /\ IsMap(contents)
  /\ phase = "rise" => Rising
  /\ phase = "fall" => Falling
  /\ WholeSingles /\ AlignedZeros => Result(unit, rob, contents)

\* n instructions retire, ops is decoded, and w is the unit before the cache answers.
RiseTo(n, ops, w) ==
  /\ w = WriteBack(OnFrontEdge(unit, dispatched), Ports(rob, n))
  /\ ops # <<>> => Len(Rest(rob, n)) < NRob
  /\ rob' = Decoded(Rest(rob, n), ops, (tail + Len(rob)) % NRob, branches)
  /\ tail' = (tail + n) % NRob
  /\ contents' = Effects(contents, Firsts(rob, n))
  /\ ack' = TRUE \/ ack' = FALSE
  /\ ack' = TRUE => w.dcache.req
  /\ unit' = IF ack' THEN Forward(w, Answer(w, mem)) ELSE w

\* The rising edge, with what it makes of the reorder buffer and of the unit.
LEMMA RiseIs ==
  ASSUME Rise
  PROVE  /\ phase = "rise" /\ phase' = "fall" /\ branches' \in {branches, branches + 1}
         /\ branch' \in {"None", "Correct", "Mispredicted"} /\ (branch' # "None" => branches > 0)
         /\ dispatched' = dispatched /\ mem' = mem
         /\ \E n \in Retirable, ops \in {<<>>} \cup {<<o>> : o \in Operations} : \E w : RiseTo(n, ops, w)
<1>1. PICK n \in Retirable, ops \in {<<>>} \cup {<<o>> : o \in Operations} :
        LET kept == SubSeq(rob, n + 1, Len(rob))
            ports == [i \in 1 .. n |-> IF IsWrite(rob[i].op) THEN rob[i].tag ELSE None]
            u == WriteBack(OnFrontEdge(unit, dispatched), ports)
        IN  /\ ops # <<>> => Len(kept) < NRob
            /\ rob' = kept \o [i \in DOMAIN ops |->
                 [tag |-> (tail + Len(rob)) % NRob, op |-> ops[i], stage |-> "Station",
                  branchCounter |-> branches]]
            /\ tail' = (tail + n) % NRob
            /\ contents' = Effects(contents, [i \in 1 .. n |-> rob[i].op])
            /\ ack' \in IF ~ u.dcache.req THEN {FALSE}
                        ELSE IF waited = MaxLatency THEN {TRUE} ELSE BOOLEAN
            /\ reply' = IF ack' /\ u.dcache.kind = "Load"
                        THEN Bytes(mem, u.dcache.addr, u.dcache.size) ELSE <<>>
            /\ unit' = IF ack' THEN Forward(u, reply') ELSE u
  BY Zenon DEF Rise
<1>2. PICK w : w = WriteBack(OnFrontEdge(unit, dispatched), Ports(rob, n)) OBVIOUS
<1>3. /\ ops # <<>> => Len(Rest(rob, n)) < NRob
      /\ rob' = Decoded(Rest(rob, n), ops, (tail + Len(rob)) % NRob, branches)
      /\ tail' = (tail + n) % NRob
      /\ contents' = Effects(contents, Firsts(rob, n))
  BY <1>1, Zenon DEF Rest, Decoded, Firsts
<1>4. /\ ack' \in IF ~ w.dcache.req THEN {FALSE}
                  ELSE IF waited = MaxLatency THEN {TRUE} ELSE BOOLEAN
      /\ reply' = IF ack' /\ w.dcache.kind = "Load"
                  THEN Bytes(mem, w.dcache.addr, w.dcache.size) ELSE <<>>
      /\ unit' = IF ack' THEN Forward(w, reply') ELSE w
  BY <1>1, <1>2, Zenon DEF Ports
<1>5. (ack' = TRUE \/ ack' = FALSE) /\ (ack' = TRUE => w.dcache.req) BY <1>4
<1>6. unit' = IF ack' THEN Forward(w, Answer(w, mem)) ELSE w BY <1>4, <1>5 DEF Answer
<1>7. /\ phase = "rise" /\ phase' = "fall" /\ branches' \in {branches, branches + 1}
      /\ branch' \in {"None", "Correct", "Mispredicted"} /\ (branch' # "None" => branches > 0)
      /\ dispatched' = dispatched /\ mem' = mem
  BY DEF Rise
<1>8. RiseTo(n, ops, w) BY <1>2, <1>3, <1>5, <1>6 DEF RiseTo
<1> QED BY <1>7, <1>8

\* The rising edge keeps the invariant.
LEMMA RiseStep == IInv /\ Rise => IInv'
<1> SUFFICES ASSUME IInv, Rise PROVE IInv' OBVIOUS
<1>1. /\ phase = "rise" /\ phase' = "fall" /\ branches' \in {branches, branches + 1}
      /\ branch' \in {"None", "Correct", "Mispredicted"} /\ (branch' # "None" => branches > 0)
      /\ dispatched' = dispatched /\ mem' = mem
  BY RiseIs
<1>2. PICK n \in Retirable, ops \in {<<>>} \cup {<<o>> : o \in Operations} :
        \E w : RiseTo(n, ops, w)
  BY RiseIs
<1>3. PICK w : RiseTo(n, ops, w) BY <1>2
<1>4. /\ w = WriteBack(OnFrontEdge(unit, dispatched), Ports(rob, n))
      /\ ops # <<>> => Len(Rest(rob, n)) < NRob
      /\ rob' = Decoded(Rest(rob, n), ops, (tail + Len(rob)) % NRob, branches)
      /\ tail' = (tail + n) % NRob
      /\ contents' = Effects(contents, Firsts(rob, n))
      /\ ack' = TRUE \/ ack' = FALSE
      /\ ack' = TRUE => w.dcache.req
      /\ unit' = IF ack' THEN Forward(w, Answer(w, mem)) ELSE w
  BY <1>3 DEF RiseTo
<1>5. /\ branches \in Nat /\ tail \in Tag /\ dispatched \in Packet /\ RobOrder(rob, branches)
      /\ Tagged(rob, tail) /\ IsMap(contents) /\ ~ unit.stage1.valid
      /\ Core(unit, rob, Coming(dispatched), FALSE, mem, contents)
      /\ Stages(unit.load, rob, Coming(dispatched))
      /\ Storing(Coming(dispatched)) => HasRoom(unit.storeQueue)
  BY <1>1 DEF IInv, Rising
<1>6. n \in 0 .. Len(rob) /\ \A i \in 1 .. n : Ready(rob[i])
  <2>1. Len(rob) \in Nat BY <1>5 DEF RobOrder
  <2> QED BY <1>2, <1>4, <2>1, OperationsAssumption DEF Retirable
<1>7. PICK rest, ct : rest = Rest(rob, n) /\ ct = Effects(contents, Firsts(rob, n)) OBVIOUS
<1>8. Core(w, rest, w.stage1, FALSE, mem, ct) /\ RiseLeft(unit, w, dispatched)
  BY <1>2, <1>4, <1>5, <1>6, <1>7, UnitRises
<1>9. PICK s : s = rob' OBVIOUS
<1>10. Extended(rest, s) /\ RobOrder(s, branches) /\ tail' \in Tag /\ Tagged(s, tail')
  BY <1>2, <1>4, <1>5, <1>6, <1>7, <1>9, RobRises
<1>11. PICK c : c = w.stage1 OBVIOUS
<1>12. Core(w, s, w.stage1, FALSE, mem, ct)
  <2>1. Core(w, rest, c, FALSE, mem, ct) BY <1>8, <1>11
  <2>2. Core(w, s, c, FALSE, mem, ct) BY <1>10, <2>1, CoreExtended
  <2> QED BY <1>11, <2>2
<1>13. PICK a, v : a = ack' /\ v = unit' OBVIOUS
<1>14. /\ Core(v, s, v.stage1, a, mem, ct) /\ Replied(w, v, s, ct, a)
       /\ Flags(v, a)
       /\ v.load.valid = w.load.valid /\ v.load.tag = w.load.tag /\ v.stage1 = w.stage1
       /\ WholeSingles /\ AlignedZeros => Result(v, s, ct)
  <2>1. (a = TRUE \/ a = FALSE) /\ (a = TRUE => w.dcache.req) BY <1>2, <1>4, <1>13
  <2>2. v = IF a THEN Forward(w, Answer(w, mem)) ELSE w BY <1>2, <1>4, <1>13
  <2>3. PICK b : RobOrder(s, b) BY <1>10
  <2>4. Storing(Coming(dispatched)) => HasRoom(unit.storeQueue) BY <1>5
  <2>5. Core(v, s, v.stage1, a, mem, ct) /\ Replied(w, v, s, ct, a)
    BY <1>8, <1>12, <2>1, <2>2, <2>3, <2>4, UnitAnswered
  <2> QED BY <2>5 DEF Replied
<1>15. Stages(v.load, s, v.stage1)
  <2>1. LastSent(v.storeQueue, s, v.stage1) /\ LoadThere(v.load, s)
    BY <1>14 DEF Core, QueueInv
  <2>2. PICK d : d = Coming(dispatched) OBVIOUS
  <2>3. d.valid = dispatched.valid BY <1>5, <2>2, SentIs DEF Coming
  <2>4. /\ v.stage1.valid = d.valid /\ (v.stage1.valid => v.stage1.tag = d.tag)
        /\ v.load.valid = unit.load.valid /\ v.load.tag = unit.load.tag
    BY <1>8, <1>14, <2>2, <2>3 DEF RiseLeft
  <2>5. Stages(unit.load, rob, d) BY <1>5, <2>2
  <2>6. Extended(Rest(rob, n), s) BY <1>7, <1>10
  <2> QED BY <1>5, <1>6, <1>10, <2>1, <2>4, <2>5, <2>6, StagesRise
<1>16. branches' \in Nat /\ RobOrder(s, branches') /\ (branch' # "None" => branches' > 0)
  <2>1. PICK b \in Nat, e \in Nat : b = branches /\ e = branches' /\ b <= e BY <1>1, <1>5
  <2>2. RobOrder(s, b) BY <1>10, <2>1
  <2>3. RobOrder(s, e) BY <2>1, <2>2, OrderMore
  <2> QED BY <1>1, <2>1, <2>3
<1>17. IsMap(contents')
  <2>1. PICK f : f = Firsts(rob, n) OBVIOUS
  <2>2. contents' = Effects(contents, f) BY <1>2, <1>4, <2>1
  <2> QED BY <2>2, EffectsDomain DEF IsMap
<1>18. Falling'
  <2>1. Core(unit', rob', (unit.stage1)', ack', mem', contents')
    BY <1>1, <1>2, <1>4, <1>7, <1>9, <1>13, <1>14
  <2>2. Stages((unit.load)', rob', (unit.stage1)') /\ Flags(unit', ack')
    BY <1>9, <1>13, <1>14, <1>15
  <2> QED BY <1>16, <2>1, <2>2 DEF Falling
<1>19. WholeSingles /\ AlignedZeros => Result(unit', rob', contents')
  BY <1>2, <1>4, <1>7, <1>9, <1>13, <1>14
<1>20. phase' \in {"rise", "fall"} /\ phase' # "rise" BY <1>1
<1>21. (ack' = TRUE \/ ack' = FALSE) /\ dispatched' \in Packet BY <1>1, <1>2, <1>4, <1>5
<1>22. RobOrder(rob', branches') /\ Tagged(rob', tail') BY <1>9, <1>10, <1>16
<1> QED BY <1>1, <1>10, <1>16, <1>17, <1>18, <1>19, <1>20, <1>21, <1>22 DEF IInv

-----------------------------------------------------------------------------
\* The falling edge and the dispatch unit.

\* Entry k, which waits, is sent as d; or nothing is sent.
Dispatches(r, k, d) ==
  /\ d.valid => k \in DOMAIN r /\ ~ Sent(r[k]) /\ Carries(d, r[k]) /\ IsMemory(r[k].op)
  /\ ~ d.valid => k \notin DOMAIN r

\* The dispatch unit sends an instruction to the unit.
LEMMA CoreDispatch ==
  ASSUME NEW u, NEW r, NEW c, NEW m, NEW ct, Core(u, r, c, FALSE, m, ct), ~ c.valid,
         NEW b, RobOrder(r, b), NEW s, NEW k, Sends(r, s, k), NEW d \in Packet,
         Dispatches(r, k, d), Loading(d) => ~ u.load.valid /\ ~ u.loadWaiting
  PROVE  Core(u, s, d, FALSE, m, ct)
<1>1. /\ Typed(u) /\ QueueInv(u.storeQueue, r, c) /\ LoadThere(u.load, r)
      /\ Asks(u) /\ Origins(u.storeQueue) /\ Depends(u, r)
      /\ WholeSingles => Memory(u.storeQueue, m, ct)
      /\ WholeSingles /\ AlignedZeros => Halves(u, m, FALSE)
  BY DEF Core
<1>2. QueueInv(u.storeQueue, s, d)
  <2>1. d.valid => k \in DOMAIN r /\ ~ Sent(r[k]) /\ Carries(d, r[k]) /\ IsMemory(r[k].op)
    BY DEF Dispatches
  <2>2. ~ d.valid => k \notin DOMAIN r BY DEF Dispatches
  <2>3. PICK q : q = u.storeQueue OBVIOUS
  <2>4. QueueInv(q, r, c) BY <1>1, <2>3
  <2>5. QueueInv(q, s, d) BY <2>1, <2>2, <2>4, QueueSent
  <2> QED BY <2>3, <2>5
<1>3. /\ DOMAIN s = DOMAIN r
      /\ \A i \in DOMAIN r :
           /\ s[i].tag = r[i].tag /\ s[i].op = r[i].op /\ s[i].branchCounter = r[i].branchCounter
           /\ IsMemory(r[i].op) /\ Sent(r[i]) => Sent(s[i])
  <2>1. r \in Seq(RobEntry) /\ s \in Seq(RobEntry) /\ Len(r) = Len(s) BY DEF Sends
  <2>2. DOMAIN s = DOMAIN r BY <2>1
  <2> QED BY <2>2 DEF Sends
<1>4. LoadThere(u.load, s)
  <2> SUFFICES ASSUME u.load.valid
               PROVE  \E i \in DOMAIN s : s[i].op.kind = "Load" /\ Sent(s[i]) /\ Carries(u.load, s[i])
    BY DEF LoadThere
  <2>1. PICK i \in DOMAIN r : r[i].op.kind = "Load" /\ Sent(r[i]) /\ Carries(u.load, r[i])
    BY <1>1 DEF LoadThere
  <2>2. IsMemory(r[i].op) BY <2>1 DEF IsMemory
  <2> QED BY <1>3, <2>1, <2>2 DEF Carries
<1>5. LoadAlone(u, d) BY DEF LoadAlone, Loading
<1>6. Depends(u, s)
  <2>1. \A e, t : IsOlder(e, s, t) => IsOlder(e, r, t) BY <1>3 DEF IsOlder
  <2> QED BY <1>1, <2>1 DEF Depends
<1> QED BY <1>1, <1>2, <1>4, <1>5, <1>6 DEF Core

\* The store in the first stage is not the load.
LEMMA StoreIsNotLoad ==
  ASSUME NEW q, NEW r, NEW c \in Packet, NEW l, LastSent(q, r, c), LoadThere(l, r),
         NEW b, RobOrder(r, b), Storing(c), l.valid
  PROVE  c.tag # l.tag
<1>1. c.valid /\ IsWrite(c.op) BY DEF Storing
<1>2. PICK i \in DOMAIN r : Carries(c, r[i]) /\ (IsWrite(c.op) <=> IsWrite(r[i].op))
  BY <1>1, MemoryKinds
<1>3. PICK j \in DOMAIN r : r[j].op.kind = "Load" /\ Carries(l, r[j]) BY DEF LoadThere
<1>4. i # j BY <1>1, <1>2, <1>3, WriteIsMemory
<1> QED BY <1>2, <1>3, <1>4 DEF Carries, RobOrder

\* What has finished in this cycle was under way.
LEMMA FinishedWasSent ==
  ASSUME NEW u, NEW r, Stages(u.load, r, u.stage1), NEW a, Flags(u, a),
         NEW i \in DOMAIN r, IsMemory(r[i].op), r[i].tag \in u.finished
  PROVE  r[i].stage = "Dispatched" /\ Sent(r[i])
<1>1. \/ Storing(u.stage1) /\ r[i].tag = u.stage1.tag
      \/ Answering(u, a) /\ r[i].tag = u.load.tag
  BY DEF Flags
<1>2. \/ u.stage1.valid /\ u.stage1.tag = r[i].tag
      \/ u.load.valid /\ u.load.tag = r[i].tag
  BY <1>1 DEF Storing, Answering
<1> QED BY <1>2 DEF Stages, Sent

\* The reorder buffer takes note of what has finished and of what is sent.
Noted(s, x, k, finished) ==
  /\ s \in Seq(RobEntry) /\ x \in Seq(RobEntry) /\ Len(s) = Len(x)
  /\ \A i \in DOMAIN s :
       /\ x[i].tag = s[i].tag /\ x[i].op = s[i].op /\ x[i].branchCounter = s[i].branchCounter
       /\ IsMemory(s[i].op) =>
            x[i].stage = IF s[i].tag \in finished THEN "Finished"
                         ELSE IF i = k THEN "Dispatched" ELSE s[i].stage

\* What has finished was sent before, so nothing but entry k is newly sent.
LEMMA NotedSends ==
  ASSUME NEW u, NEW r, Stages(u.load, r, u.stage1), NEW a, Flags(u, a),
         NEW result, NEW s, LeftOf(r, s, result), NEW x, NEW k, Noted(s, x, k, u.finished)
  PROVE  Sends(s, x, k)
<1>1. /\ s \in Seq(RobEntry) /\ x \in Seq(RobEntry) /\ Len(s) = Len(x)
      /\ \A i \in DOMAIN s :
           x[i].tag = s[i].tag /\ x[i].op = s[i].op /\ x[i].branchCounter = s[i].branchCounter
  BY DEF Noted
<1>2. ASSUME NEW i \in DOMAIN s, IsMemory(s[i].op)
      PROVE  Sent(x[i]) <=> Sent(s[i]) \/ i = k
  <2>1. x[i].stage = IF s[i].tag \in u.finished THEN "Finished"
                     ELSE IF i = k THEN "Dispatched" ELSE s[i].stage
    BY <1>2 DEF Noted
  <2>2. i \in DOMAIN r /\ s[i].tag = r[i].tag /\ s[i].op = r[i].op /\ s[i].stage = r[i].stage
    BY LeftFields
  <2>3. s[i].tag \in u.finished => Sent(s[i])
    BY <1>2, <2>2, FinishedWasSent DEF Sent
  <2> QED BY <2>1, <2>3 DEF Sent
<1> QED BY <1>1, <1>2 DEF Sends

\* After the falling edge, an instruction is under way when it is on its way or is the load.
LEMMA StagesFall ==
  ASSUME NEW u, NEW r, NEW q, u.stage1 \in Packet, LastSent(q, r, u.stage1), LoadThere(u.load, r),
         LoadAlone(u, u.stage1), NEW b, RobOrder(r, b), Stages(u.load, r, u.stage1),
         NEW a, Flags(u, a), NEW result, NEW s, LeftOf(r, s, result),
         NEW v, FallLeft(u, v, a, s), NEW e, RobOrder(s, e), NEW k, NEW d, Dispatches(s, k, d),
         NEW x, Noted(s, x, k, u.finished)
  PROVE  Stages(v.load, x, d)
<1>1. DOMAIN x = DOMAIN s
  <2>1. s \in Seq(RobEntry) /\ x \in Seq(RobEntry) /\ Len(s) = Len(x) BY DEF Noted
  <2> QED BY <2>1
<1> SUFFICES ASSUME NEW i \in DOMAIN s, IsMemory(x[i].op)
             PROVE  x[i].stage = "Dispatched" <=> \/ d.valid /\ d.tag = x[i].tag
                                                  \/ v.load.valid /\ v.load.tag = x[i].tag
  BY <1>1 DEF Stages
<1>2. /\ x[i].tag = s[i].tag /\ x[i].op = s[i].op
      /\ x[i].stage = IF s[i].tag \in u.finished THEN "Finished"
                      ELSE IF i = k THEN "Dispatched" ELSE s[i].stage
  BY DEF Noted
<1>3. i \in DOMAIN r /\ s[i].tag = r[i].tag /\ s[i].op = r[i].op /\ s[i].stage = r[i].stage
  BY LeftFields
<1>4. IsMemory(r[i].op) BY <1>2, <1>3
<1> DEFINE t == s[i].tag
<1>5. r[i].stage = "Dispatched" <=> \/ u.stage1.valid /\ u.stage1.tag = t
                                    \/ u.load.valid /\ u.load.tag = t
  BY <1>3, <1>4 DEF Stages
<1>6. v.load.valid /\ v.load.tag = t <=> \/ Loading(u.stage1) /\ u.stage1.tag = t
                                         \/ u.load.valid /\ u.load.tag = t /\ ~ Answering(u, a)
  BY DEF FallLeft, LoadAfter
<1>7. t \in u.finished <=> \/ Storing(u.stage1) /\ u.stage1.tag = t
                           \/ Answering(u, a) /\ u.load.tag = t
  BY DEF Flags
<1>8. d.valid /\ d.tag = t <=> d.valid /\ i = k
  <2> SUFFICES ASSUME d.valid PROVE d.tag = t <=> i = k
    OBVIOUS
  <2>1. k \in DOMAIN s /\ d.tag = s[k].tag BY DEF Dispatches, Carries
  <2> QED BY <2>1 DEF RobOrder
<1>9. d.valid /\ i = k => ~ Sent(s[i]) BY DEF Dispatches
<1>10. i = k => d.valid BY DEF Dispatches
<1>11. CASE t \in u.finished
  <2>1. x[i].stage = "Finished" BY <1>2, <1>11
  <2>2. Sent(s[i]) BY <1>3, <1>4, <1>11, FinishedWasSent DEF Sent
  <2>3. ~ (d.valid /\ d.tag = t) BY <1>8, <1>9, <2>2
  <2>4. ~ (v.load.valid /\ v.load.tag = t)
    <3>1. CASE Storing(u.stage1) /\ u.stage1.tag = t
      <4>1. ~ Loading(u.stage1) BY <3>1 DEF Storing, Loading
      <4>2. ~ (u.load.valid /\ u.load.tag = t) BY <3>1, StoreIsNotLoad
      <4> QED BY <1>6, <4>1, <4>2
    <3>2. CASE Answering(u, a) /\ u.load.tag = t
      <4>1. ~ Loading(u.stage1) BY <3>2 DEF Answering, LoadAlone, Loading
      <4> QED BY <1>6, <3>2, <4>1
    <3> QED BY <1>7, <1>11, <3>1, <3>2
  <2> QED BY <1>2, <2>1, <2>3, <2>4
<1>12. CASE t \notin u.finished /\ i = k
  BY <1>2, <1>8, <1>10, <1>12
<1>13. CASE t \notin u.finished /\ i # k
  <2>1. x[i].stage = r[i].stage BY <1>2, <1>3, <1>13
  <2>2. ~ (d.valid /\ d.tag = t) BY <1>8, <1>13
  <2>3. Storing(u.stage1) \/ Loading(u.stage1) <=> u.stage1.valid BY DEF Storing, Loading
  <2>4. v.load.valid /\ v.load.tag = t <=> r[i].stage = "Dispatched"
    <3>1. ~ (Storing(u.stage1) /\ u.stage1.tag = t) /\ ~ (Answering(u, a) /\ u.load.tag = t)
      BY <1>7, <1>13
    <3> QED BY <1>5, <1>6, <2>3, <3>1
  <2> QED BY <1>2, <2>1, <2>2, <2>4
<1> QED BY <1>11, <1>12, <1>13

\* The instructions that wait in their stations.
Waiting(s) == {i \in DOMAIN s : s[i].stage = "Station" /\ s[i].op.kind # "SystemCall"}

\* The oldest of them comes after all that have been sent.
LEMMA OldestWaiting ==
  ASSUME NEW s \in Seq(RobEntry), Waiting(s) # {}
  PROVE  /\ Min(Waiting(s)) \in DOMAIN s /\ ~ Sent(s[Min(Waiting(s))])
         /\ IsMemory(s[Min(Waiting(s))].op)
         /\ \A j \in DOMAIN s : j < Min(Waiting(s)) /\ IsMemory(s[j].op) => Sent(s[j])
<1>1. PICK W : W = Waiting(s) OBVIOUS
<1>2. W \in SUBSET Nat /\ W # {} BY <1>1 DEF Waiting
<1>3. Min(W) \in W /\ \A y \in W : Min(W) <= y BY <1>2, Least
<1>4. PICK k : k = Min(W) OBVIOUS
<1>5. k \in DOMAIN s /\ s[k].stage = "Station" /\ IsMemory(s[k].op)
  BY <1>1, <1>3, <1>4 DEF Waiting, IsMemory
<1>6. ASSUME NEW j \in DOMAIN s, j < k, IsMemory(s[j].op), ~ Sent(s[j]) PROVE FALSE
  <2>1. j \in W BY <1>1, <1>6 DEF Waiting, Sent, IsMemory
  <2>2. k \in Nat /\ j \in Nat BY <1>5
  <2> QED BY <1>3, <1>4, <1>6, <2>1, <2>2
<1> QED BY <1>1, <1>4, <1>5, <1>6 DEF Sent

\* The packet for an entry that is sent.
PacketOf(x) == [valid |-> TRUE, tag |-> x.tag, op |-> x.op, branchCounter |-> x.branchCounter]

\* The packet carries its entry.
LEMMA PacketIs ==
  ASSUME NEW x \in RobEntry
  PROVE  /\ PacketOf(x) \in Packet /\ Coming(PacketOf(x)).valid
         /\ Carries(Coming(PacketOf(x)), x)
<1>1. x.tag \in Tag /\ x.op \in Operation /\ x.branchCounter \in Nat
  BY OperationsAre DEF RobEntry
<1>2. PICK d : d = PacketOf(x) OBVIOUS
<1>3. d \in Packet /\ d.valid /\ d.tag = x.tag /\ d.op = x.op /\ d.branchCounter = x.branchCounter
  BY <1>1, <1>2 DEF PacketOf, Packet
<1>4. /\ Coming(d).valid = d.valid /\ Coming(d).tag = d.tag
      /\ Coming(d).branchCounter = d.branchCounter /\ Coming(d).op = Carried(d.op)
  BY <1>3, SentIs DEF Coming
<1> QED BY <1>2, <1>3, <1>4 DEF Carries

\* Without a packet nothing comes.
LEMMA NothingComes == Nothing \in Packet /\ ~ Coming(Nothing).valid
BY NothingIs, SentIs DEF Coming

\* What the falling edge does outside of the unit.
LEMMA FallIs ==
  ASSUME Fall, AfterBranch(rob) \in Seq(RobEntry)
  PROVE  \E k :
           /\ dispatched' \in Packet /\ Dispatches(AfterBranch(rob), k, Coming(dispatched'))
           /\ Noted(AfterBranch(rob), rob', k, unit.finished)
           /\ \A j \in DOMAIN AfterBranch(rob) :
                j < k /\ IsMemory(AfterBranch(rob)[j].op) => Sent(AfterBranch(rob)[j])
           /\ Coming(dispatched').valid => MayDispatch(AfterBranch(rob)[k].op)
<1> DEFINE s == AfterBranch(rob)
<1>0. s \in Seq(RobEntry) OBVIOUS
<1>1. PICK send \in BOOLEAN, busy \in Busy :
        /\ send => Waiting(s) # {} /\ MayDispatch(s[Min(Waiting(s))].op)
        /\ dispatched' = IF ~ send THEN Nothing ELSE PacketOf(s[Min(Waiting(s))])
        /\ rob' = [i \in DOMAIN s |->
             IF Finished(s[i]) THEN [s[i] EXCEPT !.stage = "Finished"]
             ELSE IF \/ send /\ i = Min(Waiting(s))
                     \/ (execute /\ ~ (~ unit.empty /\ busy)) /\ s[i].op.kind = "SystemCall"
             THEN [s[i] EXCEPT !.stage = "Dispatched"]
             ELSE s[i]]
  BY Zenon DEF Fall, Waiting, PacketOf
<1> HIDE DEF s
<1>2. PICK k : k = IF send THEN Min(Waiting(s)) ELSE 0 OBVIOUS
<1>3. PICK start : start = (execute /\ ~ (~ unit.empty /\ busy)) OBVIOUS
<1>4. /\ send => Waiting(s) # {} /\ MayDispatch(s[Min(Waiting(s))].op)
      /\ dispatched' = IF ~ send THEN Nothing ELSE PacketOf(s[Min(Waiting(s))])
      /\ rob' = [i \in DOMAIN s |->
           IF Finished(s[i]) THEN [s[i] EXCEPT !.stage = "Finished"]
           ELSE IF (send /\ i = Min(Waiting(s))) \/ (start /\ s[i].op.kind = "SystemCall")
           THEN [s[i] EXCEPT !.stage = "Dispatched"]
           ELSE s[i]]
  BY <1>1, <1>3, Zenon DEF PacketOf
<1>5. DOMAIN s = 1 .. Len(s) /\ Len(s) \in Nat /\ \A i \in DOMAIN s : s[i] \in RobEntry
  BY <1>0
<1>6. Noted(s, rob', k, unit.finished)
  <2>1. ASSUME NEW i \in DOMAIN s
        PROVE  /\ rob'[i] \in RobEntry
               /\ rob'[i].tag = s[i].tag /\ rob'[i].op = s[i].op
               /\ rob'[i].branchCounter = s[i].branchCounter
               /\ IsMemory(s[i].op) =>
                    rob'[i].stage = IF s[i].tag \in unit.finished THEN "Finished"
                                    ELSE IF i = k THEN "Dispatched" ELSE s[i].stage
    <3>1. s[i] \in RobEntry BY <1>5
    <3>2. IsMemory(s[i].op) => (Finished(s[i]) <=> s[i].tag \in unit.finished)
      BY DEF Finished, IsMemory
    <3>3. rob'[i] = IF Finished(s[i]) THEN [s[i] EXCEPT !.stage = "Finished"]
                    ELSE IF (send /\ i = Min(Waiting(s))) \/ (start /\ s[i].op.kind = "SystemCall")
                    THEN [s[i] EXCEPT !.stage = "Dispatched"]
                    ELSE s[i]
      BY <1>4
    <3>4. (send /\ i = Min(Waiting(s))) <=> i = k BY <1>2, <1>5
    <3>5. IsMemory(s[i].op) => ~ (start /\ s[i].op.kind = "SystemCall") BY DEF IsMemory
    <3>6. CASE Finished(s[i])
      <4>1. rob'[i] = [s[i] EXCEPT !.stage = "Finished"] BY <3>3, <3>6
      <4> QED BY <3>1, <3>2, <3>6, <4>1 DEF RobEntry
    <3>7. CASE ~ Finished(s[i]) /\ (i = k \/ (start /\ s[i].op.kind = "SystemCall"))
      <4>1. rob'[i] = [s[i] EXCEPT !.stage = "Dispatched"] BY <3>3, <3>4, <3>7
      <4>2. /\ rob'[i] \in RobEntry /\ rob'[i].tag = s[i].tag /\ rob'[i].op = s[i].op
            /\ rob'[i].branchCounter = s[i].branchCounter /\ rob'[i].stage = "Dispatched"
        BY <3>1, <4>1 DEF RobEntry
      <4> QED BY <3>2, <3>5, <3>7, <4>2
    <3>8. CASE ~ Finished(s[i]) /\ ~ (i = k \/ (start /\ s[i].op.kind = "SystemCall"))
      <4>1. rob'[i] = s[i] BY <3>3, <3>4, <3>8
      <4> QED BY <3>1, <3>2, <3>8, <4>1
    <3> QED BY <3>6, <3>7, <3>8
  <2>2. rob' \in Seq(RobEntry) /\ Len(rob') = Len(s)
    <3>1. PICK N \in Nat : N = Len(s) BY <1>5
    <3>2. DOMAIN rob' = 1 .. N /\ rob' = [i \in 1 .. N |-> rob'[i]] BY <1>4, <1>5, <3>1
    <3>3. \A i \in 1 .. N : rob'[i] \in RobEntry BY <1>5, <2>1, <3>1
    <3>4. rob' \in [1 .. N -> RobEntry] BY <3>2, <3>3
    <3> QED BY <3>1, <3>4
  <2> QED BY <1>0, <2>1, <2>2 DEF Noted
<1>7. CASE send
  <2>1. k = Min(Waiting(s)) /\ Waiting(s) # {} /\ MayDispatch(s[k].op)
        /\ dispatched' = PacketOf(s[k])
    BY <1>2, <1>4, <1>7
  <2>2. /\ k \in DOMAIN s /\ ~ Sent(s[k]) /\ IsMemory(s[k].op)
        /\ \A j \in DOMAIN s : j < k /\ IsMemory(s[j].op) => Sent(s[j])
    BY <1>0, <2>1, OldestWaiting
  <2>3. /\ dispatched' \in Packet /\ Coming(dispatched').valid
        /\ Carries(Coming(dispatched'), s[k])
    BY <1>5, <2>1, <2>2, PacketIs
  <2>4. Dispatches(s, k, Coming(dispatched')) BY <2>2, <2>3 DEF Dispatches
  <2> QED BY <1>6, <2>1, <2>2, <2>3, <2>4 DEF s
<1>8. CASE ~ send
  <2>1. k = 0 /\ dispatched' = Nothing BY <1>2, <1>4, <1>8
  <2>2. dispatched' \in Packet /\ ~ Coming(dispatched').valid BY <2>1, NothingComes
  <2>3. k \notin DOMAIN s /\ \A j \in DOMAIN s : ~ (j < k) BY <1>5, <2>1
  <2>4. Dispatches(s, k, Coming(dispatched')) BY <2>2, <2>3 DEF Dispatches
  <2> QED BY <1>6, <2>2, <2>3, <2>4 DEF s
<1> QED BY <1>7, <1>8

\* An answer that the program keeps stays what the program reads.
LEMMA ResultFalls ==
  ASSUME NEW u, NEW r, NEW ct, Result(u, r, ct), NEW result, NEW s, LeftOf(r, s, result),
         NEW x, NEW k, NEW f, Noted(s, x, k, f),
         NEW v, v.result = u.result, v.finished = u.finished
  PROVE  Result(v, x, ct)
<1> SUFFICES ASSUME u.result # <<>>, NEW i \in DOMAIN x, x[i].op.kind = "Load",
                    x[i].tag \in u.finished
             PROVE  u.result = Reads(x, i, ct)
  BY DEF Result
<1>1. /\ DOMAIN x = DOMAIN s /\ DOMAIN s \subseteq DOMAIN r /\ DOMAIN s = 1 .. Len(s)
      /\ Len(s) \in Nat
  <2>1. s \in Seq(RobEntry) /\ x \in Seq(RobEntry) /\ Len(s) = Len(x) BY DEF Noted
  <2>2. DOMAIN s \subseteq DOMAIN r BY LeftFields
  <2> QED BY <2>1, <2>2
<1>2. \A j \in DOMAIN s : x[j].tag = r[j].tag /\ x[j].op = r[j].op
  BY LeftFields DEF Noted
<1>3. u.result = Reads(r, i, ct) BY <1>1, <1>2 DEF Result
<1>4. Firsts(x, i - 1) = Firsts(r, i - 1)
  <2>1. i \in 1 .. Len(s) BY <1>1
  <2>2. \A j \in 1 .. i - 1 : j \in DOMAIN s BY <1>1, <2>1
  <2>3. \A j \in 1 .. i - 1 : x[j].op = r[j].op BY <1>2, <2>2
  <2> QED BY <2>3 DEF Firsts
<1>5. x[i].op = r[i].op BY <1>1, <1>2
<1> QED BY <1>3, <1>4, <1>5 DEF Reads

\* The falling edge only drops the newest tags.
LEMMA TaggedFalls ==
  ASSUME NEW r, NEW t, Tagged(r, t), NEW result, NEW s, LeftOf(r, s, result),
         NEW x, NEW k, NEW f, Noted(s, x, k, f)
  PROVE  Tagged(x, t)
<1>1. /\ s \in Seq(RobEntry) /\ x \in Seq(RobEntry) /\ Len(s) = Len(x)
      /\ r \in Seq(RobEntry) /\ Len(s) <= Len(r)
  BY DEF Noted, LeftOf
<1>2. DOMAIN x = DOMAIN s /\ Len(x) \in Nat /\ Len(r) \in Nat BY <1>1
<1>3. NRob \in Nat BY OperationsAssumption
<1>4. Len(x) <= NRob BY <1>1, <1>2, <1>3 DEF Tagged
<1>5. ASSUME NEW i \in DOMAIN x PROVE x[i].tag = (t + i - 1) % NRob
  <2>1. x[i].tag = s[i].tag BY <1>2 DEF Noted
  <2>2. i \in DOMAIN r /\ s[i].tag = r[i].tag BY <1>2, LeftFields
  <2> QED BY <2>1, <2>2 DEF Tagged
<1> QED BY <1>4, <1>5 DEF Tagged

\* The falling edge keeps the invariant.
LEMMA FallStep == IInv /\ Fall => IInv'
<1> SUFFICES ASSUME IInv, Fall PROVE IInv' OBVIOUS
<1>1. /\ phase = "fall" /\ phase' = "rise" /\ ack' = FALSE /\ branch' = "None"
      /\ tail' = tail /\ contents' = contents
      /\ mem' = MemoryAfter(unit, mem, ack) /\ unit' = OnFallingEdge(unit, ack, branch)
      /\ branches' = CASE branch = "None" -> branches
                       [] branch = "Correct" -> branches - 1
                       [] branch = "Mispredicted" -> 0
  BY DEF Fall, MemoryAfter
<1>2. /\ branches \in Nat /\ tail \in Tag /\ (ack = TRUE \/ ack = FALSE)
      /\ branch \in {"None", "Correct", "Mispredicted"} /\ RobOrder(rob, branches)
      /\ Tagged(rob, tail) /\ IsMap(contents)
      /\ branch # "None" => branches > 0
      /\ Core(unit, rob, unit.stage1, ack, mem, contents)
      /\ Stages(unit.load, rob, unit.stage1) /\ Flags(unit, ack)
      /\ WholeSingles /\ AlignedZeros => Result(unit, rob, contents)
  BY <1>1 DEF IInv, Falling
<1>3. PICK s : s = AfterBranch(rob) OBVIOUS
<1>4. LeftOf(rob, s, branch) /\ s \in Seq(RobEntry)
  <2>1. LeftOf(rob, s, branch) BY <1>2, <1>3, BranchLeaves
  <2> QED BY <2>1 DEF LeftOf
<1>5. branches' \in Nat /\ RobOrder(s, branches')
  <2>1. RobOrder(s, branches') BY <1>1, <1>2, <1>4, OrderLeft
  <2>2. branches' \in Nat BY <1>1, <1>2
  <2> QED BY <2>1, <2>2
<1>6. PICK v, k : v = unit' /\ k = mem' OBVIOUS
<1>7. PICK d0 \in Packet : ~ d0.valid BY NothingIs
<1>8. Core(v, s, d0, FALSE, k, contents) /\ FallLeft(unit, v, ack, s)
  <2>1. Storing(unit.stage1) => HasRoom(unit.storeQueue) BY <1>2 DEF Flags
  <2>2. ack = TRUE => unit.dcache.req BY <1>2 DEF Flags
  <2>3. v = OnFallingEdge(unit, ack, branch) /\ k = MemoryAfter(unit, mem, ack) BY <1>1, <1>6
  <2>4. PICK b, e : RobOrder(rob, b) /\ RobOrder(s, e) BY <1>2, <1>5
  <2> QED BY <1>2, <1>4, <1>7, <2>1, <2>2, <2>3, <2>4, CoreFalls
<1>9. PICK n : /\ dispatched' \in Packet /\ Dispatches(s, n, Coming(dispatched'))
               /\ Noted(s, rob', n, unit.finished)
               /\ \A j \in DOMAIN s : j < n /\ IsMemory(s[j].op) => Sent(s[j])
               /\ Coming(dispatched').valid => MayDispatch(s[n].op)
  BY <1>3, <1>4, FallIs
<1>10. PICK x, d : x = rob' /\ d = Coming(dispatched') OBVIOUS
<1>11. d \in Packet BY <1>9, <1>10, SentIs DEF Coming
<1>12. /\ Dispatches(s, n, d) /\ Noted(s, x, n, unit.finished)
       /\ d.valid => MayDispatch(s[n].op)
  BY <1>9, <1>10
<1>13. Sends(s, x, n) BY <1>2, <1>4, <1>12, NotedSends
<1>14. RobOrder(x, branches') BY <1>5, <1>9, <1>13, OrderSent
<1>15. d.valid => (IsWrite(d.op) <=> IsWrite(s[n].op))
  <2> SUFFICES ASSUME d.valid PROVE IsWrite(d.op) <=> IsWrite(s[n].op)
    OBVIOUS
  <2>1. n \in DOMAIN s /\ d.op = Carried(s[n].op) BY <1>12 DEF Dispatches, Carries
  <2>2. s[n] \in RobEntry BY <1>4, <2>1
  <2>3. s[n].op \in Operation BY <2>2, OperationsAre DEF RobEntry
  <2> QED BY <2>1, <2>3, CarriedIs
<1>16. Loading(d) => ~ v.load.valid /\ ~ v.loadWaiting
  <2> SUFFICES ASSUME Loading(d) PROVE ~ v.load.valid /\ ~ v.loadWaiting
    OBVIOUS
  <2>1. ~ unit.loadQueueStalled BY <1>12, <1>15 DEF Loading, MayDispatch
  <2> QED BY <1>2, <1>8, <2>1 DEF Flags, FallLeft
<1>17. Storing(d) => HasRoom(v.storeQueue)
  <2> SUFFICES ASSUME Storing(d) PROVE HasRoom(v.storeQueue)
    OBVIOUS
  <2>1. ~ unit.storeQueueStalled BY <1>12, <1>15 DEF Storing, MayDispatch
  <2> QED BY <1>2, <1>8, <2>1 DEF Flags, FallLeft
<1>18. Core(v, x, d, FALSE, k, contents)
  <2>1. PICK b : RobOrder(s, b) BY <1>5
  <2> QED BY <1>7, <1>8, <1>11, <1>12, <1>13, <1>16, <2>1, CoreDispatch
<1>19. Stages(v.load, x, d)
  <2>1. /\ unit.stage1 \in Packet /\ LastSent(unit.storeQueue, rob, unit.stage1)
        /\ LoadThere(unit.load, rob) /\ LoadAlone(unit, unit.stage1)
    BY <1>2 DEF Core, QueueInv
  <2>2. PICK b, e : RobOrder(rob, b) /\ RobOrder(s, e) BY <1>2, <1>5
  <2> QED BY <1>2, <1>4, <1>8, <1>12, <2>1, <2>2, StagesFall
<1>20. v.result = unit.result /\ v.finished = unit.finished /\ ~ v.stage1.valid
  BY <1>8 DEF FallLeft
<1>21. WholeSingles /\ AlignedZeros => Result(v, x, contents)
  BY <1>2, <1>4, <1>12, <1>20, ResultFalls
<1>22. Tagged(x, tail) BY <1>2, <1>4, <1>12, TaggedFalls
<1>23. Rising'
  <2>1. Core(unit', rob', Coming(dispatched'), FALSE, mem', contents')
    BY <1>1, <1>6, <1>10, <1>18
  <2>2. Stages((unit.load)', rob', Coming(dispatched')) BY <1>6, <1>10, <1>19
  <2>3. Storing(Coming(dispatched')) => HasRoom((unit.storeQueue)') BY <1>6, <1>10, <1>17
  <2>4. ~ (unit.stage1.valid)' BY <1>6, <1>20
  <2> QED BY <1>1, <2>1, <2>2, <2>3, <2>4 DEF Rising
<1>24. WholeSingles /\ AlignedZeros => Result(unit', rob', contents') BY <1>1, <1>6, <1>10, <1>21
<1>25. RobOrder(rob', branches') /\ Tagged(rob', tail') BY <1>1, <1>10, <1>14, <1>22
<1>26. /\ phase' \in {"rise", "fall"} /\ phase' # "fall" /\ (ack' = TRUE \/ ack' = FALSE)
       /\ branch' \in {"None", "Correct", "Mispredicted"} /\ tail' \in Tag /\ IsMap(contents')
  BY <1>1, <1>2
<1> QED BY <1>5, <1>9, <1>23, <1>24, <1>25, <1>26 DEF IInv

-----------------------------------------------------------------------------
\* The invariant holds.

\* The unit after Reset().
LEMMA EmptyUnitIs ==
  /\ Typed(EmptyUnit) /\ EmptyUnit.storeQueue \in Queue /\ EmptyUnit.result = <<>>
  /\ EmptyUnit.load = NoLoad /\ EmptyUnit.stage1 = Nothing /\ ~ EmptyUnit.dcache.req
  /\ ~ EmptyUnit.loadWaiting /\ ~ EmptyUnit.storeWaiting
  /\ \A p \in 1 .. NStoreQueue : EmptyUnit.storeQueue[p] = Free
<1>1. Nothing \in Packet /\ Free \in Entry BY NothingIs, FreeIs
<1>2. PICK u : u = EmptyUnit OBVIOUS
<1>3. /\ u.storeQueue = [i \in 1 .. NStoreQueue |-> Free] /\ u.result = <<>>
      /\ u.load = NoLoad /\ u.stage1 = Nothing /\ ~ u.dcache.req
      /\ ~ u.loadWaiting /\ ~ u.storeWaiting
  BY <1>2 DEF EmptyUnit, NoRequest
<1>4. u.storeQueue \in Queue BY <1>1, <1>3 DEF Queue
<1>5. u.load \in [valid : BOOLEAN, tag : Tag \cup {None}, op : Operation,
                  branchCounter : Nat, state : Halfway, data : {u.load.data}]
  BY <1>3, NoLoadIs
<1>6. PICK q, l : q = u.storeQueue /\ l = u.load OBVIOUS
<1>7. u = [loadWaiting |-> FALSE, storeWaiting |-> FALSE, stage1 |-> Nothing, load |-> l,
           storeQueue |-> q, dcache |-> NoRequest,
           storeQueueStalled |-> FALSE, loadQueueStalled |-> FALSE, empty |-> TRUE,
           finished |-> {}, result |-> <<>>]
  BY <1>2, <1>3, <1>6 DEF EmptyUnit
<1>8. Typed(u) BY <1>1, <1>4, <1>5, <1>6, <1>7 DEF Typed
<1> QED BY <1>2, <1>3, <1>4, <1>8

\* The queue after Reset() follows an empty reorder buffer.
LEMMA EmptyQueueIs ==
  ASSUME NEW q \in Queue, \A p \in 1 .. NStoreQueue : q[p] = Free,
         NEW c, ~ c.valid, NEW m, m \in InMemory
  PROVE  /\ QueueInv(q, <<>>, c) /\ Origins(q) /\ HasRoom(q) /\ Memory(q, m, m)
         /\ q[1].state = "Normal" /\ ~ q[1].full
<1>1. DOMAIN q = 1 .. NStoreQueue BY DEF Queue
<1>2. \A p \in 1 .. NStoreQueue : ~ q[p].full /\ q[p].state = "Normal" BY FreeIs
<1>3. Full(q) = {} BY <1>1, <1>2 DEF Full
<1>4. Queued(q) = {} /\ Pending(q) = {} BY <1>3 DEF Queued, Pending
<1>5. DOMAIN <<>> = {} OBVIOUS
<1>6. QueueInv(q, <<>>, c)
  BY <1>1, <1>2, <1>3, <1>4, <1>5 DEF QueueInv, Retired, QueueOrder, StoresThere, LastSent
<1>7. Memory(q, m, m)
  <2>1. DOMAIN Ops(q) = {} BY <1>4 DEF Ops
  <2>2. \A x \in DOMAIN m : Effects(m, Ops(q))[x] = m[x]
    <3>1. DOMAIN Ops(q) \subseteq 0 .. 0 BY <2>1
    <3>2. \A d \in DOMAIN Ops(q) : FALSE BY <2>1
    <3> QED BY <3>1, <3>2, EffectsNone
  <2>3. Effects(m, Ops(q)) = [x \in DOMAIN m |-> Effects(m, Ops(q))[x]] BY EffectsDomain
  <2>4. m = [x \in DOMAIN m |-> m[x]] BY DEF InMemory
  <2>5. Effects(m, Ops(q)) = m BY <2>2, <2>3, <2>4
  <2>6. q[1].state # "Lsb" BY <1>2, One
  <2> QED BY <2>5, <2>6 DEF Memory
<1> QED BY <1>2, <1>3, <1>6, <1>7, One DEF Origins, HasRoom

\* The invariant holds after Reset().
LEMMA InitStep == Init => IInv
<1> SUFFICES ASSUME Init PROVE IInv OBVIOUS
<1>1. /\ phase = "rise" /\ rob = <<>> /\ tail = 0 /\ branches = 0 /\ branch = "None"
      /\ dispatched = Nothing /\ unit = EmptyUnit /\ ack = FALSE
      /\ mem = Contents0 /\ contents = Contents0
  BY DEF Init
<1>2. /\ Typed(unit) /\ unit.storeQueue \in Queue /\ unit.result = <<>>
      /\ unit.load = NoLoad /\ unit.stage1 = Nothing /\ ~ unit.dcache.req
      /\ ~ unit.loadWaiting /\ ~ unit.storeWaiting
      /\ \A p \in 1 .. NStoreQueue : unit.storeQueue[p] = Free
  BY <1>1, EmptyUnitIs
<1>3. PICK c : c = Coming(dispatched) OBVIOUS
<1>4. c \in Packet /\ ~ c.valid /\ dispatched \in Packet
  <2>1. dispatched \in Packet /\ ~ dispatched.valid BY <1>1, NothingIs
  <2> QED BY <1>3, <2>1, SentIs DEF Coming
<1>5. mem \in InMemory /\ mem = contents /\ IsMap(contents)
  BY <1>1, OperationsAssumption DEF InMemory, IsMap
<1>6. /\ QueueInv(unit.storeQueue, <<>>, c) /\ Origins(unit.storeQueue)
      /\ HasRoom(unit.storeQueue) /\ Memory(unit.storeQueue, mem, mem)
      /\ unit.storeQueue[1].state = "Normal" /\ ~ unit.storeQueue[1].full
  <2>1. unit.storeQueue \in Queue /\ mem \in InMemory /\ ~ c.valid BY <1>2, <1>4, <1>5
  <2> QED BY <1>2, <2>1, EmptyQueueIs
<1>7. ~ unit.load.valid /\ unit.load.state = "Normal" /\ ~ unit.stage1.valid
  BY <1>2, NoLoadIs, NothingIs
<1>8. Core(unit, <<>>, c, FALSE, mem, contents)
  <2>1. LoadThere(unit.load, <<>>) /\ Depends(unit, <<>>) /\ Halves(unit, mem, FALSE)
    BY <1>7 DEF LoadThere, Depends, Halves
  <2>2. LoadAlone(unit, c) BY <1>4 DEF LoadAlone
  <2>3. Asks(unit) BY <1>2, <1>6, <1>7 DEF Asks
  <2> QED BY <1>2, <1>4, <1>5, <1>6, <2>1, <2>2, <2>3 DEF Core
<1>9. DOMAIN <<>> = {} /\ <<>> \in Seq(RobEntry) /\ Len(<<>>) = 0 OBVIOUS
<1>10. RobOrder(<<>>, 0) /\ Stages(unit.load, <<>>, c)
  BY <1>9 DEF RobOrder, Stages
<1>11. Tagged(<<>>, 0) /\ 0 \in Tag /\ 0 \in Nat BY <1>9, OperationsAssumption DEF Tagged, Tag
<1>12. Rising BY <1>1, <1>3, <1>4, <1>6, <1>7, <1>8, <1>10 DEF Rising, Storing
<1>13. Result(unit, rob, contents) BY <1>2 DEF Result
<1> QED BY <1>1, <1>4, <1>5, <1>10, <1>11, <1>12, <1>13 DEF IInv

\* Each edge keeps the invariant.
LEMMA NextStep == IInv /\ [Next]_vars => IInv'
<1> SUFFICES ASSUME IInv, [Next]_vars PROVE IInv' OBVIOUS
<1>1. CASE Rise BY <1>1, RiseStep
<1>2. CASE Fall BY <1>2, FallStep
<1>3. CASE UNCHANGED vars BY <1>3 DEF vars, IInv, Rising, Falling
<1> QED BY <1>1, <1>2, <1>3 DEF Next

\* The unit, its queue, the reorder buffer and memory stay in the relation above.
THEOREM QueueIsInvariant == Spec => []IInv
BY InitStep, NextStep, PTL DEF Spec

-----------------------------------------------------------------------------
\* What follows from it.

\* What is on the way to the first stage of the unit.
LEMMA ComingIs ==
  ASSUME IInv, phase = "rise", NEW c, c = Coming(dispatched)
  PROVE  /\ c \in Packet /\ c.valid = dispatched.valid /\ c.tag = dispatched.tag
         /\ (IsWrite(c.op) <=> IsWrite(dispatched.op))
         /\ Core(unit, rob, c, FALSE, mem, contents) /\ Stages(unit.load, rob, c)
         /\ QueueInv(unit.storeQueue, rob, c) /\ LoadThere(unit.load, rob) /\ LoadAlone(unit, c)
         /\ RobOrder(rob, branches) /\ \A i \in DOMAIN rob : rob[i] \in RobEntry
<1>1. /\ Core(unit, rob, c, FALSE, mem, contents) /\ Stages(unit.load, rob, c)
      /\ RobOrder(rob, branches) /\ dispatched \in Packet
  BY DEF IInv, Rising
<1>2. /\ c \in Packet /\ c.valid = dispatched.valid /\ c.tag = dispatched.tag
      /\ c.op = Carried(dispatched.op)
  BY <1>1, SentIs DEF Coming
<1>3. IsWrite(c.op) <=> IsWrite(dispatched.op)
  <2>1. dispatched.op \in Operation BY <1>1 DEF Packet
  <2> QED BY <1>2, <2>1, CarriedIs
<1>4. QueueInv(unit.storeQueue, rob, c) /\ LoadThere(unit.load, rob) /\ LoadAlone(unit, c)
  BY <1>1 DEF Core
<1>5. \A i \in DOMAIN rob : rob[i] \in RobEntry
  <2>1. rob \in Seq(RobEntry) BY <1>1 DEF RobOrder
  <2> QED BY <2>1
<1> QED BY <1>1, <1>2, <1>3, <1>4, <1>5

\* The stores that wait in the queue are those of the reorder buffer, in order.
LEMMA FollowsRob == IInv => QueueFollowsRob
<1> SUFFICES ASSUME IInv, phase = "rise" PROVE QueueFollowsRob
  BY DEF QueueFollowsRob
<1> DEFINE q == unit.storeQueue
           r == rob
           coming == IF dispatched.valid /\ IsWrite(dispatched.op) THEN {NStoreQueue + 1} ELSE {}
           there == Queued(q) \cup coming
           TagAt(i) == IF i \in coming THEN dispatched.tag ELSE q[i].tag
           stores == {j \in DOMAIN r : Sent(r[j]) /\ IsWrite(r[j].op)}
<1>1. PICK c : c = Coming(dispatched) OBVIOUS
<1>2. /\ c \in Packet /\ c.valid = dispatched.valid /\ c.tag = dispatched.tag
      /\ (IsWrite(c.op) <=> IsWrite(dispatched.op))
      /\ QueueInv(q, r, c) /\ RobOrder(r, branches)
  BY <1>1, ComingIs
<1>3. /\ q \in Queue /\ QueueOrder(q, r) /\ StoresThere(q, r, c) /\ LastSent(q, r, c)
  BY <1>2 DEF QueueInv
<1>4. /\ \A i, j \in DOMAIN r : r[i].tag = r[j].tag => i = j
      /\ DOMAIN r \subseteq Int
  <2>1. r \in Seq(RobEntry) BY <1>2 DEF RobOrder
  <2> QED BY <1>2, <2>1 DEF RobOrder
<1>5. \A p \in Queued(q) : p \in 1 .. NStoreQueue /\ p < NStoreQueue + 1
  BY <1>3, One, InQueue
<1>6. \A p \in Queued(q) : p \notin coming /\ TagAt(p) = q[p].tag
  BY <1>5, One
<1>7. \A p \in coming : /\ p = NStoreQueue + 1 /\ TagAt(p) = c.tag
                        /\ c.valid /\ IsWrite(c.op)
  BY <1>2
<1>8. Storing(c) => NStoreQueue + 1 \in coming BY <1>2 DEF Storing
<1> HIDE DEF coming, TagAt
<1>9. ASSUME Storing(c)
      PROVE  \E j \in stores : /\ r[j].tag = c.tag
                               /\ \A k \in stores : k <= j
                               /\ \A p \in Queued(q) : q[p].tag # c.tag
  <2>1. c.valid /\ IsWrite(c.op) BY <1>9 DEF Storing
  <2>2. PICK j \in DOMAIN r :
          /\ Sent(r[j]) /\ Carries(c, r[j])
          /\ \A k \in DOMAIN r : k > j /\ IsMemory(r[k].op) => ~ Sent(r[k])
          /\ (IsWrite(c.op) <=> IsWrite(r[j].op))
    BY <1>2, <1>3, <2>1, MemoryKinds
  <2>3. j \in stores /\ r[j].tag = c.tag BY <2>1, <2>2 DEF Carries
  <2>4. \A k \in stores : k <= j BY <1>4, <2>2, WriteIsMemory
  <2>5. \A p \in Queued(q) : q[p].tag # c.tag BY <1>3, <2>1 DEF LastSent
  <2> QED BY <2>3, <2>4, <2>5
<1>10. \A p \in Queued(q) : \E j \in stores : q[p].tag = r[j].tag
  BY <1>3 DEF QueueOrder, Carries
<1>11. \A j \in stores : \/ \E p \in Queued(q) : q[p].tag = r[j].tag
                         \/ Storing(c) /\ c.tag = r[j].tag
  <2> SUFFICES ASSUME NEW j \in stores, c.valid, c.tag = r[j].tag PROVE Storing(c)
    BY <1>3 DEF StoresThere
  <2>1. PICK k \in DOMAIN r : Carries(c, r[k]) /\ (IsWrite(c.op) <=> IsWrite(r[k].op))
    BY <1>2, <1>3, MemoryKinds
  <2>2. k = j BY <1>4, <2>1 DEF Carries
  <2> QED BY <2>1, <2>2 DEF Storing
<1>12. {TagAt(i) : i \in there} = {r[j].tag : j \in stores}
  <2>1. ASSUME NEW i \in there PROVE TagAt(i) \in {r[j].tag : j \in stores}
    <3>1. CASE i \in Queued(q) BY <1>6, <1>10, <3>1
    <3>2. CASE i \in coming BY <1>7, <1>9, <3>2 DEF Storing
    <3> QED BY <3>1, <3>2
  <2>2. ASSUME NEW j \in stores PROVE r[j].tag \in {TagAt(i) : i \in there}
    <3>1. CASE \E p \in Queued(q) : q[p].tag = r[j].tag BY <1>6, <3>1
    <3>2. CASE Storing(c) /\ c.tag = r[j].tag BY <1>7, <1>8, <3>2
    <3> QED BY <1>11, <3>1, <3>2
  <2> QED BY <2>1, <2>2
<1>13. ASSUME NEW i \in there, NEW k \in there, NEW j \in stores, NEW l \in stores,
              TagAt(i) = r[j].tag, TagAt(k) = r[l].tag
       PROVE  i < k <=> j < l
  <2>1. j \in DOMAIN r /\ l \in DOMAIN r /\ j \in Int /\ l \in Int BY <1>4
  <2>2. CASE i \in Queued(q) /\ k \in Queued(q)
    BY <1>3, <1>6, <1>13, <2>1, <2>2 DEF QueueOrder
  <2>3. CASE i \in Queued(q) /\ k \in coming
    <3>1. Storing(c) /\ r[l].tag = c.tag /\ k = NStoreQueue + 1
      BY <1>7, <1>13, <2>3 DEF Storing
    <3>2. l >= j /\ r[j].tag # c.tag BY <1>4, <1>6, <1>9, <1>13, <2>1, <2>3, <3>1
    <3>3. j # l BY <3>1, <3>2
    <3> QED BY <1>5, <2>1, <2>3, <3>1, <3>2, <3>3
  <2>4. CASE i \in coming /\ k \in Queued(q)
    <3>1. Storing(c) /\ r[j].tag = c.tag /\ i = NStoreQueue + 1
      BY <1>7, <1>13, <2>4 DEF Storing
    <3>2. j >= l BY <1>4, <1>9, <2>1, <3>1
    <3>3. k \in 1 .. NStoreQueue /\ NStoreQueue \in Nat BY <1>5, <2>4, One
    <3> QED BY <2>1, <3>1, <3>2, <3>3
  <2>5. CASE i \in coming /\ k \in coming
    <3>1. i = k /\ TagAt(i) = TagAt(k) BY <1>7, <2>5
    <3>2. j = l BY <1>4, <1>13, <2>1, <3>1
    <3>3. i \in Nat BY <1>7, <2>5, One
    <3> QED BY <2>1, <3>1, <3>2, <3>3
  <2> QED BY <2>2, <2>3, <2>4, <2>5
<1> QED BY <1>12, <1>13 DEF QueueFollowsRob, coming, TagAt

\* The load of the unit is the only one of the reorder buffer that is under way.
LEMMA LoadFollows == IInv => LoadsFollowRob
<1> SUFFICES ASSUME IInv, phase = "rise" PROVE LoadsFollowRob
  BY DEF LoadsFollowRob
<1> DEFINE r == rob
           coming == dispatched.valid /\ ~ IsWrite(dispatched.op)
           loads == {j \in DOMAIN r : r[j].stage = "Dispatched" /\ r[j].op.kind = "Load"}
           there == (IF unit.load.valid THEN {unit.load.tag} ELSE {})
                    \cup (IF coming THEN {dispatched.tag} ELSE {})
<1>1. PICK c : c = Coming(dispatched) OBVIOUS
<1>2. /\ c \in Packet /\ c.valid = dispatched.valid /\ c.tag = dispatched.tag
      /\ (IsWrite(c.op) <=> IsWrite(dispatched.op))
      /\ QueueInv(unit.storeQueue, r, c) /\ RobOrder(r, branches)
      /\ LoadThere(unit.load, r) /\ LoadAlone(unit, c) /\ Stages(unit.load, r, c)
  BY <1>1, ComingIs
<1>3. \A i, j \in DOMAIN r : r[i].tag = r[j].tag => i = j BY <1>2 DEF RobOrder
<1>4. coming <=> c.valid /\ ~ IsWrite(c.op) BY <1>2
<1>5. ~ (unit.load.valid /\ coming) BY <1>2, <1>4 DEF LoadAlone
<1>6. c.valid => \E j \in DOMAIN r : /\ r[j].tag = c.tag /\ IsMemory(r[j].op)
                                     /\ (IsWrite(c.op) <=> IsWrite(r[j].op))
                                     /\ ~ IsWrite(c.op) => r[j].op.kind = "Load"
  <2> SUFFICES ASSUME c.valid
               PROVE  \E j \in DOMAIN r : /\ r[j].tag = c.tag /\ IsMemory(r[j].op)
                                          /\ (IsWrite(c.op) <=> IsWrite(r[j].op))
                                          /\ ~ IsWrite(c.op) => r[j].op.kind = "Load"
    OBVIOUS
  <2>1. LastSent(unit.storeQueue, r, c) BY <1>2 DEF QueueInv
  <2>2. PICK j \in DOMAIN r : /\ IsMemory(r[j].op) /\ Carries(c, r[j])
                              /\ (IsWrite(c.op) <=> IsWrite(r[j].op))
                              /\ ~ IsWrite(c.op) => r[j].op.kind = "Load"
    BY <1>2, <2>1, MemoryKinds
  <2> QED BY <2>2 DEF Carries
<1>7. ASSUME NEW j \in loads
      PROVE  \/ coming /\ c.tag = r[j].tag
             \/ unit.load.valid /\ unit.load.tag = r[j].tag
  <2>1. IsMemory(r[j].op) /\ ~ IsWrite(r[j].op) BY DEF IsMemory, IsWrite
  <2>2. \/ c.valid /\ c.tag = r[j].tag
        \/ unit.load.valid /\ unit.load.tag = r[j].tag
    BY <1>2, <2>1 DEF Stages
  <2>3. c.valid /\ c.tag = r[j].tag => ~ IsWrite(c.op) BY <1>3, <1>6, <2>1
  <2> QED BY <1>4, <2>2, <2>3
<1>8. coming => \E j \in loads : r[j].tag = c.tag
  <2> SUFFICES ASSUME coming PROVE \E j \in loads : r[j].tag = c.tag
    OBVIOUS
  <2>1. PICK j \in DOMAIN r : r[j].tag = c.tag /\ IsMemory(r[j].op) /\ r[j].op.kind = "Load"
    BY <1>4, <1>6
  <2>2. r[j].stage = "Dispatched" BY <1>2, <1>4, <2>1 DEF Stages
  <2> QED BY <2>1, <2>2
<1>9. unit.load.valid => \E j \in loads : r[j].tag = unit.load.tag
  <2> SUFFICES ASSUME unit.load.valid PROVE \E j \in loads : r[j].tag = unit.load.tag
    OBVIOUS
  <2>1. PICK j \in DOMAIN r : r[j].op.kind = "Load" /\ Carries(unit.load, r[j])
    BY <1>2 DEF LoadThere
  <2>2. r[j].stage = "Dispatched" BY <1>2, <2>1 DEF Stages, Carries, IsMemory
  <2> QED BY <2>1, <2>2 DEF Carries
<1>10. \A j, l \in loads : j = l
  <2> SUFFICES ASSUME NEW j \in loads, NEW l \in loads PROVE j = l
    OBVIOUS
  <2>1. r[j].tag = r[l].tag
    <3> HIDE DEF coming
    <3> QED BY <1>5, <1>7
  <2> QED BY <1>3, <2>1
<1>11. {r[j].tag : j \in loads} = there
  <2>1. c.tag = dispatched.tag BY <1>2
  <2> HIDE DEF coming, loads
  <2>2. \A j \in loads : r[j].tag \in there BY <1>7, <2>1
  <2>3. \A x \in there : \E j \in loads : x = r[j].tag BY <1>8, <1>9, <2>1
  <2> QED BY <2>2, <2>3
<1> QED BY <1>5, <1>10, <1>11 DEF LoadsFollowRob

\* Memory is up to date but for the stores that have retired and wait in the queue.
LEMMA MemoryFollows == WholeSingles /\ IInv => MemoryFollowsRetirement
<1> SUFFICES ASSUME WholeSingles, IInv, phase = "rise" PROVE MemoryFollowsRetirement
  BY DEF MemoryFollowsRetirement
<1>1. Memory(unit.storeQueue, mem, contents) BY DEF IInv, Rising, Core
<1> QED BY <1>1 DEF Memory, Ops, MemoryFollowsRetirement

\* A load's answer is what the program reads.
LEMMA LoadSees == WholeSingles /\ AlignedZeros /\ IInv => LoadSeesOlderStores
<1> SUFFICES ASSUME WholeSingles, AlignedZeros, IInv PROVE LoadSeesOlderStores
  OBVIOUS
<1>1. Result(unit, rob, contents) BY DEF IInv
<1> QED BY <1>1 DEF Result, Reads, Firsts, LoadSeesOlderStores

\* Whatever is flushed, dispatched, retired or delayed by the cache, the store queue holds
\* exactly the stores of the reorder buffer that have been dispatched, in program order:
\* WriteBack() by position marks the right store.
THEOREM QueueFollowsRobAlways == Spec => []QueueFollowsRob
BY QueueIsInvariant, FollowsRob, PTL

\* There is never more than one load under way, and it is the one the reorder buffer waits
\* for: a flush or a late answer of the cache leaves no load behind and loses none.
THEOREM LoadsFollowRobAlways == Spec => []LoadsFollowRob
BY QueueIsInvariant, LoadFollows, PTL

\* The stores leave the queue for the cache in program order and once each: memory and the
\* pending stores together are what the retired instructions wrote.  A single precision store
\* that crosses a line is excluded: Store() shifts the bits before it converts them.
THEOREM MemoryFollowsRetirementAlways ==
  ASSUME WholeSingles PROVE Spec => []MemoryFollowsRetirement
<1>1. IInv => MemoryFollowsRetirement BY MemoryFollows
<1> QED BY <1>1, QueueIsInvariant, PTL

\* A load gets the value of the newest older store to each of its bytes, though stores go to
\* the cache after retirement and loads may overtake them: the overlap test of Advance() makes
\* it wait for every store that matters.  A dcbz whose address is not that of its line is
\* excluded: the test takes the line to start at the address.
THEOREM LoadSeesOlderStoresAlways ==
  ASSUME WholeSingles, AlignedZeros PROVE Spec => []LoadSeesOlderStores
<1>1. IInv => LoadSeesOlderStores BY LoadSees
<1> QED BY <1>1, QueueIsInvariant, PTL
=============================================================================
