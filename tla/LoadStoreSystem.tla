-------------------------- MODULE LoadStoreSystem --------------------------
(***************************************************************************)
(* The load/store unit among its neighbours.  Instructions that touch      *)
(* memory are decoded in program order into the reorder buffer, sent to    *)
(* the unit in that order, retired at its tail, at most two in a cycle,    *)
(* and flushed when a branch they depend on was mispredicted.  The data    *)
(* cache is what AtomicMemory promises, after any latency up to            *)
(* MaxLatency; MemorySystem shows that the cache and the bus keep that     *)
(* promise.                                                                *)
(*                                                                         *)
(* Other instructions appear only as the delay they cause: an instruction  *)
(* may stay in its station, and one that has finished may not retire yet.  *)
(***************************************************************************)
EXTENDS LoadStoreUnit

CONSTANTS
  Operations,   \* what the program may do next
  NRob,         \* number of entries of the reorder buffer
  NCQ,          \* nCQ
  MaxBranches,  \* branches that may be unresolved
  MaxLatency,   \* rising edges a request to the cache waits at most
  Contents0     \* memory at first

\* Loads read bytes that are there; a store has as many bytes as its size says.
Byte == Nat \cup {Garbage}
Operation == [kind : {"Load", "Store", "Zero", "SystemCall"}, addr : Nat, size : Nat \ {0},
              data : Seq(Byte), single : BOOLEAN]
ASSUME OperationsAssumption ==
  /\ NRob \in Nat \ {0} /\ NCQ \in Nat /\ {MaxBranches, MaxLatency} \subseteq Nat
  /\ None \notin 0 .. NRob - 1
  /\ DOMAIN Contents0 \subseteq Nat /\ Contents0 \in [DOMAIN Contents0 -> Byte]
  /\ \A o \in Operations :
       /\ o \in Operation
       /\ o.kind = "Store" => Len(o.data) = o.size
       /\ o.kind = "Load" => o.addr .. o.addr + o.size - 1 \subseteq DOMAIN Contents0

VARIABLES
  phase,       \* the next edge of the clock
  rob, tail,   \* the instructions in flight, oldest first; the tag of the oldest
  branches,    \* unresolved branches
  branch,      \* what the branch unit says in this cycle
  dispatched,  \* what the dispatch unit has sent to the load/store unit
  execute,     \* the completion unit lets the system call at the tail start
  syscall,     \* the system register unit is given the system call
  unit,        \* the load/store unit
  ack, reply, waited,  \* the data cache
  mem,         \* memory, as the cache shows it
  contents     \* memory, as the retired instructions leave it
vars == <<phase, rob, tail, branches, branch, dispatched, execute, syscall, unit,
          ack, reply, waited, mem, contents>>

Init ==
  /\ phase = "rise" /\ rob = <<>> /\ tail = 0 /\ branches = 0 /\ branch = "None"
  /\ dispatched = Nothing /\ execute = FALSE /\ syscall = FALSE /\ unit = EmptyUnit
  /\ ack = FALSE /\ reply = <<>> /\ waited = 0
  /\ mem = Contents0 /\ contents = Contents0

\* What memory holds after a request, or after operations: each byte is that of the last
\* one that writes it.
Bytes(m, a, n) == [i \in 1 .. n |-> m[a + i - 1]]
Touches(o, x) ==
  \/ o.kind = "Store" /\ x \in o.addr .. o.addr + o.size - 1
  \/ o.kind = "Zero" /\ Line(x) = Line(o.addr)
ByteOf(o, x) == IF o.kind = "Zero" THEN 0 ELSE o.data[x - o.addr + 1]
Effect(m, o) == [x \in DOMAIN m |-> IF Touches(o, x) THEN ByteOf(o, x) ELSE m[x]]
Effects(m, ops) ==
  [x \in DOMAIN m |-> LET writers == {i \in DOMAIN ops : Touches(ops[i], x)}
                      IN  IF writers = {} THEN m[x] ELSE ByteOf(ops[Max(writers)], x)]

\* The instructions that may leave the reorder buffer in this cycle.
Ready(r) == r.stage = "Finished" /\ r.branchCounter = 0
Retirable ==
  {n \in 0 .. NCQ : n <= Len(rob) /\ \A i \in 1 .. n : Ready(rob[i])}

Rise ==
  /\ phase = "rise" /\ phase' = "fall"
  /\ branch' \in IF branches > 0 THEN {"None", "Correct", "Mispredicted"} ELSE {"None"}
  /\ \E n \in Retirable, decoded \in {<<>>} \cup {<<o>> : o \in Operations} :
       LET kept == SubSeq(rob, n + 1, Len(rob))
           ports == [i \in 1 .. n |-> IF IsWrite(rob[i].op) THEN rob[i].tag ELSE None]
           u == WriteBack(OnFrontEdge(unit, dispatched), ports)
       IN  /\ decoded # <<>> =>
                /\ Len(kept) < NRob
                \* A system call sets the interlock, and is decoded after the branches.
                /\ \A i \in DOMAIN rob : rob[i].op.kind # "SystemCall"
                /\ decoded[1].kind = "SystemCall" => branches = 0
           /\ rob' = kept \o [i \in DOMAIN decoded |->
                [tag |-> (tail + Len(rob)) % NRob, op |-> decoded[i], stage |-> "Station",
                 branchCounter |-> branches]]
           /\ tail' = (tail + n) % NRob
           /\ contents' = Effects(contents, [i \in 1 .. n |-> rob[i].op])
           /\ execute' = (kept # <<>> /\ kept[1].op.kind = "SystemCall" /\ kept[1].stage = "Station")
           /\ ack' \in IF ~ u.dcache.req THEN {FALSE}
                       ELSE IF waited = MaxLatency THEN {TRUE} ELSE BOOLEAN
           /\ reply' = IF ack' /\ u.dcache.kind = "Load"
                       THEN Bytes(mem, u.dcache.addr, u.dcache.size) ELSE <<>>
           /\ unit' = IF ack' THEN Forward(u, reply') ELSE u
  /\ branches' \in IF branches < MaxBranches THEN {branches, branches + 1} ELSE {branches}
  /\ UNCHANGED <<dispatched, syscall, waited, mem>>

\* CompletionUnit::Finish(), Flush() and DecrementBranchCounter(): a flush pops the newest
\* entries as long as they depend on a branch.
AfterBranch(r) ==
  CASE branch = "None" -> r
    [] branch = "Correct" ->
         [i \in DOMAIN r |-> [r[i] EXCEPT !.branchCounter = Decrement(@)]]
    [] branch = "Mispredicted" -> SubSeq(r, 1, Max({0} \cup {i \in DOMAIN r : r[i].branchCounter = 0}))
Finished(e) == e.tag \in unit.finished \/ (syscall /\ e.op.kind = "SystemCall")

\* The dispatch unit sends the oldest instruction of its load/store stations.
\* (Mutant: it ignores the stall of the other queue.)
MayDispatchEither(o) == ~ unit.storeQueueStalled \/ ~ unit.loadQueueStalled
MayDispatch(o) ==
  IF IsWrite(o) THEN ~ unit.storeQueueStalled ELSE ~ unit.loadQueueStalled

\* The cache is busy with a request that it has not answered, and may be busy for a
\* while with the line of a load it has answered.
Busy == IF waited > 0 THEN {TRUE} ELSE BOOLEAN

Fall ==
  /\ phase = "fall" /\ phase' = "rise"
  /\ LET left == AfterBranch(rob)
         waiting == {i \in DOMAIN left : left[i].stage = "Station" /\ left[i].op.kind # "SystemCall"}
     IN  \E send \in BOOLEAN, busy \in Busy :
         LET start == execute /\ ~ (~ unit.empty /\ busy)
         IN
           /\ send => waiting # {} /\ MayDispatch(left[Min(waiting)].op)
           /\ dispatched' =
                IF ~ send THEN Nothing
                ELSE LET r == left[Min(waiting)]
                     IN  [valid |-> TRUE, tag |-> r.tag, op |-> r.op,
                          branchCounter |-> r.branchCounter]
           /\ syscall' = start
           /\ rob' = [i \in DOMAIN left |->
                IF Finished(left[i]) THEN [left[i] EXCEPT !.stage = "Finished"]
                ELSE IF \/ send /\ i = Min(waiting)
                        \/ start /\ left[i].op.kind = "SystemCall"
                THEN [left[i] EXCEPT !.stage = "Dispatched"]
                ELSE left[i]]
  /\ branches' = CASE branch = "None" -> branches
                   [] branch = "Correct" -> branches - 1
                   [] branch = "Mispredicted" -> 0
  /\ mem' = IF ack THEN Effect(mem, unit.dcache) ELSE mem
  /\ waited' = IF unit.dcache.req /\ ~ ack THEN waited + 1 ELSE 0
  /\ unit' = OnFallingEdge(unit, ack, branch)
  /\ ack' = FALSE /\ reply' = <<>> /\ branch' = "None" /\ execute' = FALSE
  /\ UNCHANGED <<tail, contents>>

Next == Rise \/ Fall

\* The clock runs; the branch unit resolves every branch, and what has finished is
\* retired when the instructions before it are, since nothing younger can hold them.
Resolve == branches > 0 /\ branch' \in {"Correct", "Mispredicted"} /\ Rise
Retire == Retirable # {0} /\ tail' \in (0 .. NRob - 1) \ {tail} /\ Rise
Spec == /\ Init /\ [][Next]_vars
        /\ WF_vars(Next) /\ SF_vars(Resolve) /\ SF_vars(Retire)
-----------------------------------------------------------------------------
\* A load returns what the instructions before it have stored: those that have retired,
\* those that wait in the queue, and those that are half way to the cache, but none of a
\* path that was flushed.
LoadSeesOlderStores == unit.result # <<>> =>
  \A i \in DOMAIN rob :
    (rob[i].op.kind = "Load" /\ rob[i].tag \in unit.finished) =>
      unit.result = Bytes(Effects(contents, [j \in 1 .. i - 1 |-> rob[j].op]),
                          rob[i].op.addr, rob[i].op.size)

\* The stores of the queue that have not been retired are those of the reorder buffer
\* that have been sent, in program order, so that each write back finds its own entry
\* ("Write Back for store not in order"), and no entry is overwritten.
Sent(r) == r.stage # "Station"
Queued(q) == {i \in Full(q) : ~ q[i].valid}
QueueFollowsRob == phase = "rise" =>
  LET q == unit.storeQueue
      coming == IF dispatched.valid /\ IsWrite(dispatched.op) THEN {NStoreQueue + 1} ELSE {}
      there == Queued(q) \cup coming
      TagAt(i) == IF i \in coming THEN dispatched.tag ELSE q[i].tag
      stores == {j \in DOMAIN rob : Sent(rob[j]) /\ IsWrite(rob[j].op)}
  IN  /\ {TagAt(i) : i \in there} = {rob[j].tag : j \in stores}
      /\ \A i, k \in there, j, l \in stores :
           TagAt(i) = rob[j].tag /\ TagAt(k) = rob[l].tag => (i < k <=> j < l)

\* A load in flight is in exactly one place, and no other load is behind it.
LoadsFollowRob == phase = "rise" =>
  LET coming == dispatched.valid /\ ~ IsWrite(dispatched.op)
      loads == {j \in DOMAIN rob : rob[j].stage = "Dispatched" /\ rob[j].op.kind = "Load"}
  IN  /\ ~ (unit.load.valid /\ coming)
      /\ \A j, l \in loads : j = l
      /\ {rob[j].tag : j \in loads} = (IF unit.load.valid THEN {unit.load.tag} ELSE {})
                                     \cup (IF coming THEN {dispatched.tag} ELSE {})

\* What is retired reaches memory, in program order, and nothing else does: memory lacks
\* only the retired stores that still wait in the queue.
Pending(q) == {i \in Full(q) : q[i].valid}
MemoryFollowsRetirement == phase = "rise" =>
  contents = Effects(mem, [i \in Pending(unit.storeQueue) |-> unit.storeQueue[i].op])

\* The system call, executed on the next rising edge, reads memory as the program left it
\* ("data at ... is not the same into emulator and simulator").
SyscallSeesStores == phase = "rise" /\ syscall => mem = contents

\* Every load is answered and every retired store reaches the cache: neither waits for
\* the other for ever.
LoadsFinish == unit.load.valid ~> ~ unit.load.valid
IsPending(t) == \E i \in Pending(unit.storeQueue) : unit.storeQueue[i].tag = t
StoresDrain == \A t \in 0 .. NRob - 1 : IsPending(t) ~> ~ IsPending(t)
=============================================================================
