---------------------------- MODULE MemorySystem ----------------------------
(***************************************************************************)
(* The data cache and the instruction cache share the bus.  The load/store *)
(* unit and the fetch unit drive the caches as their code does: a request  *)
(* is held until it is acknowledged and dropped on the next falling edge;  *)
(* the fetch unit may change the address of a request that a misprediction *)
(* has made useless, and drops its answer.                                 *)
(*                                                                         *)
(* A clock cycle is two steps, the rising edge with the delta cycles it    *)
(* triggers, and the falling edge with its own.                            *)
(***************************************************************************)
EXTENDS BusInterfaceUnit

CONSTANTS
  Image,          \* what memory holds at first
  DataRequests,   \* the requests of the load/store unit
  FetchRequests   \* those of the fetch unit, to lines of instructions

ASSUME ImageAssumption == Image \in [Lines -> [Unit -> Values]]
ASSUME FetchAssumption == \A q \in FetchRequests : q.write = FALSE

\* The load/store unit splits an access at the end of a line, and Fetch() ends there; the
\* program does not write its instructions.
Requests == [req : {TRUE}, write : BOOLEAN, zero : BOOLEAN, line : Lines, offset : Unit,
            size : Nat \ {0}, data : Seq(Values)]
ASSUME RequestAssumption ==
  \A q \in DataRequests \cup FetchRequests :
    /\ q \in Requests /\ q.offset + q.size <= LineUnits
    /\ q.write => Len(q.data) = q.size
ASSUME ProgramAssumption ==
  \A q \in DataRequests, r \in FetchRequests : q.write => q.line # r.line

\* A load that is not longer than a word of the bus lies in one.
AlignedLoads ==
  \A q \in DataRequests \cup FetchRequests :
    ~ q.write => q.size > WordUnits \/ (q.offset % WordUnits) + q.size <= WordUnits

VARIABLES
  phase,     \* the next edge of the clock
  cpu,       \* the signals of the load/store unit
  fetch,     \* the signals of the fetch unit
  dropped,   \* FetchUnit::mispredictedBranch: the answer will be dropped
  dcache, icache, bus,
  storage,   \* the pages of the bus interface unit
  contents   \* what the program has stored
vars == <<phase, cpu, fetch, dropped, dcache, icache, bus, storage, contents>>

\* What a request reads, and what it leaves.
ValueOf(m, q) == Units(m[q.line], q.offset, q.size)
EffectOf(m, q) ==
  IF ~ q.write THEN m
  ELSE [m EXCEPT ![q.line] = IF q.zero THEN [u \in Unit |-> Zero] ELSE WithUnits(@, q.offset, q.data)]

Init ==
  /\ phase = "rise"
  /\ cpu = NoRequest /\ fetch = NoRequest /\ dropped = FALSE
  /\ dcache = EmptyCache /\ icache = EmptyCache /\ bus = IdleBus
  /\ storage = Image /\ contents = Image

\* LoadStoreUnit::Load(), Store(): a new request, one at a time.
CpuRequest == cpu' \in IF cpu.req THEN {cpu} ELSE {cpu} \cup DataRequests

\* FetchUnit::Fetch(): a new request, or another address after a misprediction.
FetchRequest ==
  fetch' \in IF fetch.req /\ ~ dropped THEN {fetch} ELSE {fetch} \cup FetchRequests

\* The requests to the bus have changed.
BusWakes(d, i) == d.mem.req # dcache.mem.req \/ i.mem.req # icache.mem.req

Rise ==
  /\ phase = "rise" /\ phase' = "fall"
  /\ CpuRequest /\ FetchRequest
  /\ \E v \in Victims(dcache), w \in Victims(icache) :
       LET d == OnFrontEdge(dcache, cpu, v)
           i == OnFrontEdge(icache, fetch, w)
           b == BusOnFrontEdge(bus, dcache.mem, icache.mem, storage)
           dServed == IF cpu' # cpu THEN Async(d, cpu', v) ELSE d
           iServed == IF fetch' # fetch THEN Async(i, fetch', w) ELSE i
       IN  /\ dcache' = IF SendsData(bus) THEN Forward(dServed, b.dData) ELSE dServed
           /\ icache' = IF SendsInstructions(bus) THEN Forward(iServed, b.iData) ELSE iServed
           /\ bus' = IF BusWakes(d, i) THEN BusAsync(b, d.mem, i.mem) ELSE b
  /\ UNCHANGED <<dropped, storage, contents>>

\* The caches, that the end of a request wakes once more, have nothing to serve then.
Fall ==
  /\ phase = "fall" /\ phase' = "rise"
  /\ cpu' = IF dcache.ack THEN NoRequest ELSE cpu
  /\ fetch' = IF icache.ack THEN NoRequest ELSE fetch
  /\ dropped' \in IF fetch.req /\ ~ icache.ack THEN {dropped, TRUE} ELSE {FALSE}
  /\ dcache' = OnFallingEdge(dcache, cpu, bus.dAck, bus.dData)
  /\ icache' = OnFallingEdge(icache, fetch, bus.iAck, bus.iData)
  /\ bus' = LET b == BusOnFallingEdge(bus)
            IN  IF BusWakes(dcache', icache') THEN BusAsync(b, dcache'.mem, icache'.mem) ELSE b
  /\ storage' = StorageOnFallingEdge(bus, dcache.mem, storage)
  /\ contents' = IF ~ (dcache.ack /\ cpu.write) THEN contents
                 ELSE EffectOf(contents, cpu)

Next == Rise \/ Fall

\* The clock does not stop.
Spec == Init /\ [][Next]_vars /\ WF_vars(Next)
-----------------------------------------------------------------------------
\* A load reads what the program stored last, from the cache or from the word that
\* passes by while the line is filled ("the data read into the cache line").
LoadExact ==
  phase = "fall" /\ dcache.ack /\ ~ cpu.write =>
    dcache.data = ValueOf(contents, cpu)

\* The fetch unit reads the instructions of the address it waits for.
FetchExact ==
  phase = "fall" /\ icache.ack /\ ~ dropped =>
    icache.data = ValueOf(Image, fetch)

\* Without a handshake for every word, cache and bus stay in step: between two words
\* both have counted the same number, and neither waits for the other at the end.
InStep == phase = "rise" =>
  \A x \in {<<dcache, "Reading", "FillingForWrite">>, <<dcache, "Reading", "FillingForRead">>,
            <<icache, "Fetching", "FillingForRead">>, <<dcache, "Writing", "Ejecting">>} :
    (bus.state = x[2] /\ x[1].state = x[3]) => x[1].length = bus.length /\ ~ x[1].waitingForAck

\* The memory the program sees, wherever its lines are: in memory from the moment the
\* bank that held a line is being filled with another one.
VictimGone == \/ dcache.state \in {"FillingForRead", "FillingForWrite"}
              \/ dcache.state = "Write" /\ ~ dcache.request.zero
View == [l \in Lines |->
  LET b == Search(dcache, l)
  IN  IF b = None \/ (VictimGone /\ b = dcache.bankToReplace) THEN storage[l]
      ELSE dcache.storage[b]]

\* The data cache, the bus and the pages together are one memory, which a request reads
\* or writes in one step: copies, ejected lines and half filled lines are never seen.
Memory == INSTANCE AtomicMemory WITH
  Requests <- DataRequests, Contents0 <- Image, NoReply <- <<>>,
  Value <- ValueOf, Effect <- EffectOf,
  mem <- View, req <- cpu,
  reply <- IF phase = "fall" /\ dcache.ack /\ ~ cpu.write THEN dcache.data ELSE <<>>
RefinesMemory == Memory!Spec

\* Every request of either kind is answered, although the bus prefers instructions.
RequestsServed == (cpu.req ~> ~ cpu.req) /\ (fetch.req ~> ~ fetch.req)
=============================================================================
