-------------------------- MODULE BusInterfaceUnit --------------------------
(***************************************************************************)
(* The bus interface unit of BusInterfaceUnit.cpp, which serves one        *)
(* transfer of a line at a time, the instruction cache first: after a      *)
(* latency it acknowledges and then sends or takes a word in every cycle,  *)
(* without any further handshake.                                          *)
(***************************************************************************)
EXTENDS Cache

CONSTANTS ReadLatency, WriteLatency  \* memoryReadLatency, memoryWriteLatency

\* With a latency of 1, which the parameters do not have, a request found on a
\* rising edge would be acknowledged and the acknowledgement withdrawn at once.
ASSUME LatencyAssumption == {ReadLatency, WriteLatency} \subseteq Nat \ {0, 1}

IdleBus == [state |-> "Idle", latency |-> 0, line |-> None, offset |-> 0, length |-> 0,
            dAck |-> FALSE, dData |-> <<>>, iAck |-> FALSE, iData |-> <<>>]

\* A transfer starts; half of the first cycle counts.
Started(b, m, state, latency) ==
  [b EXCEPT !.state = state, !.latency = latency - 1,
            !.line = m.line, !.offset = m.offset, !.length = 0]

\* GetRequest(): the transfers d and i are those the caches ask for.
BusGetRequest(b, d, i) ==
  CASE i.req -> Started(b, i, "InstructionLatency", ReadLatency)
    [] ~ i.req /\ d.req /\ d.write -> Started(b, d, "WriteLatency", WriteLatency)
    [] ~ i.req /\ d.req /\ ~ d.write -> Started(b, d, "ReadLatency", ReadLatency)
    [] OTHER -> b

\* Async(): sensitive to the requests only.
BusAsync(b, d, i) == IF b.state = "Idle" THEN BusGetRequest(b, d, i) ELSE b

\* The counters after a word.  (Mutant: the transfer does not wrap at the end of the
\* line.)
AdvancedUnwrapped(b, next) ==
  [b EXCEPT !.offset = IF @ + WordUnits = LineUnits THEN @ ELSE @ + WordUnits,
            !.length = @ + WordUnits,
            !.state = IF LineComplete(b.length + WordUnits) THEN "Idle" ELSE next]
Advanced(b, next) ==
  [b EXCEPT !.offset = (@ + WordUnits) % LineUnits, !.length = @ + WordUnits,
            !.state = IF LineComplete(b.length + WordUnits) THEN "Idle" ELSE next]

\* A word of the line on its way to a cache.
ReadWord(b, storage) ==
  [Advanced(b, "Reading") EXCEPT !.dData = Units(storage[b.line], b.offset, WordUnits)]
FetchWord(b, storage) ==
  [Advanced(b, "Fetching") EXCEPT !.iData = Units(storage[b.line], b.offset, WordUnits)]

LatencyOver(b) == b.latency = 1

\* OnFrontEdge()
BusOnFrontEdge(b, d, i, storage) ==
  LET waited == [b EXCEPT !.latency = @ - 1]
  IN  CASE b.state = "Idle" -> [BusGetRequest(b, d, i) EXCEPT !.dAck = FALSE]
        [] b.state = "WriteLatency" ->
             IF LatencyOver(b) THEN [waited EXCEPT !.dAck = TRUE, !.state = "Writing"] ELSE waited
        [] b.state = "Writing" -> [b EXCEPT !.dAck = FALSE]
        [] b.state = "ReadLatency" ->
             IF LatencyOver(b) THEN [ReadWord(waited, storage) EXCEPT !.dAck = TRUE] ELSE waited
        [] b.state = "Reading" -> [ReadWord(b, storage) EXCEPT !.dAck = FALSE]
        [] b.state = "InstructionLatency" ->
             IF LatencyOver(b) THEN [FetchWord(waited, storage) EXCEPT !.iAck = TRUE] ELSE waited
        [] b.state = "Fetching" -> [FetchWord(b, storage) EXCEPT !.iAck = FALSE]

\* The words this rising edge sends, which wake Forward() of the caches.
SendsData(b) == b.state = "Reading" \/ (b.state = "ReadLatency" /\ LatencyOver(b))
SendsInstructions(b) == b.state = "Fetching" \/ (b.state = "InstructionLatency" /\ LatencyOver(b))

\* OnFallingEdge(): a word of the data cache is stored.
BusOnFallingEdge(b) ==
  IF b.state = "Writing" THEN [Advanced(b, "Writing") EXCEPT !.dAck = FALSE] ELSE b
StorageOnFallingEdge(b, d, storage) ==
  IF b.state = "Writing" THEN [storage EXCEPT ![b.line] = WithUnits(@, b.offset, d.data)]
  ELSE storage
=============================================================================
