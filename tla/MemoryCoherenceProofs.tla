------------------------ MODULE MemoryCoherenceProofs ------------------------
(***************************************************************************)
(* A proof that the two caches, the bus and the pages are one memory, for  *)
(* lines and words of any length, any latency, any number of banks, and    *)
(* any aligned requests: loads and fetches get what the program stored     *)
(* last (LoadExact, FetchExact), whatever is copied, ejected or half       *)
(* filled meanwhile.                                                       *)
(*                                                                         *)
(* It has three parts.  The first: the caches and the bus stay in step.    *)
(* InStep is not inductive: it compares the counters between two words,    *)
(* and they agree there because of what holds in the middle of a cycle,    *)
(* when one side has counted a word and the other has not (DuringWord),    *)
(* and because a transfer starts with the counter that its latency leaves  *)
(* (Asking, Serving).  The second: where the words of a transfer lie that  *)
(* starts in the middle of a line and wraps at its end, what they leave in *)
(* the line, and how an answer is put together from them.  The third: what *)
(* the banks and a line on its way hold, compared with memory (Coherence). *)
(***************************************************************************)
EXTENDS MemorySystem, WellFoundedInduction, SequenceTheorems, TLAPS

-----------------------------------------------------------------------------
\* The caches and the bus.

Filling == {"FillingForRead", "FillingForWrite"}
AfterEjects == {"FillForRead", "FillForWrite", "Write"}
CacheStates == {"Idle", "Eject", "Ejecting"} \cup Filling \cup AfterEjects
BusStates == {"Idle", "ReadLatency", "Reading", "WriteLatency", "Writing",
              "InstructionLatency", "Fetching"}

\* The fields of a cache, of its request to the bus and of the bus.
CacheShape(c) ==
  /\ DOMAIN c = {"state", "waitingForAck", "hit", "request", "bankToReplace", "lineOffset",
                 "length", "dataLength", "dataSent", "directory", "storage", "ack", "data", "mem"}
  /\ DOMAIN c.mem = {"req", "write", "line", "offset", "data"}
BusShape(b) ==
  DOMAIN b = {"state", "latency", "line", "offset", "length", "dAck", "dData", "iAck", "iData"}

\* A cache that waits for the bus asks for one transfer, of which it has counted the
\* word it sends with an ejection, and none of a line it fills.
Asking(c) ==
  /\ c.state \in CacheStates
  /\ c.waitingForAck \in BOOLEAN /\ c.mem.req = c.waitingForAck
  /\ c.waitingForAck => \/ c.state = "Ejecting" /\ c.mem.write = TRUE /\ c.length = WordUnits
                        \/ c.state \in Filling /\ c.mem.write = FALSE /\ c.length = 0

\* Nothing is ever written into the instruction cache.
ReadOnly(c) ==
  /\ c.state \in {"Idle", "FillForRead", "FillingForRead"}
  /\ DOMAIN c.directory = Banks
  /\ \A b \in Banks : DOMAIN c.directory[b] = {"line", "dirty"} /\ c.directory[b].dirty = FALSE

\* During a latency the bus has counted nothing, and the cache it serves waits.
Serving(b, d, i) ==
  /\ b.state \in BusStates /\ b.dAck \in BOOLEAN /\ b.iAck \in BOOLEAN
  /\ b.state \in {"ReadLatency", "WriteLatency", "InstructionLatency"} => b.length = 0
  /\ b.state = "ReadLatency" => d.waitingForAck /\ d.state \in Filling
  /\ b.state = "WriteLatency" => d.waitingForAck /\ d.state = "Ejecting"
  /\ b.state = "InstructionLatency" => i.waitingForAck

\* Before a rising edge.
BetweenWords(b, d, i) ==
  /\ b.state = "Reading"  <=> d.state \in Filling /\ ~ d.waitingForAck
  /\ b.state = "Writing"  <=> d.state = "Ejecting" /\ ~ d.waitingForAck
  /\ b.state = "Fetching" <=> i.state \in Filling /\ ~ i.waitingForAck
  /\ b.state \in {"Reading", "Writing"} => d.length = b.length
  /\ b.state = "Fetching" => i.length = b.length
  /\ b.dAck => b.state = "Reading"
  /\ b.iAck => b.state = "Fetching"

\* Before a falling edge: the bus has counted the word it sends, a cache the one it ejects.
\* The filling of cache c by a bus that is in the given state, with acknowledgement ack:
FillDuringWord(b, c, state, ack) ==
  /\ b.state = state => /\ c.state \in Filling /\ b.length # LineUnits
                        /\ c.waitingForAck = ack
                        /\ b.length = c.length + WordUnits
  /\ c.state \in Filling /\ ~ c.waitingForAck => b.state = state \/ c.length + WordUnits = LineUnits
EjectDuringWord(b, d) ==
  /\ b.state = "Writing" /\ b.dAck =>
       d.waitingForAck /\ d.state = "Ejecting" /\ b.length = 0
  /\ b.state = "Writing" /\ ~ b.dAck =>
       /\ ~ d.waitingForAck
       /\ \/ d.state = "Ejecting" /\ d.length = b.length + WordUnits /\ d.length # LineUnits
          \/ d.state \in AfterEjects /\ b.length + WordUnits = LineUnits
  /\ d.state = "Ejecting" /\ ~ d.waitingForAck => b.state = "Writing" /\ ~ b.dAck
DuringWord(b, d, i) ==
  /\ FillDuringWord(b, d, "Reading", b.dAck) /\ FillDuringWord(b, i, "Fetching", b.iAck)
  /\ EjectDuringWord(b, d)
  /\ b.dAck => b.state \in {"Reading", "Writing"}
  /\ b.iAck => b.state = "Fetching"

IInv ==
  /\ phase \in {"rise", "fall"}
  /\ CacheShape(dcache) /\ CacheShape(icache) /\ BusShape(bus)
  /\ Asking(dcache) /\ Asking(icache) /\ ReadOnly(icache) /\ fetch.write = FALSE
  /\ Serving(bus, dcache, icache)
  /\ phase = "rise" => BetweenWords(bus, dcache, icache)
  /\ phase = "fall" => DuringWord(bus, dcache, icache)
-----------------------------------------------------------------------------
\* The state machines, without addresses and data.  What a rising edge makes of cache c:
SameTransfer(c, e) ==
  /\ e.waitingForAck = c.waitingForAck /\ e.length = c.length
  /\ e.mem.req = c.mem.req /\ e.mem.write = c.mem.write
RiseStep(c, e) ==
  /\ c.state = "Idle" => e.state \in {"Idle", "Eject"} \cup AfterEjects /\ SameTransfer(c, e)
  /\ c.state = "Eject" =>
       /\ e.state = "Ejecting" /\ e.waitingForAck = TRUE /\ e.length = WordUnits
       /\ e.mem.req = TRUE /\ e.mem.write = TRUE
  /\ c.state = "Ejecting" /\ ~ c.waitingForAck =>
       /\ e.length = c.length + WordUnits /\ e.waitingForAck = FALSE /\ e.mem.req = FALSE
       /\ IF e.length = LineUnits THEN e.state \in AfterEjects ELSE e.state = "Ejecting"
  /\ c.state \in {"FillForRead", "FillForWrite"} /\ ~ c.waitingForAck =>
       /\ e.state \in Filling /\ e.waitingForAck = TRUE /\ e.length = 0
       /\ e.mem.req = TRUE /\ e.mem.write = FALSE
  /\ c.state \in Filling /\ ~ c.waitingForAck =>
       /\ e.state = c.state /\ e.waitingForAck = FALSE /\ e.length = c.length
       /\ e.mem.req = FALSE
  /\ c.state = "Write" \/ (c.state \in {"Ejecting"} \cup Filling /\ c.waitingForAck) =>
       e.state = c.state /\ SameTransfer(c, e)

\* What a falling edge makes of it, with the acknowledgement of the bus.
FallStep(c, ack, e) ==
  LET waits == c.waitingForAck /\ ~ ack
      fills == c.state \in Filling /\ ~ waits
  IN  /\ e.waitingForAck = waits /\ e.mem.req = waits /\ e.mem.write = c.mem.write
      /\ e.length = IF fills THEN c.length + WordUnits ELSE c.length
      /\ IF fills /\ e.length = LineUnits THEN e.state \in {"Idle", "Write"}
         ELSE e.state = IF c.state = "Write" THEN "Idle" ELSE c.state

\* A request of the CPU is served without a word to the bus.
LEMMA GetRequestStep ==
  ASSUME NEW c, NEW q, NEW v, CacheShape(c), c.state = "Idle"
  PROVE  LET e == GetRequest(c, q, v)
         IN  /\ CacheShape(e) /\ SameTransfer(c, e)
             /\ e.state \in {"Idle", "Eject"} \cup AfterEjects
<1> DEFINE e == GetRequest(c, q, v)
<1>1. CASE ~ q.req BY <1>1 DEF GetRequest, CacheShape, SameTransfer
<1>2. CASE q.req /\ Search(c, q.line) # None
  BY <1>2 DEF GetRequest, CacheShape, SameTransfer
<1>3. CASE q.req /\ Search(c, q.line) = None
  BY <1>3 DEF GetRequest, CacheShape, SameTransfer, AfterEject, AfterEjects
<1> QED BY <1>1, <1>2, <1>3

LEMMA EjectWordStep ==
  ASSUME NEW c, CacheShape(c)
  PROVE  LET e == EjectWord(c)
         IN  /\ CacheShape(e) /\ e.length = c.length + WordUnits
             /\ e.waitingForAck = c.waitingForAck
             /\ e.mem.req = c.mem.req /\ e.mem.write = c.mem.write
             /\ IF e.length = LineUnits THEN e.state \in AfterEjects ELSE e.state = "Ejecting"
BY DEF EjectWord, CacheShape, LineComplete, AfterEject, AfterEjects

LEMMA OnFrontEdgeStep ==
  ASSUME NEW c, NEW q, NEW v, CacheShape(c), Asking(c)
  PROVE  CacheShape(OnFrontEdge(c, q, v)) /\ RiseStep(c, OnFrontEdge(c, q, v))
<1> DEFINE h == [c EXCEPT !.hit = None]
           e == OnFrontEdge(c, q, v)
<1> SUFFICES CacheShape(e) /\ RiseStep(c, e) OBVIOUS
<1>1. CacheShape(h) /\ h.state = c.state /\ SameTransfer(c, h)
  BY DEF CacheShape, SameTransfer
<1>2. CASE c.state = "Idle"
  <2>1. e = GetRequest(h, q, v) BY <1>1, <1>2 DEF OnFrontEdge
  <2> HIDE DEF h, e
  <2> QED BY <1>1, <1>2, <2>1, GetRequestStep DEF RiseStep, SameTransfer, Filling
<1>3. CASE c.state = "Eject"
  <2> DEFINE f == [h EXCEPT !.lineOffset = 0, !.length = 0, !.waitingForAck = TRUE,
                            !.mem.req = TRUE, !.mem.write = TRUE, !.mem.offset = 0,
                            !.mem.line = h.directory[h.bankToReplace].line]
  <2>1. e = EjectWord(f) BY <1>1, <1>3 DEF OnFrontEdge
  <2>2. CacheShape(f) /\ f.length = 0 /\ f.waitingForAck = TRUE
        /\ f.mem.req = TRUE /\ f.mem.write = TRUE
    BY <1>1 DEF CacheShape
  <2> HIDE DEF h, e, f
  <2> QED BY <1>3, <2>1, <2>2, EjectWordStep, CacheAssumption DEF RiseStep, Filling
<1>4. CASE c.state = "Ejecting" /\ ~ c.waitingForAck
  <2> DEFINE f == [h EXCEPT !.mem.req = FALSE]
  <2>1. e = EjectWord(f) BY <1>1, <1>4 DEF OnFrontEdge, SameTransfer
  <2>2. CacheShape(f) /\ f.length = c.length /\ f.waitingForAck = FALSE /\ f.mem.req = FALSE
    BY <1>1, <1>4 DEF CacheShape, SameTransfer, Asking
  <2> HIDE DEF h, e, f
  <2> QED BY <1>4, <2>1, <2>2, EjectWordStep DEF RiseStep, Filling
<1>5. CASE c.state = "FillForRead" \/ (c.state = "FillForWrite" /\ ~ c.waitingForAck)
  BY <1>1, <1>5, ZenonT(60) DEF OnFrontEdge, FillFrom, CacheShape, RiseStep, Filling, SameTransfer
<1>6. CASE c.state \in Filling
  BY <1>1, <1>6 DEF OnFrontEdge, CacheShape, RiseStep, Filling, SameTransfer, Asking
<1>7. CASE \/ c.state = "Write"
           \/ c.state \in {"Ejecting", "FillForWrite"} /\ c.waitingForAck
  BY <1>1, <1>7 DEF OnFrontEdge, CacheShape, RiseStep, Filling, SameTransfer
<1> QED
  BY <1>2, <1>3, <1>4, <1>5, <1>6, <1>7
  DEF Asking, CacheStates, AfterEjects, Filling

\* An idle cache, and a word that is forwarded, change nothing of this.
LEMMA RiseOfCache ==
  ASSUME NEW c, NEW q, NEW v, NEW r, NEW beat, NEW d, NEW s, NEW e,
         CacheShape(c), Asking(c),
         d = OnFrontEdge(c, q, v), s = d \/ s = Async(d, r, v), e = s \/ e = Forward(s, beat)
  PROVE  /\ CacheShape(e) /\ RiseStep(c, e)
         /\ CacheShape(d) /\ d.mem.req = e.mem.req /\ d.mem.write = e.mem.write
<1>1. CacheShape(d) /\ RiseStep(c, d) BY OnFrontEdgeStep
<1>2. /\ CacheShape(s) /\ SameTransfer(d, s)
      /\ IF d.state = "Idle" THEN s.state \in {"Idle", "Eject"} \cup AfterEjects
         ELSE s.state = d.state
  <2>1. CASE s = GetRequest(d, r, v) /\ d.state = "Idle"
    BY <1>1, <2>1, GetRequestStep
  <2>2. CASE s = d
    BY <1>1, <2>2 DEF SameTransfer
  <2> QED BY <2>1, <2>2 DEF Async
<1>3. CacheShape(e) /\ SameTransfer(s, e) /\ e.state = s.state
  BY <1>2 DEF Forward, CacheShape, SameTransfer
<1>4. c.state # "Idle" => d.state # "Idle"
  BY <1>1 DEF RiseStep, Asking, CacheStates, AfterEjects, Filling
<1>5. SameTransfer(d, e) /\ (IF d.state = "Idle" THEN e.state \in {"Idle", "Eject"} \cup AfterEjects
         ELSE e.state = d.state)
  BY <1>2, <1>3 DEF SameTransfer
<1>6. RiseStep(c, e)
  BY <1>1, <1>4, <1>5 DEF RiseStep, SameTransfer, AfterEjects, Filling
<1> QED BY <1>1, <1>3, <1>5, <1>6 DEF SameTransfer

\* What is written into the storage and the directory is no part of this either.
SameControl(c, e) == CacheShape(e) /\ e.state = c.state /\ SameTransfer(c, e)
LEMMA DataIsNoControl ==
  ASSUME NEW c, NEW b, NEW o, NEW d, CacheShape(c)
  PROVE  /\ SameControl(c, Write(c, b, o, d)) /\ SameControl(c, ZeroLine(c, b))
         /\ SameControl(c, ReplaceLine(c))
<1>1. SameControl(c, Write(c, b, o, d)) BY DEF Write, CacheShape, SameTransfer, SameControl
<1>2. SameControl(c, ZeroLine(c, b)) BY DEF ZeroLine, CacheShape, SameTransfer, SameControl
<1>3. SameControl(c, ReplaceLine(c)) BY DEF ReplaceLine, CacheShape, SameTransfer, SameControl
<1> QED BY <1>1, <1>2, <1>3

LEMMA FillWordStep ==
  ASSUME NEW c, NEW beat, CacheShape(c), c.state \in Filling
  PROVE  LET e == FillWord(c, beat)
         IN  /\ CacheShape(e) /\ e.length = c.length + WordUnits
             /\ e.waitingForAck = c.waitingForAck
             /\ e.mem.req = c.mem.req /\ e.mem.write = c.mem.write
             /\ IF e.length = LineUnits THEN e.state \in {"Idle", "Write"}
                ELSE e.state = c.state
<1> DEFINE n == c.length + WordUnits
           d == [c EXCEPT !.storage[c.bankToReplace] = WithUnits(@, c.lineOffset, beat),
                          !.lineOffset = (@ + WordUnits) % LineUnits, !.length = n]
           e == FillWord(c, beat)
<1>1. /\ CacheShape(d) /\ d.length = n /\ d.state = c.state /\ d.waitingForAck = c.waitingForAck
      /\ d.mem = c.mem
  BY DEF CacheShape
<1>2. SameControl(d, ReplaceLine(d)) BY <1>1, DataIsNoControl
<1>3. e = IF ~ LineComplete(n) THEN d
          ELSE IF c.state = "FillingForWrite" THEN [d EXCEPT !.state = "Write"]
          ELSE Idle(ReplaceLine(d))
  BY DEF FillWord
<1> SUFFICES /\ CacheShape(e) /\ e.length = c.length + WordUnits
             /\ e.waitingForAck = c.waitingForAck
             /\ e.mem.req = c.mem.req /\ e.mem.write = c.mem.write
             /\ IF e.length = LineUnits THEN e.state \in {"Idle", "Write"} ELSE e.state = c.state
  OBVIOUS
<1>4. CASE ~ LineComplete(n)
  <2>1. e = d BY <1>3, <1>4
  <2> HIDE DEF d, e
  <2> QED BY <1>1, <1>4, <2>1 DEF LineComplete
<1>5. CASE LineComplete(n) /\ c.state = "FillingForWrite"
  <2>1. e = [d EXCEPT !.state = "Write"] BY <1>3, <1>5
  <2> HIDE DEF d, e
  <2> QED BY <1>1, <1>5, <2>1 DEF LineComplete, CacheShape
<1>6. CASE LineComplete(n) /\ c.state # "FillingForWrite"
  <2>1. e = Idle(ReplaceLine(d)) BY <1>3, <1>6
  <2> HIDE DEF d, e
  <2> QED BY <1>1, <1>2, <1>6, <2>1
    DEF LineComplete, CacheShape, Idle, SameControl, SameTransfer
<1> QED BY <1>4, <1>5, <1>6

\* The falling edge.
LEMMA FallOfCache ==
  ASSUME NEW c, NEW q, NEW ack \in BOOLEAN, NEW beat, CacheShape(c), Asking(c)
  PROVE  LET e == OnFallingEdge(c, q, ack, beat)
         IN  CacheShape(e) /\ FallStep(c, ack, e)
<1> DEFINE a == IF Acknowledged(c, ack)
                THEN [c EXCEPT !.waitingForAck = FALSE, !.mem.req = FALSE] ELSE c
           b == a.bankToReplace
           d == CASE a.state \in {"FillingForWrite", "FillingForRead"} /\ ~ a.waitingForAck ->
                       FillWord(a, beat)
                  [] a.state = "Write" ->
                       Idle(IF a.request.zero THEN ZeroLine(ReplaceLine(a), b)
                            ELSE Write(ReplaceLine(a), b, a.request.offset, q.data))
                  [] OTHER -> a
           e == IF ~ (q.req /\ q.write /\ a.hit # None) THEN d
                ELSE IF q.zero THEN ZeroLine(d, d.hit) ELSE Write(d, d.hit, q.offset, q.data)
<1>1. /\ CacheShape(a) /\ a.state = c.state /\ a.length = c.length /\ a.mem.write = c.mem.write
      /\ a.waitingForAck = (c.waitingForAck /\ ~ ack)
      /\ a.mem.req = (c.waitingForAck /\ ~ ack)
  BY DEF CacheShape, Asking, Acknowledged
<1>2. OnFallingEdge(c, q, ack, beat) = [e EXCEPT !.ack = FALSE] BY DEF OnFallingEdge
<1>3. CacheShape(d) /\ FallStep(a, FALSE, d)
  <2> HIDE DEF a
  <2>1. CASE a.state \in Filling /\ ~ a.waitingForAck
    <3>1. d = FillWord(a, beat) BY <2>1 DEF Filling
    <3> HIDE DEF d
    <3> QED BY <1>1, <2>1, <3>1, FillWordStep DEF FallStep, Filling
  <2>2. CASE a.state = "Write"
    <3>1. PICK w : d = Idle(w) /\ SameControl(a, w)
      <4>1. SameControl(a, ReplaceLine(a)) BY <1>1, DataIsNoControl
      <4>2. /\ SameControl(ReplaceLine(a), ZeroLine(ReplaceLine(a), b))
            /\ SameControl(ReplaceLine(a),
                           Write(ReplaceLine(a), b, a.request.offset, q.data))
        BY <4>1, DataIsNoControl DEF SameControl
      <4>3. d = Idle(IF a.request.zero THEN ZeroLine(ReplaceLine(a), b)
                     ELSE Write(ReplaceLine(a), b, a.request.offset, q.data))
        BY <2>2
      <4> HIDE DEF d, b
      <4> QED BY <4>1, <4>2, <4>3 DEF SameControl, SameTransfer
    <3> HIDE DEF d
    <3> QED BY <1>1, <2>2, <3>1
      DEF Idle, SameControl, SameTransfer, CacheShape, FallStep, Filling
  <2>3. CASE ~ (a.state \in Filling /\ ~ a.waitingForAck) /\ a.state # "Write"
    <3>1. d = a BY <2>3 DEF Filling
    <3> HIDE DEF d
    <3> QED BY <1>1, <2>3, <3>1 DEF FallStep, Filling
  <2> QED BY <2>1, <2>2, <2>3
<1> HIDE DEF a, d
<1>4. SameControl(d, e) BY <1>3, DataIsNoControl DEF SameControl, SameTransfer
<1> HIDE DEF e
<1>5. FallStep(c, ack, e) BY <1>1, <1>3, <1>4 DEF FallStep, SameControl, SameTransfer
<1> QED BY <1>2, <1>4, <1>5 DEF SameControl, CacheShape, FallStep

\* What the bus makes of the transfers that the caches ask for, on no edge and on both.
SameAcks(b, e) == e.dAck = b.dAck /\ e.iAck = b.iAck
Starts(b, d, i, e) ==
  IF i.req THEN e.state = "InstructionLatency" /\ e.length = 0
  ELSE IF d.req /\ d.write THEN e.state = "WriteLatency" /\ e.length = 0
  ELSE IF d.req THEN e.state = "ReadLatency" /\ e.length = 0
  ELSE e.state = b.state /\ e.length = b.length
Counts(b, next, e) ==
  /\ e.length = b.length + WordUnits
  /\ e.state = IF e.length = LineUnits THEN "Idle" ELSE next
BusRiseStep(b, d, i, e) ==
  /\ b.state = "Idle" => Starts(b, d, i, e) /\ e.dAck = FALSE /\ e.iAck = b.iAck
  /\ b.state = "WriteLatency" =>
       /\ e.length = b.length /\ e.iAck = b.iAck
       /\ \/ e.state = "Writing" /\ e.dAck = TRUE
          \/ e.state = "WriteLatency" /\ e.dAck = b.dAck
  /\ b.state = "Writing" =>
       /\ e.state = b.state /\ e.length = b.length /\ e.dAck = FALSE /\ e.iAck = b.iAck
  /\ b.state = "ReadLatency" =>
       \/ Counts(b, "Reading", e) /\ e.dAck = TRUE /\ e.iAck = b.iAck
       \/ e.state = b.state /\ e.length = b.length /\ SameAcks(b, e)
  /\ b.state = "Reading" => Counts(b, "Reading", e) /\ e.dAck = FALSE /\ e.iAck = b.iAck
  /\ b.state = "InstructionLatency" =>
       \/ Counts(b, "Fetching", e) /\ e.iAck = TRUE /\ e.dAck = b.dAck
       \/ e.state = b.state /\ e.length = b.length /\ SameAcks(b, e)
  /\ b.state = "Fetching" => Counts(b, "Fetching", e) /\ e.iAck = FALSE /\ e.dAck = b.dAck

LEMMA BusGetRequestStep ==
  ASSUME NEW b, NEW d, NEW i, BusShape(b)
  PROVE  LET e == BusGetRequest(b, d, i)
         IN  BusShape(e) /\ SameAcks(b, e) /\ Starts(b, d, i, e)
<1>1. CASE i.req BY <1>1 DEF BusGetRequest, Started, BusShape, SameAcks, Starts
<1>2. CASE ~ i.req /\ d.req /\ d.write
  BY <1>2 DEF BusGetRequest, Started, BusShape, SameAcks, Starts
<1>3. CASE ~ i.req /\ d.req /\ ~ d.write
  BY <1>3 DEF BusGetRequest, Started, BusShape, SameAcks, Starts
<1>4. CASE ~ i.req /\ ~ d.req
  BY <1>4 DEF BusGetRequest, Started, BusShape, SameAcks, Starts
<1> QED BY <1>1, <1>2, <1>3, <1>4

LEMMA BusAsyncStep ==
  ASSUME NEW b, NEW d, NEW i, NEW e, BusShape(b), e = b \/ e = BusAsync(b, d, i)
  PROVE  /\ BusShape(e) /\ SameAcks(b, e)
         /\ \/ e.state = b.state /\ e.length = b.length
            \/ b.state = "Idle" /\ Starts(b, d, i, e)
BY BusGetRequestStep DEF BusAsync, SameAcks

LEMMA BusOnFrontEdgeStep ==
  ASSUME NEW b, NEW d, NEW i, NEW s, BusShape(b), b.state \in BusStates
  PROVE  LET e == BusOnFrontEdge(b, d, i, s)
         IN  BusShape(e) /\ BusRiseStep(b, d, i, e)
<1> DEFINE e == BusOnFrontEdge(b, d, i, s)
<1> SUFFICES BusShape(e) /\ BusRiseStep(b, d, i, e) OBVIOUS
<1>1. CASE b.state = "Idle"
  <2>1. e = [BusGetRequest(b, d, i) EXCEPT !.dAck = FALSE] BY <1>1 DEF BusOnFrontEdge
  <2> HIDE DEF e
  <2> QED BY <1>1, <2>1, BusGetRequestStep DEF BusShape, SameAcks, Starts, BusRiseStep
<1>2. CASE b.state \in {"WriteLatency", "Writing"}
  BY <1>2 DEF BusOnFrontEdge, BusShape, BusRiseStep
<1>3. CASE b.state \in {"ReadLatency", "Reading"}
  BY <1>3 DEF BusOnFrontEdge, ReadWord, Advanced, LineComplete, BusShape, BusRiseStep, Counts,
    SameAcks
<1>4. CASE b.state \in {"InstructionLatency", "Fetching"}
  BY <1>4 DEF BusOnFrontEdge, FetchWord, Advanced, LineComplete, BusShape, BusRiseStep, Counts,
    SameAcks
<1> QED BY <1>1, <1>2, <1>3, <1>4 DEF BusStates

LEMMA BusOnFallingEdgeStep ==
  ASSUME NEW b, BusShape(b)
  PROVE  LET e == BusOnFallingEdge(b)
         IN  /\ BusShape(e) /\ e.iAck = b.iAck
             /\ IF b.state = "Writing" THEN Counts(b, "Writing", e) /\ e.dAck = FALSE
                ELSE e.state = b.state /\ e.length = b.length /\ e.dAck = b.dAck
BY DEF BusOnFallingEdge, Advanced, LineComplete, BusShape, Counts

\* The replacement policy chooses a bank.
LEMMA VictimIsBank ==
  ASSUME NEW c, NEW v \in Victims(c)
  PROVE  v \in Banks
<1> DEFINE Free == {b \in Banks : c.directory[b].line = None}
<1>1. CASE Search(c, None) = None BY <1>1 DEF Victims
<1>2. CASE Search(c, None) # None
  <2>1. v = Search(c, None) /\ Free # {} BY <1>2 DEF Victims, Search
  <2> DEFINE less == OpToRel(<, Nat)
  <2>2. \A m, n \in Nat : <<m, n>> \in less <=> m < n BY DEF OpToRel
  <2>3. IsWellFoundedOn(less, Nat) BY NatLessThanWellFounded
  <2>4. Free \subseteq Nat BY CacheAssumption DEF Banks
  <2> HIDE DEF less, Free
  <2>5. PICK b \in Free : \A d \in Free : ~ (<<d, b>> \in less) BY <2>1, <2>3, <2>4, WFMin
  <2>6. b \in Banks /\ c.directory[b].line = None /\ b \in Nat BY <2>4, <2>5 DEF Free
  <2>7. ASSUME NEW d \in 1 .. b - 1 PROVE c.directory[d].line # None
    <3>1. d \in Nat /\ d < b /\ d \in Banks BY <2>6, CacheAssumption DEF Banks
    <3>2. d \notin Free BY <2>2, <2>5, <2>6, <3>1
    <3> QED BY <3>1, <3>2 DEF Free
  <2>8. \E x \in Banks : /\ c.directory[x].line = None
                         /\ \A d \in 1 .. x - 1 : c.directory[d].line # None
    BY <2>6, <2>7
  <2>9. v = CHOOSE x \in Banks : /\ c.directory[x].line = None
                                /\ \A d \in 1 .. x - 1 : c.directory[d].line # None
    BY <2>1, <2>6 DEF Search
  <2> QED BY <2>8, <2>9
<1> QED BY <1>1, <1>2

\* A clean cache that is only read from stays so.
LEMMA GetRequestReads ==
  ASSUME NEW c, NEW q, NEW v \in Banks, CacheShape(c), ReadOnly(c), c.state = "Idle",
         q.write = FALSE
  PROVE  ReadOnly(GetRequest(c, q, v))
<1>1. ~ IsDirty(c, v) BY DEF IsDirty, ReadOnly
<1> QED BY <1>1 DEF GetRequest, AfterEject, CacheShape, ReadOnly

LEMMA RiseReads ==
  ASSUME NEW c, NEW q, NEW v \in Banks, NEW r, NEW beat, NEW d, NEW s, NEW e,
         CacheShape(c), Asking(c), ReadOnly(c), q.write = FALSE, r.write = FALSE,
         d = OnFrontEdge(c, q, v), s = d \/ s = Async(d, r, v), e = s \/ e = Forward(s, beat)
  PROVE  ReadOnly(e)
<1> DEFINE h == [c EXCEPT !.hit = None]
<1>1. CacheShape(h) /\ ReadOnly(h) /\ h.state = c.state BY DEF CacheShape, ReadOnly
<1>2. CacheShape(d) BY OnFrontEdgeStep
<1>3. ReadOnly(d)
  <2>1. CASE c.state = "Idle"
    <3>1. d = GetRequest(h, q, v) BY <1>1, <2>1 DEF OnFrontEdge
    <3> HIDE DEF h
    <3> QED BY <1>1, <2>1, <3>1, GetRequestReads
  <2>2. CASE c.state \in {"FillForRead", "FillingForRead"}
    BY <1>1, <2>2 DEF OnFrontEdge, FillFrom, CacheShape, ReadOnly
  <2> QED BY <2>1, <2>2 DEF ReadOnly
<1>4. CacheShape(s) /\ ReadOnly(s)
  <2>1. CASE s = GetRequest(d, r, v) /\ d.state = "Idle"
    BY <1>2, <1>3, <2>1, GetRequestStep, GetRequestReads
  <2>2. CASE s = d BY <1>2, <1>3, <2>2
  <2> QED BY <2>1, <2>2 DEF Async
<1> QED BY <1>4 DEF Forward, CacheShape, ReadOnly

LEMMA FallReads ==
  ASSUME NEW c, NEW q, NEW ack, NEW beat, CacheShape(c), ReadOnly(c), q.write = FALSE
  PROVE  ReadOnly(OnFallingEdge(c, q, ack, beat))
<1> DEFINE a == IF Acknowledged(c, ack)
                THEN [c EXCEPT !.waitingForAck = FALSE, !.mem.req = FALSE] ELSE c
           n == a.length + WordUnits
           w == [a EXCEPT !.storage[a.bankToReplace] = WithUnits(@, a.lineOffset, beat),
                          !.lineOffset = (@ + WordUnits) % LineUnits, !.length = n]
           d == IF a.state = "FillingForRead" /\ ~ a.waitingForAck
                THEN IF LineComplete(n) THEN Idle(ReplaceLine(w)) ELSE w
                ELSE a
<1>1. CacheShape(a) /\ ReadOnly(a) BY DEF CacheShape, ReadOnly
<1>2. CacheShape(w) /\ ReadOnly(w)
  <2> HIDE DEF a
  <2> QED BY <1>1 DEF CacheShape, ReadOnly
<1>3. CacheShape(ReplaceLine(w)) /\ ReadOnly(ReplaceLine(w))
  <2> HIDE DEF w
  <2> QED BY <1>2 DEF ReplaceLine, CacheShape, ReadOnly
<1>4. OnFallingEdge(c, q, ack, beat) = [d EXCEPT !.ack = FALSE]
  <2>1. FillWord(a, beat) = IF ~ LineComplete(n) THEN w
                           ELSE IF a.state = "FillingForWrite" THEN [w EXCEPT !.state = "Write"]
                           ELSE Idle(ReplaceLine(w))
    BY DEF FillWord
  <2>2. OnFallingEdge(c, q, ack, beat) =
          [(CASE a.state \in {"FillingForWrite", "FillingForRead"} /\ ~ a.waitingForAck ->
                   FillWord(a, beat)
              [] a.state = "Write" ->
                   Idle(IF a.request.zero THEN ZeroLine(ReplaceLine(a), a.bankToReplace)
                        ELSE Write(ReplaceLine(a), a.bankToReplace, a.request.offset, q.data))
              [] OTHER -> a) EXCEPT !.ack = FALSE]
    BY DEF OnFallingEdge
  <2> HIDE DEF a, w, n
  <2>3. CASE a.state = "FillingForRead" /\ ~ a.waitingForAck
    <3>1. OnFallingEdge(c, q, ack, beat) = [FillWord(a, beat) EXCEPT !.ack = FALSE]
      BY <2>2, <2>3
    <3>2. FillWord(a, beat) = d BY <2>1, <2>3
    <3> QED BY <3>1, <3>2
  <2>4. CASE ~ (a.state = "FillingForRead" /\ ~ a.waitingForAck)
    <3>1. OnFallingEdge(c, q, ack, beat) = [a EXCEPT !.ack = FALSE]
      BY <1>1, <2>2, <2>4 DEF ReadOnly
    <3>2. d = a BY <2>4
    <3> QED BY <3>1, <3>2
  <2> QED BY <2>3, <2>4
<1> HIDE DEF a, w
<1> QED BY <1>1, <1>2, <1>3, <1>4 DEF Idle, CacheShape, ReadOnly

\* The bus is idle or begins to serve a cache that waits.
Begins(b, d, i) ==
  \/ b.state = "Idle"
  \/ b.state = "InstructionLatency" /\ b.length = 0 /\ i.waitingForAck
  \/ b.state = "WriteLatency" /\ b.length = 0 /\ d.waitingForAck /\ d.state = "Ejecting"
  \/ b.state = "ReadLatency" /\ b.length = 0 /\ d.waitingForAck /\ d.state \in Filling

\* What of it the bus depends on: a cache that waits goes on waiting, one that does not
\* counts the word that it ejects, and nothing starts or ends a line but these.
CountStep(c, e) ==
  /\ e.state \in Filling /\ ~ e.waitingForAck <=> c.state \in Filling /\ ~ c.waitingForAck
  /\ c.state \in Filling /\ ~ c.waitingForAck => e.state = c.state /\ e.length = c.length
  /\ c.waitingForAck => e.waitingForAck /\ e.state = c.state /\ e.length = c.length
  /\ c.state = "Ejecting" /\ ~ c.waitingForAck =>
       /\ ~ e.waitingForAck /\ e.length = c.length + WordUnits
       /\ IF e.length = LineUnits THEN e.state \in AfterEjects ELSE e.state = "Ejecting"
  /\ e.state = "Ejecting" /\ ~ e.waitingForAck => c.state = "Ejecting" /\ ~ c.waitingForAck
LEMMA RiseCounts ==
  ASSUME NEW c, NEW e, Asking(c), RiseStep(c, e)
  PROVE  CountStep(c, e)
BY DEF Asking, RiseStep, CountStep, SameTransfer, CacheStates, AfterEjects, Filling

\* No request for instructions writes.
LEMMA FetchReads ==
  ASSUME fetch.write = FALSE, FetchRequest
  PROVE  fetch'.write = FALSE
BY FetchAssumption DEF FetchRequest

\* A rising edge: from between two words into the middle of one.
LEMMA RiseIInv ==
  ASSUME IInv, Rise
  PROVE  IInv'
<1> USE DEF Rise
<1>1. phase = "rise" /\ phase' = "fall" /\ BetweenWords(bus, dcache, icache) BY DEF IInv
<1>2. PICK v \in Victims(dcache), w \in Victims(icache) :
       LET d == OnFrontEdge(dcache, cpu, v)
           i == OnFrontEdge(icache, fetch, w)
           b == BusOnFrontEdge(bus, dcache.mem, icache.mem, storage)
           dServed == IF cpu' # cpu THEN Async(d, cpu', v) ELSE d
           iServed == IF fetch' # fetch THEN Async(i, fetch', w) ELSE i
       IN  /\ dcache' = IF SendsData(bus) THEN Forward(dServed, b.dData) ELSE dServed
           /\ icache' = IF SendsInstructions(bus) THEN Forward(iServed, b.iData) ELSE iServed
           /\ bus' = IF BusWakes(d, i) THEN BusAsync(b, d.mem, i.mem) ELSE b
  OBVIOUS
<1> DEFINE d == OnFrontEdge(dcache, cpu, v)
           i == OnFrontEdge(icache, fetch, w)
           b == BusOnFrontEdge(bus, dcache.mem, icache.mem, storage)
           dServed == IF cpu' # cpu THEN Async(d, cpu', v) ELSE d
           iServed == IF fetch' # fetch THEN Async(i, fetch', w) ELSE i
<1>3. /\ CacheShape(dcache') /\ RiseStep(dcache, dcache')
      /\ d.mem.req = dcache'.mem.req /\ d.mem.write = dcache'.mem.write
  <2>1. dServed = d \/ dServed = Async(d, cpu', v) OBVIOUS
  <2>2. dcache' = dServed \/ dcache' = Forward(dServed, b.dData) BY <1>2
  <2> HIDE DEF b, dServed
  <2> QED BY <2>1, <2>2, RiseOfCache DEF IInv
<1>4. /\ CacheShape(icache') /\ RiseStep(icache, icache') /\ ReadOnly(icache')
      /\ i.mem.req = icache'.mem.req
  <2>1. iServed = i \/ iServed = Async(i, fetch', w) OBVIOUS
  <2>2. icache' = iServed \/ icache' = Forward(iServed, b.iData) BY <1>2
  <2>3. fetch.write = FALSE /\ fetch'.write = FALSE /\ w \in Banks
    BY FetchReads, VictimIsBank DEF IInv
  <2>4. CacheShape(icache) /\ Asking(icache) /\ ReadOnly(icache) BY DEF IInv
  <2>5. i = OnFrontEdge(icache, fetch, w) OBVIOUS
  <2> HIDE DEF b, i, iServed
  <2>6. ReadOnly(icache') BY <2>1, <2>2, <2>3, <2>4, <2>5, RiseReads
  <2> QED BY <2>1, <2>2, <2>4, <2>5, <2>6, RiseOfCache
<1>5. BusShape(b) /\ BusRiseStep(bus, dcache.mem, icache.mem, b)
  BY BusOnFrontEdgeStep DEF IInv, Serving
<1>6. /\ BusShape(bus') /\ SameAcks(b, bus')
      /\ \/ bus'.state = b.state /\ bus'.length = b.length
         \/ b.state = "Idle" /\ Starts(b, d.mem, i.mem, bus')
  <2>1. bus' = b \/ bus' = BusAsync(b, d.mem, i.mem) BY <1>2
  <2> HIDE DEF b, d, i
  <2> QED BY <1>5, <2>1, BusAsyncStep
<1> HIDE DEF d, i, b, dServed, iServed
<1> USE DEF Filling, AfterEjects
<1>7. Asking(dcache') /\ Asking(icache')
  BY <1>3, <1>4 DEF IInv, Asking, RiseStep, SameTransfer, CacheStates
<1>8. /\ Asking(dcache) /\ Asking(icache) /\ Serving(bus, dcache, icache)
      /\ {icache.state, icache'.state} \subseteq {"Idle", "FillForRead", "FillingForRead"}
      /\ LineUnits \in Nat /\ WordUnits \in Nat /\ LineUnits # WordUnits
  BY <1>4, CacheAssumption DEF IInv, ReadOnly
<1>9. CountStep(dcache, dcache') /\ CountStep(icache, icache')
  BY <1>3, <1>4, <1>8, RiseCounts DEF ReadOnly, CacheStates
<1>11. Serving(bus', dcache', icache') /\ DuringWord(bus', dcache', icache')
  <2>0. /\ bus.state \in BusStates /\ bus.dAck \in BOOLEAN /\ bus.iAck \in BOOLEAN
        /\ dcache'.waitingForAck \in BOOLEAN /\ icache'.waitingForAck \in BOOLEAN
    BY <1>7, <1>8 DEF Serving, Asking
  <2>1. CASE bus.state = "Idle"
    <3>1. /\ bus'.dAck = FALSE /\ bus'.iAck = FALSE
          /\ Begins(bus', dcache', icache')
      <4>1. \/ dcache.waitingForAck = FALSE
            \/ dcache'.waitingForAck /\ dcache.mem.req = TRUE /\ dcache'.state = dcache.state
        BY <1>8, <1>9 DEF Asking, CountStep
      <4>2. \/ icache.waitingForAck = FALSE
            \/ icache'.waitingForAck /\ icache.mem.req = TRUE
        BY <1>8, <1>9 DEF Asking, CountStep
      <4>3. bus.iAck = FALSE BY <1>1, <2>0, <2>1 DEF BetweenWords
      <4>4. CASE \/ /\ b.state = "Idle"
                   /\ bus'.state = "Idle"
                \/ /\ b.state # "Idle"
                   /\ bus'.state = b.state
                   /\ bus'.length = b.length
        <5>1. Starts(bus, dcache.mem, icache.mem, b) /\ b.dAck = FALSE /\ b.iAck = bus.iAck
          BY <1>5, <2>1 DEF BusRiseStep
        <5>2. bus'.dAck = FALSE /\ bus'.iAck = FALSE BY <1>6, <4>3, <5>1 DEF SameAcks
        <5> QED BY <1>8, <2>1, <4>1, <4>2, <4>4, <5>1, <5>2 DEF Starts, Asking, Begins
      <4>5. CASE b.state = "Idle" /\ Starts(b, d.mem, i.mem, bus')
        <5>1. bus'.dAck = FALSE /\ bus'.iAck = FALSE
          BY <1>5, <1>6, <2>1, <4>3 DEF SameAcks, BusRiseStep
        <5> QED BY <1>3, <1>4, <1>7, <4>5, <5>1 DEF Starts, Asking, Begins
      <4> QED BY <1>6, <4>4, <4>5
    <3>2. /\ ~ (dcache.state \in Filling \cup {"Ejecting"} /\ ~ dcache.waitingForAck)
          /\ ~ (icache.state \in Filling /\ ~ icache.waitingForAck)
      BY <1>1, <2>1 DEF BetweenWords
    <3> QED BY <1>9, <3>1, <3>2 DEF Serving, DuringWord, FillDuringWord, EjectDuringWord,
          CountStep, BusStates, Begins
  <2>2. CASE bus.state # "Idle"
    <3>1. SameAcks(b, bus') /\ b.state \in BusStates
      BY <1>5, <1>6, <2>0, <2>2 DEF BusRiseStep, Counts, BusStates
    <3>2. \/ bus'.state = b.state /\ bus'.length = b.length /\ b.state # "Idle"
          \/ b.state = "Idle" /\ Begins(bus', dcache', icache')
      BY <1>3, <1>4, <1>6, <1>7 DEF Starts, Asking, Begins
    <3>3. CASE bus.state \in {"ReadLatency", "Reading"}
      <4>1. /\ bus.iAck = FALSE /\ b.iAck = FALSE
            /\ ~ (dcache.state = "Ejecting" /\ ~ dcache.waitingForAck)
            /\ ~ (icache.state \in Filling /\ ~ icache.waitingForAck)
        BY <1>1, <1>5, <2>0, <3>3 DEF BetweenWords, BusRiseStep, Counts, SameAcks
      <4>2. CASE bus.state = "ReadLatency"
        <5>1. /\ bus.length = 0 /\ bus.dAck = FALSE
              /\ dcache.waitingForAck /\ dcache.state \in Filling /\ dcache.length = 0
          BY <1>1, <1>8, <2>0, <4>2 DEF Serving, BetweenWords, Asking
        <5>2. \/ b.state = "Reading" /\ b.length = WordUnits /\ b.dAck = TRUE
              \/ b.state = "ReadLatency" /\ b.length = 0 /\ b.dAck = FALSE
          BY <1>5, <1>8, <4>2, <5>1 DEF BusRiseStep, Counts, SameAcks
        <5> USE DEF CountStep, Serving, DuringWord, FillDuringWord, EjectDuringWord, SameAcks,
                    BusStates
        <5>3. CASE b.state = "Reading"
          <6>1. /\ bus'.state = "Reading" /\ bus'.dAck = TRUE /\ bus'.iAck = FALSE
                /\ bus'.length = WordUnits /\ bus'.length # LineUnits
            BY <1>8, <3>1, <3>2, <4>1, <5>2, <5>3
          <6>2. /\ dcache'.state \in Filling /\ dcache'.waitingForAck = TRUE
                /\ bus'.length = dcache'.length + WordUnits
            BY <1>8, <1>9, <2>0, <5>1, <6>1
          <6> QED BY <1>9, <4>1, <5>1, <6>1, <6>2
        <5>4. CASE b.state = "ReadLatency"
          BY <1>8, <1>9, <2>0, <3>1, <3>2, <4>1, <5>1, <5>2, <5>4
        <5> QED BY <5>2, <5>3, <5>4
      <4>3. CASE bus.state = "Reading"
        <5>1. dcache.state \in Filling /\ ~ dcache.waitingForAck /\ dcache.length = bus.length
          BY <1>1, <4>3 DEF BetweenWords
        <5>2. b.dAck = FALSE /\ Counts(bus, "Reading", b) BY <1>5, <4>3 DEF BusRiseStep
        <5> QED BY <1>9, <2>0, <3>1, <3>2, <4>1, <5>1, <5>2
          DEF CountStep, Serving, DuringWord, FillDuringWord, EjectDuringWord, SameAcks, BusStates,
              Counts, Begins
      <4> QED BY <3>3, <4>2, <4>3
    <3>4. CASE bus.state \in {"InstructionLatency", "Fetching"}
      <4>1. /\ bus.dAck = FALSE /\ b.dAck = FALSE
            /\ ~ (dcache.state \in Filling \cup {"Ejecting"} /\ ~ dcache.waitingForAck)
        BY <1>1, <1>5, <2>0, <3>4 DEF BetweenWords, BusRiseStep, Counts, SameAcks
      <4>2. CASE bus.state = "InstructionLatency"
        <5>1. /\ bus.length = 0 /\ bus.iAck = FALSE
              /\ icache.waitingForAck /\ icache.state \in Filling /\ icache.length = 0
          BY <1>1, <1>8, <2>0, <4>2 DEF Serving, BetweenWords, Asking
        <5>2. \/ b.state = "Fetching" /\ b.length = WordUnits /\ b.iAck = TRUE
              \/ b.state = "InstructionLatency" /\ b.length = 0 /\ b.iAck = FALSE
          BY <1>5, <1>8, <4>2, <5>1 DEF BusRiseStep, Counts, SameAcks
        <5> USE DEF CountStep, Serving, DuringWord, FillDuringWord, EjectDuringWord, SameAcks,
                    BusStates
        <5>3. CASE b.state = "Fetching"
          <6>1. /\ bus'.state = "Fetching" /\ bus'.iAck = TRUE /\ bus'.dAck = FALSE
                /\ bus'.length = WordUnits /\ bus'.length # LineUnits
            BY <1>8, <3>1, <3>2, <4>1, <5>2, <5>3
          <6>2. /\ icache'.state \in Filling /\ icache'.waitingForAck = TRUE
                /\ bus'.length = icache'.length + WordUnits
            BY <1>8, <1>9, <2>0, <5>1, <6>1
          <6> QED BY <1>9, <4>1, <5>1, <6>1, <6>2
        <5>4. CASE b.state = "InstructionLatency"
          BY <1>8, <1>9, <2>0, <3>1, <3>2, <4>1, <5>1, <5>2, <5>4
        <5> QED BY <5>2, <5>3, <5>4
      <4>3. CASE bus.state = "Fetching"
        <5>1. icache.state \in Filling /\ ~ icache.waitingForAck /\ icache.length = bus.length
          BY <1>1, <4>3 DEF BetweenWords
        <5>2. b.iAck = FALSE /\ Counts(bus, "Fetching", b) BY <1>5, <4>3 DEF BusRiseStep
        <5> QED BY <1>9, <2>0, <3>1, <3>2, <4>1, <5>1, <5>2
          DEF CountStep, Serving, DuringWord, FillDuringWord, EjectDuringWord, SameAcks, BusStates,
              Counts, Begins
      <4> QED BY <3>4, <4>2, <4>3
    <3>5. CASE bus.state \in {"WriteLatency", "Writing"}
      <4>1. /\ bus.iAck = FALSE /\ b.iAck = FALSE /\ bus.dAck = FALSE /\ b.state # "Idle"
            /\ ~ (dcache.state \in Filling /\ ~ dcache.waitingForAck)
            /\ ~ (icache.state \in Filling /\ ~ icache.waitingForAck)
        BY <1>1, <1>5, <2>0, <3>5 DEF BetweenWords, BusRiseStep
      <4>2. CASE bus.state = "WriteLatency"
        <5>1. bus.length = 0 /\ dcache.waitingForAck /\ dcache.state = "Ejecting"
          BY <1>8, <4>2 DEF Serving
        <5>2. \/ b.state = "Writing" /\ b.length = 0 /\ b.dAck = TRUE
              \/ b.state = "WriteLatency" /\ b.length = 0 /\ b.dAck = FALSE
          BY <1>5, <4>1, <4>2, <5>1 DEF BusRiseStep
        <5> USE DEF CountStep, Serving, DuringWord, FillDuringWord, EjectDuringWord, SameAcks,
                    BusStates, Filling
        <5>3. CASE b.state = "Writing"
          BY <1>8, <1>9, <2>0, <3>1, <3>2, <4>1, <5>1, <5>2, <5>3
        <5>4. CASE b.state = "WriteLatency"
          BY <1>8, <1>9, <2>0, <3>1, <3>2, <4>1, <5>1, <5>2, <5>4
        <5> QED BY <5>2, <5>3, <5>4
      <4>3. CASE bus.state = "Writing"
        <5>1. dcache.state = "Ejecting" /\ ~ dcache.waitingForAck /\ dcache.length = bus.length
          BY <1>1, <4>3 DEF BetweenWords
        <5>2. b.state = "Writing" /\ b.length = bus.length /\ b.dAck = FALSE
          BY <1>5, <4>3 DEF BusRiseStep
        <5> QED BY <1>9, <2>0, <3>1, <3>2, <4>1, <5>1, <5>2
          DEF CountStep, Serving, DuringWord, FillDuringWord, EjectDuringWord, SameAcks, BusStates,
              Filling
      <4> QED BY <3>5, <4>2, <4>3
    <3> QED BY <2>0, <2>2, <3>3, <3>4, <3>5 DEF BusStates
  <2> QED BY <2>1, <2>2
<1>10. fetch'.write = FALSE BY FetchReads DEF IInv
<1> QED BY <1>1, <1>3, <1>4, <1>6, <1>7, <1>10, <1>11 DEF IInv

\* A falling edge: the word is complete.
LEMMA FallIInv ==
  ASSUME IInv, Fall
  PROVE  IInv'
<1> USE DEF Fall
<1>1. phase = "fall" /\ phase' = "rise" /\ DuringWord(bus, dcache, icache) BY DEF IInv
<1>2. /\ bus.state \in BusStates /\ bus.dAck \in BOOLEAN /\ bus.iAck \in BOOLEAN
      /\ Serving(bus, dcache, icache) /\ Asking(dcache) /\ Asking(icache)
      /\ LineUnits \in Nat /\ WordUnits \in Nat /\ LineUnits # WordUnits
  BY CacheAssumption DEF IInv, Serving
<1>3. /\ CacheShape(dcache') /\ FallStep(dcache, bus.dAck, dcache')
      /\ CacheShape(icache') /\ FallStep(icache, bus.iAck, icache')
  BY <1>2, FallOfCache DEF IInv
<1>4. ReadOnly(icache') /\ fetch'.write = FALSE BY FallReads DEF IInv, NoRequest
<1> DEFINE b == BusOnFallingEdge(bus)
<1>5. /\ BusShape(b) /\ b.iAck = bus.iAck
      /\ IF bus.state = "Writing" THEN Counts(bus, "Writing", b) /\ b.dAck = FALSE
         ELSE b.state = bus.state /\ b.length = bus.length /\ b.dAck = bus.dAck
  BY BusOnFallingEdgeStep DEF IInv
<1>6. /\ BusShape(bus') /\ SameAcks(b, bus')
      /\ \/ bus'.state = b.state /\ bus'.length = b.length
         \/ b.state = "Idle" /\ Starts(b, dcache'.mem, icache'.mem, bus')
  <2>1. bus' = b \/ bus' = BusAsync(b, dcache'.mem, icache'.mem) OBVIOUS
  <2> HIDE DEF b
  <2> QED BY <1>5, <2>1, BusAsyncStep
<1> HIDE DEF b
<1> USE DEF Filling, AfterEjects
<1>7. Asking(dcache') /\ Asking(icache')
  BY <1>2, <1>3 DEF Asking, FallStep, CacheStates
<1>8. /\ bus'.dAck = b.dAck /\ bus'.iAck = bus.iAck
      /\ \/ bus'.state = b.state /\ bus'.length = b.length /\ b.state # "Idle"
         \/ b.state = "Idle" /\ Begins(bus', dcache', icache')
  <2>1. bus'.dAck = b.dAck /\ bus'.iAck = bus.iAck BY <1>5, <1>6 DEF SameAcks
  <2>2. CASE bus'.state = b.state /\ bus'.length = b.length BY <2>1, <2>2 DEF Begins
  <2>3. CASE b.state = "Idle" /\ Starts(b, dcache'.mem, icache'.mem, bus')
    BY <1>7, <2>1, <2>3 DEF Starts, Asking, Begins
  <2> QED BY <1>6, <2>1, <2>2, <2>3
<1>9. {icache.state, icache'.state} \subseteq {"Idle", "FillForRead", "FillingForRead"}
  BY <1>4 DEF IInv, ReadOnly
<1>10. Serving(bus', dcache', icache') /\ BetweenWords(bus', dcache', icache')
  <2> USE DEF FallStep, Serving, BetweenWords, DuringWord, FillDuringWord, EjectDuringWord,
              Begins, Asking
  <2>1. CASE bus.state = "Idle"
    <3>1. /\ bus.dAck = FALSE /\ bus.iAck = FALSE /\ b.state = "Idle" /\ b.dAck = FALSE
          /\ dcache.state \in Filling /\ ~ dcache.waitingForAck =>
               dcache.length + WordUnits = LineUnits
          /\ icache.state \in Filling /\ ~ icache.waitingForAck =>
               icache.length + WordUnits = LineUnits
          /\ ~ (dcache.state = "Ejecting" /\ ~ dcache.waitingForAck)
      BY <1>1, <1>2, <1>5, <2>1
    <3>2. /\ ~ (dcache'.state \in Filling \cup {"Ejecting"} /\ ~ dcache'.waitingForAck)
          /\ ~ (icache'.state \in Filling /\ ~ icache'.waitingForAck)
      BY <1>2, <1>3, <3>1
    <3> QED BY <1>8, <3>1, <3>2 DEF BusStates
  <2>2. CASE bus.state \in {"ReadLatency", "InstructionLatency", "WriteLatency"}
    BY <1>1, <1>2, <1>3, <1>5, <1>8, <2>2
  <2>3. CASE bus.state = "Reading"
    BY <1>1, <1>2, <1>3, <1>5, <1>8, <2>3
  <2>4. CASE bus.state = "Fetching"
    BY <1>1, <1>2, <1>3, <1>5, <1>8, <1>9, <2>4, SMTT(60)
  <2>5. CASE bus.state = "Writing"
    <3>1. /\ bus.iAck = FALSE /\ b.dAck = FALSE /\ Counts(bus, "Writing", b)
          /\ dcache.state \in Filling /\ ~ dcache.waitingForAck =>
               dcache.length + WordUnits = LineUnits
          /\ icache.state \in Filling /\ ~ icache.waitingForAck =>
               icache.length + WordUnits = LineUnits
      BY <1>1, <1>2, <1>5, <2>5
    <3>2. /\ ~ (dcache'.state \in Filling /\ ~ dcache'.waitingForAck)
          /\ ~ (icache'.state \in Filling /\ ~ icache'.waitingForAck)
      BY <1>1, <1>2, <1>3, <2>5, <3>1
    <3>3. b.state = "Writing" => /\ dcache'.state = "Ejecting" /\ ~ dcache'.waitingForAck
                                /\ dcache'.length = b.length
      BY <1>1, <1>2, <1>3, <2>5, <3>1 DEF Counts
    <3>4. b.state = "Idle" => ~ (dcache'.state = "Ejecting" /\ ~ dcache'.waitingForAck)
      BY <1>1, <1>2, <1>3, <2>5, <3>1 DEF Counts
    <3>5. b.state \in {"Idle", "Writing"} BY <3>1 DEF Counts
    <3> QED BY <1>8, <3>1, <3>2, <3>3, <3>4, <3>5 DEF BusStates
  <2> QED BY <1>2, <2>1, <2>2, <2>3, <2>4, <2>5 DEF BusStates
<1> QED BY <1>1, <1>3, <1>4, <1>6, <1>7, <1>10 DEF IInv

LEMMA InitIInv == Init => IInv
<1> SUFFICES ASSUME Init PROVE IInv OBVIOUS
<1>1. /\ CacheShape(EmptyCache) /\ EmptyCache.state = "Idle" /\ EmptyCache.waitingForAck = FALSE
      /\ EmptyCache.mem.req = FALSE
  BY DEF EmptyCache, NoTransfer, CacheShape
<1>2. ReadOnly(EmptyCache) BY DEF EmptyCache, ReadOnly
<1>3. /\ BusShape(IdleBus) /\ IdleBus.state = "Idle" /\ IdleBus.dAck = FALSE
      /\ IdleBus.iAck = FALSE
  BY DEF IdleBus, BusShape
<1>4. dcache = EmptyCache /\ icache = EmptyCache /\ bus = IdleBus /\ phase = "rise"
      /\ fetch.write = FALSE
  BY DEF Init, NoRequest
<1>5. Asking(EmptyCache) BY <1>1 DEF Asking, CacheStates, Filling
<1>6. Serving(IdleBus, EmptyCache, EmptyCache) /\ BetweenWords(IdleBus, EmptyCache, EmptyCache)
  BY <1>1, <1>3 DEF Serving, BetweenWords, BusStates, Filling
<1> QED BY <1>1, <1>2, <1>3, <1>4, <1>5, <1>6 DEF IInv

\* The invariant holds in every reachable state.
THEOREM Invariance == Spec => []IInv
<1>1. IInv /\ [Next]_vars => IInv'
  <2> SUFFICES ASSUME IInv, [Next]_vars PROVE IInv' OBVIOUS
  <2>1. CASE Rise BY <2>1, RiseIInv
  <2>2. CASE Fall BY <2>2, FallIInv
  <2>3. CASE UNCHANGED vars
    <3>1. phase' = phase /\ dcache' = dcache /\ icache' = icache /\ bus' = bus /\ fetch' = fetch
      BY <2>3 DEF vars
    <3> QED BY <3>1 DEF IInv
  <2> QED BY <2>1, <2>2, <2>3 DEF Next
<1> QED BY InitIInv, <1>1, PTL DEF Spec

\* Between two words a cache and the bus have counted the same number of them, and neither
\* waits for the other: the transfer of a line (BusInterfaceUnit.cpp, Cache.cpp), which has
\* one handshake at its start and none after it, never loses or repeats a word.
THEOREM CachesAndBusInStep == Spec => []InStep
<1>1. IInv => InStep BY DEF IInv, InStep, BetweenWords, Filling
<1> QED BY <1>1, Invariance, PTL

-----------------------------------------------------------------------------
\* Lines and words.

Block == [Unit -> Values]

\* The places of a line that a transfer of n units from o on has reached, and the place
\* where it goes on.
Wrapped(a) == IF a < LineUnits THEN a ELSE a - LineUnits
Reached(o, n) == {u \in Unit : (o <= u /\ u < o + n) \/ u + LineUnits < o + n}
WholeWords == {n \in 0 .. LineUnits : n % WordUnits = 0}
-----------------------------------------------------------------------------
\* Arithmetic of lines and words.
LEMMA Sizes == /\ WordUnits \in Nat \ {0} /\ WordUnits \in Nat /\ LineUnits \in Nat /\ WordUnits < LineUnits
               /\ LineUnits % WordUnits = 0
  BY CacheAssumption

LEMMA Multiples ==
  ASSUME NEW n \in Nat
  PROVE  n % WordUnits = 0 <=> \E k \in Nat : n = k * WordUnits
<1>1. n = WordUnits * (n \div WordUnits) + (n % WordUnits) /\ n \div WordUnits \in Nat
  BY Sizes
<1>2. ASSUME NEW k \in Nat, n = k * WordUnits PROVE n % WordUnits = 0
  BY <1>2, Sizes
<1>3. ASSUME n % WordUnits = 0 PROVE n = (n \div WordUnits) * WordUnits
  BY <1>1, <1>3, Sizes
<1> QED BY <1>1, <1>2, <1>3

LEMMA NextWord ==
  ASSUME NEW n \in WholeWords, n # LineUnits
  PROVE  n + WordUnits \in WholeWords
<1>1. PICK k \in Nat : n = k * WordUnits BY Multiples, Sizes DEF WholeWords
<1>2. PICK l \in Nat : LineUnits = l * WordUnits BY Multiples, Sizes
<1>3. k < l
  <2>1. n < LineUnits BY Sizes DEF WholeWords
  <2>2. ASSUME l <= k PROVE l * WordUnits <= k * WordUnits BY <2>2, Sizes
  <2> QED BY <1>1, <1>2, <2>1, <2>2
<1>4. (k + 1) * WordUnits <= l * WordUnits BY <1>3, Sizes
<1>5. (k + 1) * WordUnits = n + WordUnits BY <1>1, Sizes
<1>6. (n + WordUnits) % WordUnits = 0 BY <1>5, Multiples, Sizes, k + 1 \in Nat, n + WordUnits \in Nat DEF WholeWords
<1> QED BY <1>2, <1>4, <1>5, <1>6, Sizes DEF WholeWords

LEMMA ZeroWord == /\ 0 \in WholeWords /\ 0 \in Unit /\ 0 + WordUnits \in WholeWords
                  /\ WordUnits # LineUnits
<1>1. 0 \in WholeWords BY Sizes DEF WholeWords
<1> QED BY <1>1, NextWord, Sizes DEF Unit

LEMMA AlignedWord ==
  ASSUME NEW o \in Unit
  PROVE  LET a == AlignToMemoryWord(o)
         IN  /\ a \in WholeWords /\ a \in Unit /\ a <= o /\ o < a + WordUnits
             /\ o % WordUnits = o - a
<1> DEFINE r == o % WordUnits
           a == AlignToMemoryWord(o)
<1>1. o = WordUnits * (o \div WordUnits) + r /\ o \div WordUnits \in Nat /\ r \in 0 .. WordUnits - 1
  BY Sizes DEF Unit
<1>2. a = (o \div WordUnits) * WordUnits /\ a = o - r
  BY <1>1, Sizes DEF AlignToMemoryWord, Unit
<1>3. a \in Nat /\ a <= o BY <1>1, <1>2, Sizes DEF Unit
<1>4. a % WordUnits = 0 BY <1>1, <1>2, <1>3, Multiples
<1> HIDE DEF a, r
<1>5. a \in WholeWords /\ a \in Unit /\ o < a + WordUnits /\ r = o - a
  BY <1>1, <1>2, <1>3, <1>4, Sizes DEF Unit, WholeWords
<1> QED BY <1>3, <1>5 DEF a, r

LEMMA WrapWord ==
  ASSUME NEW o \in WholeWords, o # LineUnits, NEW n \in WholeWords, n # LineUnits
  PROVE  LET w == Wrapped(o + n)
         IN  /\ w \in WholeWords /\ w \in Unit
             /\ w + WordUnits <= LineUnits
             /\ (w + WordUnits) % LineUnits = Wrapped(w + WordUnits)
             /\ Wrapped(w + WordUnits) = Wrapped(o + (n + WordUnits))
<1> DEFINE w == Wrapped(o + n)
<1>1. /\ o \in Nat /\ n \in Nat /\ o < LineUnits /\ n < LineUnits
      /\ n + WordUnits <= LineUnits /\ o + WordUnits <= LineUnits
  <2>1. o + WordUnits \in WholeWords BY NextWord
  <2>2. n + WordUnits \in WholeWords BY NextWord
  <2> QED BY <2>1, <2>2, Sizes DEF WholeWords
<1>2. w \in WholeWords
  <2>1. PICK k \in Nat : n = k * WordUnits BY Multiples, Sizes DEF WholeWords
  <2>2. PICK l \in Nat : LineUnits = l * WordUnits BY Multiples, Sizes
  <2>3. PICK j \in Nat : o = j * WordUnits
    <3>1. o % WordUnits = 0 BY DEF WholeWords
    <3> QED BY <1>1, <3>1, Multiples
  <2>4. CASE o + n < LineUnits
    <3>1. o + n = (j + k) * WordUnits BY <2>1, <2>3, Sizes
    <3>2. (o + n) % WordUnits = 0 BY <1>1, <3>1, Multiples, j + k \in Nat, o + n \in Nat
    <3> QED BY <1>1, <2>4, <3>2, Sizes DEF Wrapped, WholeWords
  <2>5. CASE o + n >= LineUnits
    <3>1. o + n - LineUnits = (j + k - l) * WordUnits BY <2>1, <2>2, <2>3, Sizes
    <3>2. j + k - l >= 0
      <4>1. ASSUME j + k - l < 0 PROVE (j + k - l) * WordUnits < 0 BY <4>1, Sizes
      <4> QED BY <1>1, <2>5, <3>1, <4>1, Sizes
    <3>3. (o + n - LineUnits) % WordUnits = 0
      <4>1. j + k - l \in Nat /\ o + n - LineUnits \in Nat BY <1>1, <2>5, <3>2, Sizes
      <4> QED BY <3>1, <4>1, Multiples
    <3> QED BY <1>1, <2>5, <3>3, Sizes DEF Wrapped, WholeWords
  <2> QED BY <1>1, <2>4, <2>5, Sizes
<1>3. w \in Unit BY <1>1, Sizes DEF Wrapped, Unit
<1>4. w + WordUnits \in WholeWords
  <2> HIDE DEF w
  <2>1. w # LineUnits BY <1>3, Sizes DEF Unit
  <2> QED BY <1>2, <2>1, NextWord
<1>5. (w + WordUnits) % LineUnits = Wrapped(w + WordUnits)
  <2> HIDE DEF w
  <2>1. w + WordUnits \in 0 .. LineUnits BY <1>4 DEF WholeWords
  <2> QED BY <2>1, Sizes DEF Wrapped
<1>6. Wrapped(w + WordUnits) = Wrapped(o + (n + WordUnits))
  BY <1>1, <1>4, Sizes DEF Wrapped, WholeWords
<1> HIDE DEF w
<1>7. w + WordUnits <= LineUnits BY <1>4 DEF WholeWords
<1> QED BY <1>2, <1>3, <1>5, <1>6, <1>7 DEF w

\* A word more.
LEMMA ReachedMore ==
  ASSUME NEW o \in WholeWords, o # LineUnits, NEW n \in WholeWords, n # LineUnits
  PROVE  LET w == Wrapped(o + n)
         IN  /\ Reached(o, n + WordUnits) = Reached(o, n) \cup {u \in Unit : w <= u /\ u < w + WordUnits}
             /\ Reached(o, 0) = {} /\ Reached(o, LineUnits) = Unit
<1>1. /\ o \in Nat /\ n \in Nat /\ o < LineUnits /\ n < LineUnits
      /\ n + WordUnits <= LineUnits /\ o + WordUnits <= LineUnits
  <2>1. o + WordUnits \in WholeWords BY NextWord
  <2>2. n + WordUnits \in WholeWords BY NextWord
  <2> QED BY <2>1, <2>2, Sizes DEF WholeWords
<1>2. Reached(o, n + WordUnits) = Reached(o, n) \cup {u \in Unit : Wrapped(o + n) <= u /\ u < Wrapped(o + n) + WordUnits}
  <2>1. CASE o + n < LineUnits
    <3>1. o + n + WordUnits <= LineUnits
      <4>1. Wrapped(o + n) + WordUnits <= LineUnits BY WrapWord
      <4> QED BY <2>1, <4>1 DEF Wrapped
    <3> QED BY <1>1, <2>1, <3>1, Sizes DEF Reached, Wrapped, Unit
  <2>2. CASE o + n >= LineUnits
    BY <1>1, <2>2, Sizes DEF Reached, Wrapped, Unit
  <2> QED BY <1>1, <2>1, <2>2, Sizes
<1>3. Reached(o, 0) = {} /\ Reached(o, LineUnits) = Unit
  BY <1>1, Sizes DEF Reached, Unit
<1> QED BY <1>2, <1>3
\* Search() finds the line wherever it is.
LEMMA SearchFinds ==
  ASSUME NEW c, NEW l
  PROVE  LET b == Search(c, l)
         IN  \/ b \in Banks /\ b # None /\ c.directory[b].line = l
             \/ b = None /\ \A x \in Banks : c.directory[x].line # l
<1> DEFINE Hits == {b \in Banks : c.directory[b].line = l}
           First(b) == /\ c.directory[b].line = l
                       /\ \A d \in 1 .. b - 1 : c.directory[d].line # l
<1>0. None \notin Banks BY CacheAssumption DEF Banks
<1>1. CASE Hits = {} BY <1>1 DEF Search
<1>2. CASE Hits # {}
  <2> DEFINE less == OpToRel(<, Nat)
  <2>1. \A m, n \in Nat : <<m, n>> \in less <=> m < n BY DEF OpToRel
  <2>2. IsWellFoundedOn(less, Nat) BY NatLessThanWellFounded
  <2>3. Hits \subseteq Nat BY CacheAssumption DEF Banks
  <2> HIDE DEF less, Hits
  <2>4. PICK b \in Hits : \A d \in Hits : ~ (<<d, b>> \in less) BY <1>2, <2>2, <2>3, WFMin
  <2>5. b \in Banks /\ c.directory[b].line = l /\ b \in Nat BY <2>3, <2>4 DEF Hits
  <2>6. ASSUME NEW d \in 1 .. b - 1 PROVE c.directory[d].line # l
    <3>1. d \in Nat /\ d < b /\ d \in Banks BY <2>5, CacheAssumption DEF Banks
    <3>2. d \notin Hits BY <2>1, <2>4, <2>5, <3>1
    <3> QED BY <3>1, <3>2 DEF Hits
  <2>7. \E x \in Banks : First(x) BY <2>5, <2>6
  <2>8. Search(c, l) = CHOOSE x \in Banks : First(x) BY <2>5 DEF Search
  <2> HIDE DEF First
  <2>9. Search(c, l) \in Banks /\ First(Search(c, l)) BY <2>7, <2>8
  <2> QED BY <1>0, <2>9 DEF First
<1> QED BY <1>1, <1>2

\* A word, an answer, and what they leave in a line.
LEMMA UnitsIsSeq ==
  ASSUME NEW s, NEW o \in Nat, NEW n \in Nat
  PROVE  /\ Len(Units(s, o, n)) = n /\ DOMAIN Units(s, o, n) = 1 .. n
         /\ \A i \in 1 .. n : Units(s, o, n)[i] = s[o + i - 1]
BY DEF Units

LEMMA UnitsSame ==
  ASSUME NEW s, NEW t, NEW o \in Nat, NEW n \in Nat, \A u \in o .. o + n - 1 : s[u] = t[u]
  PROVE  Units(s, o, n) = Units(t, o, n)
<1>1. \A i \in 1 .. n : s[o + i - 1] = t[o + i - 1]
  <2> TAKE i \in 1 .. n
  <2> QED BY o + i - 1 \in o .. o + n - 1
<1> QED BY <1>1 DEF Units

LEMMA WordStored ==
  ASSUME NEW s \in Block, NEW m \in Block, NEW o \in Nat, o + WordUnits <= LineUnits
  PROVE  LET t == WithUnits(s, o, Units(m, o, WordUnits))
         IN  /\ t \in Block
             /\ \A u \in Unit : t[u] = IF o <= u /\ u < o + WordUnits THEN m[u] ELSE s[u]
<1> DEFINE d == Units(m, o, WordUnits)
           t == WithUnits(s, o, d)
<1>1. Len(d) = WordUnits /\ \A i \in 1 .. WordUnits : d[i] = m[o + i - 1]
  <2>1. WordUnits \in Nat BY Sizes
  <2> QED BY <2>1, UnitsIsSeq
<1> HIDE DEF d
<1>2. DOMAIN t = Unit BY DEF WithUnits, Block
<1>3. ASSUME NEW u \in Unit
      PROVE  t[u] = IF o <= u /\ u < o + WordUnits THEN m[u] ELSE s[u]
  <2>1. t[u] = IF u \in o .. o + Len(d) - 1 THEN d[u - o + 1] ELSE s[u]
    BY DEF WithUnits, Block
  <2>2. CASE o <= u /\ u < o + WordUnits
    <3>1. u - o + 1 \in 1 .. WordUnits /\ o + (u - o + 1) - 1 = u BY <2>2, Sizes DEF Unit
    <3>2. d[u - o + 1] = m[u] BY <1>1, <3>1
    <3> QED BY <1>1, <2>1, <2>2, <3>2, Sizes DEF Unit
  <2>3. CASE ~ (o <= u /\ u < o + WordUnits)
    BY <1>1, <2>1, <2>3, Sizes DEF Unit
  <2> QED BY <2>2, <2>3
<1>4. t \in Block
  <2>1. t = [u \in Unit |-> t[u]] BY <1>2 DEF WithUnits
  <2>2. \A u \in Unit : t[u] \in Values BY <1>3 DEF Block
  <2> HIDE DEF t
  <2> QED BY <2>1, <2>2 DEF Block
<1> QED BY <1>3, <1>4 DEF d

\* A store is done once or twice, with the same result.
LEMMA DataStored ==
  ASSUME NEW s \in Block, NEW o \in Nat, NEW d \in Seq(Values)
  PROVE  LET t == WithUnits(s, o, d)
         IN  t \in Block /\ WithUnits(t, o, d) = t
<1> DEFINE t == WithUnits(s, o, d)
<1>2. DOMAIN t = Unit /\ DOMAIN s = Unit BY DEF WithUnits, Block
<1>3. ASSUME NEW u \in Unit
      PROVE  /\ t[u] = IF u \in o .. o + Len(d) - 1 THEN d[u - o + 1] ELSE s[u]
             /\ t[u] \in Values
  <2>1. t[u] = IF u \in o .. o + Len(d) - 1 THEN d[u - o + 1] ELSE s[u]
    BY <1>2 DEF WithUnits
  <2>2. s[u] \in Values BY DEF Block
  <2>3. ASSUME u \in o .. o + Len(d) - 1 PROVE d[u - o + 1] \in Values
    BY <2>3 DEF Unit
  <2> QED BY <2>1, <2>2, <2>3
<1>4. t \in Block
  <2>1. t = [u \in Unit |-> t[u]] BY <1>2 DEF WithUnits
  <2> HIDE DEF t
  <2> QED BY <1>3, <2>1 DEF Block
<1>5. WithUnits(t, o, d) = t
  <2>1. WithUnits(t, o, d) = [u \in Unit |-> IF u \in o .. o + Len(d) - 1
                                                          THEN d[u - o + 1] ELSE t[u]]
    BY <1>2 DEF WithUnits
  <2>2. t = [u \in Unit |-> t[u]] BY <1>2 DEF WithUnits
  <2> HIDE DEF t
  <2> QED BY <1>3, <2>1, <2>2
<1> QED BY <1>4, <1>5

\* The word asked for first, from the words that have been stored and the one that passes by.
LEMMA AnswerFromWord ==
  ASSUME NEW m, NEW w \in Nat, NEW o \in Nat, NEW n \in Nat, w <= o, o + n <= w + WordUnits
  PROVE  Within(Units(m, w, WordUnits), o - w, n) = Units(m, o, n)
<1> DEFINE beat == Units(m, w, WordUnits)
<1>1. Len(beat) = WordUnits /\ \A i \in 1 .. WordUnits : beat[i] = m[w + i - 1]
  <2>1. WordUnits \in Nat BY Sizes
  <2> QED BY <2>1, UnitsIsSeq
<1> HIDE DEF beat
<1>2. ASSUME NEW i \in 1 .. n
      PROVE (IF o - w + i <= Len(beat) THEN beat[o - w + i] ELSE None) = m[o + i - 1]
  <2>1. o - w + i \in 1 .. WordUnits /\ w + (o - w + i) - 1 = o + i - 1 BY Sizes
  <2> QED BY <1>1, <2>1
<1>3. Within(beat, o - w, n) = Units(m, o, n) BY <1>2 DEF Within, Units
<1> QED BY <1>3 DEF beat

Joins(s, m, o, n, k) ==
  Units(s, o, k) \o Within(Units(m, o + k, WordUnits), 0, n - k) = Units(m, o, n)
LEMMA AnswerFromWords ==
  ASSUME NEW s, NEW m, NEW o \in Nat, NEW n \in Nat, NEW k \in Nat, k <= n,
         n - k <= WordUnits, \A u \in o .. o + k - 1 : s[u] = m[u]
  PROVE  Joins(s, m, o, n, k)
<1> DEFINE x == Units(m, o, k)
           y == Units(m, o + k, n - k)
<1>1. Units(s, o, k) = x BY UnitsSame
<1>2. Within(Units(m, o + k, WordUnits), 0, n - k) = y
  <2>1. o + k \in Nat /\ n - k \in Nat /\ (o + k) - (o + k) = 0 OBVIOUS
  <2> QED BY <2>1, AnswerFromWord, Sizes
<1>3. /\ Len(x) = k /\ Len(y) = n - k
      /\ \A i \in 1 .. k : x[i] = m[o + i - 1]
      /\ \A i \in 1 .. n - k : y[i] = m[o + k + i - 1]
  BY UnitsIsSeq, n - k \in Nat, o + k \in Nat
<1> DEFINE S == {m[u] : u \in Nat}
<1>4. x \in Seq(S) /\ y \in Seq(S) /\ Units(m, o, n) \in Seq(S)
  <2>1. \A p, h \in Nat : Units(m, p, h) \in Seq(S)
    <3> TAKE p, h \in Nat
    <3>1. \A i \in 1 .. h : p + i - 1 \in Nat OBVIOUS
    <3>2. Units(m, p, h) \in [1 .. h -> S] BY <3>1 DEF Units
    <3> QED BY <3>2, SeqDef
  <2> QED BY <2>1, n - k \in Nat, o + k \in Nat
<1>5. Len(Units(m, o, n)) = n /\ \A i \in 1 .. n : Units(m, o, n)[i] = m[o + i - 1]
  BY UnitsIsSeq
<1> HIDE DEF x, y, S
<1>6. /\ x \o y \in Seq(S) /\ Len(x \o y) = n
      /\ \A i \in 1 .. n : (x \o y)[i] = IF i <= k THEN x[i] ELSE y[i - k]
  BY <1>3, <1>4, ConcatProperties, k + (n - k) = n, SMTT(30)
<1>7. ASSUME NEW i \in 1 .. n PROVE (x \o y)[i] = Units(m, o, n)[i]
  <2>1. (x \o y)[i] = IF i <= k THEN x[i] ELSE y[i - k] BY <1>6
  <2>2. Units(m, o, n)[i] = m[o + i - 1] BY <1>5
  <2>3. CASE i <= k
    <3>1. i \in 1 .. k BY <2>3
    <3>2. x[i] = m[o + i - 1] BY <1>3, <3>1
    <3> QED BY <2>1, <2>2, <2>3, <3>2
  <2>4. CASE i > k
    <3>1. i - k \in 1 .. n - k /\ o + k + (i - k) - 1 = o + i - 1 BY <2>4
    <3>2. y[i - k] = m[o + i - 1]
      <4> DEFINE j == i - k
      <4>1. j \in 1 .. n - k /\ o + k + j - 1 = o + i - 1 BY <3>1
      <4> HIDE DEF j
      <4>2. y[j] = m[o + i - 1] BY <1>3, <4>1
      <4> QED BY <4>2 DEF j
    <3>3. (x \o y)[i] = y[i - k] BY <2>1, <2>4
    <3> QED BY <2>2, <3>2, <3>3
  <2>5. i <= k \/ i > k OBVIOUS
  <2> QED BY <2>3, <2>4, <2>5
<1>8. x \o y = Units(m, o, n) BY <1>4, <1>5, <1>6, <1>7, SeqEqual
<1> QED BY <1>1, <1>2, <1>8 DEF Joins

-----------------------------------------------------------------------------
\* One memory.

Written == {q.line : q \in {r \in DataRequests : r.write}}
Asked(requests) == {q.line : q \in requests} \cup {None}

\* The directory names lines that were asked for, each once; a request is only taken from a
\* cache that lacks its line; what is ejected is a line.
Directory(c, requests) ==
  /\ c.directory \in [Banks -> [line : Lines \cup {None}, dirty : BOOLEAN]]
  /\ c.storage \in [Banks -> Block]
  /\ \A b \in Banks : c.directory[b].line \in Asked(requests)
  /\ \A a, b \in Banks :
       c.directory[a].line = c.directory[b].line => a = b \/ c.directory[a].line = None
  /\ c.bankToReplace \in Banks
  /\ c.state # "Idle" => /\ c.request \in requests
                         /\ \A b \in Banks : c.directory[b].line # c.request.line
  /\ c.state \in {"FillForRead", "FillingForRead"} => ~ c.request.write
  /\ c.state \in {"FillForWrite", "FillingForWrite"} => c.request.write /\ ~ c.request.zero
  /\ c.state = "Write" => c.request.write
  /\ c.state \in {"Eject", "Ejecting"} => IsDirty(c, c.bankToReplace)

\* The request a cache works on is the one the CPU holds, until it has been answered, unless
\* its answer is lost.
Unanswered(c) == c.state # "Idle" /\ ~ (c.state = "FillingForRead" /\ c.dataSent)
Holds(c, q, lost) == Unanswered(c) => q.req /\ (lost \/ c.request = q)

\* The bank that is being filled no longer holds the line its directory names.
Gone(c) == \/ c.state \in Filling
           \/ c.state = "Write" /\ ~ c.request.zero
HoldsLine(c, b, l) == c.directory[b].line = l /\ ~ (Gone(c) /\ b = c.bankToReplace)

\* Clean banks are copies of memory m, and so is a bank that has been filled.
Clean(c, m) ==
  /\ \A b \in Banks, l \in Lines :
       HoldsLine(c, b, l) /\ ~ c.directory[b].dirty => c.storage[b] = m[l]
  /\ c.state = "Write" /\ ~ c.request.zero => c.storage[c.bankToReplace] = m[c.request.line]

\* A line on its way into a cache: what has come is what memory m holds.
Arriving(c, m) == c.state \in Filling =>
  /\ c.mem.line = c.request.line /\ c.mem.offset \in Unit /\ c.mem.offset \in WholeWords
  /\ c.length \in WholeWords /\ c.length # LineUnits
  /\ c.lineOffset = Wrapped(c.mem.offset + c.length)
  /\ \A u \in Reached(c.mem.offset, c.length) :
       c.storage[c.bankToReplace][u] = m[c.request.line][u]
  /\ c.state = "FillingForRead" => c.mem.offset = AlignToMemoryWord(c.request.offset)

\* What has been collected for a request, when the bus has sent n units of its line: nothing
\* is left to send once the first word of a short request has come.
Collected(c, n) == c.state = "FillingForRead" /\ ~ c.dataSent =>
  /\ c.request.size <= WordUnits => n = 0
  /\ c.request.size > WordUnits => /\ c.dataLength = n - (c.request.offset % WordUnits)
                                   /\ c.dataLength < c.request.size

\* The transfer the bus prepares is the one cache c asks for; one in progress is at the place
\* where the cache is, or a word ahead of it in the middle of a cycle.
Prepares(b, c, latency) ==
  b.state = latency => b.line = c.mem.line /\ b.offset = c.mem.offset
SendsTo(b, c, reading) ==
  b.state = reading => b.line = c.mem.line /\ b.offset = c.lineOffset
HasSent(c, ack) == c.state \in Filling /\ (c.waitingForAck => ack)
HasSentTo(b, c, reading, ack, data, m) ==
  /\ b.state = reading => b.line = c.mem.line /\ b.offset = Wrapped(c.lineOffset + WordUnits)
  /\ HasSent(c, ack) => data = Units(m[c.mem.line], c.lineOffset, WordUnits)
  /\ Collected(c, IF HasSent(c, ack) THEN c.length + WordUnits ELSE c.length)

\* A dirty line on its way to memory m: the first units of the line have arrived.
Leaving(c, b, m) ==
  LET v == c.bankToReplace
  IN  /\ c.state = "Ejecting" =>
           /\ c.mem.line = c.directory[v].line
           /\ c.lineOffset = Wrapped(c.length) /\ c.length \in WholeWords
           /\ c.waitingForAck => c.mem.offset = 0 /\ c.mem.data = Units(c.storage[v], 0, WordUnits)
      /\ b.state = "Writing" =>
           /\ b.line = c.directory[v].line /\ IsDirty(c, v) /\ ~ Gone(c)
           /\ b.offset = b.length /\ b.length \in WholeWords /\ b.length # LineUnits
           /\ \A u \in Unit : u < b.length => m[b.line][u] = c.storage[v][u]
      /\ c.state \in AfterEjects /\ b.state # "Writing" =>
           \A l \in Lines : HoldsLine(c, v, l) => m[l] = c.storage[v]

\* What the banks hold, and what memory m holds of the lines that no bank holds, is what the
\* program has stored; the store q may have been done before it is acknowledged.
Stored(q, l, x, stored) ==
  \/ x = stored[l]
  \/ q.req /\ q.write /\ l = q.line /\ x = EffectOf(stored, q)[l]
Current(c, q, m, stored) ==
  /\ \A b \in Banks, l \in Lines : HoldsLine(c, b, l) => Stored(q, l, c.storage[b], stored)
  /\ \A l \in Lines : (\A b \in Banks : ~ HoldsLine(c, b, l)) => m[l] = stored[l]
  /\ \A b \in Banks : c.directory[b].line # None /\ c.directory[b].dirty
       => c.directory[b].line \in Written

\* The answer of a cache, from a bank or from the words that pass by.
Answers(c, q, lost, m) ==
  /\ c.hit # None => /\ c.state = "Idle" /\ c.ack = TRUE /\ c.hit \in Banks
                     /\ c.directory[c.hit].line = q.line
  /\ c.ack => /\ q.req
              /\ \/ /\ c.state = "Idle" /\ c.hit # None
                    /\ ~ q.write => c.data = Units(c.storage[c.hit], q.offset, q.size)
                 \/ c.state = "Write"
                 \/ /\ c.state = "FillingForRead" /\ c.dataSent
                    /\ lost \/ (c.request = q /\ c.data = Units(m[q.line], q.offset, q.size))

MemoryTypes ==
  /\ storage \in [Lines -> Block] /\ contents \in [Lines -> Block]
  /\ \A l \in Lines \ Written : contents[l] = Image[l]
  /\ cpu \in DataRequests \cup {NoRequest} /\ fetch \in FetchRequests \cup {NoRequest}

\* What holds of either cache on both edges, and of the data cache.
CacheInv(c, q, lost, requests, m) ==
  Directory(c, requests) /\ Holds(c, q, lost) /\ Clean(c, m) /\ Arriving(c, m)
DataInv ==
  /\ Leaving(dcache, bus, storage) /\ Current(dcache, cpu, storage, contents)
  /\ Prepares(bus, dcache, "ReadLatency") /\ Prepares(bus, dcache, "WriteLatency")
  /\ Prepares(bus, icache, "InstructionLatency")
AtRise ==
  /\ dcache.ack = FALSE /\ icache.ack = FALSE
  /\ SendsTo(bus, dcache, "Reading") /\ SendsTo(bus, icache, "Fetching")
  /\ Collected(dcache, dcache.length) /\ Collected(icache, icache.length)
AtFall ==
  /\ Answers(dcache, cpu, FALSE, storage) /\ Answers(icache, fetch, dropped, storage)
  /\ HasSentTo(bus, dcache, "Reading", bus.dAck, bus.dData, storage)
  /\ HasSentTo(bus, icache, "Fetching", bus.iAck, bus.iData, storage)
  /\ bus.state = "Writing" =>
       dcache.mem.data = Units(dcache.storage[dcache.bankToReplace], bus.offset, WordUnits)
CoherenceInv ==
  /\ AlignedLoads /\ MemoryTypes
  /\ CacheInv(dcache, cpu, FALSE, DataRequests, storage)
  /\ CacheInv(icache, fetch, dropped, FetchRequests, storage)
  /\ DataInv
  /\ phase = "rise" => AtRise
  /\ phase = "fall" => AtFall
-----------------------------------------------------------------------------
\* The requests, and the arithmetic of a cache and the bus.
LEMMA RequestShape ==
  ASSUME NEW q \in DataRequests \cup FetchRequests
  PROVE  /\ q.req = TRUE /\ q.write \in BOOLEAN /\ q.zero \in BOOLEAN /\ q.line \in Lines
         /\ q.offset \in Unit /\ q.size \in Nat \ {0} /\ q.data \in Seq(Values)
         /\ q.offset + q.size <= LineUnits
BY RequestAssumption DEF Requests

LEMMA LinesAreNotNone == None \notin Lines /\ None \notin Banks
BY CacheAssumption DEF Banks

\* What a rising edge makes of a cache that is idle.
SameLines(c, e) == e.directory = c.directory /\ e.storage = c.storage
Quiet(e) == e.state = "Idle" /\ e.hit = None /\ e.ack = FALSE
Hits(c, q, e) ==
  /\ q.req /\ e.state = "Idle" /\ e.ack = TRUE
  /\ e.hit \in Banks /\ c.directory[e.hit].line = q.line
  /\ ~ q.write => e.data = Units(c.storage[e.hit], q.offset, q.size)
Misses(c, q, e) ==
  /\ q.req /\ e.hit = None /\ e.ack = FALSE
  /\ e.request = q /\ \A b \in Banks : c.directory[b].line # q.line
  /\ e.state = IF IsDirty(c, e.bankToReplace) THEN "Eject" ELSE AfterEject(q)

Served(c, q, e) == (~ q.req /\ Quiet(e)) \/ Hits(c, q, e) \/ Misses(c, q, e)

LEMMA GetRequestServes ==
  ASSUME NEW c, NEW q, NEW v \in Banks, CacheShape(c), c.state = "Idle", q.req \/ c.hit = None,
         c.bankToReplace \in Banks
  PROVE  LET e == GetRequest(c, q, v)
         IN  SameLines(c, e) /\ e.mem = c.mem /\ e.bankToReplace \in Banks /\ Served(c, q, e)
<1> DEFINE e == GetRequest(c, q, v)
           b == Search(c, q.line)
<1> SUFFICES SameLines(c, e) /\ e.mem = c.mem /\ e.bankToReplace \in Banks /\ Served(c, q, e)
  OBVIOUS
<1>1. CASE ~ q.req BY <1>1 DEF GetRequest, CacheShape, SameLines, Served, Quiet
<1>2. CASE q.req /\ b # None
  <2>1. b \in Banks /\ c.directory[b].line = q.line BY <1>2, SearchFinds
  <2>2. e = [c EXCEPT !.hit = b, !.ack = TRUE,
                      !.data = IF q.write THEN @ ELSE Units(c.storage[b], q.offset, q.size)]
    BY <1>2 DEF GetRequest
  <2> HIDE DEF b, e
  <2> QED BY <1>2, <2>1, <2>2 DEF CacheShape, SameLines, Served, Hits
<1>3. CASE q.req /\ b = None
  <2>1. \A x \in Banks : c.directory[x].line # q.line BY <1>3, SearchFinds
  <2>2. e = [c EXCEPT !.hit = None, !.ack = FALSE, !.request = q, !.bankToReplace = v,
                      !.state = IF IsDirty(c, v) THEN "Eject" ELSE AfterEject(q)]
    BY <1>3 DEF GetRequest
  <2> HIDE DEF b, e
  <2> QED BY <1>3, <2>1, <2>2 DEF CacheShape, SameLines, Served, Misses
<1> QED BY <1>1, <1>2, <1>3

LEMMA RiseFromIdle ==
  ASSUME NEW c, NEW q, NEW v \in Banks, NEW r, NEW sends, NEW beat, NEW d, NEW s, NEW e,
         CacheShape(c), c.state = "Idle", c.bankToReplace \in Banks, r = q \/ r.req,
         d = OnFrontEdge(c, q, v), s = IF r # q THEN Async(d, r, v) ELSE d,
         e = IF sends THEN Forward(s, beat) ELSE s
  PROVE  /\ SameLines(c, e) /\ e.mem = c.mem /\ d.mem = c.mem /\ e.bankToReplace \in Banks
         /\ Served(c, r, e) \/ (r # q /\ Misses(c, q, e))
<1> DEFINE h == [c EXCEPT !.hit = None]
<1>1. /\ CacheShape(h) /\ h.state = "Idle" /\ h.hit = None /\ h.bankToReplace = c.bankToReplace
      /\ SameLines(c, h) /\ h.mem = c.mem
  BY DEF CacheShape, SameLines
<1>2. d = GetRequest(h, q, v) BY <1>1 DEF OnFrontEdge
<1> HIDE DEF h
<1>3. /\ SameLines(c, d) /\ d.mem = c.mem /\ d.bankToReplace \in Banks /\ Served(c, q, d)
      /\ CacheShape(d)
  <2>1. SameLines(h, d) /\ d.mem = h.mem /\ d.bankToReplace \in Banks /\ Served(h, q, d)
    BY <1>1, <1>2, GetRequestServes
  <2>2. CacheShape(d) BY <1>1, <1>2, GetRequestStep
  <2> QED BY <1>1, <2>1, <2>2 DEF SameLines, Served, Hits, Misses, IsDirty
<1>4. /\ SameLines(c, s) /\ s.mem = c.mem /\ s.bankToReplace \in Banks
      /\ Served(c, r, s) \/ (r # q /\ Misses(c, q, s))
  <2>1. CASE r = q BY <1>3, <2>1
  <2>2. CASE r # q /\ d.state # "Idle"
    BY <1>3, <2>2 DEF Async, Served, Quiet, Hits
  <2>3. CASE r # q /\ d.state = "Idle"
    <3>1. s = GetRequest(d, r, v) /\ r.req BY <2>3 DEF Async
    <3>2. SameLines(d, s) /\ s.mem = d.mem /\ s.bankToReplace \in Banks /\ Served(d, r, s)
      BY <1>3, <2>3, <3>1, GetRequestServes
    <3> QED BY <1>3, <3>2 DEF SameLines, Served, Hits, Misses, IsDirty
  <2> QED BY <2>1, <2>2, <2>3
<1>5. s.state # "FillingForRead" BY <1>4 DEF Served, Quiet, Hits, Misses, AfterEject
<1>6. e = s BY <1>5 DEF Forward
<1> QED BY <1>3, <1>4, <1>6

\* What it makes of a cache that moves a line, when no word is forwarded.
SameRequest(c, e) == e.request = c.request /\ e.bankToReplace = c.bankToReplace
SamePlace(c, e) ==
  /\ e.length = c.length /\ e.lineOffset = c.lineOffset
  /\ e.mem.line = c.mem.line /\ e.mem.offset = c.mem.offset /\ e.mem.data = c.mem.data
Starting(c, e, l, o) ==
  /\ e.waitingForAck = TRUE /\ e.length = 0 /\ e.lineOffset = o
  /\ e.mem.line = l /\ e.mem.offset = o
RisePlaces(c, q, e) ==
  LET v == c.bankToReplace
  IN  /\ SameLines(c, e) /\ SameRequest(c, e)
      /\ c.state = "Eject" =>
           /\ e.state = "Ejecting" /\ e.lineOffset = WordUnits /\ e.length = WordUnits
           /\ e.mem.line = c.directory[v].line /\ e.mem.offset = 0
           /\ e.mem.data = Units(c.storage[v], 0, WordUnits)
      /\ c.state = "Ejecting" /\ ~ c.waitingForAck =>
           /\ e.lineOffset = (c.lineOffset + WordUnits) % LineUnits
           /\ e.length = c.length + WordUnits
           /\ e.mem.line = c.mem.line
           /\ e.mem.data = Units(c.storage[v], c.lineOffset, WordUnits)
           /\ e.waitingForAck = FALSE
           /\ e.state = IF e.length = LineUnits THEN AfterEject(c.request) ELSE "Ejecting"
      /\ c.state = "FillForWrite" =>
           e.state = "FillingForWrite" /\ Starting(c, e, q.line, 0)
      /\ c.state = "FillForRead" =>
           /\ e.state = "FillingForRead"
           /\ Starting(c, e, c.request.line, AlignToMemoryWord(c.request.offset))
      /\ c.state \in Filling \cup {"Write"} \/ (c.state = "Ejecting" /\ c.waitingForAck) =>
           e.state = c.state /\ SamePlace(c, e)
RisesBusy(c, q, e) ==
  /\ CacheShape(e) /\ RisePlaces(c, q, e)
  /\ e.hit = None /\ e.ack = (c.state = "Write")
  /\ c.state = "FillForRead" =>
       e.dataSent = FALSE /\ e.dataLength = 0 - (c.request.offset % WordUnits)
  /\ c.state = "FillingForRead" => e.dataSent = c.dataSent /\ e.dataLength = c.dataLength

LEMMA RiseFromBusy ==
  ASSUME NEW c, NEW q, NEW v, CacheShape(c), Asking(c), c.state # "Idle", c.ack = FALSE
  PROVE  RisesBusy(c, q, OnFrontEdge(c, q, v))
<1> DEFINE h == [c EXCEPT !.hit = None]
           e == OnFrontEdge(c, q, v)
<1> SUFFICES RisesBusy(c, q, e) OBVIOUS
<1>1. /\ CacheShape(h) /\ h.state = c.state /\ SameTransfer(c, h) /\ h.ack = FALSE /\ h.hit = None
      /\ SameLines(c, h) /\ SameRequest(c, h) /\ SamePlace(c, h)
      /\ h.dataSent = c.dataSent /\ h.dataLength = c.dataLength
  BY DEF CacheShape, SameTransfer, SameLines, SameRequest, SamePlace
<1>0. CacheShape(e) BY OnFrontEdgeStep
<1>2. CASE c.state = "Eject"
  <2> DEFINE f == [h EXCEPT !.lineOffset = 0, !.length = 0, !.waitingForAck = TRUE,
                            !.mem.req = TRUE, !.mem.write = TRUE, !.mem.offset = 0,
                            !.mem.line = h.directory[h.bankToReplace].line]
  <2>1. e = EjectWord(f) BY <1>1, <1>2 DEF OnFrontEdge
  <2>2. /\ CacheShape(f) /\ f.length = 0 /\ f.lineOffset = 0 /\ f.mem.offset = 0
        /\ f.mem.line = c.directory[c.bankToReplace].line /\ f.ack = FALSE /\ f.hit = None
        /\ SameLines(c, f) /\ SameRequest(c, f)
    BY <1>1 DEF CacheShape, SameLines, SameRequest
  <2> HIDE DEF h, e, f
  <2>3. 0 + WordUnits = WordUnits /\ WordUnits % LineUnits = WordUnits /\ WordUnits # LineUnits
    BY Sizes
  <2> QED BY <1>2, <2>1, <2>2, <2>3, <1>0
    DEF EjectWord, LineComplete, CacheShape, SameLines, SameRequest, RisesBusy, RisePlaces, Filling
<1>3. CASE c.state = "Ejecting" /\ ~ c.waitingForAck
  <2> DEFINE f == [h EXCEPT !.mem.req = FALSE]
  <2>1. e = EjectWord(f) BY <1>1, <1>3 DEF OnFrontEdge, SameTransfer
  <2>2. /\ CacheShape(f) /\ f.waitingForAck = FALSE /\ f.ack = FALSE /\ f.hit = None
        /\ SamePlace(c, f) /\ SameLines(c, f) /\ SameRequest(c, f)
    BY <1>1, <1>3 DEF CacheShape, SameTransfer, Asking, SameLines, SameRequest, SamePlace
  <2> HIDE DEF h, e, f
  <2> QED BY <1>3, <2>1, <2>2, <1>0
    DEF EjectWord, LineComplete, CacheShape, SameLines, SameRequest, SamePlace, RisesBusy,
        RisePlaces, Filling
<1>4. CASE c.state = "FillForWrite"
  <2>1. ~ c.waitingForAck BY <1>4 DEF Asking, Filling
  <2> QED BY <1>0, <1>1, <1>4, <2>1
    DEF OnFrontEdge, FillFrom, CacheShape, RisesBusy, RisePlaces, Starting, Filling,
        SameTransfer, SameLines, SameRequest
<1>5. CASE c.state = "FillForRead"
  <2> DEFINE l == c.request.line
             o == AlignToMemoryWord(c.request.offset)
             k == 0 - (c.request.offset % WordUnits)
  <2>1. e = [FillFrom(h, l, o) EXCEPT !.state = "FillingForRead", !.dataSent = FALSE, !.dataLength = k]
    BY <1>1, <1>5 DEF OnFrontEdge, SameRequest
  <2> HIDE DEF h, e, l, o, k
  <2>2. /\ e.state = "FillingForRead" /\ e.dataSent = FALSE /\ e.dataLength = k
        /\ Starting(c, e, l, o) /\ e.hit = None /\ e.ack = FALSE
        /\ SameLines(c, e) /\ SameRequest(c, e)
    BY <1>1, <2>1 DEF FillFrom, CacheShape, Starting, SameLines, SameRequest
  <2> QED BY <1>0, <1>5, <2>2 DEF RisesBusy, RisePlaces, Filling, l, o, k
<1>6. CASE c.state \in Filling \cup {"Write"} \/ (c.state = "Ejecting" /\ c.waitingForAck)
  <2>1. e.ack = (c.state = "Write") /\ e.hit = None /\ e.state = c.state /\ SamePlace(c, e)
        /\ SameLines(c, e) /\ SameRequest(c, e)
        /\ e.dataSent = c.dataSent /\ e.dataLength = c.dataLength
    BY <1>1, <1>6
    DEF OnFrontEdge, CacheShape, Filling, SameTransfer, SameLines, SameRequest, SamePlace
  <2> HIDE DEF e
  <2> QED BY <1>0, <1>6, <2>1 DEF RisesBusy, RisePlaces, Filling
<1> QED
  BY <1>2, <1>3, <1>4, <1>5, <1>6 DEF Asking, CacheStates, AfterEjects, Filling

\* What Forward() makes of a word.
Forwards(c, beat, e) ==
  LET q == c.request
  IN  IF q.size <= WordUnits
      THEN /\ e.ack = TRUE /\ e.dataSent = TRUE
           /\ e.data = Within(beat, q.offset % WordUnits, q.size)
      ELSE IF Enough(c)
      THEN /\ e.ack = TRUE /\ e.dataSent = TRUE
           /\ e.data = Units(c.storage[c.bankToReplace], q.offset, c.dataLength)
                       \o Within(beat, 0, q.size - c.dataLength)
      ELSE e.ack = c.ack /\ e.dataSent = c.dataSent /\ e.dataLength = c.dataLength + WordUnits

LEMMA ForwardSends ==
  ASSUME NEW c, NEW beat, CacheShape(c)
  PROVE  LET e == Forward(c, beat)
         IN  /\ CacheShape(e) /\ SameLines(c, e) /\ SameRequest(c, e)
             /\ e.state = c.state /\ e.waitingForAck = c.waitingForAck /\ e.mem = c.mem
             /\ e.hit = c.hit /\ e.length = c.length /\ e.lineOffset = c.lineOffset
             /\ IF c.state # "FillingForRead" \/ c.dataSent THEN e = c ELSE Forwards(c, beat, e)
BY DEF Forward, Forwards, CacheShape, SameLines, SameRequest

\* A word of the line completes the answer or is collected for it.
LEMMA WordAnswers ==
  ASSUME NEW c, NEW beat, NEW m, CacheShape(c), AlignedLoads, c.ack = FALSE,
         c.state = "FillingForRead", ~ c.dataSent,
         c.request \in DataRequests \cup FetchRequests, ~ c.request.write,
         Arriving(c, m), Collected(c, c.length),
         beat = Units(m[c.request.line], c.lineOffset, WordUnits)
  PROVE  LET e == Forward(c, beat)
             q == c.request
         IN  /\ Collected(e, c.length + WordUnits)
             /\ e.ack => e.dataSent /\ e.data = Units(m[q.line], q.offset, q.size)
<1> DEFINE e == Forward(c, beat)
           q == c.request
           a == AlignToMemoryWord(q.offset)
           line == m[q.line]
<1> SUFFICES /\ Collected(e, c.length + WordUnits)
             /\ e.ack => e.dataSent /\ e.data = Units(line, q.offset, q.size)
  OBVIOUS
<1>1. /\ q.offset \in Unit /\ q.offset \in Nat /\ q.size \in Nat /\ q.offset + q.size <= LineUnits
  <2>1. q.offset \in Unit /\ q.size \in Nat \ {0} /\ q.offset + q.size <= LineUnits
    BY RequestShape
  <2> QED BY <2>1 DEF Unit
<1>2. /\ a \in Nat /\ a <= q.offset /\ q.offset < a + WordUnits /\ q.offset % WordUnits = q.offset - a
      /\ a \in WholeWords /\ a # LineUnits /\ a < LineUnits
  <2>1. /\ a \in WholeWords /\ a \in Unit /\ a <= q.offset /\ q.offset < a + WordUnits
        /\ q.offset % WordUnits = q.offset - a
    BY <1>1, AlignedWord
  <2> HIDE DEF a, q
  <2> QED BY <2>1, Sizes DEF Unit
<1>3. /\ e.state = "FillingForRead" /\ e.request = q /\ Forwards(c, beat, e)
  BY ForwardSends DEF SameRequest
<1>4. /\ c.mem.offset = a /\ c.lineOffset = Wrapped(a + c.length) /\ c.length \in Nat
      /\ c.length \in WholeWords /\ c.length # LineUnits
      /\ \A u \in Reached(a, c.length) : c.storage[c.bankToReplace][u] = line[u]
  BY DEF Arriving, Filling, WholeWords
<1>5. beat = Units(line, c.lineOffset, WordUnits) OBVIOUS
<1> HIDE DEF e, a, line
<1>6. CASE q.size <= WordUnits
  <2>1. c.length = 0 BY <1>6 DEF Collected
  <2>4. c.lineOffset = a BY <1>2, <1>4, <2>1, Sizes DEF Wrapped
  <2>2. q.offset + q.size <= a + WordUnits
    <3>1. (q.offset % WordUnits) + q.size <= WordUnits BY <1>1, <1>6, Sizes DEF AlignedLoads
    <3> QED BY <1>1, <1>2, <3>1, Sizes
  <2>3. Within(beat, q.offset - a, q.size) = Units(line, q.offset, q.size)
    BY <1>1, <1>2, <1>5, <2>2, <2>4, AnswerFromWord
  <2> QED BY <1>2, <1>3, <1>6, <2>3 DEF Forwards, Collected
<1>7. CASE q.size > WordUnits
  <2> DEFINE k == c.dataLength
  <2>1. k = c.length - (q.offset - a) /\ k < q.size /\ k \in Int
    BY <1>1, <1>2, <1>4, <1>7, Sizes DEF Collected
  <2>2. ~ (q.size <= WordUnits) BY <1>1, <1>7, Sizes
  <2>3. CASE Enough(c)
    <3>1. k \in Nat /\ k <= q.size /\ q.size - k <= WordUnits
      BY <1>1, <1>7, <2>1, <2>3, Sizes DEF Enough
    <3>2. c.lineOffset = q.offset + k BY <1>1, <1>2, <1>4, <2>1, <3>1, Sizes DEF Wrapped
    <3>3. \A u \in q.offset .. q.offset + k - 1 : c.storage[c.bankToReplace][u] = line[u]
      <4> TAKE u \in q.offset .. q.offset + k - 1
      <4>1. u \in Reached(a, c.length)
        BY <1>1, <1>2, <1>4, <2>1, <3>1, Sizes DEF Reached, Unit
      <4> QED BY <1>4, <4>1
    <3>4. Units(c.storage[c.bankToReplace], q.offset, k) \o Within(beat, 0, q.size - k)
            = Units(line, q.offset, q.size)
      <4>1. beat = Units(line, q.offset + k, WordUnits) BY <1>5, <3>2
      <4> DEFINE x == c.storage[c.bankToReplace]
                 o == q.offset
                 n == q.size
      <4>2. /\ o \in Nat /\ n \in Nat /\ k \in Nat /\ k <= n /\ n - k <= WordUnits
            /\ \A u \in o .. o + k - 1 : x[u] = line[u]
        BY <1>1, <3>1, <3>3
      <4> HIDE DEF k, x, o, n, q
      <4>3. Joins(x, line, o, n, k) BY <4>2, AnswerFromWords
      <4> QED BY <4>1, <4>3 DEF x, o, n, Joins
    <3>5. /\ e.ack = TRUE /\ e.dataSent = TRUE
          /\ e.data = Units(c.storage[c.bankToReplace], q.offset, k) \o Within(beat, 0, q.size - k)
      BY <1>3, <2>2, <2>3 DEF Forwards
    <3>6. e.data = Units(line, q.offset, q.size) BY <3>4, <3>5
    <3> QED BY <3>5, <3>6 DEF Collected
  <2>4. CASE ~ Enough(c)
    <3>1. /\ e.ack = FALSE /\ e.dataLength = k + WordUnits /\ k + WordUnits < q.size
      BY <1>1, <1>3, <2>1, <2>2, <2>4, Sizes DEF Forwards, Enough
    <3>2. e.dataLength = (c.length + WordUnits) - (q.offset % WordUnits)
      BY <1>1, <1>2, <1>4, <2>1, <3>1, Sizes
    <3>3. e.request = c.request BY <1>3
    <3>4. e.dataLength < c.request.size BY <3>1
    <3>5. ~ (c.request.size <= WordUnits) BY <2>2
    <3> HIDE DEF k, q
    <3>6. Collected(e, c.length + WordUnits) BY <3>2, <3>3, <3>4, <3>5 DEF Collected, q
    <3> QED BY <3>1, <3>6
  <2> QED BY <2>3, <2>4
<1> QED BY <1>1, <1>6, <1>7, Sizes

\* What holds of a cache holds after a rising edge.
LEMMA IdleLines ==
  ASSUME NEW c, NEW q, NEW r, NEW lost, NEW requests, NEW m, NEW e,
         requests \subseteq DataRequests \cup FetchRequests,
         r \in requests \cup {NoRequest}, q \in requests \cup {NoRequest},
         c.state = "Idle", Directory(c, requests), Clean(c, m),
         SameLines(c, e), e.bankToReplace \in Banks,
         Served(c, r, e) \/ (lost /\ r.req /\ Misses(c, q, e))
  PROVE  /\ CacheInv(e, r, lost, requests, m) /\ Answers(e, r, lost, m)
         /\ e.state \notin Filling /\ ~ Gone(c) /\ ~ Gone(e)
<1>1. /\ r.req => r \in requests
      /\ q.req => q \in requests
  BY DEF NoRequest
<1>2. \A p \in requests : p.write \in BOOLEAN /\ p.zero \in BOOLEAN BY RequestShape
<1>3. \/ Quiet(e) \/ Hits(c, r, e)
      \/ \E p \in requests : Misses(c, p, e) /\ r.req /\ (lost \/ p = r)
  BY <1>1 DEF Served, Misses
<1>4. ~ Gone(c) BY DEF Gone, Filling
<1>5. CASE Quiet(e) \/ Hits(c, r, e)
  <2>1. e.state = "Idle" /\ ~ Gone(e) BY <1>5 DEF Quiet, Hits, Gone, Filling
  <2>2. Directory(e, requests) BY <2>1 DEF Directory, SameLines
  <2>3. Clean(e, m) BY <1>4, <2>1 DEF Clean, SameLines, HoldsLine
  <2>4. Answers(e, r, lost, m) BY <1>5, LinesAreNotNone DEF Answers, SameLines, Quiet, Hits
  <2>5. Holds(e, r, lost) /\ Arriving(e, m) BY <2>1 DEF Holds, Unanswered, Arriving, Filling
  <2> QED BY <1>4, <2>1, <2>2, <2>3, <2>4, <2>5 DEF CacheInv, Filling
<1>6. ASSUME NEW p \in requests, Misses(c, p, e), r.req, lost \/ p = r
      PROVE  /\ CacheInv(e, r, lost, requests, m) /\ Answers(e, r, lost, m)
             /\ e.state \notin Filling /\ ~ Gone(c) /\ ~ Gone(e)
  <2>1. /\ e.state \in {"Eject", "FillForRead", "FillForWrite", "Write"}
        /\ e.state = "FillForRead" => ~ p.write
        /\ e.state = "FillForWrite" => p.write /\ ~ p.zero
        /\ e.state = "Write" => p.write /\ p.zero
        /\ e.state = "Eject" => IsDirty(e, e.bankToReplace)
        /\ e.request = p /\ e.hit = None /\ e.ack = FALSE
        /\ \A b \in Banks : c.directory[b].line # p.line
    BY <1>2, <1>6 DEF Misses, AfterEject, IsDirty, SameLines
  <2>2. ~ Gone(e) /\ e.state \notin Filling BY <2>1 DEF Gone, Filling
  <2>3. Directory(e, requests) BY <2>1 DEF Directory, SameLines
  <2>4. Clean(e, m) BY <1>4, <2>1, <2>2 DEF Clean, SameLines, HoldsLine
  <2>5. Answers(e, r, lost, m) BY <2>1 DEF Answers
  <2>6. Holds(e, r, lost) BY <1>6, <2>1 DEF Holds
  <2>7. Arriving(e, m) BY <2>1 DEF Arriving, Filling
  <2> QED BY <1>4, <2>2, <2>3, <2>4, <2>5, <2>6, <2>7 DEF CacheInv
<1> QED BY <1>3, <1>5, <1>6

LEMMA BusyLines ==
  ASSUME NEW c, NEW q, NEW lost, NEW requests, NEW m, NEW e,
         requests \subseteq DataRequests \cup FetchRequests,
         Asking(c), CacheInv(c, q, lost, requests, m), c.state # "Idle",
         c.state = "FillForWrite" => ~ lost,
         RisesBusy(c, q, e)
  PROVE  /\ CacheInv(e, q, lost, requests, m) /\ e.state # "Idle"
         /\ Unanswered(e) => Unanswered(c)
         /\ Gone(c) => Gone(e)
<1> DEFINE p == c.request
<1>1. /\ p \in requests /\ p.write \in BOOLEAN /\ p.zero \in BOOLEAN /\ p.offset \in Unit
      /\ c.bankToReplace \in Banks
  BY RequestShape DEF CacheInv, Directory
<1>2. /\ SameLines(c, e) /\ e.request = p /\ e.bankToReplace = c.bankToReplace
  BY DEF RisesBusy, RisePlaces, SameRequest
<1>3. /\ e.state \in CacheStates \ {"Idle"}
      /\ c.state \in Filling \cup {"Write"} => e.state = c.state
      /\ e.state = "Eject" => c.state = "Eject"
      /\ e.state = "Ejecting" => c.state \in {"Eject", "Ejecting"}
      /\ e.state = "FillForRead" => ~ p.write
      /\ e.state = "FillForWrite" => p.write /\ ~ p.zero
      /\ e.state = "FillingForRead" => c.state \in {"FillForRead", "FillingForRead"}
      /\ e.state = "FillingForWrite" => c.state \in {"FillForWrite", "FillingForWrite"}
      /\ e.state = "Write" => c.state = "Write" \/ (p.write /\ p.zero)
  BY <1>1 DEF RisesBusy, RisePlaces, AfterEject, Asking, CacheStates, Filling, AfterEjects
<1> HIDE DEF p
<1>4. Directory(e, requests)
  <2>1. c.state \in {"Eject", "Ejecting"} => IsDirty(e, e.bankToReplace)
    BY <1>2 DEF CacheInv, Directory, SameLines, IsDirty
  <2>2. /\ c.state \in {"FillForRead", "FillingForRead"} => ~ p.write
        /\ c.state \in {"FillForWrite", "FillingForWrite"} => p.write /\ ~ p.zero
        /\ c.state = "Write" => p.write
        /\ \A b \in Banks : c.directory[b].line # p.line
    BY DEF CacheInv, Directory, p
  <2> QED BY <1>1, <1>2, <1>3, <2>1, <2>2 DEF CacheInv, Directory, SameLines
<1>5. Gone(c) => Gone(e) BY <1>2, <1>3 DEF Gone, p
<1>6. Unanswered(e) => Unanswered(c)
  BY <1>3 DEF Unanswered, RisesBusy, Filling
<1>7. Holds(e, q, lost) BY <1>2, <1>6 DEF CacheInv, Holds, p
<1>8. Clean(e, m)
  <2>1. \A b \in Banks, l \in Lines : HoldsLine(e, b, l) => HoldsLine(c, b, l)
    BY <1>2, <1>5 DEF HoldsLine, SameLines
  <2> QED BY <1>2, <1>3, <2>1 DEF CacheInv, Clean, SameLines, p
<1>9. Arriving(e, m)
  <2>1. CASE c.state \in Filling
    BY <1>2, <1>3, <2>1 DEF CacheInv, Arriving, RisesBusy, RisePlaces, SamePlace, SameLines, p
  <2>2. CASE c.state \in {"FillForRead", "FillForWrite"}
    <3> DEFINE o == IF c.state = "FillForWrite" THEN 0 ELSE AlignToMemoryWord(p.offset)
    <3>1. c.state = "FillForWrite" => q = p
      BY <2>2 DEF CacheInv, Holds, Unanswered, p
    <3>2. /\ e.length = 0 /\ e.lineOffset = o /\ e.mem.offset = o /\ e.mem.line = p.line
          /\ e.state = "FillingForRead" => o = AlignToMemoryWord(p.offset)
      BY <2>2, <3>1 DEF RisesBusy, RisePlaces, Starting, p
    <3>3. o \in WholeWords /\ o \in Unit BY <1>1, AlignedWord, ZeroWord
    <3> HIDE DEF o
    <3>4. o # LineUnits /\ o < LineUnits /\ o \in Nat /\ 0 # LineUnits BY <3>3, Sizes DEF Unit
    <3>5. Reached(o, 0) = {} BY <3>3, <3>4, ZeroWord, ReachedMore
    <3>6. o = Wrapped(o + 0) BY <3>4 DEF Wrapped
    <3> QED BY <1>2, <3>2, <3>3, <3>4, <3>5, <3>6, ZeroWord DEF Arriving
  <2>3. CASE c.state \notin Filling \cup {"FillForRead", "FillForWrite"}
    BY <1>3, <2>3 DEF Arriving, Filling
  <2> QED BY <2>1, <2>2, <2>3
<1> QED BY <1>3, <1>4, <1>5, <1>6, <1>7, <1>8, <1>9 DEF CacheInv

\* All of it, for either cache: the bus may send a word of the line that the cache fills.
IdlePlaces(c, e) ==
  /\ SameLines(c, e) /\ e.mem = c.mem /\ e.bankToReplace \in Banks
  /\ ~ Gone(c) /\ ~ Gone(e) /\ e.state \in {"Idle", "Eject"} \cup AfterEjects
  /\ e.state \in AfterEjects => ~ IsDirty(c, e.bankToReplace)
\* What is assumed of a cache, of the edge, and what follows.
RiseFrom(c, q, r, lost, requests, m, sends, beat) ==
  /\ requests \subseteq DataRequests \cup FetchRequests /\ AlignedLoads
  /\ r \in requests \cup {NoRequest} /\ q \in requests \cup {NoRequest}
  /\ r = q \/ (r.req /\ (lost \/ ~ q.req))
  /\ CacheShape(c) /\ Asking(c) /\ c.ack = FALSE /\ Collected(c, c.length)
  /\ CacheInv(c, q, lost, requests, m)
  /\ c.state = "FillForWrite" => ~ lost
  /\ sends \in BOOLEAN
  /\ sends => c.state \in Filling /\ beat = Units(m[c.mem.line], c.lineOffset, WordUnits)
RiseEdge(c, q, r, v, sends, beat, d, s, e) ==
  /\ d = OnFrontEdge(c, q, v) /\ s = IF r # q THEN Async(d, r, v) ELSE d
  /\ e = IF sends THEN Forward(s, beat) ELSE s
RiseTo(c, q, r, lost, requests, m, sends, e) ==
  /\ CacheInv(e, r, lost, requests, m) /\ Answers(e, r, lost, m)
  /\ Collected(e, IF sends THEN e.length + WordUnits ELSE e.length)
  /\ IF c.state = "Idle" THEN IdlePlaces(c, e) ELSE RisePlaces(c, q, e)

LEMMA RiseOfLines ==
  ASSUME NEW c, NEW q, NEW v \in Banks, NEW r, NEW lost, NEW requests, NEW m,
         NEW sends, NEW beat, NEW d, NEW s, NEW e,
         RiseFrom(c, q, r, lost, requests, m, sends, beat),
         RiseEdge(c, q, r, v, sends, beat, d, s, e)
  PROVE  RiseTo(c, q, r, lost, requests, m, sends, e) /\ e.mem = d.mem
<1> USE DEF RiseFrom, RiseEdge, RiseTo
<1>0. c.bankToReplace \in Banks BY DEF CacheInv, Directory
<1>1. CASE c.state = "Idle"
  <2>1. /\ SameLines(c, e) /\ e.mem = c.mem /\ d.mem = c.mem /\ e.bankToReplace \in Banks
        /\ Served(c, r, e) \/ (r # q /\ Misses(c, q, e))
    <3>1. r = q \/ r.req OBVIOUS
    <3>2. /\ d = OnFrontEdge(c, q, v) /\ s = IF r # q THEN Async(d, r, v) ELSE d
          /\ e = (IF sends THEN Forward(s, beat) ELSE s) /\ CacheShape(c)
      OBVIOUS
    <3> HIDE DEF RiseFrom, RiseEdge, RiseTo
    <3> QED BY <1>0, <1>1, <3>1, <3>2, RiseFromIdle
  <2>2. Served(c, r, e) \/ (lost /\ r.req /\ Misses(c, q, e))
    BY <2>1 DEF Misses
  <2>3. /\ CacheInv(e, r, lost, requests, m) /\ Answers(e, r, lost, m)
        /\ e.state \notin Filling /\ ~ Gone(c) /\ ~ Gone(e)
    <3>1. Directory(c, requests) /\ Clean(c, m) BY DEF CacheInv
    <3>2. /\ requests \subseteq DataRequests \cup FetchRequests
          /\ r \in requests \cup {NoRequest} /\ q \in requests \cup {NoRequest}
      OBVIOUS
    <3> HIDE DEF RiseFrom, RiseEdge, RiseTo
    <3> QED BY <1>1, <2>1, <2>2, <3>1, <3>2, IdleLines
  <2>4. /\ e.state \in {"Idle", "Eject"} \cup AfterEjects
        /\ e.state \in AfterEjects => ~ IsDirty(c, e.bankToReplace)
    BY <2>2 DEF Served, Quiet, Hits, Misses, AfterEject, AfterEjects
  <2>5. Collected(e, IF sends THEN e.length + WordUnits ELSE e.length)
    BY <2>3 DEF Collected, Filling
  <2> QED BY <1>1, <2>1, <2>3, <2>4, <2>5 DEF IdlePlaces
<1>2. CASE c.state # "Idle"
  <2>1. RisesBusy(c, q, d) BY <1>2, RiseFromBusy
  <2>2. /\ CacheInv(d, q, lost, requests, m) /\ d.state # "Idle"
        /\ Unanswered(d) => Unanswered(c)
    BY <1>2, <2>1, BusyLines
  <2>3. s = d BY <2>2 DEF Async
  <2>4. Holds(d, r, lost)
    <3>1. CASE r = q BY <2>2, <3>1 DEF CacheInv
    <3>2. CASE r # q BY <2>2, <3>2 DEF CacheInv, Holds
    <3> QED BY <3>1, <3>2
  <2>5. CASE ~ sends
    <3>1. e = d BY <2>3, <2>5
    <3>2. Collected(d, d.length)
      <4>1. CASE c.state = "FillForRead"
        <5>1. c.request \in DataRequests \cup FetchRequests BY <1>2 DEF CacheInv, Directory
        <5>2. /\ c.request.offset \in Unit /\ c.request.size \in Nat \ {0}
          BY <5>1, RequestShape
        <5>3. c.request.offset % WordUnits \in Nat BY <5>2, Sizes DEF Unit
        <5>4. /\ d.length = 0 /\ d.request = c.request
              /\ d.dataLength = 0 - (c.request.offset % WordUnits)
          BY <2>1, <4>1 DEF RisesBusy, RisePlaces, Starting, SameRequest
        <5> HIDE DEF Unit
        <5>5. d.dataLength < c.request.size BY <5>2, <5>3, <5>4
        <5> QED BY <5>4, <5>5 DEF Collected
      <4>2. CASE c.state = "FillingForRead"
        BY <2>1, <4>2 DEF RisesBusy, RisePlaces, SamePlace, SameRequest, Collected, Filling
      <4>3. CASE c.state \notin {"FillForRead", "FillingForRead"}
        <5>1. d.state # "FillingForRead"
          BY <1>2, <2>1, <4>3
          DEF RisesBusy, RisePlaces, Asking, CacheStates, Filling, AfterEjects, AfterEject
        <5> QED BY <5>1 DEF Collected
      <4> QED BY <4>1, <4>2, <4>3
    <3>3. Answers(d, r, lost, m)
      <4>1. d.hit = None /\ d.ack = (c.state = "Write") BY <2>1 DEF RisesBusy
      <4>2. c.state = "Write" => d.state = "Write" BY <2>1 DEF RisesBusy, RisePlaces
      <4> QED BY <2>4, <4>1, <4>2 DEF Answers, Holds, Unanswered
    <3> QED BY <1>2, <2>1, <2>2, <2>4, <2>5, <3>1, <3>2, <3>3 DEF RisesBusy, CacheInv
  <2>6. CASE sends
    <3>1. e = Forward(d, beat) BY <2>3, <2>6
    <3>2. /\ d.state = c.state /\ c.state \in Filling /\ SamePlace(c, d) /\ SameRequest(c, d)
          /\ SameLines(c, d) /\ d.hit = None /\ d.ack = FALSE /\ CacheShape(d)
          /\ d.state = "FillingForRead" => d.dataSent = c.dataSent /\ d.dataLength = c.dataLength
      BY <2>1, <2>6 DEF RisesBusy, RisePlaces, Filling
    <3>3. /\ SameLines(d, e) /\ SameRequest(d, e) /\ e.state = d.state /\ e.mem = d.mem
          /\ e.hit = d.hit /\ e.length = d.length /\ e.lineOffset = d.lineOffset
          /\ e.waitingForAck = d.waitingForAck
          /\ IF d.state # "FillingForRead" \/ d.dataSent THEN e = d ELSE Forwards(d, beat, e)
      BY <3>1, <3>2, ForwardSends
    <3>4. RisePlaces(c, q, e)
      BY <2>1, <3>2, <3>3 DEF RisesBusy, RisePlaces, SameLines, SameRequest, SamePlace, Filling
    <3>5. Directory(e, requests) /\ Clean(e, m) /\ Arriving(e, m)
      <4>1. Directory(e, requests)
        <5>1. Directory(d, requests) BY <2>2 DEF CacheInv
        <5>2. /\ e.directory = d.directory /\ e.storage = d.storage /\ e.state = d.state
              /\ e.request = d.request /\ e.bankToReplace = d.bankToReplace
          BY <3>3 DEF SameLines, SameRequest
        <5> HIDE DEF RiseFrom, RiseEdge, RiseTo
        <5> QED BY <5>1, <5>2 DEF Directory, IsDirty
      <4>2. Clean(e, m)
        BY <2>2, <3>3 DEF CacheInv, Clean, SameLines, SameRequest, HoldsLine, Gone
      <4>3. Arriving(e, m)
        BY <2>2, <3>3 DEF CacheInv, Arriving, SameLines, SameRequest
      <4> QED BY <4>1, <4>2, <4>3
    <3>6. CASE d.state = "FillingForRead" /\ ~ d.dataSent
      <4>1. /\ d.request \in requests /\ ~ d.request.write /\ Arriving(d, m)
            /\ d.request.line = d.mem.line
        BY <2>2, <3>6 DEF CacheInv, Directory, Arriving, Filling
      <4>2. Collected(d, d.length)
        BY <3>2 DEF Collected, SamePlace, SameRequest
      <4>3. beat = Units(m[d.request.line], d.lineOffset, WordUnits)
        BY <2>6, <3>2, <4>1 DEF SamePlace
      <4>4. /\ Collected(e, d.length + WordUnits)
            /\ e.ack => e.dataSent /\ e.data = Units(m[d.request.line], d.request.offset, d.request.size)
        BY <3>1, <3>2, <3>6, <4>1, <4>2, <4>3, WordAnswers
      <4>5. Answers(e, r, lost, m)
        <5>1. r.req /\ (lost \/ d.request = r) BY <2>4, <3>6 DEF Holds, Unanswered
        <5>2. e.hit = None /\ e.request = d.request /\ e.state = "FillingForRead"
          BY <3>2, <3>3, <3>6 DEF SameRequest
        <5> QED BY <4>4, <5>1, <5>2 DEF Answers
      <4>6. Holds(e, r, lost) BY <2>4, <3>3, <3>6 DEF Holds, Unanswered, SameRequest
      <4> QED BY <1>2, <2>6, <3>3, <3>4, <3>5, <4>4, <4>5, <4>6 DEF CacheInv
    <3>7. CASE d.state # "FillingForRead" \/ d.dataSent
      <4>1. e = d BY <3>3, <3>7
      <4>2. Answers(d, r, lost, m) BY <3>2 DEF Answers
      <4>3. Collected(d, d.length + WordUnits) BY <3>7 DEF Collected
      <4> QED BY <1>2, <2>4, <2>6, <3>4, <3>5, <4>1, <4>2, <4>3 DEF CacheInv
    <3> QED BY <3>6, <3>7
  <2> QED BY <2>5, <2>6
<1> QED BY <1>1, <1>2

\* What it makes of the bus: m1, n1 are the transfers that the caches asked for before the
\* edge, m2, n2 those they ask for after it.
BusKeeps(b, e) == e.line = b.line /\ e.offset = b.offset
BusGoesOn(b, e) == e.line = b.line /\ e.offset = (b.offset + WordUnits) % LineUnits
BusTakes(t, e) == t.req /\ e.line = t.line /\ e.offset = t.offset
BusPrepares(b, t1, t2, latency, e) ==
  e.state = latency => \/ b.state = latency /\ BusKeeps(b, e)
                       \/ BusTakes(t1, e)
                       \/ BusTakes(t2, e)
BusData(b, e) == e.dData = b.dData /\ e.iData = b.iData

LEMMA BusStarts ==
  ASSUME NEW b, NEW d, NEW i, BusShape(b), b.state = "Idle"
  PROVE  LET e == BusGetRequest(b, d, i)
         IN  /\ BusShape(e) /\ BusData(b, e) /\ SameAcks(b, e)
             /\ e.state \in {"Idle", "ReadLatency", "WriteLatency", "InstructionLatency"}
             /\ e.state \in {"ReadLatency", "WriteLatency"} => BusTakes(d, e)
             /\ e.state = "InstructionLatency" => BusTakes(i, e)
<1>1. CASE i.req BY <1>1 DEF BusGetRequest, Started, BusShape, SameAcks, BusData, BusTakes
<1>2. CASE ~ i.req /\ d.req /\ d.write
  BY <1>2 DEF BusGetRequest, Started, BusShape, SameAcks, BusData, BusTakes
<1>3. CASE ~ i.req /\ d.req /\ ~ d.write
  BY <1>3 DEF BusGetRequest, Started, BusShape, SameAcks, BusData, BusTakes
<1>4. CASE ~ i.req /\ ~ d.req
  BY <1>4 DEF BusGetRequest, Started, BusShape, SameAcks, BusData
<1> QED BY <1>1, <1>2, <1>3, <1>4

BusAcks(b, e) ==
  /\ b.state = "ReadLatency" /\ SendsData(b) => e.dAck = TRUE
  /\ b.state = "InstructionLatency" /\ SendsInstructions(b) => e.iAck = TRUE
  /\ e.dAck /\ ~ SendsData(b) => b.dAck \/ b.state = "WriteLatency"
  /\ e.iAck /\ ~ SendsInstructions(b) => b.iAck

LEMMA BusRises ==
  ASSUME NEW b, NEW m1, NEW n1, NEW m2, NEW n2, NEW s, NEW a, NEW e,
         BusShape(b), b.state \in BusStates,
         a = BusOnFrontEdge(b, m1, n1, s), e = a \/ e = BusAsync(a, m2, n2)
  PROVE  /\ SendsData(b) => e.dData = Units(s[b.line], b.offset, WordUnits)
         /\ SendsInstructions(b) => e.iData = Units(s[b.line], b.offset, WordUnits)
         /\ e.state = "Reading" => SendsData(b) /\ BusGoesOn(b, e)
         /\ e.state = "Fetching" => SendsInstructions(b) /\ BusGoesOn(b, e)
         /\ e.state = "Writing" => /\ b.state \in {"WriteLatency", "Writing"}
                                   /\ BusKeeps(b, e) /\ e.length = b.length
         /\ BusPrepares(b, m1, m2, "ReadLatency", e) /\ BusPrepares(b, m1, m2, "WriteLatency", e)
         /\ BusPrepares(b, n1, n2, "InstructionLatency", e)
         /\ BusAcks(b, e) /\ (b.state = "Writing" => e.state = "Writing")
<1> USE DEF SendsData, SendsInstructions, LatencyOver
<1>1. /\ BusShape(a)
      /\ SendsData(b) => a.dData = Units(s[b.line], b.offset, WordUnits)
      /\ SendsInstructions(b) => a.iData = Units(s[b.line], b.offset, WordUnits)
      /\ a.state = "Reading" => SendsData(b) /\ BusGoesOn(b, a)
      /\ a.state = "Fetching" => SendsInstructions(b) /\ BusGoesOn(b, a)
      /\ a.state = "Writing" => /\ b.state \in {"WriteLatency", "Writing"}
                                /\ BusKeeps(b, a) /\ a.length = b.length
      /\ BusPrepares(b, m1, m2, "ReadLatency", a) /\ BusPrepares(b, m1, m2, "WriteLatency", a)
      /\ BusPrepares(b, n1, n2, "InstructionLatency", a)
      /\ BusAcks(b, a) /\ (b.state = "Writing" => a.state = "Writing")
  <2>0. BusShape(a) BY BusOnFrontEdgeStep
  <2>1. CASE b.state = "Idle"
    <3> DEFINE g == BusGetRequest(b, m1, n1)
    <3>1. a = [g EXCEPT !.dAck = FALSE] BY <2>1 DEF BusOnFrontEdge
    <3>2. /\ BusShape(g)
          /\ g.state \in {"Idle", "ReadLatency", "WriteLatency", "InstructionLatency"}
          /\ g.state \in {"ReadLatency", "WriteLatency"} => BusTakes(m1, g)
          /\ g.state = "InstructionLatency" => BusTakes(n1, g)
          /\ SameAcks(b, g)
      BY <2>1, BusStarts
    <3> HIDE DEF g
    <3>3. a.state = g.state /\ a.line = g.line /\ a.offset = g.offset /\ a.dAck = FALSE /\ a.iAck = b.iAck
      BY <3>1, <3>2 DEF BusShape, SameAcks
    <3> QED BY <2>0, <2>1, <3>2, <3>3 DEF BusPrepares, BusTakes, BusAcks
  <2>2. CASE b.state \in {"WriteLatency", "Writing"}
    <3>1. /\ a.state \in {"WriteLatency", "Writing"} /\ BusKeeps(b, a) /\ a.length = b.length
          /\ a.state = "WriteLatency" => b.state = "WriteLatency"
          /\ b.state = "Writing" => a.state = "Writing" /\ a.dAck = FALSE
          /\ a.iAck = b.iAck
      BY <2>2 DEF BusOnFrontEdge, BusShape, BusKeeps
    <3> QED BY <2>0, <2>2, <3>1 DEF BusPrepares, BusAcks
  <2>3. CASE b.state \in {"ReadLatency", "Reading"} /\ SendsData(b)
    <3>1. /\ a.state \in {"Idle", "Reading"} /\ BusGoesOn(b, a)
          /\ a.dData = Units(s[b.line], b.offset, WordUnits)
          /\ a.dAck = (b.state = "ReadLatency") /\ a.iAck = b.iAck
      BY <2>3 DEF BusOnFrontEdge, ReadWord, Advanced, LineComplete, BusShape, BusGoesOn
    <3> QED BY <2>0, <2>3, <3>1 DEF BusPrepares, BusAcks
  <2>4. CASE b.state \in {"InstructionLatency", "Fetching"} /\ SendsInstructions(b)
    <3>1. /\ a.state \in {"Idle", "Fetching"} /\ BusGoesOn(b, a)
          /\ a.iData = Units(s[b.line], b.offset, WordUnits)
          /\ a.iAck = (b.state = "InstructionLatency") /\ a.dAck = b.dAck
      BY <2>4 DEF BusOnFrontEdge, FetchWord, Advanced, LineComplete, BusShape, BusGoesOn
    <3> QED BY <2>0, <2>4, <3>1 DEF BusPrepares, BusAcks
  <2>5. CASE b.state \in {"ReadLatency", "InstructionLatency"} /\ ~ LatencyOver(b)
    <3>1. a.state = b.state /\ BusKeeps(b, a) /\ SameAcks(b, a)
      BY <2>5 DEF BusOnFrontEdge, BusShape, BusKeeps, SameAcks
    <3> QED BY <2>0, <2>5, <3>1 DEF BusPrepares, BusAcks, SameAcks
  <2> QED BY <2>1, <2>2, <2>3, <2>4, <2>5 DEF BusStates
<1>2. CASE e = a BY <1>1, <1>2
<1>3. CASE e # a
  <2>1. e = BusGetRequest(a, m2, n2) /\ a.state = "Idle" BY <1>3 DEF BusAsync
  <2>2. /\ BusShape(e) /\ BusData(a, e) /\ SameAcks(a, e)
        /\ e.state \in {"Idle", "ReadLatency", "WriteLatency", "InstructionLatency"}
        /\ e.state \in {"ReadLatency", "WriteLatency"} => BusTakes(m2, e)
        /\ e.state = "InstructionLatency" => BusTakes(n2, e)
    BY <1>1, <2>1, BusStarts
  <2> QED BY <1>1, <2>1, <2>2 DEF BusPrepares, BusData, BusAcks, SameAcks
<1> QED BY <1>2, <1>3

\* The data cache and the bus: a line that leaves, and the memory the program sees.
LEMMA RiseLeaves ==
  ASSUME NEW c, NEW q, NEW e, NEW b, NEW f, NEW m, NEW requests,
         Asking(c), Directory(c, requests), Clean(c, m), Leaving(c, b, m),
         IF c.state = "Idle" THEN IdlePlaces(c, e) ELSE RisePlaces(c, q, e),
         Gone(c) => Gone(e), Directory(e, requests),
         b.state = "Writing" <=> c.state = "Ejecting" /\ ~ c.waitingForAck,
         b.state = "Writing" => c.length = b.length /\ f.state = "Writing",
         b.state = "WriteLatency" => c.state = "Ejecting" /\ c.waitingForAck /\ b.length = 0,
         Prepares(b, c, "WriteLatency"),
         f.state = "Writing" => /\ b.state \in {"WriteLatency", "Writing"}
                                /\ BusKeeps(b, f) /\ f.length = b.length
  PROVE  /\ Leaving(e, f, m)
         /\ f.state = "Writing" =>
              e.mem.data = Units(e.storage[e.bankToReplace], f.offset, WordUnits)
<1> DEFINE v == c.bankToReplace
<1>1. CASE c.state = "Idle"
  <2>1. IdlePlaces(c, e) /\ f.state # "Writing" BY <1>1
  <2>2. e.state \notin {"Ejecting"} BY <2>1 DEF IdlePlaces, AfterEjects
  <2>3. ASSUME e.state \in AfterEjects, NEW l \in Lines, HoldsLine(e, e.bankToReplace, l)
        PROVE  m[l] = e.storage[e.bankToReplace]
    <3>1. /\ c.directory[e.bankToReplace].line = l /\ l # None /\ ~ IsDirty(c, e.bankToReplace)
          /\ HoldsLine(c, e.bankToReplace, l)
      BY <2>1, <2>3, LinesAreNotNone DEF IdlePlaces, HoldsLine, SameLines
    <3>2. ~ c.directory[e.bankToReplace].dirty BY <3>1 DEF IsDirty
    <3> QED BY <2>1, <3>1, <3>2 DEF Clean, IdlePlaces, SameLines
  <2> QED BY <2>1, <2>2, <2>3 DEF Leaving
<1>2. CASE c.state = "Eject"
  <2>1. /\ f.state # "Writing" /\ e.state = "Ejecting" /\ e.lineOffset = WordUnits
        /\ e.length = WordUnits /\ e.mem.line = c.directory[v].line /\ e.mem.offset = 0
        /\ e.mem.data = Units(c.storage[v], 0, WordUnits) /\ SameLines(c, e) /\ e.bankToReplace = v
    BY <1>2 DEF RisePlaces, SameRequest
  <2>2. WordUnits = Wrapped(WordUnits) /\ WordUnits \in WholeWords
    BY ZeroWord, Sizes DEF Wrapped
  <2> QED BY <2>1, <2>2 DEF Leaving, SameLines, AfterEjects
<1>3. CASE c.state = "Ejecting" /\ c.waitingForAck
  <2>1. /\ e.state = "Ejecting" /\ SamePlace(c, e) /\ SameLines(c, e) /\ e.bankToReplace = v
    BY <1>3 DEF RisePlaces, SameRequest
  <2>2. /\ c.mem.line = c.directory[v].line /\ c.lineOffset = Wrapped(c.length)
        /\ c.length \in WholeWords
        /\ c.mem.offset = 0 /\ c.mem.data = Units(c.storage[v], 0, WordUnits)
    BY <1>3 DEF Leaving
  <2>3. f.state = "Writing" => b.state = "WriteLatency" /\ f.line = b.line /\ f.offset = b.offset
                              /\ f.length = 0
    BY <1>3 DEF BusKeeps
  <2>4. f.state = "Writing" => f.line = c.directory[v].line /\ f.offset = 0 /\ f.length = 0
    BY <2>2, <2>3 DEF Prepares
  <2>5. ~ Gone(e) /\ IsDirty(e, v) BY <2>1 DEF Gone, Filling, Directory
  <2>6. 0 \in WholeWords /\ 0 # LineUnits /\ \A u \in Unit : ~ (u < 0)
    BY ZeroWord, Sizes DEF Unit
  <2> QED BY <2>1, <2>2, <2>4, <2>5, <2>6 DEF Leaving, SameLines, SamePlace, AfterEjects
<1>4. CASE c.state = "Ejecting" /\ ~ c.waitingForAck
  <2>1. /\ SameLines(c, e) /\ SameRequest(c, e)
        /\ e.lineOffset = (c.lineOffset + WordUnits) % LineUnits
        /\ e.length = c.length + WordUnits /\ e.mem.line = c.mem.line
        /\ e.mem.data = Units(c.storage[v], c.lineOffset, WordUnits) /\ e.waitingForAck = FALSE
        /\ e.state = IF e.length = LineUnits THEN AfterEject(c.request) ELSE "Ejecting"
    BY <1>4 DEF RisePlaces
  <2>2. /\ b.state = "Writing" /\ f.state = "Writing" /\ c.length = b.length
        /\ BusKeeps(b, f) /\ f.length = b.length
    BY <1>4
  <2>3. /\ c.mem.line = c.directory[v].line /\ c.lineOffset = Wrapped(c.length)
        /\ b.line = c.directory[v].line /\ IsDirty(c, v)
        /\ b.offset = b.length /\ b.length \in WholeWords /\ b.length # LineUnits
        /\ \A u \in Unit : u < b.length => m[b.line][u] = c.storage[v][u]
    BY <1>4, <2>2 DEF Leaving
  <2>4. c.lineOffset = c.length /\ c.length \in 0 .. LineUnits /\ c.length < LineUnits
    BY <2>2, <2>3, Sizes DEF Wrapped, WholeWords
  <2>5. c.length + WordUnits \in WholeWords BY <2>2, <2>3, NextWord
  <2>6. e.lineOffset = Wrapped(e.length)
    <3>1. c.length + WordUnits \in 0 .. LineUnits BY <2>5 DEF WholeWords
    <3> QED BY <2>1, <2>4, <3>1, Sizes DEF Wrapped
  <2>7. ~ Gone(e) BY <2>1 DEF Gone, Filling, AfterEject, SameRequest
  <2> QED BY <2>1, <2>2, <2>3, <2>4, <2>5, <2>6, <2>7
        DEF Leaving, SameLines, SameRequest, BusKeeps, IsDirty
<1>5. CASE c.state \in AfterEjects \cup Filling
  <2>1. f.state # "Writing" /\ b.state # "Writing" BY <1>5 DEF AfterEjects, Filling
  <2>2. SameLines(c, e) /\ SameRequest(c, e) /\ e.state # "Ejecting"
    BY <1>5 DEF RisePlaces, AfterEjects, Filling
  <2>3. e.state \in AfterEjects => c.state \in AfterEjects
    BY <1>5 DEF RisePlaces, AfterEjects, Filling
  <2>4. \A l \in Lines : HoldsLine(e, v, l) => HoldsLine(c, v, l)
    BY <2>2 DEF HoldsLine, SameLines, SameRequest
  <2> QED BY <2>1, <2>2, <2>3, <2>4 DEF Leaving, SameLines, SameRequest
<1> QED BY <1>1, <1>2, <1>3, <1>4, <1>5 DEF Asking, CacheStates

LEMMA RiseCurrent ==
  ASSUME NEW c, NEW q, NEW r, NEW e, NEW b, NEW m, NEW stored, NEW requests,
         Asking(c), CacheInv(c, q, FALSE, requests, m), Leaving(c, b, m), Current(c, q, m, stored),
         IF c.state = "Idle" THEN IdlePlaces(c, e) ELSE RisePlaces(c, q, e),
         b.state = "Writing" => c.state = "Ejecting", r = q \/ ~ q.req
  PROVE  Current(e, r, m, stored)
<1>1. SameLines(c, e) BY DEF IdlePlaces, RisePlaces
<1>2. /\ Gone(c) => Gone(e) /\ e.bankToReplace = c.bankToReplace
      /\ Gone(e) /\ ~ Gone(c) => /\ c.state \in {"FillForRead", "FillForWrite"}
                                 /\ e.bankToReplace = c.bankToReplace
  <2>1. CASE c.state = "Idle" BY <2>1 DEF IdlePlaces, Gone
  <2>2. CASE c.state # "Idle"
    BY <2>2 DEF RisePlaces, SameRequest, Gone, Filling, Asking, CacheStates, AfterEjects, AfterEject
  <2> QED BY <2>1, <2>2
<1>3. \A x \in Banks, l \in Lines : HoldsLine(e, x, l) => HoldsLine(c, x, l)
  BY <1>1, <1>2 DEF HoldsLine, SameLines
<1>4. \A l, x : Stored(q, l, x, stored) => Stored(r, l, x, stored) BY DEF Stored
<1>5. ASSUME NEW l \in Lines, \A x \in Banks : ~ HoldsLine(e, x, l)
      PROVE  m[l] = stored[l]
  <2>1. CASE \A x \in Banks : ~ HoldsLine(c, x, l) BY <2>1 DEF Current
  <2>2. ASSUME NEW x \in Banks, HoldsLine(c, x, l) PROVE m[l] = stored[l]
    <3>1. /\ c.directory[x].line = l /\ x = c.bankToReplace
          /\ c.state \in {"FillForRead", "FillForWrite"}
      BY <1>1, <1>2, <1>5, <2>2 DEF HoldsLine, SameLines
    <3>2. m[l] = c.storage[x] BY <2>2, <3>1 DEF Leaving, AfterEjects
    <3>3. Stored(q, l, c.storage[x], stored) BY <2>2 DEF Current
    <3>4. l # q.line
      BY <3>1 DEF CacheInv, Directory, Holds, Unanswered
    <3> QED BY <3>2, <3>3, <3>4 DEF Stored
  <2> QED BY <2>1, <2>2
<1>6. \A x \in Banks : e.directory[x].line # None /\ e.directory[x].dirty => e.directory[x].line \in Written
  BY <1>1 DEF Current, SameLines
<1> QED BY <1>1, <1>3, <1>4, <1>5, <1>6 DEF Current, SameLines

\* The bus sends the words from the place where the cache is.
LEMMA SentFromPlace ==
  ASSUME NEW c, NEW b, NEW m, NEW reading, NEW latency,
         Asking(c), Arriving(c, m), SendsTo(b, c, reading), Prepares(b, c, latency),
         c.state \in Filling, b.state = reading \/ (b.state = latency /\ c.waitingForAck)
  PROVE  /\ b.line = c.mem.line /\ b.offset = c.lineOffset /\ c.mem.line = c.request.line
         /\ (c.lineOffset + WordUnits) % LineUnits = Wrapped(c.lineOffset + WordUnits)
<1>1. /\ c.mem.offset \in WholeWords /\ c.mem.offset # LineUnits /\ c.mem.offset \in Nat
      /\ c.mem.offset < LineUnits
      /\ c.length \in WholeWords /\ c.length # LineUnits
      /\ c.lineOffset = Wrapped(c.mem.offset + c.length) /\ c.mem.line = c.request.line
  <2>1. c.mem.offset \in WholeWords /\ c.mem.offset \in Unit BY DEF Arriving
  <2>2. c.mem.offset \in Nat /\ c.mem.offset < LineUnits BY <2>1, Sizes DEF Unit
  <2> QED BY <2>1, <2>2, Sizes DEF Arriving
<1>2. (c.lineOffset + WordUnits) % LineUnits = Wrapped(c.lineOffset + WordUnits)
  BY <1>1, WrapWord
<1>3. CASE b.state = reading BY <1>1, <1>2, <1>3 DEF SendsTo
<1>4. CASE b.state = latency /\ c.waitingForAck
  <2>1. c.length = 0 BY <1>4 DEF Asking, Filling
  <2>2. c.lineOffset = c.mem.offset BY <1>1, <2>1 DEF Wrapped
  <2> QED BY <1>1, <1>2, <1>4, <2>2 DEF Prepares
<1> QED BY <1>3, <1>4

\* A cache has been sent a word exactly when the bus sends one on this edge.
LEMMA RiseSends ==
  ASSUME NEW c, NEW e, NEW sends \in BOOLEAN, NEW ack, CountStep(c, e), Asking(e),
         sends => c.state \in Filling /\ (c.waitingForAck => ack),
         ~ sends => ~ (c.state \in Filling /\ ~ c.waitingForAck),
         ~ sends /\ ack => c.waitingForAck /\ c.state \notin Filling
  PROVE  HasSent(e, ack) <=> sends
<1>1. CASE sends
  <2>1. e.state \in Filling /\ (e.waitingForAck => ack)
    <3>1. CASE c.waitingForAck BY <1>1, <3>1 DEF CountStep
    <3>2. CASE ~ c.waitingForAck BY <1>1, <3>2 DEF CountStep
    <3> QED BY <3>1, <3>2
  <2> QED BY <1>1, <2>1 DEF HasSent
<1>2. CASE ~ sends BY <1>2 DEF CountStep, HasSent
<1> QED BY <1>1, <1>2

\* A rising edge.
DataRises == IF dcache.state = "Idle" THEN IdlePlaces(dcache, dcache')
             ELSE RisePlaces(dcache, cpu, dcache')
LEMMA RiseCoherence ==
  ASSUME IInv, CoherenceInv, Rise
  PROVE  CoherenceInv' /\ DataRises
<1> DEFINE sends == SendsData(bus)
           fetches == SendsInstructions(bus)
<1>0. IInv' BY RiseIInv
<1>1. /\ phase = "rise" /\ phase' = "fall" /\ storage' = storage /\ contents' = contents
      /\ dropped' = dropped /\ AtRise /\ BetweenWords(bus, dcache, icache)
      /\ Serving(bus, dcache, icache) /\ BusShape(bus) /\ ReadOnly(icache)
      /\ CacheShape(dcache) /\ CacheShape(icache) /\ Asking(dcache) /\ Asking(icache)
      /\ Asking(dcache') /\ Asking(icache') /\ bus.state \in BusStates
  BY <1>0 DEF Rise, CoherenceInv, IInv, Serving
<1>2. /\ AlignedLoads /\ MemoryTypes
      /\ CacheInv(dcache, cpu, FALSE, DataRequests, storage)
      /\ CacheInv(icache, fetch, dropped, FetchRequests, storage)
      /\ Leaving(dcache, bus, storage) /\ Current(dcache, cpu, storage, contents)
      /\ Prepares(bus, dcache, "ReadLatency") /\ Prepares(bus, dcache, "WriteLatency")
      /\ Prepares(bus, icache, "InstructionLatency")
      /\ Arriving(dcache, storage) /\ Arriving(icache, storage)
  BY DEF CoherenceInv, DataInv, CacheInv
<1>3. /\ dcache.ack = FALSE /\ icache.ack = FALSE
      /\ SendsTo(bus, dcache, "Reading") /\ SendsTo(bus, icache, "Fetching")
      /\ Collected(dcache, dcache.length) /\ Collected(icache, icache.length)
  BY <1>1 DEF AtRise
<1>4. PICK v \in Banks, w \in Banks :
       LET d == OnFrontEdge(dcache, cpu, v)
           i == OnFrontEdge(icache, fetch, w)
           b == BusOnFrontEdge(bus, dcache.mem, icache.mem, storage)
           dServed == IF cpu' # cpu THEN Async(d, cpu', v) ELSE d
           iServed == IF fetch' # fetch THEN Async(i, fetch', w) ELSE i
       IN  /\ dcache' = IF SendsData(bus) THEN Forward(dServed, b.dData) ELSE dServed
           /\ icache' = IF SendsInstructions(bus) THEN Forward(iServed, b.iData) ELSE iServed
           /\ bus' = IF BusWakes(d, i) THEN BusAsync(b, d.mem, i.mem) ELSE b
  BY VictimIsBank DEF Rise
<1> DEFINE d == OnFrontEdge(dcache, cpu, v)
           i == OnFrontEdge(icache, fetch, w)
           b == BusOnFrontEdge(bus, dcache.mem, icache.mem, storage)
           dServed == IF cpu' # cpu THEN Async(d, cpu', v) ELSE d
           iServed == IF fetch' # fetch THEN Async(i, fetch', w) ELSE i
<1>5. /\ dcache' = IF sends THEN Forward(dServed, b.dData) ELSE dServed
      /\ icache' = IF fetches THEN Forward(iServed, b.iData) ELSE iServed
      /\ bus' = b \/ bus' = BusAsync(b, d.mem, i.mem)
      /\ d = OnFrontEdge(dcache, cpu, v) /\ i = OnFrontEdge(icache, fetch, w)
      /\ b = BusOnFrontEdge(bus, dcache.mem, icache.mem, storage)
      /\ dServed = IF cpu' # cpu THEN Async(d, cpu', v) ELSE d
      /\ iServed = IF fetch' # fetch THEN Async(i, fetch', w) ELSE i
  BY <1>4
<1>6. /\ cpu' \in DataRequests \cup {NoRequest} /\ fetch' \in FetchRequests \cup {NoRequest}
      /\ cpu \in DataRequests \cup {NoRequest} /\ fetch \in FetchRequests \cup {NoRequest}
      /\ cpu' = cpu \/ (cpu'.req /\ ~ cpu.req)
      /\ fetch' = fetch \/ (fetch'.req /\ (dropped \/ ~ fetch.req))
  <2>1. cpu \in DataRequests \cup {NoRequest} /\ fetch \in FetchRequests \cup {NoRequest}
    BY <1>2 DEF MemoryTypes
  <2>2. cpu' \in IF cpu.req THEN {cpu} ELSE {cpu} \cup DataRequests
    BY DEF Rise, CpuRequest
  <2>3. fetch' \in IF fetch.req /\ ~ dropped THEN {fetch} ELSE {fetch} \cup FetchRequests
    BY DEF Rise, FetchRequest
  <2>4. \A q \in DataRequests \cup FetchRequests : q.req = TRUE BY RequestShape
  <2> QED BY <2>1, <2>2, <2>3, <2>4
<1> HIDE DEF d, i, b, dServed, iServed, sends, fetches
<1>7. /\ sends => b.dData = Units(storage[bus.line], bus.offset, WordUnits)
      /\ sends => bus'.dData = Units(storage[bus.line], bus.offset, WordUnits)
      /\ fetches => b.iData = Units(storage[bus.line], bus.offset, WordUnits)
      /\ fetches => bus'.iData = Units(storage[bus.line], bus.offset, WordUnits)
      /\ bus'.state = "Reading" => sends /\ BusGoesOn(bus, bus')
      /\ bus'.state = "Fetching" => fetches /\ BusGoesOn(bus, bus')
      /\ bus'.state = "Writing" => /\ bus.state \in {"WriteLatency", "Writing"}
                                   /\ BusKeeps(bus, bus') /\ bus'.length = bus.length
      /\ BusPrepares(bus, dcache.mem, d.mem, "ReadLatency", bus')
      /\ BusPrepares(bus, dcache.mem, d.mem, "WriteLatency", bus')
      /\ BusPrepares(bus, icache.mem, i.mem, "InstructionLatency", bus')
      /\ BusAcks(bus, bus') /\ (bus.state = "Writing" => bus'.state = "Writing")
  BY <1>1, <1>5, BusRises DEF sends, fetches
<1>8. /\ sends \in BOOLEAN /\ fetches \in BOOLEAN
      /\ sends => /\ dcache.state \in Filling
                  /\ bus.state = "Reading" \/ (bus.state = "ReadLatency" /\ dcache.waitingForAck)
      /\ fetches => /\ icache.state \in Filling
                    /\ \/ bus.state = "Fetching"
                       \/ bus.state = "InstructionLatency" /\ icache.waitingForAck
  BY <1>1 DEF sends, fetches, SendsData, SendsInstructions, LatencyOver, BetweenWords, Serving,
    ReadOnly, Asking, Filling
<1>9. /\ sends => /\ bus.line = dcache.mem.line /\ bus.offset = dcache.lineOffset
                  /\ (dcache.lineOffset + WordUnits) % LineUnits = Wrapped(dcache.lineOffset + WordUnits)
      /\ fetches => /\ bus.line = icache.mem.line /\ bus.offset = icache.lineOffset
                    /\ (icache.lineOffset + WordUnits) % LineUnits = Wrapped(icache.lineOffset + WordUnits)
  BY <1>1, <1>2, <1>3, <1>8, SentFromPlace
<1>10. RiseTo(dcache, cpu, cpu', FALSE, DataRequests, storage, sends, dcache') /\ dcache'.mem = d.mem
  <2> DEFINE lost == FALSE
  <2>1. RiseFrom(dcache, cpu, cpu', lost, DataRequests, storage, sends, b.dData)
    BY <1>1, <1>2, <1>3, <1>6, <1>7, <1>8, <1>9 DEF RiseFrom
  <2>2. RiseEdge(dcache, cpu, cpu', v, sends, b.dData, d, dServed, dcache')
    BY <1>5 DEF RiseEdge
  <2> HIDE DEF lost
  <2>3. RiseTo(dcache, cpu, cpu', lost, DataRequests, storage, sends, dcache') /\ dcache'.mem = d.mem
    BY <2>1, <2>2, RiseOfLines
  <2> QED BY <2>3 DEF lost
<1>11. /\ RiseTo(icache, fetch, fetch', dropped, FetchRequests, storage, fetches, icache')
       /\ icache'.mem = i.mem
  <2>1. RiseFrom(icache, fetch, fetch', dropped, FetchRequests, storage, fetches, b.iData)
    BY <1>1, <1>2, <1>3, <1>6, <1>7, <1>8, <1>9 DEF RiseFrom, ReadOnly
  <2>2. RiseEdge(icache, fetch, fetch', w, fetches, b.iData, i, iServed, icache')
    BY <1>5 DEF RiseEdge
  <2> QED BY <2>1, <2>2, RiseOfLines
<1>12. CountStep(dcache, dcache') /\ CountStep(icache, icache')
  <2>1. RiseStep(dcache, dcache')
    <3>1. dServed = d \/ dServed = Async(d, cpu', v) BY <1>5
    <3>2. dcache' = dServed \/ dcache' = Forward(dServed, b.dData) BY <1>5
    <3> QED BY <1>1, <1>5, <3>1, <3>2, RiseOfCache
  <2>2. RiseStep(icache, icache')
    <3>1. iServed = i \/ iServed = Async(i, fetch', w) BY <1>5
    <3>2. icache' = iServed \/ icache' = Forward(iServed, b.iData) BY <1>5
    <3> QED BY <1>1, <1>5, <3>1, <3>2, RiseOfCache
  <2> QED BY <1>1, <2>1, <2>2, RiseCounts
<1>13. /\ HasSent(dcache', bus'.dAck) <=> sends
       /\ HasSent(icache', bus'.iAck) <=> fetches
  <2>1. /\ sends => (dcache.waitingForAck => bus'.dAck)
        /\ ~ sends => ~ (dcache.state \in Filling /\ ~ dcache.waitingForAck)
        /\ ~ sends /\ bus'.dAck => dcache.waitingForAck /\ dcache.state \notin Filling
    BY <1>1, <1>7, <1>8 DEF BusAcks, BetweenWords, Serving, sends, SendsData, Filling
  <2>2. /\ fetches => (icache.waitingForAck => bus'.iAck)
        /\ ~ fetches => ~ (icache.state \in Filling /\ ~ icache.waitingForAck)
        /\ ~ fetches => ~ bus'.iAck
    BY <1>1, <1>7, <1>8 DEF BusAcks, BetweenWords, Serving, fetches, SendsInstructions, Filling
  <2>3. HasSent(dcache', bus'.dAck) <=> sends BY <1>1, <1>8, <1>12, <2>1, RiseSends
  <2>4. HasSent(icache', bus'.iAck) <=> fetches BY <1>1, <1>8, <1>12, <2>2, RiseSends
  <2> QED BY <2>3, <2>4
<1>14. /\ dcache.waitingForAck => /\ dcache'.mem.line = dcache.mem.line
                                 /\ dcache'.mem.offset = dcache.mem.offset
       /\ icache.waitingForAck => /\ icache'.mem.line = icache.mem.line
                                 /\ icache'.mem.offset = icache.mem.offset
       /\ sends => SamePlace(dcache, dcache')
       /\ fetches => SamePlace(icache, icache')
  BY <1>1, <1>8, <1>10, <1>11 DEF RiseTo, RisePlaces, SamePlace, Asking, Filling
<1>15. /\ Prepares(bus', dcache', "ReadLatency") /\ Prepares(bus', dcache', "WriteLatency")
       /\ Prepares(bus', icache', "InstructionLatency")
  <2>1. /\ dcache.mem.req => dcache.waitingForAck
        /\ icache.mem.req => icache.waitingForAck
        /\ bus.state \in {"ReadLatency", "WriteLatency"} => dcache.waitingForAck
        /\ bus.state = "InstructionLatency" => icache.waitingForAck
    BY <1>1 DEF Asking, Serving
  <2> QED BY <1>2, <1>7, <1>10, <1>11, <1>14, <2>1 DEF Prepares, BusPrepares, BusTakes, BusKeeps
<1>16. /\ Leaving(dcache', bus', storage)
       /\ bus'.state = "Writing" =>
            dcache'.mem.data = Units(dcache'.storage[dcache'.bankToReplace], bus'.offset, WordUnits)
  <2>1. Gone(dcache) => Gone(dcache')
    <3>1. CASE dcache.state = "Idle" BY <1>10, <3>1 DEF RiseTo, IdlePlaces
    <3>2. CASE dcache.state # "Idle"
      BY <1>10, <3>2 DEF RiseTo, RisePlaces, SameRequest, Gone, Filling
    <3> QED BY <3>1, <3>2
  <2>2. Directory(dcache, DataRequests) /\ Clean(dcache, storage) /\ Directory(dcache', DataRequests)
    BY <1>2, <1>10 DEF CacheInv, RiseTo
  <2>3. IF dcache.state = "Idle" THEN IdlePlaces(dcache, dcache') ELSE RisePlaces(dcache, cpu, dcache')
    BY <1>10 DEF RiseTo
  <2>4. /\ bus.state = "Writing" <=> dcache.state = "Ejecting" /\ ~ dcache.waitingForAck
        /\ bus.state = "Writing" => dcache.length = bus.length /\ bus'.state = "Writing"
        /\ bus.state = "WriteLatency" =>
             dcache.state = "Ejecting" /\ dcache.waitingForAck /\ bus.length = 0
        /\ bus'.state = "Writing" => /\ bus.state \in {"WriteLatency", "Writing"}
                                     /\ BusKeeps(bus, bus') /\ bus'.length = bus.length
    BY <1>1, <1>7 DEF BetweenWords, Serving
  <2> QED BY <1>1, <1>2, <2>1, <2>2, <2>3, <2>4, RiseLeaves
<1>17. Current(dcache', cpu', storage, contents)
  <2>1. IF dcache.state = "Idle" THEN IdlePlaces(dcache, dcache') ELSE RisePlaces(dcache, cpu, dcache')
    BY <1>10 DEF RiseTo
  <2>2. bus.state = "Writing" => dcache.state = "Ejecting" BY <1>1 DEF BetweenWords
  <2>3. cpu' = cpu \/ ~ cpu.req BY <1>6
  <2> QED BY <1>1, <1>2, <2>1, <2>2, <2>3, RiseCurrent
<1>18. HasSentTo(bus', dcache', "Reading", bus'.dAck, bus'.dData, storage)
  <2>1. sends => /\ bus'.dData = Units(storage[dcache'.mem.line], dcache'.lineOffset, WordUnits)
                 /\ BusGoesOn(bus, bus') =>
                       /\ bus'.line = dcache'.mem.line
                       /\ bus'.offset = Wrapped(dcache'.lineOffset + WordUnits)
    BY <1>7, <1>9, <1>14 DEF SamePlace, BusGoesOn
  <2> QED BY <1>7, <1>10, <1>13, <2>1 DEF HasSentTo, RiseTo
<1>19. HasSentTo(bus', icache', "Fetching", bus'.iAck, bus'.iData, storage)
  <2>1. fetches => /\ bus'.iData = Units(storage[icache'.mem.line], icache'.lineOffset, WordUnits)
                   /\ BusGoesOn(bus, bus') =>
                         /\ bus'.line = icache'.mem.line
                         /\ bus'.offset = Wrapped(icache'.lineOffset + WordUnits)
    BY <1>7, <1>9, <1>14 DEF SamePlace, BusGoesOn
  <2> QED BY <1>7, <1>11, <1>13, <2>1 DEF HasSentTo, RiseTo
<1>20. MemoryTypes' BY <1>1, <1>2, <1>6 DEF MemoryTypes
<1>21. /\ CacheInv(dcache, cpu, FALSE, DataRequests, storage)'
       /\ CacheInv(icache, fetch, dropped, FetchRequests, storage)'
  BY <1>1, <1>10, <1>11 DEF RiseTo
<1>22. DataInv' BY <1>1, <1>15, <1>16, <1>17 DEF DataInv
<1>23. AtFall'
  BY <1>1, <1>10, <1>11, <1>16, <1>18, <1>19 DEF AtFall, RiseTo
<1>24. DataRises BY <1>10 DEF RiseTo, DataRises
<1> QED BY <1>1, <1>2, <1>20, <1>21, <1>22, <1>23, <1>24 DEF CoherenceInv

\* What a falling edge makes of a cache: it stores the word it was sent, does the store that
\* waited for the line, or the one that hit.
After(s, zero, o, d) == IF zero THEN [u \in Unit |-> Zero] ELSE WithUnits(s, o, d)
BankBecomes(c, e, x, l, dirty, s) ==
  /\ e.directory = [c.directory EXCEPT ![x] = [line |-> l, dirty |-> dirty]]
  /\ e.storage = [c.storage EXCEPT ![x] = s]
WritesHit(c, q) == q.req /\ q.write /\ c.hit # None
FallKeeps(c, e) ==
  /\ SameRequest(c, e) /\ e.ack = FALSE
  /\ e.mem.line = c.mem.line /\ e.mem.offset = c.mem.offset /\ e.mem.data = c.mem.data
  /\ e.dataSent = c.dataSent /\ e.dataLength = c.dataLength
Fills(c, beat, e) ==
  LET v == c.bankToReplace
      x == c.directory[v]
      s == WithUnits(c.storage[v], c.lineOffset, beat)
  IN  /\ e.length = c.length + WordUnits
      /\ e.lineOffset = (c.lineOffset + WordUnits) % LineUnits
      /\ IF e.length = LineUnits /\ c.state = "FillingForRead"
         THEN e.state = "Idle" /\ BankBecomes(c, e, v, c.request.line, FALSE, s)
         ELSE /\ e.state = IF e.length = LineUnits THEN "Write" ELSE c.state
              /\ BankBecomes(c, e, v, x.line, x.dirty, s)
StoresMiss(c, q, e) ==
  LET v == c.bankToReplace
  IN  /\ e.state = "Idle"
      /\ BankBecomes(c, e, v, c.request.line, TRUE,
                     After(c.storage[v], c.request.zero, c.request.offset, q.data))
StoresHit(c, q, e) ==
  /\ e.state = "Idle"
  /\ BankBecomes(c, e, c.hit, c.directory[c.hit].line, TRUE,
                 After(c.storage[c.hit], q.zero, q.offset, q.data))
FallPlaces(c, q, ack, beat, e) ==
  /\ FallKeeps(c, e)
  /\ HasSent(c, ack) => Fills(c, beat, e)
  /\ ~ HasSent(c, ack) => e.length = c.length /\ e.lineOffset = c.lineOffset
  /\ c.state = "Write" => StoresMiss(c, q, e)
  /\ WritesHit(c, q) => StoresHit(c, q, e)
  /\ ~ HasSent(c, ack) /\ c.state # "Write" /\ ~ WritesHit(c, q) =>
       e.state = c.state /\ SameLines(c, e)

LEMMA FallOfLines ==
  ASSUME NEW c, NEW q, NEW ack \in BOOLEAN, NEW beat, CacheShape(c), Asking(c),
         c.directory \in [Banks -> [line : Lines \cup {None}, dirty : BOOLEAN]],
         c.storage \in [Banks -> Block], c.bankToReplace \in Banks,
         c.hit # None => c.state = "Idle" /\ c.hit \in Banks
  PROVE  FallPlaces(c, q, ack, beat, OnFallingEdge(c, q, ack, beat))
<1> DEFINE a == IF Acknowledged(c, ack)
                THEN [c EXCEPT !.waitingForAck = FALSE, !.mem.req = FALSE] ELSE c
           v == a.bankToReplace
           d == CASE a.state \in {"FillingForWrite", "FillingForRead"} /\ ~ a.waitingForAck ->
                       FillWord(a, beat)
                  [] a.state = "Write" ->
                       Idle(IF a.request.zero THEN ZeroLine(ReplaceLine(a), v)
                            ELSE Write(ReplaceLine(a), v, a.request.offset, q.data))
                  [] OTHER -> a
           f == IF ~ (q.req /\ q.write /\ a.hit # None) THEN d
                ELSE IF q.zero THEN ZeroLine(d, d.hit) ELSE Write(d, d.hit, q.offset, q.data)
           e == OnFallingEdge(c, q, ack, beat)
<1> SUFFICES FallPlaces(c, q, ack, beat, e) OBVIOUS
<1>1. /\ CacheShape(a) /\ SameLines(c, a) /\ SameRequest(c, a) /\ a.state = c.state
      /\ a.length = c.length /\ a.lineOffset = c.lineOffset /\ a.hit = c.hit
      /\ a.mem.line = c.mem.line /\ a.mem.offset = c.mem.offset /\ a.mem.data = c.mem.data
      /\ a.dataSent = c.dataSent /\ a.dataLength = c.dataLength
      /\ a.waitingForAck = (c.waitingForAck /\ ~ ack)
  BY DEF CacheShape, SameLines, SameRequest, Asking, Acknowledged
<1>2. e = [f EXCEPT !.ack = FALSE] BY DEF OnFallingEdge
<1>3. /\ v \in Banks /\ v = c.bankToReplace
      /\ a.directory \in [Banks -> [line : Lines \cup {None}, dirty : BOOLEAN]]
      /\ a.storage \in [Banks -> Block]
  BY <1>1 DEF SameLines, SameRequest
<1> HIDE DEF a, v
<1>0. /\ HasSent(c, ack) => c.state # "Write" /\ ~ WritesHit(c, q)
      /\ WritesHit(c, q) => c.state # "Write"
  BY DEF HasSent, Filling, WritesHit
<1>4. CASE HasSent(c, ack)
  <2> DEFINE s == WithUnits(a.storage[v], a.lineOffset, beat)
             n == a.length + WordUnits
             g == [a EXCEPT !.storage[a.bankToReplace] = WithUnits(@, a.lineOffset, beat),
                            !.lineOffset = (@ + WordUnits) % LineUnits, !.length = n]
  <2>1. f = d /\ d = FillWord(a, beat)
    BY <1>1, <1>4 DEF HasSent, Filling
  <2>2. FillWord(a, beat) = IF ~ LineComplete(n) THEN g
                           ELSE IF a.state = "FillingForWrite" THEN [g EXCEPT !.state = "Write"]
                           ELSE Idle(ReplaceLine(g))
    BY DEF FillWord
  <2>3. /\ CacheShape(g) /\ g.directory = a.directory /\ g.storage = [a.storage EXCEPT ![v] = s]
        /\ g.length = n /\ g.lineOffset = (a.lineOffset + WordUnits) % LineUnits
        /\ g.state = a.state /\ SameRequest(a, g) /\ g.mem = a.mem
        /\ g.dataSent = a.dataSent /\ g.dataLength = a.dataLength
    BY <1>1 DEF CacheShape, SameRequest, v
  <2> HIDE DEF d, f, g, s, e
  <2>4. CASE ~ LineComplete(n) \/ a.state = "FillingForWrite"
    <3>1. /\ f.directory = a.directory /\ f.storage = [a.storage EXCEPT ![v] = s]
          /\ f.length = n /\ f.lineOffset = (a.lineOffset + WordUnits) % LineUnits
          /\ f.state = (IF LineComplete(n) THEN "Write" ELSE a.state)
          /\ SameRequest(a, f) /\ f.mem = a.mem /\ CacheShape(f)
          /\ f.dataSent = a.dataSent /\ f.dataLength = a.dataLength
      BY <2>1, <2>2, <2>3, <2>4 DEF CacheShape, SameRequest
    <3>2. /\ e.directory = f.directory /\ e.storage = f.storage /\ e.length = f.length
          /\ e.lineOffset = f.lineOffset /\ e.state = f.state /\ SameRequest(f, e)
          /\ e.mem = f.mem /\ e.dataSent = f.dataSent /\ e.dataLength = f.dataLength
          /\ e.ack = FALSE
      BY <1>2, <3>1 DEF CacheShape, SameRequest
    <3>3. a.directory = [a.directory EXCEPT ![v] = [line |-> a.directory[v].line,
                                                    dirty |-> a.directory[v].dirty]]
      BY <1>3
    <3>4. BankBecomes(c, e, v, c.directory[v].line, c.directory[v].dirty, s)
      BY <1>1, <3>1, <3>2, <3>3 DEF BankBecomes, SameLines
    <3>5. FallKeeps(c, e) BY <1>1, <3>1, <3>2 DEF FallKeeps, SameRequest
    <3>6. s = WithUnits(c.storage[c.bankToReplace], c.lineOffset, beat)
      BY <1>1, <1>3 DEF SameLines, s
    <3>7. /\ e.length = c.length + WordUnits /\ n = e.length
          /\ e.lineOffset = (c.lineOffset + WordUnits) % LineUnits
          /\ e.state = IF e.length = LineUnits THEN "Write" ELSE c.state
          /\ ~ (e.length = LineUnits /\ c.state = "FillingForRead")
      BY <1>1, <2>4, <3>1, <3>2 DEF LineComplete
    <3> HIDE DEF n
    <3>8. Fills(c, beat, e) BY <1>3, <3>4, <3>6, <3>7 DEF Fills
    <3> QED BY <1>4, <3>5, <3>8, <1>0 DEF FallPlaces
  <2>5. CASE LineComplete(n) /\ a.state # "FillingForWrite"
    <3>1. f = Idle(ReplaceLine(g)) BY <2>1, <2>2, <2>5
    <3>2. /\ f.directory = [g.directory EXCEPT ![v] = [line |-> a.request.line, dirty |-> FALSE]]
          /\ f.storage = g.storage /\ f.length = n /\ f.lineOffset = g.lineOffset
          /\ f.state = "Idle" /\ SameRequest(a, f) /\ f.mem = a.mem /\ CacheShape(f)
          /\ f.dataSent = a.dataSent /\ f.dataLength = a.dataLength
      BY <2>3, <3>1 DEF Idle, ReplaceLine, CacheShape, SameRequest, v
    <3>3. /\ e.directory = f.directory /\ e.storage = f.storage /\ e.length = f.length
          /\ e.lineOffset = f.lineOffset /\ e.state = f.state /\ SameRequest(f, e)
          /\ e.mem = f.mem /\ e.dataSent = f.dataSent /\ e.dataLength = f.dataLength
          /\ e.ack = FALSE
      BY <1>2, <3>2 DEF CacheShape, SameRequest
    <3>4. BankBecomes(c, e, v, c.request.line, FALSE, s)
      BY <1>1, <2>3, <3>2, <3>3 DEF BankBecomes, SameLines, SameRequest
    <3>5. FallKeeps(c, e) BY <1>1, <3>2, <3>3 DEF FallKeeps, SameRequest
    <3>6. s = WithUnits(c.storage[c.bankToReplace], c.lineOffset, beat)
      BY <1>1, <1>3 DEF SameLines, s
    <3>7. /\ e.length = c.length + WordUnits /\ n = e.length
          /\ e.lineOffset = (c.lineOffset + WordUnits) % LineUnits
          /\ e.state = "Idle" /\ e.length = LineUnits /\ c.state = "FillingForRead"
      BY <1>1, <1>4, <2>3, <2>5, <3>2, <3>3 DEF LineComplete, HasSent, Filling
    <3> HIDE DEF n
    <3>8. Fills(c, beat, e) BY <1>3, <3>4, <3>6, <3>7 DEF Fills
    <3> QED BY <1>4, <3>5, <3>8, <1>0 DEF FallPlaces
  <2> QED BY <2>4, <2>5
<1>5. CASE c.state = "Write"
  <2> DEFINE g == ReplaceLine(a)
             o == a.request.offset
             s == After(a.storage[v], a.request.zero, o, q.data)
  <2>1. f = Idle(IF a.request.zero THEN ZeroLine(g, v) ELSE Write(g, v, o, q.data))
    BY <1>1, <1>5
  <2>2. /\ CacheShape(g) /\ g.directory = [a.directory EXCEPT ![v] = [line |-> a.request.line, dirty |-> FALSE]]
        /\ g.storage = a.storage /\ g.length = a.length /\ g.lineOffset = a.lineOffset
        /\ SameRequest(a, g) /\ g.mem = a.mem
        /\ g.dataSent = a.dataSent /\ g.dataLength = a.dataLength
    BY <1>1 DEF ReplaceLine, CacheShape, SameRequest, v
  <2> HIDE DEF d, f, g, o, s, e
  <2>3. /\ f.directory = [g.directory EXCEPT ![v].dirty = TRUE]
        /\ f.storage = [a.storage EXCEPT ![v] = s] /\ f.state = "Idle"
        /\ f.length = a.length /\ f.lineOffset = a.lineOffset
        /\ SameRequest(a, f) /\ f.mem = a.mem /\ CacheShape(f)
        /\ f.dataSent = a.dataSent /\ f.dataLength = a.dataLength
    <3>1. CASE a.request.zero
      BY <2>1, <2>2, <3>1 DEF Idle, ZeroLine, CacheShape, SameRequest, After, s
    <3>2. CASE ~ a.request.zero
      BY <2>1, <2>2, <3>2 DEF Idle, Write, CacheShape, SameRequest, After, s
    <3> QED BY <3>1, <3>2
  <2>4. f.directory = [a.directory EXCEPT ![v] = [line |-> a.request.line, dirty |-> TRUE]]
    BY <1>3, <2>2, <2>3
  <2>5. /\ e.directory = f.directory /\ e.storage = f.storage /\ e.length = f.length
        /\ e.lineOffset = f.lineOffset /\ e.state = f.state /\ SameRequest(f, e)
        /\ e.mem = f.mem /\ e.dataSent = f.dataSent /\ e.dataLength = f.dataLength
        /\ e.ack = FALSE
    BY <1>2, <2>3 DEF CacheShape, SameRequest
  <2>6. BankBecomes(c, e, v, c.request.line, TRUE, s)
    BY <1>1, <2>3, <2>4, <2>5 DEF BankBecomes, SameLines, SameRequest
  <2>7. FallKeeps(c, e) BY <1>1, <2>3, <2>5 DEF FallKeeps, SameRequest
  <2>8. /\ s = After(c.storage[c.bankToReplace], c.request.zero, c.request.offset, q.data)
        /\ e.length = c.length /\ e.lineOffset = c.lineOffset /\ e.state = "Idle"
    BY <1>1, <1>3, <2>3, <2>5 DEF SameLines, SameRequest, s, o
  <2>9. StoresMiss(c, q, e) BY <1>3, <2>6, <2>8 DEF StoresMiss
  <2> QED BY <1>5, <2>7, <2>8, <2>9, <1>0 DEF FallPlaces
<1>6. CASE WritesHit(c, q)
  <2>0. c.state = "Idle" /\ c.hit \in Banks BY <1>6 DEF WritesHit
  <2> DEFINE x == c.hit
             s == After(a.storage[x], q.zero, q.offset, q.data)
  <2>1. d = a BY <1>1, <2>0
  <2>2. f = IF q.zero THEN ZeroLine(a, x) ELSE Write(a, x, q.offset, q.data)
    BY <1>1, <1>6, <2>1 DEF WritesHit
  <2> HIDE DEF d, f, e, s, x
  <2>3. /\ f.directory = [a.directory EXCEPT ![x].dirty = TRUE]
        /\ f.storage = [a.storage EXCEPT ![x] = s] /\ f.state = a.state
        /\ f.length = a.length /\ f.lineOffset = a.lineOffset
        /\ SameRequest(a, f) /\ f.mem = a.mem /\ CacheShape(f)
        /\ f.dataSent = a.dataSent /\ f.dataLength = a.dataLength
    <3>1. CASE q.zero
      BY <1>1, <2>2, <3>1 DEF ZeroLine, CacheShape, SameRequest, After, s
    <3>2. CASE ~ q.zero
      BY <1>1, <2>2, <3>2 DEF Write, CacheShape, SameRequest, After, s
    <3> QED BY <3>1, <3>2
  <2>4. f.directory = [a.directory EXCEPT ![x] = [line |-> a.directory[x].line, dirty |-> TRUE]]
    <3>1. x \in Banks BY <2>0 DEF x
    <3>2. a.directory[x] \in [line : Lines \cup {None}, dirty : BOOLEAN] BY <1>3, <3>1
    <3>3. \A r \in [line : Lines \cup {None}, dirty : BOOLEAN] :
            [r EXCEPT !.dirty = TRUE] = [line |-> r.line, dirty |-> TRUE]
      <4> TAKE r \in [line : Lines \cup {None}, dirty : BOOLEAN]
      <4> DEFINE p == [r EXCEPT !.dirty = TRUE]
      <4>1. p \in [line : Lines \cup {None}, dirty : BOOLEAN] /\ p.line = r.line /\ p.dirty = TRUE
        OBVIOUS
      <4> HIDE DEF p
      <4>2. p = [line |-> r.line, dirty |-> TRUE] BY <4>1
      <4> QED BY <4>2 DEF p
    <3> QED BY <2>3, <3>2, <3>3
  <2>5. /\ e.directory = f.directory /\ e.storage = f.storage /\ e.length = f.length
        /\ e.lineOffset = f.lineOffset /\ e.state = f.state /\ SameRequest(f, e)
        /\ e.mem = f.mem /\ e.dataSent = f.dataSent /\ e.dataLength = f.dataLength
        /\ e.ack = FALSE
    BY <1>2, <2>3 DEF CacheShape, SameRequest
  <2>6. BankBecomes(c, e, x, c.directory[x].line, TRUE, s)
    BY <1>1, <2>3, <2>4, <2>5 DEF BankBecomes, SameLines, SameRequest
  <2>7. FallKeeps(c, e) BY <1>1, <2>3, <2>5 DEF FallKeeps, SameRequest
  <2>8. /\ s = After(c.storage[c.hit], q.zero, q.offset, q.data) /\ x = c.hit
        /\ e.length = c.length /\ e.lineOffset = c.lineOffset /\ e.state = "Idle"
    BY <1>1, <2>0, <2>3, <2>5 DEF SameLines, SameRequest, s, x
  <2>9. StoresHit(c, q, e) BY <2>6, <2>8 DEF StoresHit
  <2> QED BY <1>6, <2>7, <2>8, <2>9, <1>0 DEF FallPlaces
<1>7. CASE ~ HasSent(c, ack) /\ c.state # "Write" /\ ~ WritesHit(c, q)
  <2>1. d = a BY <1>1, <1>7 DEF HasSent, Filling
  <2>2. f = a BY <1>1, <1>7, <2>1 DEF WritesHit
  <2> HIDE DEF d, f, e
  <2>3. /\ FallKeeps(c, e) /\ e.length = c.length /\ e.lineOffset = c.lineOffset
        /\ e.state = c.state /\ SameLines(c, e)
    BY <1>1, <1>2, <2>2 DEF FallKeeps, SameRequest, SameLines, CacheShape
  <2> QED BY <1>7, <2>3 DEF FallPlaces
<1> QED BY <1>4, <1>5, <1>6, <1>7

\* A falling edge, for either cache: m2 is what memory m becomes, q2 what becomes of request q.
Unrelated(c, m, m2) ==
  /\ c.state # "Idle" => m2[c.request.line] = m[c.request.line]
  /\ \A x \in Banks, l \in Lines :
       HoldsLine(c, x, l) /\ ~ c.directory[x].dirty => m2[l] = m[l]
FallFrom(c, q, lost, requests, ack, beat, m, m2) ==
  /\ requests \subseteq DataRequests \cup FetchRequests
  /\ lost => \A r \in requests : ~ r.write
  /\ q \in requests \cup {NoRequest}
  /\ Asking(c) /\ CacheInv(c, q, lost, requests, m) /\ Answers(c, q, lost, m)
  /\ Collected(c, IF HasSent(c, ack) THEN c.length + WordUnits ELSE c.length)
  /\ HasSent(c, ack) => beat = Units(m[c.mem.line], c.lineOffset, WordUnits)
  /\ m \in [Lines -> Block] /\ m2 \in [Lines -> Block] /\ Unrelated(c, m, m2)
FallTo(q, lost, requests, m2, e) ==
  CacheInv(e, q, lost, requests, m2) /\ Collected(e, e.length) /\ e.ack = FALSE

\* What is stored into a bank is a line again, and a line that is complete is what memory holds.
LEMMA FallFills ==
  ASSUME NEW c, NEW q, NEW lost, NEW requests, NEW ack, NEW beat, NEW m, NEW m2,
         FallFrom(c, q, lost, requests, ack, beat, m, m2), HasSent(c, ack)
  PROVE  LET v == c.bankToReplace
             o == c.mem.offset
             s == WithUnits(c.storage[v], c.lineOffset, beat)
             line == m[c.request.line]
         IN  /\ s \in Block /\ c.mem.line = c.request.line
             /\ c.length + WordUnits \in WholeWords
             /\ (c.lineOffset + WordUnits) % LineUnits = Wrapped(c.lineOffset + WordUnits)
             /\ (c.lineOffset + WordUnits) % LineUnits = Wrapped(o + (c.length + WordUnits))
             /\ \A u \in Reached(o, c.length + WordUnits) : s[u] = line[u]
             /\ c.length + WordUnits = LineUnits => s = line
<1> DEFINE v == c.bankToReplace
           o == c.mem.offset
           n == c.length
           w == Wrapped(o + n)
           t == c.storage[v]
           line == m[c.request.line]
           s == WithUnits(t, c.lineOffset, beat)
<1>1. /\ c.mem.line = c.request.line /\ o \in Unit /\ o \in WholeWords
      /\ n \in WholeWords /\ n # LineUnits /\ c.lineOffset = w
      /\ \A u \in Reached(o, n) : t[u] = line[u]
      /\ beat = Units(line, c.lineOffset, WordUnits)
  BY DEF FallFrom, CacheInv, Arriving, HasSent
<1>2. c.state # "Idle" /\ t \in Block /\ line \in Block
  <2>1. c.state # "Idle" BY DEF HasSent, Filling
  <2>2. c.request \in requests /\ c.bankToReplace \in Banks /\ c.storage \in [Banks -> Block]
    BY <2>1 DEF FallFrom, CacheInv, Directory
  <2>3. c.request.line \in Lines BY <2>2, RequestShape DEF FallFrom
  <2> QED BY <2>1, <2>2, <2>3 DEF FallFrom
<1> HIDE DEF v, o, n, w, t, line, s
<1>3. o # LineUnits BY <1>1, Sizes DEF Unit
<1>4. /\ w \in Unit /\ w + WordUnits <= LineUnits
      /\ (w + WordUnits) % LineUnits = Wrapped(w + WordUnits)
      /\ Wrapped(w + WordUnits) = Wrapped(o + (n + WordUnits))
  BY <1>1, <1>3, WrapWord DEF w
<1>5. n + WordUnits \in WholeWords BY <1>1, NextWord
<1>6. /\ Reached(o, n + WordUnits) = Reached(o, n) \cup {u \in Unit : w <= u /\ u < w + WordUnits}
      /\ Reached(o, LineUnits) = Unit
  BY <1>1, <1>3, ReachedMore DEF w
<1>7. w \in Nat BY <1>4 DEF Unit
<1>8. /\ s \in Block
      /\ \A u \in Unit : s[u] = IF w <= u /\ u < w + WordUnits THEN line[u] ELSE t[u]
  <2>1. s = WithUnits(t, w, Units(line, w, WordUnits)) BY <1>1 DEF s
  <2> QED BY <1>2, <1>4, <1>7, <2>1, WordStored
<1>9. \A u \in Reached(o, n + WordUnits) : s[u] = line[u]
  <2> TAKE u \in Reached(o, n + WordUnits)
  <2>1. u \in Unit BY DEF Reached
  <2>2. CASE u \in Reached(o, n) BY <1>1, <1>8, <2>1, <2>2
  <2>3. CASE u \notin Reached(o, n) BY <1>6, <1>8, <2>1, <2>3
  <2> QED BY <2>2, <2>3
<1>10. ASSUME n + WordUnits = LineUnits PROVE s = line
  <2>1. \A u \in Unit : s[u] = line[u] BY <1>6, <1>9, <1>10
  <2> QED BY <1>2, <1>8, <2>1 DEF Block
<1>11. /\ (c.lineOffset + WordUnits) % LineUnits = Wrapped(c.lineOffset + WordUnits)
       /\ (c.lineOffset + WordUnits) % LineUnits = Wrapped(o + (n + WordUnits))
  BY <1>1, <1>4
<1> QED BY <1>1, <1>5, <1>8, <1>9, <1>10, <1>11 DEF v, o, n, t, line, s

LEMMA StoreStays ==
  ASSUME NEW s \in Block, NEW q \in DataRequests \cup FetchRequests, q.write
  PROVE  LET t == After(s, q.zero, q.offset, q.data)
         IN  t \in Block /\ After(t, q.zero, q.offset, q.data) = t
<1>1. q.zero \in BOOLEAN /\ q.offset \in Nat /\ q.data \in Seq(Values)
  <2>1. q.zero \in BOOLEAN /\ q.offset \in Unit /\ q.data \in Seq(Values) BY RequestShape
  <2> QED BY <2>1, Sizes DEF Unit
<1>2. CASE q.zero
  <2>1. [u \in Unit |-> Zero] \in Block BY CacheAssumption DEF Block
  <2> QED BY <1>2, <2>1 DEF After
<1>3. CASE ~ q.zero BY <1>1, <1>3, DataStored DEF After
<1> QED BY <1>1, <1>2, <1>3

\* The requests of the CPU that a falling edge serves.
LEMMA FallServes ==
  ASSUME NEW c, NEW q, NEW lost, NEW requests, NEW ack, NEW beat, NEW m, NEW m2,
         FallFrom(c, q, lost, requests, ack, beat, m, m2)
  PROVE  /\ c.state # "Idle" => /\ c.request \in requests
                                /\ c.request \in DataRequests \cup FetchRequests
                                /\ c.request.line \in Lines
                                /\ \A x \in Banks : c.directory[x].line # c.request.line
         /\ c.state = "Write" => q.req /\ q = c.request /\ q.write
         /\ WritesHit(c, q) => /\ c.state = "Idle" /\ c.ack = TRUE /\ c.hit \in Banks
                               /\ c.directory[c.hit].line = q.line
                               /\ q \in requests /\ q \in DataRequests \cup FetchRequests
                               /\ q.line \in Lines
<1>1. /\ c.state # "Idle" => /\ c.request \in requests
                             /\ \A x \in Banks : c.directory[x].line # c.request.line
      /\ c.state = "Write" => c.request.write
      /\ requests \subseteq DataRequests \cup FetchRequests
  BY DEF FallFrom, CacheInv, Directory
<1>2. c.state = "Write" => q.req /\ (lost \/ c.request = q)
  BY DEF FallFrom, CacheInv, Holds, Unanswered
<1>3. lost => \A r \in requests : ~ r.write BY DEF FallFrom
<1>4. WritesHit(c, q) => /\ c.state = "Idle" /\ c.ack = TRUE /\ c.hit \in Banks
                         /\ c.directory[c.hit].line = q.line
  BY DEF WritesHit, FallFrom, Answers
<1>5. q.req => q \in requests BY DEF FallFrom, NoRequest
<1> QED BY <1>1, <1>2, <1>3, <1>4, <1>5, RequestShape DEF WritesHit

\* Which bank a falling edge changes, if any, and what it is then.
FallCases(c, q, ack, beat, e) ==
  LET v == c.bankToReplace
      s == WithUnits(c.storage[v], c.lineOffset, beat)
  IN  \/ /\ HasSent(c, ack) /\ c.state = "FillingForRead" /\ c.length + WordUnits = LineUnits
         /\ e.state = "Idle" /\ BankBecomes(c, e, v, c.request.line, FALSE, s)
      \/ /\ HasSent(c, ack) /\ c.state = "FillingForWrite" /\ c.length + WordUnits = LineUnits
         /\ e.state = "Write" /\ BankBecomes(c, e, v, c.directory[v].line, c.directory[v].dirty, s)
      \/ /\ HasSent(c, ack) /\ c.length + WordUnits # LineUnits /\ e.state = c.state
         /\ BankBecomes(c, e, v, c.directory[v].line, c.directory[v].dirty, s)
      \/ c.state = "Write" /\ StoresMiss(c, q, e)
      \/ WritesHit(c, q) /\ StoresHit(c, q, e)
      \/ /\ ~ HasSent(c, ack) /\ c.state # "Write" /\ ~ WritesHit(c, q)
         /\ e.state = c.state /\ SameLines(c, e)

LEMMA FallHasCases ==
  ASSUME NEW c, NEW q, NEW ack, NEW beat, NEW e, FallPlaces(c, q, ack, beat, e)
  PROVE  FallCases(c, q, ack, beat, e)
<1>1. CASE HasSent(c, ack)
  <2>1. Fills(c, beat, e) /\ c.state \in Filling BY <1>1 DEF FallPlaces, HasSent
  <2> QED BY <1>1, <2>1 DEF Fills, FallCases, Filling
<1>2. CASE ~ HasSent(c, ack) BY <1>2 DEF FallPlaces, FallCases
<1> QED BY <1>1, <1>2

\* The lines of a bank that changes and of the others.
LEMMA BankChanged ==
  ASSUME NEW c, NEW e, NEW x, NEW l, NEW dirty, NEW s, BankBecomes(c, e, x, l, dirty, s),
         c.directory \in [Banks -> [line : Lines \cup {None}, dirty : BOOLEAN]],
         c.storage \in [Banks -> Block], x \in Banks
  PROVE  /\ e.directory[x].line = l /\ e.directory[x].dirty = dirty /\ e.storage[x] = s
         /\ \A y \in Banks : y # x => /\ e.directory[y] = c.directory[y]
                                      /\ e.storage[y] = c.storage[y]
         /\ l \in Lines \cup {None} /\ dirty \in BOOLEAN /\ s \in Block =>
              /\ e.directory \in [Banks -> [line : Lines \cup {None}, dirty : BOOLEAN]]
              /\ e.storage \in [Banks -> Block]
BY DEF BankBecomes

LEMMA FallDirectory ==
  ASSUME NEW c, NEW q, NEW lost, NEW requests, NEW ack, NEW beat, NEW m, NEW m2, NEW e,
         FallFrom(c, q, lost, requests, ack, beat, m, m2), FallPlaces(c, q, ack, beat, e)
  PROVE  Directory(e, requests)
<1> DEFINE v == c.bankToReplace
           s == WithUnits(c.storage[v], c.lineOffset, beat)
           New(x, l) == /\ l \in Lines \cup {None} /\ l \in Asked(requests)
                        /\ \A y \in Banks : y # x => c.directory[y].line # l \/ l = None
           Fine ==
             /\ e.directory \in [Banks -> [line : Lines \cup {None}, dirty : BOOLEAN]]
             /\ e.storage \in [Banks -> Block]
             /\ \A y \in Banks : e.directory[y].line \in Asked(requests)
             /\ \A y, z \in Banks :
                  e.directory[y].line = e.directory[z].line => y = z \/ e.directory[y].line = None
<1>1. /\ Directory(c, requests) /\ v \in Banks
      /\ c.directory \in [Banks -> [line : Lines \cup {None}, dirty : BOOLEAN]]
      /\ c.storage \in [Banks -> Block]
      /\ \A x \in Banks : c.directory[x].line \in Asked(requests)
      /\ \A x, y \in Banks :
           c.directory[x].line = c.directory[y].line => x = y \/ c.directory[x].line = None
  BY DEF FallFrom, CacheInv, Directory
<1>2. /\ c.state # "Idle" => /\ c.request \in requests
                             /\ c.request \in DataRequests \cup FetchRequests
                             /\ c.request.line \in Lines /\ c.request.line \in Asked(requests)
                             /\ \A x \in Banks : c.directory[x].line # c.request.line
      /\ c.state = "Write" => q.req /\ q = c.request /\ q.write
      /\ WritesHit(c, q) => /\ c.state = "Idle" /\ c.ack = TRUE /\ c.hit \in Banks
                            /\ c.directory[c.hit].line = q.line
                            /\ q \in requests /\ q \in DataRequests \cup FetchRequests
                            /\ q.line \in Lines
  BY FallServes DEF Asked
<1>3. HasSent(c, ack) => s \in Block /\ c.state \in Filling /\ c.state # "Idle"
  BY FallFills DEF HasSent, Filling
<1>4. SameRequest(c, e) BY DEF FallPlaces, FallKeeps
<1>5. FallCases(c, q, ack, beat, e) BY FallHasCases
<1>6. ASSUME NEW x \in Banks, NEW l, NEW dirty \in BOOLEAN, NEW t \in Block,
             BankBecomes(c, e, x, l, dirty, t), New(x, l)
      PROVE  Fine
  <2>1. /\ e.directory[x].line = l
        /\ \A y \in Banks : y # x => e.directory[y] = c.directory[y]
        /\ e.directory \in [Banks -> [line : Lines \cup {None}, dirty : BOOLEAN]]
        /\ e.storage \in [Banks -> Block]
    BY <1>1, <1>6, BankChanged
  <2>2. \A y \in Banks : e.directory[y].line \in Asked(requests) BY <1>1, <1>6, <2>1
  <2>3. ASSUME NEW y \in Banks, NEW z \in Banks, e.directory[y].line = e.directory[z].line
        PROVE  y = z \/ e.directory[y].line = None
    BY <1>1, <1>6, <2>1, <2>3
  <2> QED BY <2>1, <2>2, <2>3
<1>7. Fine
  <2>0. SameLines(c, e) => Fine BY <1>1 DEF SameLines
  <2> HIDE DEF s, v, Fine
  <2>1. CASE HasSent(c, ack)
    <3>1. \E l \in {c.request.line, c.directory[v].line}, dirty \in BOOLEAN :
            BankBecomes(c, e, v, l, dirty, s)
      <4>1. c.directory[v].dirty \in BOOLEAN BY <1>1
      <4>2. c.state # "Write" /\ ~ WritesHit(c, q) BY <1>2, <1>3, <2>1 DEF Filling
      <4> QED BY <1>5, <2>1, <4>1, <4>2 DEF FallCases, s, v
    <3>2. PICK l \in {c.request.line, c.directory[v].line}, dirty \in BOOLEAN :
            BankBecomes(c, e, v, l, dirty, s)
      BY <3>1
    <3>3. New(v, l)
      <4>1. CASE l = c.request.line BY <1>2, <1>3, <2>1, <4>1
      <4>2. CASE l = c.directory[v].line BY <1>1, <4>2
      <4> QED BY <4>1, <4>2
    <3> HIDE DEF New
    <3> QED BY <1>1, <1>3, <1>6, <2>1, <3>2, <3>3
  <2>2. CASE c.state = "Write"
    <3> DEFINE t == After(c.storage[v], c.request.zero, c.request.offset, q.data)
    <3>1. t \in Block BY <1>1, <1>2, <2>2, StoreStays
    <3>2. BankBecomes(c, e, v, c.request.line, TRUE, t)
      BY <2>2 DEF FallPlaces, StoresMiss, v
    <3>3. New(v, c.request.line) BY <1>2, <2>2
    <3> HIDE DEF t, New
    <3> QED BY <1>1, <1>6, <3>1, <3>2, <3>3
  <2>3. CASE WritesHit(c, q)
    <3> DEFINE x == c.hit
               t == After(c.storage[x], q.zero, q.offset, q.data)
    <3>1. t \in Block /\ x \in Banks /\ q.write
      <4>1. q.write BY <2>3 DEF WritesHit
      <4> QED BY <1>1, <1>2, <2>3, <4>1, StoreStays
    <3>2. BankBecomes(c, e, x, c.directory[x].line, TRUE, t)
      BY <2>3 DEF FallPlaces, StoresHit
    <3>3. New(x, c.directory[x].line) BY <1>1, <3>1
    <3> HIDE DEF t, x, New
    <3> QED BY <1>6, <3>1, <3>2, <3>3
  <2>4. CASE ~ HasSent(c, ack) /\ c.state # "Write" /\ ~ WritesHit(c, q)
    BY <2>0, <2>4 DEF FallPlaces
  <2> QED BY <2>1, <2>2, <2>3, <2>4
<1>8. ASSUME e.state # "Idle"
      PROVE  /\ c.state # "Idle" /\ e.request \in requests
             /\ \A x \in Banks : e.directory[x].line = c.directory[x].line
             /\ e.state = c.state \/ (c.state = "FillingForWrite" /\ e.state = "Write")
             /\ e.state \in {"Eject", "Ejecting"} => SameLines(c, e)
  <2>1. c.state # "Write" /\ ~ WritesHit(c, q)
    BY <1>8 DEF FallPlaces, StoresMiss, StoresHit
  <2>2. CASE HasSent(c, ack)
    <3>1. /\ BankBecomes(c, e, v, c.directory[v].line, c.directory[v].dirty, s)
          /\ e.state = c.state \/ (c.state = "FillingForWrite" /\ e.state = "Write")
      BY <1>5, <1>8, <2>1, <2>2 DEF FallCases
    <3> HIDE DEF v, s
    <3>2. \A x \in Banks : e.directory[x].line = c.directory[x].line
      BY <1>1, <3>1, BankChanged
    <3> QED BY <1>2, <1>3, <1>4, <2>2, <3>1, <3>2 DEF SameRequest, Filling
  <2>3. CASE ~ HasSent(c, ack)
    BY <1>2, <1>4, <1>8, <2>1, <2>3 DEF FallPlaces, SameRequest, SameLines
  <2> QED BY <2>2, <2>3
<1>9. /\ e.state \in {"FillForRead", "FillingForRead"} => ~ e.request.write
      /\ e.state \in {"FillForWrite", "FillingForWrite"} => e.request.write /\ ~ e.request.zero
      /\ e.state = "Write" => e.request.write
      /\ e.state \in {"Eject", "Ejecting"} => IsDirty(e, e.bankToReplace)
      /\ e.state # "Idle" => /\ e.request \in requests
                             /\ \A x \in Banks : e.directory[x].line # e.request.line
  <2>1. CASE e.state = "Idle" BY <2>1
  <2>2. CASE e.state # "Idle"
    <3>1. /\ c.state \in {"FillForRead", "FillingForRead"} => ~ c.request.write
          /\ c.state \in {"FillForWrite", "FillingForWrite"} => c.request.write /\ ~ c.request.zero
          /\ c.state = "Write" => c.request.write
          /\ c.state \in {"Eject", "Ejecting"} => IsDirty(c, c.bankToReplace)
      BY <1>1 DEF Directory
    <3> QED BY <1>2, <1>4, <1>8, <2>2, <3>1 DEF SameRequest, SameLines, IsDirty
  <2> QED BY <2>1, <2>2
<1>10. e.bankToReplace \in Banks BY <1>1, <1>4 DEF SameRequest
<1> QED BY <1>7, <1>9, <1>10 DEF Directory

LEMMA FallClean ==
  ASSUME NEW c, NEW q, NEW lost, NEW requests, NEW ack, NEW beat, NEW m, NEW m2, NEW e,
         FallFrom(c, q, lost, requests, ack, beat, m, m2), FallPlaces(c, q, ack, beat, e)
  PROVE  Clean(e, m2)
<1> DEFINE v == c.bankToReplace
           s == WithUnits(c.storage[v], c.lineOffset, beat)
           Copies(x, d) == \A l \in Lines :
             d.directory[x].line = l /\ ~ d.directory[x].dirty => d.storage[x] = m2[l]
<1>1. /\ v \in Banks
      /\ c.directory \in [Banks -> [line : Lines \cup {None}, dirty : BOOLEAN]]
      /\ c.storage \in [Banks -> Block] /\ SameRequest(c, e)
      /\ c.state \in {"FillForWrite", "FillingForWrite"} => ~ c.request.zero
  BY DEF FallFrom, CacheInv, Directory, FallPlaces, FallKeeps
<1>2. /\ c.state # "Idle" => m2[c.request.line] = m[c.request.line]
      /\ \A x \in Banks, l \in Lines :
           HoldsLine(c, x, l) /\ ~ c.directory[x].dirty => c.storage[x] = m2[l]
  <2>1. Clean(c, m) /\ Unrelated(c, m, m2) BY DEF FallFrom, CacheInv
  <2> QED BY <2>1 DEF Clean, Unrelated
<1>3. \A x \in Banks : x # v \/ ~ Gone(c) => Copies(x, c)
  BY <1>2 DEF HoldsLine
<1>4. FallCases(c, q, ack, beat, e) BY FallHasCases
<1>5. ASSUME NEW x \in Banks, NEW l, NEW dirty, NEW t, BankBecomes(c, e, x, l, dirty, t),
             NEW y \in Banks, y # x, y # v \/ ~ Gone(c)
      PROVE  Copies(y, e)
  <2>1. e.directory[y] = c.directory[y] /\ e.storage[y] = c.storage[y]
    BY <1>1, <1>5, BankChanged
  <2> QED BY <1>3, <1>5, <2>1
<1>6. CASE /\ HasSent(c, ack) /\ c.state = "FillingForRead" /\ c.length + WordUnits = LineUnits
           /\ e.state = "Idle" /\ BankBecomes(c, e, v, c.request.line, FALSE, s)
  <2>1. s = m2[c.request.line] BY <1>2, <1>6, FallFills
  <2>2. e.directory[v].line = c.request.line /\ e.storage[v] = s
    <3> DEFINE l == c.request.line
               dirty == FALSE
    <3>1. BankBecomes(c, e, v, l, dirty, s) BY <1>6
    <3> HIDE DEF v, s, l, dirty
    <3>2. e.directory[v].line = l /\ e.storage[v] = s BY <1>1, <3>1, BankChanged
    <3> QED BY <3>2 DEF l
  <2>3. \A y \in Banks : Copies(y, e)
    <3> TAKE y \in Banks
    <3>1. CASE y = v BY <2>1, <2>2, <3>1
    <3>2. CASE y # v BY <1>1, <1>5, <1>6, <3>2
    <3> QED BY <3>1, <3>2
  <2> QED BY <1>6, <2>3 DEF Clean, HoldsLine
<1>7. CASE /\ HasSent(c, ack) /\ e.state = "Write" /\ c.state = "FillingForWrite"
           /\ c.length + WordUnits = LineUnits
           /\ BankBecomes(c, e, v, c.directory[v].line, c.directory[v].dirty, s)
  <2>1. s = m2[c.request.line] BY <1>2, <1>7, FallFills
  <2>2. e.storage[v] = s BY <1>1, <1>7, BankChanged
  <2>3. Gone(e) /\ e.bankToReplace = v /\ e.request = c.request
    BY <1>1, <1>7 DEF Gone, SameRequest
  <2>4. \A y \in Banks : y # v => Copies(y, e) BY <1>1, <1>5, <1>7
  <2> QED BY <2>1, <2>2, <2>3, <2>4 DEF Clean, HoldsLine
<1>8. CASE /\ HasSent(c, ack) /\ e.state = c.state
           /\ BankBecomes(c, e, v, c.directory[v].line, c.directory[v].dirty, s)
  <2>1. Gone(e) /\ e.bankToReplace = v /\ e.state # "Write"
    BY <1>1, <1>8 DEF Gone, SameRequest, HasSent, Filling
  <2>2. \A y \in Banks : y # v => Copies(y, e) BY <1>1, <1>5, <1>8
  <2> QED BY <2>1, <2>2 DEF Clean, HoldsLine
<1>9. CASE c.state = "Write" /\ StoresMiss(c, q, e)
  <2> DEFINE t == After(c.storage[v], c.request.zero, c.request.offset, q.data)
  <2>1. BankBecomes(c, e, v, c.request.line, TRUE, t) /\ e.state = "Idle"
    BY <1>9 DEF StoresMiss
  <2>2. e.directory[v].dirty = TRUE
    <3> DEFINE l == c.request.line
               dirty == TRUE
    <3>1. BankBecomes(c, e, v, l, dirty, t) BY <2>1
    <3> HIDE DEF v, t, l, dirty
    <3>2. e.directory[v].dirty = dirty BY <1>1, <3>1, BankChanged
    <3> QED BY <3>2 DEF dirty
  <2> HIDE DEF t
  <2>3. \A y \in Banks : Copies(y, e)
    <3> TAKE y \in Banks
    <3>1. CASE y = v BY <2>2, <3>1
    <3>2. CASE y # v BY <1>1, <1>5, <2>1, <3>2
    <3> QED BY <3>1, <3>2
  <2> QED BY <2>1, <2>3 DEF Clean, HoldsLine
<1>10. CASE WritesHit(c, q) /\ StoresHit(c, q, e)
  <2> DEFINE x == c.hit
             t == After(c.storage[x], q.zero, q.offset, q.data)
  <2>1. BankBecomes(c, e, x, c.directory[x].line, TRUE, t) /\ e.state = "Idle"
    BY <1>10 DEF StoresHit
  <2>2. x \in Banks /\ c.state = "Idle" BY <1>10, FallServes
  <2>3. ~ Gone(c) BY <2>2 DEF Gone, Filling
  <2>4. e.directory[x].dirty = TRUE
    <3> DEFINE l == c.directory[x].line
               dirty == TRUE
    <3>1. BankBecomes(c, e, x, l, dirty, t) BY <2>1
    <3> HIDE DEF x, t, l, dirty
    <3>2. e.directory[x].dirty = dirty BY <1>1, <2>2, <3>1, BankChanged
    <3> QED BY <3>2 DEF dirty
  <2> HIDE DEF t, x
  <2>5. \A y \in Banks : Copies(y, e)
    <3> TAKE y \in Banks
    <3>1. CASE y = x BY <2>4, <3>1
    <3>2. CASE y # x BY <1>5, <2>1, <2>2, <2>3, <3>2
    <3> QED BY <3>1, <3>2
  <2> QED BY <2>1, <2>5 DEF Clean, HoldsLine
<1>11. CASE /\ ~ HasSent(c, ack) /\ c.state # "Write" /\ ~ WritesHit(c, q)
            /\ e.state = c.state /\ SameLines(c, e)
  <2>1. Gone(e) = Gone(c) /\ e.bankToReplace = v BY <1>1, <1>11 DEF Gone, SameRequest
  <2> QED BY <1>2, <1>11, <2>1 DEF Clean, HoldsLine, SameLines
<1> QED
  <2> HIDE DEF v, s, Copies
  <2> QED BY <1>4, <1>6, <1>7, <1>8, <1>9, <1>10, <1>11 DEF FallCases, v, s

LEMMA FallArriving ==
  ASSUME NEW c, NEW q, NEW lost, NEW requests, NEW ack, NEW beat, NEW m, NEW m2, NEW e,
         FallFrom(c, q, lost, requests, ack, beat, m, m2), FallPlaces(c, q, ack, beat, e)
  PROVE  Arriving(e, m2)
<1> DEFINE v == c.bankToReplace
           s == WithUnits(c.storage[v], c.lineOffset, beat)
           line == m[c.request.line]
<1> SUFFICES ASSUME e.state \in Filling PROVE Arriving(e, m2) BY DEF Arriving
<1>1. /\ SameRequest(c, e) /\ e.mem.line = c.mem.line /\ e.mem.offset = c.mem.offset
      /\ FallCases(c, q, ack, beat, e) /\ v \in Banks
      /\ c.directory \in [Banks -> [line : Lines \cup {None}, dirty : BOOLEAN]]
      /\ c.storage \in [Banks -> Block]
  BY FallHasCases DEF FallPlaces, FallKeeps, FallFrom, CacheInv, Directory
<1>2. e.state = c.state /\ c.state \in Filling /\ c.state # "Idle" /\ c.state # "Write" /\ ~ WritesHit(c, q)
  <2>1. WritesHit(c, q) => c.state = "Idle" BY FallServes
  <2> HIDE DEF v, s
  <2> QED BY <1>1, <2>1 DEF FallCases, Filling, StoresMiss, StoresHit
<1>3. Arriving(c, m) /\ m2[c.request.line] = line
  BY <1>2 DEF FallFrom, CacheInv, Unrelated
<1>4. CASE HasSent(c, ack)
  <2>1. /\ c.length + WordUnits # LineUnits
        /\ BankBecomes(c, e, v, c.directory[v].line, c.directory[v].dirty, s)
    BY <1>1, <1>2, <1>4 DEF FallCases, Filling
  <2>2. e.storage[v] = s BY <1>1, <2>1, BankChanged
  <2>3. e.length = c.length + WordUnits /\ e.lineOffset = (c.lineOffset + WordUnits) % LineUnits
    BY <1>4 DEF FallPlaces, Fills
  <2>4. /\ c.length + WordUnits \in WholeWords
        /\ (c.lineOffset + WordUnits) % LineUnits = Wrapped(c.mem.offset + (c.length + WordUnits))
        /\ \A u \in Reached(c.mem.offset, c.length + WordUnits) : s[u] = line[u]
    BY <1>4, FallFills
  <2> HIDE DEF v, s, line
  <2> QED BY <1>1, <1>2, <1>3, <2>1, <2>2, <2>3, <2>4 DEF Arriving, SameRequest, v
<1>5. CASE ~ HasSent(c, ack)
  <2>1. e.length = c.length /\ e.lineOffset = c.lineOffset /\ SameLines(c, e)
    BY <1>2, <1>5 DEF FallPlaces
  <2> HIDE DEF v, s, line
  <2> QED BY <1>1, <1>2, <1>3, <2>1 DEF Arriving, SameRequest, SameLines, line
<1> QED BY <1>4, <1>5

\* A falling edge ends the request that has been answered.
LEMMA FallOfEither ==
  ASSUME NEW c, NEW q, NEW lost, NEW requests, NEW ack, NEW beat, NEW m, NEW m2, NEW e,
         NEW q2, NEW lost2,
         FallFrom(c, q, lost, requests, ack, beat, m, m2), FallPlaces(c, q, ack, beat, e),
         q2 = IF c.ack THEN NoRequest ELSE q,
         ~ c.ack /\ q.req => (lost => lost2)
  PROVE  FallTo(q2, lost2, requests, m2, e)
<1>1. Directory(e, requests) /\ Clean(e, m2) /\ Arriving(e, m2) /\ e.ack = FALSE
  BY FallDirectory, FallClean, FallArriving DEF FallPlaces, FallKeeps
<1>2. FallCases(c, q, ack, beat, e) /\ SameRequest(c, e) /\ e.dataSent = c.dataSent
      /\ e.dataLength = c.dataLength
  BY FallHasCases DEF FallPlaces, FallKeeps
<1>3. ASSUME e.state # "Idle"
      PROVE  /\ c.state # "Idle" /\ c.state # "Write" /\ ~ WritesHit(c, q)
             /\ e.state = c.state \/ (e.state = "Write" /\ c.state = "FillingForWrite")
  <2>1. WritesHit(c, q) => c.state = "Idle" BY FallServes
  <2> QED BY <1>2, <1>3, <2>1 DEF FallCases, StoresMiss, StoresHit, HasSent, Filling
<1>4. Holds(e, q2, lost2)
  <2> SUFFICES ASSUME Unanswered(e) PROVE q2.req /\ (lost2 \/ e.request = q2) BY DEF Holds
  <2>1. Unanswered(c) BY <1>2, <1>3 DEF Unanswered
  <2>2. ~ c.ack
    <3>1. c.ack => c.state = "Idle" \/ c.state = "Write" \/ (c.state = "FillingForRead" /\ c.dataSent)
      BY DEF FallFrom, Answers
    <3> QED BY <1>3, <2>1, <3>1 DEF Unanswered
  <2>3. q.req /\ (lost \/ c.request = q) BY <2>1 DEF FallFrom, CacheInv, Holds
  <2> QED BY <1>2, <2>2, <2>3 DEF SameRequest
<1>5. Collected(e, e.length)
  <2> SUFFICES ASSUME e.state = "FillingForRead", ~ e.dataSent PROVE Collected(e, e.length)
    BY DEF Collected
  <2>1. c.state = "FillingForRead" BY <1>3
  <2>2. e.length = IF HasSent(c, ack) THEN c.length + WordUnits ELSE c.length
    BY DEF FallPlaces, Fills
  <2>3. Collected(c, e.length) BY <2>2 DEF FallFrom
  <2> QED BY <1>2, <2>1, <2>3 DEF Collected, SameRequest
<1> QED BY <1>1, <1>4, <1>5 DEF FallTo, CacheInv

\* What a falling edge makes of the pages: a word of the line that leaves.
LineOut(c, b, m) ==
  LET v == c.bankToReplace
  IN  /\ b.line = c.directory[v].line /\ b.line \in Lines /\ IsDirty(c, v) /\ ~ Gone(c)
      /\ b.offset = b.length /\ b.length \in WholeWords /\ b.length # LineUnits
      /\ b.length + WordUnits \in WholeWords
      /\ \A u \in Unit : u < b.length => m[b.line][u] = c.storage[v][u]
StorageFalls(c, b, m, m2) ==
  LET v == c.bankToReplace
  IN  /\ m2 \in [Lines -> Block]
      /\ b.state # "Writing" => m2 = m
      /\ b.state = "Writing" =>
           /\ LineOut(c, b, m)
           /\ \A l \in Lines : l # b.line => m2[l] = m[l]
           /\ \A u \in Unit : u < b.length + WordUnits => m2[b.line][u] = c.storage[v][u]
           /\ b.length + WordUnits = LineUnits => m2[b.line] = c.storage[v]

LEMMA FallOfStorage ==
  ASSUME NEW c, NEW b, NEW m, NEW requests, Directory(c, requests), Leaving(c, b, m),
         m \in [Lines -> Block],
         b.state = "Writing" =>
           c.mem.data = Units(c.storage[c.bankToReplace], b.offset, WordUnits)
  PROVE  StorageFalls(c, b, m, StorageOnFallingEdge(b, c.mem, m))
<1> DEFINE v == c.bankToReplace
           o == b.offset
           t == c.storage[v]
           s == WithUnits(m[b.line], o, Units(t, o, WordUnits))
           m2 == StorageOnFallingEdge(b, c.mem, m)
<1>1. CASE b.state # "Writing" BY <1>1 DEF StorageFalls, StorageOnFallingEdge
<1>2. CASE b.state = "Writing"
  <2>1. /\ b.line = c.directory[v].line /\ IsDirty(c, v) /\ ~ Gone(c)
        /\ o = b.length /\ b.length \in WholeWords /\ b.length # LineUnits
        /\ \A u \in Unit : u < b.length => m[b.line][u] = t[u]
    BY <1>2 DEF Leaving
  <2>2. v \in Banks /\ t \in Block /\ b.line \in Lines
    <3>1. /\ c.directory \in [Banks -> [line : Lines \cup {None}, dirty : BOOLEAN]]
          /\ c.storage \in [Banks -> Block] /\ v \in Banks
      BY DEF Directory
    <3> QED BY <2>1, <3>1 DEF IsDirty
  <2>3. b.length + WordUnits \in WholeWords BY <2>1, NextWord
  <2>4. m2 = [m EXCEPT ![b.line] = s] BY <1>2 DEF StorageOnFallingEdge
  <2>5. m[b.line] \in Block BY <2>2
  <2> HIDE DEF v, o, t, m2, s
  <2>6. o \in Nat /\ o + WordUnits <= LineUnits
    BY <2>1, <2>3, Sizes DEF WholeWords
  <2>7. /\ s \in Block
        /\ \A u \in Unit : s[u] = IF o <= u /\ u < o + WordUnits THEN t[u] ELSE m[b.line][u]
    BY <2>2, <2>5, <2>6, WordStored DEF s
  <2>8. \A u \in Unit : u < o + WordUnits => s[u] = t[u]
    BY <2>1, <2>6, <2>7, Sizes DEF Unit
  <2>9. ASSUME o + WordUnits = LineUnits PROVE s = t
    <3>1. \A u \in Unit : s[u] = t[u] BY <2>8, <2>9, Sizes DEF Unit
    <3> QED BY <2>2, <2>7, <3>1 DEF Block
  <2>10. /\ m2 \in [Lines -> Block] /\ m2[b.line] = s
         /\ \A l \in Lines : l # b.line => m2[l] = m[l]
    BY <2>2, <2>4, <2>7
  <2>11. LineOut(c, b, m) BY <2>1, <2>2, <2>3 DEF LineOut, v, t, o
  <2>12. StorageFalls(c, b, m, m2)
    BY <1>2, <2>1, <2>8, <2>9, <2>10, <2>11 DEF StorageFalls, v, t
  <2> QED BY <2>12 DEF m2
<1> QED BY <1>1, <1>2

\* The line that leaves: what the next falling edge finds of it.
LEMMA FallLeaves ==
  ASSUME NEW c, NEW q, NEW ack, NEW beat, NEW e, NEW b, NEW f, NEW m, NEW m2, NEW requests,
         Directory(c, requests), Leaving(c, b, m), StorageFalls(c, b, m, m2),
         Asking(c), FallPlaces(c, q, ack, beat, e), EjectDuringWord(b, c),
         e.state = "Ejecting" /\ e.waitingForAck => c.waitingForAck,
         WritesHit(c, q) => c.state = "Idle",
         f.state = "Writing" => /\ b.state = "Writing" /\ b.length + WordUnits # LineUnits
                                /\ BusGoesOn(b, f) /\ f.length = b.length + WordUnits,
         b.state = "Writing" /\ b.length + WordUnits # LineUnits => f.state = "Writing"
  PROVE  Leaving(e, f, m2)
<1> DEFINE v == c.bankToReplace
<1>1. /\ SameRequest(c, e) /\ FallCases(c, q, ack, beat, e)
      /\ e.mem.line = c.mem.line /\ e.mem.offset = c.mem.offset /\ e.mem.data = c.mem.data
  BY FallHasCases DEF FallPlaces, FallKeeps
<1>2. c.directory \in [Banks -> [line : Lines \cup {None}, dirty : BOOLEAN]] /\ v \in Banks
  BY DEF Directory
<1>3. ASSUME e.state = "Ejecting" \/ c.state = "Ejecting"
      PROVE  /\ c.state = "Ejecting" /\ e.state = "Ejecting" /\ SameLines(c, e)
             /\ e.length = c.length /\ e.lineOffset = c.lineOffset
  <2>1. ~ HasSent(c, ack) /\ c.state = "Ejecting" /\ SameLines(c, e) /\ e.state = "Ejecting"
    BY <1>1, <1>3 DEF FallCases, HasSent, Filling, StoresMiss, StoresHit
  <2> QED BY <2>1 DEF FallPlaces
<1>4. ASSUME e.state = "Ejecting"
      PROVE  /\ e.mem.line = e.directory[e.bankToReplace].line
             /\ e.lineOffset = Wrapped(e.length) /\ e.length \in WholeWords
             /\ e.waitingForAck => e.mem.offset = 0 /\ e.mem.data = Units(e.storage[e.bankToReplace], 0, WordUnits)
  BY <1>1, <1>3, <1>4 DEF Leaving, SameLines, SameRequest
<1>5. ASSUME f.state = "Writing"
      PROVE  /\ f.line = e.directory[e.bankToReplace].line /\ IsDirty(e, e.bankToReplace) /\ ~ Gone(e)
             /\ f.offset = f.length /\ f.length \in WholeWords /\ f.length # LineUnits
             /\ \A u \in Unit : u < f.length => m2[f.line][u] = e.storage[e.bankToReplace][u]
  <2>1. /\ b.state = "Writing" /\ b.length + WordUnits # LineUnits
        /\ f.line = b.line /\ f.offset = (b.offset + WordUnits) % LineUnits
        /\ f.length = b.length + WordUnits
    BY <1>5 DEF BusGoesOn
  <2>2. c.state = "Ejecting" BY <2>1 DEF EjectDuringWord
  <2>3. SameLines(c, e) /\ e.state = "Ejecting" /\ e.bankToReplace = v
    BY <1>1, <1>3, <2>2 DEF SameRequest
  <2>4. /\ b.line = c.directory[v].line /\ IsDirty(c, v)
        /\ b.offset = b.length /\ b.length + WordUnits \in WholeWords
        /\ \A u \in Unit : u < b.length + WordUnits => m2[b.line][u] = c.storage[v][u]
    BY <2>1 DEF StorageFalls, LineOut
  <2>5. f.offset = f.length
    <3>1. b.length + WordUnits \in Nat /\ b.length + WordUnits < LineUnits
      BY <2>1, <2>4, Sizes DEF WholeWords
    <3> QED BY <2>1, <2>4, <3>1, Sizes
  <2> QED BY <2>1, <2>3, <2>4, <2>5 DEF SameLines, IsDirty, Gone, Filling
<1>6. ASSUME e.state \in AfterEjects, f.state # "Writing", NEW l \in Lines,
             HoldsLine(e, e.bankToReplace, l)
      PROVE  m2[l] = e.storage[e.bankToReplace]
  <2>1. e.directory[v].line = l /\ ~ Gone(e) /\ e.bankToReplace = v
    BY <1>1, <1>6 DEF HoldsLine, SameRequest
  <2>2. c.state # "Write" /\ ~ HasSent(c, ack) /\ e.state = c.state /\ SameLines(c, e)
    <3>1. c.state = "FillingForWrite" => ~ c.request.zero BY DEF Directory
    <3> QED BY <1>1, <1>6, <2>1, <3>1
      DEF FallCases, StoresMiss, StoresHit, HasSent, Filling, AfterEjects, Gone, SameRequest
  <2>3. HoldsLine(c, v, l) BY <2>1, <2>2 DEF HoldsLine, SameLines, Gone, Filling
  <2>4. CASE b.state = "Writing"
    <3>1. b.length + WordUnits = LineUnits BY <1>6, <2>4
    <3>2. m2[b.line] = c.storage[v] /\ b.line = c.directory[v].line
      BY <2>4, <3>1 DEF StorageFalls, LineOut
    <3> QED BY <2>1, <2>2, <3>2 DEF SameLines
  <2>5. CASE b.state # "Writing"
    <3>1. m2 = m BY <2>5 DEF StorageFalls
    <3>2. m[l] = c.storage[v] BY <1>6, <2>2, <2>3, <2>5 DEF Leaving
    <3> QED BY <2>1, <2>2, <3>1, <3>2 DEF SameLines
  <2> QED BY <2>4, <2>5
<1> QED BY <1>4, <1>5, <1>6 DEF Leaving

\* What the program has stored when a falling edge ends its request q.
StoredNext(c, q, stored) == IF ~ (c.ack /\ q.write) THEN stored ELSE EffectOf(stored, q)

LEMMA EffectOfStore ==
  ASSUME NEW q \in DataRequests \cup FetchRequests, q.write,
         NEW stored \in [Lines -> Block]
  PROVE  /\ EffectOf(stored, q)[q.line] = After(stored[q.line], q.zero, q.offset, q.data)
         /\ \A l \in Lines : l # q.line => EffectOf(stored, q)[l] = stored[l]
         /\ EffectOf(stored, q) \in [Lines -> Block]
<1>1. q.line \in Lines BY RequestShape
<1>2. EffectOf(stored, q) = [stored EXCEPT ![q.line] = After(stored[q.line], q.zero, q.offset, q.data)]
  BY DEF EffectOf, After
<1>3. After(stored[q.line], q.zero, q.offset, q.data) \in Block BY <1>1, StoreStays
<1> HIDE DEF After, EffectOf
<1> QED BY <1>1, <1>2, <1>3

\* The memory the program sees: what a store makes of it, and that nothing else changes it.
LEMMA FallCurrent ==
  ASSUME NEW c, NEW q, NEW requests, NEW ack, NEW beat, NEW m, NEW m2, NEW e, NEW b,
         NEW q2, NEW stored \in [Lines -> Block], NEW lost, ~ lost,
         FallFrom(c, q, lost, requests, ack, beat, m, m2), FallPlaces(c, q, ack, beat, e),
         Leaving(c, b, m), Current(c, q, m, stored), StorageFalls(c, b, m, m2),
         EjectDuringWord(b, c), q2 = IF c.ack THEN NoRequest ELSE q,
         requests = DataRequests
  PROVE  Current(e, q2, m2, StoredNext(c, q, stored))
<1> DEFINE v == c.bankToReplace
           s == WithUnits(c.storage[v], c.lineOffset, beat)
           stored2 == StoredNext(c, q, stored)
           Held(d, l) == \E x \in Banks : HoldsLine(d, x, l)
<1>1. /\ v \in Banks
      /\ c.directory \in [Banks -> [line : Lines \cup {None}, dirty : BOOLEAN]]
      /\ c.storage \in [Banks -> Block] /\ SameRequest(c, e)
      /\ \A x, y \in Banks :
           c.directory[x].line = c.directory[y].line => x = y \/ c.directory[x].line = None
      /\ c.state \in {"FillForRead", "FillingForRead"} => ~ c.request.write
      /\ c.state \in {"FillForWrite", "FillingForWrite"} => ~ c.request.zero
  BY DEF FallFrom, CacheInv, Directory, FallPlaces, FallKeeps
<1>2. /\ c.state # "Idle" => /\ c.request \in requests
                             /\ c.request \in DataRequests \cup FetchRequests
                             /\ c.request.line \in Lines
                             /\ \A x \in Banks : c.directory[x].line # c.request.line
      /\ c.state = "Write" => q.req /\ q = c.request /\ q.write
      /\ WritesHit(c, q) => /\ c.state = "Idle" /\ c.ack = TRUE /\ c.hit \in Banks
                            /\ c.directory[c.hit].line = q.line
                            /\ q \in requests /\ q \in DataRequests \cup FetchRequests
                            /\ q.line \in Lines
  BY FallServes
<1>3. /\ \A x \in Banks, l \in Lines : HoldsLine(c, x, l) => Stored(q, l, c.storage[x], stored)
      /\ \A l \in Lines : ~ Held(c, l) => m[l] = stored[l]
      /\ \A x \in Banks : c.directory[x].line # None /\ c.directory[x].dirty
           => c.directory[x].line \in Written
  BY DEF Current
<1>4. \A l \in Lines : ~ Held(c, l) => m2[l] = stored[l]
  <2>1. CASE b.state # "Writing" BY <1>3, <2>1 DEF StorageFalls
  <2>2. CASE b.state = "Writing"
    <3>1. HoldsLine(c, v, b.line) BY <2>2 DEF StorageFalls, LineOut, HoldsLine
    <3>2. \A l \in Lines : l # b.line => m2[l] = m[l] BY <2>2 DEF StorageFalls
    <3> QED BY <1>1, <1>3, <3>1, <3>2
  <2> QED BY <2>1, <2>2
<1>5. FallCases(c, q, ack, beat, e) BY FallHasCases
\* A request that ends without a store, or goes on.
<1>6. ASSUME ~ (c.ack /\ q.write)
      PROVE  stored2 = stored /\ \A l, x : Stored(q, l, x, stored) => Stored(q2, l, x, stored)
  BY <1>6 DEF StoredNext, Stored
<1>7. c.state \in Filling => ~ (c.ack /\ q.write)
  <2> SUFFICES ASSUME c.state \in Filling, c.ack PROVE ~ q.write OBVIOUS
  <2>1. c.state = "FillingForRead" /\ c.request = q
    BY DEF FallFrom, Answers, Filling
  <2> QED BY <1>1, <2>1
<1>8. c.state \in Filling => m2 = m /\ Gone(c)
  BY DEF StorageFalls, EjectDuringWord, Filling, AfterEjects, Gone
<1> HIDE DEF v, s, stored2, Held
<1>9. CASE /\ HasSent(c, ack) /\ c.state = "FillingForRead" /\ c.length + WordUnits = LineUnits
           /\ e.state = "Idle" /\ BankBecomes(c, e, v, c.request.line, FALSE, s)
  <2> DEFINE l == c.request.line
             dirty == FALSE
  <2>1. BankBecomes(c, e, v, l, dirty, s) /\ l \in Lines BY <1>2, <1>9
  <2>2. s = m[l] BY <1>9, FallFills DEF s, v
  <2>3. m[l] = stored[l]
    <3>1. ~ Held(c, l) BY <1>2, <1>9 DEF Held, HoldsLine
    <3> QED BY <1>3, <2>1, <3>1
  <2>4. c.state \in Filling /\ ~ Gone(e) BY <1>9 DEF Filling, Gone
  <2> HIDE DEF l, dirty
  <2>5. /\ e.directory[v].line = l /\ e.directory[v].dirty = dirty /\ e.storage[v] = s
        /\ \A y \in Banks : y # v => e.directory[y] = c.directory[y] /\ e.storage[y] = c.storage[y]
    BY <1>1, <2>1, BankChanged
  <2>6. ASSUME NEW x \in Banks, NEW k \in Lines, HoldsLine(e, x, k)
        PROVE  Stored(q2, k, e.storage[x], stored2)
    <3>1. CASE x = v
      <4>1. k = l /\ e.storage[x] = stored[k] BY <2>2, <2>3, <2>5, <2>6, <3>1 DEF HoldsLine
      <4> QED BY <1>6, <1>7, <2>4, <4>1 DEF Stored
    <3>2. CASE x # v
      <4>1. HoldsLine(c, x, k) /\ e.storage[x] = c.storage[x]
        BY <2>5, <2>6, <3>2 DEF HoldsLine, v
      <4> QED BY <1>3, <1>6, <1>7, <2>4, <4>1
    <3> QED BY <3>1, <3>2
  <2>7. ASSUME NEW k \in Lines, ~ Held(e, k) PROVE m2[k] = stored2[k]
    <3>1. ~ Held(c, k)
      <4> SUFFICES ASSUME NEW x \in Banks, HoldsLine(c, x, k) PROVE FALSE BY DEF Held
      <4>1. x # v /\ c.directory[x].line = k BY <1>8, <2>4 DEF HoldsLine, v
      <4>2. HoldsLine(e, x, k) BY <2>4, <2>5, <4>1 DEF HoldsLine
      <4> QED BY <2>7, <4>2 DEF Held
    <3> QED BY <1>4, <1>6, <1>7, <2>4, <3>1
  <2>8. \A x \in Banks : e.directory[x].line # None /\ e.directory[x].dirty => e.directory[x].line \in Written
    BY <1>3, <2>5 DEF dirty
  <2> QED BY <2>6, <2>7, <2>8 DEF Current, Held, stored2
<1>10. CASE /\ HasSent(c, ack)
            /\ e.state = c.state \/ (e.state = "Write" /\ c.state = "FillingForWrite")
            /\ BankBecomes(c, e, v, c.directory[v].line, c.directory[v].dirty, s)
  <2>1. c.state \in Filling /\ Gone(e) /\ e.bankToReplace = v
    BY <1>1, <1>10 DEF Filling, Gone, HasSent, SameRequest, v
  <2>2. /\ e.directory[v].line = c.directory[v].line /\ e.directory[v].dirty = c.directory[v].dirty
        /\ \A y \in Banks : y # v => e.directory[y] = c.directory[y] /\ e.storage[y] = c.storage[y]
    BY <1>1, <1>10, BankChanged
  <2>3. \A x \in Banks, k \in Lines :
          HoldsLine(e, x, k) <=> HoldsLine(c, x, k) /\ e.storage[x] = c.storage[x]
    BY <1>8, <2>1, <2>2 DEF HoldsLine, v
  <2>4. \A k \in Lines : Held(e, k) <=> Held(c, k)
    BY <1>8, <2>1, <2>2 DEF HoldsLine, Held, v
  <2>5. \A x \in Banks : e.directory[x].line # None /\ e.directory[x].dirty => e.directory[x].line \in Written
    BY <1>3, <2>2
  <2> QED BY <1>3, <1>4, <1>6, <1>7, <2>1, <2>3, <2>4, <2>5 DEF Current, Held, stored2
\* A store that has waited for its line.
<1>11. CASE c.state = "Write" /\ StoresMiss(c, q, e)
  <2> DEFINE l == q.line
             dirty == TRUE
             old == c.storage[v]
             t == After(old, q.zero, q.offset, q.data)
  <2>1. /\ q.req /\ q.write /\ q \in DataRequests \cup FetchRequests /\ q = c.request /\ l \in Lines
        /\ BankBecomes(c, e, v, l, dirty, t) /\ ~ Gone(e)
        /\ \A x \in Banks : c.directory[x].line # l
    BY <1>2, <1>11 DEF StoresMiss, Gone, Filling, v
  <2>2. ~ Held(c, l) BY <2>1 DEF Held, HoldsLine
  <2>3. t = EffectOf(stored, q)[l]
    <3>1. EffectOf(stored, q)[l] = After(stored[l], q.zero, q.offset, q.data)
      BY <2>1, EffectOfStore
    <3>2. CASE q.zero BY <3>1, <3>2 DEF After
    <3>3. CASE ~ q.zero
      <4>1. old = m[l] BY <1>11, <2>1, <3>3 DEF FallFrom, CacheInv, Clean, v
      <4>2. old = stored[l] BY <1>3, <2>1, <2>2, <4>1
      <4> QED BY <3>1, <4>2
    <3> QED BY <3>2, <3>3
  <2>4. \A k \in Lines : k # l => stored2[k] = stored[k]
    BY <2>1, EffectOfStore DEF StoredNext, stored2
  <2>5. Stored(q2, l, t, stored2)
    <3>1. CASE c.ack BY <2>1, <2>3, <3>1 DEF StoredNext, Stored, stored2
    <3>2. CASE ~ c.ack BY <1>6, <2>1, <2>3, <3>2 DEF Stored
    <3> QED BY <3>1, <3>2
  <2> HIDE DEF l, dirty, t, old
  <2>6. /\ e.directory[v].line = l /\ e.directory[v].dirty = dirty /\ e.storage[v] = t
        /\ \A y \in Banks : y # v => e.directory[y] = c.directory[y] /\ e.storage[y] = c.storage[y]
    BY <1>1, <2>1, BankChanged
  <2>7. ASSUME NEW x \in Banks, NEW k \in Lines, HoldsLine(e, x, k)
        PROVE  Stored(q2, k, e.storage[x], stored2)
    <3>1. CASE x = v BY <2>5, <2>6, <2>7, <3>1 DEF HoldsLine
    <3>2. CASE x # v
      <4>1. /\ HoldsLine(c, x, k) /\ e.storage[x] = c.storage[x] /\ k # l
        BY <2>1, <2>6, <2>7, <3>2 DEF HoldsLine, v
      <4>2. c.storage[x] = stored[k]
        <5>1. Stored(q, k, c.storage[x], stored) BY <1>3, <4>1
        <5> QED BY <4>1, <5>1 DEF Stored, l
      <4> QED BY <2>4, <4>1, <4>2 DEF Stored
    <3> QED BY <3>1, <3>2
  <2>8. ASSUME NEW k \in Lines, ~ Held(e, k) PROVE m2[k] = stored2[k]
    <3>1. k # l BY <1>1, <2>1, <2>6, <2>8 DEF Held, HoldsLine
    <3>2. stored2[k] = stored[k] BY <2>4, <3>1
    <3>3. CASE ~ Held(c, k) BY <1>4, <3>2, <3>3
    <3>4. ASSUME NEW x \in Banks, HoldsLine(c, x, k) PROVE m2[k] = stored2[k]
      <4>1. x = v /\ c.directory[v].line = k
        <5>1. CASE x # v BY <2>1, <2>6, <2>8, <3>4, <5>1 DEF Held, HoldsLine
        <5>2. CASE x = v BY <3>4, <5>2 DEF HoldsLine
        <5> QED BY <5>1, <5>2
      <4>2. c.storage[v] = stored[k]
        <5>1. Stored(q, k, c.storage[v], stored) BY <1>3, <3>4, <4>1
        <5> QED BY <3>1, <5>1 DEF Stored, l
      <4>3. m2[k] = c.storage[v]
        <5>1. CASE b.state = "Writing"
          <6>1. b.length + WordUnits = LineUnits
            BY <1>11, <5>1 DEF EjectDuringWord, AfterEjects
          <6> QED BY <4>1, <5>1, <6>1 DEF StorageFalls, LineOut, v
        <5>2. CASE b.state # "Writing"
          <6>1. m[k] = c.storage[v]
            BY <1>11, <3>4, <4>1, <5>2 DEF Leaving, AfterEjects, v
          <6> QED BY <5>2, <6>1 DEF StorageFalls
        <5> QED BY <5>1, <5>2
      <4> QED BY <3>2, <4>2, <4>3
    <3> QED BY <3>3, <3>4 DEF Held
  <2>9. \A x \in Banks : e.directory[x].line # None /\ e.directory[x].dirty => e.directory[x].line \in Written
    <3>1. l \in Written BY <1>2, <1>11, <2>1 DEF Written, l
    <3> QED BY <1>3, <2>6, <3>1
  <2> QED BY <2>7, <2>8, <2>9 DEF Current, Held, stored2
\* A store that hit.
<1>12. CASE WritesHit(c, q) /\ StoresHit(c, q, e)
  <2> DEFINE l == q.line
             h == c.hit
             dirty == TRUE
             old == c.storage[h]
             t == After(old, q.zero, q.offset, q.data)
  <2>1. /\ q.req /\ q.write /\ q \in DataRequests \cup FetchRequests /\ l \in Lines
        /\ h \in Banks /\ c.directory[h].line = l /\ l # None
        /\ BankBecomes(c, e, h, l, dirty, t) /\ ~ Gone(e) /\ ~ Gone(c)
        /\ stored2 = EffectOf(stored, q) /\ m2 = m
    <3>1. c.state = "Idle" /\ e.state = "Idle" /\ c.ack = TRUE
      BY <1>2, <1>12 DEF StoresHit
    <3>2. m2 = m BY <3>1 DEF StorageFalls, EjectDuringWord, AfterEjects
    <3>3. BankBecomes(c, e, h, c.directory[h].line, dirty, t) BY <1>12 DEF StoresHit
    <3>4. q.req /\ q.write BY <1>12 DEF WritesHit
    <3> HIDE DEF dirty, t
    <3> QED BY <1>2, <1>12, <3>1, <3>2, <3>3, <3>4, LinesAreNotNone DEF Gone, Filling, StoredNext, stored2
  <2>2. t = EffectOf(stored, q)[l]
    <3>1. EffectOf(stored, q)[l] = After(stored[l], q.zero, q.offset, q.data)
      BY <2>1, EffectOfStore
    <3>2. HoldsLine(c, h, l) BY <2>1 DEF HoldsLine
    <3>3. Stored(q, l, old, stored) BY <1>3, <2>1, <3>2
    <3>4. CASE old = stored[l] BY <3>1, <3>4
    <3>5. CASE old = After(stored[l], q.zero, q.offset, q.data)
      <4>1. stored[l] \in Block BY <2>1
      <4> QED BY <2>1, <3>1, <3>5, <4>1, StoreStays
    <3> QED BY <3>1, <3>3, <3>4, <3>5 DEF Stored
  <2>3. \A k \in Lines : k # l => stored2[k] = stored[k] BY <2>1, EffectOfStore
  <2> HIDE DEF l, h, dirty, t, old
  <2>4. /\ e.directory[h].line = l /\ e.directory[h].dirty = dirty /\ e.storage[h] = t
        /\ \A y \in Banks : y # h => e.directory[y] = c.directory[y] /\ e.storage[y] = c.storage[y]
    BY <1>1, <2>1, BankChanged
  <2>5. ASSUME NEW x \in Banks, NEW k \in Lines, HoldsLine(e, x, k)
        PROVE  Stored(q2, k, e.storage[x], stored2)
    <3>1. CASE x = h BY <2>1, <2>2, <2>4, <2>5, <3>1 DEF HoldsLine, Stored
    <3>2. CASE x # h
      <4>1. /\ HoldsLine(c, x, k) /\ e.storage[x] = c.storage[x] /\ c.directory[x].line = k
        BY <2>1, <2>4, <2>5, <3>2 DEF HoldsLine
      <4>2. k # l BY <1>1, <2>1, <3>2, <4>1
      <4>3. c.storage[x] = stored[k]
        <5>1. Stored(q, k, c.storage[x], stored) BY <1>3, <4>1
        <5> QED BY <4>2, <5>1 DEF Stored, l
      <4> QED BY <2>3, <4>1, <4>2, <4>3 DEF Stored
    <3> QED BY <3>1, <3>2
  <2>6. ASSUME NEW k \in Lines, ~ Held(e, k) PROVE m2[k] = stored2[k]
    <3>1. ~ Held(c, k)
      <4> SUFFICES ASSUME NEW x \in Banks, HoldsLine(c, x, k) PROVE FALSE BY DEF Held
      <4>1. HoldsLine(e, x, k) BY <2>1, <2>4 DEF HoldsLine
      <4> QED BY <2>6, <4>1 DEF Held
    <3>2. k # l BY <2>1, <2>4, <2>6 DEF Held, HoldsLine
    <3> QED BY <1>4, <2>3, <3>1, <3>2
  <2>7. \A x \in Banks : e.directory[x].line # None /\ e.directory[x].dirty => e.directory[x].line \in Written
    <3>1. l \in Written BY <1>2, <1>12, <2>1 DEF Written, l
    <3> QED BY <1>3, <2>4, <3>1
  <2> QED BY <2>5, <2>6, <2>7 DEF Current, Held, stored2
<1>13. CASE /\ ~ HasSent(c, ack) /\ c.state # "Write" /\ ~ WritesHit(c, q)
            /\ e.state = c.state /\ SameLines(c, e)
  <2>1. Gone(e) = Gone(c) /\ e.bankToReplace = c.bankToReplace BY <1>1, <1>13 DEF Gone, SameRequest
  <2>2. ~ (c.ack /\ q.write)
    <3> SUFFICES ASSUME c.ack, q.write PROVE FALSE OBVIOUS
    <3>1. /\ q.req
          /\ \/ c.state = "Idle" /\ c.hit # None
             \/ c.state = "FillingForRead" /\ c.request = q
      BY <1>13 DEF FallFrom, Answers
    <3> QED BY <1>1, <1>13, <3>1 DEF WritesHit
  <2>3. \A x \in Banks, k \in Lines : HoldsLine(e, x, k) <=> HoldsLine(c, x, k)
    BY <1>13, <2>1 DEF HoldsLine, SameLines
  <2>4. \A k \in Lines : Held(e, k) <=> Held(c, k) BY <2>3 DEF Held
  <2> QED BY <1>3, <1>4, <1>6, <1>13, <2>2, <2>3, <2>4 DEF Current, Held, SameLines, stored2
<1> QED
  <2> HIDE DEF BankBecomes
  <2> QED BY <1>5, <1>9, <1>10, <1>11, <1>12, <1>13 DEF FallCases, v, s

\* The bus: t and n are the transfers the caches ask for after the edge.
LEMMA BusFalls ==
  ASSUME NEW b, NEW t, NEW n, NEW g, NEW f, BusShape(b), b.state \in BusStates,
         g = BusOnFallingEdge(b), f = g \/ f = BusAsync(g, t, n)
  PROVE  /\ f.state = "Reading" => b.state = "Reading" /\ BusKeeps(b, f)
         /\ f.state = "Fetching" => b.state = "Fetching" /\ BusKeeps(b, f)
         /\ f.state = "Writing" => /\ b.state = "Writing" /\ b.length + WordUnits # LineUnits
                                   /\ BusGoesOn(b, f) /\ f.length = b.length + WordUnits
         /\ b.state = "Writing" /\ b.length + WordUnits # LineUnits => f.state = "Writing"
         /\ \A latency \in {"ReadLatency", "WriteLatency"} : BusPrepares(b, t, t, latency, f)
         /\ BusPrepares(b, n, n, "InstructionLatency", f)
<1>1. /\ BusShape(g)
      /\ b.state # "Writing" => g = b
      /\ b.state = "Writing" => /\ g.state = IF b.length + WordUnits = LineUnits THEN "Idle" ELSE "Writing"
                                /\ BusGoesOn(b, g) /\ g.length = b.length + WordUnits
  BY DEF BusOnFallingEdge, Advanced, LineComplete, BusShape, BusGoesOn
<1>2. CASE f = g
  <2>1. CASE b.state = "Writing" BY <1>1, <1>2, <2>1 DEF BusPrepares, BusKeeps, BusGoesOn
  <2>2. CASE b.state # "Writing" BY <1>1, <1>2, <2>2 DEF BusPrepares, BusKeeps
  <2> QED BY <2>1, <2>2
<1>3. CASE f # g
  <2>1. g.state = "Idle" /\ f = BusGetRequest(g, t, n) BY <1>3 DEF BusAsync
  <2>2. /\ f.state \in {"Idle", "ReadLatency", "WriteLatency", "InstructionLatency"}
        /\ f.state \in {"ReadLatency", "WriteLatency"} => BusTakes(t, f)
        /\ f.state = "InstructionLatency" => BusTakes(n, f)
    BY <1>1, <2>1, BusStarts
  <2> QED BY <1>1, <2>1, <2>2 DEF BusPrepares
<1> QED BY <1>2, <1>3

\* A cache that the bus serves is at the place of the bus again after the edge.
LEMMA FallSends ==
  ASSUME NEW c, NEW q, NEW lost, NEW requests, NEW ack, NEW beat, NEW m, NEW m2, NEW e,
         NEW b, NEW f, NEW reading,
         FallFrom(c, q, lost, requests, ack, beat, m, m2), FallPlaces(c, q, ack, beat, e),
         HasSentTo(b, c, reading, ack, beat, m), FillDuringWord(b, c, reading, ack),
         f.state = reading => b.state = reading /\ BusKeeps(b, f)
  PROVE  SendsTo(f, e, reading)
<1> SUFFICES ASSUME f.state = reading
             PROVE  f.line = e.mem.line /\ f.offset = e.lineOffset
  BY DEF SendsTo
<1>1. /\ b.state = reading /\ f.line = b.line /\ f.offset = b.offset
      /\ b.line = c.mem.line /\ b.offset = Wrapped(c.lineOffset + WordUnits)
  BY DEF BusKeeps, HasSentTo
<1>2. HasSent(c, ack) BY <1>1 DEF FillDuringWord, HasSent
<1>3. e.lineOffset = (c.lineOffset + WordUnits) % LineUnits /\ e.mem.line = c.mem.line
  BY <1>2 DEF FallPlaces, Fills, FallKeeps
<1>4. (c.lineOffset + WordUnits) % LineUnits = Wrapped(c.lineOffset + WordUnits)
  BY <1>2, FallFills
<1> QED BY <1>1, <1>3, <1>4

\* A falling edge.
DataFalls ==
  /\ \E lost : ~ lost /\ FallFrom(dcache, cpu, lost, DataRequests, bus.dAck, bus.dData,
                                 storage, storage')
  /\ FallPlaces(dcache, cpu, bus.dAck, bus.dData, dcache')
  /\ StorageFalls(dcache, bus, storage, storage') /\ EjectDuringWord(bus, dcache)
  /\ cpu' = (IF dcache.ack THEN NoRequest ELSE cpu)
  /\ contents' = StoredNext(dcache, cpu, contents)
LEMMA FallCoherence ==
  ASSUME IInv, CoherenceInv, Fall
  PROVE  CoherenceInv' /\ DataFalls
<1>0. IInv' BY FallIInv
<1>1. /\ phase = "fall" /\ phase' = "rise" /\ AtFall /\ DuringWord(bus, dcache, icache)
      /\ CacheShape(dcache) /\ CacheShape(icache) /\ Asking(dcache) /\ Asking(icache)
      /\ Asking(dcache') /\ bus.state \in BusStates /\ BusShape(bus)
      /\ bus.dAck \in BOOLEAN /\ bus.iAck \in BOOLEAN
  BY <1>0 DEF Fall, CoherenceInv, IInv, Serving
<1>2. /\ AlignedLoads /\ MemoryTypes
      /\ CacheInv(dcache, cpu, FALSE, DataRequests, storage)
      /\ CacheInv(icache, fetch, dropped, FetchRequests, storage)
      /\ Directory(dcache, DataRequests) /\ Directory(icache, FetchRequests)
      /\ Leaving(dcache, bus, storage) /\ Current(dcache, cpu, storage, contents)
      /\ Prepares(bus, dcache, "ReadLatency") /\ Prepares(bus, dcache, "WriteLatency")
      /\ Prepares(bus, icache, "InstructionLatency")
  BY DEF CoherenceInv, DataInv, CacheInv
<1>3. /\ Answers(dcache, cpu, FALSE, storage) /\ Answers(icache, fetch, dropped, storage)
      /\ HasSentTo(bus, dcache, "Reading", bus.dAck, bus.dData, storage)
      /\ HasSentTo(bus, icache, "Fetching", bus.iAck, bus.iData, storage)
      /\ bus.state = "Writing" =>
           dcache.mem.data = Units(dcache.storage[dcache.bankToReplace], bus.offset, WordUnits)
  BY <1>1 DEF AtFall
<1>4. /\ cpu' = (IF dcache.ack THEN NoRequest ELSE cpu)
      /\ fetch' = (IF icache.ack THEN NoRequest ELSE fetch)
      /\ dcache' = OnFallingEdge(dcache, cpu, bus.dAck, bus.dData)
      /\ icache' = OnFallingEdge(icache, fetch, bus.iAck, bus.iData)
      /\ storage' = StorageOnFallingEdge(bus, dcache.mem, storage)
      /\ contents' = StoredNext(dcache, cpu, contents)
      /\ ~ icache.ack /\ fetch.req => (dropped => dropped')
  <2>1. dropped' \in IF fetch.req /\ ~ icache.ack THEN {dropped, TRUE} ELSE {FALSE} BY DEF Fall
  <2>2. ~ icache.ack /\ fetch.req => (dropped => dropped') BY <2>1
  <2> QED BY <2>2 DEF Fall, StoredNext
<1>5. /\ storage \in [Lines -> Block] /\ contents \in [Lines -> Block]
      /\ cpu \in DataRequests \cup {NoRequest} /\ fetch \in FetchRequests \cup {NoRequest}
      /\ \A l \in Lines \ Written : contents[l] = Image[l]
  BY <1>2 DEF MemoryTypes
<1>6. /\ dcache.hit # None => dcache.state = "Idle" /\ dcache.hit \in Banks
      /\ icache.hit # None => icache.state = "Idle" /\ icache.hit \in Banks
  BY <1>3 DEF Answers
<1>7. StorageFalls(dcache, bus, storage, storage')
  BY <1>2, <1>3, <1>4, <1>5, FallOfStorage
<1>8. FallPlaces(dcache, cpu, bus.dAck, bus.dData, dcache')
  <2>1. /\ dcache.directory \in [Banks -> [line : Lines \cup {None}, dirty : BOOLEAN]]
        /\ dcache.storage \in [Banks -> Block] /\ dcache.bankToReplace \in Banks
    BY <1>2 DEF Directory
  <2> QED BY <1>1, <1>4, <1>6, <2>1, FallOfLines
<1>9. FallPlaces(icache, fetch, bus.iAck, bus.iData, icache')
  <2>1. /\ icache.directory \in [Banks -> [line : Lines \cup {None}, dirty : BOOLEAN]]
        /\ icache.storage \in [Banks -> Block] /\ icache.bankToReplace \in Banks
    BY <1>2 DEF Directory
  <2> QED BY <1>1, <1>4, <1>6, <2>1, FallOfLines
<1>10. Unrelated(dcache, storage, storage')
  <2>1. CASE bus.state # "Writing" BY <1>7, <2>1 DEF StorageFalls, Unrelated
  <2>2. CASE bus.state = "Writing"
    <3>1. /\ bus.line = dcache.directory[dcache.bankToReplace].line /\ bus.line # None
          /\ dcache.directory[dcache.bankToReplace].dirty
          /\ \A l \in Lines : l # bus.line => storage'[l] = storage[l]
      BY <1>7, <2>2 DEF StorageFalls, LineOut, IsDirty
    <3>2. /\ dcache.bankToReplace \in Banks
          /\ \A x, y \in Banks :
               dcache.directory[x].line = dcache.directory[y].line => x = y \/ dcache.directory[x].line = None
          /\ dcache.state # "Idle" =>
               /\ dcache.request \in DataRequests
               /\ \A x \in Banks : dcache.directory[x].line # dcache.request.line
      BY <1>2 DEF Directory
    <3>3. dcache.state # "Idle" => dcache.request.line \in Lines BY <3>2, RequestShape
    <3> QED BY <3>1, <3>2, <3>3 DEF Unrelated, HoldsLine
  <2> QED BY <2>1, <2>2
<1>11. Unrelated(icache, storage, storage')
  <2>1. CASE bus.state # "Writing" BY <1>7, <2>1 DEF StorageFalls, Unrelated
  <2>2. CASE bus.state = "Writing"
    <3>1. /\ bus.line \in Written
          /\ \A l \in Lines : l # bus.line => storage'[l] = storage[l]
      <4>1. dcache.bankToReplace \in Banks BY <1>2 DEF Directory
      <4> QED BY <1>2, <1>7, <2>2, <4>1 DEF StorageFalls, LineOut, IsDirty, Current
    <3>2. \A r \in FetchRequests : r.line \notin Written /\ r.line \in Lines
      BY ProgramAssumption, RequestShape DEF Written
    <3>3. /\ icache.state # "Idle" => icache.request \in FetchRequests
          /\ \A x \in Banks : icache.directory[x].line \in Asked(FetchRequests)
      BY <1>2 DEF Directory
    <3>4. \A x \in Banks, l \in Lines : HoldsLine(icache, x, l) => l \notin Written
      BY <3>2, <3>3, LinesAreNotNone DEF HoldsLine, Asked
    <3> QED BY <3>1, <3>2, <3>3, <3>4 DEF Unrelated
  <2> QED BY <2>1, <2>2
<1>12. storage' \in [Lines -> Block] BY <1>7 DEF StorageFalls
<1> DEFINE lost == FALSE
<1>13. FallFrom(dcache, cpu, lost, DataRequests, bus.dAck, bus.dData, storage, storage')
  BY <1>1, <1>2, <1>3, <1>5, <1>10, <1>12 DEF FallFrom, HasSentTo
<1>14. FallFrom(icache, fetch, dropped, FetchRequests, bus.iAck, bus.iData, storage, storage')
  BY <1>1, <1>2, <1>3, <1>5, <1>11, <1>12, FetchAssumption DEF FallFrom, HasSentTo
<1>15. ~ lost OBVIOUS
<1> HIDE DEF lost
<1>16. FallTo(cpu', lost, DataRequests, storage', dcache')
  BY <1>4, <1>8, <1>13, FallOfEither
<1>17. FallTo(fetch', dropped', FetchRequests, storage', icache')
  BY <1>4, <1>9, <1>14, FallOfEither
<1>18. Current(dcache', cpu', storage', contents')
  BY <1>1, <1>2, <1>4, <1>5, <1>7, <1>8, <1>13, <1>15, FallCurrent DEF DuringWord
<1>19. /\ bus'.state = "Reading" => bus.state = "Reading" /\ BusKeeps(bus, bus')
       /\ bus'.state = "Fetching" => bus.state = "Fetching" /\ BusKeeps(bus, bus')
       /\ bus'.state = "Writing" => /\ bus.state = "Writing" /\ bus.length + WordUnits # LineUnits
                                    /\ BusGoesOn(bus, bus') /\ bus'.length = bus.length + WordUnits
       /\ bus.state = "Writing" /\ bus.length + WordUnits # LineUnits => bus'.state = "Writing"
       /\ BusPrepares(bus, dcache'.mem, dcache'.mem, "ReadLatency", bus')
       /\ BusPrepares(bus, dcache'.mem, dcache'.mem, "WriteLatency", bus')
       /\ BusPrepares(bus, icache'.mem, icache'.mem, "InstructionLatency", bus')
  <2> DEFINE g == BusOnFallingEdge(bus)
  <2>1. bus' = g \/ bus' = BusAsync(g, dcache'.mem, icache'.mem) BY DEF Fall
  <2>2. g = BusOnFallingEdge(bus) OBVIOUS
  <2> HIDE DEF g
  <2> QED BY <1>1, <2>1, <2>2, BusFalls
<1>20. /\ SendsTo(bus', dcache', "Reading") /\ SendsTo(bus', icache', "Fetching")
  <2>1. FillDuringWord(bus, dcache, "Reading", bus.dAck) /\ FillDuringWord(bus, icache, "Fetching", bus.iAck)
    BY <1>1 DEF DuringWord
  <2>2. SendsTo(bus', dcache', "Reading") BY <1>3, <1>8, <1>13, <1>19, <2>1, FallSends
  <2>3. SendsTo(bus', icache', "Fetching") BY <1>3, <1>9, <1>14, <1>19, <2>1, FallSends
  <2> QED BY <2>2, <2>3
<1>21. /\ dcache'.mem.line = dcache.mem.line /\ dcache'.mem.offset = dcache.mem.offset
       /\ icache'.mem.line = icache.mem.line /\ icache'.mem.offset = icache.mem.offset
  BY <1>8, <1>9 DEF FallPlaces, FallKeeps
<1>22. /\ Prepares(bus', dcache', "ReadLatency") /\ Prepares(bus', dcache', "WriteLatency")
       /\ Prepares(bus', icache', "InstructionLatency")
  BY <1>2, <1>19, <1>21 DEF Prepares, BusPrepares, BusTakes, BusKeeps
<1>23. Leaving(dcache', bus', storage')
  <2>1. dcache'.state = "Ejecting" /\ dcache'.waitingForAck => dcache.waitingForAck
    BY <1>1, <1>4, FallOfCache DEF FallStep
  <2>3. WritesHit(dcache, cpu) => dcache.state = "Idle" BY <1>13, FallServes
  <2>4. EjectDuringWord(bus, dcache) BY <1>1 DEF DuringWord
  <2> QED BY <1>1, <1>2, <1>7, <1>8, <1>19, <2>1, <2>3, <2>4, FallLeaves
<1>24. MemoryTypes'
  <2>1. /\ cpu' \in DataRequests \cup {NoRequest} /\ fetch' \in FetchRequests \cup {NoRequest}
    BY <1>4, <1>5
  <2>2. contents' \in [Lines -> Block] /\ \A l \in Lines \ Written : contents'[l] = Image[l]
    <3>1. CASE ~ (dcache.ack /\ cpu.write) BY <1>4, <1>5, <3>1 DEF StoredNext
    <3>2. CASE dcache.ack /\ cpu.write
      <4>1. cpu \in DataRequests BY <1>5, <3>2 DEF NoRequest
      <4>2. contents' = EffectOf(contents, cpu) BY <1>4, <3>2 DEF StoredNext
      <4>3. /\ \A l \in Lines : l # cpu.line => EffectOf(contents, cpu)[l] = contents[l]
            /\ EffectOf(contents, cpu) \in [Lines -> Block]
        BY <1>5, <3>2, <4>1, EffectOfStore
      <4>4. cpu.line \in Written BY <3>2, <4>1 DEF Written
      <4> QED BY <1>5, <4>2, <4>3, <4>4
    <3> QED BY <3>1, <3>2
  <2> QED BY <1>12, <2>1, <2>2 DEF MemoryTypes
<1>25. /\ CacheInv(dcache, cpu, FALSE, DataRequests, storage)'
       /\ CacheInv(icache, fetch, dropped, FetchRequests, storage)'
  BY <1>16, <1>17 DEF FallTo, lost
<1>26. DataInv' BY <1>18, <1>22, <1>23 DEF DataInv
<1>27. AtRise' BY <1>16, <1>17, <1>20 DEF AtRise, FallTo
<1>28. DataFalls BY <1>1, <1>4, <1>7, <1>8, <1>13, <1>15 DEF DataFalls, DuringWord
<1> QED BY <1>1, <1>2, <1>24, <1>25, <1>26, <1>27, <1>28 DEF CoherenceInv

\* The start: empty caches, and memory as the program finds it.
LEMMA InitCoherence ==
  ASSUME AlignedLoads, Init
  PROVE  CoherenceInv
<1>1. [u \in Unit |-> Zero] \in Block /\ 1 \in Banks BY CacheAssumption DEF Block, Banks
<1>2. \A requests : Directory(EmptyCache, requests)
  BY <1>1 DEF EmptyCache, Directory, Asked
<1>3. \A x \in Banks, l \in Lines : ~ HoldsLine(EmptyCache, x, l)
  BY LinesAreNotNone DEF EmptyCache, HoldsLine
<1>4. /\ EmptyCache.state = "Idle" /\ EmptyCache.ack = FALSE
      /\ \A x \in Banks : EmptyCache.directory[x].line = None
  BY DEF EmptyCache
<1>5. /\ dcache = EmptyCache /\ icache = EmptyCache /\ bus = IdleBus /\ storage = Image
      /\ contents = Image /\ cpu = NoRequest /\ fetch = NoRequest /\ dropped = FALSE /\ phase = "rise"
      /\ bus.state = "Idle"
  BY DEF Init, IdleBus
<1>6. /\ CacheInv(dcache, cpu, FALSE, DataRequests, storage)
      /\ CacheInv(icache, fetch, dropped, FetchRequests, storage)
  BY <1>2, <1>3, <1>4, <1>5 DEF CacheInv, Holds, Unanswered, Clean, Arriving, Filling
<1>7. DataInv
  BY <1>3, <1>4, <1>5 DEF DataInv, Leaving, Current, Prepares, AfterEjects
<1>8. MemoryTypes BY <1>5, ImageAssumption DEF MemoryTypes, Block
<1>9. AtRise BY <1>4, <1>5 DEF AtRise, SendsTo, Collected
<1> QED BY <1>5, <1>6, <1>7, <1>8, <1>9 DEF CoherenceInv

LEMMA NothingHappens ==
  ASSUME CoherenceInv, UNCHANGED vars
  PROVE  CoherenceInv'
BY DEF vars, CoherenceInv, MemoryTypes, DataInv, AtRise, AtFall

\* The directories and the banks of the two caches, the line that fills one or leaves it and
\* the place of the bus in it fit the requests and the pages at every edge of the clock, for
\* lines, words, latencies and numbers of banks of any size: what OnFrontEdge(), Forward(),
\* OnFallingEdge() and Async() of Cache.cpp and BusInterfaceUnit.cpp rely on.
THEOREM Coherence ==
  ASSUME AlignedLoads
  PROVE  Spec => []CoherenceInv
<1>1. Init => CoherenceInv BY InitCoherence
<1>2. IInv /\ CoherenceInv /\ [Next]_vars => CoherenceInv'
  BY RiseCoherence, FallCoherence, NothingHappens DEF Next
<1>3. Spec => []IInv BY Invariance
<1> QED BY <1>1, <1>2, <1>3, PTL DEF Spec

\* The lines that the program does not write are in memory as they were.
LEMMA UnwrittenLines ==
  ASSUME CoherenceInv, NEW l \in Lines \ Written
  PROVE  storage[l] = contents[l] /\ contents[l] = Image[l]
<1>1. /\ Clean(dcache, storage) /\ Current(dcache, cpu, storage, contents) /\ MemoryTypes
      /\ Directory(dcache, DataRequests)
  BY DEF CoherenceInv, CacheInv, DataInv
<1>2. CASE \A x \in Banks : ~ HoldsLine(dcache, x, l) BY <1>1, <1>2 DEF Current, MemoryTypes
<1>3. ASSUME NEW x \in Banks, HoldsLine(dcache, x, l)
      PROVE  storage[l] = contents[l] /\ contents[l] = Image[l]
  <2>1. dcache.directory[x].line = l /\ l # None BY <1>3, LinesAreNotNone DEF HoldsLine
  <2>2. ~ dcache.directory[x].dirty BY <1>1, <2>1 DEF Current
  <2>3. dcache.storage[x] = storage[l] BY <1>1, <1>3, <2>2 DEF Clean
  <2>4. Stored(cpu, l, dcache.storage[x], contents) BY <1>1, <1>3 DEF Current
  <2>5. cpu.req => cpu \in DataRequests BY <1>1 DEF MemoryTypes, NoRequest
  <2>6. dcache.storage[x] = contents[l] BY <2>4, <2>5 DEF Stored, Written
  <2> QED BY <1>1, <2>3, <2>6 DEF MemoryTypes
<1> QED BY <1>2, <1>3

\* LoadExact: a load that Async(), OnFrontEdge() or Forward() of Cache.cpp answers has read
\* what the program stored last.
THEOREM LoadsAreExact ==
  ASSUME AlignedLoads
  PROVE  Spec => []LoadExact
<1>1. CoherenceInv => LoadExact
  <2> SUFFICES ASSUME CoherenceInv, phase = "fall", dcache.ack, ~ cpu.write
               PROVE  dcache.data = ValueOf(contents, cpu)
    BY DEF LoadExact
  <2>1. /\ Answers(dcache, cpu, FALSE, storage) /\ Directory(dcache, DataRequests)
        /\ Holds(dcache, cpu, FALSE) /\ Current(dcache, cpu, storage, contents) /\ MemoryTypes
    BY DEF CoherenceInv, AtFall, CacheInv, DataInv
  <2>2. cpu.req /\ cpu \in DataRequests /\ cpu.line \in Lines
    <3>1. cpu.req /\ cpu \in DataRequests \cup {NoRequest} BY <2>1 DEF Answers, MemoryTypes
    <3>2. cpu \in DataRequests BY <3>1 DEF NoRequest
    <3> QED BY <3>1, <3>2, RequestShape
  <2>3. CASE dcache.state = "Idle" /\ dcache.hit # None
    <3>1. /\ dcache.hit \in Banks /\ dcache.directory[dcache.hit].line = cpu.line
          /\ dcache.data = Units(dcache.storage[dcache.hit], cpu.offset, cpu.size)
      BY <2>1, <2>3 DEF Answers
    <3>2. HoldsLine(dcache, dcache.hit, cpu.line) BY <2>3, <3>1 DEF HoldsLine, Gone, Filling
    <3>3. Stored(cpu, cpu.line, dcache.storage[dcache.hit], contents)
      BY <2>1, <2>2, <3>1, <3>2 DEF Current
    <3> QED BY <3>1, <3>3 DEF Stored, ValueOf
  <2>4. CASE dcache.state = "Write"
    BY <2>1, <2>4 DEF Directory, Holds, Unanswered
  <2>5. CASE dcache.state = "FillingForRead" /\ dcache.request = cpu
             /\ dcache.data = Units(storage[cpu.line], cpu.offset, cpu.size)
    <3>1. \A x \in Banks : dcache.directory[x].line # cpu.line BY <2>1, <2>5 DEF Directory
    <3>2. storage[cpu.line] = contents[cpu.line]
      BY <2>1, <2>2, <3>1 DEF Current, HoldsLine
    <3> QED BY <2>5, <3>2 DEF ValueOf
  <2> QED BY <2>1, <2>3, <2>4, <2>5 DEF Answers
<1>2. Spec => []CoherenceInv BY Coherence
<1> QED BY <1>1, <1>2, PTL

\* FetchExact: what the fetch unit gets for the address it waits for, when it will not drop
\* it, are the instructions of the program, although both caches use the same bus and pages.
THEOREM FetchesAreExact ==
  ASSUME AlignedLoads
  PROVE  Spec => []FetchExact
<1>1. IInv /\ CoherenceInv => FetchExact
  <2> SUFFICES ASSUME IInv, CoherenceInv, phase = "fall", icache.ack, ~ dropped
               PROVE  icache.data = ValueOf(Image, fetch)
    BY DEF FetchExact
  <2>1. /\ Answers(icache, fetch, dropped, storage) /\ Clean(icache, storage) /\ MemoryTypes
        /\ ReadOnly(icache)
    BY DEF CoherenceInv, AtFall, CacheInv, IInv
  <2>2. fetch \in FetchRequests /\ fetch.line \in Lines /\ ~ fetch.write
    <3>1. fetch.req /\ fetch \in FetchRequests \cup {NoRequest} BY <2>1 DEF Answers, MemoryTypes
    <3>2. fetch \in FetchRequests BY <3>1 DEF NoRequest
    <3> QED BY <3>2, RequestShape, FetchAssumption
  <2>3. fetch.line \in Lines \ Written BY <2>2, ProgramAssumption DEF Written
  <2>4. storage[fetch.line] = Image[fetch.line] BY <2>3, UnwrittenLines
  <2>5. CASE icache.state = "Idle" /\ icache.hit # None
    <3>1. /\ icache.hit \in Banks /\ icache.directory[icache.hit].line = fetch.line
          /\ icache.data = Units(icache.storage[icache.hit], fetch.offset, fetch.size)
      BY <2>1, <2>2, <2>5 DEF Answers
    <3>2. HoldsLine(icache, icache.hit, fetch.line) BY <2>5, <3>1 DEF HoldsLine, Gone, Filling
    <3>3. icache.storage[icache.hit] = storage[fetch.line]
      BY <2>1, <2>2, <3>1, <3>2 DEF Clean, ReadOnly
    <3> QED BY <2>4, <3>1, <3>3 DEF ValueOf
  <2>6. CASE icache.state # "Idle"
    <3>1. icache.data = Units(storage[fetch.line], fetch.offset, fetch.size)
      BY <2>1, <2>6 DEF Answers, ReadOnly
    <3> QED BY <2>4, <3>1 DEF ValueOf
  <2> QED BY <2>1, <2>5, <2>6 DEF Answers, ReadOnly
<1>2. Spec => []CoherenceInv BY Coherence
<1>3. Spec => []IInv BY Invariance
<1> QED BY <1>1, <1>2, <1>3, PTL

\* The memory the program sees is what a bank holds of a line, and the pages for the others.
ViewIn(c, m) == [l \in Lines |->
  LET b == Search(c, l)
  IN  IF b = None \/ (Gone(c) /\ b = c.bankToReplace) THEN m[l] ELSE c.storage[b]]
Sees(c, m, view) ==
  /\ view \in [Lines -> Block]
  /\ \A x \in Banks, l \in Lines : HoldsLine(c, x, l) => view[l] = c.storage[x]
  /\ \A l \in Lines : (\A x \in Banks : ~ HoldsLine(c, x, l)) => view[l] = m[l]

LEMMA ViewSees ==
  ASSUME NEW c, NEW requests, Directory(c, requests), NEW m \in [Lines -> Block]
  PROVE  Sees(c, m, ViewIn(c, m))
<1> DEFINE view == ViewIn(c, m)
<1>1. /\ c.storage \in [Banks -> Block]
      /\ \A x, y \in Banks :
           c.directory[x].line = c.directory[y].line => x = y \/ c.directory[x].line = None
  BY DEF Directory
<1>2. ASSUME NEW l \in Lines
      PROVE  \/ /\ \A x \in Banks : ~ HoldsLine(c, x, l)
                /\ view[l] = m[l]
             \/ \E y \in Banks : /\ \A x \in Banks : HoldsLine(c, x, l) => x = y
                                 /\ HoldsLine(c, y, l) /\ view[l] = c.storage[y]
  <2> DEFINE b == Search(c, l)
  <2>1. view[l] = IF b = None \/ (Gone(c) /\ b = c.bankToReplace) THEN m[l] ELSE c.storage[b]
    BY DEF ViewIn
  <2>2. \/ b \in Banks /\ b # None /\ c.directory[b].line = l
        \/ b = None /\ \A x \in Banks : c.directory[x].line # l
    BY SearchFinds
  <2>3. l # None BY LinesAreNotNone
  <2> HIDE DEF b, view
  <2> QED BY <1>1, <2>1, <2>2, <2>3 DEF HoldsLine
<1>3. \A l \in Lines : view[l] \in Block BY <1>1, <1>2
<1>4. view = [l \in Lines |-> view[l]] BY DEF ViewIn
<1> HIDE DEF view
<1>5. view \in [Lines -> Block] BY <1>3, <1>4
<1>6. Sees(c, m, view) BY <1>2, <1>5 DEF Sees
<1> QED BY <1>6 DEF view

LEMMA OneView ==
  ASSUME NEW c, NEW m, NEW view, NEW other, Sees(c, m, view), Sees(c, m, other)
  PROVE  view = other
<1>1. \A l \in Lines : view[l] = other[l] BY DEF Sees
<1> QED BY <1>1 DEF Sees

\* A view of the memory: what the program has stored, with or without the store in progress.
LEMMA CurrentView ==
  ASSUME NEW c, NEW q \in DataRequests \cup {NoRequest}, NEW m,
         NEW stored \in [Lines -> Block], Current(c, q, m, stored), NEW view, Sees(c, m, view)
  PROVE  /\ view = stored \/ (q.req /\ q.write /\ view = EffectOf(stored, q))
         /\ (\A x \in Banks : ~ HoldsLine(c, x, q.line)) => view = stored
<1>1. ASSUME NEW l \in Lines PROVE Stored(q, l, view[l], stored)
  BY DEF Sees, Current, Stored
<1>2. ASSUME NEW l \in Lines, \A x \in Banks : ~ HoldsLine(c, x, l)
      PROVE  view[l] = stored[l]
  BY <1>2 DEF Sees, Current
<1>3. view \in [Lines -> Block] BY DEF Sees
<1>4. CASE ~ (q.req /\ q.write)
  <2>1. \A l \in Lines : view[l] = stored[l] BY <1>1, <1>4 DEF Stored
  <2> QED BY <1>3, <2>1
<1>5. CASE q.req /\ q.write
  <2>1. q \in DataRequests BY <1>5 DEF NoRequest
  <2>2. q.line \in Lines BY <2>1, RequestShape
  <2>3. \A l \in Lines : l # q.line => view[l] = stored[l] BY <1>1 DEF Stored
  <2>4. /\ \A l \in Lines : l # q.line => EffectOf(stored, q)[l] = stored[l]
        /\ EffectOf(stored, q) \in [Lines -> Block]
    BY <1>5, <2>1, EffectOfStore
  <2>5. view[q.line] = stored[q.line] => view = stored
    BY <1>3, <2>3
  <2> DEFINE after == EffectOf(stored, q)
  <2> HIDE DEF after
  <2>6. view[q.line] = after[q.line] => view = after
    <3>1. \A l \in Lines : l # q.line => view[l] = after[l] BY <2>3, <2>4 DEF after
    <3>2. after \in [Lines -> Block] BY <2>4 DEF after
    <3> QED BY <1>3, <3>1, <3>2
  <2>7. view[q.line] = stored[q.line] \/ view[q.line] = after[q.line]
    BY <1>1, <2>2 DEF Stored, after
  <2> QED BY <1>2, <1>5, <2>2, <2>5, <2>6, <2>7 DEF after
<1> QED BY <1>4, <1>5

\* A store that is done twice is done once.
LEMMA EffectTwice ==
  ASSUME NEW q \in DataRequests, q.write, NEW stored \in [Lines -> Block]
  PROVE  EffectOf(EffectOf(stored, q), q) = EffectOf(stored, q)
<1> DEFINE one == EffectOf(stored, q)
           two == EffectOf(one, q)
<1>1. /\ one[q.line] = After(stored[q.line], q.zero, q.offset, q.data)
      /\ one \in [Lines -> Block]
  BY EffectOfStore
<1> HIDE DEF one
<1>2. /\ two[q.line] = After(one[q.line], q.zero, q.offset, q.data)
      /\ \A l \in Lines : l # q.line => two[l] = one[l]
      /\ two \in [Lines -> Block]
  BY <1>1, EffectOfStore
<1>3. q.line \in Lines BY RequestShape
<1>4. After(one[q.line], q.zero, q.offset, q.data) = one[q.line]
  BY <1>1, <1>3, StoreStays
<1> HIDE DEF two
<1>5. \A l \in Lines : two[l] = one[l] BY <1>2, <1>3, <1>4
<1>6. two = one BY <1>1, <1>2, <1>5
<1> QED BY <1>6 DEF two, one

\* A rising edge does not change what the program sees: a line that a bank gives up is in
\* the pages by then.
LEMMA RiseView ==
  ASSUME NEW c, NEW q, NEW e, NEW b, NEW m, NEW view,
         Asking(c), Leaving(c, b, m), b.state = "Writing" => c.state = "Ejecting",
         IF c.state = "Idle" THEN IdlePlaces(c, e) ELSE RisePlaces(c, q, e), Sees(c, m, view)
  PROVE  Sees(e, m, view)
<1>1. SameLines(c, e) BY DEF IdlePlaces, RisePlaces
<1>2. /\ Gone(c) => Gone(e) /\ e.bankToReplace = c.bankToReplace
      /\ Gone(e) /\ ~ Gone(c) => /\ c.state \in {"FillForRead", "FillForWrite"}
                                 /\ e.bankToReplace = c.bankToReplace
  <2>1. CASE c.state = "Idle" BY <2>1 DEF IdlePlaces, Gone
  <2>2. CASE c.state # "Idle"
    BY <2>2 DEF RisePlaces, SameRequest, Gone, Filling, Asking, CacheStates, AfterEjects, AfterEject
  <2> QED BY <2>1, <2>2
<1>3. \A x \in Banks, l \in Lines : HoldsLine(e, x, l) => HoldsLine(c, x, l)
  BY <1>1, <1>2 DEF HoldsLine, SameLines
<1>4. ASSUME NEW l \in Lines, \A x \in Banks : ~ HoldsLine(e, x, l)
      PROVE  view[l] = m[l]
  <2>1. CASE \A x \in Banks : ~ HoldsLine(c, x, l) BY <2>1 DEF Sees
  <2>2. ASSUME NEW x \in Banks, HoldsLine(c, x, l) PROVE view[l] = m[l]
    <3>1. x = c.bankToReplace /\ c.state \in {"FillForRead", "FillForWrite"}
      BY <1>1, <1>2, <1>4, <2>2 DEF HoldsLine, SameLines
    <3>2. m[l] = c.storage[x] BY <2>2, <3>1 DEF Leaving, AfterEjects
    <3> QED BY <2>2, <3>2 DEF Sees
  <2> QED BY <2>1, <2>2
<1> QED BY <1>1, <1>3, <1>4 DEF Sees, SameLines

\* Nor does a falling edge that does no store.
LEMMA FallView ==
  ASSUME NEW c, NEW q, NEW requests, NEW ack, NEW beat, NEW m, NEW m2, NEW e, NEW b, NEW lost,
         FallFrom(c, q, lost, requests, ack, beat, m, m2), FallPlaces(c, q, ack, beat, e),
         StorageFalls(c, b, m, m2), EjectDuringWord(b, c),
         c.state # "Write", ~ WritesHit(c, q), NEW view, Sees(c, m, view)
  PROVE  Sees(e, m2, view)
<1> DEFINE v == c.bankToReplace
           s == WithUnits(c.storage[v], c.lineOffset, beat)
           Held(d, l) == \E x \in Banks : HoldsLine(d, x, l)
<1>1. /\ v \in Banks
      /\ c.directory \in [Banks -> [line : Lines \cup {None}, dirty : BOOLEAN]]
      /\ c.storage \in [Banks -> Block] /\ SameRequest(c, e)
      /\ \A x, y \in Banks :
           c.directory[x].line = c.directory[y].line => x = y \/ c.directory[x].line = None
      /\ c.state \in {"FillForWrite", "FillingForWrite"} => ~ c.request.zero
  BY DEF FallFrom, CacheInv, Directory, FallPlaces, FallKeeps
<1>2. /\ view \in [Lines -> Block]
      /\ \A x \in Banks, l \in Lines : HoldsLine(c, x, l) => view[l] = c.storage[x]
      /\ \A l \in Lines : ~ Held(c, l) => view[l] = m[l]
  BY DEF Sees
<1>3. \A l \in Lines : ~ Held(c, l) => m2[l] = m[l]
  <2>1. CASE b.state # "Writing" BY <2>1 DEF StorageFalls
  <2>2. CASE b.state = "Writing"
    <3>1. HoldsLine(c, v, b.line) BY <2>2 DEF StorageFalls, LineOut, HoldsLine
    <3>2. \A l \in Lines : l # b.line => m2[l] = m[l] BY <2>2 DEF StorageFalls
    <3> QED BY <1>1, <3>1, <3>2
  <2> QED BY <2>1, <2>2
<1>4. FallCases(c, q, ack, beat, e) BY FallHasCases
<1>5. c.state \in Filling => Gone(c) BY DEF Gone
<1>6. c.state # "Idle" => /\ c.request.line \in Lines
                          /\ \A x \in Banks : c.directory[x].line # c.request.line
  BY FallServes
<1> HIDE DEF v, s, Held
<1>7. CASE /\ HasSent(c, ack) /\ c.state = "FillingForRead" /\ c.length + WordUnits = LineUnits
           /\ e.state = "Idle" /\ BankBecomes(c, e, v, c.request.line, FALSE, s)
  <2> DEFINE l == c.request.line
             dirty == FALSE
  <2>1. BankBecomes(c, e, v, l, dirty, s) /\ l \in Lines BY <1>6, <1>7
  <2>2. s = m[l] BY <1>7, FallFills DEF s, v
  <2>3. view[l] = m[l]
    <3>1. ~ Held(c, l) BY <1>6, <1>7 DEF Held, HoldsLine
    <3> QED BY <1>2, <2>1, <3>1
  <2>4. c.state \in Filling /\ ~ Gone(e) BY <1>7 DEF Filling, Gone
  <2> HIDE DEF l, dirty
  <2>5. /\ e.directory[v].line = l /\ e.storage[v] = s
        /\ \A y \in Banks : y # v => e.directory[y] = c.directory[y] /\ e.storage[y] = c.storage[y]
    BY <1>1, <2>1, BankChanged
  <2>6. ASSUME NEW x \in Banks, NEW k \in Lines, HoldsLine(e, x, k)
        PROVE  view[k] = e.storage[x]
    <3>1. CASE x = v BY <2>2, <2>3, <2>5, <2>6, <3>1 DEF HoldsLine
    <3>2. CASE x # v
      <4>1. HoldsLine(c, x, k) /\ e.storage[x] = c.storage[x]
        BY <2>5, <2>6, <3>2 DEF HoldsLine, v
      <4> QED BY <1>2, <4>1
    <3> QED BY <3>1, <3>2
  <2>7. ASSUME NEW k \in Lines, ~ Held(e, k) PROVE view[k] = m2[k]
    <3>1. ~ Held(c, k)
      <4> SUFFICES ASSUME NEW x \in Banks, HoldsLine(c, x, k) PROVE FALSE BY DEF Held
      <4>1. x # v /\ c.directory[x].line = k BY <1>5, <2>4 DEF HoldsLine, v
      <4>2. HoldsLine(e, x, k) BY <2>4, <2>5, <4>1 DEF HoldsLine
      <4> QED BY <2>7, <4>2 DEF Held
    <3> QED BY <1>2, <1>3, <3>1
  <2> QED BY <1>2, <2>6, <2>7 DEF Sees, Held
<1>8. CASE /\ HasSent(c, ack)
           /\ e.state = c.state \/ (e.state = "Write" /\ c.state = "FillingForWrite")
           /\ BankBecomes(c, e, v, c.directory[v].line, c.directory[v].dirty, s)
  <2>1. c.state \in Filling /\ Gone(e) /\ e.bankToReplace = v
    BY <1>1, <1>8 DEF Filling, Gone, HasSent, SameRequest, v
  <2>2. /\ e.directory[v].line = c.directory[v].line
        /\ \A y \in Banks : y # v => e.directory[y] = c.directory[y] /\ e.storage[y] = c.storage[y]
    BY <1>1, <1>8, BankChanged
  <2>3. \A x \in Banks, k \in Lines :
          HoldsLine(e, x, k) => HoldsLine(c, x, k) /\ e.storage[x] = c.storage[x]
    BY <1>5, <2>1, <2>2 DEF HoldsLine, v
  <2>4. \A k \in Lines : Held(e, k) <=> Held(c, k)
    BY <1>5, <2>1, <2>2 DEF HoldsLine, Held, v
  <2> QED BY <1>2, <1>3, <2>3, <2>4 DEF Sees, Held
<1>9. CASE /\ ~ HasSent(c, ack) /\ e.state = c.state /\ SameLines(c, e)
  <2>1. Gone(e) = Gone(c) /\ e.bankToReplace = c.bankToReplace BY <1>1, <1>9 DEF Gone, SameRequest
  <2>2. \A x \in Banks, k \in Lines : HoldsLine(e, x, k) <=> HoldsLine(c, x, k)
    BY <1>9, <2>1 DEF HoldsLine, SameLines
  <2>3. \A k \in Lines : Held(e, k) <=> Held(c, k) BY <2>2 DEF Held
  <2> QED BY <1>2, <1>3, <1>9, <2>2, <2>3 DEF Sees, Held, SameLines
<1> QED
  <2> HIDE DEF BankBecomes
  <2> QED BY <1>4, <1>7, <1>8, <1>9 DEF FallCases, v, s

\* The memory the program sees, as the state gives it.
LEMMA ViewOf ==
  /\ View = ViewIn(dcache, storage) /\ View' = ViewIn(dcache', storage')
  /\ phase = "rise" => phase # "fall"
BY DEF View, ViewIn, VictimGone, Gone, Filling

\* What a step of the clock is for the program: a request is made, answered, done or ended.
Reply(p, c, q) == IF p = "fall" /\ c.ack /\ ~ q.write THEN c.data ELSE <<>>
MemoryStep(v, q, r, v2, q2, r2) ==
  \/ /\ q = NoRequest /\ q2 \in DataRequests /\ v2 = v
     /\ r2 = <<>> \/ (~ q2.write /\ r2 = ValueOf(v, q2))
  \/ /\ q # NoRequest /\ ~ q.write /\ r = <<>> /\ r2 = ValueOf(v, q) /\ v2 = v /\ q2 = q
  \/ /\ q # NoRequest /\ q.write /\ v2 = EffectOf(v, q) /\ q2 = q /\ r2 = r
  \/ /\ q # NoRequest /\ (~ q.write => r # <<>>) /\ v2 = EffectOf(v, q)
     /\ q2 = NoRequest /\ r2 = <<>>
  \/ v2 = v /\ q2 = q /\ r2 = r

LEMMA RiseIsMemory ==
  ASSUME IInv, CoherenceInv, CoherenceInv', LoadExact', Rise
  PROVE  MemoryStep(View, cpu, Reply(phase, dcache, cpu),
                    View', cpu', Reply(phase', dcache', cpu'))
<1> DEFINE v == View
           v2 == View'
<1>1. /\ phase = "rise" /\ phase' = "fall" /\ storage' = storage /\ contents' = contents
  BY DEF Rise
<1>2. /\ MemoryTypes /\ Directory(dcache, DataRequests) /\ Leaving(dcache, bus, storage)
      /\ Current(dcache, cpu, storage, contents)
      /\ CacheInv(dcache, cpu, FALSE, DataRequests, storage)
  BY DEF CoherenceInv, CacheInv, DataInv
<1>3. MemoryTypes' /\ Directory(dcache', DataRequests) /\ Answers(dcache', cpu', FALSE, storage')
  BY <1>1 DEF CoherenceInv, CacheInv, AtFall
<1>4. /\ v = ViewIn(dcache, storage) /\ v2 = ViewIn(dcache', storage)
  BY <1>1, ViewOf
<1>5. Sees(dcache, storage, v) /\ Sees(dcache', storage, v2)
  BY <1>1, <1>2, <1>3, <1>4, ViewSees DEF MemoryTypes
<1>6. v2 = v
  <2>1. DataRises BY RiseCoherence
  <2>2. Asking(dcache) /\ (bus.state = "Writing" => dcache.state = "Ejecting")
    BY <1>1 DEF IInv, Serving, BetweenWords
  <2> HIDE DEF v, v2
  <2>3. Sees(dcache', storage, v) BY <1>2, <1>5, <2>1, <2>2, RiseView DEF DataRises
  <2> QED BY <1>5, <2>3, OneView
<1>7. contents \in [Lines -> Block] /\ cpu \in DataRequests \cup {NoRequest}
      /\ cpu' \in DataRequests \cup {NoRequest}
  BY <1>2, <1>3 DEF MemoryTypes
<1>8. ~ (cpu.req /\ cpu.write) => v = contents
  <2> HIDE DEF v
  <2> QED BY <1>2, <1>5, <1>7, CurrentView
<1>9. dcache'.ack => cpu'.req /\ cpu' \in DataRequests
  BY <1>3, <1>7 DEF Answers, NoRequest
<1>10. dcache'.ack /\ ~ cpu'.write => dcache'.data = ValueOf(contents, cpu')
  BY <1>1 DEF LoadExact
<1>11. Reply(phase, dcache, cpu) = <<>> BY <1>1 DEF Reply
<1>12. Reply(phase', dcache', cpu') = IF dcache'.ack /\ ~ cpu'.write THEN dcache'.data ELSE <<>>
  BY <1>1 DEF Reply
<1>13. cpu' \in IF cpu.req THEN {cpu} ELSE {cpu} \cup DataRequests
  BY DEF Rise, CpuRequest
<1> HIDE DEF v, v2
<1>14. CASE cpu' # cpu
  <2>1. cpu = NoRequest /\ cpu' \in DataRequests /\ v = contents
    BY <1>7, <1>8, <1>13, <1>14, RequestShape
  <2> QED BY <1>6, <1>10, <1>12, <2>1 DEF MemoryStep, v, v2
<1>15. CASE cpu' = cpu /\ dcache'.ack /\ ~ cpu'.write
  <2>1. cpu # NoRequest BY <1>9, <1>15 DEF NoRequest
  <2> QED BY <1>6, <1>8, <1>10, <1>11, <1>12, <1>15, <2>1 DEF MemoryStep, v, v2
<1>16. CASE cpu' = cpu /\ ~ (dcache'.ack /\ ~ cpu'.write)
  BY <1>6, <1>11, <1>12, <1>16 DEF MemoryStep, v, v2
<1> QED BY <1>14, <1>15, <1>16

LEMMA FallIsMemory ==
  ASSUME IInv, CoherenceInv, CoherenceInv', LoadExact, Fall
  PROVE  MemoryStep(View, cpu, Reply(phase, dcache, cpu),
                    View', cpu', Reply(phase', dcache', cpu'))
<1> DEFINE v == View
           v2 == View'
           c == dcache
           q == cpu
<1>1. phase = "fall" /\ phase' = "rise" BY DEF Fall
<1>2. /\ MemoryTypes /\ Directory(c, DataRequests) /\ Answers(c, q, FALSE, storage)
      /\ Current(c, q, storage, contents) /\ Holds(c, q, FALSE)
  BY <1>1 DEF CoherenceInv, CacheInv, DataInv, AtFall
<1>3. /\ MemoryTypes' /\ Directory(dcache', DataRequests)
      /\ Current(dcache', cpu', storage', contents')
  BY DEF CoherenceInv, CacheInv, DataInv
<1>4. v = ViewIn(c, storage) /\ v2 = ViewIn(dcache', storage') BY ViewOf
<1>5. Sees(c, storage, v) /\ Sees(dcache', storage', v2)
  BY <1>2, <1>3, <1>4, ViewSees DEF MemoryTypes
<1>6. /\ contents \in [Lines -> Block] /\ q \in DataRequests \cup {NoRequest}
      /\ contents' \in [Lines -> Block] /\ cpu' \in DataRequests \cup {NoRequest}
  BY <1>2, <1>3 DEF MemoryTypes
<1> HIDE DEF v, v2
<1>7. /\ v = contents \/ (q.req /\ q.write /\ v = EffectOf(contents, q))
      /\ (\A x \in Banks : ~ HoldsLine(c, x, q.line)) => v = contents
  BY <1>2, <1>5, <1>6, CurrentView
<1>8. v2 = contents' \/ (cpu'.req /\ cpu'.write /\ v2 = EffectOf(contents', cpu'))
  BY <1>3, <1>5, <1>6, CurrentView
<1>9. DataFalls BY FallCoherence
<1>10. /\ cpu' = (IF c.ack THEN NoRequest ELSE q)
       /\ contents' = IF ~ (c.ack /\ q.write) THEN contents ELSE EffectOf(contents, q)
  BY <1>9 DEF DataFalls, StoredNext
<1>11. Reply(phase', dcache', cpu') = <<>> BY <1>1 DEF Reply
<1>12. Reply(phase, dcache, cpu) = IF c.ack /\ ~ q.write THEN c.data ELSE <<>>
  BY <1>1 DEF Reply
<1>13. CASE c.ack
  <2>1. q.req /\ q \in DataRequests /\ q # NoRequest /\ cpu' = NoRequest
    <3>1. q.req BY <1>2, <1>13 DEF Answers
    <3>2. q # NoRequest BY <3>1 DEF NoRequest
    <3> QED BY <1>6, <1>10, <1>13, <3>1, <3>2
  <2>2. v2 = contents' BY <1>8, <2>1 DEF NoRequest
  <2>3. v2 = EffectOf(v, q)
    <3>1. CASE q.write
      <4>1. contents' = EffectOf(contents, q) BY <1>10, <1>13, <3>1
      <4>2. EffectOf(EffectOf(contents, q), q) = EffectOf(contents, q)
        BY <1>6, <2>1, <3>1, EffectTwice
      <4> QED BY <1>7, <2>2, <4>1, <4>2
    <3>2. CASE ~ q.write
      <4>1. v = contents /\ contents' = contents BY <1>7, <1>10, <3>2
      <4> QED BY <2>2, <3>2, <4>1 DEF EffectOf
    <3> QED BY <3>1, <3>2
  <2>4. ~ q.write => c.data # <<>>
    <3> SUFFICES ASSUME ~ q.write PROVE c.data # <<>> OBVIOUS
    <3>1. c.data = ValueOf(contents, q) BY <1>1, <1>13 DEF LoadExact
    <3>2. q.size \in Nat \ {0} BY <2>1, RequestAssumption DEF Requests
    <3>3. 1 \in DOMAIN c.data BY <3>1, <3>2 DEF ValueOf, Units
    <3>4. DOMAIN <<>> = {} OBVIOUS
    <3> QED BY <3>3, <3>4
  <2> QED BY <1>11, <1>12, <1>13, <2>1, <2>3, <2>4 DEF MemoryStep, v, v2
<1>14. CASE ~ c.ack
  <2>1. cpu' = q /\ contents' = contents BY <1>10, <1>14
  <2>2. CASE c.state = "Write"
    <3>1. q.req /\ c.request = q /\ q.write
      BY <1>2, <2>2 DEF Holds, Unanswered, Directory
    <3>2. \A x \in Banks : ~ HoldsLine(c, x, q.line)
      BY <1>2, <2>2, <3>1 DEF Directory, HoldsLine
    <3>3. v = contents /\ q # NoRequest BY <1>7, <3>1, <3>2 DEF NoRequest
    <3> QED BY <1>8, <1>11, <1>12, <1>14, <2>1, <3>1, <3>3 DEF MemoryStep, v, v2
  <2>3. CASE c.state # "Write"
    <3>1. PICK lost : ~ lost /\ FallFrom(c, q, lost, DataRequests, bus.dAck, bus.dData,
                                        storage, storage')
      BY <1>9 DEF DataFalls
    <3>2. ~ WritesHit(c, q) BY <1>14, <3>1, FallServes
    <3>3. Sees(dcache', storage', v)
      BY <1>5, <1>9, <2>3, <3>1, <3>2, FallView DEF DataFalls
    <3>4. v2 = v BY <1>5, <3>3, OneView
    <3> QED BY <1>11, <1>12, <1>14, <2>1, <3>4 DEF MemoryStep, v, v2
  <2> QED BY <2>2, <2>3
<1> QED BY <1>13, <1>14

\* The data cache, the bus and the pages are one memory: each edge of the clock is a step of
\* AtomicMemory, or none.  A request of the load/store unit reads or writes everything at once
\* (Cache.cpp: Async(), OnFrontEdge(), OnFallingEdge(); BusInterfaceUnit.cpp).
THEOREM Refinement ==
  ASSUME AlignedLoads
  PROVE  Spec => RefinesMemory
<1> DEFINE mapped == <<View, cpu, Reply(phase, dcache, cpu)>>
<1>1. Init => Memory!Init
  <2> SUFFICES ASSUME Init PROVE Memory!Init OBVIOUS
  <2>1. /\ dcache = EmptyCache /\ storage = Image /\ cpu = NoRequest /\ phase = "rise"
    BY DEF Init
  <2>2. CoherenceInv BY InitCoherence
  <2>3. \A x \in Banks, l \in Lines : ~ HoldsLine(dcache, x, l)
    BY <2>1, LinesAreNotNone DEF EmptyCache, HoldsLine
  <2>4. Sees(dcache, storage, View)
    BY <2>2, ViewSees, ViewOf DEF CoherenceInv, CacheInv, MemoryTypes
  <2>5. View = Image
    <3> DEFINE v == View
    <3> HIDE DEF v
    <3>1. v \in [Lines -> Block] /\ \A l \in Lines : v[l] = Image[l]
      BY <2>1, <2>3, <2>4 DEF Sees, v
    <3>2. Image \in [Lines -> Block] BY ImageAssumption DEF Block
    <3>3. v = Image BY <3>1, <3>2
    <3> QED BY <3>3 DEF v
  <2> QED BY <2>1, <2>5 DEF Memory!Init
<1>2. MemoryStep(View, cpu, Reply(phase, dcache, cpu), View', cpu', Reply(phase', dcache', cpu'))
        => [Memory!Next]_mapped
  BY DEF MemoryStep, Reply, Memory!Next, Memory!Ask, Memory!Answer, Memory!Perform, Memory!Finish
<1>3. LoadExact /\ LoadExact' /\ IInv /\ CoherenceInv /\ CoherenceInv' /\ [Next]_vars
        => [Memory!Next]_mapped
  <2>1. ASSUME UNCHANGED vars PROVE UNCHANGED mapped
    BY <2>1 DEF vars, Reply, View, VictimGone
  <2> QED BY <1>2, <2>1, RiseIsMemory, FallIsMemory DEF Next
<1>4. Spec => []IInv BY Invariance
<1>5. Spec => []CoherenceInv BY Coherence
<1>6. Spec => []LoadExact BY LoadsAreExact
<1>7. RefinesMemory <=> Memory!Init /\ [][Memory!Next]_mapped
  BY DEF RefinesMemory, Memory!Spec, Memory!vars, Reply
<1> QED BY <1>1, <1>3, <1>4, <1>5, <1>6, <1>7, PTL DEF Spec
=============================================================================
