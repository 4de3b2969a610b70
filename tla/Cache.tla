------------------------------- MODULE Cache -------------------------------
(***************************************************************************)
(* One set of the L1 caches of Cache.cpp, which is compiled once as the    *)
(* data cache and once, for reads only, as the instruction cache: the      *)
(* directory, the storage, and the machine that serves one request of the  *)
(* CPU at a time, with the signals it drives.                              *)
(*                                                                         *)
(* An address is a line and the offset of a unit in it; a unit stands for  *)
(* the four bytes of an instruction or a word.  busy is left out: it is    *)
(* true exactly when the machine is not idle.  Sets are independent but    *)
(* for the machine.  The pseudo-LRU bits are left out: when all banks are  *)
(* valid, any of them may be the victim.                                   *)
(***************************************************************************)
EXTENDS Integers, SequencesExt

CONSTANTS
  Lines,      \* the line addresses of the set
  NBanks,     \* associativity
  LineUnits,  \* linesize
  WordUnits,  \* memoryWord, dcache2biu, icache2biu
  Values,     \* what a unit may hold
  Zero,       \* a unit of zeros
  None        \* no line, no bank, and what lies past the end of a buffer

ASSUME CacheAssumption ==
  /\ NBanks \in Nat \ {0} /\ WordUnits \in Nat \ {0} /\ Lines # {}
  /\ LineUnits \in Nat /\ LineUnits > WordUnits /\ LineUnits % WordUnits = 0
  /\ Zero \in Values /\ None \notin Values \cup Lines \cup 1 .. NBanks

Banks == 1 .. NBanks
Unit == 0 .. LineUnits - 1

\* The signals of a request: of the CPU to a cache, and of a cache to the bus.
NoRequest == [req |-> FALSE, write |-> FALSE, zero |-> FALSE,
              line |-> None, offset |-> 0, size |-> 0, data |-> <<>>]
NoTransfer == [req |-> FALSE, write |-> FALSE, line |-> None, offset |-> 0, data |-> <<>>]

\* memcpy from and to a line or a buffer; reading past the end of a buffer returns
\* whatever is there.
Units(s, o, n) == [i \in 1 .. n |-> s[o + i - 1]]
WithUnits(s, o, d) ==
  [u \in DOMAIN s |-> IF u \in o .. o + Len(d) - 1 THEN d[u - o + 1] ELSE s[u]]
Within(beat, o, n) == [i \in 1 .. n |-> IF o + i <= Len(beat) THEN beat[o + i] ELSE None]

EmptyCache ==
  [state |-> "Idle", waitingForAck |-> FALSE, hit |-> None, request |-> NoRequest,
   bankToReplace |-> 1, lineOffset |-> 0, length |-> 0, dataLength |-> 0, dataSent |-> FALSE,
   directory |-> [b \in Banks |-> [line |-> None, dirty |-> FALSE]],
   storage |-> [b \in Banks |-> [u \in Unit |-> Zero]],
   ack |-> FALSE, data |-> <<>>, mem |-> NoTransfer]

\* Search(): the first bank that holds the line.
Search(c, l) ==
  IF \E b \in Banks : c.directory[b].line = l
  THEN CHOOSE b \in Banks : /\ c.directory[b].line = l
                            /\ \A d \in 1 .. b - 1 : c.directory[d].line # l
  ELSE None

\* Choose(): the first bank that is not valid, or one the policy picks.
Victims(c) ==
  IF Search(c, None) # None THEN {Search(c, None)} ELSE Banks

ReplaceLine(c) == [c EXCEPT !.directory[c.bankToReplace] =
                              [line |-> c.request.line, dirty |-> FALSE]]
Write(c, b, o, d) ==
  [c EXCEPT !.storage[b] = WithUnits(@, o, d), !.directory[b].dirty = TRUE]
ZeroLine(c, b) ==
  [c EXCEPT !.storage[b] = [u \in Unit |-> Zero], !.directory[b].dirty = TRUE]

\* What serves a missed request once the victim needs no copy in memory.  (Mutant:
\* a line to be zeroed is filled first, a line to be written is not.)
AfterEjectSwapped(q) ==
  IF ~ q.write THEN "FillForRead" ELSE IF q.zero THEN "FillForWrite" ELSE "Write"
AfterEject(q) ==
  IF ~ q.write THEN "FillForRead" ELSE IF q.zero THEN "Write" ELSE "FillForWrite"

IsDirty(c, b) == c.directory[b].line # None /\ c.directory[b].dirty

\* GetRequest() serves the signals q of the CPU, with victim v for a miss.
GetRequest(c, q, v) ==
  LET b == Search(c, q.line)
  IN  IF ~ q.req THEN [c EXCEPT !.ack = FALSE]
      ELSE IF b # None
      THEN [c EXCEPT !.hit = b, !.ack = TRUE,
                     !.data = IF q.write THEN @ ELSE Units(c.storage[b], q.offset, q.size)]
      ELSE [c EXCEPT !.hit = None, !.ack = FALSE, !.request = q, !.bankToReplace = v,
                     !.state = IF IsDirty(c, v) THEN "Eject" ELSE AfterEject(q)]

\* Async(): a change of the CPU's signals is served at once by an idle cache.
Async(c, q, v) == IF c.state = "Idle" THEN GetRequest(c, q, v) ELSE c

\* A transfer of n units ends.
LineComplete(n) == n = LineUnits

\* The next word of the victim on its way to memory.
EjectWord(c) ==
  LET n == c.length + WordUnits
  IN  [c EXCEPT !.mem.data = Units(c.storage[c.bankToReplace], c.lineOffset, WordUnits),
                !.lineOffset = (@ + WordUnits) % LineUnits, !.length = n,
                !.state = IF LineComplete(n) THEN AfterEject(c.request) ELSE "Ejecting"]

AlignToMemoryWord(o) == o - (o % WordUnits)

\* The request for a line, from unit o on.
FillFrom(c, l, o) ==
  [c EXCEPT !.lineOffset = o, !.length = 0, !.waitingForAck = TRUE,
            !.mem.req = TRUE, !.mem.write = FALSE, !.mem.line = l, !.mem.offset = o]

\* OnFrontEdge()
OnFrontEdge(cache, q, v) ==
  LET c == [cache EXCEPT !.hit = None]
  IN  CASE c.state = "Idle" -> GetRequest(c, q, v)
        [] c.state = "Eject" ->
             EjectWord([c EXCEPT !.lineOffset = 0, !.length = 0, !.waitingForAck = TRUE,
                                 !.mem.req = TRUE, !.mem.write = TRUE, !.mem.offset = 0,
                                 !.mem.line = c.directory[c.bankToReplace].line])
        [] c.state = "Ejecting" /\ ~ c.waitingForAck -> EjectWord([c EXCEPT !.mem.req = FALSE])
        [] c.state = "FillForWrite" /\ ~ c.waitingForAck ->
             [FillFrom(c, q.line, 0) EXCEPT !.state = "FillingForWrite"]
        [] c.state = "FillingForWrite" /\ ~ c.waitingForAck -> [c EXCEPT !.mem.req = FALSE]
        [] c.state = "Write" -> [c EXCEPT !.ack = TRUE]
        [] c.state = "FillForRead" ->
             [FillFrom(c, c.request.line, AlignToMemoryWord(c.request.offset))
                EXCEPT !.state = "FillingForRead", !.dataSent = FALSE,
                       !.dataLength = 0 - (c.request.offset % WordUnits)]
        [] c.state = "FillingForRead" -> [c EXCEPT !.ack = FALSE]
        [] OTHER -> c

\* Forward(): what was asked for is given to the CPU as soon as it has come from memory,
\* the word asked for first.  (Mutant: one word too early.)
EnoughEarly(c) == c.dataLength + WordUnits >= c.request.size - WordUnits
Enough(c) == c.dataLength + WordUnits >= c.request.size
Forward(c, beat) ==
  LET q == c.request
      Sent(d) == [c EXCEPT !.data = d, !.ack = TRUE, !.dataSent = TRUE]
  IN  IF c.state # "FillingForRead" \/ c.dataSent THEN c
      ELSE IF q.size <= WordUnits THEN Sent(Within(beat, q.offset % WordUnits, q.size))
      ELSE [(IF ~ Enough(c) THEN c
             ELSE Sent(Units(c.storage[c.bankToReplace], q.offset, c.dataLength)
                       \o Within(beat, 0, q.size - c.dataLength)))
              EXCEPT !.dataLength = @ + WordUnits]

\* The end of a request that waits for the line.
Idle(c) == [c EXCEPT !.state = "Idle"]

\* A word from memory is stored; the last one completes the line.
FillWord(c, beat) ==
  LET n == c.length + WordUnits
      d == [c EXCEPT !.storage[c.bankToReplace] = WithUnits(@, c.lineOffset, beat),
                     !.lineOffset = (@ + WordUnits) % LineUnits, !.length = n]
  IN  IF ~ LineComplete(n) THEN d
      ELSE IF c.state = "FillingForWrite" THEN [d EXCEPT !.state = "Write"]
      ELSE Idle(ReplaceLine(d))

\* The bus has taken the request.  (Mutant: only a request to write.)
AcknowledgedForWrite(c, memAck) == c.waitingForAck /\ memAck /\ c.mem.write
Acknowledged(c, memAck) == c.waitingForAck /\ memAck

\* OnFallingEdge()
OnFallingEdge(cache, q, memAck, beat) ==
  LET c == IF Acknowledged(cache, memAck)
           THEN [cache EXCEPT !.waitingForAck = FALSE, !.mem.req = FALSE] ELSE cache
      b == c.bankToReplace
      d == CASE c.state \in {"FillingForWrite", "FillingForRead"} /\ ~ c.waitingForAck ->
                  FillWord(c, beat)
             [] c.state = "Write" ->
                  Idle(IF c.request.zero THEN ZeroLine(ReplaceLine(c), b)
                       ELSE Write(ReplaceLine(c), b, c.request.offset, q.data))
             [] OTHER -> c
      e == IF ~ (q.req /\ q.write /\ c.hit # None) THEN d
           ELSE IF q.zero THEN ZeroLine(d, d.hit) ELSE Write(d, d.hit, q.offset, q.data)
  IN  [e EXCEPT !.ack = FALSE]
=============================================================================
