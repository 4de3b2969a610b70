---------------------------- MODULE FetchSystem ----------------------------
(***************************************************************************)
(* The fetch unit among its neighbours: the instruction cache that answers *)
(* it, the branch prediction unit, the dispatch unit that takes            *)
(* instructions in program order from its two queues, the stations of the  *)
(* branch unit and the branch unit, which says what was mispredicted.      *)
(*                                                                         *)
(* The caches of branch history and branch targets appear as what they may *)
(* answer: any prediction, and any entry ever written for the branch, or   *)
(* none.  What else may hold an instruction back appears as the delay: the *)
(* dispatch unit takes any prefix of what it has decoded.                  *)
(***************************************************************************)
EXTENDS FetchUnit

CONSTANTS
  NIQ, NIQBranchs,          \* instructions and branches decoded in a cycle
  NBranchRS,                \* nBranchRS
  MaxBeforeDispatchStall,   \* nMaxBranchsBeforeDispatchStall
  TagZero                   \* the branches whose tag is 0 in the target cache

VARIABLES
  phase,     \* the next edge of the clock
  fu,        \* the fetch unit
  ack,       \* the instruction cache answers
  served,    \* the address it has taken the request for
  follow,    \* the dispatch unit: the branch queue goes first
  counter,   \* the dispatch unit: branches dispatched and not resolved
  rs,        \* the stations of the branch unit, oldest first
  unit,      \* what the branch unit is given
  resolved,  \* what the branch unit says in this cycle
  btic,      \* branch -> entries of the branch target instruction cache
  decoded,   \* what was dispatched on the last rising edge
  expected   \* the address program order continues at, as far as it is predicted
vars == <<phase, fu, ack, served, follow, counter, rs, unit, resolved, btic, decoded,
          expected>>

Predictable == {pc \in Address : IsPredictable(pc)}

Init ==
  /\ phase = "rise" /\ ack = FALSE /\ follow = FALSE /\ counter = 0
  /\ rs = <<>> /\ unit = <<>> /\ resolved = <<>> /\ decoded = <<>>
  /\ btic = [b \in Predictable |-> IF b \in TagZero THEN {<<>>} ELSE {}]
  /\ expected \in Address /\ fu = Reset(expected) /\ served = expected

\* Decode() looks at the branch queue first when the instruction before it in program order
\* has been decoded, and at the instruction queue otherwise.
FromBranchQueue(d) ==
  /\ d.branches < AtMost(Len(fu.branchQueue), NIQBranchs)
  /\ LET b == fu.branchQueue[d.branches + 1]
     IN  (b.priority \/ d.follow) /\ b.branchCounter <= MaxBeforeDispatchStall
FromInstructionQueue(d) ==
  /\ ~ d.follow
  /\ d.instructions < AtMost(Len(fu.instructionQueue), NIQ)
  /\ LET e == fu.instructionQueue[d.instructions + 1]
     IN  IsBranch(e.word) =>
           /\ e.branchCounter <= MaxBeforeDispatchStall
           /\ IsPredictable(e.word) => fu.branchPredicted[e.slot]
PickNext(d) ==
  IF FromBranchQueue(d)
  THEN [d EXCEPT !.picked = Append(@, fu.branchQueue[d.branches + 1]),
                 !.branches = @ + 1, !.follow = FALSE]
  ELSE IF FromInstructionQueue(d)
       THEN LET e == fu.instructionQueue[d.instructions + 1]
            IN  [d EXCEPT !.picked = Append(@, e), !.instructions = @ + 1,
                          !.follow = e.branchFollow]
       ELSE d
Decoded ==
  LET start == [picked |-> <<>>, branches |-> 0, instructions |-> 0, follow |-> follow]
      Step(d, i) == IF Len(d.picked) = i - 1 THEN PickNext(d) ELSE d
  IN  FoldLeft(Step, start, [i \in 1 .. NIQ + NIQBranchs |-> i]).picked

Branches(s) == SelectSeq(s, LAMBDA e : IsBranch(e.word))

\* BranchUnit::Execute(): what may become of a branch.
Outcomes(b) ==
  LET Taken(p) == [mispredicted |-> ~ b.taken, pc |-> p]
      NotTaken == [mispredicted |-> b.taken, pc |-> After(b.pc, 1)]
  IN  CASE Kind(b.word) = "Goto" -> {[mispredicted |-> FALSE, pc |-> Target(b.word)]}
        [] Kind(b.word) = "Cond" -> {Taken(Target(b.word)), NotTaken}
        [] OTHER -> {Taken(p) : p \in Address} \cup {NotTaken}

\* The address after an instruction in program order, if its prediction is right.
Successor(e) ==
  CASE Kind(e.word) = "Goto" -> Target(e.word)
    [] Kind(e.word) = "Cond" /\ e.branchPredictedTaken -> Target(e.word)
    [] OTHER -> After(e.pc, 1)

Stations(s) ==
  LET b == Branches(s)
  IN  [i \in DOMAIN b |-> [pc |-> b[i].pc, word |-> b[i].word,
                           taken |-> b[i].branchPredictedTaken, branchCounter |-> counter + i - 1]]

Rise ==
  /\ phase = "rise" /\ phase' = "fall"
  /\ \E n \in 0 .. Len(Decoded) :
       LET d == SubSeq(Decoded, 1, n)
       IN  /\ Len(rs) + Len(Branches(d)) <= NBranchRS
           /\ decoded' = d
           /\ follow' = IF d = <<>> THEN follow ELSE Last(d).branchFollow
           /\ counter' = counter + Len(Branches(d))
           /\ rs' = rs \o Stations(d)
           /\ expected' = IF d = <<>> THEN expected ELSE Successor(Last(d))
  /\ fu' = Fetch(fu)
  /\ ack' \in IF fu'.waitingForAck THEN BOOLEAN ELSE {FALSE}
  \* A misprediction changes the address that is asked for, maybe too late for the cache.
  /\ served' \in IF fu.waitingForAck THEN {served, fu'.programCounter} ELSE {fu'.programCounter}
  /\ resolved' \in IF unit = <<>> THEN {<<>>} ELSE {<<o>> : o \in Outcomes(unit[1])}
  /\ UNCHANGED <<unit, btic>>

\* The answers of the branch target instruction cache.
Answers(b) == {Miss} \cup {Hit(w) : w \in btic[b]}

Mispredicted == resolved # <<>> /\ resolved[1].mispredicted
AfterBranch(stations) ==
  CASE resolved = <<>> -> stations
    [] Mispredicted -> SelectSeq(stations, LAMBDA b : b.branchCounter = 0)
    [] OTHER -> [i \in DOMAIN stations |->
                   [stations[i] EXCEPT !.branchCounter = IF @ > 0 THEN @ - 1 ELSE 0]]

Fall ==
  LET taken == Branches(decoded)
      fromBQ == Len(SelectSeq(taken, LAMBDA e : e.branchPredictedTaken))
      f == BranchResolved(Popped(fu, Len(decoded) - fromBQ, fromBQ), resolved)
      s == AfterBranch(rs)
  IN  /\ phase = "fall" /\ phase' = "rise"
      /\ follow' = IF Mispredicted THEN FALSE ELSE follow
      /\ counter' = IF Mispredicted THEN 0
                    ELSE IF resolved # <<>> /\ counter > 0 THEN counter - 1 ELSE counter
      /\ expected' = IF Mispredicted THEN resolved[1].pc ELSE expected
      /\ \E issue \in {0} \cup {1 : x \in DOMAIN s} :
           unit' = SubSeq(s, 1, issue) /\ rs' = SubSeq(s, issue + 1, Len(s))
      /\ \E branchTaken \in BOOLEAN,
            answer \in IF f.state = "Predict" /\ ~ f.mispredictedBranch THEN Answers(f.readPC)
                       ELSE {Miss} :
           fu' = FillQueue(f, ack, served, branchTaken, answer)
      /\ btic' = IF Answered(f, ack) /\ UpdatesBTIC(f)
                 THEN [btic EXCEPT ![f.updateBTICPC] = @ \cup {BTICUpdate(f, served)}] ELSE btic
      /\ UNCHANGED <<ack, served, resolved, decoded>>

Next == Rise \/ Fall
Spec == Init /\ [][Next]_vars

-----------------------------------------------------------------------------
Entry == [pc : Address, word : Address, slot : 0 .. NInstructionQueue - 1,
          branchPredictedTaken : BOOLEAN, branchFollow : BOOLEAN, priority : BOOLEAN,
          branchCounter : 0 .. MaxBeforeFetchStall + NInstructionQueue]

\* The queues stay within their size, and count no more than they hold.
TypeInvariant ==
  /\ phase \in {"rise", "fall"} /\ ack \in BOOLEAN /\ follow \in BOOLEAN
  /\ fu.state \in {"Idle", "Fetching", "Filled", "Predict"}
  /\ fu.programCounter \in Address /\ expected \in Address
  /\ Len(fu.instructionQueue) <= NInstructionQueue /\ Len(fu.branchQueue) <= NBranchQueue
  /\ \A q \in {fu.instructionQueue, fu.branchQueue} : \A i \in DOMAIN q : q[i] \in Entry
  /\ fu.toPredecode \in 0 .. Len(fu.instructionQueue) /\ Len(rs) <= NBranchRS

\* What is dispatched is the program, as far as it is predicted: each instruction is the
\* word at its address, and its address is the one the instruction before it continues at.
\* After a misprediction the next instruction is the one the branch unit asked for.
DecodesThePath ==
  [][phase = "rise" =>
       \A i \in DOMAIN decoded' :
         /\ decoded'[i].word = decoded'[i].pc
         /\ decoded'[i].pc = IF i = 1 THEN expected ELSE Successor(decoded'[i - 1])]_vars

\* The counters that stall the fetch and that tell what a branch may flush count the
\* branches that have been predecoded, or dispatched, and not resolved.
BranchCounterExact ==
  phase = "rise" =>
    LET q == fu.instructionQueue
        dispatched == Len(rs) + Len(unit)
    IN  /\ fu.branchCounter =
             Len(Branches(SubSeq(q, 1, Len(q) - fu.toPredecode))) + Len(fu.branchQueue) + dispatched
        /\ counter = dispatched
        /\ \A i \in DOMAIN rs : rs[i].branchCounter = Len(unit) + i - 1

\* An instruction that has been predecoded counts at least the branches before it in the
\* queue (InstructionQueue.h: "number of branch instruction that the instruction depends on").
EntryCountsBranches ==
  LET q == fu.instructionQueue
  IN  \A i \in 1 .. Len(q) - fu.toPredecode :
        q[i].branchCounter >= Len(Branches(SubSeq(q, 1, i - 1)))

\* No fetch starts once the count of branches has reached the limit
\* (parms.h: "Fetch stop when branch count reach this limit").
FetchStopsAtLimit ==
  [][phase = "rise" /\ fu.state # "Fetching" /\ fu'.state = "Fetching"
       => fu'.branchCounter < MaxBeforeFetchStall]_vars

\* The instruction cache answers in the end, what is decoded finds room, and a branch in its
\* station gets its operands: MemorySystem, Pipeline and LoadStoreSystem are about these.
Dispatch == Rise /\ decoded' # <<>>
Answer == Rise /\ ack'
Issue == Fall /\ unit' # <<>>
FairSpec ==
  Spec /\ WF_vars(Next) /\ SF_vars(Dispatch) /\ SF_vars(Answer) /\ SF_vars(Issue)

\* The stalls end: whatever the branches do, instructions are dispatched again and again.
FetchProgress == []<>(decoded # <<>>)
=============================================================================
