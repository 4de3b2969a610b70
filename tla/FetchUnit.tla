----------------------------- MODULE FetchUnit -----------------------------
(***************************************************************************)
(* The fetch unit of FetchUnit.cpp: it asks the instruction cache for the  *)
(* instructions from the program counter to the end of the line, predecodes*)
(* what has come, stops at each branch whose target is known to predict    *)
(* it, and moves a branch that is predicted taken to the branch queue.     *)
(*                                                                         *)
(* Addresses count instructions and wrap around.  An instruction is        *)
(* "Plain", "Goto" (b), "Cond" (bc) or "Return" (bclr, bcctr).             *)
(***************************************************************************)
EXTENDS Integers, SequencesExt

CONSTANTS
  Program,                  \* address -> kind and target
  NInstructionQueue,        \* nInstructionQueueEntries
  NBranchQueue,             \* nBranchQueueEntries
  MaxBeforeFetchStall,      \* nMaxBranchsBeforeFetchStall
  LineInstructions,         \* linesize / 4
  FetchInstructions,        \* fetch2icache / 4
  NPerBTICEntry             \* nInstructionsPerBTICEntry

ASSUME FetchAssumption ==
  /\ {NInstructionQueue, NBranchQueue, LineInstructions, FetchInstructions} \subseteq Nat \ {0}
  /\ MaxBeforeFetchStall \in Nat /\ NPerBTICEntry \in Nat

Address == DOMAIN Program
Kind(pc) == Program[pc].kind
Target(pc) == Program[pc].target
After(pc, n) == (pc + n) % Cardinality(Address)
IsBranch(pc) == Kind(pc) # "Plain"
IsPredictable(pc) == Kind(pc) \in {"Cond", "Goto"}

\* An entry of the instruction queue knows the address its word was read from, and its slot
\* in the ring, because the flag branchPredicted of a slot outlives the entry.
Reset(pc) ==
  [programCounter |-> pc, instructionsToFetch |-> 0, waitingForAck |-> FALSE,
   mispredictedBranch |-> FALSE, updateBTIC |-> FALSE, updateBTICPC |-> pc,
   branchCounter |-> 0, state |-> "Idle", toPredecode |-> 0, readPC |-> pc,
   instructionQueue |-> <<>>, branchQueue |-> <<>>, nextSlot |-> 0,
   branchPredicted |-> [s \in 0 .. NInstructionQueue - 1 |-> FALSE]]

\* (Mutant: one place too many.)
OneMore(f) == NInstructionQueue + 1 - Len(f.instructionQueue)
FreeSpace(f) == NInstructionQueue - Len(f.instructionQueue)

\* Queue::Allocate() of the words for the addresses from programCounter on.
Slot(f, i) == (f.nextSlot + i) % NInstructionQueue
Allocate(f, words) ==
  LET n == Len(words) IN
  [f EXCEPT !.programCounter = After(@, n), !.toPredecode = @ + n, !.nextSlot = Slot(f, n),
            !.instructionQueue = @ \o [i \in 1 .. n |->
              [pc |-> After(f.programCounter, i - 1), word |-> words[i], slot |-> Slot(f, i - 1),
               branchPredictedTaken |-> FALSE, branchFollow |-> FALSE, priority |-> FALSE,
               branchCounter |-> f.branchCounter]]]

\* The predecoding loop: it ends after the first branch that can be predicted.  (Mutant:
\* branches to a register are not counted.)
CountedPredictable(pc) == IsPredictable(pc)
Counted(pc) == IsBranch(pc)
Predecode(f) ==
  LET q == f.instructionQueue
      first == Len(q) - f.toPredecode + 1
      stops == {i \in first .. Len(q) : IsPredictable(q[i].word)}
      last == IF stops = {} THEN Len(q) ELSE Min(stops)
      Branches(i) == Cardinality({j \in first .. i : Counted(q[j].word)})
  IN  [f EXCEPT
         !.toPredecode = Len(q) - last,
         !.branchCounter = @ + Branches(last),
         !.state = IF stops = {} THEN @ ELSE "Predict",
         !.readPC = IF stops = {} THEN @ ELSE q[last].pc,
         !.branchPredicted = [s \in DOMAIN @ |->
            @[s] \/ \E i \in first .. last : q[i].slot = s /\ Kind(q[i].word) = "Return"],
         !.instructionQueue = [i \in DOMAIN q |->
            IF i \in first .. last /\ ~ IsBranch(q[i].word)
            THEN [q[i] EXCEPT !.branchCounter = f.branchCounter + Branches(i)] ELSE q[i]]]

\* Fetch(), on the rising edge.
Fetch(fetch) ==
  LET f == Predecode(fetch)
      pc == f.programCounter
      room == LineInstructions - (pc % LineInstructions)
  IN  IF \/ f.state = "Predict" \/ FreeSpace(f) = 0
         \/ f.branchCounter > MaxBeforeFetchStall
      THEN f
      ELSE [f EXCEPT !.instructionsToFetch = IF room > FetchInstructions THEN FetchInstructions
                                             ELSE room,
                     !.waitingForAck = TRUE, !.state = "Fetching"]

\* The instructions the dispatch unit has taken leave the queues.
Popped(f, instructions, branches) ==
  [f EXCEPT !.instructionQueue = SubSeq(@, instructions + 1, Len(@)),
            !.branchQueue = SubSeq(@, branches + 1, Len(@))]

Decrement(q) == [i \in DOMAIN q |-> [q[i] EXCEPT !.branchCounter = IF @ > 0 THEN @ - 1 ELSE 0]]

\* A branch has been resolved.  (Mutant: the answer that the cache still owes is kept.)
KeepAnswer(f) == FALSE
DropAnswer(f) == f.state \in {"Fetching", "Predict"}
BranchResolved(f, b) ==
  IF b = <<>> THEN f
  ELSE IF b[1].mispredicted
  THEN [f EXCEPT !.branchCounter = 0, !.instructionQueue = <<>>, !.branchQueue = <<>>,
                 !.nextSlot = 0, !.programCounter = b[1].pc, !.toPredecode = 0,
                 !.updateBTIC = FALSE,
                 !.mispredictedBranch = IF DropAnswer(f) THEN TRUE ELSE @,
                 !.state = IF f.state = "Filled" THEN "Idle" ELSE @]
  ELSE [f EXCEPT !.branchCounter = @ - 1, !.instructionQueue = Decrement(@),
                 !.branchQueue = Decrement(@)]

AtMost(m, n) == IF m < n THEN m ELSE n
FetchedWords(served, n) == [i \in 1 .. n |-> After(served, i - 1)]
Miss == <<>>
Hit(words) == <<words>>

\* Case 1 of FillQueue(): the instructions from the address served on have come.
FillFromCache(f, served) ==
  LET g == [f EXCEPT !.waitingForAck = FALSE]
  IN  IF f.mispredictedBranch THEN [g EXCEPT !.mispredictedBranch = FALSE, !.state = "Idle"]
      ELSE LET n == AtMost(f.instructionsToFetch, FreeSpace(f))
               fresh == {Slot(f, i) : i \in 0 .. n - 1}
           IN  [Allocate(g, FetchedWords(served, n)) EXCEPT
                  !.updateBTIC = FALSE, !.state = "Filled",
                  !.branchPredicted = [s \in DOMAIN @ |-> @[s] /\ s \notin fresh]]

\* The entry this adds to the branch target instruction cache, for updateBTICPC.
UpdatesBTIC(f) == f.updateBTIC /\ ~ f.mispredictedBranch
BTICUpdate(f, served) == FetchedWords(served, AtMost(NPerBTICEntry, f.instructionsToFetch))

\* ReadBTIC(): the answer is a miss or the words of an entry.
ReadBTIC(f, answer) ==
  CASE answer = Miss -> [f EXCEPT !.updateBTIC = TRUE, !.updateBTICPC = f.readPC]
    [] answer # Miss /\ f.branchCounter > MaxBeforeFetchStall -> [f EXCEPT !.updateBTIC = FALSE]
    [] OTHER -> [Allocate(f, SubSeq(answer[1], 1, AtMost(Len(answer[1]), FreeSpace(f))))
                   EXCEPT !.updateBTIC = FALSE]

\* Case 3 of FillQueue(): the branch at readPC is predicted.  Its instruction may have been
\* dispatched already.  With the branch queue full it is predecoded again in the next cycle.
\* (Mutant: the instructions behind a taken branch stay.)
KeepBehind(f) == Len(f.instructionQueue)
KeepBefore(f) == Len(f.instructionQueue) - f.toPredecode - 1
Retry(f) == [f EXCEPT !.toPredecode = @ + 1, !.branchCounter = @ - 1]
Predict(f, taken, answer) ==
  LET q == f.instructionQueue
      at == Len(q) - f.toPredecode
      e == q[at]
      left == SubSeq(q, 1, KeepBefore(f))
      g == [f EXCEPT !.state = "Idle"]
      predicted == [g EXCEPT !.branchPredicted[e.slot] = TRUE]
  IN  CASE f.mispredictedBranch -> [g EXCEPT !.mispredictedBranch = FALSE]
        [] ~ f.mispredictedBranch /\ at <= 0 -> g
        [] ~ f.mispredictedBranch /\ at > 0 /\ Len(f.branchQueue) >= NBranchQueue ->
             Retry(g)
        [] ~ f.mispredictedBranch /\ at > 0 /\ Len(f.branchQueue) < NBranchQueue ->
             IF Kind(e.word) # "Goto" /\ ~ taken THEN predicted
             ELSE ReadBTIC([predicted EXCEPT
                    !.branchQueue = Append(@, [e EXCEPT !.branchPredictedTaken = TRUE,
                                                          !.priority = (left = <<>>)]),
                    !.programCounter = Target(e.word), !.toPredecode = 0,
                    !.nextSlot = e.slot,
                    !.instructionQueue =
                      IF left = <<>> THEN left
                      ELSE [left EXCEPT ![Len(left)].branchFollow = TRUE]], answer)

\* FillQueue(), on the falling edge.
Answered(f, ack) == f.state = "Fetching" /\ f.waitingForAck /\ ack
FillQueue(f, ack, served, taken, answer) ==
  CASE Answered(f, ack) -> FillFromCache(f, served)
    [] f.state = "Predict" -> Predict(f, taken, answer)
    [] OTHER -> f
=============================================================================
