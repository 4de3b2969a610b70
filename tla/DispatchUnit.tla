---------------------------- MODULE DispatchUnit ----------------------------
(***************************************************************************)
(* powerpc/src/DispatchUnit.cpp: Decode, on the rising edge once Retire    *)
(* has run, gives every instruction its reorder buffer entry, reservation  *)
(* station and rename buffers; Dispatch, on the falling edge, flushes or   *)
(* resolves, collects operands and sends ready instructions to the units.  *)
(***************************************************************************)
EXTENDS PipelineState

\* What Decode changes, and the free entries CheckResources has left.
DecodeState == [rob |-> rob, binding |-> binding, intRS |-> intRS, brRS |-> brRS,
                fpRS |-> fpRS, sysRS |-> sysRS, lock |-> stationLock, interlock |-> FALSE,
                bc |-> branchCounter, id |-> nextId, left |-> NROB - Len(rob),
                by |-> lockedBy]

\* GetLessLoadedIntegerRSQueue(): of the units that execute the instruction, the
\* first one with the most free stations.
Executers(k) == IF k.muldiv THEN {1} ELSE IntUnits
LessLoaded(queues, k) ==
  CHOOSE u \in Executers(k) : \A v \in Executers(k) :
    \/ Len(queues[u]) < Len(queues[v])
    \/ Len(queues[u]) = Len(queues[v]) /\ u <= v

\* AllocateRS(): a free reservation station of the unit.
HasStation(s, k) ==
  CASE k.unit = "int" -> Len(s.intRS[LessLoaded(s.intRS, k)]) < NIntRS
    [] k.unit = "br"  -> Len(s.brRS) < NBranchRS
    [] k.unit = "fp"  -> Len(s.fpRS) < NFpRS
    [] k.unit = "sys" -> s.sysRS = <<>>

\* CheckResources() and the branch limit of the selection loop.  An instruction
\* that sets the interlock is the last one of its group.  (Mutant: it is not.)
MayDecodeOn(s, k) ==
  /\ s.left > 0 /\ s.id <= MaxInstr
  /\ Len(k.dst) <= s.binding.nfree
  /\ k.unit = "br" => s.bc <= MaxBranchs
  /\ HasStation(s, k)
MayDecode(s, k) ==
  /\ s.left > 0 /\ ~ s.interlock /\ s.id <= MaxInstr
  /\ Len(k.dst) <= s.binding.nfree
  /\ k.unit = "br" => s.bc <= MaxBranchs
  /\ HasStation(s, k)

\* Where the operand's value will come from.  want is the newest older writer.
NewOperand(s, r) ==
  LET t == s.binding.renames[r]
      writers == {e.id : e \in {f \in Range(s.rob) : r \in Writes(f)}}
  IN  [reg |-> r, tag |-> t, valid |-> FALSE, val |-> 0,
       read |-> IF t = None THEN "register" ELSE IF s.binding.valid[t] THEN "rename" ELSE "none",
       want |-> Max(writers \cup {archWriter[r]})]

\* Destinations are renamed one after the other.
Renamed(b, regs) ==
  FoldLeft(LAMBDA c, r : LET t == FirstFree(c.binding)
                         IN [binding |-> AllocateAt(c.binding, r, t), tags |-> Append(c.tags, t)],
           [binding |-> b, tags |-> <<>>], regs)

\* A branch without a destination gets no reorder buffer entry.
HasRobEntry(k) == k.unit # "br" \/ k.dst # <<>>

\* The interlock flag of the system register station.
LockField(s, k) == IF k.unit # "sys" \/ k.lock = "keep" THEN s.lock ELSE k.lock = "set"

\* The executionSerialized field of the reservation station: Decode never sets that
\* of a floating point station, which stays false from its constructor.
StationSerialized(k) == k.ser /\ k.unit # "fp"

\* The entry of the ring that Queue::Allocate() hands out.  (Mutant: it does not
\* wrap.)
NextSlotUnwrapped(q) == robTail + Len(q)
NextSlot(q) == (robTail + Len(q)) % NROB

Decoded(s, k) ==
  LET u    == LessLoaded(s.intRS, k)
      b    == Renamed(s.binding, k.dst)
      slot == IF HasRobEntry(k) THEN NextSlot(s.rob) ELSE None
      rs   == [id |-> s.id, slot |-> slot, dst |-> b.tags, bc |-> s.bc,
               ser |-> StationSerialized(k), pipelined |-> k.pipelined,
               ops |-> [i \in DOMAIN k.src |-> NewOperand(s, k.src[i])]]
      entry == [id |-> s.id, slot |-> slot, unit |-> k.unit,
                num |-> IF k.unit = "int" THEN u ELSE 0,
                regs |-> k.dst, dst |-> b.tags, ser |-> k.ser, bc |-> s.bc, fin |-> FALSE,
                lock |-> k.unit = "sys" /\ LockField(s, k), direct |-> k.direct]
  IN  [rob       |-> IF HasRobEntry(k) THEN Append(s.rob, entry) ELSE s.rob,
       binding   |-> b.binding,
       intRS     |-> IF k.unit = "int" THEN [s.intRS EXCEPT ![u] = Append(@, rs)] ELSE s.intRS,
       brRS      |-> IF k.unit = "br" THEN Append(s.brRS, rs) ELSE s.brRS,
       fpRS      |-> IF k.unit = "fp" THEN Append(s.fpRS, rs) ELSE s.fpRS,
       sysRS     |-> IF k.unit = "sys" THEN Append(s.sysRS, rs) ELSE s.sysRS,
       lock      |-> LockField(s, k),
       interlock |-> k.unit = "sys" /\ k.lock = "set",
       bc        |-> IF k.unit = "br" THEN s.bc + 1 ELSE s.bc,
       id        |-> s.id + 1,
       left      |-> s.left - 1,
       by        |-> IF k.unit = "sys" /\ k.lock = "set" THEN s.id ELSE s.by]

\* The decode states one more instruction leads to.
DecodedOnce(S) == UNION {{Decoded(s, k) : k \in {l \in Kinds : MayDecode(s, l)}} : s \in S}

\* The states a group of at most DecodeWidth instructions leads to: the fetch
\* unit may deliver any instructions, and fewer than there is room for.
DecodeResults ==
  FoldLeft(LAMBDA S, n : S \cup DecodedOnce(S), {DecodeState}, [n \in 1 .. DecodeWidth |-> n])

\* Decode().  It is not triggered when the reorder buffer is full, and returns
\* at once under the interlock; both leave nInstructionsToDispatch as it was.
Decode ==
  /\ phase = "decode" /\ phase' = "fall"
  /\ IF Len(rob) = NROB \/ interlock
       THEN UNCHANGED <<rob, binding, dispatchVars, nextId, lockedBy>>
       ELSE \E s \in DecodeResults :
              /\ rob' = s.rob /\ binding' = s.binding
              /\ intRS' = s.intRS /\ brRS' = s.brRS /\ fpRS' = s.fpRS
              /\ sysRS' = s.sysRS
              /\ stationLock' = s.lock /\ interlock' = s.interlock
              /\ branchCounter' = s.bc /\ nextId' = s.id
              /\ lockedBy' = s.by
              /\ reading' = nextId .. s.id - 1
              /\ UNCHANGED issue
  /\ UNCHANGED <<robTail, completionVars, unitVars, fileVars, archWriter>>

-----------------------------------------------------------------------------
\* Flush() or DecrementBranchCounter() on the reservation stations.  An integer
\* or floating point queue loses every dependent entry, the others pop from the newest end.
Resolved(q) == IF Predicted THEN [i \in DOMAIN q |-> Decremented(q[i])] ELSE q
FlushedInt(q) == IF Mispredicted THEN SelectSeq(q, LAMBDA rs : rs.bc = 0) ELSE Resolved(q)
FlushedOther(q) == IF Mispredicted THEN Unflushed(q) ELSE Resolved(q)

\* UpdateRS(): forward the results of this cycle, then copy the read ports to the
\* instructions of the last group decoded.
\* (Mutant: an operand that has its value takes results too.)
ForwardedAgain(o) ==
  IF \E x \in Results : x.tag = o.tag
    THEN [o EXCEPT !.valid = TRUE, !.val = (CHOOSE x \in Results : x.tag = o.tag).val]
    ELSE o
Forwarded(o) ==
  IF ~ o.valid /\ \E x \in Results : x.tag = o.tag
    THEN [o EXCEPT !.valid = TRUE, !.val = (CHOOSE x \in Results : x.tag = o.tag).val]
    ELSE o
PortRead(o) ==
  CASE o.read = "register" -> [o EXCEPT !.val = arch[o.reg]]
    [] o.read = "rename"   -> [o EXCEPT !.val = ren[o.tag], !.valid = TRUE]
    [] o.read = "none"     -> o
Updated(rs) ==
  [rs EXCEPT !.ops = [i \in DOMAIN rs.ops |->
     IF rs.id \in reading THEN PortRead(Forwarded(rs.ops[i])) ELSE Forwarded(rs.ops[i])]]
UpdateRS(q) == [i \in DOMAIN q |-> Updated(q[i])]

\* Valid()
Valid(rs) == \A i \in DOMAIN rs.ops : rs.ops[i].tag # None => rs.ops[i].valid

\* RSQueue::GetOldestValid(): the oldest station if it is valid, else the first
\* valid one that is not serialized; 0 when there is none.
\* (Mutant: serialized ones are always passed over.)
OldestUnserialized(q) ==
  LET ready == {i \in DOMAIN q : Valid(q[i]) /\ ~ q[i].ser}
  IN  IF ready = {} THEN 0 ELSE Min(ready)
OldestValid(q) ==
  LET ready == {i \in DOMAIN q : Valid(q[i]) /\ (i = 1 \/ ~ q[i].ser)}
  IN  IF ready = {} THEN 0 ELSE Min(ready)

\* A serialized instruction leaves its station only under the execute signal
\* that names it.
\* (Mutant: the tag is not compared.)
MayExecuteAny(rs, unit, num) == rs.ser => execute.unit = unit /\ execute.num = num
MayExecute(rs, unit, num) ==
  rs.ser => execute = [unit |-> unit, num |-> num, slot |-> rs.slot]

\* The station integer unit u is given, as an index, or 0.
IntChoice(u, q) ==
  LET i == OldestValid(q)
  IN  IF intUnit[u].lat = 0 /\ i # 0 /\ MayExecute(q[i], "int", u) THEN i ELSE 0

\* The station the floating point unit is given, as an index, or 0.  outBusy is up
\* while the first stage is stalled or a divide goes on; a divide also waits until the
\* pipeline is empty.  (Mutant: it does not.)
FpBusy == fpUnit.np.lat > 0 \/ (fpUnit.stage[1].id # 0 /\ fpUnit.stage[1].lats[1] > 0)
FpChoiceAnyTime(q) ==
  LET i == OldestValid(q)
  IN  IF ~ FpBusy /\ i # 0 /\ MayExecute(q[i], "fp", 0) THEN i ELSE 0
FpChoice(q) ==
  LET i == OldestValid(q)
  IN  IF /\ ~ FpBusy /\ i # 0 /\ MayExecute(q[i], "fp", 0)
         /\ q[i].pipelined \/ fpUnit.size = 0
        THEN i ELSE 0

\* Flush() clears the interlock with the instruction that set it, Dispatch() when
\* Retire says so.  (Mutant: only at retirement.)
StillLockedAfterFlush(syss) == interlock /\ ~ clearInterlock
StillLocked(syss) ==
  /\ interlock /\ ~ clearInterlock
  /\ ~ (sysRS # <<>> /\ syss = <<>> /\ stationLock)

\* The branch unit and the system register unit are given the oldest station.
BranchChoice(q) == q # <<>> /\ Valid(Head(q))
SysChoice(q) == q # <<>> /\ sysUnit.lat = 0 /\ MayExecute(Head(q), "sys", 0)

\* Dispatch()
Dispatch ==
  LET ints == [u \in IntUnits |-> UpdateRS(FlushedInt(intRS[u]))]
      brs  == UpdateRS(FlushedOther(brRS))
      fps  == UpdateRS(FlushedInt(fpRS))
      syss == FlushedOther(sysRS)
      int  == [u \in IntUnits |-> IntChoice(u, ints[u])]
      fp   == FpChoice(fps)
  IN  /\ intRS' = [u \in IntUnits |-> IF int[u] = 0 THEN ints[u] ELSE RemoveAt(ints[u], int[u])]
      /\ brRS' = IF BranchChoice(brs) THEN Tail(brs) ELSE brs
      /\ fpRS' = IF fp = 0 THEN fps ELSE RemoveAt(fps, fp)
      /\ sysRS' = IF SysChoice(syss) THEN Tail(syss) ELSE syss
      /\ issue' = [int |-> [u \in IntUnits |-> IF int[u] = 0 THEN Nothing ELSE ints[u][int[u]]],
                   br  |-> IF BranchChoice(brs) THEN Head(brs) ELSE Nothing,
                   fp  |-> IF fp = 0 THEN Nothing ELSE fps[fp],
                   sys |-> IF SysChoice(syss) THEN Head(syss) ELSE Nothing]
      /\ branchCounter' = IF Mispredicted THEN 0
                          ELSE IF Predicted /\ branchCounter > 0 THEN branchCounter - 1
                          ELSE branchCounter
      /\ interlock' = StillLocked(syss)
      /\ UNCHANGED <<stationLock, reading>>
=============================================================================
