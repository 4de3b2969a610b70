--------------------------- MODULE CompletionUnit ---------------------------
(***************************************************************************)
(* powerpc/src/CompletionUnit.cpp: in-order retirement at the rising edge, *)
(* and the bookkeeping of finished instructions, resolved branches and     *)
(* flushes after the falling edge.                                         *)
(***************************************************************************)
EXTENDS PipelineState

\* GetInstructionsToWriteBack(): the longest prefix of at most nCQ entries that
\* are finished, depend on no branch and find a write back port.
PortsUsed(n) == FoldLeft(LAMBDA s, e : s + Len(e.dst), 0, SubSeq(rob, 1, n))
MayWriteBack(n) ==
  /\ n <= NCQ /\ n <= Len(rob)
  /\ \A i \in 1 .. n : rob[i].fin /\ rob[i].bc = 0
  /\ PortsUsed(n) <= NPorts
NInstructionsToWriteBack == Max({n \in 0 .. NCQ : MayWriteBack(n)})

Tags(q) == FlattenSeq([i \in DOMAIN q |-> q[i].dst])

\* What an instruction that retires writes to the register file: its rename buffers
\* through the write back ports, or the CR fields of its mask.
WrittenBack(a, e) ==
  [r \in Regs |-> IF r \in e.direct THEN e.id
                  ELSE IF \E i \in DOMAIN e.dst : binding.reg[e.dst[i]] = r
                    THEN ren[CHOOSE t \in Range(e.dst) : binding.reg[t] = r]
                  ELSE a[r]]

\* The ports are served in the order Retire filled them: the youngest writer is
\* last.  (Mutant: the other way round.)
RegisterFileReversed(retired) == FoldLeft(WrittenBack, arch, Reverse(retired))
RegisterFileWriteBack(retired) == FoldLeft(WrittenBack, arch, retired)

\* The execute signal goes to the oldest remaining entry when it is serialized.
ExecuteSignal(rest) ==
  IF rest # <<>> /\ Head(rest).ser /\ ~ Head(rest).fin
    THEN [unit |-> Head(rest).unit, num |-> Head(rest).num, slot |-> Head(rest).slot]
    ELSE NoExecute

\* Retire(), and RegisterFile::WriteBack which its write back ports trigger.
Retire ==
  LET n == NInstructionsToWriteBack
      retired == SubSeq(rob, 1, n)
      rest == SubSeq(rob, n + 1, Len(rob))
  IN  /\ rob' = rest
      /\ robTail' = (robTail + n) % NROB
      /\ binding' = FoldLeft(FreeRenameBuffer, binding, Tags(retired))
      /\ arch' = RegisterFileWriteBack(retired)
      /\ archWriter' = [r \in Regs |->
           Max({archWriter[r]} \cup {e.id : e \in {f \in Range(retired) : r \in Writes(f)}})]
      /\ clearInterlock' = \E e \in Range(retired) : e.lock
      /\ execute' = ExecuteSignal(rest)

\* Flush(): entries that depend on a branch leave from the newest end.
\* (Mutant: the rename buffers are freed from the oldest one on.)
FlushedRob(q) == Unflushed(q)
FlushedBindingOldestFirst(b, q) ==
  FoldLeft(LAMBDA c, e : FoldLeft(FreeRenameBufferReverseOrder, c, e.dst),
           b, SubSeq(q, Len(Unflushed(q)) + 1, Len(q)))
FlushedBinding(b, q) ==
  FoldLeft(LAMBDA c, e : FoldLeft(FreeRenameBufferReverseOrder, c, e.dst),
           b, Reverse(SubSeq(q, Len(Unflushed(q)) + 1, Len(q))))

\* The entries of the instructions that have finished, and the rename buffers of
\* the results that have come.
Marked == [i \in DOMAIN rob |->
             IF \E x \in Finishing : x.slot = rob[i].slot THEN [rob[i] EXCEPT !.fin = TRUE]
             ELSE rob[i]]
Validated == FoldSet(LAMBDA x, b : ValidateRenameBuffer(b, x.tag), binding, Results)

\* The execute signal is withdrawn from the unit that has finished its serialized
\* instruction.
Withdrawn ==
  \E x \in {intUnit[u] : u \in IntUnits \cap {execute.num}} \cup {fpUnit.out} :
    /\ x.fin /\ execute.unit = (IF x = fpUnit.out THEN "fp" ELSE "int")
    /\ \E e \in Range(rob) : e.slot = x.slot /\ e.ser

\* Finish(): triggered only when the reorder buffer is not empty.
Finish ==
  /\ phase = "finish" /\ phase' = "rise"
  /\ IF rob = <<>> THEN UNCHANGED <<rob, binding, execute>>
     ELSE /\ rob' = IF Mispredicted THEN FlushedRob(Marked)
                    ELSE IF Predicted THEN [i \in DOMAIN rob |-> Decremented(Marked[i])]
                    ELSE Marked
          /\ binding' = IF Mispredicted THEN FlushedBinding(Validated, Marked) ELSE Validated
          /\ execute' = IF Withdrawn THEN NoExecute ELSE execute
  /\ UNCHANGED <<robTail, clearInterlock, dispatchVars, unitVars, fileVars, historyVars>>
=============================================================================
