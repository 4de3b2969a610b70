----------------------------- MODULE RenamedROB -----------------------------
(***************************************************************************)
(* What the completion unit does to the rename tables for instructions     *)
(* with more than one destination, such as the loads with update:          *)
(* Decode allocates a rename buffer for destination 0, then for 1;         *)
(* Retire frees those of the oldest entry, and Flush those of the          *)
(* speculative entries from the newest on, both destination 0 first.       *)
(***************************************************************************)
EXTENDS RegistersBinding, RingQueue

CONSTANT Forms  \* the sequences of destination registers of the instructions

ASSUME FormsAssumption == Forms \subseteq Seq(Regs)

\* What an entry of the ring holds: the destinations and their buffers.
Entries == UNION {[regs : {f}, tags : [DOMAIN f -> Tag]] : f \in Forms \cup {<<>>}}
ASSUME EntriesAssumption == Entries \subseteq Values

VARIABLE binding
robVars == <<queue, head, tail, size, binding>>

\* The entries of the reorder buffer, oldest first.
rob == [i \in 1 .. size |-> At(i - 1)]

RobInit ==
  /\ queue = [i \in Index |-> [regs |-> <<>>, tags |-> <<>>]]
  /\ head = -1 /\ tail = 0 /\ size = 0
  /\ binding = EmptyBinding

\* Decode(): a buffer for every destination, in order.
Allocations(b, regs) ==
  LET done[n \in 0 .. Len(regs)] ==
        IF n = 0 THEN [binding |-> b, tags |-> <<>>]
        ELSE LET c == done[n - 1]
                 t == FirstFree(c.binding)
             IN  [binding |-> AllocateAt(c.binding, regs[n], t), tags |-> Append(c.tags, t)]
  IN  done[Len(regs)]
Decode(regs) ==
  LET a == Allocations(binding, regs)
  IN  /\ Len(regs) <= binding.nfree
      /\ Allocate([regs |-> regs, tags |-> a.tags])
      /\ binding' = a.binding

\* Retire(): the buffers of the oldest entry, in the order of the destinations.
RetireEntry(b, e) ==
  LET freed[n \in 0 .. Len(e.tags)] ==
        IF n = 0 THEN b ELSE FreeRenameBuffer(freed[n - 1], e.tags[n])
  IN  freed[Len(e.tags)]
Retire == Pop(1) /\ binding' = RetireEntry(binding, At(0))

\* The end of Flush(): one entry, with the same order of the destinations.
FlushEntry(b, e) ==
  LET freed[n \in 0 .. Len(e.tags)] ==
        IF n = 0 THEN b ELSE FreeRenameBufferReverseOrder(freed[n - 1], e.tags[n])
  IN  freed[Len(e.tags)]

\* Flush(): any number of the newest entries, the newest first.  (Mutant: the
\* oldest of them first.)
FlushOldestFirst(b, q) ==
  LET flushed[n \in 0 .. Len(q)] == IF n = 0 THEN b ELSE FlushEntry(flushed[n - 1], q[n])
  IN  flushed[Len(q)]
FlushEntries(b, q) ==
  LET flushed[n \in 0 .. Len(q)] ==
        IF n = 0 THEN b ELSE FlushEntry(flushed[n - 1], q[Len(q) - n + 1])
  IN  flushed[Len(q)]
Flush ==
  \E n \in 1 .. size :
    /\ FlushNewest(n)
    /\ binding' = FlushEntries(binding, SubSeq(rob, size - n + 1, size))

RobNext == Retire \/ Flush \/ \E regs \in Forms : Decode(regs)

RobSpec == RobInit /\ [][RobNext]_robVars
-----------------------------------------------------------------------------
\* The destinations of entries, and their order, which is that of the program.
DestinationsOf(e) ==
  UNION {{[entry |-> i, place |-> j, reg |-> e[i].regs[j], tag |-> e[i].tags[j]] :
             j \in DOMAIN e[i].regs} : i \in DOMAIN e}
Older(d, e) == d.entry < e.entry \/ (d.entry = e.entry /\ d.place < e.place)
Writers(r) == {d \in DestinationsOf(rob) : d.reg = r}

\* The rename buffers of a register are those of the writers in the reorder buffer, the
\* newest first, so that what a flush leaves is what the surviving instructions renamed.
TablesFollowRob ==
  /\ \A r \in Regs :
       LET c == Chain(binding, r)
           links == 1 .. Len(c) - 1
       IN  /\ c[Len(c)] = None
           /\ {c[k] : k \in links} = {d.tag : d \in Writers(r)}
           /\ \A d, e \in Writers(r), k, l \in links :
                c[k] = d.tag /\ c[l] = e.tag => (Older(d, e) <=> l < k)
  /\ binding.nfree = NTags - Cardinality(DestinationsOf(rob))

\* The check the source makes around every operation of the tables: renames and
\* the links from it lead through allocated buffers of the register.
PreconditionHolds == Precondition(binding)
=============================================================================
