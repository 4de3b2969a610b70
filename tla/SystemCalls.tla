---------------------------- MODULE SystemCalls ----------------------------
(***************************************************************************)
(* sc: the system register unit of the simulator executes the call, and    *)
(* the callbacks of PowerPC.cpp make every change in both machines, so     *)
(* that the emulator has nothing left to do when the instruction retires.  *)
(* A pair p has the two machines, the end of the data segment and whether  *)
(* the program goes on.  What the host answers is an argument: answer.ret  *)
(* is its result, with Failed for -1, and answer.bytes what it delivers.   *)
(***************************************************************************)
EXTENDS MemoryInstructions

CONSTANT ChunkSize                       \* my_strlen reads this many bytes at a time

Failed == 2 ^ W - 1                      \* (word_t) -1

\* The numbers of the switch of do_syscall.  Three below 222 are missing in it.
Known == (1 .. 221) \ {62, 164, 170}
Identities == {20, 24, 47, 49, 50}       \* getpid, getuid, getgid, geteuid, getegid
CallName(n) ==
  CASE n = 1   -> "exit"  [] n = 3  -> "read"  [] n = 4  -> "write"
    [] n = 5   -> "open"  [] n = 6  -> "close" [] n = 19 -> "lseek"
    [] n = 43  -> "times" [] n = 45 -> "brk"   [] n \in {108, 197} -> "fstat"
    [] n = 136 -> "personality" [] n = 140 -> "_llseek"
    [] n \in Identities -> "identity"
    [] OTHER -> IF n \in Known THEN "unimplemented" ELSE "unknown"

\* The callbacks: write_gpr, mem_write, mem_read, set_cr0so and reset_cr0so.
WriteGPR(p, n, value) == [p EXCEPT !.sim.gpr[n] = value, !.emu.gpr[n] = value]
WriteMemory(p, addr, bytes) ==
  [p EXCEPT !.sim.mem = WriteBytes(@, addr, bytes), !.emu.mem = MemWrite(@, addr, bytes)]
ReadMemory(p, addr, size) == [p EXCEPT !.emu.mem = MemRead(@, addr, size).table]
WriteCR0SO(p, b) == [p EXCEPT !.sim.cr = SetBit(@, 3, b), !.emu.cr = SetBit(@, 3, b)]

\* my_strlen, with the chunks it reads: the last one has the first zero.  Memory that was
\* never written is zero.
StringLength(mem, addr) ==
  Min({a \in DOMAIN mem : a >= addr /\ mem[a] = 0} \cup {Max({addr, Cardinality(DOMAIN mem)})}) - addr
ReadString(p, addr) ==
  LET n == StringLength(p.sim.mem, addr)
      chunks == ReadMemory(p, addr, (n \div ChunkSize + 1) * ChunkSize)
  IN  ReadMemory(chunks, addr, n + 1)

\* The functions ppc_syscall_*: [p, ret], where ret FALSE sets the summary overflow of
\* CR0.  First the calls on files,
Parm(p, k) == p.sim.gpr[3 + k]
Return(p, value) == [p |-> WriteGPR(p, 3, value), ret |-> value # Failed]
FileCall(p, name, answer) ==
  CASE name = "read"  -> Return(WriteMemory(p, Parm(p, 1), answer.bytes), answer.ret)
    [] name = "write" -> Return(ReadMemory(p, Parm(p, 1), Parm(p, 2)), answer.ret)
    [] name = "open"  -> Return(ReadString(p, Parm(p, 0)), answer.ret)
    [] name \in {"close", "lseek"} -> Return(p, answer.ret)

\* those that fill memory with an answer,
DataCall(p, name, answer) ==
  LET failed == answer.ret = Failed
  IN  CASE name = "times" -> Return(WriteMemory(p, Parm(p, 0), answer.bytes), answer.ret)
        [] name = "fstat" ->
             Return(IF failed THEN p ELSE WriteMemory(p, Parm(p, 1), answer.bytes), answer.ret)
        [] name = "_llseek" ->
             IF Parm(p, 1) # 0 \/ failed THEN Return(p, Failed)
             ELSE Return(WriteMemory(p, Parm(p, 3), BytesOf(answer.ret, 8)), 0)

\* brk, which only raises the end of the data segment,
Break(p) ==
  LET grown == [p EXCEPT !.brk = IF Parm(p, 0) > @ THEN Parm(p, 0) ELSE @]
  IN  [p |-> WriteGPR(grown, 3, grown.brk), ret |-> TRUE]

\* and the switch of do_syscall.  exit and personality return no value, and a number that
\* has no case does nothing.
Call(p, answer) ==
  LET name == CallName(p.sim.gpr[0])
  IN  CASE name \in {"read", "write", "open", "close", "lseek"} -> FileCall(p, name, answer)
        [] name \in {"times", "fstat", "_llseek"} -> DataCall(p, name, answer)
        [] name = "brk" -> Break(p)
        [] name = "exit" -> [p |-> [p EXCEPT !.running = FALSE], ret |-> TRUE]
        [] name = "identity" -> [p |-> WriteGPR(p, 3, answer.ret), ret |-> TRUE]
        [] name = "personality" -> [p |-> p, ret |-> TRUE]
        [] name = "unimplemented" -> [p |-> WriteGPR(p, 3, Failed), ret |-> FALSE]
        [] name = "unknown" -> [p |-> p, ret |-> FALSE]

\* do_syscall, then the retirement of the instruction in both machines (sc_impl has no
\* effect in a build with EMULATE).
SystemCall(p, answer) ==
  LET done == Call(p, answer)
      flag == WriteCR0SO(done.p, IF done.ret THEN 0 ELSE 1)
  IN  [flag EXCEPT !.sim.pc = Trunc(@ + 4), !.emu.pc = Trunc(@ + 4)]

\* What the host may answer: any of its results, or a failure.  read delivers as many
\* bytes as it returns and is taken to succeed (a failed one makes the simulator write
\* without end); the calls that fill a structure deliver one.
HostAnswers(gpr, results, byte, structure) ==
  LET name == CallName(gpr[0])
      fill(n) == [k \in 1 .. n |-> byte]
  IN  CASE name = "read" -> {[ret |-> n, bytes |-> fill(n)] : n \in 0 .. gpr[5]}
        [] name \in {"times", "fstat"} ->
             {[ret |-> v, bytes |-> fill(structure)] : v \in results \cup {Failed}}
        [] name \notin {"read", "times", "fstat"} ->
             {[ret |-> v, bytes |-> << >>] : v \in results \cup {Failed}}
=============================================================================
