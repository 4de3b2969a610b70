# PowerPC 750 simulator: a TLA+ verification project

The repository holds two programs. `src/powerpc` is a cycle-level simulator of
the PowerPC 750 written as SystemC modules: out-of-order execution, register
renaming, branch prediction, a store queue, two caches and a bus.
`src/ppcemul` is a functional emulator of the same instruction set. A build with
`EMULATE` runs them in lock step: the emulator executes an instruction when the
simulator retires it, and the registers are compared in every cycle. The
comparison shows errors only on the programs one happens to run. This project states what
makes the simulator right, checks it with TLC on small instances of the
machine, and proves the parts that do not depend on the size of the instance.

1. [The system](#1-the-system)
2. [Clock, signals and what a step is](#2-clock-signals-and-what-a-step-is)
3. [Modules and the code they model](#3-modules-and-the-code-they-model)
4. [Runs and bounds](#4-runs-and-bounds)
5. [Fairness](#5-fairness)
6. [Proofs](#6-proofs)
7. [Disagreements between the code and what is said of it](#7-disagreements)
8. [What is not modelled](#8-what-is-not-modelled)
9. [Plan](#9-plan)

## 1. The system

| Component | State | Operations | What makes it right |
|---|---|---|---|
| `RegistersBinding` | per class of registers: rename of each register, the table of buffers with links to older and newer versions, a count of free ones | allocate, free (retirement), free in reverse order (flush), validate | the links are the versions in flight; no buffer is lost; the newest version is the one a consumer gets |
| `ReorderBuffer`, `InstructionQueue` (`Queue<T>`) | ring of entries, head, tail, size | allocate, pop, flush the newest n, index by age, `Contains` | a bounded sequence; the index of an entry names it while it is queued |
| `DispatchUnit` | reservation stations, interlock, branch count | `Decode`, `CheckResources`, `UpdateRS`, `Dispatch`, `Flush` | each instruction gets the results of its own producers, serialized ones wait, nothing of a wrong path survives |
| `CompletionUnit` | signals to the register file and the units | `Retire`, `Finish`, `Flush` | retirement in order, never of a speculative instruction; registers in program order |
| integer, branch, system register and floating point units | instruction in execution, its latency, its branch count | `Execute`, `OnFallingEdge` | every instruction finishes once, or is flushed |
| `LoadStoreUnit`, `StoreQueue` | one load, a queue of stores, a request to the data cache | `Load`, `Store`, `WriteBack`, `Forward`, `Flush` | a load sees the stores before it, memory sees exactly the retired ones |
| `Cache` (twice), `BusInterfaceUnit` | directory, lines, state of the current transfer; latency and position of the bus | `GetRequest`, `Forward`, the two edges | they are one memory; words of a line do not get out of step |
| `FetchUnit`, `BranchQueue` | program counter, two queues, count of branches, state of the prediction | `Fetch`, `FillQueue`, `ReadBTIC` | the instructions dispatched are the predicted program in order |
| `BHT`, `BTIC` | history bits, cached target instructions | read, update | nothing depends on the answer but speed, if the entry is of that branch |
| register files, `XERRegister` | registers, rename buffers | write back, write rename | as the emulator |
| emulator | registers, program counter | `ppc_execute`, one function per instruction; `*_translate`, which tells the simulator what an instruction reads and writes | both implementations of an instruction agree |
| `memory.c` | pages, in chains of a hash table of hash tables | `mem_read`, `mem_write`, `mem_set`, allocation at the first touch | every address has its own byte |
| `syscall.c`, the callbacks of `PowerPC.cpp` | end of the data segment, whether the program goes on | `do_syscall`, with reads and writes of registers and memory | a call changes both machines alike, once |

The units communicate by SystemC signals, except that `rob` and
`registersBinding` are shared by pointer between the dispatch unit and the
completion unit. The hard behaviours are those of one cycle: results,
mispredictions, retirement and decoding meet in it, and each unit sees the others'
state of half a cycle before. `PROJECT.json` lists them one by one under
"hazards", with the properties that watch each of them.

## 2. Clock, signals and what a step is

On the rising edge the completion unit retires, the units execute, the fetch
unit asks for instructions and the caches and the bus advance; the signals that
change wake `Decode`, the register file and the write back of the store queue in
later delta cycles. On the falling edge the dispatch unit flushes, updates the
stations and sends instructions; the units drop what was mispredicted; the fetch
unit fills its queues; `Finish` follows one delta later. Processes of the same
delta cycle read what the others wrote before it, so their order does not
matter. Each model has one step for each of these points: four steps to a cycle in
`Pipeline` (`rise`, `decode`, `fall`, `finish`), two in the models of memory and
of fetch. Nondeterminism is in the inputs: the instructions, latencies, outcomes of branches,
answers of the caches, and the delays caused by parts that are not in the model.

## 3. Modules and the code they model

**Renaming.** `RegistersBinding` has the tables and the operations of
`RegistersBinding.cpp` for one class of registers (all classes run the
same code). `RenamePool` drives them in any legal order, keeping the history
`versions` of every register; `VersionStack` is what they promise, a stack of
versions per register, and `RenamePool` implements it. `RenameTableProofs` has what the
operations do to tables that represent lists of versions, `RenamePoolProofs` the theorems.

**Queue.** `RingQueue` is `Queue.h`, `Deque` the bounded sequence it implements,
`RingQueueProofs` the proofs. `RenamedROB` puts both together: the reorder buffer
is a `RingQueue` whose entries have the tags of their buffers, and it calls the
operations of `RegistersBinding` in the order of `Decode`, `Retire` and `Flush`, for
instructions with any number of destinations (loads with update have two);
`RenamedROBProofs` has its proofs.

**Out-of-order core.** `PipelineState` declares the state; `DispatchUnit`,
`CompletionUnit`, `ExecutionUnits` and `FloatingPointUnit` each model the file of that
name (`ExecutionUnits` the integer, branch and system register units);
`Pipeline` composes them and states the properties. A value is the serial number of
its producer, so "the operand is right" says that it came from the right
instruction. One class of registers stands for all of them. The fetch unit is
abstracted to "any instructions of `Kinds`", the branch unit to any outcome.

**Memory.** `Cache` and `BusInterfaceUnit` model the files; `MemorySystem`
composes two caches, the bus and the pages, and implements `AtomicMemory`, in
which a request takes effect at once. A line is a function from units (half words, say)
to values. The victim of a replacement may be any bank. `MemoryCoherenceProofs` has
the proof that the caches and the bus stay in step, lemmas about lines and transfers that wrap
at their end, and with them the proof that all of it is one memory.

**Loads and stores.** `LoadStoreUnit` models the unit and its queue of stores byte
by byte; `LoadStoreSystem` puts it between a reorder buffer, branches and a data cache that
behaves as `AtomicMemory` after any latency. `LoadStoreUnitProofs` has what each operation of the
unit does to its relation with the reorder buffer and memory, `LoadStoreProofs` the theorems.

**Fetch.** `FetchUnit` models `FetchUnit.cpp` and its two queues, `FetchSystem`
adds the decoding that takes from both, the branch unit, and branch prediction that
may answer anything it could have stored.

**Lock step of the integer instructions.** `MachineWord` has the words of W bits, with the carry and
overflow as the code computes them; `IntegerDecode` the `*_translate` functions;
`EmulatedInteger` the `*_impl` functions of the emulator; `IntegerUnit` the
simulator's `Execute`; `LockStep` runs both machines and compares them as
`PowerPC::CheckRegisters` does.

**Lock step of programs.** `ProgramLockStep` does the same for every other
instruction, with memory and the program counter. The emulator is `EmulatedControl`
(branches, condition register logic, moves), `FloatInstructions`,
`MemoryInstructions` on the pages of `PagedMemory`, and `SystemCalls`; the
simulator is `ControlUnits` (the target from the fetch unit, `BranchUnit`,
`SystemRegisterUnit`, the write back of CR, LR and CTR), and the other halves of
`FloatInstructions`, `MemoryInstructions` (line crossing, conversion, byte
order) and `SystemCalls` (the callbacks). The first part of `FloatInstructions` stands for
the arithmetic of the host, which both programs call: a fixed point one with a NaN, in
which a conversion to single precision loses bits.

The `MC*` modules hold small programs, requests and kinds of instructions for the runs.

| Model | Code |
|---|---|
| `binding` | `RegistersBinding`: `renames`, `reg` (`renamedRegister`), `prev`, `next`, `valid`, `nfree` |
| `rob`, `slot` | the entries of `ReorderBuffer` oldest first; index in the ring, which is the tag of the instruction |
| `bc`, `branchCounter` | `branchCounter` of an entry, a station, a unit; of the dispatch unit |
| `intRS` ... `sysRS` | the `RSQueue`s; `read` is what `Decode` remembers in `*Reading*` arrays |
| `execute` | `outIntegerExecute`, `outSystemRegisterExecute`, `outFloatingPointExecute` and their tag |
| `fpUnit` | the ring and stages of `Pipeline` in `FloatingPointUnit.h` and the path for instructions that are not pipelined |
| `unit.storeQueue`, `.load`, `.stage1` | the members of `stage2` and `stage1` of `LoadStoreUnit` |
| `dcache`, `icache`, `.state` | `Cache`, with its numbered states named |
| `fu.toPredecode`, `fu.branchPredicted` | `nInstructionsToPredecode`; the flag of a slot of the ring, which outlives the entry |
| `sim`, `emu`, `xerIn` | registers of both machines; the signals `writeCarry`, `writeOverflow` and their data |
| `emu.mem` | `primary_hash_table` of `memory.c`: slot, slot of the secondary table, chain of pages |
| `brk`, `running` | `brk_point` of `syscall.c`; whether `exit` was not called |
| `slot` (`RetireMemory`) | what the decoded instruction before left in the slot of `DispatchUnit.cpp:614` |
| `held` (`RetireMove`) | the result left in the system register unit |

Operators introduced by "(Mutant: ...)" are plausible mistakes in the definition
after them. Replacing the definition by one makes the property named for it in
`PROJECT.json` fail, which shows that the property says something about the code.

## 4. Runs and bounds

| Run | Checks | Bounds and why they are enough |
|---|---|---|
| `rename_pool` | links, counts and stale results of the tables, and that they are a stack of versions | 2 registers, 3 buffers: three versions of one register, or two and one; enough for a middle, and a second list to corrupt. The proofs lift the bounds |
| `renamed_rob` | the tables are those of the writers in the reorder buffer; its ring keeps its ends, `Contains` and tags, and is a bounded sequence | 3 entries, so that every index wraps with every size; 4 buffers, fewer than two per entry, so that they run out; up to two destinations |
| `pipeline_rename` | every instruction in exactly one place; operands, rename tables, registers, branch counts, flushes | 6 instructions, 2 registers, 3 buffers, 4 entries, two integer units and the three stage floating point unit, latencies to 2, one unresolved branch more than one (`MaxBranchs` 1, as in `parms.h`). Fewer buffers than entries, so that they run out; slots and buffers are reused within a run |
| `pipeline_serial` | serialization, interlock, progress | 5 instructions, one register; carry readers, moves, mtcrf, a branch without an entry. Decoding three at a time |
| `fp_divide` | divides beside the pipeline | 5 instructions, latencies to 3 |
| `memory_system` | loads and fetches are exact, cache and bus in step, refinement of `AtomicMemory`, every request answered | one bank per cache, so that every second request replaces a line; lines of two words of two units, latency 2: every order of ejects and fills of both caches |
| `load_store` | loads see older stores; queue, loads and memory follow the reorder buffer | 6 bytes in 3 lines; a load and a store that each cross a line, and dcbz of the line they share; 3 entries, store queue 2 (as in `parms.h`), one unresolved branch, cache latency to 1 |
| `fetch` | what is dispatched is the predicted path; the counters are exact | the queue sizes and limits of `parms.h`; a program of three lines with branches to branches, into a line and across its end; any start, outcome and answer |
| `lock_step` | registers, carry, overflow and comparison bits of both machines agree; carries are exact | words of 4 bits, all values of two registers and the carry, every form of every integer instruction, one or two retired together |
| `lock_step_programs` | registers, next instruction and memory of both machines agree after every retirement | words of 8 bits: two condition fields, bytes of two bits. One branch, logic operation, move or floating point instruction from many starts (every BO, several CR, CTR and LR, all operands out of seven numbers); three loads, stores and dcbz in a row, over 4 pages of 16 bytes that share 2×1 slots of the tables, lines of 8 bytes and accesses to 8, aligned or across a line; a system call of each kind with the accesses before and after it |
| `stale_interlock` | fails: see 7.1 | as `pipeline_serial`, with mcrf |
| `syscall_order` | fails: see 7.2 | as `load_store`, with sc |

Deadlock is checked in every run but `lock_step_programs`, whose programs end: elsewhere
the clock never stops. `MaxInstr`, `MaxLatency`, `MaxBranches` and the word width `W` are the
bounds that the code does not have, and in `ProgramLockStep` the `length` of a program,
`MemorySize` (the addresses it uses), `Times` (readings of the time base), `HostResults`,
`HostByte` and `StructSize` (answers of the host to system calls, which may also fail); the others are sizes from `parms.h`, or smaller ones so that the limits are met.
In `Pipeline` decoding stops at `MaxInstr` and the clock goes on, so that
a run also covers the draining of the machine.

What the runs show together: a value reaches its consumer by the register file,
a rename buffer or forwarding, whichever way the cycle goes (`OperandsCorrect`);
a misprediction removes exactly the younger instructions (`FlushExact`) and
leaves the tables as if they had never been decoded (`RenameExact`);
`LoadExact`, `RefinesMemory`, `LoadSeesOlderStores` and
`MemoryFollowsRetirement` chain up to: a load returns what the program stored before it.
`DecodesThePath` gives the core the program in order, which is what
`Pipeline` assumes.

Two results depend on the sizes in `parms.h`. `DecodesThePath` fails with two
branch stations, because `ReadBTIC` fills an entry of the queue
without setting `branchPredicted`, and a branch there may look
predicted before it is; one station delays it enough. The
stations of the load/store unit are modelled as the queue they are, in order.

## 5. Fairness

Liveness is claimed where the code's clock is the only scheduler.
`Pipeline` has weak fairness of `Tick` (the clock goes on) and nothing else: latencies are
bounded by `MaxLatency`, everything else is deterministic, so
`EveryInstructionLeaves` and `InterlockCleared` follow from the clock. Decoding
new instructions is never assumed. `MemorySystem` likewise has weak fairness of
`Next`: the bus has constant latencies, so `RequestsServed` needs
no more, although the bus prefers the instruction cache. `LoadStoreSystem` and
`FetchSystem` also define the strong fairness of their neighbours (branches are
resolved, finished instructions retire, the cache answers), which the other models
justify; with it `LoadsFinish`, `StoresDrain` and `FetchProgress` hold on
smaller instances (operations `OneOfEach` with `NRob = 2`; program `OneLine` with
a queue of 3 and `FairSpec`). They are not part of the listed runs because they take
as long as all safety properties together.

## 6. Proofs

The modules whose names end in `Proofs` are checked by TLAPS. The constants satisfy these named
assumptions, which TLC evaluates on every instance:

- `BindingAssumption`: registers are a set without the value None, the number of buffers is positive;
  `QueueAssumption`: the ring has at least one entry. `FormsAssumption` and `EntriesAssumption`: destinations
  are sequences of registers, and the ring may hold any entry with their buffers.
- `CacheAssumption`: a line is longer than a word of the bus and a multiple of it; None is not a line,
  a value or a bank. `FetchAssumption`: the fetch unit never writes.
- `LoadStoreAssumption`: the store queue has an entry and a line a byte. `OperationsAssumption`: the reorder
  buffer has an entry, loads read bytes that exist, a store has as many bytes as its size.
- `RequestAssumption`: a request lies within a line, since the load/store unit splits accesses
  and a fetch ends with the line. `ProgramAssumption`: the program does not store
  into lines it executes; nothing in the code keeps the instruction cache coherent with stores.

Four hypotheses are not assumptions of a module, because the code is wrong without them and a
configuration shows it. `AlignedLoads`, in the theorems of `MemoryCoherenceProofs`: a load not longer than a
word of the bus lies within one (disagreement 6 below). `DistinctDestinations`, in those of
`RenamedROBProofs`: the destinations of an instruction are different registers (disagreement 5).
In those of `LoadStoreProofs`, `WholeSingles`: no single precision store crosses a line (disagreement 8), and
`AlignedZeros`: a dcbz names the first byte of its line (disagreement 7).

*Renaming.* The invariant of interest, `NoLeak`, says that the counter of free buffers is exact. It is
not inductive: freeing updates a neighbour through the links, and if
the links were wrong the counter would still be right for one step and wrong
later. `Represents` adds that the links of each register are its list of versions, that
every buffer in use is in the list of the register it names, and that a result is never in a free
buffer. A list is preserved by an operation on another one only because no buffer is in both. Lemmas about
lists (`AllocateAppends`, `FreeRemovesFirst`, `FreeReverseRemovesLast`, `OtherListsKept`) carry
each operation (`AllocateRepresents`, `FreeOldestRepresents`, `FreeNewestRepresents`); `Invariance` combines them.
From it follow `TypeCorrect`, `LinksCorrect`, `NothingLeaks`, `NoStaleResult`,
`RenameIsStable` and `Refinement` (each operation is a step of `VersionStack`, validation
and the rest map to a step or a stutter).

*Queue.* `TypeInvariant` ties head to tail and size modulo the size of the ring and is
inductive. SMT cannot reason about remainders by a parameter, so `OneTurn` replaces
every remainder by a case distinction. From it follow `ContainsIsExact`, `EndsDoAgree`,
`TagsAreStable` and `Refinement`.

*Renaming and the reorder buffer.* `TablesFollowRob` compares what is read from the tables, by walking their
links, with the entries of the ring, so it is a property of states that says nothing of how they came about. `RobInv` says the
same without the walk: the tables `Follow` the destinations of the entries, that is, they `Represent`
some versions, and the versions of each register are the buffers of its writers in program order.
Three lemmas take one destination in or out: `AddNewest`, `RemoveOldest`, `RemoveNewest`. Retirement and
flush go through the destinations of an entry in the same direction, which is right for a flush only
if no other destination of the entry is younger and of the same register: there `DistinctDestinations` is
used, and nowhere else. Each loop of the code is a recursive function of the number of turns; `LoopExists` says
that there is one and `Counting` that what every turn keeps holds at its end (`AllocationsFollow`, `RetireEntryFollows`,
`FlushEntryFollows`, `FlushEntriesFollow`). `ChainIsBackwards` computes the walk, and `CounterFollows` counts the
buffers by a bijection. `RobStep` combines this with the lemmas of the ring (`AllocateListed`, `PopListed`, `FlushListed`),
which also gives `RobIsRing`: the theorems on the ring are true of the reorder buffer. From `RobInv` follow
`TablesDoFollowRob` and `PreconditionDoesHold`, the check the source makes when it is compiled with `CONDITION`.

*Cache and bus.* `InStep` says that a cache and the bus have counted the same number of
words whenever both are in the middle of a line. It is not inductive: in the middle of a
cycle one of them has counted a word and the other has not. `IInv` adds what holds then
(`DuringWord`), that nothing has been counted while the bus waits for its latency and that the
cache it waits for does not go away (`Serving`, `Asking`), and that the instruction cache,
which nobody writes into, never has a line to eject (`ReadOnly`). The operators of the two
machines are first reduced to what they do to the state, the counter and the handshake
(`RiseOfCache`, `FallOfCache`, `BusOnFrontEdgeStep`, `BusOnFallingEdgeStep`, for which the data and the
addresses do not matter); `RiseIInv` and `FallIInv` then go through the states of the bus.
`CachesAndBusInStep` follows for lines, words and latencies of any length, any number of banks and any
victim.

*One memory.* That a load gets what was stored last (`LoadExact`) says nothing of the time
between requests, so it is far from inductive: it depends on what every bank holds, on
what is half way over the bus and on what the pages hold while a line is being ejected. `CoherenceInv` names each part:

- `Directory`: a line is in one bank at most, and a request is taken only when its line is in none.
  `Holds`: the request a cache works on is the one the CPU holds (the fetch unit may have changed its own, whose answer is then lost).
- `Clean`: a bank that is not dirty is a copy of the pages. `Current`: what a bank holds, or the pages
  if no bank holds the line, is what the program has stored, up to the one store that is done and not yet acknowledged.
- `Arriving`: what has come of a line that is being filled, which starts at the word that was asked for and wraps at the end of
  the line. `Collected`: how much of an answer has been forwarded from the words that passed by.
- `Leaving`: what has reached the pages of a line that is being ejected; the line is dropped only when all of it has.
- `Prepares`, `SendsTo`, `HasSentTo`: the transfer of the bus is the one the cache asks for, at the place where the cache
  is, or a word ahead of it in the middle of a cycle. Here the proof needs `InStep`.
- `Answers`: what an acknowledged request has got.

`RiseCoherence` and `FallCoherence` take the conjuncts through an edge, cache by cache and state by state; the lemmas on
lines and words say where the words of a wrapping transfer lie, and that those forwarded make up the answer. From `Coherence` follow
`LoadsAreExact`, `FetchesAreExact` and `Refinement`. For the refinement, `CurrentView` ties the mapping `View` to what the program
stored, and `RiseView` and `FallView` say what an edge may do to it: `MemoryStep` then finds the step of
`AtomicMemory`, a store where it takes effect in a bank and a load where it is answered.

*Loads and stores.* Each of the four invariants of `LoadStoreSystem` breaks in one step from some state
that satisfies it: the next state of the queue depends on a packet that the dispatch unit has sent half a
cycle before, trusting a stall that the unit had computed half a cycle before that. `Core` says what relates
the unit, the reorder buffer and memory at any point of a cycle:

- `QueueInv`: the entries that are not retired are stores of the reorder buffer that have left their station,
  in the same order, with their tag, operation and branch count (`QueueOrder`), and all of them (`StoresThere`); those that
  are retired are before them (`Retired`), and the packet in the first stage is the last one that was sent (`LastSent`).
- `LoadThere`, `LoadAlone`: the same for the load, and that no other is behind it.
- `Asks`, `Origins`: the request to the cache is that of the load or of the oldest retired store, for the half it is at.
- `Depends`: an entry of an older store that overlaps the load is marked with its tag, and while there is one the load has
  not started. It is the reason why a load may pass the other stores.
- `Memory`: what is retired is in memory or in a retired entry. The first half of a store across a line is in memory before
  the second, so that writing all of it later changes nothing else. This needs `WholeSingles`.
- `Halves`: the first half of a load across a line has the bytes that memory still has, since no store that touches them
  is served before the second. This needs both hypotheses: the overlap that `Depends` speaks of is that of the bytes
  written only if a dcbz starts at its line.

`IInv` adds which instructions are under way (`Stages`), that the tags of the reorder buffer go round the ring (`Tagged`),
that a store is sent only while an entry is free for it and what the stalls promise about that (`Rising`, `HasRoom`, `Flags`), and
what an answer is (`Result`). TLC finds `IInv` true in all states of the run `load_store`. An edge is taken apart as in the code: front edge, retirement port by port,
answer; then acknowledgement, branch, shift, first stage. Each part has one lemma that it keeps
`Core`, and `RiseStep` and `FallStep` put them together. From `IInv` follow `QueueFollowsRobAlways` and `LoadsFollowRobAlways`
without hypotheses, `MemoryFollowsRetirementAlways` with `WholeSingles` and `LoadSeesOlderStoresAlways` with both.
To be reasoned about, the operators are stated by sets and functions of positions (`Full`, `Pending`,
`Effects`) instead of filters and folds; only the loop over the retirement ports is a recursive function.

*What is only model-checked, and why.* `FetchSystem` and `Pipeline` are stated with sequences
that the operators filter and fold (`SelectSeq`, `FoldLeft`), as the loops of the
code do. The provers cannot expand `SelectSeq`, and a fold is a recursive function: each needs
lemmas of its own, as in `LoadStoreUnitProofs`, for the invariants to be proved. `SyscallSeesStores` is what
disagreement 2 violates. The properties of both lock steps depend on recursive
operators on words, which TLAPS does not accept. Liveness is out of its reach: `RequestsServed`, `LoadsFinish`,
`StoresDrain` and the other properties under fairness are checked by TLC. Where a proof needs induction
on numbers it takes the least counterexample (`WFMin`), since schemes of induction
over operators are not available.

## 7. Disagreements

What the code does and what a comment, a check or the other machine says
differ in these places. The first two are runs of this project; 3 to 12 are reproduced by changing
the constants of the configuration named, with the definitions that are in its MC module, 14 by adding the form to a
program; 13 and 15 to 18 were found by reading the two sources next to each other, and 19 with another program.

1. `mcrf` leaves the interlock flag of its reservation station as it was
   (`DispatchUnit.cpp:1951`), so its retirement may clear the interlock of a later
   `sc` or `mtcrf` (run `stale_interlock`).
2. `sc` waits only while the load/store unit is not empty *and* the cache is busy
   (`DispatchUnit.cpp:2367`), so a system call may read memory without a store that has retired
   (run `syscall_order`).
3. A floating point instruction that is not pipelined never gets its branch
   count (`FloatingPointUnit.cpp:639`): a divide of a mispredicted path survives and
   finishes with a tag that is not in the reorder buffer. `MCPipeline`, `Kinds <- FpDivFlushKinds`,
   `NTags = 2`, `NROB = 3`, `MaxLatency = 3`, `MaxInstr = 4`: `FinishedInRob` fails.
4. `mffs` is serialized in the reorder buffer but not in its station
   (`DispatchUnit.cpp:1089`). `MCPipeline`, `Kinds <- FpSerialKinds`, `MaxInstr = 4`: `SerializedOldest` fails.
5. The flush of a load with update frees the two results in the order of
   allocation (`CompletionUnit.cpp:1085`; line 1049 says the reverse). If both are the same register, an invalid form that is
   not rejected, the links break. `MCRenamedROB`, `Forms <- SameRegisterForms`: `PreconditionHolds` fails.
6. `Forward` copies past the end of a bus word (`Cache.cpp:647`) for a load that misses and
   crosses one. `MCMemorySystem`, `DataRequests <- UnalignedData`, `FetchRequests <- NoFetches`: `LoadExact` fails.
7. `dcbz` of an address inside a line takes part in the test of dependences from that
   address on (`LoadStoreUnit.cpp:131`), while the cache zeroes the line. `MCLoadStore`,
   `Operations <- UnalignedZero`: `LoadSeesOlderStores` fails.
8. The second half of a single precision store across a line is shifted before it is
   converted (`LoadStoreUnit.cpp:736`). `MCLoadStore`, `Operations <- SingleStore`: `MemoryFollowsRetirement` fails.
9. The fetch goes on at the limit and stops one branch later (`FetchUnit.cpp:102`; `parms.h:20`
   says it stops at the limit). `MCFetch`: `FetchStopsAtLimit` fails.
10. A branch behind another branch of its fetch does not count it (`FetchUnit.cpp:47`;
    `InstructionQueue.h:30`). `MCFetch`: `EntryCountsBranches` fails.
11. Of two instructions that write the overflow and retire together only the second reaches
    the XER (`CompletionUnit.cpp:242`), and CR0 takes the summary overflow before the XER is written.
    `MCLockStep`, `Instructions <- Overflows`: `SummaryAgrees` fails.
12. The two machines differ on integer forms: `addo` (the simulator tests bit 27 of the sum,
    `IntegerUnit.cpp:985`), `mullwo` (always an overflow), `srw` by 32 or more, and divisions
    without a quotient. These forms are left out of `AllForms` or excluded by `Proper`; `AnyOperands = TRUE` brings
    the last two back.
13. Both machines share the same departures from the architecture: `addme` and `subfme` report no carry when the
    carry was set, and `Overflow` and `Underflow` are off by one at the most negative number (`IntegerUnit.cpp:56`).
14. Left out of the forms of `MCProgramLockStep`, where the two machines part: `mfspr` and `mtspr` of the
    XER (the simulator moves LR and CTR only); `fctiwz.` and `mffs.`, for which only the simulator
    writes CR1; `stfsu`, translated with a length of 8 bytes; `lwzux`, whose translation sets no length
    (`loadstore.c:1750`); `lwbrx`, `lhbrx` and `sthbrx`, which the load/store unit does not reverse, and `stwbrx`,
    which is not decoded; `lfdux` and `lfsux` with RA = 0; a single precision store across a line (8 above).
    `fnmsubs` stops the simulator. Adding one of these to the forms of a program makes `SameRegisters`
    or `SameMemory` fail.
15. `syscall.c:521`: a `read` that fails returns -1 in an unsigned variable, which passes the test for a
    positive size; the answers of `SystemCalls` leave it out. `ppc_swap` (`syscall.c:446`) swaps a copy only.
16. `ConditionRegister.cpp:60` ors the summary overflow into every field that is written, CR logic included.
17. For four ways `UpdatePLRUBits` masks with the bits it means to clear (`&= B1` without the complement in `Cache.cpp`), so
    the bank used last may be the next victim. Not wrong: any bank may be the victim.
18. `UpdateRS` advances the index of the LR read port when nothing is read from it
    (`DispatchUnit.cpp:2852`), unlike those of CR and CTR. It cannot be seen while there is one branch station.
19. `ReadBTIC` fills a slot of the queue without resetting its `branchPredicted` (`FetchUnit.cpp:190`). With more
    than one branch station a branch at the target of another is dispatched before it is predicted, together with what
    follows it, and the count of instructions to predecode exceeds the queue. `parms.h` has one station. `MCFetch`,
    `NBranchRS = 2`, `MaxBeforeDispatchStall = 2`, a program `<<Plain, Cond(3), Plain, Goto(1)>>`: `TypeInvariant` fails.

## 8. What is not modelled

- The floating point arithmetic of the host, which both machines call: `FloatInstructions` keeps what
  they rely on. Rounding modes and exceptions do not exist in the code (FPSCR is never written).
- The pseudo-LRU choice of a victim, and the tables of `BHT` and `BTIC`: any bank, any
  prediction, and any entry once stored.
- The pages behind the bus (`BusInterfaceUnit.cpp:294`): a function from lines to words, in
  `ProgramLockStep` from addresses to bytes.
- Accesses across a page of the emulator, which go past its storage (`memory.c:152`), and a
  `read` that fails, which copies without end (`syscall.c:521`): undefined in C.
- A system call's accesses as requests of the data cache: `LoadStoreSystem` has the order of a call and
  the stores before it, `ProgramLockStep` what it reads and writes.
- The tables from opcodes to functions, taken as correct.
- `FlushAll` and `Reset` in the middle of a run, which nothing calls.
- Loading of programs, options, statistics, tracing, disassembly, saving and restoring: input and output.
- `LoadQueue.h`, a class that nothing uses.

The composition is by assumption: `Pipeline` assumes the fetch unit delivers
a program, `LoadStoreSystem` assumes the cache is a memory; `FetchSystem` and
`MemorySystem` check exactly that. A single model of all units is beyond TLC.

## 9. Plan

Done, in this order: renaming with its proofs, the core with integer and branch
instructions, serialization, the floating point unit, the ring queue with its proofs,
caches and bus, loads and stores, fetch, the integer lock step; then the ring below the rename
tables, branches, condition register, moves, floating point, memory and system calls in the lock
step, the pages of the emulator; the proofs that caches and bus stay in step and that they, with the pages,
implement one memory; the proof that the rename tables follow the reorder buffer; the proofs that the store
queue, the load and memory follow it and that loads see the stores before them.

Next:

1. *Replacement*: `Cache::Choose`, `UpdatePLRUBits` for 2, 4 and 8 ways, `BTIC` and `BHT` tables: the tag test of
   `BTIC::Search`, entries of branches that share a slot.
2. *Reservation queue*: the free list of `RSQueue`, with a proof like that of the ring.
3. *System calls through the caches*: their reads and writes as requests in `MemorySystem`.
4. *Proofs*: the counters of the fetch unit (`BranchCounterExact`; for one branch station only, see disagreement 19),
   and of `Pipeline` that each instruction is in one place (`EachInstructionOnce`).
