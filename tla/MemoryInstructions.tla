------------------------- MODULE MemoryInstructions -------------------------
(***************************************************************************)
(* Loads, stores and dcbz.  In the emulator they access its own memory,    *)
(* m.mem; in the simulator the load/store unit splits them at the borders  *)
(* of cache lines and accesses what MemorySystem shows to be one memory,   *)
(* r.mem, a function of the addresses.  An instruction is described by     *)
(* i.op ("load", "store" or "dcbz"), i.size, i.algebraic, i.float,         *)
(* i.update, i.indexed and i.reverse: lhaux is a load of two bytes,        *)
(* algebraic, update and indexed.                                          *)
(***************************************************************************)
EXTENDS FloatInstructions, PagedMemory

CONSTANTS LineSize                       \* of the caches; dcbz of the emulator has 32

\* EA, EA_U, EA_X, EA_UX: with register number 0 and no update the base is zero.
EffectiveAddress(m, i) ==
  LET base == IF i.a = 0 /\ ~ i.update THEN 0 ELSE m.gpr[i.a]
  IN  Trunc(base + IF i.indexed THEN m.gpr[i.b] ELSE Extend(i.imm, W \div 2))

\* The value of a load, and the value a store puts into memory.
Loads(i, raw) ==
  IF i.float /\ i.size = 4 THEN ToDouble(raw) ELSE IF i.algebraic THEN Extend(raw, W \div 2) ELSE raw
Stores(m, i) ==
  IF ~ i.float THEN m.gpr[i.d] ELSE IF i.size = 4 THEN ToSingle(m.fpr[i.d]) ELSE m.fpr[i.d]

\* The *_impl functions.  The register of an update is written last.
EmulateMemory(m, i) ==
  LET ea     == EffectiveAddress(m, i)
      access == MemLoad(m.mem, ea, i.size, i.reverse)
      read   == [m EXCEPT !.mem = access.table]
      done   == CASE i.op = "load" /\ i.float   -> [read EXCEPT !.fpr[i.d] = Loads(i, access.value)]
                  [] i.op = "load" /\ ~ i.float -> [read EXCEPT !.gpr[i.d] = Loads(i, access.value)]
                  [] i.op = "store" -> [m EXCEPT !.mem = MemStore(@, ea, i.size, Stores(m, i), i.reverse)]
                  [] i.op = "dcbz"  -> [m EXCEPT !.mem = MemSet(@, ea - (ea % LineSize), 0, LineSize)]
      based  == IF i.update THEN [done EXCEPT !.gpr[i.a] = ea] ELSE done
  IN  [based EXCEPT !.pc = Trunc(@ + 4)]

\* The *_translate functions of the loads and of dcbz, of the stores, and of the indexed
\* forms of both.  stfsu gets the length of a double.  lwzux sets neither the length nor
\* the kind of access, which stay those of the instruction decoded before it in the same
\* slot.  No translation reverses bytes, and stwbrx has no unit at all.
Decoded(i) ==
  [size |-> i.size, write |-> i.op # "load", algebraic |-> i.algebraic,
   nullRA |-> i.a = 0 /\ ~ i.update, decoded |-> TRUE]
DecodedStore(i) ==
  [Decoded(i) EXCEPT !.size = IF i.float /\ @ = 4 /\ i.update THEN 8 ELSE @]
DecodedLoadX(i, slot) ==
  LET lwzux == i.size = 4 /\ ~ i.float /\ i.update
  IN  [Decoded(i) EXCEPT !.size  = IF lwzux THEN slot.size ELSE @,
                         !.write = IF lwzux THEN slot.write ELSE @,
                         !.nullRA = i.a = 0 /\ (~ i.update \/ i.float)]
DecodedStoreX(i) == [Decoded(i) EXCEPT !.decoded = ~ (i.size = 4 /\ i.reverse)]
TranslateMemory(i, slot) ==
  CASE i.op = "store" /\ i.indexed   -> DecodedStoreX(i)
    [] i.op = "store" /\ ~ i.indexed -> DecodedStore(i)
    [] i.op = "load" /\ i.indexed    -> DecodedLoadX(i, slot)
    [] i.op = "dcbz" \/ (i.op = "load" /\ ~ i.indexed) -> Decoded(i)

\* The bytes at an address, and a store into them.
ReadBytes(mem, addr, n) == [k \in 1 .. n |-> mem[addr + k - 1]]
WriteBytes(mem, addr, bytes) ==
  [a \in DOMAIN mem |-> IF a - addr \in 0 .. Len(bytes) - 1 THEN bytes[a - addr + 1] ELSE mem[a]]

\* LoadStoreUnit::Load and Store: the bytes in the first line, and how many are left.
FirstSize(addr, size) ==
  LET room == LineSize - (addr % LineSize)
  IN  IF addr % size # 0 /\ room < size THEN room ELSE size
NextLine(addr) == addr - (addr % LineSize) + LineSize

LoadData(mem, addr, size) ==
  LET n == FirstSize(addr, size)
  IN  ReadBytes(mem, addr, n) \o ReadBytes(mem, NextLine(addr), size - n)

\* The result of a load (the first switch of OnFrontEdge on the answer of the cache).
LoadResult(data, di, float) ==
  LET value == ValueOf(data)
  IN  CASE di.algebraic -> Extend(value, W \div 2)
        [] ~ di.algebraic /\ float /\ di.size = 4 -> ToDouble(value)
        [] ~ di.algebraic /\ ~ (float /\ di.size = 4) -> value

\* The bytes of a store.  The second part is shifted to the front before the conversion.
StoreData(data, size, float) ==
  BytesOf(IF float /\ size = 4 THEN ToSingle(data) ELSE data, size)
StoreParts(mem, addr, size, data, float) ==
  LET n    == FirstSize(addr, size)
      msb  == SubSeq(StoreData(data, size, float), 1, n)
      lsb  == SubSeq(StoreData((data * Byte ^ n) % 2 ^ (2 * W), size, float), 1, size - n)
      once == WriteBytes(mem, addr, msb)
  IN  IF n = size THEN once ELSE WriteBytes(once, NextLine(addr), lsb)

\* The instruction in order: operands, address, access, write back.
SimulateMemory(r, i, slot) ==
  LET di == TranslateMemory(i, slot)
      offset == IF i.indexed THEN r.gpr[i.b] ELSE Extend(i.imm, W \div 2)
      ea     == IF di.nullRA THEN offset ELSE Trunc(r.gpr[i.a] + offset)
      data   == IF i.float THEN r.fpr[i.d] ELSE r.gpr[i.d]
      zeroes == [k \in 1 .. LineSize |-> 0]
      result == LoadResult(LoadData(r.mem, ea, di.size), di, i.float)
      done   == CASE i.op = "dcbz" -> [r EXCEPT !.mem = WriteBytes(@, ea - (ea % LineSize), zeroes)]
                  [] i.op # "dcbz" /\ di.write ->
                       [r EXCEPT !.mem = StoreParts(@, ea, di.size, data, i.float)]
                  [] ~ di.write /\ i.float   -> [r EXCEPT !.fpr[i.d] = result]
                  [] ~ di.write /\ ~ i.float -> [r EXCEPT !.gpr[i.d] = result]
      based  == IF i.update THEN [done EXCEPT !.gpr[i.a] = ea] ELSE done
  IN  [based EXCEPT !.pc = Trunc(@ + 4)]
=============================================================================
