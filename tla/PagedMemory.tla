---------------------------- MODULE PagedMemory ----------------------------
(***************************************************************************)
(* The memory of the emulator: pages that are allocated when they are      *)
(* first touched, found through a hash table of hash tables whose slots    *)
(* are chains.  A table maps a slot to its chain; a secondary table that   *)
(* does not exist yet is one with empty chains.  A byte has W / 4 bits, so *)
(* that a word has four of them and a double word eight.                   *)
(***************************************************************************)
EXTENDS MachineWord, SequencesExt

CONSTANTS PageSize,                      \* MEMORY_PAGE_SIZE
          Primary, Secondary             \* sizes of the two tables
ASSUME TableSizes == {PageSize, Primary, Secondary} \subseteq Nat \ {0}

Byte == 2 ^ (W \div 4)                   \* bytes are the integers below it

\* The n low bytes of a value, the most significant one first, and back.
BytesOf(v, n) == [k \in 1 .. n |-> (v \div Byte ^ (n - k)) % Byte]
ValueOf(bytes) == FoldLeft(LAMBDA v, b : v * Byte + b, 0, bytes)

Hash1(addr) == (addr \div PageSize) % Primary
Hash2(addr) == ((addr \div PageSize) \div Primary) % Secondary
Slot(addr)  == <<Hash1(addr), Hash2(addr)>>
PageAddr(addr) == addr - (addr % PageSize)
EmptyTable == [slot \in (0 .. Primary - 1) \X (0 .. Secondary - 1) |-> << >>]

\* mem_search_page: the first entry of the chain with the address of the page, or 0.
SearchPage(table, addr) ==
  LET chain == table[Slot(addr)]
      found == {k \in DOMAIN chain : chain[k].addr = PageAddr(addr)}
  IN  IF found = {} THEN 0 ELSE Min(found)

\* (Mutant: a new page replaces the chain of its slot.)
GetPageDropsChain(table, addr) ==
  IF SearchPage(table, addr) # 0 THEN table
  ELSE [table EXCEPT ![Slot(addr)] =
          <<[addr |-> PageAddr(addr), storage |-> [o \in 0 .. PageSize - 1 |-> 0]]>>]

\* mem_get_page: a page that is not there is allocated, cleared and put first.
GetPage(table, addr) ==
  IF SearchPage(table, addr) # 0 THEN table
  ELSE [table EXCEPT ![Slot(addr)] =
          <<[addr |-> PageAddr(addr), storage |-> [o \in 0 .. PageSize - 1 |-> 0]]>> \o @]

\* memcpy to and from the storage of the page of an address.
Stored(table, addr, bytes) ==
  LET k == SearchPage(table, addr)
      offset == addr % PageSize
  IN  [table EXCEPT ![Slot(addr)][k].storage =
         [o \in 0 .. PageSize - 1 |->
            IF o - offset \in 0 .. Len(bytes) - 1 THEN bytes[o - offset + 1] ELSE @[o]]]
Loaded(table, addr, n) ==
  LET k == SearchPage(table, addr)
  IN  [b \in 1 .. n |-> table[Slot(addr)][k].storage[(addr % PageSize) + b - 1]]

\* mem_read_byte ... mem_write_dword_byte_reverse: an access that stays in its page, as
\* the code assumes.  A read may allocate the page.
InPage(addr, n) == (addr % PageSize) + n <= PageSize
InOrder(bytes, reverse) == IF reverse THEN Reverse(bytes) ELSE bytes
MemLoad(table, addr, n, reverse) ==
  LET t == GetPage(table, addr)
  IN  [table |-> t, value |-> ValueOf(InOrder(Loaded(t, addr, n), reverse))]
MemStore(table, addr, n, value, reverse) ==
  Stored(GetPage(table, addr), addr, InOrder(BytesOf(value, n), reverse))

\* The pieces in which mem_read, mem_write and mem_set move size bytes: up to the end of
\* the first page, whole pages, the rest.
Pieces(addr, size) ==
  LET offset == addr % PageSize
      count  == IF size <= 0 THEN 0 ELSE (offset + size + PageSize - 1) \div PageSize
      from(k) == IF k = 1 THEN 0 ELSE (k - 1) * PageSize - offset
  IN  [k \in 1 .. count |->
         [from |-> from(k), size |-> (IF k = count THEN size ELSE from(k + 1)) - from(k)]]

MemWrite(table, addr, bytes) ==
  LET write(t, p) == Stored(GetPage(t, addr + p.from), addr + p.from,
                            SubSeq(bytes, p.from + 1, p.from + p.size))
  IN  FoldLeft(write, table, Pieces(addr, Len(bytes)))
MemSet(table, addr, value, size) == MemWrite(table, addr, [k \in 1 .. size |-> value])
MemRead(table, addr, size) ==
  LET read(r, p) == LET t == GetPage(r.table, addr + p.from)
                    IN  [table |-> t, bytes |-> r.bytes \o Loaded(t, addr + p.from, p.size)]
  IN  FoldLeft(read, [table |-> table, bytes |-> << >>], Pieces(addr, size))

\* What the table holds at an address: zero where no page is.
Contents(table, addr) ==
  LET k == SearchPage(table, addr)
  IN  IF k = 0 THEN 0 ELSE table[Slot(addr)][k].storage[addr % PageSize]
=============================================================================
