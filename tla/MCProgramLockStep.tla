------------------------- MODULE MCProgramLockStep -------------------------
(* Words of eight bits (two condition fields, bytes of two bits) and pages of two lines. *)
EXTENDS ProgramLockStep

Base == [op |-> "sc", d |-> 3, a |-> 4, b |-> 5, c |-> 3, imm |-> 0, rc |-> FALSE, single |-> FALSE,
         bo |-> 0, bi |-> 0, aa |-> FALSE, lk |-> FALSE, crf |-> 0, crs |-> 0, crm |-> {}, spr |-> "lr",
         size |-> 4, algebraic |-> FALSE, float |-> FALSE, update |-> FALSE, indexed |-> FALSE,
         reverse |-> FALSE]
Op(name_) == [Base EXCEPT !.op = name_]

\* The loaded image: bytes unlike their neighbours, with a zero at 10.
Image == [k \in 1 .. 20 |-> IF k = 11 THEN 0 ELSE 1 + ((k + k \div 3) % 3)]
Zeroes == [k \in {0, 3, 4, 5, 6, 7} |-> 0]
Start(gpr) == [gpr |-> gpr, fpr |-> [k \in 3 .. 5 |-> 0], cr |-> 165, lr |-> 6, ctr |-> 1, pc |-> 8,
               image |-> << >>]

\* Branches on the first and the last bit, with every meaning of BO; the logic of any two
\* bits; the moves.
BOs == {2 * k : k \in 0 .. 15}
BranchForms ==
  {[Op("bc") EXCEPT !.bo = bo, !.bi = bi, !.aa = aa, !.lk = lk, !.imm = imm] :
     bo \in BOs, bi \in {0, 7}, aa, lk \in BOOLEAN, imm \in {1, 3}}
  \cup {[Op(n) EXCEPT !.bo = bo, !.bi = bi, !.lk = lk] :
          n \in {"bclr", "bcctr"}, bo \in BOs, bi \in {1, 6}, lk \in BOOLEAN}
  \cup {[Op("b") EXCEPT !.aa = aa, !.lk = lk, !.imm = imm] : aa, lk \in BOOLEAN, imm \in {5, 13}}
LogicForms == {[Op(n) EXCEPT !.d = d, !.a = a, !.b = b] :
                 n \in CRLogical, d \in {0, 2, 7}, a \in {1, 2, 7}, b \in {2, 4}}
MoveForms ==
  {[Op(n) EXCEPT !.spr = s] : n \in {"mfspr", "mtspr"}, s \in {"lr", "ctr"}}
  \cup {Op("mfcr"), Op("mftb")}
  \cup {[Op("mtcrf") EXCEPT !.crm = m] : m \in SUBSET {0, 1}}
  \cup {[Op("mcrf") EXCEPT !.crf = f, !.crs = 1 - f] : f \in {0, 1}}
Control ==
  [starts |-> {[Start([Zeroes EXCEPT ![3] = v]) EXCEPT !.cr = cr, !.ctr = ctr, !.lr = lr] :
                 v \in {0, 180}, cr \in {0, 33, 165, 255}, ctr \in {0, 1, 2, 255}, lr \in {6, 255}},
   forms |-> BranchForms \cup LogicForms \cup MoveForms, length |-> 1]

\* Every floating point operation on small, large, negative numbers, fractions and NaN.
SingleForms == {[Op(n) EXCEPT !.single = TRUE] : n \in TwoSources \cup Fused \cup {"fmul"}}
FloatForms ==
  {Op(n) : n \in FloatOps} \cup SingleForms \cup {[Op("fcmpu") EXCEPT !.crf = 1]}
  \cup {[i EXCEPT !.rc = TRUE] : i \in SingleForms \cup {Op(n) : n \in {"fadd", "fmr", "frsp", "mtfsf"}}}
Numbers == {0, 3, 256, 1000, NaN, NaN + 5, 2 ^ (2 * W) - 700}
Floats ==
  [starts |-> {[Start(Zeroes) EXCEPT !.fpr = f] : f \in [3 .. 5 -> Numbers]},
   forms |-> FloatForms, length |-> 1]

\* Three accesses of any size, in the lines and pages of a small memory.
Kinds == {[Op("load") EXCEPT !.size = n] : n \in {1, 2, 4}}
         \cup {[Op("store") EXCEPT !.size = n] : n \in {1, 2, 4}}
Floating == {[Op(n) EXCEPT !.float = TRUE, !.size = 8] : n \in {"load", "store"}}
            \cup {[Op("load") EXCEPT !.float = TRUE]}
MemoryForms ==
  Kinds \cup {[Op("load") EXCEPT !.size = 2, !.algebraic = TRUE]} \cup Floating
  \cup {[i EXCEPT !.indexed = TRUE] : i \in Kinds}
  \cup {[Op("load") EXCEPT !.size = 2, !.update = TRUE, !.imm = 6],
        [Op("store") EXCEPT !.update = TRUE, !.indexed = TRUE, !.d = 5],
        [Op("store") EXCEPT !.a = 0, !.imm = 5], [Op("store") EXCEPT !.float = TRUE, !.a = 6, !.imm = 4], [Op("dcbz") EXCEPT !.indexed = TRUE]}
Memory ==
  [starts |-> {[Start([Zeroes EXCEPT ![3] = 228, ![4] = base, ![5] = offset]) EXCEPT
                  !.fpr = [k \in 3 .. 5 |-> 57005], !.image = image] :
                 base \in {0, 7, 20}, offset \in {3, 16}, image \in {Image, << >>}},
   forms |-> MemoryForms, length |-> 3]

\* A system call, and what comes after it.
Calls ==
  [starts |-> {[Start([k \in {0, 3, 4, 5, 6, 7} |->
                  CASE k = 0 -> number [] k = 3 -> 8 [] k = 4 -> addr [] k = 5 -> 3 [] k = 6 -> 21 [] k = 7 -> 0])
                  EXCEPT !.image = Image] :
                 number \in {1, 2, 3, 4, 5, 6, 19, 20, 43, 45, 62, 108, 136, 140, 222}, addr \in {0, 14}},
   forms |-> {Op("sc"), [Op("load") EXCEPT !.d = 7], [Op("mtspr") EXCEPT !.spr = "ctr"]}, length |-> 3]

AllPrograms == [control |-> Control, float |-> Floats, memory |-> Memory, calls |-> Calls]
=============================================================================
