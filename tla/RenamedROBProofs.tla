-------------------------- MODULE RenamedROBProofs --------------------------
(***************************************************************************)
(* The rename tables follow the reorder buffer through every sequence of   *)
(* Decode, Retire and Flush, for every number of registers, of rename      *)
(* buffers and of entries, and for instructions with any number of         *)
(* destinations.                                                           *)
(***************************************************************************)
EXTENDS RenamedROB, RenameTableProofs, RingQueueProofs

USE BindingAssumption

\* What is true of 0 and passes from each number to the next is true up to N.
LEMMA Counting ==
  ASSUME NEW N \in Nat, NEW S, 0 \in S, \A n \in 0 .. N - 1 : n \in S => n + 1 \in S
  PROVE  \A n \in 0 .. N : n \in S
<1> SUFFICES ASSUME (0 .. N) \ S # {} PROVE FALSE
  OBVIOUS
<1> DEFINE less == OpToRel(<, Nat)
           T == (0 .. N) \ S
<1>1. \A m, n \in Nat : <<m, n>> \in less <=> m < n BY DEF OpToRel
<1>2. IsWellFoundedOn(less, Nat) BY NatLessThanWellFounded
<1>3. T \subseteq Nat /\ T # {} OBVIOUS
<1> HIDE DEF less, T
<1>4. PICK m \in T : \A n \in T : ~ (<<n, m>> \in less) BY <1>2, <1>3, WFMin
<1>5. m \in Nat /\ \A n \in T : ~ (n < m) BY <1>1, <1>3, <1>4
<1>6. m # 0 /\ m \in 0 .. N /\ m \notin S BY <1>4 DEF T
<1>7. m - 1 \in 0 .. N - 1 /\ m - 1 \notin T BY <1>5, <1>6
<1>8. m - 1 \in S BY <1>7 DEF T
<1> QED BY <1>6, <1>7, <1>8

\* A loop defines a function of the number of turns made.
IsLoop(f, N, a, G) == f = [n \in 0 .. N |-> IF n = 0 THEN a ELSE G[<<n, f[n - 1]>>]]

LEMMA LoopExists ==
  ASSUME NEW N \in Nat, NEW a, NEW G
  PROVE  \E f : IsLoop(f, N, a, G)
<1> DEFINE IsRun(f, M) == IsLoop(f, M, a, G)
           S == {M \in 0 .. N : \E f : IsRun(f, M)}
<1>1. 0 \in S
  <2> DEFINE g == [n \in 0 .. 0 |-> a]
  <2>1. g = [n \in 0 .. 0 |-> g[n]] /\ \A n \in 0 .. 0 : n = 0 /\ g[n] = a OBVIOUS
  <2> HIDE DEF g
  <2>2. IsRun(g, 0) BY <2>1 DEF IsLoop
  <2> QED BY <2>2
<1>2. ASSUME NEW M \in 0 .. N - 1, M \in S PROVE M + 1 \in S
  <2>1. PICK f : IsRun(f, M) BY <1>2
  <2> DEFINE g == [n \in 0 .. M + 1 |-> IF n = M + 1 THEN G[<<n, f[M]>>] ELSE f[n]]
  <2>2. \A n \in 0 .. M + 1 : g[n] = IF n = 0 THEN a ELSE G[<<n, g[n - 1]>>]
    <3> SUFFICES ASSUME NEW n \in 0 .. M + 1
                 PROVE  g[n] = IF n = 0 THEN a ELSE G[<<n, g[n - 1]>>]
      OBVIOUS
    <3>1. CASE n = M + 1
      <4>1. n # 0 /\ n - 1 = M /\ g[M] = f[M] BY <3>1
      <4> QED BY <3>1, <4>1
    <3>2. CASE n # M + 1
      <4>1. n \in 0 .. M /\ g[n] = f[n] BY <3>2
      <4>2. f[n] = IF n = 0 THEN a ELSE G[<<n, f[n - 1]>>] BY <2>1, <4>1 DEF IsLoop
      <4>3. n # 0 => g[n - 1] = f[n - 1] BY <4>1
      <4> QED BY <4>1, <4>2, <4>3
    <3> QED BY <3>1, <3>2
  <2>3. g = [n \in 0 .. M + 1 |-> g[n]] OBVIOUS
  <2> HIDE DEF g
  <2>4. IsRun(g, M + 1) BY <2>2, <2>3 DEF IsLoop
  <2>5. M + 1 \in 0 .. N OBVIOUS
  <2> HIDE DEF IsRun
  <2> QED BY <2>4, <2>5
<1> HIDE DEF S
<1>3. N \in S BY <1>1, <1>2, Counting
<1> QED BY <1>3 DEF S

-----------------------------------------------------------------------------
(***************************************************************************)
(* The destinations that the tables hold: for each register, its list is   *)
(* that of the destinations in L, oldest first.                            *)
(***************************************************************************)
Destination == [entry : Nat, place : Nat, reg : Regs, tag : Tag]

IsOrderOf(s, L, r) ==
  /\ \A d \in L : d.reg = r => \E k \in 1 .. Len(s) : s[k] = d.tag
  /\ \A k \in 1 .. Len(s) : \E d \in L : d.reg = r /\ s[k] = d.tag
  /\ \A d, e \in L : \A k, l \in 1 .. Len(s) :
       d.reg = r /\ e.reg = r /\ s[k] = d.tag /\ s[l] = e.tag => (Older(d, e) <=> k < l)

OrdersOf(v, L) == \A r \in Regs : IsOrderOf(v[r], L, r)
Follows(b, L) == L \subseteq Destination /\ \E v : Represents(b, v) /\ OrdersOf(v, L)

\* Older is a strict order, total on the places of the reorder buffer.
LEMMA OlderIsOrder ==
  ASSUME NEW d \in Destination, NEW e \in Destination
  PROVE  /\ ~ (Older(d, e) /\ Older(e, d))
         /\ ~ Older(d, e) /\ ~ Older(e, d) => d.entry = e.entry /\ d.place = e.place
         /\ ~ Older(d, d)
  BY DEF Older, Destination

\* No two versions of a register have the same buffer.
LEMMA VersionsDistinct ==
  ASSUME NEW b, NEW v, Represents(b, v), NEW r \in Regs
  PROVE  /\ v[r] \in Seq(Tag) /\ b.reg \in [Tag -> Regs \cup {None}]
         /\ \A k, l \in 1 .. Len(v[r]) : v[r][k] = v[r][l] => k = l
         /\ \A k \in 1 .. Len(v[r]) : v[r][k] \in Tag /\ b.reg[v[r][k]] = r
  BY DEF Represents, IsListOf, Binding

\* An allocation for an instruction younger than all others.
LEMMA AddNewest ==
  ASSUME NEW b, NEW L, Follows(b, L), NEW d \in Destination, b.reg[d.tag] = None,
         \A e \in L : Older(e, d)
  PROVE  Follows(AllocateAt(b, d.reg, d.tag), L \cup {d})
<1>1. PICK v : Represents(b, v) /\ OrdersOf(v, L) BY DEF Follows
<1>2. PICK r \in Regs, t \in Tag : d.reg = r /\ d.tag = t BY DEF Destination
<1> DEFINE w == [v EXCEPT ![r] = Append(@, t)]
           M == L \cup {d}
<1>3. /\ v[r] \in Seq(Tag) /\ v \in [Regs -> Seq(Tag)]
      /\ \A k \in 1 .. Len(v[r]) : v[r][k] # t
  BY <1>1, <1>2, VersionsDistinct DEF Represents
<1>4. Represents(AllocateAt(b, r, t), w) BY <1>1, <1>2, AllocateRepresents
<1>5. \A e \in L : e \in Destination BY DEF Follows
<1>6. IsOrderOf(Append(v[r], t), M, r)
  <2> DEFINE s == v[r]
             u == Append(s, t)
  <2>1. /\ Len(u) = Len(s) + 1 /\ Len(s) \in Nat /\ u[Len(s) + 1] = t
        /\ \A k \in 1 .. Len(s) : u[k] = s[k] /\ u[k] # t
    BY <1>3
  <2>2. IsOrderOf(s, L, r) BY <1>1 DEF OrdersOf
  <2>3. \A e \in L : e.reg = r => e.tag # t BY <1>3, <2>2 DEF IsOrderOf
  <2> HIDE DEF s, u
  <2>4. ASSUME NEW e \in M, e.reg = r PROVE \E k \in 1 .. Len(u) : u[k] = e.tag
    <3>1. CASE e = d BY <1>2, <2>1, <3>1
    <3>2. CASE e \in L BY <2>1, <2>2, <2>4, <3>2 DEF IsOrderOf
    <3> QED BY <3>1, <3>2
  <2>5. ASSUME NEW k \in 1 .. Len(u) PROVE \E e \in M : e.reg = r /\ u[k] = e.tag
    <3>1. CASE k = Len(s) + 1 BY <1>2, <2>1, <3>1
    <3>2. CASE k # Len(s) + 1
      <4>1. k \in 1 .. Len(s) /\ u[k] = s[k] BY <2>1, <3>2
      <4> QED BY <2>2, <4>1 DEF IsOrderOf
    <3> QED BY <3>1, <3>2
  <2>6. ASSUME NEW e \in M, NEW f \in M, NEW k \in 1 .. Len(u), NEW l \in 1 .. Len(u),
               e.reg = r, f.reg = r, u[k] = e.tag, u[l] = f.tag
        PROVE  Older(e, f) <=> k < l
    <3>0. \A h \in M, j \in 1 .. Len(u) : h.reg = r /\ u[j] = h.tag =>
            \/ h = d /\ j = Len(s) + 1
            \/ h \in L /\ j \in 1 .. Len(s) /\ s[j] = h.tag
      BY <1>2, <2>1, <2>3
    <3>1. CASE e = d /\ f = d
      <4>1. k = l BY <2>1, <2>6, <3>1, <1>2
      <4> QED BY <2>1, <3>1, <4>1, OlderIsOrder
    <3>2. CASE e = d /\ f \in L
      <4>1. k = Len(s) + 1 /\ l \in 1 .. Len(s) BY <1>2, <2>1, <2>3, <2>6, <3>2
      <4>2. Older(f, d) /\ f \in Destination BY <1>5, <3>2
      <4> QED BY <2>1, <3>2, <4>1, <4>2, OlderIsOrder
    <3>3. CASE e \in L /\ f = d
      <4>1. l = Len(s) + 1 /\ k \in 1 .. Len(s) BY <1>2, <2>1, <2>3, <2>6, <3>3
      <4> QED BY <2>1, <3>3, <4>1
    <3>4. CASE e \in L /\ f \in L
      <4>1. k \in 1 .. Len(s) /\ l \in 1 .. Len(s) /\ s[k] = e.tag /\ s[l] = f.tag
        BY <2>1, <2>3, <2>6, <3>4
      <4> QED BY <2>2, <2>6, <3>4, <4>1 DEF IsOrderOf
    <3> QED BY <3>1, <3>2, <3>3, <3>4
  <2>7. IsOrderOf(u, M, r) BY <2>4, <2>5, <2>6 DEF IsOrderOf
  <2> QED BY <2>7 DEF s, u
<1>7. ASSUME NEW q \in Regs PROVE IsOrderOf(w[q], M, q)
  <2>1. CASE q = r BY <1>3, <1>6, <2>1
  <2>2. CASE q # r
    <3>1. IsOrderOf(v[q], L, q) /\ w[q] = v[q] BY <1>1, <1>3, <2>2 DEF OrdersOf
    <3> QED BY <1>2, <2>2, <3>1 DEF IsOrderOf
  <2> QED BY <2>1, <2>2
<1>8. M \subseteq Destination BY <1>5
<1> HIDE DEF w, M
<1>9. Follows(AllocateAt(b, r, t), M) BY <1>4, <1>7, <1>8 DEF Follows, OrdersOf
<1> QED BY <1>2, <1>9 DEF M

\* What is left of an order when the version t of the destination d leaves its end.
LEMMA OrderLosesOne ==
  ASSUME NEW L \in SUBSET Destination, NEW d \in L, NEW s \in Seq(Tag), NEW u \in Seq(Tag),
         IsOrderOf(s, L, d.reg), NEW m \in 1 .. Len(s), s[m] = d.tag, NEW shift \in 0 .. 1,
         Len(u) = Len(s) - 1, \A k \in 1 .. Len(u) : u[k] = s[k + shift],
         \A k \in 1 .. Len(s) : k # m => k - shift \in 1 .. Len(u),
         \A k \in 1 .. Len(u) : k + shift # m,
         \A k, l \in 1 .. Len(s) : s[k] = s[l] => k = l
  PROVE  IsOrderOf(u, L \ {d}, d.reg)
<1> DEFINE r == d.reg
           M == L \ {d}
<1>1. Len(s) \in Nat /\ Len(u) \in Nat OBVIOUS
<1>2. \A k \in 1 .. Len(u) : k + shift \in 1 .. Len(s) BY <1>1
<1>3. \A e \in M : e.reg = r => e.tag # s[m]
  <2> SUFFICES ASSUME NEW e \in M, e.reg = r, e.tag = s[m] PROVE FALSE
    OBVIOUS
  <2>1. ~ Older(d, e) /\ ~ Older(e, d) BY DEF IsOrderOf
  <2>2. d.entry = e.entry /\ d.place = e.place BY <2>1, OlderIsOrder
  <2>3. d = [entry |-> d.entry, place |-> d.place, reg |-> d.reg, tag |-> d.tag]
    BY DEF Destination
  <2>4. e = [entry |-> e.entry, place |-> e.place, reg |-> e.reg, tag |-> e.tag]
    BY DEF Destination
  <2> QED BY <2>2, <2>3, <2>4
<1>4. ASSUME NEW e \in M, e.reg = r PROVE \E k \in 1 .. Len(u) : u[k] = e.tag
  <2>1. PICK k \in 1 .. Len(s) : s[k] = e.tag BY <1>4 DEF IsOrderOf
  <2>2. k # m BY <1>3, <1>4, <2>1
  <2>3. k - shift \in 1 .. Len(u) BY <2>2
  <2>4. u[k - shift] = s[(k - shift) + shift] BY <2>3
  <2>5. (k - shift) + shift = k OBVIOUS
  <2> QED BY <2>1, <2>3, <2>4, <2>5
<1>5. ASSUME NEW k \in 1 .. Len(u) PROVE \E e \in M : e.reg = r /\ u[k] = e.tag
  <2>1. k + shift \in 1 .. Len(s) /\ u[k] = s[k + shift] /\ k + shift # m BY <1>2
  <2>2. PICK e \in L : e.reg = r /\ s[k + shift] = e.tag BY <2>1 DEF IsOrderOf
  <2>3. e # d BY <2>1, <2>2
  <2> QED BY <2>1, <2>2, <2>3
<1>6. ASSUME NEW e \in M, NEW f \in M, NEW k \in 1 .. Len(u), NEW l \in 1 .. Len(u),
             e.reg = r, f.reg = r, u[k] = e.tag, u[l] = f.tag
      PROVE  Older(e, f) <=> k < l
  <2>1. k + shift \in 1 .. Len(s) /\ l + shift \in 1 .. Len(s) BY <1>2
  <2>2. s[k + shift] = e.tag /\ s[l + shift] = f.tag BY <1>6
  <2>3. Older(e, f) <=> k + shift < l + shift BY <1>6, <2>1, <2>2 DEF IsOrderOf
  <2> QED BY <2>3
<1> QED BY <1>4, <1>5, <1>6 DEF IsOrderOf

\* The destination leaves the orders of the other registers as they are.
LEMMA OtherOrdersKept ==
  ASSUME NEW L, NEW d, NEW q, q # d.reg, NEW s, IsOrderOf(s, L, q)
  PROVE  IsOrderOf(s, L \ {d}, q)
  BY DEF IsOrderOf

\* The oldest writer of a register retires.
LEMMA RemoveOldest ==
  ASSUME NEW b, NEW L, Follows(b, L), NEW d \in L,
         \A e \in L : e.reg = d.reg /\ e # d => Older(d, e)
  PROVE  Follows(FreeRenameBuffer(b, d.tag), L \ {d})
<1>1. PICK v : Represents(b, v) /\ OrdersOf(v, L) BY DEF Follows
<1>2. L \in SUBSET Destination /\ d.reg \in Regs BY DEF Follows, Destination
<1>3. PICK r \in Regs : d.reg = r BY <1>2
<1>4. /\ v[r] \in Seq(Tag) /\ v \in [Regs -> Seq(Tag)]
      /\ \A k, l \in 1 .. Len(v[r]) : v[r][k] = v[r][l] => k = l
  BY <1>1, VersionsDistinct DEF Represents
<1>5. IsOrderOf(v[r], L, r) BY <1>1 DEF OrdersOf
<1>6. PICK k \in 1 .. Len(v[r]) : v[r][k] = d.tag BY <1>3, <1>5 DEF IsOrderOf
<1>7. k = 1
  <2> SUFFICES ASSUME k # 1 PROVE FALSE
    OBVIOUS
  <2>1. 1 \in 1 .. Len(v[r]) /\ 1 < k BY <1>4, <1>6
  <2>2. PICK e \in L : e.reg = r /\ v[r][1] = e.tag BY <1>5, <2>1 DEF IsOrderOf
  <2>3. e # d BY <1>4, <1>6, <2>1, <2>2
  <2>4. Older(d, e) /\ Older(e, d) BY <1>3, <1>5, <1>6, <2>1, <2>2, <2>3 DEF IsOrderOf
  <2> QED BY <1>2, <2>4, OlderIsOrder
<1> DEFINE s == v[r]
           u == Tail(s)
<1>8. /\ s # <<>> /\ Head(s) = d.tag /\ u \in Seq(Tag) /\ Len(u) = Len(s) - 1
      /\ \A i \in 1 .. Len(u) : u[i] = s[i + 1]
      /\ \A i \in 1 .. Len(s) : i # 1 => i - 1 \in 1 .. Len(u)
      /\ 1 \in 1 .. Len(s) /\ \A i \in 1 .. Len(u) : i + 1 # 1
  BY <1>4, <1>6, <1>7
<1>9. Represents(FreeRenameBuffer(b, d.tag), [v EXCEPT ![r] = Tail(@)])
  BY <1>1, <1>8, FreeOldestRepresents
<1>10. IsOrderOf(u, L \ {d}, r)
  <2>1. 1 \in 0 .. 1 /\ s[1] = d.tag BY <1>6, <1>7
  <2> HIDE DEF u
  <2> QED BY <1>2, <1>3, <1>4, <1>5, <1>8, <2>1, OrderLosesOne
<1> DEFINE w == [v EXCEPT ![r] = Tail(@)]
<1>11. ASSUME NEW q \in Regs PROVE IsOrderOf(w[q], L \ {d}, q)
  <2>1. CASE q = r BY <1>4, <1>10, <2>1
  <2>2. CASE q # r
    <3>1. IsOrderOf(v[q], L, q) /\ w[q] = v[q] BY <1>1, <1>4, <2>2 DEF OrdersOf
    <3> QED BY <1>3, <2>2, <3>1, OtherOrdersKept
  <2> QED BY <2>1, <2>2
<1> HIDE DEF w
<1> QED BY <1>2, <1>9, <1>11 DEF Follows, OrdersOf, w

\* The newest writer of a register is flushed.
LEMMA RemoveNewest ==
  ASSUME NEW b, NEW L, Follows(b, L), NEW d \in L,
         \A e \in L : e.reg = d.reg /\ e # d => Older(e, d)
  PROVE  Follows(FreeRenameBufferReverseOrder(b, d.tag), L \ {d})
<1>1. PICK v : Represents(b, v) /\ OrdersOf(v, L) BY DEF Follows
<1>2. L \in SUBSET Destination /\ d.reg \in Regs BY DEF Follows, Destination
<1>3. PICK r \in Regs : d.reg = r BY <1>2
<1>4. /\ v[r] \in Seq(Tag) /\ v \in [Regs -> Seq(Tag)]
      /\ \A k, l \in 1 .. Len(v[r]) : v[r][k] = v[r][l] => k = l
  BY <1>1, VersionsDistinct DEF Represents
<1>5. IsOrderOf(v[r], L, r) BY <1>1 DEF OrdersOf
<1>6. PICK k \in 1 .. Len(v[r]) : v[r][k] = d.tag BY <1>3, <1>5 DEF IsOrderOf
<1>0. PICK n \in Nat : n = Len(v[r]) BY <1>4
<1>7. k = n
  <2> SUFFICES ASSUME k # n PROVE FALSE
    OBVIOUS
  <2>1. n \in 1 .. Len(v[r]) /\ k < n BY <1>0, <1>6
  <2>2. PICK e \in L : e.reg = r /\ v[r][n] = e.tag BY <1>5, <2>1 DEF IsOrderOf
  <2>3. e # d BY <1>4, <1>6, <2>1, <2>2
  <2>4. Older(d, e) /\ Older(e, d) BY <1>3, <1>5, <1>6, <2>1, <2>2, <2>3 DEF IsOrderOf
  <2> QED BY <1>2, <2>4, OlderIsOrder
<1> DEFINE s == v[r]
           u == SubSeq(s, 1, n - 1)
<1>8. /\ s # <<>> /\ s[Len(s)] = d.tag /\ u \in Seq(Tag) /\ Len(u) = Len(s) - 1
      /\ \A i \in 1 .. Len(u) : u[i] = s[i]
  BY <1>0, <1>4, <1>6, <1>7
<1>9. /\ \A i \in 1 .. Len(u) : u[i] = s[i + 0]
      /\ \A i \in 1 .. Len(s) : i # n => i - 0 \in 1 .. Len(u)
      /\ \A i \in 1 .. Len(u) : i + 0 # n
  <2> HIDE DEF s, u
  <2> QED BY <1>0, <1>8 DEF s
<1>10. Represents(FreeRenameBufferReverseOrder(b, d.tag), [v EXCEPT ![r] = u])
  <2>1. [v EXCEPT ![r] = SubSeq(@, 1, Len(@) - 1)] = [v EXCEPT ![r] = u] BY <1>0, <1>4
  <2>2. Represents(FreeRenameBufferReverseOrder(b, v[r][Len(v[r])]),
                   [v EXCEPT ![r] = SubSeq(@, 1, Len(@) - 1)])
    BY <1>1, <1>8, FreeNewestRepresents
  <2> QED BY <1>8, <2>1, <2>2
<1>11. IsOrderOf(u, L \ {d}, r)
  <2>1. 0 \in 0 .. 1 /\ n \in 1 .. Len(s) /\ s[n] = d.tag BY <1>6, <1>7
  <2> HIDE DEF u
  <2> QED BY <1>2, <1>3, <1>4, <1>5, <1>8, <1>9, <2>1, OrderLosesOne
<1> DEFINE w == [v EXCEPT ![r] = u]
<1>12. ASSUME NEW q \in Regs PROVE IsOrderOf(w[q], L \ {d}, q)
  <2>1. CASE q = r BY <1>4, <1>11, <2>1
  <2>2. CASE q # r
    <3>1. IsOrderOf(v[q], L, q) /\ w[q] = v[q] BY <1>1, <1>4, <2>2 DEF OrdersOf
    <3> QED BY <1>3, <2>2, <3>1, OtherOrdersKept
  <2> QED BY <2>1, <2>2
<1> HIDE DEF w
<1> QED BY <1>2, <1>10, <1>12 DEF Follows, OrdersOf, w

\* When the oldest entry leaves, the others come one place nearer.
Later(d) == [d EXCEPT !.entry = @ + 1]

LEMMA Renumber ==
  ASSUME NEW b, NEW L, Follows(b, L), NEW M \in SUBSET Destination,
         \A d \in M : Later(d) \in L, \A e \in L : \E d \in M : e = Later(d)
  PROVE  Follows(b, M)
<1>1. PICK v : Represents(b, v) /\ OrdersOf(v, L) BY DEF Follows
<1>2. \A d \in M : Later(d).reg = d.reg /\ Later(d).tag = d.tag
  BY DEF Later, Destination
<1>3. \A d, e \in M : Older(Later(d), Later(e)) <=> Older(d, e)
  BY DEF Later, Destination, Older
<1>4. ASSUME NEW r \in Regs PROVE IsOrderOf(v[r], M, r)
  <2>1. IsOrderOf(v[r], L, r) BY <1>1 DEF OrdersOf
  <2>2. \A d \in M : d.reg = r => \E k \in 1 .. Len(v[r]) : v[r][k] = d.tag
    BY <1>2, <2>1 DEF IsOrderOf
  <2>3. \A k \in 1 .. Len(v[r]) : \E d \in M : d.reg = r /\ v[r][k] = d.tag
    BY <1>2, <2>1 DEF IsOrderOf
  <2>4. ASSUME NEW d \in M, NEW e \in M, NEW k \in 1 .. Len(v[r]), NEW l \in 1 .. Len(v[r]),
               d.reg = r, e.reg = r, v[r][k] = d.tag, v[r][l] = e.tag
        PROVE  Older(d, e) <=> k < l
    <3>1. Later(d) \in L /\ Later(e) \in L OBVIOUS
    <3>2. Later(d).reg = r /\ Later(d).tag = v[r][k] BY <1>2, <2>4
    <3>3. Later(e).reg = r /\ Later(e).tag = v[r][l] BY <1>2, <2>4
    <3>4. Older(Later(d), Later(e)) <=> k < l BY <2>1, <3>1, <3>2, <3>3 DEF IsOrderOf
    <3> QED BY <1>3, <3>4
  <2> QED BY <2>2, <2>3, <2>4 DEF IsOrderOf
<1> QED BY <1>1, <1>4 DEF Follows, OrdersOf

\* Each destination has a buffer of its own, and no other buffer is in use.
LEMMA BuffersAreDestinations ==
  ASSUME NEW b, NEW L, Follows(b, L)
  PROVE  /\ \A d \in L : d.tag \in Tag /\ b.reg[d.tag] = d.reg
         /\ \A d, e \in L : d.tag = e.tag => d = e
         /\ \A t \in Tag : b.reg[t] # None => \E d \in L : d.tag = t
<1>1. PICK v : Represents(b, v) /\ OrdersOf(v, L) BY DEF Follows
<1>2. L \in SUBSET Destination BY DEF Follows
<1>3. ASSUME NEW d \in L
      PROVE  d.tag \in Tag /\ b.reg[d.tag] = d.reg /\ d.reg \in Regs
  <2>1. PICK r \in Regs : d.reg = r BY <1>2 DEF Destination
  <2>2. PICK k \in 1 .. Len(v[r]) : v[r][k] = d.tag BY <1>1, <2>1 DEF OrdersOf, IsOrderOf
  <2> QED BY <1>1, <2>1, <2>2, VersionsDistinct
<1>4. ASSUME NEW d \in L, NEW e \in L, d.tag = e.tag PROVE d = e
  <2>1. PICK r \in Regs : d.reg = r /\ e.reg = r BY <1>3, <1>4
  <2>2. PICK k \in 1 .. Len(v[r]) : v[r][k] = d.tag BY <1>1, <2>1 DEF OrdersOf, IsOrderOf
  <2>3. ~ Older(d, e) /\ ~ Older(e, d) BY <1>1, <1>4, <2>1, <2>2 DEF OrdersOf, IsOrderOf
  <2>4. d.entry = e.entry /\ d.place = e.place BY <1>2, <2>3, OlderIsOrder
  <2>5. d = [entry |-> d.entry, place |-> d.place, reg |-> d.reg, tag |-> d.tag]
    BY <1>2 DEF Destination
  <2>6. e = [entry |-> e.entry, place |-> e.place, reg |-> e.reg, tag |-> e.tag]
    BY <1>2 DEF Destination
  <2> QED BY <1>4, <2>1, <2>4, <2>5, <2>6
<1>5. ASSUME NEW t \in Tag, b.reg[t] # None PROVE \E d \in L : d.tag = t
  <2>1. PICK r \in Regs : b.reg[t] = r BY <1>1, <1>5 DEF Represents, Binding
  <2>2. PICK k \in 1 .. Len(v[r]) : v[r][k] = t BY <1>1, <1>5, <2>1 DEF Represents, IsVersion
  <2> QED BY <1>1, <2>2 DEF OrdersOf, IsOrderOf
<1> QED BY <1>3, <1>4, <1>5

\* An allocated buffer is not free.
LEMMA RegisterIsNotNone ==
  ASSUME NEW b, NEW L, Follows(b, L), NEW d \in L
  PROVE  d.tag \in Tag /\ b.reg[d.tag] # None
<1>1. d.tag \in Tag /\ b.reg[d.tag] = d.reg BY BuffersAreDestinations
<1>2. d.reg \in Regs BY DEF Follows, Destination
<1> QED BY <1>1, <1>2

\* The counter is exact.
LEMMA CounterFollows ==
  ASSUME NEW b, NEW L, Follows(b, L)
  PROVE  /\ IsFiniteSet(L) /\ Cardinality(L) \in Nat
         /\ b.nfree = NTags - Cardinality(L)
<1> DEFINE U == Tag \ FreeTags(b)
           f == [d \in L |-> d.tag]
<1>1. f \in Injection(L, U) /\ f \in Surjection(L, U)
  <2>1. \A d \in L : d.tag \in U BY RegisterIsNotNone DEF FreeTags
  <2>2. f \in [L -> U] /\ \A d \in L : f[d] = d.tag BY <2>1
  <2>3. \A t \in U : \E d \in L : f[d] = t BY <2>2, BuffersAreDestinations DEF FreeTags
  <2>4. \A d, e \in L : f[d] = f[e] => d = e BY <2>2, BuffersAreDestinations
  <2> HIDE DEF f, U
  <2> QED BY <2>2, <2>3, <2>4 DEF Injection, IsInjective, Surjection
<1>2. IsFiniteSet(U) /\ IsFiniteSet(FreeTags(b)) /\ Cardinality(FreeTags(b)) \in Nat
  BY TagFinite, FS_Subset, FS_CardinalityType DEF FreeTags
<1>3. Cardinality(U) = NTags - Cardinality(FreeTags(b))
  <2>1. Tag \cap FreeTags(b) = FreeTags(b) BY DEF FreeTags
  <2> QED BY <2>1, TagFinite, FS_Difference
<1> HIDE DEF f, U
<1>4. IsFiniteSet(L) /\ Cardinality(L) = Cardinality(U) BY <1>1, <1>2, FS_Injection
<1>5. b.nfree = Cardinality(FreeTags(b)) BY DEF Follows, Represents
<1>6. Cardinality(U) \in Nat BY <1>2, FS_CardinalityType
<1> QED BY <1>2, <1>3, <1>4, <1>5, <1>6

-----------------------------------------------------------------------------
\* A register has at most as many versions as there are buffers.
LEMMA VersionsFit ==
  ASSUME NEW b, NEW v, Represents(b, v), NEW r \in Regs
  PROVE  Len(v[r]) \in 0 .. NTags
<1> DEFINE S == 1 .. Len(v[r])
           f == [k \in S |-> v[r][k]]
<1>1. /\ v[r] \in Seq(Tag) /\ \A k \in S : v[r][k] \in Tag
      /\ \A k, l \in S : v[r][k] = v[r][l] => k = l
  BY VersionsDistinct
<1>2. f \in Injection(S, Tag) BY <1>1 DEF Injection, IsInjective
<1> HIDE DEF f
<1>3. Cardinality(S) <= NTags BY <1>2, TagFinite, FS_Injection
<1>4. Cardinality(S) = Len(v[r]) BY <1>1, FS_Interval
<1> QED BY <1>1, <1>3, <1>4

\* The links from renames[r], followed to their end, are the list backwards and None.
Backwards(s) == [k \in 1 .. Len(s) + 1 |-> IF k <= Len(s) THEN s[Len(s) - k + 1] ELSE None]

LEMMA ChainIsBackwards ==
  ASSUME NEW b, NEW v, Represents(b, v), NEW r \in Regs
  PROVE  Chain(b, r) = Backwards(v[r])
<1> DEFINE s == v[r]
           m == Len(s)
           X(k) == IF k <= m THEN s[m - k + 1] ELSE None
           W(n) == [k \in 1 .. (IF n < m THEN n + 1 ELSE m + 1) |-> X(k)]
           body(w) == IF w[Len(w)] = None THEN w ELSE Append(w, b.prev[w[Len(w)]])
           IsWalk(f) == f = [n \in 0 .. NTags |-> IF n = 0 THEN <<b.renames[r]>>
                                                 ELSE body(f[n - 1])]
<1>1. /\ m \in Nat /\ m <= NTags /\ IsListOf(b, r, s)
      /\ \A k \in 1 .. m : s[k] \in Tag
  <2>1. IsListOf(b, r, v[r]) BY DEF Represents
  <2>2. Len(v[r]) \in 0 .. NTags BY VersionsFit
  <2>3. \A k \in 1 .. Len(v[r]) : v[r][k] \in Tag BY VersionsDistinct
  <2> QED BY <2>1, <2>2, <2>3
<1> HIDE DEF s, m
<1>2. W(0) = <<b.renames[r]>>
  <2>1. X(1) = b.renames[r]
    <3>1. m = 0 => b.renames[r] = None BY <1>1 DEF IsListOf, m
    <3>2. m > 0 => b.renames[r] = s[m] BY <1>1 DEF IsListOf, m
    <3> QED BY <1>1, <3>1, <3>2
  <2>2. (IF 0 < m THEN 0 + 1 ELSE m + 1) = 1 BY <1>1
  <2>3. W(0) = [k \in 1 .. 1 |-> X(k)] BY <2>2
  <2> HIDE DEF X
  <2>4. W(0) = [k \in 1 .. 1 |-> b.renames[r]] BY <2>1, <2>3
  <2>5. [k \in 1 .. 1 |-> b.renames[r]] = <<b.renames[r]>> OBVIOUS
  <2> QED BY <2>4, <2>5
<1>3. ASSUME NEW n \in 0 .. NTags - 1 PROVE body(W(n)) = W(n + 1)
  <2>1. CASE n < m
    <3> DEFINE w == [k \in 1 .. n + 1 |-> X(k)]
    <3>1. W(n) = w BY <2>1
    <3>2. X(n + 1) = s[m - n] /\ m - n \in 1 .. m BY <1>1, <2>1
    <3>3. X(n + 1) # None BY <1>1, <3>2 DEF Tag, None
    <3>4. b.prev[X(n + 1)] = X(n + 2)
      <4>1. m - n = 1 => b.prev[s[m - n]] = None BY <1>1, <3>2 DEF IsListOf, m
      <4>2. m - n > 1 => b.prev[s[m - n]] = s[m - n - 1] BY <1>1, <3>2 DEF IsListOf, m
      <4>3. m - n > 1 => X(n + 2) = s[m - n - 1] BY <1>1
      <4>4. m - n = 1 => X(n + 2) = None BY <1>1
      <4> QED BY <1>1, <2>1, <3>2, <4>1, <4>2, <4>3, <4>4
    <3>5. W(n + 1) = [k \in 1 .. n + 2 |-> X(k)]
      <4>1. (IF n + 1 < m THEN n + 1 + 1 ELSE m + 1) = n + 2 BY <1>1, <2>1
      <4> QED BY <4>1
    <3> HIDE DEF X
    <3>6. Len(w) = n + 1 /\ w[n + 1] = X(n + 1) OBVIOUS
    <3>7. Append(w, X(n + 2)) = [k \in 1 .. n + 2 |-> X(k)]
      <4>1. Append(w, X(n + 2)) = [k \in 1 .. n + 2 |-> IF k = n + 2 THEN X(n + 2) ELSE w[k]]
        OBVIOUS
      <4> QED BY <4>1
    <3> HIDE DEF w
    <3>8. body(w) = Append(w, X(n + 2)) BY <3>3, <3>4, <3>6
    <3> HIDE DEF W, body
    <3> QED BY <3>1, <3>5, <3>7, <3>8
  <2>2. CASE n >= m
    <3>1. W(n + 1) = W(n)
      <4>1. (IF n + 1 < m THEN n + 1 + 1 ELSE m + 1) = m + 1 BY <1>1, <2>2
      <4>2. (IF n < m THEN n + 1 ELSE m + 1) = m + 1 BY <1>1, <2>2
      <4> QED BY <4>1, <4>2
    <3> DEFINE w == [k \in 1 .. m + 1 |-> X(k)]
    <3>2. W(n) = w
      <4>1. (IF n < m THEN n + 1 ELSE m + 1) = m + 1 BY <1>1, <2>2
      <4> QED BY <4>1
    <3>3. X(m + 1) = None BY <1>1
    <3> HIDE DEF X
    <3>4. Len(w) = m + 1 /\ w[m + 1] = X(m + 1) BY <1>1
    <3> HIDE DEF w
    <3>5. body(w) = w BY <3>3, <3>4
    <3> HIDE DEF W, body
    <3> QED BY <3>1, <3>2, <3>5
  <2> QED BY <1>1, <2>1, <2>2
<1> HIDE DEF X, W, body
<1>4. \E f : IsWalk(f)
  <2> DEFINE f == [n \in 0 .. NTags |-> W(n)]
  <2>1. ASSUME NEW n \in 0 .. NTags
        PROVE  W(n) = IF n = 0 THEN <<b.renames[r]>> ELSE body(f[n - 1])
    <3>1. CASE n = 0 BY <1>2, <3>1
    <3>2. CASE n # 0
      <4>1. n - 1 \in 0 .. NTags - 1 /\ n - 1 \in 0 .. NTags /\ (n - 1) + 1 = n BY <3>2
      <4>2. body(W(n - 1)) = W(n) BY <1>3, <4>1
      <4>3. f[n - 1] = W(n - 1) BY <4>1
      <4> QED BY <3>2, <4>2, <4>3
    <3> QED BY <3>1, <3>2
  <2>2. IsWalk(f) BY <2>1
  <2> QED BY <2>2
<1> DEFINE f == CHOOSE f : IsWalk(f)
<1>5. IsWalk(f)
  <2> HIDE DEF IsWalk
  <2> QED BY <1>4
<1>6. Chain(b, r) = f[NTags] BY DEF Chain, body
<1> HIDE DEF f
<1>7. \A n \in 0 .. NTags : f[n] = W(n)
  <2> DEFINE S == {n \in 0 .. NTags : f[n] = W(n)}
  <2>1. 0 \in S
    <3>1. f[0] = <<b.renames[r]>> BY <1>5
    <3> QED BY <1>2, <3>1
  <2>2. ASSUME NEW n \in 0 .. NTags - 1, n \in S PROVE n + 1 \in S
    <3>1. n + 1 \in 0 .. NTags /\ n + 1 # 0 /\ (n + 1) - 1 = n OBVIOUS
    <3>2. f[n + 1] = body(f[n]) BY <1>5, <3>1
    <3> QED BY <1>3, <2>2, <3>1, <3>2
  <2> HIDE DEF S
  <2>3. \A n \in 0 .. NTags : n \in S BY <2>1, <2>2, Counting
  <2> QED BY <2>3 DEF S
<1>8. W(NTags) = Backwards(s)
  <2>1. (IF NTags < m THEN NTags + 1 ELSE m + 1) = m + 1 BY <1>1
  <2> QED BY <2>1 DEF W, X, Backwards, m
<1> QED BY <1>6, <1>7, <1>8 DEF s

\* Tables that follow destinations are what TablesFollowRob says of them.
ChainFollows(b, L, r) ==
  LET c == Chain(b, r)
      links == 1 .. Len(c) - 1
      W == {d \in L : d.reg = r}
  IN  /\ c[Len(c)] = None
      /\ {c[k] : k \in links} = {d.tag : d \in W}
      /\ \A d, e \in W, k, l \in links :
           c[k] = d.tag /\ c[l] = e.tag => (Older(d, e) <=> l < k)

LEMMA FollowsChain ==
  ASSUME NEW b, NEW L, Follows(b, L), NEW r \in Regs
  PROVE  ChainFollows(b, L, r)
<1>1. PICK v : Represents(b, v) /\ OrdersOf(v, L) BY DEF Follows
<1> DEFINE s == v[r]
           m == Len(s)
           c == Chain(b, r)
<1>2. m \in Nat BY <1>1, VersionsFit
<1>3. c = Backwards(s) BY <1>1, ChainIsBackwards
<1>4. IsOrderOf(s, L, r) BY <1>1 DEF OrdersOf
<1> HIDE DEF s, c
<1>5. Len(c) = m + 1 /\ \A k \in 1 .. m + 1 : c[k] = IF k <= m THEN s[m - k + 1] ELSE None
  BY <1>2, <1>3 DEF Backwards
<1> HIDE DEF m
<1>6. c[Len(c)] = None BY <1>2, <1>5
<1>7. \A k \in 1 .. m : c[k] = s[m - k + 1] /\ m - k + 1 \in 1 .. m BY <1>2, <1>5
<1>8. \A k \in 1 .. m : s[k] = c[m - k + 1] /\ m - k + 1 \in 1 .. m
  <2> TAKE k \in 1 .. m
  <2>1. m - k + 1 \in 1 .. m /\ m - (m - k + 1) + 1 = k BY <1>2
  <2> QED BY <1>7, <2>1
<1>9. {c[k] : k \in 1 .. m} = {d.tag : d \in {d \in L : d.reg = r}}
  <2>1. ASSUME NEW k \in 1 .. m PROVE \E d \in L : d.reg = r /\ d.tag = c[k]
    BY <1>4, <1>7 DEF IsOrderOf, m
  <2>2. ASSUME NEW d \in L, d.reg = r PROVE \E k \in 1 .. m : c[k] = d.tag
    <3>1. PICK k \in 1 .. m : s[k] = d.tag BY <1>4, <2>2 DEF IsOrderOf, m
    <3> QED BY <1>8, <3>1
  <2> QED BY <2>1, <2>2
<1>10. ASSUME NEW d \in L, NEW e \in L, NEW k \in 1 .. m, NEW l \in 1 .. m,
              d.reg = r, e.reg = r, c[k] = d.tag, c[l] = e.tag
       PROVE  Older(d, e) <=> l < k
  <2>1. s[m - k + 1] = d.tag /\ m - k + 1 \in 1 .. m BY <1>7, <1>10
  <2>2. s[m - l + 1] = e.tag /\ m - l + 1 \in 1 .. m BY <1>7, <1>10
  <2>3. Older(d, e) <=> m - k + 1 < m - l + 1 BY <1>4, <1>10, <2>1, <2>2 DEF IsOrderOf, m
  <2> QED BY <1>2, <2>3
<1>11. 1 .. Len(c) - 1 = 1 .. m BY <1>2, <1>5
<1> QED BY <1>6, <1>9, <1>10, <1>11 DEF c, ChainFollows

\* And the check of the source finds nothing to complain about.
LEMMA FollowsPrecondition ==
  ASSUME NEW b, NEW L, Follows(b, L)
  PROVE  Precondition(b)
<1>1. PICK v : Represents(b, v) /\ OrdersOf(v, L) BY DEF Follows
<1>2. ASSUME NEW r \in Regs
      PROVE  /\ Len(v[r]) \in Nat /\ Len(Chain(b, r)) = Len(v[r]) + 1
             /\ Chain(b, r)[Len(v[r]) + 1] = None /\ DOMAIN Chain(b, r) = 1 .. Len(v[r]) + 1
             /\ \A k \in 1 .. Len(v[r]) : /\ Chain(b, r)[k] = v[r][Len(v[r]) - k + 1]
                                          /\ Len(v[r]) - k + 1 \in 1 .. Len(v[r])
                                          /\ Chain(b, r)[k] \in Tag
                                          /\ b.reg[Chain(b, r)[k]] = r
  <2>1. Len(v[r]) \in Nat BY <1>1, VersionsFit
  <2>2. Chain(b, r) = Backwards(v[r]) BY <1>1, ChainIsBackwards
  <2>3. \A k \in 1 .. Len(v[r]) : v[r][k] \in Tag /\ b.reg[v[r][k]] = r
    BY <1>1, VersionsDistinct
  <2> QED BY <2>1, <2>2, <2>3 DEF Backwards
<1>3. ASSUME NEW r \in Regs, NEW i \in 1 .. Len(v[r]) + 1, NEW j \in 1 .. Len(v[r]) + 1,
             Chain(b, r)[i] = Chain(b, r)[j]
      PROVE  i = j
  <2>0. Len(v[r]) \in Nat /\ None \notin Tag BY <1>2 DEF None, Tag
  <2>1. i = Len(v[r]) + 1 <=> j = Len(v[r]) + 1
    <3>1. i # Len(v[r]) + 1 => Chain(b, r)[i] \in Tag BY <1>2, <2>0
    <3>2. j # Len(v[r]) + 1 => Chain(b, r)[j] \in Tag BY <1>2, <2>0
    <3>3. Chain(b, r)[Len(v[r]) + 1] = None BY <1>2
    <3> QED BY <1>3, <2>0, <3>1, <3>2, <3>3
  <2>2. CASE i # Len(v[r]) + 1
    <3>1. i \in 1 .. Len(v[r]) /\ j \in 1 .. Len(v[r]) BY <2>0, <2>1, <2>2
    <3>2. v[r][Len(v[r]) - i + 1] = v[r][Len(v[r]) - j + 1] BY <1>2, <1>3, <3>1
    <3>3. PICK k \in 1 .. Len(v[r]) : k = Len(v[r]) - i + 1 BY <1>2, <3>1
    <3>4. PICK l \in 1 .. Len(v[r]) : l = Len(v[r]) - j + 1 BY <1>2, <3>1
    <3>5. v[r][k] = v[r][l] BY <3>2, <3>3, <3>4
    <3>6. v[r][k] = v[r][l] => k = l BY <1>1, VersionsDistinct
    <3> QED BY <2>0, <3>1, <3>3, <3>4, <3>5, <3>6
  <2> QED BY <2>1, <2>2
<1>4. ASSUME NEW t \in Tag, b.reg[t] # None
      PROVE  b.reg[t] \in Regs /\ \E i \in DOMAIN Chain(b, b.reg[t]) : Chain(b, b.reg[t])[i] = t
  <2>1. PICK r \in Regs : b.reg[t] = r BY <1>1, <1>4 DEF Represents, Binding
  <2>2. PICK k \in 1 .. Len(v[r]) : v[r][k] = t BY <1>1, <1>4, <2>1 DEF Represents, IsVersion
  <2>3. Len(v[r]) \in Nat BY <1>2
  <2>4. PICK x \in 1 .. Len(v[r]) : x = Len(v[r]) - k + 1
    <3>1. Len(v[r]) - k + 1 \in 1 .. Len(v[r]) BY <2>3
    <3> QED BY <3>1
  <2>5. Chain(b, r)[x] = t
    <3>1. Len(v[r]) - x + 1 = k BY <2>3, <2>4
    <3>2. Chain(b, r)[x] = v[r][Len(v[r]) - x + 1] BY <1>2
    <3> QED BY <2>2, <3>1, <3>2
  <2>6. x \in DOMAIN Chain(b, r) BY <1>2, <2>3
  <2> QED BY <2>1, <2>5, <2>6
<1>5. \A r \in Regs : Len(Chain(b, r)) - 1 = Len(v[r]) BY <1>2
<1> QED BY <1>2, <1>3, <1>4, <1>5 DEF Precondition, Allocated

-----------------------------------------------------------------------------
(***************************************************************************)
(* The three loops over the destinations of one instruction, the one in    *)
(* place i of the reorder buffer.                                          *)
(***************************************************************************)
Place(i, e, j) == [entry |-> i, place |-> j, reg |-> e.regs[j], tag |-> e.tags[j]]

\* The destinations of L that are left after the first n of instruction i.
Left(L, i, n) == {d \in L : ~ (d.entry = i /\ d.place <= n)}

\* The destinations of L in place i are those of the entry e.
HoldsEntry(L, i, e) ==
  /\ \A j \in 1 .. Len(e.tags) : Place(i, e, j) \in L
  /\ \A d \in L : d.entry = i => \E j \in 1 .. Len(e.tags) : d = Place(i, e, j)

\* The sequences of an entry are as long as each other.
LEMMA EntryFields ==
  ASSUME NEW e \in Entries
  PROVE  /\ e.regs \in Seq(Regs) /\ e.tags \in Seq(Tag) /\ Len(e.tags) \in Nat
         /\ Len(e.tags) = Len(e.regs) /\ DOMAIN e.regs = 1 .. Len(e.tags)
<1>1. PICK f \in Forms \cup {<<>>} : e \in [regs : {f}, tags : [DOMAIN f -> Tag]]
  BY DEF Entries
<1>2. f \in Seq(Regs)
  <2>1. <<>> \in Seq(Regs) OBVIOUS
  <2> QED BY <2>1, FormsAssumption
<1>3. e.regs = f /\ e.tags \in [1 .. Len(f) -> Tag] BY <1>1, <1>2
<1>4. Len(f) \in Nat BY <1>2
<1>5. e.tags \in Seq(Tag) /\ Len(e.tags) = Len(f) BY <1>3, <1>4
<1> QED BY <1>2, <1>3, <1>4, <1>5

\* One turn of a loop that frees: only later destinations of the instruction are left.
LeavesLater(L, i, e, n) ==
  /\ Place(i, e, n + 1) \in Left(L, i, n)
  /\ Left(L, i, n + 1) = Left(L, i, n) \ {Place(i, e, n + 1)}
  /\ \A d \in Left(L, i, n) : d.entry = i /\ d # Place(i, e, n + 1) =>
       \E j \in n + 2 .. Len(e.tags) : d = Place(i, e, j)

LEMMA LeftOneLess ==
  ASSUME NEW L \in SUBSET Destination, NEW i \in Nat, NEW e \in Entries,
         HoldsEntry(L, i, e), NEW n \in 0 .. Len(e.tags) - 1
  PROVE  LeavesLater(L, i, e, n)
<1>0. Len(e.tags) \in Nat BY EntryFields
<1>1. n + 1 \in 1 .. Len(e.tags) BY <1>0
<1>2. Place(i, e, n + 1).place = n + 1 /\ Place(i, e, n + 1).entry = i BY DEF Place
<1>3. Place(i, e, n + 1) \in L BY <1>1 DEF HoldsEntry
<1>4. ASSUME NEW d \in L, d.entry = i
      PROVE  \E j \in 1 .. Len(e.tags) : d = Place(i, e, j) /\ d.place = j
  <2>1. PICK j \in 1 .. Len(e.tags) : d = Place(i, e, j) BY <1>4 DEF HoldsEntry
  <2> QED BY <2>1 DEF Place
<1>5. ASSUME NEW d \in Left(L, i, n), d.entry = i, d # Place(i, e, n + 1)
      PROVE  \E j \in n + 2 .. Len(e.tags) : d = Place(i, e, j) /\ d.place = j
  <2>1. PICK j \in 1 .. Len(e.tags) : d = Place(i, e, j) /\ d.place = j
    BY <1>4, <1>5 DEF Left
  <2>2. j > n /\ j # n + 1 BY <1>5, <2>1 DEF Left
  <2>3. j \in n + 2 .. Len(e.tags) BY <1>0, <2>2
  <2> QED BY <2>1, <2>3
<1>6. ASSUME NEW d \in Left(L, i, n + 1) PROVE d \in Left(L, i, n) \ {Place(i, e, n + 1)}
  <2>1. d \in L /\ ~ (d.entry = i /\ d.place <= n + 1) BY DEF Left
  <2>2. d # Place(i, e, n + 1) BY <1>2, <2>1
  <2>3. d.place \in Nat BY <2>1 DEF Destination
  <2> QED BY <2>1, <2>2, <2>3 DEF Left
<1>7. ASSUME NEW d \in Left(L, i, n), d # Place(i, e, n + 1) PROVE d \in Left(L, i, n + 1)
  <2>1. d \in L BY DEF Left
  <2>2. CASE d.entry # i BY <2>1, <2>2 DEF Left
  <2>3. CASE d.entry = i
    <3>1. PICK j \in n + 2 .. Len(e.tags) : d.place = j BY <1>5, <1>7, <2>3
    <3>2. ~ (d.place <= n + 1) BY <1>0, <3>1
    <3> QED BY <2>1, <3>2 DEF Left
  <2> QED BY <2>2, <2>3
<1>8. Place(i, e, n + 1) \in Left(L, i, n) BY <1>2, <1>3 DEF Left
<1> QED BY <1>5, <1>6, <1>7, <1>8 DEF LeavesLater

\* Before the first turn and after the last one.
LEMMA LeftEnds ==
  ASSUME NEW L \in SUBSET Destination, NEW i \in Nat, NEW e \in Entries, HoldsEntry(L, i, e)
  PROVE  Left(L, i, 0) = L /\ Left(L, i, Len(e.tags)) = {d \in L : d.entry # i}
<1>0. Len(e.tags) \in Nat BY EntryFields
<1>1. ASSUME NEW d \in L, d.entry = i PROVE d.place \in 1 .. Len(e.tags)
  <2>1. PICK j \in 1 .. Len(e.tags) : d = Place(i, e, j) BY <1>1 DEF HoldsEntry
  <2> QED BY <2>1 DEF Place
<1>2. \A d \in L : d.entry = i => ~ (d.place <= 0) /\ d.place <= Len(e.tags) BY <1>0, <1>1
<1> QED BY <1>2 DEF Left

\* Retire(): the destinations of the oldest instruction leave in their order.
LEMMA RetireEntryFollows ==
  ASSUME NEW b, NEW L, Follows(b, L), NEW i \in Nat, NEW e \in Entries, HoldsEntry(L, i, e),
         \A d \in L : i <= d.entry
  PROVE  Follows(RetireEntry(b, e), {d \in L : d.entry # i})
<1> DEFINE N == Len(e.tags)
           IsRun(f) == f = [n \in 0 .. N |->
                              IF n = 0 THEN b ELSE FreeRenameBuffer(f[n - 1], e.tags[n])]
           G == [x \in (0 .. N) \X Binding |-> FreeRenameBuffer(x[2], e.tags[x[1]])]
<1>0. N \in Nat /\ L \in SUBSET Destination BY EntryFields DEF Follows
<1> HIDE DEF N
<1>1. ASSUME NEW n \in 0 .. N - 1, NEW c, Follows(c, Left(L, i, n))
      PROVE  Follows(FreeRenameBuffer(c, e.tags[n + 1]), Left(L, i, n + 1))
  <2> DEFINE d == Place(i, e, n + 1)
  <2>1. /\ d \in Left(L, i, n) /\ Left(L, i, n + 1) = Left(L, i, n) \ {d}
        /\ \A h \in Left(L, i, n) : h.entry = i /\ h # d =>
             \E j \in n + 2 .. N : h = Place(i, e, j)
    <3>1. n \in 0 .. Len(e.tags) - 1 BY DEF N
    <3>2. L \in SUBSET Destination BY <1>0
    <3>3. LeavesLater(L, i, e, n) BY <3>1, <3>2, LeftOneLess
    <3> QED BY <3>3 DEF N, LeavesLater
  <2>2. d.tag = e.tags[n + 1] /\ d.entry = i /\ d.place = n + 1 BY DEF Place
  <2>3. ASSUME NEW h \in Left(L, i, n), h # d PROVE Older(d, h)
    <3>1. h \in L /\ h.entry \in Nat BY <1>0 DEF Left, Destination
    <3>2. CASE h.entry # i BY <2>2, <3>1, <3>2 DEF Older
    <3>3. CASE h.entry = i
      <4>1. PICK j \in n + 2 .. N : h = Place(i, e, j) BY <2>1, <2>3, <3>3
      <4>2. h.place = j BY <4>1 DEF Place
      <4> QED BY <2>2, <3>3, <4>2 DEF Older
    <3> QED BY <3>2, <3>3
  <2> HIDE DEF d
  <2> QED BY <1>1, <2>1, <2>2, <2>3, RemoveOldest
<1>2. ASSUME NEW f, f[0] = b,
             \A n \in 0 .. N - 1 : f[n] \in Binding =>
               f[n + 1] = FreeRenameBuffer(f[n], e.tags[n + 1])
      PROVE  \A n \in 0 .. N : Follows(f[n], Left(L, i, n))
  <2> DEFINE S == {n \in 0 .. N : Follows(f[n], Left(L, i, n))}
  <2>1. 0 \in S BY <1>0, <1>2, LeftEnds
  <2>2. ASSUME NEW n \in 0 .. N - 1, n \in S PROVE n + 1 \in S
    <3>1. f[n] \in Binding BY <2>2 DEF Follows, Represents
    <3>2. f[n + 1] = FreeRenameBuffer(f[n], e.tags[n + 1]) BY <1>2, <3>1
    <3>3. n + 1 \in 0 .. N BY <1>0
    <3> QED BY <1>1, <2>2, <3>2, <3>3
  <2> HIDE DEF S
  <2>3. \A n \in 0 .. N : n \in S BY <1>0, <2>1, <2>2, Counting
  <2> QED BY <2>3 DEF S
<1>3. \E f : IsRun(f)
  <2>0. \E f : IsLoop(f, N, b, G) BY <1>0, LoopExists
  <2>1. PICK f : f = [n \in 0 .. N |-> IF n = 0 THEN b ELSE G[<<n, f[n - 1]>>]]
    BY <2>0 DEF IsLoop
  <2>2. ASSUME NEW n \in 0 .. N - 1, f[n] \in Binding
        PROVE  f[n + 1] = FreeRenameBuffer(f[n], e.tags[n + 1])
    <3>1. n + 1 \in 0 .. N /\ n + 1 # 0 /\ (n + 1) - 1 = n BY <1>0
    <3>2. f[n + 1] = G[<<n + 1, f[n]>>] BY <2>1, <3>1
    <3> QED BY <2>2, <3>1, <3>2
  <2>3. f[0] = b BY <1>0, <2>1
  <2>4. \A n \in 0 .. N : f[n] \in Binding BY <1>2, <2>2, <2>3 DEF Follows, Represents
  <2>5. ASSUME NEW n \in 0 .. N
        PROVE  f[n] = IF n = 0 THEN b ELSE FreeRenameBuffer(f[n - 1], e.tags[n])
    <3>1. CASE n = 0 BY <2>3, <3>1
    <3>2. CASE n # 0
      <4>1. PICK p \in 0 .. N - 1 : n = p + 1 /\ n - 1 = p
        <5>1. n - 1 \in 0 .. N - 1 /\ n = (n - 1) + 1 BY <1>0, <3>2
        <5> QED BY <5>1
      <4> QED BY <1>0, <2>2, <2>4, <3>2, <4>1
    <3> QED BY <3>1, <3>2
  <2>6. IsRun(f) BY <2>1, <2>5
  <2> QED BY <2>6
<1> DEFINE f == CHOOSE f : IsRun(f)
<1>4. IsRun(f)
  <2> HIDE DEF IsRun
  <2> QED BY <1>3
<1>5. RetireEntry(b, e) = f[N] BY DEF RetireEntry, N
<1> HIDE DEF f
<1>6. \A n \in 0 .. N : Follows(f[n], Left(L, i, n))
  <2>1. f[0] = b BY <1>0, <1>4
  <2>2. ASSUME NEW n \in 0 .. N - 1
        PROVE  f[n + 1] = FreeRenameBuffer(f[n], e.tags[n + 1])
    <3>1. n + 1 \in 0 .. N /\ n + 1 # 0 /\ (n + 1) - 1 = n BY <1>0
    <3> QED BY <1>4, <3>1
  <2> QED BY <1>2, <2>1, <2>2
<1>7. Left(L, i, N) = {d \in L : d.entry # i} BY <1>0, LeftEnds DEF N
<1> QED BY <1>0, <1>5, <1>6, <1>7

\* The end of Flush(): those of the newest instruction leave in the same order, which is
\* right because they are destinations of different registers.
Distinct(s) == \A j, k \in DOMAIN s : s[j] = s[k] => j = k

LEMMA FlushEntryFollows ==
  ASSUME NEW b, NEW L, Follows(b, L), NEW i \in Nat, NEW e \in Entries, HoldsEntry(L, i, e),
         \A d \in L : d.entry <= i, Distinct(e.regs)
  PROVE  Follows(FlushEntry(b, e), {d \in L : d.entry # i})
<1> DEFINE N == Len(e.tags)
           IsRun(f) == f = [n \in 0 .. N |->
                              IF n = 0 THEN b ELSE FreeRenameBufferReverseOrder(f[n - 1], e.tags[n])]
           G == [x \in (0 .. N) \X Binding |-> FreeRenameBufferReverseOrder(x[2], e.tags[x[1]])]
<1>0. N \in Nat /\ L \in SUBSET Destination BY EntryFields DEF Follows
<1> HIDE DEF N
<1>1. ASSUME NEW n \in 0 .. N - 1, NEW c, Follows(c, Left(L, i, n))
      PROVE  Follows(FreeRenameBufferReverseOrder(c, e.tags[n + 1]), Left(L, i, n + 1))
  <2> DEFINE d == Place(i, e, n + 1)
  <2>1. /\ d \in Left(L, i, n) /\ Left(L, i, n + 1) = Left(L, i, n) \ {d}
        /\ \A h \in Left(L, i, n) : h.entry = i /\ h # d =>
             \E j \in n + 2 .. N : h = Place(i, e, j)
    <3>1. n \in 0 .. Len(e.tags) - 1 BY DEF N
    <3>2. L \in SUBSET Destination BY <1>0
    <3>3. LeavesLater(L, i, e, n) BY <3>1, <3>2, LeftOneLess
    <3> QED BY <3>3 DEF N, LeavesLater
  <2>2. /\ d.tag = e.tags[n + 1] /\ d.entry = i /\ d.place = n + 1
        /\ d.reg = e.regs[n + 1]
    BY DEF Place
  <2>3. ASSUME NEW h \in Left(L, i, n), h.reg = d.reg, h # d PROVE Older(h, d)
    <3>1. h \in L /\ h.entry \in Nat BY <1>0 DEF Left, Destination
    <3>2. CASE h.entry # i BY <2>2, <3>1, <3>2 DEF Older
    <3>3. CASE h.entry = i
      <4>1. PICK j \in n + 2 .. N : h = Place(i, e, j) BY <2>1, <2>3, <3>3
      <4>2. h.reg = e.regs[j] BY <4>1 DEF Place
      <4>3. j \in DOMAIN e.regs /\ n + 1 \in DOMAIN e.regs BY <1>0, EntryFields DEF N
      <4>4. j = n + 1 BY <2>2, <2>3, <4>2, <4>3 DEF Distinct
      <4> QED BY <4>4
    <3> QED BY <3>2, <3>3
  <2> HIDE DEF d
  <2> QED BY <1>1, <2>1, <2>2, <2>3, RemoveNewest
<1>2. ASSUME NEW f, f[0] = b,
             \A n \in 0 .. N - 1 : f[n] \in Binding =>
               f[n + 1] = FreeRenameBufferReverseOrder(f[n], e.tags[n + 1])
      PROVE  \A n \in 0 .. N : Follows(f[n], Left(L, i, n))
  <2> DEFINE S == {n \in 0 .. N : Follows(f[n], Left(L, i, n))}
  <2>1. 0 \in S BY <1>0, <1>2, LeftEnds
  <2>2. ASSUME NEW n \in 0 .. N - 1, n \in S PROVE n + 1 \in S
    <3>1. f[n] \in Binding BY <2>2 DEF Follows, Represents
    <3>2. f[n + 1] = FreeRenameBufferReverseOrder(f[n], e.tags[n + 1]) BY <1>2, <3>1
    <3>3. n + 1 \in 0 .. N BY <1>0
    <3> QED BY <1>1, <2>2, <3>2, <3>3
  <2> HIDE DEF S
  <2>3. \A n \in 0 .. N : n \in S BY <1>0, <2>1, <2>2, Counting
  <2> QED BY <2>3 DEF S
<1>3. \E f : IsRun(f)
  <2>0. \E f : IsLoop(f, N, b, G) BY <1>0, LoopExists
  <2>1. PICK f : f = [n \in 0 .. N |-> IF n = 0 THEN b ELSE G[<<n, f[n - 1]>>]]
    BY <2>0 DEF IsLoop
  <2>2. ASSUME NEW n \in 0 .. N - 1, f[n] \in Binding
        PROVE  f[n + 1] = FreeRenameBufferReverseOrder(f[n], e.tags[n + 1])
    <3>1. n + 1 \in 0 .. N /\ n + 1 # 0 /\ (n + 1) - 1 = n BY <1>0
    <3>2. f[n + 1] = G[<<n + 1, f[n]>>] BY <2>1, <3>1
    <3> QED BY <2>2, <3>1, <3>2
  <2>3. f[0] = b BY <1>0, <2>1
  <2>4. \A n \in 0 .. N : f[n] \in Binding BY <1>2, <2>2, <2>3 DEF Follows, Represents
  <2>5. ASSUME NEW n \in 0 .. N
        PROVE  f[n] = IF n = 0 THEN b ELSE FreeRenameBufferReverseOrder(f[n - 1], e.tags[n])
    <3>1. CASE n = 0 BY <2>3, <3>1
    <3>2. CASE n # 0
      <4>1. PICK p \in 0 .. N - 1 : n = p + 1 /\ n - 1 = p
        <5>1. n - 1 \in 0 .. N - 1 /\ n = (n - 1) + 1 BY <1>0, <3>2
        <5> QED BY <5>1
      <4> QED BY <1>0, <2>2, <2>4, <3>2, <4>1
    <3> QED BY <3>1, <3>2
  <2>6. IsRun(f) BY <2>1, <2>5
  <2> QED BY <2>6
<1> DEFINE f == CHOOSE f : IsRun(f)
<1>4. IsRun(f)
  <2> HIDE DEF IsRun
  <2> QED BY <1>3
<1>5. FlushEntry(b, e) = f[N] BY DEF FlushEntry, N
<1> HIDE DEF f
<1>6. \A n \in 0 .. N : Follows(f[n], Left(L, i, n))
  <2>1. f[0] = b BY <1>0, <1>4
  <2>2. ASSUME NEW n \in 0 .. N - 1
        PROVE  f[n + 1] = FreeRenameBufferReverseOrder(f[n], e.tags[n + 1])
    <3>1. n + 1 \in 0 .. N /\ n + 1 # 0 /\ (n + 1) - 1 = n BY <1>0
    <3> QED BY <1>4, <3>1
  <2> QED BY <1>2, <2>1, <2>2
<1>7. Left(L, i, N) = {d \in L : d.entry # i} BY <1>0, LeftEnds DEF N
<1> QED BY <1>0, <1>5, <1>6, <1>7

-----------------------------------------------------------------------------
\* The destinations of a sequence of entries.
LEMMA DestinationsAre ==
  ASSUME NEW q \in Seq(Entries)
  PROVE  /\ DestinationsOf(q) \in SUBSET Destination
         /\ \A i \in 1 .. Len(q) : HoldsEntry(DestinationsOf(q), i, q[i])
         /\ \A d \in DestinationsOf(q) :
              /\ d.entry \in 1 .. Len(q)
              /\ \E j \in 1 .. Len(q[d.entry].tags) : d = Place(d.entry, q[d.entry], j)
<1>1. /\ \A i \in 1 .. Len(q) : q[i] \in Entries
      /\ DOMAIN q = 1 .. Len(q) /\ Len(q) \in Nat
  OBVIOUS
<1>2. ASSUME NEW i \in 1 .. Len(q), NEW j \in 1 .. Len(q[i].tags)
      PROVE  Place(i, q[i], j) \in DestinationsOf(q)
  <2>1. j \in DOMAIN q[i].regs BY <1>1, EntryFields
  <2> QED BY <1>1, <2>1 DEF DestinationsOf, Place
<1>3. ASSUME NEW d \in DestinationsOf(q)
      PROVE  \E i \in 1 .. Len(q) : \E j \in 1 .. Len(q[i].tags) : d = Place(i, q[i], j)
  <2>1. PICK i \in 1 .. Len(q) : \E j \in DOMAIN q[i].regs : d = Place(i, q[i], j)
    BY <1>1 DEF DestinationsOf, Place
  <2>2. DOMAIN q[i].regs = 1 .. Len(q[i].tags) BY <1>1, EntryFields
  <2> QED BY <2>1, <2>2
<1>4. ASSUME NEW d \in DestinationsOf(q)
      PROVE  /\ d \in Destination /\ d.entry \in 1 .. Len(q)
             /\ \E j \in 1 .. Len(q[d.entry].tags) : d = Place(d.entry, q[d.entry], j)
  <2>1. PICK i \in 1 .. Len(q) : \E j \in 1 .. Len(q[i].tags) : d = Place(i, q[i], j) BY <1>3
  <2>2. PICK j \in 1 .. Len(q[i].tags) : d = Place(i, q[i], j) BY <2>1
  <2>3. d.entry = i BY <2>2 DEF Place
  <2>4. q[i].regs[j] \in Regs /\ q[i].tags[j] \in Tag /\ j \in Nat /\ i \in Nat
    <3>1. /\ q[i].regs \in Seq(Regs) /\ q[i].tags \in Seq(Tag) /\ Len(q[i].tags) \in Nat
          /\ Len(q[i].tags) = Len(q[i].regs)
      BY <1>1, EntryFields
    <3> QED BY <1>1, <3>1
  <2>5. d \in Destination BY <2>2, <2>4 DEF Place, Destination
  <2> QED BY <2>2, <2>3, <2>5
<1>5. \A d \in DestinationsOf(q) : \A i \in 1 .. Len(q) : d.entry = i =>
        \E j \in 1 .. Len(q[i].tags) : d = Place(i, q[i], j)
  BY <1>4
<1> QED BY <1>2, <1>4, <1>5 DEF HoldsEntry

\* Flush(): the newest n entries leave, from the newest on.
UpTo(q, m) == {d \in DestinationsOf(q) : d.entry <= m}

LEMMA FlushEntriesFollow ==
  ASSUME NEW b, NEW q \in Seq(Entries), Follows(b, DestinationsOf(q)),
         \A i \in 1 .. Len(q) : Distinct(q[i].regs), NEW N \in 1 .. Len(q)
  PROVE  Follows(FlushEntries(b, SubSeq(q, Len(q) - N + 1, Len(q))), UpTo(q, Len(q) - N))
<1> DEFINE p == SubSeq(q, Len(q) - N + 1, Len(q))
           M == Len(p)
           m == Len(q)
           IsRun(f) == f = [n \in 0 .. M |->
                              IF n = 0 THEN b ELSE FlushEntry(f[n - 1], p[M - n + 1])]
           G == [x \in (0 .. M) \X Binding |-> FlushEntry(x[2], p[M - x[1] + 1])]
<1>0. /\ M = N /\ m \in Nat /\ N \in Nat /\ N <= m
      /\ \A n \in 0 .. N - 1 : p[M - (n + 1) + 1] = q[m - n]
  <2>1. m \in Nat /\ N \in Nat /\ N <= m OBVIOUS
  <2>2. PICK a \in 1 .. m : a = m - N + 1
    <3>1. m - N + 1 \in 1 .. m BY <2>1
    <3> QED BY <3>1
  <2>3. p = SubSeq(q, a, m) BY <2>2
  <2>4. M = N /\ \A n \in 1 .. N : p[n] = q[a + n - 1]
    <3> HIDE DEF p
    <3> QED BY <2>1, <2>2, <2>3
  <2> HIDE DEF p, m
  <2>5. ASSUME NEW n \in 0 .. N - 1 PROVE p[N - (n + 1) + 1] = q[m - n]
    <3>1. PICK k \in 1 .. N : k = N - (n + 1) + 1
      <4>1. N - (n + 1) + 1 \in 1 .. N BY <2>1
      <4> QED BY <4>1
    <3>2. a + k - 1 = m - n BY <2>1, <2>2, <3>1
    <3> QED BY <2>4, <3>1, <3>2
  <2> QED BY <2>1, <2>4, <2>5
<1> HIDE DEF p, M
<1>1. ASSUME NEW n \in 0 .. N - 1, NEW c, Follows(c, UpTo(q, m - n))
      PROVE  Follows(FlushEntry(c, q[m - n]), UpTo(q, m - (n + 1)))
  <2>1. PICK i \in 1 .. m : i = m - n
    <3>1. m - n \in 1 .. m BY <1>0
    <3> QED BY <3>1
  <2>2. q[i] \in Entries /\ Distinct(q[i].regs) /\ i \in Nat BY <1>0
  <2>3. HoldsEntry(UpTo(q, i), i, q[i])
    <3>1. HoldsEntry(DestinationsOf(q), i, q[i]) BY DestinationsAre
    <3>2. \A j \in 1 .. Len(q[i].tags) : Place(i, q[i], j).entry <= i BY <2>2 DEF Place
    <3> QED BY <3>1, <3>2 DEF HoldsEntry, UpTo
  <2>4. \A d \in UpTo(q, i) : d.entry <= i /\ d.entry \in Nat
    BY DestinationsAre DEF UpTo, Destination
  <2>5. Follows(FlushEntry(c, q[i]), {d \in UpTo(q, i) : d.entry # i})
    BY <1>1, <2>1, <2>2, <2>3, <2>4, FlushEntryFollows
  <2>6. {d \in UpTo(q, i) : d.entry # i} = UpTo(q, m - (n + 1))
    <3>1. m - (n + 1) = i - 1 BY <1>0, <2>1
    <3>2. \A d \in DestinationsOf(q) : d.entry \in Nat BY DestinationsAre DEF Destination
    <3> HIDE DEF m
    <3> QED BY <2>2, <3>1, <3>2 DEF UpTo
  <2> QED BY <2>1, <2>5, <2>6
<1> HIDE DEF m
<1>2. ASSUME NEW f, f[0] = b,
             \A n \in 0 .. N - 1 : f[n] \in Binding => f[n + 1] = FlushEntry(f[n], q[m - n])
      PROVE  \A n \in 0 .. N : Follows(f[n], UpTo(q, m - n))
  <2> DEFINE S == {n \in 0 .. N : Follows(f[n], UpTo(q, m - n))}
  <2>1. 0 \in S
    <3>1. m - 0 = m BY <1>0
    <3>2. UpTo(q, m) = DestinationsOf(q) BY <1>0, DestinationsAre DEF UpTo, m
    <3> QED BY <1>0, <1>2, <3>1, <3>2
  <2>2. ASSUME NEW n \in 0 .. N - 1, n \in S PROVE n + 1 \in S
    <3>1. f[n] \in Binding BY <2>2 DEF Follows, Represents
    <3>2. f[n + 1] = FlushEntry(f[n], q[m - n]) BY <1>2, <3>1
    <3>3. n + 1 \in 0 .. N BY <1>0
    <3> QED BY <1>1, <2>2, <3>2, <3>3
  <2> HIDE DEF S
  <2>3. \A n \in 0 .. N : n \in S BY <1>0, <2>1, <2>2, Counting
  <2> QED BY <2>3 DEF S
<1>3. \E f : IsRun(f)
  <2>0. \E f : IsLoop(f, N, b, G) BY <1>0, LoopExists
  <2>1. PICK f : f = [n \in 0 .. N |-> IF n = 0 THEN b ELSE G[<<n, f[n - 1]>>]]
    BY <2>0 DEF IsLoop
  <2>2. ASSUME NEW n \in 0 .. N - 1, f[n] \in Binding
        PROVE  f[n + 1] = FlushEntry(f[n], p[M - (n + 1) + 1])
    <3>1. n + 1 \in 0 .. N /\ n + 1 # 0 /\ (n + 1) - 1 = n BY <1>0
    <3>2. f[n + 1] = G[<<n + 1, f[n]>>] BY <2>1, <3>1
    <3> QED BY <1>0, <2>2, <3>1, <3>2
  <2>3. f[0] = b BY <1>0, <2>1
  <2>4. \A n \in 0 .. N : f[n] \in Binding
    <3>1. \A n \in 0 .. N - 1 : f[n] \in Binding => f[n + 1] = FlushEntry(f[n], q[m - n])
      BY <1>0, <2>2
    <3> QED BY <1>2, <2>3, <3>1 DEF Follows, Represents
  <2>5. ASSUME NEW n \in 0 .. N
        PROVE  f[n] = IF n = 0 THEN b ELSE FlushEntry(f[n - 1], p[M - n + 1])
    <3>1. CASE n = 0 BY <2>3, <3>1
    <3>2. CASE n # 0
      <4>1. PICK k \in 0 .. N - 1 : n = k + 1 /\ n - 1 = k
        <5>1. n - 1 \in 0 .. N - 1 /\ n = (n - 1) + 1 BY <1>0, <3>2
        <5> QED BY <5>1
      <4> QED BY <1>0, <2>2, <2>4, <3>2, <4>1
    <3> QED BY <3>1, <3>2
  <2>6. IsRun(f) BY <1>0, <2>1, <2>5
  <2> QED BY <2>6
<1> DEFINE f == CHOOSE f : IsRun(f)
<1>4. IsRun(f)
  <2> HIDE DEF IsRun
  <2> QED BY <1>3
<1>5. FlushEntries(b, p) = f[M] BY DEF FlushEntries, M
<1> HIDE DEF f
<1>6. \A n \in 0 .. N : Follows(f[n], UpTo(q, m - n))
  <2>1. f[0] = b BY <1>0, <1>4
  <2>2. ASSUME NEW n \in 0 .. N - 1 PROVE f[n + 1] = FlushEntry(f[n], q[m - n])
    <3>1. n + 1 \in 0 .. N /\ n + 1 # 0 /\ (n + 1) - 1 = n BY <1>0
    <3> QED BY <1>0, <1>4, <3>1
  <2> QED BY <1>2, <2>1, <2>2
<1> QED BY <1>0, <1>5, <1>6 DEF p, m

-----------------------------------------------------------------------------
\* Decode(): the destinations of the new instruction, in place i, that have a buffer.
Made(i, regs, tags) ==
  {[entry |-> i, place |-> j, reg |-> regs[j], tag |-> tags[j]] : j \in 1 .. Len(tags)}

\* What the allocation loop keeps: c is its state after n turns from b and L.
Allocating(b, L, i, regs, n, c) ==
  /\ c \in [binding : Binding, tags : Seq(Tag)]
  /\ Len(c.tags) = n
  /\ c.binding.nfree = b.nfree - n
  /\ Follows(c.binding, L \cup Made(i, regs, c.tags))

\* One turn of the loop takes the first free buffer.
LEMMA AllocateOneMore ==
  ASSUME NEW b, NEW L, b.nfree \in Nat, NEW i \in Nat, \A d \in L : d.entry < i,
         NEW regs \in Seq(Regs), Len(regs) <= b.nfree, NEW n \in 0 .. Len(regs) - 1,
         NEW c, Allocating(b, L, i, regs, n, c)
  PROVE  Allocating(b, L, i, regs, n + 1,
           [binding |-> AllocateAt(c.binding, regs[n + 1], FirstFree(c.binding)),
            tags    |-> Append(c.tags, FirstFree(c.binding))])
<1> DEFINE t == FirstFree(c.binding)
           u == Append(c.tags, t)
           a == AllocateAt(c.binding, regs[n + 1], t)
           M == L \cup Made(i, regs, c.tags)
           d == [entry |-> i, place |-> n + 1, reg |-> regs[n + 1], tag |-> t]
<1>1. /\ c.binding \in Binding /\ c.tags \in Seq(Tag) /\ Len(c.tags) = n
      /\ c.binding.nfree = b.nfree - n /\ Follows(c.binding, M)
  BY DEF Allocating
<1>2. Len(regs) \in Nat /\ n \in Nat /\ n + 1 \in 1 .. Len(regs) /\ regs[n + 1] \in Regs
  OBVIOUS
<1>3. t \in Tag /\ c.binding.reg[t] = None
  <2>1. c.binding.nfree > 0 BY <1>1, <1>2
  <2>2. \E f \in Tag : IsFirstFree(c.binding, f)
    BY <1>1, <2>1, FirstFreeExists DEF Follows
  <2> QED BY <2>2 DEF FirstFree, IsFirstFree
<1> HIDE DEF t, M
<1>4. u \in Seq(Tag) /\ Len(u) = n + 1 /\ u[n + 1] = t /\ \A j \in 1 .. n : u[j] = c.tags[j]
  BY <1>1, <1>2, <1>3
<1> HIDE DEF u
<1>5. d \in Destination /\ d.reg = regs[n + 1] /\ d.tag = t /\ d.entry = i /\ d.place = n + 1
  BY <1>2, <1>3 DEF Destination
<1>6. M \cup {d} = L \cup Made(i, regs, u)
  <2>1. Made(i, regs, u) = Made(i, regs, c.tags) \cup {d}
    <3>1. 1 .. n + 1 = (1 .. n) \cup {n + 1} BY <1>2
    <3> QED BY <1>1, <1>4, <3>1 DEF Made
  <2> QED BY <2>1 DEF M
<1>7. ASSUME NEW e \in M PROVE Older(e, d)
  <2>1. CASE e \in L BY <1>5, <2>1 DEF Older
  <2>2. CASE e \in Made(i, regs, c.tags)
    <3>1. PICK j \in 1 .. n : e.entry = i /\ e.place = j BY <1>1, <2>2 DEF Made
    <3> QED BY <1>2, <1>5, <3>1 DEF Older
  <2> QED BY <2>1, <2>2 DEF M
<1>8. Follows(a, M \cup {d})
  <2> HIDE DEF d
  <2>1. Follows(AllocateAt(c.binding, d.reg, d.tag), M \cup {d})
    BY <1>1, <1>3, <1>5, <1>7, AddNewest
  <2> QED BY <1>5, <2>1
<1>9. a.nfree = b.nfree - (n + 1) BY <1>1, <1>2 DEF AllocateAt
<1>10. a \in Binding BY <1>8 DEF Follows, Represents
<1> HIDE DEF a
<1>11. Allocating(b, L, i, regs, n + 1, [binding |-> a, tags |-> u])
  BY <1>4, <1>6, <1>8, <1>9, <1>10 DEF Allocating
<1> QED BY <1>11 DEF a, u, t

LEMMA AllocationsFollow ==
  ASSUME NEW b, NEW L, Follows(b, L), NEW i \in Nat, \A d \in L : d.entry < i,
         NEW regs \in Seq(Regs), Len(regs) <= b.nfree
  PROVE  Allocating(b, L, i, regs, Len(regs), Allocations(b, regs))
<1> DEFINE N == Len(regs)
           start == [binding |-> b, tags |-> <<>>]
           body(c, n) == [binding |-> AllocateAt(c.binding, regs[n], FirstFree(c.binding)),
                          tags    |-> Append(c.tags, FirstFree(c.binding))]
           IsRun(f) == f = [n \in 0 .. N |-> IF n = 0 THEN start ELSE body(f[n - 1], n)]
           State == [binding : Binding, tags : Seq(Tag)]
           G == [x \in (0 .. N) \X State |-> body(x[2], x[1])]
<1>0. N \in Nat /\ b \in Binding /\ b.nfree \in Nat
  <2>1. b \in Binding BY DEF Follows, Represents
  <2> QED BY <2>1 DEF Binding
<1>1. ASSUME NEW n \in 0 .. N - 1, NEW c, Allocating(b, L, i, regs, n, c)
      PROVE  Allocating(b, L, i, regs, n + 1, body(c, n + 1))
  BY <1>0, <1>1, AllocateOneMore
<1>2. Allocating(b, L, i, regs, 0, start)
  <2>1. Made(i, regs, <<>>) = {} BY DEF Made
  <2>2. start \in State /\ Len(start.tags) = 0 BY <1>0
  <2>3. start.binding = b /\ start.tags = <<>> /\ b.nfree = b.nfree - 0 BY <1>0
  <2>4. L \cup Made(i, regs, <<>>) = L BY <2>1
  <2> HIDE DEF start
  <2> QED BY <2>2, <2>3, <2>4 DEF Allocating
<1> HIDE DEF start, body
<1>3. ASSUME NEW f, f[0] = start,
             \A n \in 0 .. N - 1 : f[n] \in State => f[n + 1] = body(f[n], n + 1)
      PROVE  \A n \in 0 .. N : Allocating(b, L, i, regs, n, f[n])
  <2> DEFINE S == {n \in 0 .. N : Allocating(b, L, i, regs, n, f[n])}
  <2>1. 0 \in S BY <1>0, <1>2, <1>3
  <2>2. ASSUME NEW n \in 0 .. N - 1, n \in S PROVE n + 1 \in S
    <3>1. f[n] \in State BY <2>2 DEF Allocating
    <3>2. f[n + 1] = body(f[n], n + 1) BY <1>3, <3>1
    <3>3. n + 1 \in 0 .. N BY <1>0
    <3> QED BY <1>1, <2>2, <3>2, <3>3
  <2> HIDE DEF S
  <2>3. \A n \in 0 .. N : n \in S BY <1>0, <2>1, <2>2, Counting
  <2> QED BY <2>3 DEF S
<1> HIDE DEF N, State
<1>4. \E f : IsRun(f)
  <2>0. \E f : IsLoop(f, N, start, G) BY <1>0, LoopExists
  <2>1. PICK f : f = [n \in 0 .. N |-> IF n = 0 THEN start ELSE G[<<n, f[n - 1]>>]]
    BY <2>0 DEF IsLoop
  <2>2. ASSUME NEW n \in 0 .. N - 1, f[n] \in State PROVE f[n + 1] = body(f[n], n + 1)
    <3>1. n + 1 \in 0 .. N /\ n + 1 # 0 /\ (n + 1) - 1 = n BY <1>0
    <3>2. f[n + 1] = G[<<n + 1, f[n]>>] BY <2>1, <3>1
    <3> QED BY <2>2, <3>1, <3>2
  <2>3. f[0] = start BY <1>0, <2>1
  <2>4. \A n \in 0 .. N : f[n] \in State BY <1>3, <2>2, <2>3 DEF Allocating, State
  <2>5. ASSUME NEW n \in 0 .. N PROVE f[n] = IF n = 0 THEN start ELSE body(f[n - 1], n)
    <3>1. CASE n = 0 BY <2>3, <3>1
    <3>2. CASE n # 0
      <4>1. PICK k \in 0 .. N - 1 : n = k + 1 /\ n - 1 = k
        <5>1. n - 1 \in 0 .. N - 1 /\ n = (n - 1) + 1 BY <1>0, <3>2
        <5> QED BY <5>1
      <4> QED BY <1>0, <2>2, <2>4, <3>2, <4>1
    <3> QED BY <3>1, <3>2
  <2>6. IsRun(f) BY <2>1, <2>5
  <2> QED BY <2>6
<1> DEFINE f == CHOOSE f : IsRun(f)
<1>5. IsRun(f)
  <2> HIDE DEF IsRun
  <2> QED BY <1>4
<1>6. Allocations(b, regs) = f[N] BY DEF Allocations, N, start, body
<1> HIDE DEF f
<1>7. \A n \in 0 .. N : Allocating(b, L, i, regs, n, f[n])
  <2>1. f[0] = start BY <1>0, <1>5
  <2>2. ASSUME NEW n \in 0 .. N - 1 PROVE f[n + 1] = body(f[n], n + 1)
    <3>1. n + 1 \in 0 .. N /\ n + 1 # 0 /\ (n + 1) - 1 = n BY <1>0
    <3> QED BY <1>5, <3>1
  <2> QED BY <1>3, <2>1, <2>2
<1> QED BY <1>0, <1>6, <1>7 DEF N

-----------------------------------------------------------------------------
(***************************************************************************)
(* The inductive invariant: the ring is well formed, its entries are       *)
(* instructions, and the tables follow their destinations.                 *)
(***************************************************************************)
RobInv ==
  /\ TypeInvariant
  /\ Listed \in Seq(Entries)
  /\ Follows(binding, DestinationsOf(Listed))

\* No instruction has two destinations that are the same register.
DistinctDestinations == \A regs \in Forms : Distinct(regs)

\* Reset(): no entries and no versions.
LEMMA RobInitFollows == RobInit => RobInv /\ Init
<1> SUFFICES ASSUME RobInit PROVE RobInv /\ Init
  OBVIOUS
<1>1. Init
  <2>1. [regs |-> <<>>, tags |-> <<>>] \in Entries
    <3>1. <<>> \in [DOMAIN <<>> -> Tag] OBVIOUS
    <3> QED BY <3>1 DEF Entries
  <2>2. [regs |-> <<>>, tags |-> <<>>] \in Values BY <2>1, EntriesAssumption
  <2> QED BY <2>2 DEF RobInit, Init
<1>2. TypeInvariant BY <1>1, InitType
<1>3. size = 0 /\ binding = EmptyBinding BY DEF RobInit
<1>4. Listed = <<>> /\ <<>> \in Seq(Entries) BY <1>3 DEF Listed
<1>5. DestinationsOf(<<>>) = {} BY DEF DestinationsOf
<1>6. \A r \in Regs : IsOrderOf([q \in Regs |-> <<>>][r], {}, r)
  BY \A k \in 1 .. 0 : FALSE DEF IsOrderOf
<1>7. Follows(EmptyBinding, {}) BY <1>6, EmptyRepresents DEF Follows, OrdersOf
<1> QED BY <1>1, <1>2, <1>3, <1>4, <1>5, <1>7 DEF RobInv

\* An entry for the instruction being decoded; the ring makes an ordinary allocation.
LEMMA DecodeFollows ==
  ASSUME RobInv, NEW regs \in Forms, Decode(regs)
  PROVE  /\ Listed' \in Seq(Entries) /\ Follows(binding', DestinationsOf(Listed'))
         /\ \E v \in Values : Allocate(v)
<1> DEFINE q == Listed
           i == Len(q) + 1
           a == Allocations(binding, regs)
           e == [regs |-> regs, tags |-> a.tags]
           L == DestinationsOf(q)
<1>1. /\ q \in Seq(Entries) /\ Len(q) \in Nat /\ i \in Nat /\ Follows(binding, L)
      /\ regs \in Seq(Regs) /\ Len(regs) <= binding.nfree
      /\ Allocate(e) /\ binding' = a.binding
  BY FormsAssumption DEF RobInv, Decode
<1>2. Allocating(binding, L, i, regs, Len(regs), a)
  <2>1. \A d \in L : d.entry < i BY <1>1, DestinationsAre
  <2> HIDE DEF L, a, i, q
  <2> QED BY <1>1, <2>1, AllocationsFollow DEF a
<1> HIDE DEF a, q
<1>3. a.tags \in Seq(Tag) /\ Len(a.tags) = Len(regs) BY <1>2 DEF Allocating
<1>4. e \in Entries
  <2>1. a.tags \in [DOMAIN regs -> Tag] BY <1>1, <1>3
  <2> QED BY <2>1 DEF Entries
<1>5. Listed' = Append(q, e)
  <2>1. e \in Values BY <1>4, EntriesAssumption
  <2> HIDE DEF e
  <2> QED BY <1>1, <2>1, AllocateListed DEF RobInv, q
<1>6. DestinationsOf(Append(q, e)) = L \cup Made(i, regs, a.tags)
  <2> DEFINE p == Append(q, e)
  <2>1. /\ DOMAIN p = (DOMAIN q) \cup {i} /\ p[i] = e /\ i \notin DOMAIN q
        /\ \A k \in DOMAIN q : p[k] = q[k]
    <3> HIDE DEF e
    <3> QED BY <1>1
  <2>2. e.regs = regs /\ e.tags = a.tags /\ DOMAIN regs = 1 .. Len(a.tags) BY <1>1, <1>3
  <2> DEFINE Of(s, k) == {[entry |-> k, place |-> j, reg |-> s[k].regs[j],
                           tag |-> s[k].tags[j]] : j \in DOMAIN s[k].regs}
  <2>3. \A k \in DOMAIN q : Of(p, k) = Of(q, k) BY <2>1
  <2>4. Of(p, i) = Made(i, regs, a.tags) BY <2>1, <2>2 DEF Made
  <2> HIDE DEF Of, p, e, i
  <2>5. UNION {Of(p, k) : k \in DOMAIN p} = (UNION {Of(q, k) : k \in DOMAIN q}) \cup Of(p, i)
    BY <2>1, <2>3
  <2> QED BY <2>4, <2>5 DEF DestinationsOf, Of, p
<1> HIDE DEF e, i, L
<1>7. Append(q, e) \in Seq(Entries) BY <1>1, <1>4
<1>8. Follows(a.binding, L \cup Made(i, regs, a.tags)) BY <1>2 DEF Allocating
<1> QED BY <1>1, <1>4, <1>5, <1>6, <1>7, <1>8, EntriesAssumption

\* The oldest entry leaves, and the others come one place nearer.
LEMMA RetireFollows ==
  ASSUME RobInv, Retire
  PROVE  /\ Listed' \in Seq(Entries) /\ Follows(binding', DestinationsOf(Listed'))
         /\ 1 \in 1 .. nQueueEntries
<1> DEFINE q == Listed
           L == DestinationsOf(q)
           e == q[1]
<1>0. 1 \in 1 .. nQueueEntries /\ Pop(1) /\ TypeInvariant BY QueueAssumption DEF Retire, RobInv
<1>1. /\ q \in Seq(Entries) /\ Len(q) = size /\ size \in Nat /\ size >= 1
      /\ Follows(binding, L) /\ Listed' = SubSeq(q, 2, size)
  <2>1. Listed' = SubSeq(Listed, 1 + 1, size) /\ 1 <= size BY <1>0, PopListed
  <2> QED BY <1>0, <2>1, ListedSize DEF RobInv
<1>2. binding' = RetireEntry(binding, e)
  <2>1. [i \in 1 .. size |-> At(i - 1)] = Listed BY <1>0, ListedContents
  <2>2. [i \in 1 .. size |-> At(i - 1)][1] = At(0) BY <1>1
  <2> QED BY <2>1, <2>2 DEF Retire
<1> HIDE DEF q
<1>3. e \in Entries /\ 1 \in 1 .. Len(q) BY <1>1
<1>4. Follows(RetireEntry(binding, e), {d \in L : d.entry # 1})
  <2>1. HoldsEntry(L, 1, e) /\ \A d \in L : 1 <= d.entry BY <1>1, <1>3, DestinationsAre
  <2> HIDE DEF L, e
  <2> QED BY <1>1, <1>3, <2>1, RetireEntryFollows
<1> DEFINE p == SubSeq(q, 2, size)
<1>5. /\ p \in Seq(Entries) /\ Len(p) = size - 1
      /\ \A i \in 1 .. size - 1 : p[i] = q[i + 1]
  BY <1>1
<1> HIDE DEF p
<1>6. DestinationsOf(p) \in SUBSET Destination BY <1>5, DestinationsAre
<1>7. ASSUME NEW d \in DestinationsOf(p) PROVE Later(d) \in L /\ Later(d).entry # 1
  <2>1. PICK i \in 1 .. size - 1 : i = d.entry BY <1>1, <1>5, DestinationsAre
  <2>2. PICK j \in 1 .. Len(p[i].tags) : d = Place(i, p[i], j)
    BY <1>5, <2>1, DestinationsAre
  <2>3. i + 1 \in 1 .. Len(q) /\ p[i] = q[i + 1] BY <1>1, <1>5
  <2>4. Later(d) = Place(i + 1, q[i + 1], j) BY <2>2, <2>3 DEF Later, Place
  <2>5. HoldsEntry(L, i + 1, q[i + 1]) BY <1>1, <2>3, DestinationsAre
  <2>6. Later(d) \in L BY <2>2, <2>3, <2>4, <2>5 DEF HoldsEntry
  <2>7. Later(d).entry = i + 1 BY <2>4 DEF Place
  <2> QED BY <2>1, <2>6, <2>7
<1>8. ASSUME NEW h \in L, h.entry # 1 PROVE \E d \in DestinationsOf(p) : h = Later(d)
  <2>1. PICK k \in 1 .. Len(q) : k = h.entry BY <1>1, DestinationsAre
  <2>2. PICK j \in 1 .. Len(q[k].tags) : h = Place(k, q[k], j) BY <1>1, <2>1, DestinationsAre
  <2>3. PICK i \in 1 .. size - 1 : k = i + 1
    <3>1. k - 1 \in 1 .. size - 1 /\ k = (k - 1) + 1 BY <1>1, <1>8, <2>1
    <3> QED BY <3>1
  <2>4. p[i] = q[k] /\ i \in 1 .. Len(p) BY <1>5, <2>3
  <2>5. HoldsEntry(DestinationsOf(p), i, p[i]) BY <1>5, <2>4, DestinationsAre
  <2>6. Place(i, p[i], j) \in DestinationsOf(p) BY <2>2, <2>4, <2>5 DEF HoldsEntry
  <2>7. h = Later(Place(i, p[i], j)) BY <2>2, <2>3, <2>4 DEF Later, Place
  <2> QED BY <2>6, <2>7
<1> HIDE DEF L
<1>9. Follows(binding', DestinationsOf(p))
  <2> DEFINE K == {d \in L : d.entry # 1}
  <2>1. \A d \in DestinationsOf(p) : Later(d) \in K BY <1>7
  <2>2. \A h \in K : \E d \in DestinationsOf(p) : h = Later(d) BY <1>8
  <2>3. Follows(binding', K) BY <1>2, <1>4
  <2> HIDE DEF K
  <2> QED BY <1>6, <2>1, <2>2, <2>3, Renumber
<1> QED BY <1>0, <1>1, <1>5, <1>9 DEF p

\* The newest entries leave.
LEMMA FlushFollows ==
  ASSUME DistinctDestinations, RobInv, Flush
  PROVE  /\ Listed' \in Seq(Entries) /\ Follows(binding', DestinationsOf(Listed'))
         /\ \E n \in 1 .. nQueueEntries : FlushNewest(n)
<1> DEFINE q == Listed
<1>1. PICK n \in 1 .. size : /\ FlushNewest(n)
                             /\ binding' = FlushEntries(binding, SubSeq(rob, size - n + 1, size))
  BY DEF Flush
<1>2. /\ q \in Seq(Entries) /\ Len(q) = size /\ size \in Nat /\ size <= nQueueEntries
      /\ Follows(binding, DestinationsOf(q)) /\ TypeInvariant /\ rob = q
  BY ListedSize, ListedContents DEF RobInv, rob
<1>3. n \in 1 .. nQueueEntries BY <1>2, QueueAssumption
<1>4. Listed' = SubSeq(q, 1, size - n) BY <1>1, <1>2, <1>3, FlushListed
<1> HIDE DEF q
<1>5. \A i \in 1 .. Len(q) : Distinct(q[i].regs)
  <2> TAKE i \in 1 .. Len(q)
  <2>1. q[i] \in Entries BY <1>2
  <2>2. PICK f \in Forms \cup {<<>>} : q[i] \in [regs : {f}, tags : [DOMAIN f -> Tag]]
    BY <2>1 DEF Entries
  <2>3. q[i].regs = f BY <2>2
  <2>4. Distinct(<<>>) BY DEF Distinct
  <2> QED BY <2>2, <2>3, <2>4 DEF DistinctDestinations
<1>6. Follows(binding', UpTo(q, size - n)) BY <1>1, <1>2, <1>5, FlushEntriesFollow
<1> DEFINE p == SubSeq(q, 1, size - n)
<1>7. p \in Seq(Entries) /\ Len(p) = size - n /\ \A i \in 1 .. size - n : p[i] = q[i]
  BY <1>2
<1> HIDE DEF p
<1>8. DestinationsOf(p) = UpTo(q, size - n)
  <2>1. \A i \in 1 .. size - n : i \in 1 .. Len(q) BY <1>2
  <2>2. ASSUME NEW d \in DestinationsOf(p) PROVE d \in UpTo(q, size - n)
    <3>1. PICK i \in 1 .. size - n : i = d.entry BY <1>7, DestinationsAre
    <3>2. PICK j \in 1 .. Len(p[i].tags) : d = Place(i, p[i], j) BY <1>7, <3>1, DestinationsAre
    <3>3. HoldsEntry(DestinationsOf(q), i, q[i]) BY <1>2, <2>1, DestinationsAre
    <3>4. d \in DestinationsOf(q) BY <1>7, <3>2, <3>3 DEF HoldsEntry
    <3> QED BY <3>1, <3>4 DEF UpTo
  <2>3. ASSUME NEW d \in UpTo(q, size - n) PROVE d \in DestinationsOf(p)
    <3>0. d \in DestinationsOf(q) /\ d.entry <= size - n BY DEF UpTo
    <3>1. PICK i \in 1 .. size - n : i = d.entry
      <4>1. d.entry \in 1 .. Len(q) BY <1>2, <3>0, DestinationsAre
      <4>2. d.entry \in 1 .. size - n BY <1>2, <3>0, <4>1
      <4> QED BY <4>2
    <3>2. PICK j \in 1 .. Len(q[i].tags) : d = Place(i, q[i], j)
      BY <1>2, <3>0, <3>1, DestinationsAre
    <3>3. HoldsEntry(DestinationsOf(p), i, p[i]) BY <1>7, DestinationsAre
    <3> QED BY <1>7, <3>2, <3>3 DEF HoldsEntry
  <2> QED BY <2>2, <2>3
<1> QED BY <1>1, <1>3, <1>4, <1>6, <1>7, <1>8 DEF p

\* The invariant is inductive, and each step is a step of the ring.
LEMMA RobStep ==
  DistinctDestinations /\ RobInv /\ [RobNext]_robVars => RobInv' /\ [Next]_vars
<1> SUFFICES ASSUME DistinctDestinations, RobInv, [RobNext]_robVars
             PROVE  RobInv' /\ [Next]_vars
  OBVIOUS
<1> DEFINE Kept == Listed' \in Seq(Entries) /\ Follows(binding', DestinationsOf(Listed'))
<1>1. ASSUME NEW regs \in Forms, Decode(regs) PROVE Kept /\ Next
  BY <1>1, DecodeFollows DEF Next
<1>2. ASSUME Retire PROVE Kept /\ Next
  <2>1. Pop(1) /\ 1 \in 1 .. nQueueEntries BY <1>2, RetireFollows DEF Retire
  <2> QED BY <1>2, <2>1, RetireFollows DEF Next
<1>3. ASSUME Flush PROVE Kept /\ Next
  BY <1>3, FlushFollows DEF Next
<1>4. ASSUME UNCHANGED robVars PROVE Kept /\ UNCHANGED vars
  <2>1. Listed' = Listed /\ binding' = binding BY <1>4 DEF robVars, Listed
  <2> QED BY <1>4, <2>1 DEF RobInv, robVars, vars
<1>5. Kept /\ [Next]_vars BY <1>1, <1>2, <1>3, <1>4 DEF RobNext
<1>6. TypeInvariant' BY <1>5, NextType DEF RobInv
<1> QED BY <1>5, <1>6 DEF RobInv

\* What the invariant says of a state.
LEMMA RobInvMeans == RobInv => TablesFollowRob /\ PreconditionHolds
<1> SUFFICES ASSUME RobInv PROVE TablesFollowRob /\ PreconditionHolds
  OBVIOUS
<1>1. rob = Listed BY ListedContents DEF RobInv, rob
<1>2. Follows(binding, DestinationsOf(rob)) BY <1>1 DEF RobInv
<1>3. binding.nfree = NTags - Cardinality(DestinationsOf(rob)) BY <1>2, CounterFollows
<1>4. PreconditionHolds BY <1>2, FollowsPrecondition DEF PreconditionHolds
<1>5. \A r \in Regs : ChainFollows(binding, DestinationsOf(rob), r) BY <1>2, FollowsChain
<1>6. TablesFollowRob BY <1>3, <1>5 DEF TablesFollowRob, Writers, ChainFollows
<1> QED BY <1>4, <1>6

-----------------------------------------------------------------------------
\* The rename tables hold the destinations of the instructions in the reorder buffer and
\* nothing else, in program order, through every sequence of Decode, Retire and Flush; so
\* what a flush leaves is what the surviving instructions renamed.
THEOREM TablesDoFollowRob ==
  ASSUME DistinctDestinations PROVE RobSpec => []TablesFollowRob
<1>1. RobInit => RobInv BY RobInitFollows
<1>2. RobInv /\ [RobNext]_robVars => RobInv' BY RobStep
<1>3. RobInv => TablesFollowRob BY RobInvMeans
<1> QED BY <1>1, <1>2, <1>3, PTL DEF RobSpec

\* The check the source makes around every operation on the tables never fails.
THEOREM PreconditionDoesHold ==
  ASSUME DistinctDestinations PROVE RobSpec => []PreconditionHolds
<1>1. RobInit => RobInv BY RobInitFollows
<1>2. RobInv /\ [RobNext]_robVars => RobInv' BY RobStep
<1>3. RobInv => PreconditionHolds BY RobInvMeans
<1> QED BY <1>1, <1>2, <1>3, PTL DEF RobSpec

\* Decode, Retire and Flush use the ring as its specification says, so that all that is
\* proved of the ring is true of the reorder buffer: its tags are stable, and it is a
\* bounded sequence.
THEOREM RobIsRing ==
  ASSUME DistinctDestinations
  PROVE  RobSpec => /\ Spec /\ []TypeInvariant /\ []ContainsExact /\ TagStable /\ RefinesDeque
<1>1. RobInit => RobInv /\ Init BY RobInitFollows
<1>2. RobInv /\ [RobNext]_robVars => RobInv' /\ [Next]_vars BY RobStep
<1>3. RobSpec => Spec BY <1>1, <1>2, PTL DEF RobSpec, Spec
<1> QED BY <1>3, TypeCorrect, ContainsIsExact, TagsAreStable, Refinement, PTL
=============================================================================
