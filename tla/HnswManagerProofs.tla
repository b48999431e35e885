--------------------------- MODULE HnswManagerProofs ---------------------------
(***************************************************************************)
(* Proofs about HnswManager, for every value of its constants: the edges   *)
(* of the graph are sound and distinct and deleted slots are hidden, at    *)
(* every store of an insertion and after every restart; and while the      *)
(* graph is whole, searches find the nearest vectors.                      *)
(*                                                                         *)
(* The walks, the beam search and the selection of neighbours are          *)
(* recursive functions.  Each calls itself once, with an argument of less  *)
(* weight, so the first section proves once for all that such a function   *)
(* exists and what its values keep.                                        *)
(***************************************************************************)
EXTENDS HnswManager, WellFoundedInduction, FiniteSetTheorems, SequenceTheorems, TLAPS

-----------------------------------------------------------------------------
(* Recursion.  A function that calls itself once, with an argument of less *)
(* weight, exists, and what holds of its values where it stops and is kept *)
(* by a call holds of all.  The parts of its definition are functions      *)
(* here, as facts about operators cannot be instantiated.                  *)

(* A set of numbers has a least one.                                       *)
LEMMA LeastNumber ==
    ASSUME NEW S \in SUBSET Nat, S # {}
    PROVE  \E n \in S : \A k \in S : n <= k
<1>1. PICK n \in S : \A k \in S : <<k, n>> \notin OpToRel(<, Nat)
  BY NatLessThanWellFounded, WFMin, Zenon
<1>2. \A k \in S : ~(k < n)
  BY <1>1 DEF OpToRel
<1> QED BY <1>2

(* The equation of such a function, on a part of its domain, and what the  *)
(* parts are; the weight m is below N.                                     *)
Calls(g, S, T, Stop, out, next, comb) ==
    \A p \in S : /\ p \in Stop => g[p] = out[p]
                 /\ p \notin Stop /\ g[next[p]] \in T => g[p] = comb[p][g[next[p]]]

Recursive(P, T, Stop, out, next, comb, m, N) ==
    /\ Stop \in SUBSET P /\ out \in [P -> T] /\ next \in [P -> P] /\ comb \in [P -> [T -> T]]
    /\ m \in [P -> Nat] /\ N \in Nat /\ \A p \in P : m[p] < N
    /\ \A p \in P \ Stop : m[next[p]] < m[p]

LEMMA Recursion ==
    ASSUME NEW P, NEW T, NEW Stop, NEW out, NEW next, NEW comb, NEW m, NEW N,
           Recursive(P, T, Stop, out, next, comb, m, N)
    PROVE  \E g \in [P -> T] : Calls(g, P, T, Stop, out, next, comb)
<1> USE DEF Recursive
<1> DEFINE Below(n) == {p \in P : m[p] < n}
           Good(n) == \E g \in [P -> T] : Calls(g, Below(n), T, Stop, out, next, comb)
           Bad == {n \in Nat : ~Good(n)}
<1>1. Good(0)
  <2>1. out \in [P -> T] /\ Calls(out, Below(0), T, Stop, out, next, comb)
    BY DEF Calls
  <2> QED BY <2>1
<1>2. ASSUME NEW n \in Nat, Good(n) PROVE Good(n + 1)
  <2>1. PICK g \in [P -> T] : Calls(g, Below(n), T, Stop, out, next, comb)
    BY <1>2
  <2> DEFINE h == [p \in P |-> IF p \in Stop THEN out[p] ELSE comb[p][g[next[p]]]]
  <2>2. h \in [P -> T]
    OBVIOUS
  <2>3. ASSUME NEW p \in Below(n + 1) \ Stop PROVE h[next[p]] = g[next[p]]
    <3>1. p \in P /\ next[p] \in P /\ m[next[p]] < m[p] /\ m[p] < n + 1 /\ m[p] \in Nat /\ m[next[p]] \in Nat
      BY <2>3
    <3>2. next[p] \in Below(n)
      BY <3>1
    <3>3. next[next[p]] \in P /\ g[next[next[p]]] \in T
      BY <3>1
    <3>4. g[next[p]] = IF next[p] \in Stop THEN out[next[p]] ELSE comb[next[p]][g[next[next[p]]]]
      BY <2>1, <3>1, <3>2, <3>3 DEF Calls
    <3> QED BY <3>1, <3>4
  <2>4. Calls(h, Below(n + 1), T, Stop, out, next, comb)
    <3> SUFFICES ASSUME NEW p \in Below(n + 1)
                 PROVE  /\ p \in Stop => h[p] = out[p]
                        /\ p \notin Stop => h[p] = comb[p][h[next[p]]]
      BY DEF Calls
    <3> QED BY <2>3
  <2> HIDE DEF h
  <2> QED BY <2>2, <2>4
<1>3. Bad = {}
  <2> SUFFICES ASSUME Bad # {} PROVE FALSE
    OBVIOUS
  <2>1. PICK n \in Bad : \A k \in Bad : n <= k
    <3> HIDE DEF Good
    <3> QED BY LeastNumber
  <2>2. n \in Nat /\ ~Good(n)
    OBVIOUS
  <2>3. n # 0
    BY <1>1, <2>2
  <2>4. n - 1 \in Nat /\ n - 1 \notin Bad
    <3> HIDE DEF Good
    <3> QED BY <2>1, <2>2, <2>3
  <2>5. Good(n - 1)
    BY <2>4
  <2> HIDE DEF Good
  <2>6. n - 1 + 1 = n
    BY <2>2
  <2> QED BY <1>2, <2>2, <2>4, <2>5, <2>6
<1>4. PICK g \in [P -> T] : Calls(g, Below(N), T, Stop, out, next, comb)
  BY <1>3
<1>5. Calls(g, P, T, Stop, out, next, comb)
  BY <1>4 DEF Calls
<1> QED BY <1>5

Keeps(R, P, T, Stop, out, next, comb) ==
    /\ R \in SUBSET (P \X T)
    /\ \A p \in Stop : <<p, out[p]>> \in R
    /\ \A p \in P \ Stop : \A t \in T : <<next[p], t>> \in R => <<p, comb[p][t]>> \in R

LEMMA RecursionKeeps ==
    ASSUME NEW P, NEW T, NEW Stop, NEW out, NEW next, NEW comb, NEW m, NEW N,
           Recursive(P, T, Stop, out, next, comb, m, N),
           NEW g, Calls(g, P, T, Stop, out, next, comb),
           NEW R, Keeps(R, P, T, Stop, out, next, comb)
    PROVE  \A p \in P : <<p, g[p]>> \in R
<1> USE DEF Recursive, Keeps
<1> DEFINE Bad == {p \in P : <<p, g[p]>> \notin R}
           Weights == {m[p] : p \in Bad}
<1> SUFFICES ASSUME Bad # {} PROVE FALSE
  OBVIOUS
<1>1. Weights \in SUBSET Nat
  <2>1. \A p \in Bad : m[p] \in Nat
    OBVIOUS
  <2> QED BY <2>1
<1>9. Weights # {}
  <2>1. PICK p \in P : p \in Bad
    OBVIOUS
  <2>2. m[p] \in Weights
    BY <2>1
  <2> QED BY <2>2
<1>2. PICK n \in Weights : \A k \in Weights : n <= k
  <2> HIDE DEF Weights
  <2> QED BY <1>1, <1>9, LeastNumber
<1>3. PICK p \in Bad : n = m[p]
  OBVIOUS
<1>4. p \notin Stop
  BY DEF Calls
<1>5. next[p] \in P /\ m[next[p]] < m[p] /\ m[next[p]] \in Nat /\ m[p] \in Nat
  BY <1>4
<1>6. next[p] \notin Bad
  <2>1. ASSUME next[p] \in Bad PROVE FALSE
    <3>1. m[next[p]] \in Weights
      BY <2>1
    <3>2. m[p] <= m[next[p]]
      <4> HIDE DEF Weights
      <4> QED BY <1>2, <1>3, <3>1
    <3> QED BY <1>5, <3>2
  <2> QED BY <2>1
<1>7. <<next[p], g[next[p]]>> \in R
  BY <1>5, <1>6
<1>8. g[next[p]] \in T
  BY <1>7
<1>10. g[p] = comb[p][g[next[p]]]
  BY <1>4, <1>8 DEF Calls
<1> QED BY <1>4, <1>5, <1>7, <1>8, <1>10

LEMMA RecursionTyped ==
    ASSUME NEW P, NEW T, NEW Stop, NEW out, NEW next, NEW comb, NEW m, NEW N,
           Recursive(P, T, Stop, out, next, comb, m, N),
           NEW g, Calls(g, P, T, Stop, out, next, comb)
    PROVE  \A p \in P : g[p] \in T
<1>1. Keeps(P \X T, P, T, Stop, out, next, comb)
  BY DEF Recursive, Keeps
<1>2. \A p \in P : <<p, g[p]>> \in P \X T
  BY <1>1, RecursionKeeps
<1> QED BY <1>2
-----------------------------------------------------------------------------
(* Order.                                                                  *)
LEMMA LeastIs ==
    ASSUME NEW D, NEW dist \in [D -> Nat], NEW S \in SUBSET D, S # {}
    PROVE  Least(dist, S) \in S /\ \A j \in S : dist[Least(dist, S)] <= dist[j]
<1> DEFINE V == {dist[i] : i \in S}
<1>1. V \in SUBSET Nat
  OBVIOUS
<1>2. V # {}
  OBVIOUS
<1>3. PICK n \in V : \A k \in V : n <= k
  <2> HIDE DEF V
  <2> QED BY <1>1, <1>2, LeastNumber
<1>4. PICK i \in S : n = dist[i]
  OBVIOUS
<1>5. \A j \in S : dist[i] <= dist[j]
  BY <1>3, <1>4
<1> QED BY <1>5 DEF Least

(* The places of a set, each once, from the least value to the greatest.   *)
Enumerates(t, S) == IsInjective(t) /\ ToSet(t) = S
Rises(t, dist) == \A j, k \in DOMAIN t : j <= k => dist[t[j]] <= dist[t[k]]

LEMMA OrderOf ==
    ASSUME NEW D, IsFiniteSet(D), NEW dist \in [D -> Nat]
    PROVE  /\ Order(dist) \in Seq(D) /\ Enumerates(Order(dist), D)
           /\ Rises(Order(dist), dist)
<1> DEFINE P == SUBSET D
           T == Seq(D)
           out == [S \in P |-> <<>>]
           next == [S \in P |-> S \ {Least(dist, S)}]
           comb == [S \in P |-> [t \in T |-> IF S = {} THEN t ELSE <<Least(dist, S)>> \o t]]
           m == [S \in P |-> Cardinality(S)]
           Body(g) == [S \in P |-> IF S = {} THEN <<>>
                                   ELSE <<Least(dist, S)>> \o g[S \ {Least(dist, S)}]]
<1>1. Recursive(P, T, {{}}, out, next, comb, m, Cardinality(D) + 1)
  <2>1. out \in [P -> T]
    BY EmptySeq
  <2>2. next \in [P -> P]
    OBVIOUS
  <2>3. comb \in [P -> [T -> T]]
    <3> SUFFICES ASSUME NEW S \in P, NEW t \in T, S # {} PROVE <<Least(dist, S)>> \o t \in T
      OBVIOUS
    <3> QED BY LeastIs
  <2>4. \A S \in P : IsFiniteSet(S) /\ Cardinality(S) \in Nat /\ Cardinality(S) <= Cardinality(D)
    BY FS_Subset, FS_CardinalityType
  <2>5. Cardinality(D) \in Nat
    BY FS_CardinalityType
  <2>6. \A S \in P \ {{}} : m[next[S]] < m[S]
    <3> SUFFICES ASSUME NEW S \in P, S # {} PROVE Cardinality(S \ {Least(dist, S)}) < Cardinality(S)
      BY <2>2
    <3>1. Least(dist, S) \in S
      BY LeastIs
    <3>2. Cardinality(S \ {Least(dist, S)}) = Cardinality(S) - 1
      BY <2>4, <3>1, FS_RemoveElement
    <3> QED BY <2>4, <3>2
  <2>7. m \in [P -> Nat] /\ \A S \in P : m[S] < Cardinality(D) + 1
    BY <2>4, <2>5
  <2>8. {{}} \in SUBSET P /\ Cardinality(D) + 1 \in Nat
    BY <2>5
  <2> HIDE DEF out, next, comb, m, P, T
  <2> QED BY <2>1, <2>2, <2>3, <2>6, <2>7, <2>8 DEF Recursive
<1>2. ASSUME NEW g, Calls(g, P, T, {{}}, out, next, comb), g \in [P -> T] PROVE g = Body(g)
  <2> SUFFICES ASSUME NEW S \in P PROVE g[S] = Body(g)[S]
    BY <1>2
  <2>1. next[S] \in P /\ g[next[S]] \in T
    BY <1>2
  <2>2. g[S] = IF S = {} THEN out[S] ELSE comb[S][g[next[S]]]
    BY <1>2, <2>1 DEF Calls
  <2> QED BY <1>2, <2>1, <2>2
<1>3. \E g : g = Body(g)
  <2>1. PICK g \in [P -> T] : Calls(g, P, T, {{}}, out, next, comb)
    BY <1>1, Recursion
  <2> QED BY <1>2, <2>1
<1> DEFINE order == CHOOSE g : g = Body(g)
<1>4. order = Body(order)
  <2> HIDE DEF Body
  <2> QED BY <1>3
<1>5. Order(dist) = order[D]
  <2>1. DOMAIN dist = D
    OBVIOUS
  <2> QED BY <2>1, Zenon DEF Order
<1>6. Calls(order, P, T, {{}}, out, next, comb)
  <2> SUFFICES ASSUME NEW S \in P
               PROVE  /\ S = {} => order[S] = out[S]
                      /\ S # {} /\ order[next[S]] \in T => order[S] = comb[S][order[next[S]]]
    BY DEF Calls
  <2>1. order[S] = Body(order)[S]
    BY <1>4
  <2> HIDE DEF order
  <2> QED BY <2>1
<1> DEFINE Within(S, t) == Enumerates(t, S) /\ Rises(t, dist)
           R == {r \in P \X T : Within(r[1], r[2])}
<1>11. /\ R \in SUBSET (P \X T)
      /\ \A S \in P, t \in T : <<S, t>> \in R <=> Within(S, t)
  <2> HIDE DEF Within, P, T
  <2> QED OBVIOUS
<1>7. Keeps(R, P, T, {{}}, out, next, comb)
  <2>1. ASSUME NEW S \in P \ {{}}, NEW t \in T, <<next[S], t>> \in R
        PROVE  <<S, comb[S][t]>> \in R
    <3> DEFINE i == Least(dist, S)
               u == <<i>> \o t
    <3>1. i \in S /\ i \in D
      BY <2>1, LeastIs
    <3>10. Within(S \ {i}, t)
      <4> HIDE DEF R
      <4> QED BY <2>1, <1>11
    <3>2. /\ Len(t) \in Nat /\ DOMAIN t = 1 .. Len(t) /\ \A k \in DOMAIN t : t[k] \in S \ {i}
          /\ \A j \in S \ {i} : \E k \in DOMAIN t : t[k] = j
      BY <3>10 DEF Enumerates, ToSet
    <3>3. /\ \A j, k \in DOMAIN t : t[j] = t[k] => j = k
          /\ \A j, k \in DOMAIN t : j <= k => dist[t[j]] <= dist[t[k]]
      BY <3>10 DEF Enumerates, Rises, IsInjective
    <3>4. u \in Seq(D) /\ Len(u) = 1 + Len(t)
      BY <3>1, <3>2
    <3>5. \A k \in DOMAIN u : u[k] = IF k = 1 THEN i ELSE t[k - 1]
      BY <3>1, <3>2
    <3>6. \A k \in DOMAIN u : k \in Nat /\ (k = 1 \/ k - 1 \in DOMAIN t)
      BY <3>2, <3>4
    <3>7. \A k \in DOMAIN u : u[k] \in S
      BY <3>1, <3>2, <3>5, <3>6
    <3>8. IsInjective(u)
      <4> SUFFICES ASSUME NEW j \in DOMAIN u, NEW k \in DOMAIN u, u[j] = u[k] PROVE j = k
        BY DEF IsInjective
      <4> HIDE DEF u, i
      <4>1. CASE j = 1 \/ k = 1
        BY <4>1, <3>2, <3>5, <3>6
      <4>2. CASE j # 1 /\ k # 1
        <5>1. t[j - 1] = t[k - 1]
          BY <4>2, <3>5
        <5> QED BY <4>2, <5>1, <3>3, <3>6
      <4> QED BY <4>1, <4>2
    <3>9. comb[S][t] = u
      BY <2>1
    <3>11. ASSUME NEW j \in S PROVE \E k \in DOMAIN u : u[k] = j
      <4>1. CASE j = i
        <5>1. 1 \in DOMAIN u
          BY <3>2, <3>4
        <5> QED BY <4>1, <5>1, <3>5
      <4>2. CASE j # i
        <5>1. PICK k \in DOMAIN t : t[k] = j
          BY <4>2, <3>2
        <5>2. k + 1 \in DOMAIN u /\ k + 1 # 1 /\ k + 1 - 1 = k
          BY <3>2, <3>4
        <5> HIDE DEF u
        <5> QED BY <5>1, <5>2, <3>5
      <4> QED BY <4>1, <4>2
    <3>12. Enumerates(u, S)
      <4> HIDE DEF u
      <4> QED BY <3>7, <3>8, <3>11 DEF Enumerates, ToSet
    <3>13. Rises(u, dist)
      <4> SUFFICES ASSUME NEW j \in DOMAIN u, NEW k \in DOMAIN u, j <= k
                   PROVE  dist[u[j]] <= dist[u[k]]
        BY DEF Rises
      <4> HIDE DEF u
      <4>1. CASE j = 1
        <5>1. \A h \in S : dist[i] <= dist[h]
          BY <2>1, LeastIs DEF i
        <5> QED BY <4>1, <5>1, <3>5, <3>7
      <4>2. CASE j # 1
        <5>1. k # 1 /\ j - 1 <= k - 1
          BY <4>2, <3>6
        <5>2. dist[t[j - 1]] <= dist[t[k - 1]]
          BY <4>2, <5>1, <3>3, <3>6
        <5> QED BY <4>2, <5>1, <5>2, <3>5
      <4> QED BY <4>1, <4>2
    <3> HIDE DEF u, comb, R
    <3> QED BY <3>4, <3>9, <3>12, <3>13, <1>11
  <2>2. \A S \in {{}} : <<S, out[S]>> \in R
    <3>1. Within({}, <<>>) /\ <<>> \in T /\ out[{}] = <<>>
      BY EmptySeq DEF Enumerates, Rises, IsInjective, ToSet
    <3> HIDE DEF R, Within
    <3> QED BY <3>1, <1>11
  <2> HIDE DEF R, out, next, comb, P, T
  <2> QED BY <2>1, <2>2, <1>11 DEF Keeps
<1>8. \A S \in P : <<S, order[S]>> \in R
  <2> HIDE DEF out, next, comb, m, P, T, order, R
  <2> QED BY <1>1, <1>6, <1>7, RecursionKeeps
<1>9. D \in P
  OBVIOUS
<1>10. order[D] \in T /\ Within(D, order[D])
  <2>1. <<D, order[D]>> \in R
    BY <1>8, <1>9
  <2>2. order[D] \in T
    <3> HIDE DEF R, order, P, T
    <3> QED BY <1>11, <2>1
  <2> HIDE DEF R, order, Within
  <2> QED BY <1>9, <1>11, <2>1, <2>2
<1> QED BY <1>5, <1>10
-----------------------------------------------------------------------------
(* The inductive invariant.                                                *)

(* What is counted has a vector, answers are about counted slots, and the  *)
(* entry point of a graph is one.                                          *)
CountedInv ==
    /\ \A i \in UsedSlots : float_block[i] \in Vecs
    /\ \A i \in Slots : acked[i] # "unused" => i \in UsedSlots
    /\ is_initialized => hnsw_entry_point \in UsedSlots

(* The slot being inserted and those it has yet to be linked with.         *)
OpInv ==
    /\ ~Free => op.slot \in UsedSlots
    /\ op.pc = "initialize" => hnsw_entry_point = op.slot
    /\ op.pc \in {"connect", "set", "link"} => op.curr \in UsedSlots
    /\ op.pc = "link" => op.todo # <<>>
    /\ op.todo \in Seq(UsedSlots \ {op.slot}) /\ IsInjective(op.todo)

(* What is being written over a list is a list like the others, and one    *)
(* with the new slot in it is that of a neighbour that is done.            *)
SetInv ==
    op.pc = "set" =>
        /\ op.into \in UsedSlots
        /\ Len(op.list) = m_max(op.at)
        /\ ToSet(op.list) \subseteq (UsedSlots \ {op.into}) \cup {EMPTY}
        /\ op.slot \in ToSet(op.list) => op.into \notin ToSet(op.todo)
        /\ <<op.into, op.at>> \in torn \/ \A x \in Slots \ again : Once(x, op.list)

(* No walk meets the slot being inserted at a level that is not linked     *)
(* yet: nothing leads to it but the edges back it has been given.          *)
Apart ==
    /\ op.pc = "enter" /\ is_initialized => hnsw_entry_point # op.slot
    /\ op.pc \in {"connect", "set", "link"} => op.curr # op.slot
    /\ \A i \in Slots, l \in Levels : op.slot \in Neighbors(i, l) =>
          /\ op.pc \in {"connect", "set", "link"}
          /\ l > op.at \/ (op.pc \in {"set", "link"} /\ l = op.at /\ i \notin ToSet(op.todo))

(* A slot is apart until it is linked, or, inserted again, still flagged.  *)
LinkInv ==
    op.pc \in {"enter", "connect", "set", "link"} =>
        Apart \/ (op.slot \in again /\ deleted_flags[op.slot])

(* An answered deletion is in both records of it.                          *)
FlagInv == \A i \in Slots : acked[i] = "deleted" => i \in tombstones /\ deleted_flags[i]

IInv == /\ TypeOK /\ CountedInv /\ OpInv /\ SetInv /\ LinkInv /\ FlagInv
        /\ EdgesAreSound /\ EdgesAreDistinct

(* The floats of the counted slots, for the distances to them.             *)
Placed == \A i \in UsedSlots : float_block[i] \in Int \X Int

LEMMA SlotsAreFinite ==
    ASSUME TypeOK
    PROVE  /\ UsedSlots \subseteq Slots /\ vector_count \in Nat
           /\ \A S \in SUBSET UsedSlots : IsFiniteSet(S) /\ Cardinality(S) \in Nat
<1>1. vector_count \in Nat /\ UsedSlots \subseteq Slots
  BY GraphAssumption DEF TypeOK, UsedSlots, Slots
<1>2. IsFiniteSet(UsedSlots)
  BY <1>1, FS_Interval DEF UsedSlots
<1> QED BY <1>1, <1>2, FS_Subset, FS_CardinalityType

LEMMA DistIs ==
    ASSUME Placed, NEW q \in Int \X Int, NEW i \in UsedSlots
    PROVE  Dist(q, i) \in Nat
<1>1. PICK a \in Int, b \in Int : float_block[i] = <<a, b>>
  BY DEF Placed
<1>2. PICK c \in Int, d \in Int : q = <<c, d>>
  OBVIOUS
<1>3. Dist(q, i) = (c - a) * (c - a) + (d - b) * (d - b)
  BY <1>1, <1>2 DEF Dist, l2
<1>4. \A x \in Int : x * x \in Int /\ x * x >= 0
  OBVIOUS
<1> QED BY <1>3, <1>4

LEMMA DistsAre ==
    ASSUME Placed, NEW q \in Int \X Int, NEW S \in SUBSET UsedSlots
    PROVE  Dists(q, S) \in [S -> Nat]
BY DistIs DEF Dists

LEMMA ClosestIs ==
    ASSUME Placed, NEW q \in Int \X Int, NEW S \in SUBSET UsedSlots, S # {}
    PROVE  /\ Closest(q, S) \in S
           /\ \A i \in S : Dist(q, Closest(q, S)) <= Dist(q, i)
<1>1. Dists(q, S) \in [S -> Nat]
  BY DistsAre
<1> QED BY <1>1, LeastIs DEF Closest, Dists

(* A list of different elements is as long as their set is large.          *)
LEMMA LengthIs ==
    ASSUME NEW S, NEW t \in Seq(S), IsInjective(t)
    PROVE  IsFiniteSet(ToSet(t)) /\ Cardinality(ToSet(t)) = Len(t)
<1>1. Len(t) \in Nat /\ DOMAIN t = 1 .. Len(t) /\ t = [k \in 1 .. Len(t) |-> t[k]]
  BY LenProperties
<1>2. t \in [1 .. Len(t) -> ToSet(t)]
  BY <1>1 DEF ToSet
<1>3. t \in Bijection(1 .. Len(t), ToSet(t))
  BY <1>1, <1>2 DEF ToSet, IsInjective, Bijection, Injection, Surjection
<1>4. ExistsBijection(1 .. Len(t), ToSet(t))
  BY <1>3 DEF ExistsBijection
<1>5. IsFiniteSet(1 .. Len(t)) /\ Cardinality(1 .. Len(t)) = Len(t)
  <2>1. \A n \in Nat : IsFiniteSet(1 .. n) /\ Cardinality(1 .. n) = n
    BY FS_Interval
  <2> QED BY <1>1, <2>1
<1> QED BY <1>4, <1>5, FS_Bijection

LEMMA SortedIs ==
    ASSUME TypeOK, Placed, NEW q \in Int \X Int, NEW S \in SUBSET UsedSlots
    PROVE  /\ Sorted(q, S) \in Seq(S) /\ Enumerates(Sorted(q, S), S)
           /\ \A j, k \in DOMAIN Sorted(q, S) :
                 j <= k => Dist(q, Sorted(q, S)[j]) <= Dist(q, Sorted(q, S)[k])
           /\ Len(Sorted(q, S)) = Cardinality(S)
<1> DEFINE t == Sorted(q, S)
<1>1. t \in Seq(S) /\ Enumerates(t, S) /\ Rises(t, Dists(q, S))
  BY DistsAre, SlotsAreFinite, OrderOf DEF Sorted
<1> HIDE DEF t
<1>2. \A k \in DOMAIN t : t[k] \in S
  BY <1>1, ElementOfSeq
<1>3. \A j, k \in DOMAIN t : j <= k => Dist(q, t[j]) <= Dist(q, t[k])
  BY <1>1, <1>2 DEF Rises, Dists
<1>4. Len(t) = Cardinality(S)
  BY <1>1, LengthIs DEF Enumerates
<1> QED BY <1>1, <1>3, <1>4 DEF t

(* The n nearest of a larger set: n of them, and no other one is nearer.   *)
LEMMA NearestIs ==
    ASSUME TypeOK, Placed, NEW q \in Int \X Int, NEW S \in SUBSET UsedSlots, NEW n \in Nat
    PROVE  /\ Nearest(q, n, S) \subseteq S
           /\ Cardinality(S) <= n => Nearest(q, n, S) = S
           /\ Cardinality(S) > n =>
                 /\ Cardinality(Nearest(q, n, S)) = n
                 /\ \A j \in Nearest(q, n, S), i \in S \ Nearest(q, n, S) : Dist(q, j) <= Dist(q, i)
<1> DEFINE t == Sorted(q, S)
           X == Nearest(q, n, S)
<1>1. /\ t \in Seq(S) /\ Len(t) = Cardinality(S) /\ Enumerates(t, S)
      /\ \A j, k \in DOMAIN t : j <= k => Dist(q, t[j]) <= Dist(q, t[k])
  BY SortedIs
<1>2. X = IF Cardinality(S) <= n THEN S ELSE {t[k] : k \in {k \in DOMAIN t : k <= n}}
  BY Zenon DEF Nearest
<1> HIDE DEF t, X
<1>3. /\ Cardinality(S) \in Nat /\ DOMAIN t = 1 .. Len(t)
      /\ \A k \in DOMAIN t : t[k] \in S
  BY <1>1, SlotsAreFinite, ElementOfSeq
<1>4. X \subseteq S
  BY <1>2, <1>3
<1>5. ASSUME Cardinality(S) > n PROVE Cardinality(X) = n
  <2> DEFINE u == SubSeq(t, 1, n)
  <2>1. u \in Seq(S) /\ Len(u) = n /\ \A k \in 1 .. n : u[k] = t[k]
    BY <1>1, <1>3, <1>5
  <2>2. DOMAIN u = 1 .. n
    BY <2>1
  <2> HIDE DEF u
  <2>3. \A k \in 1 .. n : k \in DOMAIN t
    BY <1>1, <1>3, <1>5
  <2>4. IsInjective(u)
    BY <1>1, <2>1, <2>2, <2>3 DEF Enumerates, IsInjective
  <2>5. \A k \in DOMAIN t : k <= n <=> k \in 1 .. n
    BY <1>1, <1>3
  <2>6. ToSet(u) = X
    BY <1>2, <1>3, <1>5, <2>1, <2>2, <2>3, <2>5 DEF ToSet
  <2> QED BY <2>1, <2>4, <2>6, LengthIs
<1>6. ASSUME Cardinality(S) > n, NEW j \in X, NEW i \in S \ X PROVE Dist(q, j) <= Dist(q, i)
  <2>1. PICK k \in DOMAIN t : k <= n /\ j = t[k]
    BY <1>2, <1>3, <1>6
  <2>2. PICK h \in DOMAIN t : i = t[h]
    BY <1>1 DEF Enumerates, ToSet
  <2>3. h > n
    BY <1>2, <1>3, <1>6, <2>2
  <2> QED BY <1>1, <1>3, <2>1, <2>2, <2>3
<1>7. Cardinality(S) <= n => X = S
  BY <1>2
<1> QED BY <1>4, <1>5, <1>6, <1>7 DEF X

-----------------------------------------------------------------------------
(* The walks.  Each stays in a set of counted slots that no edge leaves.   *)

Closed(A, l) == A \subseteq UsedSlots /\ \A i \in A : LiveNeighbors(i, l) \subseteq A

LEMMA WalkIs ==
    ASSUME TypeOK, Placed, NEW q \in Int \X Int, NEW l, Closed(UsedSlots, l),
           NEW A, Closed(A, l), NEW from \in A
    PROVE  Walk(q, from, l) \in A
<1> DEFINE near(i) == Nearer(q, i, LiveNeighbors(i, l))
           Stop(B) == {i \in B : near(i) = {}}
           out(B) == [i \in B |-> i]
           next(B) == [i \in B |-> IF near(i) = {} THEN i ELSE Closest(q, near(i))]
           comb(B) == [i \in B |-> [t \in B |-> t]]
           m(B) == [i \in B |-> Cardinality(Nearer(q, i, UsedSlots))]
           N == Cardinality(UsedSlots) + 1
           Body(g) == [i \in UsedSlots |->
                          LET nearer == Nearer(q, i, LiveNeighbors(i, l))
                          IN  IF nearer = {} THEN i ELSE g[Closest(q, nearer)]]
           walk == CHOOSE g : g = Body(g)
<1>1. Walk(q, from, l) = walk[from]
  BY Zenon DEF Walk
<1>2. ASSUME NEW B, Closed(B, l) PROVE Recursive(B, B, Stop(B), out(B), next(B), comb(B), m(B), N)
  <2>1. \A i \in B : near(i) \subseteq B /\ near(i) \subseteq UsedSlots /\ i \in UsedSlots
    BY <1>2 DEF Closed, Nearer
  <2>2. \A i \in B : near(i) # {} => Closest(q, near(i)) \in near(i)
    BY <2>1, ClosestIs
  <2>3. next(B) \in [B -> B]
    BY <2>1, <2>2
  <2>4. \A i \in UsedSlots : Nearer(q, i, UsedSlots) \in SUBSET UsedSlots
    BY DEF Nearer
  <2>5. N \in Nat /\ \A i \in UsedSlots : Cardinality(Nearer(q, i, UsedSlots)) \in Nat
    BY <2>4, SlotsAreFinite
  <2>6. \A i \in UsedSlots : Cardinality(Nearer(q, i, UsedSlots)) < N
    BY <2>4, <2>5, SlotsAreFinite, FS_Subset
  <2>7. ASSUME NEW i \in B, near(i) # {}
        PROVE  Cardinality(Nearer(q, Closest(q, near(i)), UsedSlots)) < Cardinality(Nearer(q, i, UsedSlots))
    <3> DEFINE j == Closest(q, near(i))
    <3>1. j \in UsedSlots /\ i \in UsedSlots /\ Dist(q, j) < Dist(q, i)
      BY <2>1, <2>2, <2>7 DEF Nearer
    <3> HIDE DEF j, near
    <3>2. Dist(q, i) \in Nat /\ Dist(q, j) \in Nat
      BY <3>1, DistIs
    <3>3. Nearer(q, j, UsedSlots) \subseteq Nearer(q, i, UsedSlots)
      BY <3>1, <3>2, DistIs DEF Nearer
    <3>4. j \in Nearer(q, i, UsedSlots) /\ j \notin Nearer(q, j, UsedSlots)
      BY <3>1, <3>2 DEF Nearer
    <3>5. IsFiniteSet(Nearer(q, i, UsedSlots)) /\ Nearer(q, j, UsedSlots) # Nearer(q, i, UsedSlots)
      BY <2>4, <3>1, <3>4, SlotsAreFinite
    <3>6. Cardinality(Nearer(q, j, UsedSlots)) < Cardinality(Nearer(q, i, UsedSlots))
      BY <2>5, <3>1, <3>3, <3>5, FS_Subset
    <3> QED BY <3>6 DEF j, near
  <2>8. m(B) \in [B -> Nat] /\ \A i \in B : m(B)[i] < N
    BY <2>1, <2>5, <2>6
  <2>9. \A i \in B \ Stop(B) : m(B)[next(B)[i]] < m(B)[i]
    BY <2>3, <2>7
  <2>10. Stop(B) \in SUBSET B /\ out(B) \in [B -> B] /\ comb(B) \in [B -> [B -> B]]
    OBVIOUS
  <2> HIDE DEF Stop, out, next, comb, m, N
  <2> QED BY <2>3, <2>5, <2>8, <2>9, <2>10 DEF Recursive
<1>3. \E g : g = Body(g)
  <2> DEFINE B == UsedSlots
  <2>1. PICK g \in [B -> B] : Calls(g, B, B, Stop(B), out(B), next(B), comb(B))
    <3> HIDE DEF B, Stop, out, next, comb, m, N
    <3> QED BY <1>2, Recursion DEF B
  <2>2. next(B) \in [B -> B]
    BY <1>2 DEF Recursive
  <2>3. \A i \in B : g[i] = IF near(i) = {} THEN i ELSE g[Closest(q, near(i))]
    BY <2>1, <2>2 DEF Calls
  <2>4. g = Body(g)
    BY <2>3
  <2> QED BY <2>4
<1>4. walk = Body(walk)
  <2> HIDE DEF Body
  <2> QED BY <1>3
<1>5. Calls(walk, A, A, Stop(A), out(A), next(A), comb(A))
  <2>1. \A i \in A : walk[i] = IF near(i) = {} THEN i ELSE walk[Closest(q, near(i))]
    <3> HIDE DEF walk
    <3> QED BY <1>4 DEF Closed
  <2> HIDE DEF walk, near
  <2> QED BY <2>1 DEF Calls
<1>6. \A i \in A : walk[i] \in A
  <2> HIDE DEF walk, Stop, out, next, comb, m, N
  <2> QED BY <1>2, <1>5, RecursionTyped
<1> QED BY <1>1, <1>6

LEMMA DescendIs ==
    ASSUME TypeOK, Placed, NEW q \in Int \X Int, NEW level \in Levels,
           \A l \in Levels : Closed(UsedSlots, l), hnsw_entry_point \in UsedSlots,
           NEW A, hnsw_entry_point \in A, \A l \in Levels : l > level => Closed(A, l)
    PROVE  Descend(q, level) \in A
<1> DEFINE top == hnsw_max_level
           From(k) == {l \in Nat : l > k}
           Stop(k) == {l \in From(k) : l > top}
           out(k) == [l \in From(k) |-> hnsw_entry_point]
           next(k) == [l \in From(k) |-> l + 1]
           comb(k, B) == [l \in From(k) |-> [t \in B |-> IF l > top THEN t ELSE Walk(q, t, l)]]
           m(k) == [l \in From(k) |-> IF l > top THEN 0 ELSE top + 1 - l]
           Body(g) == [l \in Nat |-> IF l > hnsw_max_level THEN hnsw_entry_point
                                     ELSE Walk(q, g[l + 1], l)]
           down == CHOOSE g : g = Body(g)
<1>1. Descend(q, level) = down[level + 1]
  BY Zenon DEF Descend
<1>2. top \in Nat /\ level \in Nat /\ \A l \in Nat : l <= top => l \in Levels
  BY GraphAssumption DEF TypeOK, Levels
<1>3. ASSUME NEW k \in Int, NEW B, hnsw_entry_point \in B, \A l \in Levels : l > k => Closed(B, l)
      PROVE  Recursive(From(k), B, Stop(k), out(k), next(k), comb(k, B), m(k), top + 2)
  <2>1. next(k) \in [From(k) -> From(k)] /\ out(k) \in [From(k) -> B] /\ Stop(k) \in SUBSET From(k)
    BY <1>3
  <2>2. \A l \in From(k), t \in B : l <= top => Walk(q, t, l) \in B
    BY <1>2, <1>3, WalkIs
  <2>3. comb(k, B) \in [From(k) -> [B -> B]]
    BY <1>2, <2>2
  <2>4. m(k) \in [From(k) -> Nat] /\ \A l \in From(k) : m(k)[l] < top + 2
    BY <1>2
  <2>5. \A l \in From(k) \ Stop(k) : m(k)[next(k)[l]] < m(k)[l]
    <3> SUFFICES ASSUME NEW l \in From(k), ~(l > top) PROVE m(k)[l + 1] < m(k)[l]
      OBVIOUS
    <3>1. l + 1 \in From(k)
      BY <1>3
    <3> QED BY <1>2, <3>1
  <2>6. top + 2 \in Nat
    BY <1>2
  <2> HIDE DEF From, Stop, out, next, comb, m, top
  <2> QED BY <2>1, <2>3, <2>4, <2>5, <2>6 DEF Recursive
<1>4. \E g : g = Body(g)
  <2> DEFINE B == UsedSlots
             P == From(-1)
  <2>1. PICK g \in [P -> B] : Calls(g, P, B, Stop(-1), out(-1), next(-1), comb(-1, B))
    <3>1. Recursive(P, B, Stop(-1), out(-1), next(-1), comb(-1, B), m(-1), top + 2)
      <4> HIDE DEF Stop, out, next, comb, m, top, From
      <4> QED BY <1>3
    <3> HIDE DEF B, P, Stop, out, next, comb, m
    <3> QED BY <3>1, Recursion
  <2>2. P = Nat
    OBVIOUS
  <2>3. \A l \in P : g[l] = IF l > top THEN hnsw_entry_point ELSE Walk(q, g[l + 1], l)
    <3> SUFFICES ASSUME NEW l \in P
                 PROVE  g[l] = IF l > top THEN hnsw_entry_point ELSE Walk(q, g[l + 1], l)
      OBVIOUS
    <3>1. l + 1 \in P /\ g[l + 1] \in B
      BY <2>2
    <3> QED BY <2>1, <3>1 DEF Calls
  <2>4. g = Body(g)
    BY <2>2, <2>3
  <2> QED BY <2>4
<1>5. down = Body(down)
  <2> HIDE DEF Body
  <2> QED BY <1>4
<1>6. Calls(down, From(level), A, Stop(level), out(level), next(level), comb(level, A))
  <2>1. \A l \in From(level) : down[l] = IF l > top THEN hnsw_entry_point ELSE Walk(q, down[l + 1], l)
    <3> HIDE DEF down
    <3> QED BY <1>5
  <2> HIDE DEF down
  <2> QED BY <2>1 DEF Calls
<1>7. \A l \in From(level) : down[l] \in A
  <2>1. level \in Int
    BY <1>2
  <2>2. Recursive(From(level), A, Stop(level), out(level), next(level), comb(level, A), m(level), top + 2)
    <3> HIDE DEF Stop, out, next, comb, m, top, From
    <3> QED BY <1>3, <2>1
  <2> HIDE DEF down, Stop, out, next, comb, m, From
  <2> QED BY <1>6, <2>2, RecursionTyped
<1>8. level + 1 \in From(level)
  BY <1>2
<1> QED BY <1>1, <1>7, <1>8

(* What an expansion makes of a beam whose candidates are in C and whose   *)
(* results are in V; the slots it has not met and its candidates become    *)
(* fewer.                                                                  *)
BeamsIn(C, V) == {s \in Beams : s.cand \subseteq C /\ s.res \subseteq V}
Weight(s) == Cardinality(s.cand) + 2 * Cardinality(UsedSlots \ s.seen)

LEMMA WeightIs ==
    ASSUME TypeOK, NEW s \in Beams
    PROVE  Weight(s) \in Nat /\ Weight(s) < 3 * Cardinality(UsedSlots) + 1
<1>1. s.cand \in SUBSET UsedSlots /\ UsedSlots \ s.seen \in SUBSET UsedSlots
  BY DEF Beams
<1>2. /\ Cardinality(s.cand) \in Nat /\ Cardinality(UsedSlots \ s.seen) \in Nat
      /\ Cardinality(UsedSlots) \in Nat /\ IsFiniteSet(UsedSlots)
  BY <1>1, SlotsAreFinite
<1>3. /\ Cardinality(s.cand) <= Cardinality(UsedSlots)
      /\ Cardinality(UsedSlots \ s.seen) <= Cardinality(UsedSlots)
  BY <1>1, <1>2, FS_Subset
<1> QED BY <1>2, <1>3 DEF Weight

(* A slot that was met and is not flagged is among the results, or these   *)
(* are as many as were asked for and none of them is farther.              *)
Covered(q, ef, i, res) ==
    i \in res \/ (Cardinality(res) >= ef /\ \A r \in res : Dist(q, r) <= Dist(q, i))

Fair(q, ef, s) ==
    s.res \subseteq s.seen /\ \A i \in s.seen : ~deleted_flags[i] => Covered(q, ef, i, s.res)

LEMMA MeetIs ==
    ASSUME TypeOK, Placed, NEW q \in Int \X Int, NEW ef \in Nat,
           NEW C \in SUBSET UsedSlots, NEW V \in SUBSET UsedSlots, NEW s \in BeamsIn(C, V),
           NEW j, j # EMPTY /\ ~deleted_flags[j] => j \in C /\ j \in V
    PROVE  /\ Meet(q, ef, s, j) \in BeamsIn(C, V)
           /\ Weight(Meet(q, ef, s, j)) <= Weight(s)
           /\ Fair(q, ef, s) => Fair(q, ef, Meet(q, ef, s, j))
           /\ s.seen \subseteq Meet(q, ef, s, j).seen
           /\ j # EMPTY /\ ~deleted_flags[j] => j \in Meet(q, ef, s, j).seen
<1> DEFINE x == Meet(q, ef, s, j)
           all == s.res \cup {j}
           best == Nearest(q, ef, all)
           better == Cardinality(s.res) < ef \/ \E i \in s.res : Dist(q, j) < Dist(q, i)
<1>1. /\ s.cand \in SUBSET UsedSlots /\ s.res \in SUBSET UsedSlots /\ s.seen \in SUBSET UsedSlots
      /\ s.cand \subseteq C /\ s.res \subseteq V /\ s \in Beams
  BY DEF BeamsIn, Beams
<1>2. CASE j = EMPTY \/ deleted_flags[j] \/ j \in s.seen
  <2>1. x = s
    BY <1>2 DEF Meet
  <2>2. Weight(s) \in Nat
    BY <1>1, WeightIs
  <2> QED BY <1>2, <2>1, <2>2
<1>3. CASE ~(j = EMPTY \/ deleted_flags[j] \/ j \in s.seen)
  <2>1. j \in C /\ j \in V /\ j \in UsedSlots /\ j \notin s.seen
    BY <1>3
  <2>2. x = IF better THEN [cand |-> s.cand \cup {j}, res |-> best, seen |-> s.seen \cup {j}]
            ELSE [s EXCEPT !.seen = @ \cup {j}]
    BY <1>3, Zenon DEF Meet
  <2>3. x.seen = s.seen \cup {j} /\ x.cand \subseteq s.cand \cup {j}
    BY <1>1, <2>2 DEF Beams
  <2>4. all \in SUBSET UsedSlots
    BY <1>1, <2>1
  <2> HIDE DEF better
  <2>5. /\ best \subseteq all
        /\ Cardinality(all) <= ef => best = all
        /\ Cardinality(all) > ef =>
              /\ Cardinality(best) = ef
              /\ \A k \in best, i \in all \ best : Dist(q, k) <= Dist(q, i)
    BY <2>4, NearestIs
  <2> HIDE DEF best
  <2>6. x \in BeamsIn(C, V)
    BY <1>1, <2>1, <2>2, <2>5 DEF BeamsIn, Beams
  <2>7. Weight(x) <= Weight(s)
    <3> DEFINE unmet == UsedSlots \ s.seen
    <3>1. UsedSlots \ x.seen = unmet \ {j} /\ j \in unmet
      BY <2>1, <2>3
    <3>2. IsFiniteSet(unmet) /\ IsFiniteSet(s.cand) /\ IsFiniteSet(s.cand \cup {j})
      BY <1>1, <2>1, SlotsAreFinite
    <3>3. Cardinality(unmet \ {j}) = Cardinality(unmet) - 1
      BY <3>1, <3>2, FS_RemoveElement
    <3>4. Cardinality(s.cand \cup {j}) <= Cardinality(s.cand) + 1
      <4>1. Cardinality(s.cand) \in Nat
        BY <3>2, FS_CardinalityType
      <4> QED BY <3>2, <4>1, FS_AddElement
    <3>5. Cardinality(x.cand) <= Cardinality(s.cand \cup {j})
      BY <2>3, <3>2, FS_Subset
    <3>6. x.cand \in SUBSET UsedSlots /\ s.cand \cup {j} \in SUBSET UsedSlots
      BY <1>1, <2>1, <2>3
    <3>7. /\ Cardinality(x.cand) \in Nat /\ Cardinality(s.cand) \in Nat /\ Cardinality(unmet) \in Nat
          /\ Cardinality(s.cand \cup {j}) \in Nat
      BY <1>1, <3>2, <3>6, SlotsAreFinite
    <3>8. Weight(x) = Cardinality(x.cand) + 2 * Cardinality(unmet \ {j})
      BY <3>1 DEF Weight
    <3>9. Weight(s) = Cardinality(s.cand) + 2 * Cardinality(unmet)
      BY DEF Weight
    <3> HIDE DEF x, unmet
    <3> QED BY <3>3, <3>4, <3>5, <3>7, <3>8, <3>9
  <2>8. ASSUME Fair(q, ef, s) PROVE Fair(q, ef, x)
    <3>1. /\ s.res \subseteq s.seen
          /\ \A i \in s.seen : ~deleted_flags[i] => Covered(q, ef, i, s.res)
      BY <2>8 DEF Fair
    <3>2. IsFiniteSet(s.res) /\ Cardinality(s.res) \in Nat /\ j \notin s.res
      BY <1>1, <2>1, <3>1, SlotsAreFinite
    <3>3. Cardinality(all) = Cardinality(s.res) + 1
      BY <3>2, FS_AddElement
    <3>4. \A i \in UsedSlots : Dist(q, i) \in Nat
      BY DistIs
    <3>5. CASE better
      <4>1. x.res = best
        BY <2>2, <3>5
      <4>2. ASSUME NEW i \in s.seen \cup {j}, ~deleted_flags[i] PROVE Covered(q, ef, i, best)
        <5>1. CASE i \in all
          <6>1. CASE Cardinality(all) <= ef
            BY <2>5, <5>1, <6>1 DEF Covered
          <6>2. CASE Cardinality(all) > ef
            BY <2>5, <5>1, <6>2 DEF Covered
          <6> QED BY <3>2, <3>3, <6>1, <6>2
        <5>2. CASE i \notin all
          <6>1. Cardinality(s.res) >= ef /\ \A r \in s.res : Dist(q, r) <= Dist(q, i)
            BY <3>1, <4>2, <5>2 DEF Covered
          <6>2. Cardinality(best) = ef
            BY <2>5, <3>2, <3>3, <6>1
          <6>3. PICK k \in s.res : Dist(q, j) < Dist(q, k)
            BY <3>2, <3>5, <6>1 DEF better
          <6>4. Dist(q, j) <= Dist(q, i)
            <7>1. i \in UsedSlots /\ k \in UsedSlots
              BY <1>1, <2>1, <4>2
            <7> QED BY <2>1, <3>4, <6>1, <6>3, <7>1
          <6> QED BY <2>5, <6>1, <6>2, <6>4 DEF Covered
        <5> QED BY <5>1, <5>2
      <4> HIDE DEF x
      <4> QED BY <2>3, <2>5, <3>1, <4>1, <4>2 DEF Fair
    <3>6. CASE ~better
      <4>1. x.res = s.res
        BY <1>1, <2>2, <3>6 DEF Beams
      <4>2. Covered(q, ef, j, s.res)
        <5>1. \A i \in s.res : Dist(q, i) <= Dist(q, j)
          BY <1>1, <2>1, <3>4, <3>6 DEF better
        <5> QED BY <3>2, <3>6, <5>1 DEF better, Covered
      <4> HIDE DEF x
      <4> QED BY <2>3, <3>1, <4>1, <4>2 DEF Fair
    <3> QED BY <3>5, <3>6
  <2> QED BY <2>3, <2>6, <2>7, <2>8
<1> QED BY <1>2, <1>3

LEMMA ExpandIs ==
    ASSUME TypeOK, Placed, NEW q \in Int \X Int, NEW l \in Levels, NEW ef \in Nat,
           NEW C, Closed(C, l), NEW V \in SUBSET UsedSlots, \A i \in C : LiveNeighbors(i, l) \subseteq V,
           NEW s \in BeamsIn(C, V), s.cand # {}
    PROVE  LET x == Expand(q, ef, l, s)
           IN  /\ x \in BeamsIn(C, V) /\ Weight(x) < Weight(s)
               /\ Fair(q, ef, s) => Fair(q, ef, x)
               /\ s.seen \subseteq x.seen /\ LiveNeighbors(Closest(q, s.cand), l) \subseteq x.seen
<1> DEFINE f == Closest(q, s.cand)
           list == hnsw_edge_block[f][l]
           last == Len(list)
           first == [s EXCEPT !.cand = @ \ {f}]
           P == 0 .. last
           T == {t \in BeamsIn(C, V) : Weight(t) < Weight(s)}
           out == [n \in P |-> first]
           next == [n \in P |-> IF n = 0 THEN n ELSE n - 1]
           comb == [n \in P |-> [t \in T |-> IF n = 0 THEN t ELSE Meet(q, ef, t, list[n])]]
           w == [n \in P |-> n]
           Body(g) == [n \in P |-> IF n = 0 THEN first ELSE Meet(q, ef, g[n - 1], list[n])]
           met == CHOOSE g : g = Body(g)
<1>1. Expand(q, ef, l, s) = met[last]
  BY Zenon DEF Expand
<1>2. /\ s.cand \in SUBSET UsedSlots /\ s.res \in SUBSET UsedSlots /\ s.seen \in SUBSET UsedSlots
      /\ s.cand \subseteq C /\ s.res \subseteq V /\ s \in Beams /\ C \in SUBSET UsedSlots
  BY DEF BeamsIn, Beams, Closed
<1>3. f \in s.cand /\ f \in C /\ f \in Slots
  BY <1>2, ClosestIs, SlotsAreFinite
<1> HIDE DEF f
<1>4. list \in Seq(Slots \cup {EMPTY}) /\ last \in Nat /\ DOMAIN list = 1 .. last
  BY <1>3, LenProperties DEF TypeOK
<1>5. \A n \in 1 .. last : list[n] # EMPTY => list[n] \in Neighbors(f, l)
  BY <1>4 DEF ToSet, Neighbors
<1>17. \A j \in Neighbors(f, l) : \E k \in 1 .. last : j = list[k]
  BY <1>4 DEF ToSet, Neighbors
<1>6. \A n \in 1 .. last :
         list[n] # EMPTY /\ ~deleted_flags[list[n]] => list[n] \in C /\ list[n] \in V
  BY <1>3, <1>5 DEF Closed, LiveNeighbors
<1>7. first \in T /\ (Fair(q, ef, s) => Fair(q, ef, first)) /\ first.seen = s.seen
  <2>1. first = [cand |-> s.cand \ {f}, res |-> s.res, seen |-> s.seen]
    BY <1>2 DEF Beams
  <2> HIDE DEF first
  <2>2. first \in BeamsIn(C, V)
    BY <1>2, <2>1 DEF BeamsIn, Beams
  <2>3. Cardinality(s.cand \ {f}) = Cardinality(s.cand) - 1
    BY <1>2, <1>3, SlotsAreFinite, FS_RemoveElement
  <2>4. Cardinality(s.cand) \in Nat /\ Cardinality(UsedSlots \ s.seen) \in Nat
    <3>1. UsedSlots \ s.seen \in SUBSET UsedSlots
      OBVIOUS
    <3> QED BY <1>2, <3>1, SlotsAreFinite
  <2>5. Weight(first) < Weight(s)
    BY <2>1, <2>3, <2>4 DEF Weight
  <2> QED BY <2>1, <2>2, <2>5 DEF Fair
<1> HIDE DEF list, first
<1>8. Recursive(P, T, {0}, out, next, comb, w, last + 1)
  <2>1. next \in [P -> P] /\ w \in [P -> Nat] /\ \A n \in P : w[n] < last + 1
    BY <1>4
  <2>2. \A n \in P \ {0} : w[next[n]] < w[n]
    BY <1>4
  <2>3. ASSUME NEW n \in P \ {0}, NEW t \in T PROVE Meet(q, ef, t, list[n]) \in T
    <3>1. n \in 1 .. last /\ t \in BeamsIn(C, V) /\ Weight(t) < Weight(s)
      BY <1>4
    <3>2. Meet(q, ef, t, list[n]) \in BeamsIn(C, V) /\ Weight(Meet(q, ef, t, list[n])) <= Weight(t)
      BY <1>2, <1>6, <3>1, MeetIs
    <3>3. \A b \in BeamsIn(C, V) : Weight(b) \in Nat
      BY WeightIs DEF BeamsIn
    <3> QED BY <3>1, <3>2, <3>3
  <2>4. comb \in [P -> [T -> T]]
    <3> HIDE DEF T, P
    <3> QED BY <2>3
  <2>5. last + 1 \in Nat /\ {0} \in SUBSET P /\ out \in [P -> T]
    BY <1>4, <1>7
  <2> HIDE DEF P, T, out, next, comb, w
  <2> QED BY <2>1, <2>2, <2>4, <2>5 DEF Recursive
<1>9. \E g : g = Body(g)
  <2>1. PICK g \in [P -> T] : Calls(g, P, T, {0}, out, next, comb)
    <3> HIDE DEF P, T, out, next, comb, w
    <3> QED BY <1>8, Recursion
  <2>2. next \in [P -> P]
    BY <1>8 DEF Recursive
  <2>3. \A n \in P : g[n] = IF n = 0 THEN first ELSE Meet(q, ef, g[n - 1], list[n])
    <3> HIDE DEF P, T
    <3> QED BY <2>1, <2>2 DEF Calls
  <2>4. g = Body(g)
    BY <2>3
  <2> QED BY <2>4
<1>10. met = Body(met)
  <2> HIDE DEF Body
  <2> QED BY <1>9
<1>11. Calls(met, P, T, {0}, out, next, comb)
  <2>1. \A n \in P : met[n] = IF n = 0 THEN first ELSE Meet(q, ef, met[n - 1], list[n])
    <3> HIDE DEF met
    <3> QED BY <1>10
  <2> HIDE DEF met, P, T
  <2> QED BY <2>1 DEF Calls
<1> DEFINE Good(n, t) == /\ Fair(q, ef, s) => Fair(q, ef, t)
                         /\ s.seen \subseteq t.seen
                         /\ \A k \in 1 .. n : list[k] # EMPTY /\ ~deleted_flags[list[k]] =>
                                                list[k] \in t.seen
           R == {r \in P \X T : Good(r[1], r[2])}
<1>12. R \in SUBSET (P \X T) /\ \A n \in P, t \in T : <<n, t>> \in R <=> Good(n, t)
  <2> HIDE DEF Good, P, T
  <2> QED OBVIOUS
<1>13. ASSUME NEW n \in P \ {0}, NEW t \in T, Good(n - 1, t) PROVE Good(n, Meet(q, ef, t, list[n]))
  <2> DEFINE u == Meet(q, ef, t, list[n])
  <2>1. n \in 1 .. last /\ t \in BeamsIn(C, V)
    BY <1>4
  <2>2. /\ Fair(q, ef, t) => Fair(q, ef, u)
        /\ t.seen \subseteq u.seen
        /\ list[n] # EMPTY /\ ~deleted_flags[list[n]] => list[n] \in u.seen
    BY <1>2, <1>6, <2>1, MeetIs
  <2>3. \A k \in 1 .. n : k = n \/ k \in 1 .. n - 1
    BY <2>1
  <2> HIDE DEF u
  <2>4. Good(n, u)
    BY <1>13, <2>2, <2>3
  <2> QED BY <2>4 DEF u
<1>14. Keeps(R, P, T, {0}, out, next, comb)
  <2>1. ASSUME NEW n \in P \ {0}, NEW t \in T, <<next[n], t>> \in R PROVE <<n, comb[n][t]>> \in R
    <3>1. next[n] = n - 1 /\ n - 1 \in P /\ comb[n][t] = Meet(q, ef, t, list[n])
      BY <1>4
    <3>2. comb[n][t] \in T
      BY <1>8 DEF Recursive
    <3> HIDE DEF R, Good, P, T, comb
    <3> QED BY <1>12, <1>13, <2>1, <3>1, <3>2
  <2>2. <<0, out[0]>> \in R
    <3>1. 0 \in P /\ out[0] = first /\ first \in T /\ Good(0, first)
      BY <1>4, <1>7
    <3> HIDE DEF R, Good, P, T, out
    <3> QED BY <1>12, <3>1
  <2> HIDE DEF R, P, T, out, next, comb
  <2> QED BY <1>12, <2>1, <2>2 DEF Keeps
<1>15. met[last] \in T /\ Good(last, met[last])
  <2>1. last \in P
    BY <1>4
  <2>2. \A n \in P : <<n, met[n]>> \in R
    <3> HIDE DEF R, P, T, out, next, comb, w, met
    <3> QED BY <1>8, <1>11, <1>14, RecursionKeeps
  <2>3. \A n \in P : met[n] \in T
    <3> HIDE DEF R, P, T, out, next, comb, w, met
    <3> QED BY <1>8, <1>11, RecursionTyped
  <2> HIDE DEF R, P, T, met, Good
  <2> QED BY <1>12, <2>1, <2>2, <2>3
<1>16. LiveNeighbors(f, l) \subseteq met[last].seen
  <2> HIDE DEF met
  <2>1. \A j \in Neighbors(f, l) : j # EMPTY
    BY DEF Neighbors
  <2> QED BY <1>15, <1>17, <2>1 DEF LiveNeighbors
<1> HIDE DEF met
<1> QED BY <1>1, <1>15, <1>16 DEF f

(* The slots of a set a search may answer with.                            *)
Live(A) == {i \in A : ~deleted_flags[i]}

LEMMA LayerIs ==
    ASSUME TypeOK, Placed, NEW q \in Int \X Int, NEW l \in Levels, NEW ef \in Nat,
           Closed(UsedSlots, l), NEW A, Closed(A, l), NEW entry \in A
    PROVE  LET found == search_layer(q, entry, ef, l)
           IN  /\ found \subseteq Live(A)
               /\ ~deleted_flags[entry] /\ ef # 0 =>
                     \A i \in {entry} \cup LiveNeighbors(entry, l) : Covered(q, ef, i, found)
<1> DEFINE Stop(P) == {s \in P : Exhausted(q, ef, s)}
           out(P) == [s \in P |-> s.res]
           next(P) == [s \in P |-> IF Exhausted(q, ef, s) THEN s ELSE Expand(q, ef, l, s)]
           comb(P, T) == [s \in P |-> [t \in T |-> t]]
           m(P) == [s \in P |-> Weight(s)]
           N == 3 * Cardinality(UsedSlots) + 1
           Body(g) == [s \in Beams |-> IF Exhausted(q, ef, s) THEN s.res ELSE g[Expand(q, ef, l, s)]]
           beam == CHOOSE g : g = Body(g)
           first == [cand |-> {entry}, res |-> {i \in {entry} : ~deleted_flags[i]}, seen |-> {entry}]
<1>1. search_layer(q, entry, ef, l) = beam[first]
  BY Zenon DEF search_layer
<1>2. ASSUME NEW C, Closed(C, l), NEW V \in SUBSET UsedSlots, \A i \in C : LiveNeighbors(i, l) \subseteq V
      PROVE  LET P == BeamsIn(C, V)
                 T == SUBSET V
             IN  Recursive(P, T, Stop(P), out(P), next(P), comb(P, T), m(P), N)
  <2> DEFINE P == BeamsIn(C, V)
             T == SUBSET V
  <2>1. ASSUME NEW s \in P, ~Exhausted(q, ef, s)
        PROVE  Expand(q, ef, l, s) \in P /\ Weight(Expand(q, ef, l, s)) < Weight(s)
    <3>1. s.cand # {}
      BY <2>1 DEF Exhausted
    <3> QED BY <1>2, <3>1, ExpandIs
  <2>2. \A s \in P : s \in Beams /\ s.res \in T
    BY DEF BeamsIn
  <2> HIDE DEF P, T
  <2>3. next(P) \in [P -> P]
    BY <2>1
  <2>4. m(P) \in [P -> Nat] /\ \A s \in P : m(P)[s] < N
    BY <2>2, WeightIs
  <2>5. \A s \in P \ Stop(P) : m(P)[next(P)[s]] < m(P)[s]
    BY <2>1
  <2>6. Stop(P) \in SUBSET P /\ out(P) \in [P -> T] /\ comb(P, T) \in [P -> [T -> T]]
    BY <2>2
  <2>7. N \in Nat
    BY SlotsAreFinite
  <2> HIDE DEF Stop, out, next, comb, m, N
  <2>8. Recursive(P, T, Stop(P), out(P), next(P), comb(P, T), m(P), N)
    BY <2>3, <2>4, <2>5, <2>6, <2>7 DEF Recursive
  <2> QED BY <2>8 DEF P, T
<1>3. \E g : g = Body(g)
  <2> DEFINE P == Beams
             T == SUBSET UsedSlots
  <2>1. P = BeamsIn(UsedSlots, UsedSlots)
    BY DEF BeamsIn, Beams
  <2>2. Recursive(P, T, Stop(P), out(P), next(P), comb(P, T), m(P), N)
    <3> HIDE DEF Stop, out, next, comb, m, N, P
    <3>1. \A i \in UsedSlots : LiveNeighbors(i, l) \subseteq UsedSlots
      BY DEF Closed
    <3> QED BY <1>2, <2>1, <3>1
  <2>3. PICK g \in [P -> T] : Calls(g, P, T, Stop(P), out(P), next(P), comb(P, T))
    <3> HIDE DEF P, T, Stop, out, next, comb, m, N
    <3> QED BY <2>2, Recursion
  <2>4. next(P) \in [P -> P]
    BY <2>2 DEF Recursive
  <2>5. \A s \in P : g[s] = IF Exhausted(q, ef, s) THEN s.res ELSE g[Expand(q, ef, l, s)]
    <3> HIDE DEF P, T
    <3> QED BY <2>3, <2>4 DEF Calls
  <2>6. g = Body(g)
    BY <2>5
  <2> QED BY <2>6
<1>4. beam = Body(beam)
  <2> HIDE DEF Body
  <2> QED BY <1>3
<1> DEFINE V == Live(A)
           P == BeamsIn(A, V)
           T == SUBSET V
<1>5. V \in SUBSET UsedSlots /\ \A i \in A : LiveNeighbors(i, l) \subseteq V
  BY DEF Closed, Live, LiveNeighbors
<1>6. Calls(beam, P, T, Stop(P), out(P), next(P), comb(P, T))
  <2>1. \A s \in P : s \in Beams
    BY DEF BeamsIn
  <2>2. \A s \in P : beam[s] = IF Exhausted(q, ef, s) THEN s.res ELSE beam[Expand(q, ef, l, s)]
    <3> HIDE DEF beam, P
    <3> QED BY <1>4, <2>1
  <2> HIDE DEF beam, P, T
  <2> QED BY <2>2 DEF Calls
<1>7. \A s \in P : beam[s] \in T
  <2>1. Recursive(P, T, Stop(P), out(P), next(P), comb(P, T), m(P), N)
    <3> HIDE DEF Stop, out, next, comb, m, N, V
    <3> QED BY <1>2, <1>5
  <2> HIDE DEF beam, Stop, out, next, comb, m, N, P, T
  <2> QED BY <1>6, <2>1, RecursionTyped
<1>8. first \in P
  BY DEF Closed, BeamsIn, Beams, Live
<1>9. beam[first] \subseteq V
  <2> HIDE DEF beam, first, P
  <2> QED BY <1>7, <1>8
<1> DEFINE Reaches(s, t) == Fair(q, ef, s) => \A i \in s.seen : ~deleted_flags[i] => Covered(q, ef, i, t)
           R == {r \in P \X T : Reaches(r[1], r[2])}
<1>10. R \in SUBSET (P \X T) /\ \A s \in P, t \in T : <<s, t>> \in R <=> Reaches(s, t)
  <2> HIDE DEF Reaches, P, T
  <2> QED OBVIOUS
<1>11. \A s \in P : s.cand # {} =>
          LET x == Expand(q, ef, l, s)
          IN  /\ x \in P /\ (Fair(q, ef, s) => Fair(q, ef, x))
              /\ s.seen \subseteq x.seen /\ LiveNeighbors(Closest(q, s.cand), l) \subseteq x.seen
  <2> HIDE DEF V
  <2> QED BY <1>5, ExpandIs
<1>12. Keeps(R, P, T, Stop(P), out(P), next(P), comb(P, T))
  <2>1. ASSUME NEW s \in Stop(P) PROVE <<s, out(P)[s]>> \in R
    <3>1. s \in P /\ out(P)[s] = s.res /\ s.res \in T /\ Reaches(s, s.res)
      BY DEF BeamsIn, Fair
    <3> HIDE DEF R, Reaches, P, T, out
    <3> QED BY <1>10, <3>1
  <2>2. ASSUME NEW s \in P \ Stop(P), NEW t \in T, <<next(P)[s], t>> \in R
        PROVE  <<s, comb(P, T)[s][t]>> \in R
    <3>1. s \in P /\ comb(P, T)[s][t] = t /\ next(P)[s] = Expand(q, ef, l, s) /\ s.cand # {}
      BY DEF Exhausted
    <3>2. Reaches(Expand(q, ef, l, s), t)
      <4>1. Expand(q, ef, l, s) \in P
        <5> HIDE DEF P
        <5> QED BY <1>11, <3>1
      <4> HIDE DEF R, Reaches, P, T, next
      <4> QED BY <1>10, <2>2, <3>1, <4>1
    <3>3. Reaches(s, t)
      <4> HIDE DEF P, T
      <4> QED BY <1>11, <3>1, <3>2
    <3> HIDE DEF R, Reaches, P, T, comb
    <3> QED BY <1>10, <3>1, <3>3
  <2> HIDE DEF R, P, T, Stop, out, next, comb
  <2> QED BY <1>10, <2>1, <2>2 DEF Keeps
<1>13. \A s \in P : Reaches(s, beam[s])
  <2>1. Recursive(P, T, Stop(P), out(P), next(P), comb(P, T), m(P), N)
    <3> HIDE DEF Stop, out, next, comb, m, N, V
    <3> QED BY <1>2, <1>5
  <2>2. \A s \in P : <<s, beam[s]>> \in R
    <3> HIDE DEF beam, Stop, out, next, comb, m, N, P, T, R
    <3> QED BY <1>6, <1>12, <2>1, RecursionKeeps
  <2> HIDE DEF beam, P, T, R, Reaches
  <2> QED BY <1>7, <1>10, <2>2
<1>14. ASSUME ~deleted_flags[entry], ef # 0, NEW i \in {entry} \cup LiveNeighbors(entry, l)
      PROVE  Covered(q, ef, i, beam[first])
  <2>1. entry \in UsedSlots
    BY DEF Closed
  <2>2. /\ first.cand = {entry} /\ first.res = {entry} /\ first.seen = {entry} /\ first \in Beams
        /\ {entry} \in SUBSET UsedSlots
    BY <1>14, <2>1 DEF Beams
  <2> HIDE DEF first, beam, P
  <2>3. Closest(q, {entry}) = entry
    BY <2>1, <2>2, ClosestIs
  <2>4. Dist(q, entry) \in Nat
    BY <2>1, DistIs
  <2>5. ~Exhausted(q, ef, first)
    BY <2>2, <2>3, <2>4 DEF Exhausted
  <2>6. beam[first] = beam[Expand(q, ef, l, first)]
    BY <1>4, <2>2, <2>5
  <2>7. Fair(q, ef, first)
    BY <2>2 DEF Fair, Covered
  <2>8. /\ Expand(q, ef, l, first) \in P /\ Fair(q, ef, Expand(q, ef, l, first))
        /\ i \in Expand(q, ef, l, first).seen
    BY <1>8, <1>11, <2>2, <2>3, <2>7
  <2>9. ~deleted_flags[i]
    BY <1>14 DEF LiveNeighbors
  <2> QED BY <1>13, <2>6, <2>8, <2>9
<1> HIDE DEF beam, first
<1> QED BY <1>1, <1>9, <1>14

-----------------------------------------------------------------------------
(* The neighbours that are selected.                                       *)

LEMMA MinOf ==
    ASSUME NEW a \in Nat, NEW b \in Nat
    PROVE  Min({a, b}) \in Nat /\ Min({a, b}) <= a /\ Min({a, b}) <= b
<1>1. \E x \in {a, b} : \A y \in {a, b} : x <= y
  OBVIOUS
<1> QED BY <1>1 DEF Min

LEMMA MaxOf ==
    ASSUME NEW a \in Nat, NEW b \in Nat
    PROVE  Max({a, b}) \in Nat /\ Max({a, b}) >= a /\ Max({a, b}) >= b
<1>1. \E x \in {a, b} : \A y \in {a, b} : x >= y
  OBVIOUS
<1> QED BY <1>1 DEF Max

LEMMA FirstOf ==
    ASSUME NEW S, NEW c \in Seq(S), NEW n \in Nat
    PROVE  LET t == SubSeq(c, 1, Min({n, Len(c)}))
           IN  /\ t \in Seq(S) /\ Len(t) <= n /\ ToSet(t) \subseteq ToSet(c)
               /\ \A x : Once(x, c) => Once(x, t)
<1> DEFINE k == Min({n, Len(c)})
           t == SubSeq(c, 1, k)
<1>1. k \in Nat /\ k <= n /\ k <= Len(c)
  BY MinOf
<1> HIDE DEF k
<1>2. Len(t) = k /\ t \in Seq(S) /\ \A j \in 1 .. k : t[j] = c[j]
  BY <1>1
<1>3. DOMAIN t = 1 .. k /\ DOMAIN c = 1 .. Len(c)
  BY <1>2
<1>4. ToSet(t) \subseteq ToSet(c)
  BY <1>1, <1>2, <1>3 DEF ToSet
<1>5. \A x : Once(x, c) => Once(x, t)
  BY <1>1, <1>2, <1>3 DEF Once
<1> QED BY <1>1, <1>2, <1>4, <1>5 DEF k

(* A list without repetition has each slot once.                           *)
LEMMA InjectiveIs ==
    ASSUME NEW t
    PROVE  IsInjective(t) <=> \A x : Once(x, t)
BY DEF IsInjective, Once

LEMMA SortedListIs ==
    ASSUME Placed, NEW q \in Int \X Int, NEW S \in SUBSET UsedSlots, NEW c \in Seq(S)
    PROVE  /\ SortedList(q, c) \in Seq(S) /\ Len(SortedList(q, c)) = Len(c)
           /\ \A x : Once(x, c) => Once(x, SortedList(q, c))
<1> DEFINE dist == [n \in DOMAIN c |-> Dist(q, c[n])]
           order == Order(dist)
<1>1. \A n \in DOMAIN c : c[n] \in S
  BY ElementOfSeq
<1>2. dist \in [DOMAIN c -> Nat]
  BY <1>1, DistIs
<1>3. IsFiniteSet(DOMAIN c)
  BY FS_Interval
<1>4. order \in Seq(DOMAIN c) /\ IsInjective(order) /\ ToSet(order) = DOMAIN c
  <2> HIDE DEF dist
  <2> QED BY <1>2, <1>3, OrderOf DEF Enumerates
<1>5. SortedList(q, c) = [n \in DOMAIN order |-> c[order[n]]]
  BY DEF SortedList
<1> HIDE DEF order
<1>6. \A n \in DOMAIN order : order[n] \in DOMAIN c
  BY <1>4, ElementOfSeq
<1>7. DOMAIN order = 1 .. Len(order) /\ Len(order) \in Nat
  BY <1>4
<1>8. SortedList(q, c) \in Seq(S) /\ Len(SortedList(q, c)) = Len(c)
  <2>1. SortedList(q, c) \in Seq(S) /\ Len(SortedList(q, c)) = Len(order)
    BY <1>1, <1>5, <1>6, <1>7
  <2>2. Cardinality(DOMAIN c) = Len(order)
    BY <1>4, LengthIs
  <2>3. \A n \in Nat : Cardinality(1 .. n) = n
    BY FS_Interval
  <2>4. DOMAIN c = 1 .. Len(c) /\ Len(c) \in Nat
    OBVIOUS
  <2>5. Cardinality(DOMAIN c) = Len(c)
    BY <2>3, <2>4
  <2> QED BY <2>1, <2>2, <2>5
<1>9. \A x : Once(x, c) => Once(x, SortedList(q, c))
  BY <1>4, <1>5, <1>6 DEF IsInjective, Once
<1> QED BY <1>8, <1>9

(* One more is kept only if there is room.                                 *)
LEMMA KeepIs ==
    ASSUME NEW q, NEW m \in Nat, NEW S, NEW kept \in Seq(S), Len(kept) <= m, NEW i \in S
    PROVE  /\ Keep(q, m, kept, i) \in Seq(S) /\ Len(Keep(q, m, kept, i)) <= m
           /\ Keep(q, m, kept, i) \in {kept, Append(kept, i)}
<1>1. Keep(q, m, kept, i) \in {kept, Append(kept, i)}
  BY DEF Keep
<1>2. Keep(q, m, kept, i) = Append(kept, i) => Len(kept) < m \/ Append(kept, i) = kept
  BY DEF Keep
<1>3. Append(kept, i) \in Seq(S) /\ Len(Append(kept, i)) = Len(kept) + 1 /\ Len(kept) \in Nat
  OBVIOUS
<1> QED BY <1>1, <1>2, <1>3

LEMMA HeuristicIs ==
    ASSUME Placed, NEW q \in Int \X Int, NEW m \in Nat,
           NEW S \in SUBSET UsedSlots, NEW c \in Seq(S)
    PROVE  LET selected == select_neighbors_heuristic(q, c, m)
           IN  /\ selected \in Seq(S) /\ Len(selected) <= m
               /\ \A x : Once(x, c) => Once(x, selected)
<1> DEFINE sorted == SortedList(q, c)
           last == Len(sorted)
           P == 0 .. last
           T == {t \in Seq(S) : Len(t) <= m}
           out == [n \in P |-> <<>>]
           next == [n \in P |-> IF n = 0 THEN n ELSE n - 1]
           comb == [n \in P |-> [t \in T |-> IF n = 0 THEN t ELSE Keep(q, m, t, sorted[n])]]
           w == [n \in P |-> n]
           Body(g) == [n \in P |-> IF n = 0 THEN <<>> ELSE Keep(q, m, g[n - 1], sorted[n])]
           diverse == CHOOSE g : g = Body(g)
<1>1. sorted \in Seq(S) /\ last \in Nat /\ \A n \in 1 .. last : sorted[n] \in S
  BY SortedListIs, ElementOfSeq, LenProperties
<1>2. select_neighbors_heuristic(q, c, m) =
        IF Len(diverse[last]) = m THEN diverse[last] ELSE SubSeq(sorted, 1, Min({m, last}))
  BY Zenon DEF select_neighbors_heuristic
<1> HIDE DEF sorted
<1>3. Recursive(P, T, {0}, out, next, comb, w, last + 1)
  <2>1. next \in [P -> P] /\ w \in [P -> Nat] /\ \A n \in P : w[n] < last + 1
    BY <1>1
  <2>2. \A n \in P \ {0} : w[next[n]] < w[n]
    BY <1>1
  <2>3. <<>> \in T
    BY EmptySeq
  <2>4. ASSUME NEW n \in P \ {0}, NEW t \in T PROVE Keep(q, m, t, sorted[n]) \in T
    <3>1. sorted[n] \in S /\ t \in Seq(S) /\ Len(t) <= m
      BY <1>1
    <3> QED BY <3>1, KeepIs
  <2>5. comb \in [P -> [T -> T]]
    <3> HIDE DEF T, P
    <3> QED BY <2>4
  <2>6. last + 1 \in Nat /\ {0} \in SUBSET P /\ out \in [P -> T]
    BY <1>1, <2>3
  <2> HIDE DEF P, T, out, next, comb, w
  <2> QED BY <2>1, <2>2, <2>5, <2>6 DEF Recursive
<1>4. \E g : g = Body(g)
  <2>1. PICK g \in [P -> T] : Calls(g, P, T, {0}, out, next, comb)
    <3> HIDE DEF P, T, out, next, comb, w
    <3> QED BY <1>3, Recursion
  <2>2. next \in [P -> P]
    BY <1>3 DEF Recursive
  <2>3. \A n \in P : g[n] = IF n = 0 THEN <<>> ELSE Keep(q, m, g[n - 1], sorted[n])
    <3> HIDE DEF P, T
    <3> QED BY <2>1, <2>2 DEF Calls
  <2>4. g = Body(g)
    BY <2>3
  <2> QED BY <2>4
<1>5. diverse = Body(diverse)
  <2> HIDE DEF Body
  <2> QED BY <1>4
<1>6. Calls(diverse, P, T, {0}, out, next, comb)
  <2>1. \A n \in P : diverse[n] = IF n = 0 THEN <<>> ELSE Keep(q, m, diverse[n - 1], sorted[n])
    <3> HIDE DEF diverse
    <3> QED BY <1>5
  <2> HIDE DEF diverse, P, T
  <2> QED BY <2>1 DEF Calls
<1> DEFINE From(n, t) == \A k \in DOMAIN t : \E j \in 1 .. n : t[k] = sorted[j]
           Good(n, t) == From(n, t) /\ \A x : Once(x, sorted) => Once(x, t)
           R == {r \in P \X T : Good(r[1], r[2])}
<1>7. R \in SUBSET (P \X T) /\ \A n \in P, t \in T : <<n, t>> \in R <=> Good(n, t)
  <2> HIDE DEF Good, P, T
  <2> QED OBVIOUS
<1>8. ASSUME NEW n \in P \ {0}, NEW t \in T, Good(n - 1, t)
      PROVE  Good(n, Keep(q, m, t, sorted[n]))
  <2>1. /\ n \in Nat /\ n \in 1 .. last /\ sorted[n] \in S /\ From(n - 1, t)
        /\ \A x : Once(x, sorted) => Once(x, t)
    BY <1>1, <1>8
  <2>2. Once(sorted[n], sorted) => \A j \in 1 .. n - 1 : sorted[j] # sorted[n]
    BY <1>1, <2>1 DEF Once
  <2>3. \A j \in 1 .. n - 1 : j \in 1 .. n
    BY <2>1
  <2>4. CASE Keep(q, m, t, sorted[n]) = t
    BY <2>1, <2>3, <2>4
  <2>5. CASE Keep(q, m, t, sorted[n]) = Append(t, sorted[n])
    <3> DEFINE u == Append(t, sorted[n])
    <3>6. t \in Seq(S) /\ sorted[n] \in S
      BY <2>1
    <3>7. /\ Len(t) \in Nat /\ DOMAIN t = 1 .. Len(t) /\ DOMAIN u = 1 .. Len(t) + 1
          /\ \A k \in 1 .. Len(t) + 1 : u[k] = IF k = Len(t) + 1 THEN sorted[n] ELSE t[k]
      <4> HIDE DEF T
      <4> QED BY <3>6
    <3>1. /\ DOMAIN u = DOMAIN t \cup {Len(t) + 1} /\ Len(t) \in Nat /\ DOMAIN t = 1 .. Len(t)
          /\ \A k \in DOMAIN u : u[k] = IF k = Len(t) + 1 THEN sorted[n] ELSE t[k]
      <4> HIDE DEF u
      <4> QED BY <3>7
    <3> HIDE DEF u
    <3>2. From(n, u)
      <4>1. ASSUME NEW k \in DOMAIN t PROVE \E j \in 1 .. n : u[k] = sorted[j]
        <5>1. u[k] = t[k]
          BY <3>1
        <5>2. PICK j \in 1 .. n - 1 : t[k] = sorted[j]
          BY <2>1
        <5> QED BY <2>3, <5>1, <5>2
      <4>2. u[Len(t) + 1] = sorted[n] /\ n \in 1 .. n
        BY <2>1, <3>1
      <4> HIDE DEF T, P
      <4> QED BY <3>1, <4>1, <4>2
    <3>3. Once(sorted[n], sorted) => \A k \in DOMAIN t : t[k] # sorted[n]
      BY <2>1, <2>2
    <3>4. Len(t) + 1 \notin DOMAIN t
      BY <3>1
    <3>5. ASSUME NEW x, Once(x, sorted) PROVE Once(x, u)
      <4>1. Once(x, t)
        BY <2>1, <3>5
      <4>2. CASE x = sorted[n]
        BY <3>1, <3>3, <3>5, <4>1, <4>2 DEF Once
      <4>3. CASE x # sorted[n]
        BY <3>1, <4>1, <4>3 DEF Once
      <4> QED BY <4>2, <4>3
    <3> QED BY <2>5, <3>2, <3>5 DEF u
  <2>6. Keep(q, m, t, sorted[n]) \in {t, Append(t, sorted[n])}
    BY <2>1, KeepIs
  <2> QED BY <2>4, <2>5, <2>6
<1>9. Keeps(R, P, T, {0}, out, next, comb)
  <2>1. ASSUME NEW n \in P \ {0}, NEW t \in T, <<next[n], t>> \in R PROVE <<n, comb[n][t]>> \in R
    <3>1. next[n] = n - 1 /\ n - 1 \in P /\ comb[n][t] = Keep(q, m, t, sorted[n])
      BY <1>1
    <3>2. comb[n][t] \in T
      BY <1>3 DEF Recursive
    <3> HIDE DEF R, Good, P, T, comb
    <3> QED BY <1>7, <1>8, <2>1, <3>1, <3>2
  <2>2. <<0, out[0]>> \in R
    <3>1. 0 \in P /\ out[0] = <<>> /\ <<>> \in T /\ Good(0, <<>>)
      BY <1>1, EmptySeq DEF Once
    <3> HIDE DEF R, Good, P, T
    <3> QED BY <1>7, <3>1
  <2> HIDE DEF R, P, T, out, next, comb
  <2> QED BY <1>7, <2>1, <2>2 DEF Keeps
<1>10. diverse[last] \in T /\ \A x : Once(x, sorted) => Once(x, diverse[last])
  <2>1. last \in P
    BY <1>1
  <2>2. \A n \in P : <<n, diverse[n]>> \in R
    <3> HIDE DEF R, P, T, out, next, comb, w, diverse
    <3> QED BY <1>3, <1>6, <1>9, RecursionKeeps
  <2>3. \A n \in P : diverse[n] \in T
    <3> HIDE DEF R, P, T, out, next, comb, w, diverse
    <3> QED BY <1>3, <1>6, RecursionTyped
  <2>4. Good(last, diverse[last])
    <3> HIDE DEF R, P, T, diverse, Good
    <3> QED BY <1>7, <2>1, <2>2, <2>3
  <2> HIDE DEF P, T, diverse
  <2> QED BY <2>1, <2>3, <2>4
<1>11. \A x : Once(x, c) => Once(x, sorted)
  BY SortedListIs DEF sorted
<1>12. LET t == SubSeq(sorted, 1, Min({m, last}))
       IN  t \in Seq(S) /\ Len(t) <= m /\ (\A x : Once(x, sorted) => Once(x, t))
  BY <1>1, FirstOf
<1> HIDE DEF diverse
<1> QED BY <1>2, <1>10, <1>11, <1>12

(* With room for all of them all are selected.                             *)
LEMMA AllAreSelected ==
    ASSUME Placed, NEW q \in Int \X Int, NEW m \in Nat,
           NEW c \in Seq(UsedSlots), IsInjective(c), Len(c) <= m
    PROVE  ToSet(select_neighbors_heuristic(q, c, m)) = ToSet(c)
<1> DEFINE sorted == SortedList(q, c)
           last == Len(sorted)
           diverse == CHOOSE g : g = [n \in 0 .. last |->
                          IF n = 0 THEN <<>> ELSE Keep(q, m, g[n - 1], sorted[n])]
           t == select_neighbors_heuristic(q, c, m)
<1>1. /\ c \in Seq(ToSet(c)) /\ ToSet(c) \in SUBSET UsedSlots
      /\ Len(c) \in Nat
  <2>1. \A k \in 1 .. Len(c) : c[k] \in ToSet(c) /\ c[k] \in UsedSlots
    BY ElementOfSeq DEF ToSet
  <2>2. Len(c) \in Nat /\ DOMAIN c = 1 .. Len(c) /\ c = [k \in 1 .. Len(c) |-> c[k]]
    BY LenProperties
  <2>3. ToSet(c) \in SUBSET UsedSlots
    BY <2>1, <2>2 DEF ToSet
  <2> DEFINE X == ToSet(c)
  <2>4. \A k \in 1 .. Len(c) : c[k] \in X
    BY <2>1
  <2> HIDE DEF X
  <2>5. c \in Seq(X)
    BY <2>2, <2>4
  <2> QED BY <2>2, <2>3, <2>5 DEF X
<1>2. t \in Seq(ToSet(c)) /\ IsInjective(t)
  <2>1. \A x : Once(x, c)
    BY InjectiveIs
  <2>2. t \in Seq(ToSet(c)) /\ \A x : Once(x, c) => Once(x, t)
    BY <1>1, HeuristicIs
  <2> HIDE DEF t
  <2> QED BY <2>1, <2>2, InjectiveIs
<1>3. Len(t) >= Len(c)
  <2>1. t = IF Len(diverse[last]) = m THEN diverse[last] ELSE SubSeq(sorted, 1, Min({m, last}))
    BY Zenon DEF select_neighbors_heuristic
  <2>2. sorted \in Seq(UsedSlots) /\ last = Len(c)
    BY SortedListIs
  <2> HIDE DEF diverse, sorted
  <2>3. Min({m, last}) \in Nat /\ Min({m, last}) = last
    <3>1. \A x \in {m, last} : last <= x
      BY <1>1, <2>2
    <3>2. Min({m, last}) \in {m, last} /\ \A y \in {m, last} : Min({m, last}) <= y
      BY <3>1 DEF Min
    <3> QED BY <1>1, <2>2, <3>1, <3>2
  <2>4. Len(SubSeq(sorted, 1, Min({m, last}))) = last
    BY <1>1, <2>2, <2>3
  <2>5. CASE Len(diverse[last]) = m
    <3>1. t = diverse[last]
      BY <2>1, <2>5
    <3> HIDE DEF t
    <3>2. Len(t) = m
      BY <2>5, <3>1
    <3> QED BY <1>1, <3>2
  <2>6. CASE Len(diverse[last]) # m
    <3>1. t = SubSeq(sorted, 1, Min({m, last}))
      BY <2>1, <2>6
    <3> HIDE DEF t
    <3>2. Len(t) = Len(sorted)
      BY <2>4, <3>1
    <3> QED BY <1>1, <2>2, <3>2
  <2> QED BY <2>5, <2>6
<1> HIDE DEF t
<1>4. IsFiniteSet(ToSet(c)) /\ Cardinality(ToSet(c)) = Len(c)
  BY LengthIs
<1>5. Cardinality(ToSet(t)) = Len(t) /\ Len(t) \in Nat
  BY <1>2, LengthIs, LenProperties
<1>6. ToSet(t) \in SUBSET ToSet(c)
  BY <1>2, ElementOfSeq DEF ToSet
<1>7. Cardinality(ToSet(t)) <= Cardinality(ToSet(c))
  BY <1>4, <1>6, FS_Subset
<1>8. Cardinality(ToSet(c)) = Cardinality(ToSet(t))
  BY <1>1, <1>3, <1>4, <1>5, <1>7
<1> QED BY <1>4, <1>6, <1>8, FS_Subset DEF t
-----------------------------------------------------------------------------
(* The invariant holds at first and is kept by every step.                 *)

(* The operations a writer can be at.                                      *)
Ops == [pc : {"idle", "enter", "initialize", "connect", "set", "link", "raise",
              "raise_level", "answer"},
        slot : Slots \cup {EMPTY}, level : Levels, at : Levels,
        curr : Slots \cup {EMPTY}, todo : Seq(Slots),
        into : Slots \cup {EMPTY}, list : Seq(Slots \cup {EMPTY})]

LEMMA IdleIs ==
    /\ Idle \in Ops /\ Idle.pc = "idle" /\ Idle.todo = <<>>
    /\ \A i \in Slots : [Idle EXCEPT !.pc = "enter", !.slot = i] \in Ops
    /\ IsInjective(<<>>)
<1>1. 0 \in Levels
  BY GraphAssumption DEF Levels
<1>2. IsInjective(<<>>)
  BY DEF IsInjective
<1>3. <<>> \in Seq(Slots) /\ <<>> \in Seq(Slots \cup {EMPTY})
  BY EmptySeq
<1> QED BY <1>1, <1>2, <1>3 DEF Idle, Ops

(* A list of neighbours as it is stored, EMPTY where there is none.        *)
LEMMA PaddedIs ==
    ASSUME NEW l \in Levels, NEW S \in SUBSET Slots, NEW t \in Seq(S), Len(t) <= m_max(l)
    PROVE  /\ Padded(t, l) \in Seq(Slots \cup {EMPTY}) /\ Len(Padded(t, l)) = m_max(l)
           /\ ToSet(Padded(t, l)) \subseteq S \cup {EMPTY}
           /\ ToSet(t) \subseteq ToSet(Padded(t, l)) /\ ToSet(Padded(t, l)) \subseteq ToSet(t) \cup {EMPTY}
           /\ \A x \in Slots : Once(x, t) => Once(x, Padded(t, l))
<1> DEFINE u == Padded(t, l)
<1>1. m_max(l) \in Nat /\ Len(t) \in Nat /\ DOMAIN t = 1 .. Len(t)
  BY GraphAssumption DEF m_max
<1>2. \A k \in 1 .. Len(t) : t[k] \in S
  BY <1>1, ElementOfSeq
<1>3. u \in Seq(Slots \cup {EMPTY}) /\ Len(u) = m_max(l) /\ DOMAIN u = 1 .. m_max(l)
  BY <1>1, <1>2 DEF Padded
<1>4. \A k \in 1 .. m_max(l) : u[k] = IF k <= Len(t) THEN t[k] ELSE EMPTY
  BY DEF Padded
<1> HIDE DEF u
<1>5. \A k \in 1 .. m_max(l) : u[k] # EMPTY => k \in 1 .. Len(t) /\ u[k] = t[k]
  BY <1>1, <1>4
<1>6. ToSet(u) \subseteq S \cup {EMPTY} /\ ToSet(u) \subseteq ToSet(t) \cup {EMPTY}
  BY <1>1, <1>2, <1>3, <1>5 DEF ToSet
<1>7. \A k \in 1 .. Len(t) : k \in 1 .. m_max(l) /\ u[k] = t[k]
  BY <1>1, <1>4
<1>8. ToSet(t) \subseteq ToSet(u)
  BY <1>1, <1>3, <1>7 DEF ToSet
<1>9. ASSUME NEW x \in Slots, Once(x, t) PROVE Once(x, u)
  <2>1. x # EMPTY
    BY GraphAssumption DEF Slots, EMPTY
  <2> QED BY <1>1, <1>3, <1>5, <1>9, <2>1 DEF Once
<1> QED BY <1>3, <1>6, <1>8, <1>9 DEF u

LEMMA InitIInv == Init => IInv
<1> SUFFICES ASSUME Init PROVE IInv
  OBVIOUS
<1> USE DEF Init
<1>5. \A l \in Levels : m_max(l) \in Nat
  BY GraphAssumption DEF m_max
<1>1. TypeOK
  <2>1. 0 \in 0 .. Capacity /\ 0 \in Levels /\ 0 \in 0 .. MaxChanges /\ 0 \in 0 .. MaxReinserts
        /\ 0 \in 0 .. MaxRestarts
    BY GraphAssumption, BoundsAssumption DEF Levels
  <2>2. \A l \in Levels : /\ Padded(<<>>, l) \in Seq(Slots \cup {EMPTY})
                          /\ Len(Padded(<<>>, l)) = m_max(l)
    <3>1. /\ <<>> \in Seq({}) /\ {} \in SUBSET Slots
          /\ \A l \in Levels : Len(<<>>) <= m_max(l)
      BY <1>5, EmptySeq
    <3> HIDE DEF Init
    <3> QED BY <3>1, PaddedIs
  <2>3. op \in Ops
    BY IdleIs
  <2> QED BY <2>1, <2>2, <2>3 DEF TypeOK, Ops
<1>2. UsedSlots = {} /\ Free /\ op.todo = <<>>
  BY DEF UsedSlots, Free, Idle
<1>3. CountedInv /\ FlagInv /\ OpInv /\ SetInv /\ LinkInv
  <2>1. op.pc = "idle" /\ op.todo \in Seq(UsedSlots \ {op.slot}) /\ IsInjective(op.todo)
    BY <1>2, IdleIs, EmptySeq
  <2> QED BY <1>2, <2>1 DEF CountedInv, FlagInv, OpInv, SetInv, LinkInv
<1>4. \A i \in Slots, l \in Levels : \A n \in 1 .. m_max(l) : hnsw_edge_block[i][l][n] = EMPTY
  BY <1>5 DEF Padded
<1>6. \A i \in Slots, l \in Levels : DOMAIN hnsw_edge_block[i][l] = 1 .. m_max(l)
  BY DEF Padded
<1>7. EdgesAreSound
  <2>1. \A i \in Slots, l \in Levels : Neighbors(i, l) = {}
    <3> HIDE DEF Init
    <3> QED BY <1>4, <1>6 DEF Neighbors, ToSet
  <2> QED BY <2>1 DEF EdgesAreSound
<1>8. EdgesAreDistinct
  <2>1. \A x \in Slots : x # EMPTY
    BY GraphAssumption DEF Slots, EMPTY
  <2> HIDE DEF Init
  <2> QED BY <1>4, <1>6, <2>1 DEF EdgesAreDistinct, Once
<1> QED BY <1>1, <1>3, <1>7, <1>8 DEF IInv

(* In a state of the invariant every slot that is met has a vector.        *)
LEMMA Walkable ==
    ASSUME IInv
    PROVE  /\ TypeOK /\ Placed /\ UsedSlots \subseteq Slots
           /\ \A l \in Levels : Closed(UsedSlots, l) /\ m_max(l) \in Nat
<1>1. TypeOK /\ UsedSlots \subseteq Slots
  BY SlotsAreFinite DEF IInv
<1>2. Placed
  BY VecsAssumption DEF IInv, CountedInv, Placed
<1>3. \A l \in Levels : m_max(l) \in Nat
  BY GraphAssumption DEF m_max
<1>4. \A l \in Levels : Closed(UsedSlots, l)
  BY <1>1 DEF IInv, EdgesAreSound, Closed, LiveNeighbors
<1> QED BY <1>1, <1>2, <1>3, <1>4

LEMMA InsertFreshKeeps ==
    ASSUME IInv, NEW v \in Vecs, InsertFresh(v)
    PROVE  IInv'
<1> DEFINE n == vector_count
<1> USE DEF InsertFresh, vectors, graph, marks, counts, Neighbors
<1>1. n \in Slots /\ n \in Nat /\ UsedSlots' = UsedSlots \cup {n} /\ n \notin UsedSlots
  <2>1. n \in Nat /\ n < Capacity /\ Capacity \in Nat /\ vector_count' = n + 1
    BY SlotsAreFinite, GraphAssumption DEF IInv
  <2> QED BY <2>1 DEF Slots, UsedSlots
<1>2. op' = [Idle EXCEPT !.pc = "enter", !.slot = n] /\ op' \in Ops
  BY <1>1, IdleIs
<1>3. op'.pc = "enter" /\ op'.slot = n /\ op'.todo = <<>>
  BY <1>2 DEF Idle
<1>4. TypeOK'
  <2>1. vector_count' \in 0 .. Capacity
    BY <1>1, GraphAssumption DEF Slots
  <2> QED BY <1>1, <1>2, <2>1 DEF IInv, TypeOK, Unanswered, Ops
<1>5. CountedInv'
  BY <1>1 DEF IInv, TypeOK, CountedInv, Unanswered
<1>6. OpInv'
  <2>1. op'.todo \in Seq(UsedSlots' \ {op'.slot})
    BY <1>3, EmptySeq
  <2>2. IsInjective(op'.todo)
    BY <1>3, IdleIs
  <2>3. op'.slot \in UsedSlots'
    BY <1>1, <1>3
  <2> QED BY <1>3, <2>1, <2>2, <2>3 DEF OpInv
<1>7. Apart'
  <2>1. \A i \in Slots, l \in Levels : n \notin Neighbors(i, l)
    BY <1>1 DEF IInv, EdgesAreSound
  <2>2. is_initialized => hnsw_entry_point # n
    BY <1>1 DEF IInv, CountedInv
  <2> QED BY <1>3, <2>1, <2>2 DEF Apart
<1>8. FlagInv' /\ SetInv'
  BY <1>1, <1>3 DEF IInv, TypeOK, FlagInv, SetInv, Unanswered
<1>9. EdgesAreSound' /\ EdgesAreDistinct'
  BY <1>1 DEF IInv, EdgesAreSound, EdgesAreDistinct, Free
<1> QED BY <1>4, <1>5, <1>6, <1>7, <1>8, <1>9 DEF IInv, LinkInv

LEMMA InsertAgainKeeps ==
    ASSUME IInv, NEW i \in Slots, NEW v \in Vecs, InsertAgain(i, v)
    PROVE  IInv'
<1> USE DEF InsertAgain, graph, Neighbors
<1>1. i \in UsedSlots /\ UsedSlots' = UsedSlots /\ deleted_flags[i]
  BY DEF IInv, CountedInv, FlagInv, UsedSlots
<1>2. op' = [Idle EXCEPT !.pc = "enter", !.slot = i] /\ op' \in Ops
  BY IdleIs
<1>3. op'.pc = "enter" /\ op'.slot = i /\ op'.todo = <<>>
  BY <1>2 DEF Idle
<1>4. reinserts' \in 0 .. MaxReinserts
  BY BoundsAssumption DEF IInv, TypeOK
<1>11. again' \subseteq Slots /\ acked' \in [Slots -> {"unused", "unsure", "stored", "deleted"}]
  BY DEF IInv, TypeOK, Unanswered
<1>12. /\ float_block' \in [Slots -> Vecs \cup {NoVec}] /\ TypeOK /\ op' \in Ops
       /\ UNCHANGED <<vector_count, graph, tombstones, deleted_flags, cut, torn, changes, restarts>>
  BY <1>2 DEF IInv, TypeOK
<1>5. TypeOK'
  <2> HIDE DEF InsertAgain
  <2> QED BY <1>4, <1>11, <1>12 DEF TypeOK, Ops
<1>6. CountedInv'
  BY <1>1, SlotsAreFinite DEF IInv, TypeOK, CountedInv, Unanswered
<1>7. OpInv'
  <2>1. op'.todo \in Seq(UsedSlots' \ {op'.slot})
    BY <1>3, EmptySeq
  <2>2. IsInjective(op'.todo)
    BY <1>3, IdleIs
  <2>3. op'.slot \in UsedSlots'
    BY <1>1, <1>3
  <2> QED BY <1>3, <2>1, <2>2, <2>3 DEF OpInv
<1>8. LinkInv' /\ SetInv'
  BY <1>1, <1>3 DEF LinkInv, SetInv
<1>9. FlagInv'
  BY DEF IInv, TypeOK, FlagInv, Unanswered
<1>10. EdgesAreSound' /\ EdgesAreDistinct'
  BY <1>1 DEF IInv, EdgesAreSound, EdgesAreDistinct, Free
<1> QED BY <1>5, <1>6, <1>7, <1>8, <1>9, <1>10 DEF IInv
(* The first slot, the steps on the entry point and the answer leave the   *)
(* lists alone.                                                            *)
LEMMA EnterFirstKeeps ==
    ASSUME IInv, EnterFirst
    PROVE  IInv'
<1> USE DEF EnterFirst, Goto, vectors, history, marks, counts, Neighbors
<1>1. op.slot \in UsedSlots /\ UsedSlots' = UsedSlots /\ UsedSlots \subseteq Slots /\ op \in Ops
  BY SlotsAreFinite DEF IInv, TypeOK, OpInv, Free, UsedSlots, Ops
<1>2. op'.pc = "initialize" /\ op'.slot = op.slot /\ op'.todo = op.todo /\ op' \in Ops
  BY <1>1 DEF Ops
<1>3. 0 \in Levels
  BY GraphAssumption DEF Levels
<1>4. TypeOK'
  BY <1>1, <1>2, <1>3 DEF IInv, TypeOK, Ops
<1>5. CountedInv' /\ LinkInv' /\ SetInv' /\ FlagInv'
  BY <1>1, <1>2 DEF IInv, SetInv, CountedInv, LinkInv, FlagInv
<1>6. OpInv'
  BY <1>1, <1>2 DEF IInv, OpInv
<1>7. EdgesAreSound' /\ EdgesAreDistinct'
  BY <1>1 DEF IInv, EdgesAreSound, EdgesAreDistinct, Free
<1> QED BY <1>4, <1>5, <1>6, <1>7 DEF IInv

LEMMA InitializeKeeps ==
    ASSUME IInv, Initialize
    PROVE  IInv'
<1> USE DEF Initialize, Goto, vectors, history, marks, counts, Neighbors
<1>1. op.slot \in UsedSlots /\ UsedSlots' = UsedSlots /\ hnsw_entry_point = op.slot /\ op \in Ops
  BY DEF IInv, TypeOK, OpInv, Free, UsedSlots, Ops
<1>2. op'.pc = "answer" /\ op'.slot = op.slot /\ op'.todo = op.todo /\ op' \in Ops
  BY <1>1 DEF Ops
<1>3. TypeOK'
  BY <1>2 DEF IInv, TypeOK, Ops
<1>4. CountedInv' /\ LinkInv' /\ SetInv' /\ FlagInv'
  BY <1>1, <1>2 DEF IInv, SetInv, CountedInv, LinkInv, FlagInv
<1>5. OpInv'
  BY <1>1, <1>2 DEF IInv, OpInv
<1>6. EdgesAreSound' /\ EdgesAreDistinct'
  BY <1>1 DEF IInv, EdgesAreSound, EdgesAreDistinct, Free
<1> QED BY <1>3, <1>4, <1>5, <1>6 DEF IInv

LEMMA RaiseEntryKeeps ==
    ASSUME IInv, RaiseEntry
    PROVE  IInv'
<1> USE DEF RaiseEntry, Goto, vectors, history, marks, counts, Neighbors
<1>1. op.slot \in UsedSlots /\ UsedSlots' = UsedSlots /\ UsedSlots \subseteq Slots /\ op \in Ops
  BY SlotsAreFinite DEF IInv, TypeOK, OpInv, Free, UsedSlots, Ops
<1>2. op'.pc = "raise_level" /\ op'.slot = op.slot /\ op'.todo = op.todo /\ op' \in Ops
  BY <1>1 DEF Ops
<1>3. TypeOK'
  BY <1>1, <1>2 DEF IInv, TypeOK, Ops
<1>4. CountedInv' /\ LinkInv' /\ SetInv' /\ FlagInv'
  BY <1>1, <1>2 DEF IInv, SetInv, CountedInv, LinkInv, FlagInv
<1>5. OpInv'
  BY <1>1, <1>2 DEF IInv, OpInv
<1>6. EdgesAreSound' /\ EdgesAreDistinct'
  BY <1>1 DEF IInv, EdgesAreSound, EdgesAreDistinct, Free
<1> QED BY <1>3, <1>4, <1>5, <1>6 DEF IInv

LEMMA RaiseLevelKeeps ==
    ASSUME IInv, RaiseLevel
    PROVE  IInv'
<1> USE DEF RaiseLevel, Goto, vectors, history, marks, counts, Neighbors
<1>1. op.slot \in UsedSlots /\ UsedSlots' = UsedSlots /\ op \in Ops
  BY DEF IInv, TypeOK, OpInv, Free, UsedSlots, Ops
<1>2. op'.pc = "answer" /\ op'.slot = op.slot /\ op'.todo = op.todo /\ op' \in Ops
  BY <1>1 DEF Ops
<1>3. TypeOK'
  BY <1>1, <1>2 DEF IInv, TypeOK, Ops
<1>4. CountedInv' /\ LinkInv' /\ SetInv' /\ FlagInv'
  BY <1>1, <1>2 DEF IInv, SetInv, CountedInv, LinkInv, FlagInv
<1>5. OpInv'
  BY <1>1, <1>2 DEF IInv, OpInv
<1>6. EdgesAreSound' /\ EdgesAreDistinct'
  BY <1>1 DEF IInv, EdgesAreSound, EdgesAreDistinct, Free
<1> QED BY <1>3, <1>4, <1>5, <1>6 DEF IInv

LEMMA AnswerKeeps ==
    ASSUME IInv, Answer
    PROVE  IInv'
<1> USE DEF Answer, vectors, graph, marks, counts, Neighbors
<1>1. op.slot \in UsedSlots /\ UsedSlots' = UsedSlots /\ UsedSlots \subseteq Slots
  BY SlotsAreFinite DEF IInv, OpInv, Free, UsedSlots
<1>2. op'.pc = "idle" /\ op'.todo = <<>> /\ op' \in Ops /\ IsInjective(op'.todo)
  BY IdleIs
<1>3. TypeOK'
  BY <1>1, <1>2 DEF IInv, TypeOK, Ops
<1>4. CountedInv' /\ LinkInv' /\ SetInv' /\ FlagInv'
  BY <1>1, <1>2 DEF IInv, SetInv, TypeOK, CountedInv, LinkInv, FlagInv
<1>5. OpInv'
  <2>1. op'.todo \in Seq(UsedSlots' \ {op'.slot})
    BY <1>2, EmptySeq
  <2> QED BY <1>2, <2>1 DEF OpInv, Free
<1>6. EdgesAreSound' /\ EdgesAreDistinct'
  BY <1>1 DEF IInv, EdgesAreSound, EdgesAreDistinct, Free
<1> QED BY <1>3, <1>4, <1>5, <1>6 DEF IInv

(* Updates, deletions and restarts leave the graph as it is.               *)
LEMMA UpdateKeeps ==
    ASSUME IInv, NEW i \in Slots, NEW v \in Vecs, Update(i, v)
    PROVE  IInv'
<1> USE DEF Update, graph, marks, Neighbors
<1>1. UsedSlots' = UsedSlots
  BY DEF UsedSlots
<1>2. changes' \in 0 .. MaxChanges
  BY BoundsAssumption DEF IInv, TypeOK, Change
<1>3. TypeOK'
  BY <1>2 DEF IInv, TypeOK
<1>4. CountedInv' /\ FlagInv'
  BY <1>1, SlotsAreFinite DEF IInv, TypeOK, CountedInv, FlagInv
<1>5. OpInv' /\ LinkInv' /\ SetInv'
  BY <1>1 DEF IInv, OpInv, LinkInv, SetInv, Free
<1>6. EdgesAreSound' /\ EdgesAreDistinct'
  BY <1>1 DEF IInv, EdgesAreSound, EdgesAreDistinct, Free
<1> QED BY <1>3, <1>4, <1>5, <1>6 DEF IInv

LEMMA DeleteKeeps ==
    ASSUME IInv, NEW i \in Slots, Delete(i)
    PROVE  IInv'
<1> USE DEF Delete, vectors, graph, Neighbors
<1>1. UsedSlots' = UsedSlots
  BY DEF UsedSlots
<1>2. changes' \in 0 .. MaxChanges
  BY BoundsAssumption DEF IInv, TypeOK, Change
<1>3. cut' \in BOOLEAN
  BY DEF IInv, TypeOK
<1>4. TypeOK'
  BY <1>2, <1>3 DEF IInv, TypeOK
<1>5. CountedInv' /\ FlagInv'
  BY <1>1 DEF IInv, TypeOK, CountedInv, FlagInv
<1>6. OpInv' /\ LinkInv' /\ SetInv'
  BY <1>1 DEF IInv, OpInv, LinkInv, SetInv, Free
<1>7. EdgesAreSound' /\ EdgesAreDistinct'
  BY <1>1 DEF IInv, EdgesAreSound, EdgesAreDistinct, Free
<1> QED BY <1>4, <1>5, <1>6, <1>7 DEF IInv

LEMMA RestartKeeps ==
    ASSUME IInv, Restart
    PROVE  IInv'
<1> USE DEF Restart, vectors, graph, Neighbors
<1>1. UsedSlots' = UsedSlots
  BY DEF UsedSlots
<1>2. restarts' \in 0 .. MaxRestarts
  BY BoundsAssumption DEF IInv, TypeOK
<1>3. op'.pc = "idle" /\ op'.todo = <<>> /\ op' \in Ops /\ IsInjective(op'.todo)
  BY IdleIs
<1>4. deleted_flags' \in [Slots -> BOOLEAN]
  BY Zenon
<1>5. \A i \in Slots : deleted_flags'[i] <=> (i \in UsedSlots /\ i \in tombstones)
  BY Zenon
<1>6. cut' \in BOOLEAN
  BY Zenon DEF IInv, TypeOK
<1>12. torn' \subseteq Slots \X Levels
  BY SlotsAreFinite DEF IInv, TypeOK, SetInv
<1>7. TypeOK'
  BY <1>2, <1>3, <1>4, <1>6, <1>12 DEF IInv, TypeOK, Ops
<1>8. CountedInv' /\ LinkInv' /\ SetInv'
  BY <1>1, <1>3 DEF IInv, CountedInv, LinkInv, SetInv
<1>9. FlagInv'
  <2>1. \A i \in Slots : acked[i] = "deleted" => i \in UsedSlots /\ i \in tombstones
    BY DEF IInv, CountedInv, FlagInv
  <2> QED BY <1>5, <2>1 DEF FlagInv
<1>10. OpInv'
  <2>1. op'.todo \in Seq(UsedSlots' \ {op'.slot})
    BY <1>3, EmptySeq
  <2> QED BY <1>3, <2>1 DEF OpInv, Free
<1>11. EdgesAreSound' /\ EdgesAreDistinct'
  BY <1>1 DEF IInv, EdgesAreSound, EdgesAreDistinct, Free
<1> QED BY <1>7, <1>8, <1>9, <1>10, <1>11 DEF IInv
(* The slot where the search starts is another one than the slot that is   *)
(* inserted.                                                               *)
LEMMA EnterKeeps ==
    ASSUME IInv, NEW level \in Levels, Enter(level)
    PROVE  IInv'
<1> DEFINE q == float_block[op.slot]
           A == UsedSlots \ {op.slot}
           d == Descend(q, level)
           at == Min({level, hnsw_max_level})
<1> USE DEF Enter, vectors, graph, history, marks, counts, Neighbors
<1>1. /\ op.pc = "enter" /\ op.slot \in UsedSlots /\ op \in Ops /\ hnsw_entry_point \in UsedSlots
      /\ UsedSlots' = UsedSlots
  BY DEF IInv, TypeOK, CountedInv, OpInv, Free, UsedSlots, Ops
<1>2. /\ TypeOK /\ Placed /\ UsedSlots \subseteq Slots /\ q \in Int \X Int
      /\ \A l \in Levels : Closed(UsedSlots, l)
  BY <1>1, Walkable DEF Placed
<1>3. d \in UsedSlots
  <2> HIDE DEF q
  <2> QED BY <1>1, <1>2, DescendIs
<1>4. ASSUME Apart PROVE d # op.slot
  <2>1. \A l \in Levels : Closed(A, l)
    <3> SUFFICES ASSUME NEW l \in Levels, NEW i \in A
                 PROVE  LiveNeighbors(i, l) \subseteq A
      BY DEF Closed
    <3>1. LiveNeighbors(i, l) \subseteq UsedSlots
      BY <1>2 DEF Closed
    <3>2. op.slot \notin Neighbors(i, l)
      BY <1>1, <1>2, <1>4 DEF Apart
    <3> QED BY <3>1, <3>2 DEF LiveNeighbors
  <2>2. hnsw_entry_point \in A
    BY <1>1, <1>4 DEF Apart
  <2> HIDE DEF q, A, d
  <2>3. d \in A
    BY <1>1, <1>2, <2>1, <2>2, DescendIs DEF d
  <2> QED BY <2>3 DEF A
<1>5. at \in Levels
  <2>1. level \in Nat /\ hnsw_max_level \in Nat /\ level <= MaxLevel
    BY <1>2, GraphAssumption DEF TypeOK, Levels
  <2>2. at \in Nat /\ at <= level
    BY <2>1, MinOf
  <2> HIDE DEF at
  <2> QED BY <2>1, <2>2, GraphAssumption DEF Levels
<1> HIDE DEF q, d, at
<1>6. op' = [op EXCEPT !.pc = "connect", !.level = level, !.at = at, !.curr = d]
  BY DEF q, d, at
<1>7. /\ op'.pc = "connect" /\ op'.slot = op.slot /\ op'.curr = d /\ op'.at = at
      /\ op'.todo = op.todo /\ op' \in Ops
  BY <1>1, <1>2, <1>3, <1>5, <1>6 DEF Ops
<1>8. TypeOK'
  BY <1>7 DEF IInv, TypeOK, Ops
<1>9. CountedInv' /\ FlagInv' /\ SetInv'
  BY <1>1, <1>7 DEF IInv, CountedInv, FlagInv, SetInv
<1>10. OpInv'
  BY <1>1, <1>3, <1>7 DEF IInv, OpInv
<1>11. LinkInv'
  <2>1. CASE Apart
    <3>1. Apart'
      BY <1>1, <1>4, <1>7, <2>1 DEF Apart
    <3> QED BY <3>1 DEF LinkInv
  <2>2. CASE op.slot \in again /\ deleted_flags[op.slot]
    BY <1>7, <2>2 DEF LinkInv
  <2> QED BY <1>1, <2>1, <2>2 DEF IInv, LinkInv
<1>12. EdgesAreSound' /\ EdgesAreDistinct'
  BY <1>1 DEF IInv, EdgesAreSound, EdgesAreDistinct, Free
<1> QED BY <1>8, <1>9, <1>10, <1>11, <1>12 DEF IInv

(* What follows when a list is written.                                    *)
LEMMA GoOnIs ==
    ASSUME NEW o \in Ops, GoOn(o)
    PROVE  /\ op' \in Ops /\ op'.slot = o.slot /\ op'.curr = o.curr /\ op'.todo = o.todo
           /\ op'.level = o.level
           /\ \/ op'.pc = "link" /\ o.todo # <<>> /\ op'.at = o.at
              \/ op'.pc = "connect" /\ o.todo = <<>> /\ o.at # 0 /\ op'.at < o.at
              \/ op'.pc \in {"raise", "answer"} /\ o.todo = <<>> /\ o.at = 0 /\ op'.at = o.at
<1>1. CASE o.todo # <<>>
  <2>1. op' = [o EXCEPT !.pc = "link"]
    BY <1>1 DEF GoOn
  <2>2. op' \in Ops
    BY <2>1 DEF Ops
  <2>3. op'.pc = "link" /\ op'.at = o.at /\ op'.slot = o.slot /\ op'.curr = o.curr
    BY <2>1 DEF Ops
  <2>4. op'.todo = o.todo /\ op'.level = o.level
    BY <2>1 DEF Ops
  <2> QED BY <1>1, <2>2, <2>3, <2>4
<1>2. CASE o.todo = <<>> /\ o.at > 0
  <2>1. o.at - 1 \in Levels /\ o.at - 1 < o.at /\ o.at # 0
    BY <1>2, GraphAssumption DEF Ops, Levels
  <2>2. op' = [o EXCEPT !.pc = "connect", !.at = o.at - 1]
    BY <1>2 DEF GoOn
  <2>3. op' \in Ops
    BY <2>1, <2>2 DEF Ops
  <2>4. op'.pc = "connect" /\ op'.at = o.at - 1 /\ op'.slot = o.slot /\ op'.curr = o.curr
    BY <2>2 DEF Ops
  <2>5. op'.todo = o.todo /\ op'.level = o.level
    BY <2>2 DEF Ops
  <2> QED BY <1>2, <2>1, <2>3, <2>4, <2>5
<1>3. CASE o.todo = <<>> /\ ~(o.at > 0)
  <2>1. \E pc \in {"raise", "answer"} : op' = [o EXCEPT !.pc = pc]
    BY <1>3 DEF GoOn
  <2>2. o.at = 0
    BY <1>3, GraphAssumption DEF Ops, Levels
  <2> QED BY <1>3, <2>1, <2>2 DEF Ops
<1> QED BY <1>1, <1>2, <1>3

(* The slot that is linked stays apart at the levels to come.              *)
LEMMA GoOnApart ==
    ASSUME op.at \in Levels, NEW o \in Ops, GoOn(o), o.curr # o.slot, o.at = op.at,
           \A i \in Slots, l \in Levels : o.slot \in Neighbors(i, l)' =>
              l > o.at \/ (l = o.at /\ i \notin ToSet(o.todo)),
           op'.pc \in {"connect", "link"}
    PROVE  Apart'
<1>1. /\ op' \in Ops /\ op'.slot = o.slot /\ op'.curr = o.curr /\ op'.todo = o.todo
      /\ (op'.pc = "link" /\ op'.at = o.at) \/ (op'.pc = "connect" /\ op'.at < o.at)
  BY GoOnIs
<1>2. o.at \in Int /\ op'.at \in Int /\ \A l \in Levels : l \in Int
  BY <1>1, GraphAssumption DEF Levels, Ops
<1>3. ASSUME NEW i \in Slots, NEW l \in Levels, op'.slot \in Neighbors(i, l)'
      PROVE  l > op'.at \/ (op'.pc = "link" /\ l = op'.at /\ i \notin ToSet(op'.todo))
  BY <1>1, <1>2, <1>3
<1> QED BY <1>1, <1>3 DEF Apart

(* What set_neighbors is called with.                                      *)
LEMMA SetIs ==
    ASSUME NEW o \in Ops, op.at \in Levels, NEW s \in Slots, NEW S \in SUBSET Slots,
           NEW t \in Seq(S), Len(t) <= m_max(op.at), Set(o, s, t)
    PROVE  /\ op' \in Ops /\ op'.pc = "set" /\ op'.slot = o.slot /\ op'.curr = o.curr
           /\ op'.todo = o.todo /\ op'.level = o.level /\ op'.at = o.at /\ op'.into = s
           /\ op'.list = Padded(t, op.at)
<1>1. Padded(t, op.at) \in Seq(Slots \cup {EMPTY})
  BY PaddedIs
<1>2. op' = [o EXCEPT !.pc = "set", !.into = s, !.list = Padded(t, op.at)]
  BY DEF Set
<1> QED BY <1>1, <1>2 DEF Ops

(* One store changes one place of one list.                                *)
LEMMA StoreIs ==
    ASSUME TypeOK, NEW s \in Slots, NEW at \in Levels, at = op.at, NEW n \in 1 .. m_max(at),
           NEW x \in Slots \cup {EMPTY}, Store(s, n, x)
    PROVE  /\ hnsw_edge_block' \in [Slots -> [Levels -> Seq(Slots \cup {EMPTY})]]
           /\ \A i \in Slots, l \in Levels : Len(hnsw_edge_block'[i][l]) = m_max(l)
           /\ \A i \in Slots, l \in Levels :
                 i # s \/ l # at => hnsw_edge_block'[i][l] = hnsw_edge_block[i][l]
           /\ \A k \in 1 .. m_max(at) :
                 hnsw_edge_block'[s][at][k] = IF k = n THEN x ELSE hnsw_edge_block[s][at][k]
<1> DEFINE old == hnsw_edge_block[s][at]
           new == [old EXCEPT ![n] = x]
<1>1. hnsw_edge_block' = [hnsw_edge_block EXCEPT ![s] = [@ EXCEPT ![at] = new]]
  BY DEF Store, TypeOK
<1>2. old \in Seq(Slots \cup {EMPTY}) /\ Len(old) = m_max(at) /\ m_max(at) \in Nat
  <2>1. m_max(at) \in Nat
    BY GraphAssumption DEF m_max
  <2> QED BY <2>1 DEF TypeOK
<1> HIDE DEF old
<1>3. /\ new \in Seq(Slots \cup {EMPTY}) /\ Len(new) = m_max(at)
      /\ \A k \in 1 .. m_max(at) : new[k] = IF k = n THEN x ELSE old[k]
  BY <1>2
<1> HIDE DEF new
<1>4. \A i \in Slots, l \in Levels :
         hnsw_edge_block'[i][l] = IF i = s /\ l = at THEN new ELSE hnsw_edge_block[i][l]
  BY <1>1 DEF TypeOK
<1>5. hnsw_edge_block' \in [Slots -> [Levels -> Seq(Slots \cup {EMPTY})]]
  BY <1>1, <1>3 DEF TypeOK
<1>6. ASSUME NEW i \in Slots, NEW l \in Levels PROVE Len(hnsw_edge_block'[i][l]) = m_max(l)
  <2>1. Len(hnsw_edge_block[i][l]) = m_max(l)
    BY DEF TypeOK
  <2> QED BY <1>3, <1>4, <2>1
<1> QED BY <1>3, <1>4, <1>5, <1>6 DEF old

(* The neighbours of a list of full length.                                *)
LEMMA NeighborsAre ==
    ASSUME TypeOK, NEW i \in Slots, NEW l \in Levels
    PROVE  \A x : x \in Neighbors(i, l) <=>
                    x # EMPTY /\ \E k \in 1 .. m_max(l) : hnsw_edge_block[i][l][k] = x
<1>1. DOMAIN hnsw_edge_block[i][l] = 1 .. m_max(l)
  BY DEF TypeOK
<1> QED BY <1>1 DEF Neighbors, ToSet

(* What a store adds to the neighbours; in a free place it drops none.     *)
LEMMA StoreAdds ==
    ASSUME TypeOK, NEW s \in Slots, NEW at \in Levels, at = op.at, NEW n \in 1 .. m_max(at),
           NEW x \in Slots \cup {EMPTY}, Store(s, n, x)
    PROVE  /\ \A i \in Slots, l \in Levels :
                 i # s \/ l # at => Neighbors(i, l)' = Neighbors(i, l)
           /\ Neighbors(s, at)' \subseteq Neighbors(s, at) \cup ({x} \ {EMPTY})
           /\ hnsw_edge_block[s][at][n] = EMPTY /\ x # EMPTY =>
                 Neighbors(s, at)' = Neighbors(s, at) \cup {x}
<1>1. /\ \A i \in Slots, l \in Levels : Len(hnsw_edge_block'[i][l]) = m_max(l)
      /\ \A i \in Slots, l \in Levels :
            i # s \/ l # at => hnsw_edge_block'[i][l] = hnsw_edge_block[i][l]
      /\ \A k \in 1 .. m_max(at) :
            hnsw_edge_block'[s][at][k] = IF k = n THEN x ELSE hnsw_edge_block[s][at][k]
      /\ hnsw_edge_block'[s][at] \in Seq(Slots \cup {EMPTY})
  BY StoreIs
<1>2. \A i \in Slots, l \in Levels : i # s \/ l # at => Neighbors(i, l)' = Neighbors(i, l)
  BY <1>1 DEF Neighbors
<1>3. DOMAIN hnsw_edge_block'[s][at] = 1 .. m_max(at)
  BY <1>1
<1>4. \A y : y \in Neighbors(s, at)' <=>
               y # EMPTY /\ \E k \in 1 .. m_max(at) : hnsw_edge_block'[s][at][k] = y
  BY <1>3 DEF Neighbors, ToSet
<1>5. \A y : y \in Neighbors(s, at) <=>
               y # EMPTY /\ \E k \in 1 .. m_max(at) : hnsw_edge_block[s][at][k] = y
  BY NeighborsAre
<1>6. Neighbors(s, at)' \subseteq Neighbors(s, at) \cup ({x} \ {EMPTY})
  BY <1>1, <1>4, <1>5
<1>7. ASSUME hnsw_edge_block[s][at][n] = EMPTY, x # EMPTY
      PROVE  Neighbors(s, at) \cup {x} \subseteq Neighbors(s, at)'
  <2>1. x \in Neighbors(s, at)'
    BY <1>1, <1>4, <1>7
  <2>2. ASSUME NEW y \in Neighbors(s, at) PROVE y \in Neighbors(s, at)'
    <3>1. PICK k \in 1 .. m_max(at) : hnsw_edge_block[s][at][k] = y /\ y # EMPTY
      BY <1>5
    <3>2. k # n
      BY <1>7, <3>1
    <3> QED BY <1>1, <1>4, <3>1, <3>2
  <2> QED BY <2>1, <2>2
<1> QED BY <1>2, <1>6, <1>7

(* A store of an edge to another counted slot keeps the edges sound.       *)
LEMMA StoreSound ==
    ASSUME IInv, NEW s \in UsedSlots, NEW at \in Levels, at = op.at, NEW n \in 1 .. m_max(at),
           NEW x \in (UsedSlots \ {s}) \cup {EMPTY}, Store(s, n, x), UNCHANGED vector_count
    PROVE  EdgesAreSound'
<1>1. TypeOK /\ UsedSlots \subseteq Slots /\ UsedSlots' = UsedSlots
  BY SlotsAreFinite DEF IInv, UsedSlots
<1>2. /\ \A i \in Slots, l \in Levels :
            i # s \/ l # at => Neighbors(i, l)' = Neighbors(i, l)
      /\ Neighbors(s, at)' \subseteq Neighbors(s, at) \cup ({x} \ {EMPTY})
  BY <1>1, StoreAdds
<1>3. \A i \in Slots, l \in Levels : Neighbors(i, l) \subseteq UsedSlots \ {i}
  BY DEF IInv, EdgesAreSound
<1>4. ASSUME NEW i \in Slots, NEW l \in Levels PROVE Neighbors(i, l)' \subseteq UsedSlots \ {i}
  BY <1>1, <1>2, <1>3
<1> QED BY <1>1, <1>4 DEF EdgesAreSound

(* No search meets the slot that is linked: the walks do not, and its flag *)
(* hides it if it is inserted again.                                       *)
LEMMA ConnectKeeps ==
    ASSUME IInv, Connect
    PROVE  IInv'
<1> DEFINE q == float_block[op.slot]
           A == UsedSlots \ {op.slot}
           results == search_layer(q, op.curr, EfConstruction, op.at)
           sorted == Sorted(q, results)
           selected == select_neighbors_heuristic(q, sorted, m_max(op.at))
           o == [op EXCEPT !.todo = selected,
                           !.curr = IF selected = <<>> THEN @ ELSE Head(selected)]
<1> USE DEF Connect, vectors, graph, counts
<1>1. op.pc = "connect" /\ op.slot \in UsedSlots /\ op.curr \in UsedSlots /\ op \in Ops /\ op.at \in Levels
  BY DEF IInv, TypeOK, OpInv, Free, Ops
<1>2. /\ TypeOK /\ Placed /\ UsedSlots \subseteq Slots /\ q \in Int \X Int
      /\ \A l \in Levels : Closed(UsedSlots, l) /\ m_max(l) \in Nat
  BY <1>1, Walkable DEF Placed
<1>3. Set(o, op.slot, selected)
  BY Zenon
<1>4. results \subseteq A
  <2>1. CASE Apart
    <3>1. Closed(A, op.at)
      <4> SUFFICES ASSUME NEW i \in A
                   PROVE  LiveNeighbors(i, op.at) \subseteq A
        BY DEF Closed
      <4>1. LiveNeighbors(i, op.at) \subseteq UsedSlots
        BY <1>1, <1>2 DEF Closed
      <4>2. op.slot \notin Neighbors(i, op.at)
        <5>1. ~(op.at > op.at)
          BY <1>1, GraphAssumption DEF Levels
        <5> QED BY <1>1, <1>2, <2>1, <5>1 DEF Apart
      <4> QED BY <4>1, <4>2 DEF LiveNeighbors
    <3>2. op.curr \in A
      BY <1>1, <2>1 DEF Apart
    <3> HIDE DEF q, A
    <3>3. results \subseteq Live(A)
      BY <1>1, <1>2, <3>1, <3>2, BeamAssumption, LayerIs
    <3> QED BY <3>3 DEF Live
  <2>2. CASE op.slot \in again /\ deleted_flags[op.slot]
    <3>1. results \subseteq Live(UsedSlots)
      <4> HIDE DEF q
      <4> QED BY <1>1, <1>2, BeamAssumption, LayerIs
    <3> QED BY <2>2, <3>1 DEF Live
  <2> QED BY <1>1, <2>1, <2>2 DEF IInv, LinkInv
<1>5. sorted \in Seq(A) /\ IsInjective(sorted)
  <2>1. results \in SUBSET UsedSlots
    BY <1>4
  <2> HIDE DEF q, results, A
  <2>2. sorted \in Seq(results) /\ IsInjective(sorted)
    BY <1>2, <2>1, SortedIs DEF Enumerates
  <2> QED BY <1>4, <2>2
<1>6. selected \in Seq(A) /\ Len(selected) <= m_max(op.at) /\ \A x : Once(x, selected)
  <2>1. A \in SUBSET UsedSlots /\ \A x : Once(x, sorted)
    <3> HIDE DEF sorted
    <3> QED BY <1>5, InjectiveIs
  <2> HIDE DEF q, sorted, A
  <2> QED BY <1>1, <1>2, <1>5, <2>1, HeuristicIs
<1> HIDE DEF q, results, sorted, selected, A
<1>7. selected \in Seq(Slots) /\ (selected # <<>> => Head(selected) \in A) /\ IsInjective(selected)
  <2>1. Seq(A) \subseteq Seq(Slots)
    BY <1>2 DEF A
  <2> QED BY <1>6, <2>1, InjectiveIs
<1>8. /\ o \in Ops /\ o.slot = op.slot /\ o.at = op.at /\ o.todo = selected
      /\ o.curr = IF selected = <<>> THEN op.curr ELSE Head(selected)
  BY <1>1, <1>2, <1>7 DEF Ops, A
<1>9. o.curr \in UsedSlots /\ (Apart => o.curr # op.slot)
  BY <1>1, <1>7, <1>8 DEF A, Apart
<1> HIDE DEF o
<1>10. /\ op' \in Ops /\ op'.pc = "set" /\ op'.slot = op.slot /\ op'.curr = o.curr
       /\ op'.todo = selected /\ op'.at = op.at /\ op'.into = op.slot
       /\ op'.list = Padded(selected, op.at)
  <2>1. A \in SUBSET Slots /\ op.slot \in Slots
    BY <1>1, <1>2 DEF A
  <2> QED BY <1>1, <1>3, <1>6, <1>8, <2>1, SetIs
<1>11. cut' \in BOOLEAN
  BY Zenon
<1>12. UNCHANGED <<vectors, graph, tombstones, deleted_flags, acked, again, torn, counts>>
  OBVIOUS
<1>13. UsedSlots' = UsedSlots
  BY DEF UsedSlots
<1> HIDE DEF Connect
<1>14. TypeOK'
  BY <1>2, <1>10, <1>11, <1>12 DEF TypeOK, Ops
<1>15. CountedInv' /\ FlagInv'
  BY <1>12, <1>13 DEF IInv, CountedInv, FlagInv
<1>16. OpInv'
  BY <1>1, <1>6, <1>7, <1>9, <1>10, <1>13 DEF OpInv, A
<1>17. SetInv'
  <2>1. /\ Len(op'.list) = m_max(op.at) /\ ToSet(op'.list) \subseteq A \cup {EMPTY}
        /\ \A x \in Slots : Once(x, op'.list)
    <3>1. A \in SUBSET Slots
      BY <1>2 DEF A
    <3> QED BY <1>1, <1>6, <1>10, <3>1, PaddedIs
  <2>2. op.slot \notin ToSet(op'.list)
    <3>1. op.slot # EMPTY
      BY <1>1, <1>2, GraphAssumption DEF Slots, EMPTY
    <3> QED BY <2>1, <3>1 DEF A
  <2> QED BY <1>1, <1>10, <1>13, <2>1, <2>2 DEF SetInv, A
<1>18. LinkInv'
  <2>1. CASE op.slot \in again /\ deleted_flags[op.slot]
    BY <1>10, <1>12, <2>1 DEF LinkInv
  <2>2. CASE Apart
    <3>1. \A i \in Slots, l \in Levels : Neighbors(i, l)' = Neighbors(i, l)
      BY <1>12 DEF Neighbors
    <3>2. Apart'
      BY <1>1, <1>9, <1>10, <2>2, <3>1 DEF Apart
    <3> QED BY <3>2 DEF LinkInv
  <2> QED BY <1>1, <2>1, <2>2 DEF IInv, LinkInv
<1>19. EdgesAreSound' /\ EdgesAreDistinct'
  BY <1>1, <1>12, <1>13 DEF IInv, EdgesAreSound, EdgesAreDistinct, Neighbors
<1> QED BY <1>14, <1>15, <1>16, <1>17, <1>18, <1>19 DEF IInv

(* A place of a list takes what the new list has there.                    *)
LEMMA LeastOf ==
    ASSUME NEW S \in SUBSET Nat, S # {}
    PROVE  Min(S) \in S
<1>1. \E n \in S : \A k \in S : n <= k
  BY LeastNumber
<1> QED BY <1>1 DEF Min

LEMMA SetNeighborIs ==
    ASSUME IInv, SetNeighbor
    PROVE  /\ op.pc = "set" /\ op.into \in UsedSlots /\ op.at \in Levels
           /\ \E n \in 1 .. m_max(op.at) :
                 Store(op.into, n, op.list[n]) /\ op.list[n] \in ToSet(op.list)
<1>1. op.pc = "set" /\ op.into \in UsedSlots /\ Len(op.list) = m_max(op.at)
  BY DEF SetNeighbor, IInv, SetInv
<1>2. op.list \in Seq(Slots \cup {EMPTY}) /\ op.at \in Levels
  BY DEF IInv, TypeOK
<1>3. DOMAIN op.list = 1 .. m_max(op.at) /\ m_max(op.at) \in Nat
  BY <1>1, <1>2, LenProperties
<1>4. Unset \in SUBSET Nat /\ Unset \subseteq DOMAIN op.list
  BY <1>3 DEF Unset
<1>5. Min(Unset) \in Unset /\ Store(op.into, Min(Unset), op.list[Min(Unset)])
  BY <1>4, LeastOf DEF SetNeighbor
<1> QED BY <1>1, <1>2, <1>3, <1>4, <1>5 DEF ToSet

LEMMA SetNeighborKeeps ==
    ASSUME IInv, SetNeighbor
    PROVE  IInv'
<1> USE DEF vectors, history, marks, counts
<1>1. UNCHANGED <<vectors, is_initialized, hnsw_entry_point, hnsw_max_level, tombstones,
                  deleted_flags, op, history>>
  BY DEF SetNeighbor, Store
<1>2. PICK s \in UsedSlots, at \in Levels, n \in 1 .. m_max(op.at),
              x \in ToSet(op.list) :
         /\ s = op.into /\ at = op.at /\ x = op.list[n]
         /\ Store(s, n, x)
  BY SetNeighborIs
<1>3. TypeOK /\ UsedSlots \subseteq Slots /\ UsedSlots' = UsedSlots /\ op.pc = "set"
  BY <1>1, SlotsAreFinite, SetNeighborIs DEF IInv, UsedSlots
<1>4. x \in (UsedSlots \ {s}) \cup {EMPTY} /\ n \in 1 .. m_max(at)
  BY <1>2, <1>3 DEF IInv, SetInv
<1>5. /\ hnsw_edge_block' \in [Slots -> [Levels -> Seq(Slots \cup {EMPTY})]]
      /\ \A i \in Slots, l \in Levels : Len(hnsw_edge_block'[i][l]) = m_max(l)
      /\ \A i \in Slots, l \in Levels :
            i # s \/ l # at => hnsw_edge_block'[i][l] = hnsw_edge_block[i][l]
  BY <1>2, <1>3, <1>4, StoreIs
<1>6. TypeOK'
  BY <1>1, <1>3, <1>5 DEF TypeOK
<1>7. CountedInv' /\ FlagInv' /\ OpInv' /\ SetInv'
  BY <1>1, <1>3 DEF IInv, CountedInv, FlagInv, OpInv, SetInv, Free
<1>8. LinkInv'
  <2>1. CASE op.slot \in again /\ deleted_flags[op.slot]
    BY <1>1, <2>1 DEF LinkInv
  <2>2. CASE Apart
    <3>1. /\ \A i \in Slots, l \in Levels :
                i # s \/ l # at => Neighbors(i, l)' = Neighbors(i, l)
          /\ Neighbors(s, at)' \subseteq Neighbors(s, at) \cup ({x} \ {EMPTY})
      BY <1>2, <1>3, <1>4, StoreAdds
    <3>2. op.slot = x => s \notin ToSet(op.todo)
      BY <1>2, <1>3 DEF IInv, SetInv
    <3>3. ASSUME NEW i \in Slots, NEW l \in Levels, op.slot \in Neighbors(i, l)'
          PROVE  l > op.at \/ (l = op.at /\ i \notin ToSet(op.todo))
      <4>1. CASE op.slot \in Neighbors(i, l)
        BY <1>3, <2>2, <4>1 DEF Apart
      <4>2. CASE op.slot \notin Neighbors(i, l)
        BY <1>2, <3>1, <3>2, <3>3, <4>2
      <4> QED BY <4>1, <4>2
    <3>4. op' = op
      BY <1>1
    <3>5. Apart'
      BY <1>3, <2>2, <3>3, <3>4 DEF Apart
    <3> QED BY <3>5 DEF LinkInv
  <2> QED BY <1>3, <2>1, <2>2 DEF IInv, LinkInv
<1>9. EdgesAreSound'
  BY <1>1, <1>2, <1>4, StoreSound
<1>10. EdgesAreDistinct'
  BY <1>1, <1>2, <1>3, <1>5 DEF IInv, EdgesAreDistinct
<1> QED BY <1>6, <1>7, <1>8, <1>9, <1>10 DEF IInv

(* When all places are written the list is the new one.                    *)
LEMMA SetDoneKeeps ==
    ASSUME IInv, SetDone
    PROVE  IInv'
<1> DEFINE o == [op EXCEPT !.into = EMPTY, !.list = <<>>]
<1> USE DEF vectors, graph, history, marks, counts
<1>1. /\ op.pc = "set" /\ Unset = {} /\ GoOn(o)
      /\ UNCHANGED <<vectors, graph, tombstones, deleted_flags, history>>
  BY DEF SetDone
<1>2. /\ TypeOK /\ UsedSlots \subseteq Slots /\ UsedSlots' = UsedSlots /\ op \in Ops
      /\ op.at \in Levels /\ op.into \in UsedSlots
  BY <1>1, SlotsAreFinite DEF IInv, UsedSlots, TypeOK, Ops, SetInv
<1>3. /\ o \in Ops /\ o.slot = op.slot /\ o.at = op.at /\ o.curr = op.curr /\ o.todo = op.todo
  BY <1>2, EmptySeq DEF Ops
<1> HIDE DEF o
<1>4. /\ op' \in Ops /\ op'.slot = op.slot /\ op'.curr = op.curr /\ op'.todo = op.todo
      /\ op'.pc = "link" => op.todo # <<>>
      /\ op'.pc \in {"connect", "link", "raise", "answer"}
  BY <1>1, <1>3, GoOnIs
<1>5. TypeOK'
  BY <1>1, <1>2, <1>4 DEF TypeOK, Ops
<1>6. CountedInv' /\ FlagInv' /\ SetInv'
  BY <1>1, <1>2, <1>4 DEF IInv, CountedInv, FlagInv, SetInv
<1>7. OpInv'
  BY <1>1, <1>2, <1>4 DEF IInv, OpInv, Free
<1>8. LinkInv'
  <2>1. CASE op.slot \in again /\ deleted_flags[op.slot]
    BY <1>1, <1>4, <2>1 DEF LinkInv
  <2>2. CASE Apart
    <3>1. \A i \in Slots, l \in Levels : Neighbors(i, l)' = Neighbors(i, l)
      BY <1>1 DEF Neighbors
    <3>2. \A i \in Slots, l \in Levels : op.slot \in Neighbors(i, l)' =>
             l > op.at \/ (l = op.at /\ i \notin ToSet(op.todo))
      BY <2>2, <3>1 DEF Apart
    <3>3. op.curr # op.slot
      BY <1>1, <2>2 DEF Apart
    <3>4. op'.pc \in {"connect", "link"} => Apart'
      BY <1>1, <1>2, <1>3, <3>2, <3>3, GoOnApart
    <3> QED BY <1>4, <3>4 DEF LinkInv
  <2> QED BY <1>1, <2>1, <2>2 DEF IInv, LinkInv
<1>9. EdgesAreSound'
  BY <1>1, <1>2 DEF IInv, EdgesAreSound, Neighbors
<1>10. EdgesAreDistinct'
  <2>1. ASSUME <<op.into, op.at>> \notin torn, NEW x \in Slots \ again
        PROVE  Once(x, hnsw_edge_block[op.into][op.at])
    <3>1. Once(x, op.list)
      BY <1>1, <2>1 DEF IInv, SetInv
    <3>2. \A n \in DOMAIN op.list : hnsw_edge_block[op.into][op.at][n] = op.list[n]
      BY <1>1 DEF Unset
    <3>3. DOMAIN hnsw_edge_block[op.into][op.at] = DOMAIN op.list
      <4>1. Len(op.list) = m_max(op.at) /\ op.list \in Seq(Slots \cup {EMPTY})
        BY <1>1 DEF IInv, SetInv, TypeOK
      <4>2. /\ Len(hnsw_edge_block[op.into][op.at]) = m_max(op.at)
            /\ hnsw_edge_block[op.into][op.at] \in Seq(Slots \cup {EMPTY})
        BY <1>2 DEF TypeOK
      <4> QED BY <4>1, <4>2, LenProperties
    <3> QED BY <3>1, <3>2, <3>3 DEF Once
  <2>2. ASSUME NEW i \in Slots, NEW l \in Levels
        PROVE  <<i, l>> \in torn \/ \A x \in Slots \ again : Once(x, hnsw_edge_block[i][l])
    <3>1. CASE i = op.into /\ l = op.at
      BY <2>1, <3>1
    <3>2. CASE ~(i = op.into /\ l = op.at)
      BY <3>2 DEF IInv, EdgesAreDistinct
    <3> QED BY <3>1, <3>2
  <2> QED BY <1>1, <2>2 DEF EdgesAreDistinct
<1> QED BY <1>5, <1>6, <1>7, <1>8, <1>9, <1>10 DEF IInv

(* The neighbour that is next, and the others.                             *)
LEMMA TodoIs ==
    ASSUME IInv, op.pc = "link"
    PROVE  /\ Head(op.todo) \in UsedSlots \ {op.slot}
           /\ Tail(op.todo) \in Seq(UsedSlots \ {op.slot}) /\ IsInjective(Tail(op.todo))
           /\ Tail(op.todo) \in Seq(Slots)
           /\ ToSet(op.todo) = {Head(op.todo)} \cup ToSet(Tail(op.todo))
           /\ Head(op.todo) \notin ToSet(Tail(op.todo))
<1> DEFINE nb == Head(op.todo)
           rest == Tail(op.todo)
<1>1. op.todo # <<>> /\ op.todo \in Seq(UsedSlots \ {op.slot}) /\ IsInjective(op.todo)
  BY DEF IInv, OpInv
<1>2. /\ nb \in UsedSlots \ {op.slot} /\ rest \in Seq(UsedSlots \ {op.slot})
      /\ nb = op.todo[1] /\ Len(op.todo) \in Nat \ {0} /\ DOMAIN op.todo = 1 .. Len(op.todo)
      /\ DOMAIN rest = 1 .. Len(op.todo) - 1
      /\ \A k \in 1 .. Len(op.todo) - 1 : rest[k] = op.todo[k + 1]
  BY <1>1, HeadTailProperties, LenProperties
<1> HIDE DEF nb, rest
<1>3. \A k \in 1 .. Len(op.todo) - 1 : k + 1 \in DOMAIN op.todo /\ k + 1 # 1
  BY <1>2
<1>4. 1 \in DOMAIN op.todo
  BY <1>2
<1>5. nb \notin ToSet(rest)
  <2>1. \A k \in 1 .. Len(op.todo) - 1 : rest[k] # nb
    BY <1>1, <1>2, <1>3, <1>4 DEF IsInjective
  <2> QED BY <1>2, <2>1 DEF ToSet
<1>6. IsInjective(rest)
  <2> SUFFICES ASSUME NEW j \in 1 .. Len(op.todo) - 1, NEW k \in 1 .. Len(op.todo) - 1,
                      rest[j] = rest[k]
               PROVE  j = k
    BY <1>2 DEF IsInjective
  <2>1. j + 1 = k + 1
    BY <1>1, <1>2, <1>3 DEF IsInjective
  <2> QED BY <2>1
<1>7. ToSet(op.todo) = {nb} \cup ToSet(rest)
  <2>1. \A k \in 1 .. Len(op.todo) : k = 1 \/ (k - 1 \in 1 .. Len(op.todo) - 1 /\ k - 1 + 1 = k)
    BY <1>2
  <2>2. ASSUME NEW k \in DOMAIN op.todo PROVE op.todo[k] \in {nb} \cup ToSet(rest)
    <3>1. k # 1 => k - 1 \in DOMAIN rest /\ op.todo[k] = rest[k - 1]
      BY <1>2, <2>1
    <3> QED BY <1>2, <3>1 DEF ToSet
  <2>3. \A k \in DOMAIN rest : \E j \in DOMAIN op.todo : rest[k] = op.todo[j]
    BY <1>2, <1>3
  <2>4. \E j \in DOMAIN op.todo : nb = op.todo[j]
    BY <1>2, <1>4
  <2> DEFINE T == ToSet(rest)
  <2>5. \A x : x \in T <=> \E k \in DOMAIN rest : x = rest[k]
    BY DEF ToSet
  <2>6. \A x : x \in ToSet(op.todo) <=> \E k \in DOMAIN op.todo : x = op.todo[k]
    BY DEF ToSet
  <2> HIDE DEF T
  <2> QED BY <2>2, <2>3, <2>4, <2>5, <2>6 DEF T
<1>8. rest \in Seq(Slots)
  <2>1. UsedSlots \subseteq Slots
    BY SlotsAreFinite DEF IInv
  <2>2. Seq(UsedSlots \ {op.slot}) \subseteq Seq(Slots)
    BY <2>1
  <2> QED BY <1>2, <2>2
<1> QED BY <1>2, <1>5, <1>6, <1>7, <1>8 DEF nb, rest

(* An edge back goes to a free place, and then the next one is linked.     *)
LEMMA LinkBackIs ==
    ASSUME IInv, LinkBack
    PROVE  \E s \in UsedSlots, at \in Levels, n \in Nat, o \in Ops :
              /\ s = Head(op.todo) /\ at = op.at /\ n \in 1 .. m_max(at)
              /\ hnsw_edge_block[s][at][n] = EMPTY /\ Store(s, n, op.slot)
              /\ GoOn(o) /\ o.slot = op.slot /\ o.at = op.at /\ o.curr = op.curr
              /\ o.todo = Tail(op.todo) /\ o.level = op.level
<1> DEFINE nb == Head(op.todo)
           o == [op EXCEPT !.todo = Tail(@)]
           room == Room(nb, op.at)
<1>1. op.pc = "link" /\ room # {} /\ Store(nb, Min(room), op.slot) /\ GoOn(o)
  BY Zenon DEF LinkBack
<1>2. nb \in UsedSlots /\ Tail(op.todo) \in Seq(Slots) /\ op \in Ops /\ op.at \in Levels
  BY <1>1, TodoIs DEF IInv, TypeOK, Ops
<1>3. o \in Ops /\ o.slot = op.slot /\ o.at = op.at /\ o.curr = op.curr /\ o.todo = Tail(op.todo)
      /\ o.level = op.level
  BY <1>2 DEF Ops
<1>4. Min(room) \in room
  <2>1. m_max(op.at) \in Nat
    BY GraphAssumption DEF m_max
  <2>2. room \in SUBSET Nat
    BY <2>1 DEF Room
  <2> HIDE DEF room
  <2> QED BY <1>1, <2>2, LeastOf
<1> HIDE DEF nb, o
<1>5. Min(room) \in Nat /\ Min(room) \in 1 .. m_max(op.at) /\ hnsw_edge_block[nb][op.at][Min(room)] = EMPTY
  <2>1. m_max(op.at) \in Nat
    BY GraphAssumption DEF m_max
  <2> QED BY <1>4, <2>1 DEF Room
<1> HIDE DEF room
<1> QED BY <1>1, <1>2, <1>3, <1>5 DEF nb

(* The list of a neighbour does not lead to the slot yet.                  *)
LEMMA LinkBackKeeps ==
    ASSUME IInv, LinkBack
    PROVE  IInv'
<1> USE DEF vectors, history, marks, counts
<1>1. /\ UNCHANGED <<vectors, is_initialized, hnsw_entry_point, hnsw_max_level, tombstones,
                     deleted_flags, history>>
      /\ op.pc = "link"
  BY DEF LinkBack, Store
<1>2. PICK s \in UsedSlots, at \in Levels, n \in Nat, o \in Ops :
         /\ s = Head(op.todo) /\ at = op.at /\ n \in 1 .. m_max(at)
         /\ hnsw_edge_block[s][at][n] = EMPTY /\ Store(s, n, op.slot)
         /\ GoOn(o) /\ o.slot = op.slot /\ o.at = op.at /\ o.curr = op.curr
         /\ o.todo = Tail(op.todo)
  BY LinkBackIs
<1>3. /\ TypeOK /\ UsedSlots \subseteq Slots /\ UsedSlots' = UsedSlots /\ op.at \in Levels
      /\ op.slot \in UsedSlots /\ op.curr \in UsedSlots
  BY <1>1, SlotsAreFinite DEF IInv, UsedSlots, TypeOK, OpInv, Free
<1>4. /\ s # op.slot /\ o.todo \in Seq(UsedSlots \ {op.slot}) /\ IsInjective(o.todo)
      /\ ToSet(op.todo) = {s} \cup ToSet(o.todo) /\ s \notin ToSet(o.todo)
  BY <1>1, <1>2, TodoIs
<1>5. /\ hnsw_edge_block' \in [Slots -> [Levels -> Seq(Slots \cup {EMPTY})]]
      /\ \A i \in Slots, l \in Levels : Len(hnsw_edge_block'[i][l]) = m_max(l)
      /\ \A i \in Slots, l \in Levels :
            i # s \/ l # at => hnsw_edge_block'[i][l] = hnsw_edge_block[i][l]
      /\ \A k \in 1 .. m_max(at) :
            hnsw_edge_block'[s][at][k] = IF k = n THEN op.slot ELSE hnsw_edge_block[s][at][k]
  BY <1>2, <1>3, StoreIs
<1>6. /\ op' \in Ops /\ op'.slot = op.slot /\ op'.curr = op.curr /\ op'.todo = o.todo
      /\ op'.pc = "link" => o.todo # <<>>
      /\ op'.pc \in {"connect", "link", "raise", "answer"}
  BY <1>2, GoOnIs
<1>7. TypeOK'
  BY <1>1, <1>3, <1>5, <1>6 DEF TypeOK, Ops
<1>8. CountedInv' /\ FlagInv' /\ SetInv'
  BY <1>1, <1>3, <1>6 DEF IInv, CountedInv, FlagInv, SetInv
<1>9. OpInv'
  BY <1>1, <1>3, <1>4, <1>6 DEF OpInv
<1>10. LinkInv'
  <2>1. CASE op.slot \in again /\ deleted_flags[op.slot]
    BY <1>1, <1>6, <2>1 DEF LinkInv
  <2>2. CASE Apart
    <3>1. /\ \A i \in Slots, l \in Levels :
                i # s \/ l # at => Neighbors(i, l)' = Neighbors(i, l)
      BY <1>2, <1>3, StoreAdds
    <3>2. ASSUME NEW i \in Slots, NEW l \in Levels, op.slot \in Neighbors(i, l)'
          PROVE  l > op.at \/ (l = op.at /\ i \notin ToSet(o.todo))
      <4>1. CASE i = s /\ l = at
        BY <1>2, <1>4, <4>1
      <4>2. CASE i # s \/ l # at
        BY <1>1, <1>4, <2>2, <3>1, <3>2, <4>2 DEF Apart
      <4> QED BY <4>1, <4>2
    <3>3. op.curr # op.slot
      BY <1>1, <2>2 DEF Apart
    <3>4. op'.pc \in {"connect", "link"} => Apart'
      BY <1>2, <1>3, <3>2, <3>3, GoOnApart
    <3> QED BY <1>6, <3>4 DEF LinkInv
  <2> QED BY <1>1, <2>1, <2>2 DEF IInv, LinkInv
<1>11. EdgesAreSound'
  BY <1>1, <1>2, <1>3, <1>4, StoreSound
<1>12. EdgesAreDistinct'
  <2>1. ASSUME <<s, at>> \notin torn, NEW x \in Slots \ again
        PROVE  Once(x, hnsw_edge_block'[s][at])
    <3>1. Once(x, hnsw_edge_block[s][at])
      BY <1>1, <1>3, <2>1 DEF IInv, EdgesAreDistinct
    <3>2. /\ DOMAIN hnsw_edge_block[s][at] = 1 .. m_max(at)
          /\ DOMAIN hnsw_edge_block'[s][at] = 1 .. m_max(at)
      BY <1>3, <1>5 DEF TypeOK
    <3>3. ASSUME x = op.slot, NEW k \in 1 .. m_max(at) PROVE hnsw_edge_block[s][at][k] # op.slot
      <4>1. Apart
        BY <1>1, <2>1, <3>3 DEF IInv, LinkInv
      <4>2. op.slot \notin Neighbors(s, at)
        <5>1. ~(at > at)
          BY GraphAssumption DEF Levels
        <5> QED BY <1>1, <1>2, <1>3, <1>4, <4>1, <5>1 DEF Apart
      <4>3. op.slot # EMPTY
        BY <1>3, GraphAssumption DEF Slots, EMPTY
      <4> QED BY <1>3, <4>2, <4>3, NeighborsAre
    <3> QED BY <1>5, <3>1, <3>2, <3>3 DEF Once
  <2>2. ASSUME NEW i \in Slots, NEW l \in Levels
        PROVE  <<i, l>> \in torn \/ \A x \in Slots \ again : Once(x, hnsw_edge_block'[i][l])
    <3>1. CASE i = s /\ l = at
      BY <2>1, <3>1
    <3>2. CASE i # s \/ l # at
      BY <1>1, <1>5, <3>2 DEF IInv, EdgesAreDistinct
    <3> QED BY <3>1, <3>2
  <2> QED BY <1>1, <2>2 DEF EdgesAreDistinct
<1> QED BY <1>7, <1>8, <1>9, <1>10, <1>11, <1>12 DEF IInv

(* A full list is written anew from its neighbours and the slot, and keeps *)
(* what it had once.                                                       *)
LEMMA PruneIs ==
    ASSUME IInv, Prune
    PROVE  \E s \in UsedSlots, at \in Levels :
              /\ s = Head(op.todo) /\ at = op.at
              /\ op' \in Ops /\ op'.pc = "set" /\ op'.slot = op.slot /\ op'.curr = op.curr
              /\ op'.todo = Tail(op.todo) /\ op'.level = op.level /\ op'.at = at /\ op'.into = s
              /\ Len(op'.list) = m_max(at)
              /\ ToSet(op'.list) \subseteq Neighbors(s, at) \cup {op.slot, EMPTY}
              /\ \A x \in Slots :
                    /\ Once(x, hnsw_edge_block[s][at])
                    /\ x = op.slot => x \notin Neighbors(s, at)
                    => Once(x, op'.list)
<1> DEFINE nb == Head(op.todo)
           at == op.at
           edges == hnsw_edge_block[nb][at]
           X == Neighbors(nb, at) \cup {op.slot}
           c == <<op.slot>> \o edges
           o == [op EXCEPT !.todo = Tail(@)]
           selected == select_neighbors_heuristic(float_block[nb], c, m_max(at))
<1>1. op.pc = "link" /\ Room(nb, at) = {} /\ Set(o, nb, selected)
  BY Zenon DEF Prune
<1>2. /\ TypeOK /\ Placed /\ UsedSlots \subseteq Slots /\ m_max(at) \in Nat
      /\ nb \in UsedSlots /\ nb \in Slots /\ float_block[nb] \in Int \X Int
      /\ op \in Ops /\ at \in Levels /\ op.slot \in UsedSlots /\ op.slot \in Slots
      /\ Tail(op.todo) \in Seq(Slots)
  BY <1>1, Walkable, TodoIs DEF Placed, IInv, OpInv, TypeOK, Ops, Free
<1>3. /\ o \in Ops /\ o.slot = op.slot /\ o.at = at /\ o.curr = op.curr /\ o.todo = Tail(op.todo)
      /\ o.level = op.level
  BY <1>2 DEF Ops
<1> HIDE DEF o, nb, at
<1>4. /\ edges \in Seq(Slots \cup {EMPTY}) /\ Len(edges) = m_max(at) /\ DOMAIN edges = 1 .. m_max(at)
      /\ \A k \in 1 .. m_max(at) : edges[k] \in Neighbors(nb, at)
  <2>1. \A k \in 1 .. m_max(at) : edges[k] # EMPTY
    BY <1>1 DEF Room
  <2>2. edges \in Seq(Slots \cup {EMPTY}) /\ Len(edges) = m_max(at)
    BY <1>2 DEF TypeOK
  <2> QED BY <1>2, <2>1, <2>2, LenProperties, NeighborsAre
<1>5. X \in SUBSET UsedSlots /\ X \in SUBSET Slots /\ op.slot \in X
  BY <1>2 DEF IInv, EdgesAreSound
<1> HIDE DEF edges
<1>6. edges \in Seq(X)
  <2>1. \A k \in 1 .. Len(edges) : edges[k] \in X
    BY <1>4
  <2> HIDE DEF X
  <2> QED BY <1>4, <2>1
<1>7. /\ c \in Seq(X) /\ DOMAIN c = 1 .. m_max(at) + 1
      /\ \A k \in 1 .. m_max(at) + 1 : c[k] = IF k = 1 THEN op.slot ELSE edges[k - 1]
  <2> HIDE DEF X
  <2> QED BY <1>2, <1>4, <1>5, <1>6
<1> HIDE DEF c, X
<1>8. /\ selected \in Seq(X) /\ Len(selected) <= m_max(at)
      /\ \A x : Once(x, c) => Once(x, selected)
  BY <1>2, <1>5, <1>7, HeuristicIs
<1> HIDE DEF selected
<1>9. /\ op' \in Ops /\ op'.pc = "set" /\ op'.slot = op.slot /\ op'.curr = op.curr
      /\ op'.todo = Tail(op.todo) /\ op'.level = op.level /\ op'.at = at /\ op'.into = nb
      /\ op'.list = Padded(selected, at)
  BY <1>1, <1>2, <1>3, <1>5, <1>8, SetIs DEF at
<1>10. /\ Len(op'.list) = m_max(at) /\ ToSet(op'.list) \subseteq X \cup {EMPTY}
       /\ \A x \in Slots : Once(x, selected) => Once(x, op'.list)
  BY <1>2, <1>5, <1>8, <1>9, PaddedIs
<1>11. ASSUME NEW x \in Slots, Once(x, edges), x = op.slot => x \notin Neighbors(nb, at)
       PROVE  Once(x, c)
  <2>1. \A k \in 1 .. m_max(at) + 1 : k = 1 \/ (k - 1 \in 1 .. m_max(at) /\ k - 1 + 1 = k)
    BY <1>2
  <2>2. ASSUME NEW j \in 1 .. m_max(at) + 1, NEW k \in 1 .. m_max(at) + 1, c[j] = x, c[k] = x
        PROVE  j = k
    <3>1. CASE j = 1 \/ k = 1
      <4>1. x = op.slot
        BY <1>7, <2>2, <3>1
      <4>2. \A n \in 1 .. m_max(at) : edges[n] # x
        BY <1>4, <1>11, <4>1
      <4> QED BY <1>7, <2>1, <2>2, <4>2
    <3>2. CASE j # 1 /\ k # 1
      <4>1. /\ edges[j - 1] = x /\ edges[k - 1] = x
            /\ j - 1 \in 1 .. m_max(at) /\ k - 1 \in 1 .. m_max(at)
        BY <1>7, <2>1, <2>2, <3>2
      <4>2. j - 1 = k - 1
        BY <1>4, <1>11, <4>1 DEF Once
      <4> QED BY <2>1, <3>2, <4>2
    <3> QED BY <3>1, <3>2
  <2> QED BY <1>7, <2>2 DEF Once
<1>12. \A x \in Slots : Once(x, edges) /\ (x = op.slot => x \notin Neighbors(nb, at)) => Once(x, op'.list)
  BY <1>8, <1>10, <1>11
<1> QED BY <1>2, <1>9, <1>10, <1>12 DEF nb, at, edges, X

LEMMA PruneKeeps ==
    ASSUME IInv, Prune
    PROVE  IInv'
<1> USE DEF vectors, graph, counts
<1>1. /\ UNCHANGED <<vectors, graph, tombstones, deleted_flags, acked, again, torn, counts>>
      /\ cut' \in BOOLEAN /\ op.pc = "link"
  BY Zenon DEF Prune
<1>2. PICK s \in UsedSlots, at \in Levels :
         /\ s = Head(op.todo) /\ at = op.at
         /\ op' \in Ops /\ op'.pc = "set" /\ op'.slot = op.slot /\ op'.curr = op.curr
         /\ op'.todo = Tail(op.todo) /\ op'.at = at /\ op'.into = s
         /\ Len(op'.list) = m_max(at)
         /\ ToSet(op'.list) \subseteq Neighbors(s, at) \cup {op.slot, EMPTY}
         /\ \A x \in Slots : Once(x, hnsw_edge_block[s][at])
                             /\ (x = op.slot => x \notin Neighbors(s, at)) => Once(x, op'.list)
  BY PruneIs
<1>3. /\ TypeOK /\ UsedSlots \subseteq Slots /\ UsedSlots' = UsedSlots
      /\ op.slot \in UsedSlots /\ op.curr \in UsedSlots
  BY <1>1, SlotsAreFinite DEF IInv, UsedSlots, OpInv, Free
<1>4. /\ s # op.slot /\ op'.todo \in Seq(UsedSlots \ {op.slot}) /\ IsInjective(op'.todo)
      /\ ToSet(op.todo) = {s} \cup ToSet(op'.todo) /\ s \notin ToSet(op'.todo)
  BY <1>1, <1>2, TodoIs
<1>5. TypeOK'
  BY <1>1, <1>2, <1>3 DEF TypeOK, Ops
<1>6. CountedInv' /\ FlagInv'
  BY <1>1, <1>3 DEF IInv, CountedInv, FlagInv
<1>7. OpInv'
  BY <1>2, <1>3, <1>4 DEF OpInv
<1>8. SetInv'
  <2>1. Neighbors(s, at) \subseteq UsedSlots \ {s}
    BY <1>3 DEF IInv, EdgesAreSound
  <2>2. ASSUME <<s, at>> \notin torn, NEW x \in Slots \ again PROVE Once(x, op'.list)
    <3>1. Once(x, hnsw_edge_block[s][at])
      BY <1>1, <1>3, <2>2 DEF IInv, EdgesAreDistinct
    <3>2. ASSUME x = op.slot PROVE x \notin Neighbors(s, at)
      <4>1. Apart
        BY <1>1, <2>2, <3>2 DEF IInv, LinkInv
      <4>2. ~(at > at)
        BY GraphAssumption DEF Levels
      <4> QED BY <1>1, <1>2, <1>3, <1>4, <3>2, <4>1, <4>2 DEF Apart
    <3> QED BY <1>2, <3>1, <3>2
  <2> QED BY <1>1, <1>2, <1>3, <1>4, <2>1, <2>2 DEF SetInv
<1>9. LinkInv'
  <2>1. CASE op.slot \in again /\ deleted_flags[op.slot]
    BY <1>1, <1>2, <2>1 DEF LinkInv
  <2>2. CASE Apart
    <3>1. \A i \in Slots, l \in Levels : Neighbors(i, l)' = Neighbors(i, l)
      BY <1>1 DEF Neighbors
    <3>2. Apart'
      BY <1>1, <1>2, <1>4, <2>2, <3>1 DEF Apart
    <3> QED BY <3>2 DEF LinkInv
  <2> QED BY <1>1, <2>1, <2>2 DEF IInv, LinkInv
<1>10. EdgesAreSound' /\ EdgesAreDistinct'
  BY <1>1, <1>3 DEF IInv, EdgesAreSound, EdgesAreDistinct, Neighbors
<1> QED BY <1>5, <1>6, <1>7, <1>8, <1>9, <1>10 DEF IInv

LEMMA NextKeeps ==
    ASSUME IInv, [Next]_vars
    PROVE  IInv'
<1>1. CASE \E v \in Vecs : InsertFresh(v)
  BY <1>1, InsertFreshKeeps
<1>2. CASE \E i \in Slots, v \in Vecs : InsertAgain(i, v) \/ Update(i, v)
  BY <1>2, InsertAgainKeeps, UpdateKeeps
<1>3. CASE EnterFirst \/ Initialize \/ RaiseEntry \/ RaiseLevel \/ Answer
  BY <1>3, EnterFirstKeeps, InitializeKeeps, RaiseEntryKeeps, RaiseLevelKeeps, AnswerKeeps
<1>4. CASE \E level \in Levels : Enter(level)
  BY <1>4, EnterKeeps
<1>5. CASE Connect \/ SetNeighbor \/ SetDone \/ LinkBack \/ Prune
  BY <1>5, ConnectKeeps, SetNeighborKeeps, SetDoneKeeps, LinkBackKeeps, PruneKeeps
<1>6. CASE \E i \in Slots : Delete(i)
  BY <1>6, DeleteKeeps
<1>7. CASE Restart
  BY <1>7, RestartKeeps
<1>8. CASE UNCHANGED vars
  <2> USE <1>8 DEF vars, vectors, graph, history, marks, counts
  <2>1. UsedSlots' = UsedSlots
    BY DEF UsedSlots
  <2>2. TypeOK' /\ CountedInv' /\ FlagInv'
    BY <2>1 DEF IInv, TypeOK, CountedInv, FlagInv
  <2>3. OpInv' /\ SetInv' /\ LinkInv'
    BY <2>1 DEF IInv, OpInv, SetInv, LinkInv, Apart, Free, Neighbors
  <2>4. EdgesAreSound' /\ EdgesAreDistinct'
    BY <2>1 DEF IInv, EdgesAreSound, EdgesAreDistinct, Neighbors
  <2> QED BY <2>2, <2>3, <2>4 DEF IInv
<1> QED BY <1>1, <1>2, <1>3, <1>4, <1>5, <1>6, <1>7, <1>8 DEF Next
-----------------------------------------------------------------------------
(* The results.                                                            *)

(* The parts of the invariant hold together at every step of an insertion, *)
(* however many slots, levels and neighbours there are, and after a        *)
(* restart between any two stores to the file.                             *)
THEOREM Invariance == Spec => []IInv
<1>1. Init => IInv
  BY InitIInv
<1>2. IInv /\ [Next]_vars => IInv'
  BY NextKeeps
<1> QED BY <1>1, <1>2, PTL DEF Spec

(* Every variable of the graph, the file and the writer keeps its type.    *)
THEOREM TypeCorrect == Spec => []TypeOK
<1>1. IInv => TypeOK
  BY DEF IInv
<1> QED BY <1>1, Invariance, PTL

(* hnsw_insert and its edges back: no edge leads to a slot that is not     *)
(* counted or to its own slot, at every store of set_neighbors too.        *)
THEOREM EdgesSound == Spec => []EdgesAreSound
<1>1. IInv => EdgesAreSound
  BY DEF IInv
<1> QED BY <1>1, Invariance, PTL

(* hnsw_insert, set_neighbors and append_neighbor: a slot is twice in a    *)
(* list only while the list is rewritten, after a crash that fell into     *)
(* that, or if the slot was inserted again; as no walk meets the slot that *)
(* is linked before its edges back.                                        *)
THEOREM EdgesDistinct == Spec => []EdgesAreDistinct
<1>1. IInv => EdgesAreDistinct
  BY DEF IInv
<1> QED BY <1>1, Invariance, PTL

LEMMA DeletedHiddenStep ==
    ASSUME IInv
    PROVE  DeletedAreHidden
<1> SUFFICES ASSUME is_initialized, NEW d \in Slots, acked[d] = "deleted", NEW v \in Vecs
             PROVE  d \notin ToSet(SearchN(v, Capacity)) /\ Search(v) # d
  BY DEF DeletedAreHidden
<1> DEFINE from == Descend(v, 0)
           Layer(ef) == search_layer(v, from, ef, 0)
<1>1. /\ TypeOK /\ Placed /\ UsedSlots \subseteq Slots /\ v \in Int \X Int
      /\ 0 \in Levels /\ \A l \in Levels : Closed(UsedSlots, l)
      /\ hnsw_entry_point \in UsedSlots
  BY Walkable, VecsAssumption, GraphAssumption DEF IInv, CountedInv, Levels
<1>2. from \in UsedSlots
  BY <1>1, DescendIs
<1> HIDE DEF from
<1>3. \A ef \in Nat : Layer(ef) \subseteq Live(UsedSlots)
  BY <1>1, <1>2, LayerIs
<1>4. \A i \in Live(UsedSlots) : i \in UsedSlots /\ i \in Slots /\ acked[i] # "deleted"
  BY <1>1 DEF IInv, FlagInv, Live
<1>5. ToSet(SearchN(v, Capacity)) \subseteq {i \in Slots : acked[i] # "deleted"}
  <2>1. CASE vector_count = 0
    BY <2>1 DEF SearchN, ToSet
  <2>2. CASE vector_count # 0
    <3> DEFINE ef == 4 * Max({EfSearch, Capacity})
               found == Layer(ef)
               results == Sorted(v, found)
    <3>7. ef \in Nat
      BY BeamAssumption, GraphAssumption, MaxOf
    <3> HIDE DEF ef
    <3>1. found \in SUBSET UsedSlots /\ \A i \in found : i \in Slots /\ acked[i] # "deleted"
      BY <1>3, <1>4, <3>7
    <3>2. SearchN(v, Capacity) = SubSeq(results, 1, Min({Capacity, Len(results)}))
      BY <2>2 DEF SearchN, hnsw_search, from, ef
    <3> HIDE DEF found
    <3>3. results \in Seq(found)
      BY <1>1, <3>1, SortedIs
    <3>4. \A k \in DOMAIN results : results[k] \in found
      BY <3>3, ElementOfSeq
    <3>5. Capacity \in Nat
      BY GraphAssumption
    <3> HIDE DEF results
    <3>6. ToSet(SearchN(v, Capacity)) \subseteq ToSet(results)
      BY <3>2, <3>3, <3>5, FirstOf
    <3> QED BY <3>1, <3>4, <3>6 DEF ToSet
  <2> QED BY <2>1, <2>2
<1>6. Search(v) = EMPTY \/ acked[Search(v)] # "deleted"
  <2> DEFINE found == Layer(8)
  <2>1. Search(v) = EMPTY \/ (found # {} /\ Search(v) = Closest(v, found))
    BY DEF Search, hnsw_search_1, search_layer_1, from
  <2>2. found \in SUBSET UsedSlots /\ \A i \in found : acked[i] # "deleted"
    BY <1>3, <1>4
  <2> HIDE DEF found
  <2>3. found # {} => Closest(v, found) \in found
    BY <1>1, <2>2, ClosestIs
  <2> QED BY <2>1, <2>2, <2>3
<1>7. d # EMPTY
  BY GraphAssumption DEF Slots, EMPTY
<1> QED BY <1>5, <1>6, <1>7

(* search and search_N: whatever edges lead to it, a slot whose deletion   *)
(* was answered is in no answer, also after a restart.                     *)
THEOREM DeletedHidden == Spec => []DeletedAreHidden
<1>1. IInv => DeletedAreHidden
  BY DeletedHiddenStep
<1> QED BY <1>1, Invariance, PTL
-----------------------------------------------------------------------------
(* What a search finds, while the graph is whole.                          *)

(* The slots that are joined: each one a search may start from or reach    *)
(* through the upper levels, and each one stored.  The slot that is being  *)
(* linked is one when it has all its edges.                                *)
HasUpper(i) ==
    \/ \E j \in Slots, l \in Levels \ {0} : i \in Neighbors(j, l)
    \/ op.pc = "set" /\ op.at # 0 /\ i \in ToSet(op.list)
Underway == op.pc \in {"enter", "connect", "set", "link"}
Searching == op.pc = "connect" \/ (op.pc \in {"set", "link"} /\ op.at # 0)

InCore(i) ==
    \/ i = op.slot /\ op.pc \in {"raise", "raise_level", "answer"}
    \/ /\ ~deleted_flags[i] /\ ~(i = op.slot /\ Underway)
       /\ \/ acked[i] = "stored"
          \/ is_initialized /\ i = hnsw_entry_point
          \/ Searching /\ i = op.curr
          \/ HasUpper(i)
Core == {i \in Slots : InCore(i)}

(* All of them are neighbours of each other at level 0, and the one that   *)
(* is linked there gets edges to all of them, and then theirs.             *)
Whole == \A i, j \in Core : i # j => j \in Neighbors(i, 0)
Entered == is_initialized => hnsw_entry_point \in Core
Started == Searching => op.curr \in Core
Joining ==
    /\ op.pc = "set" /\ op.at = 0 =>
          op.into = op.slot /\ \A i \in Core : i \in ToSet(op.list) /\ i \in ToSet(op.todo)
    /\ op.pc = "link" /\ op.at = 0 => \A i \in Core :
          /\ i \in Neighbors(op.slot, 0)
          /\ i \in ToSet(op.todo) \/ op.slot \in Neighbors(i, 0)

CoreInv == ~cut => Whole /\ Entered /\ Started /\ Joining

(* Before the first slot is the graph there is none.                       *)
FirstInv ==
    /\ ~is_initialized =>
          /\ \A i \in Slots : acked[i] \notin {"stored", "deleted"}
          /\ \A i \in Slots, l \in Levels : Neighbors(i, l) = {}
          /\ op.pc \in {"idle", "enter", "initialize"}
    /\ op.pc = "initialize" => ~is_initialized

(* A flag has its tombstone, and nobody was told of the slot under way.    *)
HeldInv ==
    /\ \A i \in Slots : deleted_flags[i] => i \in tombstones
    /\ ~Free => acked[op.slot] = "unsure"

NodeInv == FirstInv /\ HeldInv /\ CoreInv

LEMMA InitNodeInv == Init => NodeInv
<1> SUFFICES ASSUME Init PROVE NodeInv
  OBVIOUS
<1>1. op.pc = "idle" /\ ~is_initialized
  BY DEF Init, Idle
<1>3. ASSUME NEW i \in Slots, NEW l \in Levels PROVE Neighbors(i, l) = {}
  <2>1. hnsw_edge_block[i][l] = Padded(<<>>, l)
    BY DEF Init
  <2>2. ToSet(Padded(<<>>, l)) \subseteq {} \cup {EMPTY}
    <3>1. m_max(l) \in Nat
      BY GraphAssumption DEF m_max
    <3>2. <<>> \in Seq({}) /\ {} \in SUBSET Slots /\ Len(<<>>) <= m_max(l)
      BY <3>1, EmptySeq
    <3> QED BY <3>2, PaddedIs
  <2> QED BY <2>1, <2>2 DEF Neighbors
<1>4. Core = {}
  <2>1. \A i \in Slots : ~HasUpper(i)
    BY <1>1, <1>3 DEF HasUpper
  <2>2. \A i \in Slots : acked[i] = "unused"
    BY DEF Init
  <2> QED BY <1>1, <2>1, <2>2 DEF Core, InCore, Searching
<1>5. FirstInv /\ HeldInv
  BY <1>1, <1>3 DEF Init, FirstInv, HeldInv, Free
<1>6. CoreInv
  BY <1>1, <1>4 DEF CoreInv, Whole, Entered, Started, Joining, Searching
<1> QED BY <1>5, <1>6 DEF NodeInv

(* Only counted slots are joined, and no walk above level 0 leaves them.   *)
LEMMA CoreClosed ==
    ASSUME IInv
    PROVE  /\ Core \subseteq UsedSlots
           /\ \A i \in Core : ~deleted_flags[i] \/ op.pc \in {"raise", "raise_level", "answer"}
           /\ \A l \in Levels \ {0} :
                 \/ op.pc \in {"idle", "enter"}
                 \/ op.pc = "connect" /\ l = op.at
                 => Closed(Core, l)
<1>1. \A i \in Slots : HasUpper(i) => i \in UsedSlots
  <2>1. EMPTY \notin Slots
    BY GraphAssumption DEF Slots, EMPTY
  <2> QED BY <2>1 DEF IInv, EdgesAreSound, SetInv, HasUpper
<1>2. Core \subseteq UsedSlots
  <2> SUFFICES ASSUME NEW i \in Slots, InCore(i) PROVE i \in UsedSlots
    BY DEF Core
  <2>1. ~Free => op.slot \in UsedSlots
    BY DEF IInv, OpInv
  <2>2. Searching => op.curr \in UsedSlots
    BY DEF IInv, OpInv, Searching
  <2>3. acked[i] = "stored" => i \in UsedSlots
    BY DEF IInv, CountedInv
  <2>4. is_initialized => hnsw_entry_point \in UsedSlots
    BY DEF IInv, CountedInv
  <2> QED BY <1>1, <2>1, <2>2, <2>3, <2>4 DEF InCore, Free
<1>3. \A i \in Core : ~deleted_flags[i] \/ op.pc \in {"raise", "raise_level", "answer"}
  BY DEF Core, InCore
<1>4. ASSUME NEW l \in Levels \ {0}, op.pc \in {"idle", "enter"} \/ (op.pc = "connect" /\ l = op.at)
      PROVE  Closed(Core, l)
  <2> SUFFICES ASSUME NEW i \in Core, NEW j \in LiveNeighbors(i, l) PROVE InCore(j) /\ j \in Slots
    BY <1>2 DEF Closed, Core
  <2>1. i \in Slots /\ j \in Neighbors(i, l) /\ ~deleted_flags[j] /\ j \in Slots
    BY SlotsAreFinite DEF IInv, EdgesAreSound, LiveNeighbors, Core
  <2>2. HasUpper(j)
    BY <2>1 DEF HasUpper
  <2>3. ASSUME j = op.slot, Underway PROVE FALSE
    <3>1. Apart
      BY <2>1, <2>3 DEF IInv, LinkInv, Underway
    <3>2. l \in Int /\ ~(l > l)
      BY GraphAssumption DEF Levels
    <3> QED BY <1>4, <2>1, <2>3, <3>1, <3>2 DEF Apart, Underway
  <2> QED BY <2>1, <2>2, <2>3 DEF InCore
<1> QED BY <1>2, <1>3, <1>4

(* A smaller set of joined slots stays whole.                              *)
LEMMA CoreShrinks ==
    ASSUME Whole, Core' \subseteq Core, hnsw_edge_block' = hnsw_edge_block
    PROVE  Whole'
BY DEF Whole, Neighbors

(* Between two lists the upper levels are what they were.                  *)
LEMMA UpperStays ==
    ASSUME hnsw_edge_block' = hnsw_edge_block, op.pc # "set", op'.pc # "set", NEW i
    PROVE  HasUpper(i)' <=> HasUpper(i)
BY DEF HasUpper, Neighbors

LEMMA InsertFreshJoins ==
    ASSUME IInv, NodeInv, NEW v \in Vecs, InsertFresh(v)
    PROVE  NodeInv'
<1> DEFINE n == vector_count
<1> USE DEF InsertFresh, graph, marks, counts
<1>1. n \in Slots /\ n \notin UsedSlots
  <2>1. n \in Nat /\ n < Capacity /\ Capacity \in Nat
    BY SlotsAreFinite, GraphAssumption DEF IInv
  <2> QED BY <2>1 DEF Slots, UsedSlots
<1>2. op'.pc = "enter" /\ op'.slot = n /\ op.pc = "idle"
  BY DEF Idle, Free
<1>3. /\ \A i \in Slots : i # n => acked'[i] = acked[i] /\ deleted_flags'[i] = deleted_flags[i]
      /\ acked'[n] = "unsure" /\ ~deleted_flags'[n]
  BY <1>1 DEF IInv, TypeOK, Unanswered
<1>4. FirstInv'
  BY <1>2, <1>3 DEF NodeInv, FirstInv, Neighbors
<1>5. HeldInv'
  BY <1>2, <1>3 DEF NodeInv, HeldInv
<1>6. CoreInv'
  <2> SUFFICES ASSUME ~cut' PROVE Whole' /\ Entered' /\ Started' /\ Joining'
    BY DEF CoreInv
  <2>1. Whole /\ Entered
    BY DEF NodeInv, CoreInv
  <2>2. ASSUME NEW i \in Slots PROVE InCore(i)' <=> InCore(i) /\ i # n
    <3>1. HasUpper(i)' <=> HasUpper(i)
      BY <1>2, UpperStays
    <3>2. ~HasUpper(n) /\ acked[n] # "stored" /\ (is_initialized => hnsw_entry_point # n)
      BY <1>1, <1>2 DEF IInv, EdgesAreSound, CountedInv, HasUpper
    <3> QED BY <1>2, <1>3, <3>1, <3>2 DEF InCore, Underway, Searching
  <2>3. Core' \subseteq Core /\ \A i \in Core : i # n => i \in Core'
    BY <2>2 DEF Core
  <2>4. Entered'
    BY <1>1, <2>1, <2>3 DEF IInv, CountedInv, Entered
  <2> QED BY <1>2, <2>1, <2>3, <2>4, CoreShrinks DEF Started, Joining, Searching
<1> QED BY <1>4, <1>5, <1>6 DEF NodeInv

LEMMA InsertAgainJoins ==
    ASSUME IInv, NodeInv, NEW n \in Slots, NEW v \in Vecs, InsertAgain(n, v)
    PROVE  NodeInv'
<1> USE DEF InsertAgain, graph
<1>1. deleted_flags[n]
  BY DEF IInv, FlagInv
<1>2. op'.pc = "enter" /\ op'.slot = n /\ op.pc = "idle"
  BY DEF Idle, Free
<1>3. (\A i \in Slots : i # n => acked'[i] = acked[i]) /\ acked'[n] = "unsure"
  BY DEF IInv, TypeOK, Unanswered
<1>4. FirstInv'
  BY <1>2, <1>3 DEF NodeInv, FirstInv, Neighbors
<1>5. HeldInv'
  BY <1>2, <1>3 DEF NodeInv, HeldInv
<1>6. CoreInv'
  <2> SUFFICES ASSUME ~cut' PROVE Whole' /\ Entered' /\ Started' /\ Joining'
    BY DEF CoreInv
  <2>1. Whole /\ Entered
    BY DEF NodeInv, CoreInv
  <2>2. ASSUME NEW i \in Slots PROVE InCore(i)' <=> InCore(i)
    <3>1. HasUpper(i)' <=> HasUpper(i)
      BY <1>2, UpperStays
    <3> QED BY <1>1, <1>2, <1>3, <3>1 DEF InCore, Underway, Searching
  <2>3. Core' = Core
    BY <2>2 DEF Core
  <2>4. Entered'
    BY <2>1, <2>3 DEF Entered
  <2> QED BY <1>2, <2>1, <2>3, <2>4, CoreShrinks DEF Started, Joining, Searching
<1> QED BY <1>4, <1>5, <1>6 DEF NodeInv

LEMMA EnterFirstJoins ==
    ASSUME IInv, NodeInv, EnterFirst
    PROVE  NodeInv'
<1> USE DEF EnterFirst, Goto, vectors, history, marks, counts
<1>1. op.pc = "enter" /\ op'.pc = "initialize" /\ op'.slot = op.slot
  BY DEF IInv, TypeOK
<1>2. FirstInv'
  BY <1>1 DEF NodeInv, FirstInv, Neighbors
<1>3. HeldInv'
  BY <1>1 DEF NodeInv, HeldInv, Free
<1>4. Core' = {}
  <2>2. \A i \in Slots : ~HasUpper(i)' /\ acked'[i] # "stored"
    BY <1>1 DEF NodeInv, FirstInv, HasUpper, Neighbors
  <2> QED BY <1>1, <2>2 DEF Core, InCore, Searching
<1>5. CoreInv'
  BY <1>1, <1>4 DEF CoreInv, Whole, Entered, Started, Joining, Searching
<1> QED BY <1>2, <1>3, <1>5 DEF NodeInv

(* The first slot is joined with itself.                                   *)
LEMMA InitializeJoins ==
    ASSUME IInv, NodeInv, Initialize
    PROVE  NodeInv'
<1> USE DEF Initialize, Goto, vectors, history, marks, counts
<1>1. /\ op.pc = "initialize" /\ op'.pc = "answer" /\ op'.slot = op.slot /\ op.slot \in Slots
      /\ hnsw_entry_point = op.slot /\ ~is_initialized
  BY SlotsAreFinite DEF IInv, TypeOK, OpInv, Free, NodeInv, FirstInv
<1>2. FirstInv'
  BY <1>1 DEF FirstInv, Neighbors
<1>3. HeldInv'
  BY <1>1 DEF NodeInv, HeldInv, Free
<1>4. Core' = {op.slot}
  <2>2. \A i \in Slots : ~HasUpper(i)' /\ acked'[i] # "stored"
    BY <1>1 DEF NodeInv, FirstInv, HasUpper, Neighbors
  <2> QED BY <1>1, <2>2 DEF Core, InCore, Searching
<1>5. CoreInv'
  BY <1>1, <1>4 DEF CoreInv, Whole, Entered, Started, Joining, Searching
<1> QED BY <1>2, <1>3, <1>5 DEF NodeInv

(* The walk to the first level that is linked ends at a joined slot.       *)
LEMMA EnterJoins ==
    ASSUME IInv, NodeInv, NEW level \in Levels, Enter(level)
    PROVE  NodeInv'
<1> DEFINE q == float_block[op.slot]
           d == Descend(q, level)
           at == Min({level, hnsw_max_level})
<1> USE DEF Enter, vectors, graph, history, marks, counts
<1>1. op.pc = "enter" /\ op.slot \in UsedSlots /\ op \in Ops /\ is_initialized
  BY DEF IInv, TypeOK, OpInv, Free, Ops
<1>2. op' = [op EXCEPT !.pc = "connect", !.level = level, !.at = at, !.curr = d]
  OBVIOUS
<1> HIDE DEF q, d, at
<1>3. /\ op'.pc = "connect" /\ op'.slot = op.slot /\ op'.curr = d /\ op'.at = at
      /\ op'.level = level
  BY <1>1, <1>2 DEF Ops
<1>4. FirstInv'
  BY <1>1 DEF FirstInv, Neighbors
<1>5. HeldInv'
  BY <1>1, <1>3 DEF NodeInv, HeldInv, Free
<1>7. CoreInv'
  <2> SUFFICES ASSUME ~cut' PROVE Whole' /\ Entered' /\ Started' /\ Joining'
    BY DEF CoreInv
  <2>1. Whole /\ hnsw_entry_point \in Core
    BY <1>1 DEF NodeInv, CoreInv, Entered
  <2>2. d \in Core
    <3>1. /\ TypeOK /\ Placed /\ UsedSlots \subseteq Slots /\ q \in Int \X Int
          /\ (\A l \in Levels : Closed(UsedSlots, l)) /\ hnsw_entry_point \in UsedSlots
      BY <1>1, Walkable DEF Placed, q, IInv, CountedInv
    <3>2. \A l \in Levels : l > level => l \in Levels \ {0}
      BY GraphAssumption DEF Levels
    <3>3. \A l \in Levels : l > level => Closed(Core, l)
      BY <1>1, <3>2, CoreClosed
    <3> HIDE DEF Enter
    <3> QED BY <2>1, <3>1, <3>3, DescendIs DEF d
  <2>3. d # op.slot /\ ~deleted_flags[d] /\ hnsw_entry_point # op.slot
    BY <1>1, <2>1, <2>2 DEF Core, InCore, Underway
  <2>4. ASSUME NEW i \in Slots PROVE InCore(i)' <=> InCore(i) \/ i = d
    <3>1. HasUpper(i)' <=> HasUpper(i)
      BY <1>1, <1>3, UpperStays
    <3> QED BY <1>1, <1>3, <2>3, <3>1 DEF InCore, Underway, Searching
  <2>5. Core' = Core
    BY <2>2, <2>4 DEF Core
  <2>6. Started' /\ Entered'
    BY <1>3, <2>1, <2>2, <2>5 DEF Started, Entered
  <2> QED BY <1>3, <2>1, <2>5, <2>6, CoreShrinks DEF Joining
<1> QED BY <1>4, <1>5, <1>7 DEF NodeInv

LEMMA RaiseEntryJoins ==
    ASSUME IInv, NodeInv, RaiseEntry
    PROVE  NodeInv'
<1> USE DEF RaiseEntry, Goto, vectors, history, marks, counts
<1>1. op.pc = "raise" /\ op'.pc = "raise_level" /\ op'.slot = op.slot /\ op.slot \in Slots
  BY SlotsAreFinite DEF IInv, TypeOK, OpInv, Free
<1>2. FirstInv' /\ HeldInv'
  BY <1>1 DEF NodeInv, FirstInv, HeldInv, Free
<1>3. CoreInv'
  <2> SUFFICES ASSUME ~cut' PROVE Whole' /\ Entered' /\ Started' /\ Joining'
    BY DEF CoreInv
  <2>1. Whole
    BY DEF NodeInv, CoreInv
  <2>2. ASSUME NEW i \in Slots PROVE (InCore(i)' => InCore(i)) /\ InCore(op.slot)'
    <3>1. HasUpper(i)' <=> HasUpper(i)
      BY <1>1, UpperStays
    <3> QED BY <1>1, <3>1 DEF InCore, Underway, Searching
  <2>3. Core' \subseteq Core /\ op.slot \in Core'
    BY <1>1, <2>2 DEF Core
  <2> QED BY <1>1, <2>1, <2>3, CoreShrinks DEF Entered, Started, Joining, Searching
<1> QED BY <1>2, <1>3 DEF NodeInv

LEMMA RaiseLevelJoins ==
    ASSUME IInv, NodeInv, RaiseLevel
    PROVE  NodeInv'
<1> USE DEF RaiseLevel, Goto, vectors, history, marks, counts
<1>1. op.pc = "raise_level" /\ op'.pc = "answer" /\ op'.slot = op.slot
  BY DEF IInv, TypeOK
<1>2. FirstInv' /\ HeldInv'
  BY <1>1 DEF NodeInv, FirstInv, HeldInv, Free
<1>3. CoreInv'
  <2> SUFFICES ASSUME ~cut' PROVE Whole' /\ Entered' /\ Started' /\ Joining'
    BY DEF CoreInv
  <2>1. Whole /\ Entered
    BY DEF NodeInv, CoreInv
  <2>2. ASSUME NEW i \in Slots PROVE InCore(i)' <=> InCore(i)
    <3>1. HasUpper(i)' <=> HasUpper(i)
      BY <1>1, UpperStays
    <3> QED BY <1>1, <3>1 DEF InCore, Underway, Searching
  <2>3. Core' = Core
    BY <2>2 DEF Core
  <2> QED BY <1>1, <2>1, <2>3, CoreShrinks DEF Entered, Started, Joining, Searching
<1> QED BY <1>2, <1>3 DEF NodeInv

(* A slot is joined before its insertion is answered.                      *)
LEMMA AnswerJoins ==
    ASSUME IInv, NodeInv, Answer
    PROVE  NodeInv'
<1> USE DEF Answer, vectors, graph, marks, counts
<1>1. op.pc = "answer" /\ op'.pc = "idle" /\ op.slot \in Slots
  BY SlotsAreFinite, IdleIs DEF IInv, OpInv, Free
<1>2. /\ \A i \in Slots : i # op.slot => acked'[i] = acked[i] /\ deleted_flags'[i] = deleted_flags[i]
      /\ acked'[op.slot] = "stored" /\ ~deleted_flags'[op.slot]
  BY <1>1 DEF IInv, TypeOK
<1>3. FirstInv' /\ HeldInv'
  BY <1>1, <1>2 DEF NodeInv, FirstInv, HeldInv, Free
<1>4. CoreInv'
  <2> SUFFICES ASSUME ~cut' PROVE Whole' /\ Entered' /\ Started' /\ Joining'
    BY DEF CoreInv
  <2>1. Whole /\ Entered
    BY DEF NodeInv, CoreInv
  <2>2. ASSUME NEW i \in Slots
        PROVE  /\ InCore(i)' => InCore(i)
               /\ is_initialized /\ i = hnsw_entry_point /\ InCore(i) => InCore(i)'
    <3>1. HasUpper(i)' <=> HasUpper(i)
      BY <1>1, UpperStays
    <3> QED BY <1>1, <1>2, <3>1 DEF InCore, Underway, Searching
  <2>3. Core' \subseteq Core
    BY <2>2 DEF Core
  <2>4. Entered'
    BY <2>1, <2>2 DEF Entered, Core
  <2> QED BY <1>1, <2>1, <2>3, <2>4, CoreShrinks DEF Started, Joining, Searching
<1> QED BY <1>3, <1>4 DEF NodeInv

LEMMA UpdateJoins ==
    ASSUME IInv, NodeInv, NEW n \in Slots, NEW v \in Vecs, Update(n, v)
    PROVE  NodeInv'
<1> USE DEF Update, graph, marks
<1>1. FirstInv' /\ HeldInv'
  BY DEF NodeInv, FirstInv, HeldInv, Free
<1>2. \A i \in Slots : InCore(i)' <=> InCore(i)
  BY DEF InCore, Underway, Searching, HasUpper, Neighbors
<1>3. Core' = Core
  BY <1>2 DEF Core
<1>4. CoreInv'
  BY <1>3 DEF NodeInv, CoreInv, Whole, Entered, Started, Joining, Searching, Neighbors
<1> QED BY <1>1, <1>4 DEF NodeInv

(* What is deleted is joined no more; the rest still is.                   *)
LEMMA DeleteJoins ==
    ASSUME IInv, NodeInv, NEW n \in Slots, Delete(n)
    PROVE  NodeInv'
<1> USE DEF Delete, vectors, graph
<1>1. op.pc = "idle" /\ acked[n] = "stored"
  BY DEF Free
<1>2. /\ \A i \in Slots : i # n => acked'[i] = acked[i] /\ deleted_flags'[i] = deleted_flags[i]
      /\ acked'[n] = "deleted" /\ deleted_flags'[n]
  BY DEF IInv, TypeOK
<1>3. FirstInv' /\ HeldInv'
  BY <1>1, <1>2 DEF NodeInv, FirstInv, HeldInv, Free
<1>4. CoreInv'
  <2> SUFFICES ASSUME ~cut' PROVE Whole' /\ Entered' /\ Started' /\ Joining'
    BY DEF CoreInv
  <2>1. ~cut /\ n # hnsw_entry_point
    BY Zenon
  <2>2. Whole /\ Entered
    BY <2>1 DEF NodeInv, CoreInv
  <2>3. ASSUME NEW i \in Slots PROVE InCore(i)' <=> InCore(i) /\ i # n
    <3>1. HasUpper(i)' <=> HasUpper(i)
      BY <1>1, UpperStays
    <3> QED BY <1>1, <1>2, <3>1 DEF InCore, Underway, Searching
  <2>4. Core' \subseteq Core /\ \A i \in Core : i # n => i \in Core'
    BY <2>3 DEF Core
  <2>5. Entered'
    BY <2>1, <2>2, <2>4 DEF Entered
  <2> QED BY <1>1, <2>2, <2>4, <2>5, CoreShrinks DEF Started, Joining, Searching
<1> QED BY <1>3, <1>4 DEF NodeInv

(* A crash leaves a slot that is not joined out of reach of every walk, or *)
(* it was half linked.                                                     *)
LEMMA RestartJoins ==
    ASSUME IInv, NodeInv, Restart
    PROVE  NodeInv'
<1> USE DEF Restart, vectors, graph
<1>1. op'.pc = "idle"
  BY IdleIs
<1>2. \A i \in Slots : deleted_flags'[i] <=> (i \in UsedSlots /\ i \in tombstones)
  BY Zenon
<1>3. FirstInv'
  BY <1>1 DEF NodeInv, FirstInv, Neighbors
<1>4. HeldInv'
  BY <1>1, <1>2 DEF NodeInv, HeldInv, Free
<1>5. CoreInv'
  <2> SUFFICES ASSUME ~cut' PROVE Whole' /\ Entered' /\ Started' /\ Joining'
    BY DEF CoreInv
  <2>1. ~cut /\ ~HalfLinked /\ hnsw_entry_point \notin tombstones
    BY Zenon
  <2>2. Whole /\ Entered
    BY <2>1 DEF NodeInv, CoreInv
  <2>3. op.slot \in Slots \/ Free
    BY SlotsAreFinite DEF IInv, OpInv
  <2>4. ASSUME NEW n \in Slots, n = op.slot, Underway, ~deleted_flags[n], HasUpper(n)'
        PROVE  FALSE
    <3>1. PICK i \in Slots, l \in Levels \ {0} : n \in Neighbors(i, l)
      BY <1>1, <2>4 DEF HasUpper, Neighbors
    <3>2. Apart
      BY <2>4 DEF IInv, LinkInv, Underway
    <3> QED BY <2>1, <2>4, <3>1, <3>2 DEF Apart, HalfLinked
  <2>5. ASSUME NEW i \in Slots, InCore(i)' PROVE InCore(i)
    <3>1. HasUpper(i)' => HasUpper(i)
      BY <1>1 DEF HasUpper, Neighbors
    <3>2. /\ ~deleted_flags'[i]
          /\ acked[i] = "stored" \/ (is_initialized /\ i = hnsw_entry_point) \/ HasUpper(i)'
      BY <1>1, <2>5 DEF InCore, Searching
    <3>3. i \in UsedSlots
      BY <1>1, <3>2 DEF IInv, CountedInv, EdgesAreSound, HasUpper, Neighbors
    <3>4. ~deleted_flags[i]
      BY <1>2, <3>2, <3>3 DEF NodeInv, HeldInv
    <3>5. ~(i = op.slot /\ Underway)
      <4> SUFFICES ASSUME i = op.slot, Underway PROVE FALSE
        OBVIOUS
      <4>1. acked[i] # "stored"
        BY DEF NodeInv, HeldInv, Free, Underway
      <4>2. ~(is_initialized /\ i = hnsw_entry_point)
        BY <2>2 DEF Entered, Core, InCore, Underway
      <4>3. HasUpper(i)'
        BY <3>2, <4>1, <4>2
      <4> QED BY <2>4, <3>4, <4>3
    <3> QED BY <3>1, <3>2, <3>4, <3>5 DEF InCore
  <2>6. Core' \subseteq Core
    BY <2>5 DEF Core
  <2>7. Entered'
    <3> SUFFICES ASSUME is_initialized PROVE hnsw_entry_point \in Slots /\ InCore(hnsw_entry_point)'
      BY DEF Entered, Core
    <3>1. hnsw_entry_point \in Slots
      BY <2>2 DEF Entered, Core
    <3> QED BY <1>1, <1>2, <2>1, <3>1 DEF InCore, Underway
  <2> QED BY <1>1, <2>2, <2>6, <2>7, CoreShrinks DEF Started, Joining, Searching
<1> QED BY <1>3, <1>4, <1>5 DEF NodeInv

(* The beam is wider than a list at level 0, so that a search at level 0   *)
(* whose results all find a place has met every joined slot.               *)
BeamIsWide == EfConstruction > 2 * M

(* While a slot is being linked the others stay joined.                    *)
LEMMA StillWhole ==
    ASSUME NodeInv, ~cut, op.pc \in {"connect", "set", "link"},
           op'.pc \in {"connect", "set", "link"}, op'.slot = op.slot,
           UNCHANGED <<is_initialized, hnsw_entry_point, deleted_flags, acked>>,
           Searching' => op'.curr \in Core,
           \A i \in Slots : HasUpper(i)' => i = op.slot \/ HasUpper(i) \/ i \in Core,
           \A i \in Core : Neighbors(i, 0) \subseteq Neighbors(i, 0)'
    PROVE  Core' \subseteq Core /\ Whole' /\ Entered' /\ Started'
<1>1. Whole /\ Entered
  BY DEF NodeInv, CoreInv
<1>2. \A i \in Core : i # op.slot /\ ~deleted_flags[i] /\ i \in Slots
  BY DEF Core, InCore, Underway
<1>3. ASSUME NEW i \in Slots, InCore(i)' PROVE i \in Core
  <2>1. ~deleted_flags[i] /\ i # op.slot
    BY <1>3 DEF InCore, Underway
  <2>2. \/ acked[i] = "stored" \/ (is_initialized /\ i = hnsw_entry_point)
        \/ i \in Core \/ HasUpper(i)
    BY <1>3, <2>1 DEF InCore
  <2> QED BY <2>1, <2>2 DEF Core, InCore
<1>4. Core' \subseteq Core
  BY <1>3 DEF Core
<1>5. Whole'
  <2> SUFFICES ASSUME NEW i \in Core', NEW j \in Core', i # j
               PROVE  j \in Neighbors(i, 0)'
    BY DEF Whole
  <2> QED BY <1>1, <1>4 DEF Whole
<1>6. Entered'
  <2> SUFFICES ASSUME is_initialized, NEW i \in Slots, i = hnsw_entry_point PROVE InCore(i)'
    BY <1>1, <1>2 DEF Entered, Core
  <2>1. ~deleted_flags[i] /\ i # op.slot
    BY <1>1, <1>2 DEF Entered
  <2> QED BY <2>1 DEF InCore
<1>7. Started'
  <2> SUFFICES ASSUME Searching', NEW i \in Slots, i = op'.curr PROVE InCore(i)'
    BY <1>2 DEF Started, Core
  <2>1. ~deleted_flags[i] /\ i # op.slot
    BY <1>2
  <2> QED BY <2>1 DEF InCore
<1> QED BY <1>4, <1>5, <1>6, <1>7

LEMMA ConnectJoins ==
    ASSUME BeamIsWide, IInv, NodeInv, Connect
    PROVE  NodeInv'
<1> DEFINE q == float_block[op.slot]
           results == search_layer(q, op.curr, EfConstruction, op.at)
           sorted == Sorted(q, results)
           selected == select_neighbors_heuristic(q, sorted, m_max(op.at))
           o == [op EXCEPT !.todo = selected,
                           !.curr = IF selected = <<>> THEN @ ELSE Head(selected)]
<1> USE DEF Connect, vectors, graph, counts
<1>1. /\ op.pc = "connect" /\ op.slot \in UsedSlots /\ op.curr \in UsedSlots /\ op \in Ops
      /\ op.at \in Levels /\ op.at \in Nat
  BY GraphAssumption DEF IInv, TypeOK, OpInv, Free, Ops, Levels
<1>2. /\ TypeOK /\ Placed /\ UsedSlots \subseteq Slots /\ q \in Int \X Int
      /\ \A l \in Levels : Closed(UsedSlots, l) /\ m_max(l) \in Nat
  BY <1>1, Walkable DEF Placed
<1>3. /\ Set(o, op.slot, selected)
      /\ cut' = (cut \/ (op.at = 0 /\ Cardinality(results) > m_max(0)))
  BY Zenon
<1>4. results \subseteq UsedSlots
  <2> HIDE DEF q
  <2> QED BY <1>1, <1>2, BeamAssumption, LayerIs DEF Live
<1>5. sorted \in Seq(results) /\ Enumerates(sorted, results) /\ Len(sorted) = Cardinality(results)
  <2> HIDE DEF q, results
  <2> QED BY <1>2, <1>4, SortedIs
<1>6. /\ selected \in Seq(results) /\ Len(selected) <= m_max(op.at)
      /\ ToSet(selected) \subseteq results
  <2>1. selected \in Seq(results) /\ Len(selected) <= m_max(op.at)
    <3> HIDE DEF q, results, sorted
    <3> QED BY <1>1, <1>2, <1>4, <1>5, HeuristicIs
  <2> HIDE DEF selected, results
  <2> QED BY <2>1, ElementOfSeq DEF ToSet
<1>7. ASSUME ~cut', op.at = 0 PROVE Core \subseteq ToSet(selected)
  <2>1. op.curr \in Core /\ Whole
    BY <1>1, <1>7 DEF NodeInv, CoreInv, Started, Searching
  <2>2. \A i \in Core : ~deleted_flags[i]
    BY <1>1, CoreClosed
  <2>3. Core \subseteq {op.curr} \cup LiveNeighbors(op.curr, 0)
    BY <2>1, <2>2 DEF Whole, LiveNeighbors
  <2>4. \A i \in Core : Covered(q, EfConstruction, i, results)
    <3>1. \A i \in {op.curr} \cup LiveNeighbors(op.curr, 0) : Covered(q, EfConstruction, i, results)
      <4> HIDE DEF q
      <4> QED BY <1>1, <1>2, <1>7, <2>1, <2>2, BeamAssumption, LayerIs
    <3> QED BY <2>3, <3>1
  <2>5. /\ Cardinality(results) \in Nat /\ Cardinality(results) <= m_max(0)
        /\ Cardinality(results) < EfConstruction
    <3>1. Cardinality(results) \in Nat
      BY <1>2, <1>4, SlotsAreFinite
    <3>2. ~(Cardinality(results) > m_max(0))
      BY <1>3, <1>7, Zenon
    <3>3. m_max(0) = 2 * M /\ 2 * M \in Nat /\ EfConstruction \in Nat
      BY GraphAssumption, BeamAssumption DEF m_max
    <3> QED BY <3>1, <3>2, <3>3 DEF BeamIsWide
  <2>6. Core \subseteq results
    BY <2>4, <2>5, BeamAssumption DEF Covered
  <2>7. ToSet(selected) = ToSet(sorted)
    <3>1. sorted \in Seq(UsedSlots) /\ IsInjective(sorted)
      <4> HIDE DEF sorted, results
      <4> QED BY <1>4, <1>5 DEF Enumerates
    <3> HIDE DEF q, sorted, results
    <3> QED BY <1>1, <1>2, <1>5, <1>7, <2>5, <3>1, AllAreSelected
  <2> QED BY <1>5, <2>6, <2>7 DEF Enumerates
<1>8. ASSUME ~cut', op.at # 0 PROVE ToSet(selected) \subseteq Core
  <2>1. op.curr \in Core
    BY <1>1, <1>8 DEF NodeInv, CoreInv, Started, Searching
  <2>2. Closed(Core, op.at)
    BY <1>1, <1>8, CoreClosed
  <2>3. results \subseteq Live(Core)
    <3> HIDE DEF q
    <3> QED BY <1>1, <1>2, <2>1, <2>2, BeamAssumption, LayerIs
  <2> QED BY <1>6, <2>3 DEF Live
<1>9. selected \in Seq(Slots) /\ (selected # <<>> => Head(selected) \in ToSet(selected))
  <2>1. Seq(results) \subseteq Seq(Slots)
    BY <1>2, <1>4
  <2> HIDE DEF selected, results
  <2>2. selected # <<>> => Head(selected) = selected[1] /\ 1 \in DOMAIN selected
    BY <1>6
  <2> QED BY <1>6, <2>1, <2>2 DEF ToSet
<1> HIDE DEF q, results, sorted, selected
<1>10. /\ o \in Ops /\ o.slot = op.slot /\ o.at = op.at /\ o.todo = selected
       /\ o.curr = IF selected = <<>> THEN op.curr ELSE Head(selected)
  <2>1. selected # <<>> => Head(selected) \in Slots
    BY <1>2, <1>4, <1>6, <1>9
  <2> QED BY <1>1, <1>9, <2>1 DEF Ops
<1> HIDE DEF o
<1>11. /\ op'.pc = "set" /\ op'.slot = op.slot /\ op'.at = op.at /\ op'.into = op.slot
       /\ op'.todo = selected /\ op'.list = Padded(selected, op.at)
       /\ op'.curr = IF selected = <<>> THEN op.curr ELSE Head(selected)
       /\ ToSet(selected) \subseteq ToSet(op'.list)
       /\ ToSet(op'.list) \subseteq ToSet(selected) \cup {EMPTY}
  <2>1. results \in SUBSET Slots /\ op.slot \in Slots
    BY <1>1, <1>2, <1>4
  <2>2. /\ op'.pc = "set" /\ op'.slot = o.slot /\ op'.at = o.at /\ op'.into = op.slot
        /\ op'.todo = o.todo /\ op'.list = Padded(selected, op.at) /\ op'.curr = o.curr
    BY <1>1, <1>3, <1>6, <1>10, <2>1, SetIs
  <2>3. /\ ToSet(selected) \subseteq ToSet(Padded(selected, op.at))
        /\ ToSet(Padded(selected, op.at)) \subseteq ToSet(selected) \cup {EMPTY}
    BY <1>1, <1>6, <2>1, PaddedIs
  <2> QED BY <1>10, <2>2, <2>3
<1>12. UNCHANGED <<vectors, graph, tombstones, deleted_flags, acked, counts>>
  OBVIOUS
<1> HIDE DEF Connect
<1>13. FirstInv' /\ HeldInv'
  <2>1. is_initialized
    BY <1>1 DEF NodeInv, FirstInv
  <2> QED BY <1>1, <1>11, <1>12, <2>1 DEF NodeInv, FirstInv, HeldInv, Free
<1>14. CoreInv'
  <2> SUFFICES ASSUME ~cut' PROVE Whole' /\ Entered' /\ Started' /\ Joining'
    BY DEF CoreInv
  <2>1. ~cut
    BY <1>3, Zenon
  <2>2. op.curr \in Core
    BY <1>1, <2>1 DEF NodeInv, CoreInv, Started, Searching
  <2>3. \A i \in Slots, l \in Levels : Neighbors(i, l)' = Neighbors(i, l)
    BY <1>12 DEF Neighbors
  <2>4. \A i \in Core : Neighbors(i, 0) \subseteq Neighbors(i, 0)'
    BY <2>3, GraphAssumption DEF Core, Levels
  <2>5. EMPTY \notin Slots
    BY GraphAssumption DEF Slots, EMPTY
  <2>6. CASE op.at = 0
    <3>1. Core \subseteq ToSet(selected)
      BY <1>7, <2>6
    <3>2. ~Searching'
      BY <1>11, <2>6 DEF Searching
    <3>3. \A i \in Slots : HasUpper(i)' => HasUpper(i)
      BY <1>11, <2>3, <2>6 DEF HasUpper
    <3>4. Core' \subseteq Core /\ Whole' /\ Entered' /\ Started'
      BY <1>1, <1>11, <1>12, <2>1, <2>4, <3>2, <3>3, StillWhole
    <3>5. Joining'
      BY <1>11, <3>1, <3>4 DEF Joining
    <3> QED BY <3>4, <3>5
  <2>7. CASE op.at # 0
    <3>1. ToSet(selected) \subseteq Core
      BY <1>8, <2>7
    <3>2. op'.curr \in Core
      BY <1>9, <1>11, <2>2, <3>1
    <3>3. \A i \in Slots : HasUpper(i)' => HasUpper(i) \/ i \in Core
      BY <1>11, <2>3, <2>5, <3>1 DEF HasUpper
    <3>4. Core' \subseteq Core /\ Whole' /\ Entered' /\ Started'
      BY <1>1, <1>11, <1>12, <2>1, <2>4, <3>2, <3>3, StillWhole
    <3> QED BY <1>11, <2>7, <3>4 DEF Joining
  <2> QED BY <2>6, <2>7
<1> QED BY <1>13, <1>14 DEF NodeInv

(* The list that is written is that of the slot itself, or above level 0.  *)
LEMMA SetNeighborJoins ==
    ASSUME IInv, NodeInv, SetNeighbor
    PROVE  NodeInv'
<1> USE DEF vectors, history, marks, counts
<1>1. UNCHANGED <<vectors, is_initialized, hnsw_entry_point, hnsw_max_level, tombstones,
                  deleted_flags, op, history>>
  BY DEF SetNeighbor, Store
<1>2. PICK s \in UsedSlots, at \in Levels, n \in 1 .. m_max(op.at),
              x \in ToSet(op.list) :
         /\ s = op.into /\ at = op.at /\ x = op.list[n]
         /\ Store(s, n, x)
  BY SetNeighborIs
<1>3. /\ TypeOK /\ UsedSlots \subseteq Slots /\ op.pc = "set" /\ n \in 1 .. m_max(at)
      /\ x \in Slots \cup {EMPTY}
  BY <1>2, SlotsAreFinite, SetNeighborIs DEF IInv, SetInv
<1>4. /\ \A i \in Slots, l \in Levels : i # s \/ l # at => Neighbors(i, l)' = Neighbors(i, l)
      /\ Neighbors(s, at)' \subseteq Neighbors(s, at) \cup ({x} \ {EMPTY})
  BY <1>2, <1>3, StoreAdds
<1>5. FirstInv' /\ HeldInv'
  <2>1. is_initialized
    BY <1>3 DEF NodeInv, FirstInv
  <2> QED BY <1>1, <1>3, <2>1 DEF NodeInv, FirstInv, HeldInv, Free
<1>6. CoreInv'
  <2> SUFFICES ASSUME ~cut PROVE Whole' /\ Entered' /\ Started' /\ Joining'
    BY <1>1 DEF CoreInv
  <2>1. Whole /\ Entered /\ Started /\ Joining
    BY DEF NodeInv, CoreInv
  <2>2. op' = op /\ (Searching' => op'.curr \in Core)
    BY <1>1, <2>1 DEF Started, Searching
  <2>3. ASSUME NEW i \in Slots, HasUpper(i)' PROVE HasUpper(i)
    <3>1. CASE op.at # 0
      <4>1. \A j \in Slots, l \in Levels : i \in Neighbors(j, l)' => i \in Neighbors(j, l) \/ i = x
        BY <1>4
      <4> QED BY <1>2, <1>3, <2>2, <2>3, <3>1, <4>1 DEF HasUpper
    <3>2. CASE op.at = 0
      <4>1. \A j \in Slots, l \in Levels \ {0} : Neighbors(j, l)' = Neighbors(j, l)
        BY <1>2, <1>4, <3>2
      <4> QED BY <2>2, <2>3, <3>2, <4>1 DEF HasUpper
    <3> QED BY <3>1, <3>2
  <2>4. ASSUME NEW i \in Core PROVE Neighbors(i, 0)' = Neighbors(i, 0)
    <3>1. i # op.slot /\ i \in Slots /\ 0 \in Levels
      BY <1>3, GraphAssumption DEF Core, InCore, Underway, Levels
    <3>2. op.at = 0 => s = op.slot
      BY <1>2, <1>3, <2>1 DEF Joining
    <3> QED BY <1>2, <1>4, <3>1, <3>2
  <2>5. Core' \subseteq Core /\ Whole' /\ Entered' /\ Started'
    BY <1>1, <1>3, <2>2, <2>3, <2>4, StillWhole
  <2>6. Joining'
    BY <1>3, <2>1, <2>2, <2>5 DEF Joining
  <2> QED BY <2>5, <2>6
<1> QED BY <1>5, <1>6 DEF NodeInv

LEMMA SetDoneJoins ==
    ASSUME IInv, NodeInv, SetDone
    PROVE  NodeInv'
<1> DEFINE o == [op EXCEPT !.into = EMPTY, !.list = <<>>]
<1> USE DEF vectors, graph, history, marks, counts
<1>1. /\ op.pc = "set" /\ Unset = {} /\ GoOn(o)
      /\ UNCHANGED <<vectors, graph, tombstones, deleted_flags, history>>
  BY DEF SetDone
<1>2. op \in Ops /\ op.at \in Levels /\ 0 \in Levels /\ op.slot \in UsedSlots /\ op.slot \in Slots
  <2>1. op \in Ops /\ op.at \in Levels /\ op.slot \in UsedSlots /\ UsedSlots \subseteq Slots
    BY <1>1, SlotsAreFinite DEF IInv, TypeOK, Ops, OpInv, Free
  <2> QED BY <2>1, GraphAssumption DEF Levels
<1>3. /\ o \in Ops /\ o.slot = op.slot /\ o.at = op.at /\ o.curr = op.curr /\ o.todo = op.todo
  BY <1>2, EmptySeq DEF Ops
<1> HIDE DEF o
<1>4. /\ op'.slot = op.slot /\ op'.curr = op.curr /\ op'.todo = op.todo
      /\ \/ op'.pc = "link" /\ op.todo # <<>> /\ op'.at = op.at
         \/ op'.pc = "connect" /\ op.todo = <<>> /\ op.at # 0
         \/ op'.pc \in {"raise", "answer"} /\ op.todo = <<>> /\ op.at = 0
  BY <1>1, <1>3, GoOnIs
<1>5. FirstInv' /\ HeldInv'
  <2>1. is_initialized
    BY <1>1 DEF NodeInv, FirstInv
  <2> QED BY <1>1, <1>4, <2>1 DEF NodeInv, FirstInv, HeldInv, Free
<1>6. CoreInv'
  <2> SUFFICES ASSUME ~cut PROVE Whole' /\ Entered' /\ Started' /\ Joining'
    BY <1>1 DEF CoreInv
  <2>1. Whole /\ Entered /\ Started /\ Joining /\ is_initialized
    BY <1>1 DEF NodeInv, CoreInv, FirstInv
  <2>2. \A i \in Slots, l \in Levels : Neighbors(i, l)' = Neighbors(i, l)
    BY <1>1 DEF Neighbors
  <2>3. op'.pc \in {"connect", "link"} /\ (op.at = 0 => op'.pc = "link")
    <3>1. op.at = 0 => op.todo # <<>>
      <4>1. op.at = 0 => hnsw_entry_point \in ToSet(op.todo)
        BY <1>1, <2>1 DEF Joining, Entered
      <4> QED BY <4>1 DEF ToSet
    <3> QED BY <1>4, <3>1
  <2>4. Searching' => op'.curr \in Core
    BY <1>1, <1>4, <2>1, <2>3 DEF Searching, Started
  <2>5. \A i \in Slots : HasUpper(i)' => HasUpper(i)
    BY <2>2, <2>3 DEF HasUpper
  <2>6. \A i \in Core : Neighbors(i, 0) \subseteq Neighbors(i, 0)'
    BY <1>2, <2>2 DEF Core
  <2>7. Core' \subseteq Core /\ Whole' /\ Entered' /\ Started'
    BY <1>1, <1>4, <2>3, <2>4, <2>5, <2>6, StillWhole
  <2>8. ASSUME op.at = 0, NEW i \in Core PROVE i \in Neighbors(op.slot, 0) /\ i \in ToSet(op.todo)
    <3>1. op.into = op.slot /\ i \in ToSet(op.list) /\ i \in ToSet(op.todo)
      BY <1>1, <2>1, <2>8 DEF Joining
    <3>2. PICK n \in DOMAIN op.list : op.list[n] = i
      BY <3>1 DEF ToSet
    <3>3. hnsw_edge_block[op.slot][0][n] = i
      BY <1>1, <2>8, <3>1, <3>2 DEF Unset
    <3>4. n \in 1 .. m_max(0)
      <4>1. Len(op.list) = m_max(0) /\ op.list \in Seq(Slots \cup {EMPTY})
        BY <1>1, <2>8 DEF IInv, SetInv, TypeOK
      <4> QED BY <4>1, <3>2, LenProperties
    <3>5. i # EMPTY
      BY GraphAssumption DEF Core, Slots, EMPTY
    <3>6. TypeOK
      BY DEF IInv
    <3> QED BY <1>2, <3>1, <3>3, <3>4, <3>5, <3>6, NeighborsAre
  <2>9. Joining'
    <3> SUFFICES ASSUME op'.pc = "link", op'.at = 0, NEW i \in Core'
                 PROVE  i \in Neighbors(op.slot, 0) /\ i \in ToSet(op.todo)
      BY <1>2, <1>4, <2>2, <2>3 DEF Joining
    <3> QED BY <1>4, <2>7, <2>8
  <2> QED BY <2>7, <2>9
<1> QED BY <1>5, <1>6 DEF NodeInv

(* A full list at level 0 may lose a slot; above, only its neighbours and  *)
(* the slot are written to it.                                             *)
LEMMA PruneJoins ==
    ASSUME IInv, NodeInv, Prune
    PROVE  NodeInv'
<1> USE DEF vectors, graph, counts
<1>1. /\ UNCHANGED <<vectors, graph, tombstones, deleted_flags, acked, again, torn, counts>>
      /\ cut' = (cut \/ op.at = 0) /\ op.pc = "link"
  BY Zenon DEF Prune
<1>2. PICK s \in UsedSlots, at \in Levels :
         /\ s = Head(op.todo) /\ at = op.at
         /\ op'.pc = "set" /\ op'.slot = op.slot /\ op'.curr = op.curr /\ op'.at = at
         /\ ToSet(op'.list) \subseteq Neighbors(s, at) \cup {op.slot, EMPTY}
  BY PruneIs
<1>3. FirstInv' /\ HeldInv'
  <2>1. is_initialized
    BY <1>1 DEF NodeInv, FirstInv
  <2> QED BY <1>1, <1>2, <2>1 DEF NodeInv, FirstInv, HeldInv, Free
<1>4. CoreInv'
  <2> SUFFICES ASSUME ~cut' PROVE Whole' /\ Entered' /\ Started' /\ Joining'
    BY DEF CoreInv
  <2>1. ~cut /\ op.at # 0
    BY <1>1
  <2>2. Started
    BY <2>1 DEF NodeInv, CoreInv
  <2>3. \A i \in Slots, l \in Levels : Neighbors(i, l)' = Neighbors(i, l)
    BY <1>1 DEF Neighbors
  <2>4. Searching' => op'.curr \in Core
    BY <1>1, <1>2, <2>1, <2>2 DEF Searching, Started
  <2>5. s \in Slots /\ EMPTY \notin Slots /\ 0 \in Levels
    BY SlotsAreFinite, GraphAssumption DEF IInv, Slots, EMPTY, Levels
  <2>6. \A i \in Slots : HasUpper(i)' => i = op.slot \/ HasUpper(i)
    BY <1>2, <2>1, <2>3, <2>5 DEF HasUpper
  <2>7. \A i \in Core : Neighbors(i, 0) \subseteq Neighbors(i, 0)'
    BY <2>3, <2>5 DEF Core
  <2>8. Core' \subseteq Core /\ Whole' /\ Entered' /\ Started'
    BY <1>1, <1>2, <2>1, <2>4, <2>6, <2>7, StillWhole
  <2> QED BY <1>2, <2>1, <2>8 DEF Joining
<1> QED BY <1>3, <1>4 DEF NodeInv

(* The last edge back at level 0 joins the slot.                           *)
LEMMA LinkBackJoins ==
    ASSUME IInv, NodeInv, LinkBack
    PROVE  NodeInv'
<1> USE DEF vectors, history, marks, counts
<1>1. /\ UNCHANGED <<vectors, is_initialized, hnsw_entry_point, hnsw_max_level, tombstones,
                     deleted_flags, history>>
      /\ op.pc = "link"
  BY DEF LinkBack, Store
<1>2. PICK s \in UsedSlots, at \in Levels, n \in Nat, o \in Ops :
         /\ s = Head(op.todo) /\ at = op.at /\ n \in 1 .. m_max(at)
         /\ hnsw_edge_block[s][at][n] = EMPTY /\ Store(s, n, op.slot)
         /\ GoOn(o) /\ o.slot = op.slot /\ o.at = op.at /\ o.curr = op.curr
         /\ o.todo = Tail(op.todo)
  BY LinkBackIs
<1>3. /\ TypeOK /\ UsedSlots \subseteq Slots /\ s \in Slots /\ 0 \in Levels
      /\ op.slot \in UsedSlots /\ op.slot \in Slots /\ op.slot # EMPTY
  <2>1. TypeOK /\ UsedSlots \subseteq Slots /\ op.slot \in UsedSlots
    BY <1>1, SlotsAreFinite DEF IInv, OpInv, Free
  <2>2. EMPTY \notin Slots /\ 0 \in Levels
    BY GraphAssumption DEF Levels, Slots, EMPTY
  <2> QED BY <1>2, <2>1, <2>2
<1>4. s # op.slot /\ ToSet(op.todo) = {s} \cup ToSet(o.todo)
  BY <1>1, <1>2, TodoIs
<1>5. /\ op'.slot = op.slot /\ op'.todo = o.todo /\ op'.curr = op.curr
      /\ \/ op'.pc = "link" /\ o.todo # <<>> /\ op'.at = op.at
         \/ op'.pc = "connect" /\ o.todo = <<>> /\ op.at # 0 /\ op'.at < op.at
         \/ op'.pc \in {"raise", "answer"} /\ o.todo = <<>> /\ op.at = 0 /\ op'.at = 0
  BY <1>2, GoOnIs
<1>6. /\ \A i \in Slots, l \in Levels : i # s \/ l # at => Neighbors(i, l)' = Neighbors(i, l)
      /\ Neighbors(s, at)' = Neighbors(s, at) \cup {op.slot}
  BY <1>2, <1>3, StoreAdds
<1>7. FirstInv' /\ HeldInv'
  <2>1. is_initialized
    BY <1>1 DEF NodeInv, FirstInv
  <2> QED BY <1>1, <1>5, <2>1 DEF NodeInv, FirstInv, HeldInv, Free
<1>8. CoreInv'
  <2> SUFFICES ASSUME ~cut PROVE Whole' /\ Entered' /\ Started' /\ Joining'
    BY <1>1 DEF CoreInv
  <2>1. Whole /\ Entered /\ Started /\ Joining
    BY DEF NodeInv, CoreInv
  <2>2. \A i \in Core : i # op.slot /\ ~deleted_flags[i] /\ i \in Slots
    BY <1>1 DEF Core, InCore, Underway
  <2>3. \A i \in Slots : Neighbors(i, 0) \subseteq Neighbors(i, 0)'
    BY <1>3, <1>6
  <2>4. ASSUME NEW i \in Slots, HasUpper(i)' PROVE i = op.slot \/ HasUpper(i)
    BY <1>5, <1>6, <2>4 DEF HasUpper
  <2>5. CASE op.at # 0
    <3>1. op'.pc = "connect" \/ (op'.pc = "link" /\ op'.at # 0)
      BY <1>5, <2>5
    <3>2. op'.curr \in Core
      BY <1>1, <1>5, <2>1, <2>5 DEF Started, Searching
    <3>3. Core' \subseteq Core /\ Whole' /\ Entered' /\ Started'
      BY <1>1, <1>5, <2>2, <2>3, <2>4, <3>1, <3>2, StillWhole
    <3> QED BY <3>1, <3>3 DEF Joining
  <2>6. CASE op.at = 0
    <3>2. at = 0 /\ op.slot \in Neighbors(s, 0)'
      BY <1>2, <1>6, <2>6
    <3>3. ASSUME NEW i \in Slots PROVE HasUpper(i)' => HasUpper(i)
      BY <1>5, <1>6, <3>2 DEF HasUpper
    <3>4. ASSUME NEW i \in Core
          PROVE  i \in Neighbors(op.slot, 0) /\ (i \in ToSet(o.todo) \/ op.slot \in Neighbors(i, 0)')
      BY <1>1, <1>4, <2>1, <2>2, <2>3, <2>6, <3>2, <3>4 DEF Joining
    <3>5. ASSUME NEW i \in Slots, InCore(i)' PROVE i \in Core \/ (i = op.slot /\ op'.pc # "link")
      <4>1. CASE op'.pc = "link"
        BY <1>1, <1>5, <2>6, <3>3, <3>5, <4>1 DEF Core, InCore, Underway, Searching
      <4>2. CASE op'.pc \in {"raise", "answer"}
        BY <1>1, <1>5, <2>6, <3>3, <3>5, <4>2 DEF Core, InCore, Underway, Searching
      <4> QED BY <1>5, <2>6, <4>1, <4>2
    <3>6. Core' \subseteq Core \cup {op.slot} /\ (op'.pc = "link" => Core' \subseteq Core)
      BY <3>5 DEF Core
    <3>7. Neighbors(op.slot, 0) \subseteq ToSet(hnsw_edge_block'[op.slot][0]) \ {EMPTY}
      BY <1>3, <2>3 DEF Neighbors
    <3>8. Whole'
      <4> SUFFICES ASSUME NEW i \in Core', NEW j \in Core', i # j
                   PROVE  j \in Neighbors(i, 0)'
        BY DEF Whole
      <4>1. CASE i \in Core /\ j \in Core
        BY <2>1, <2>2, <2>3, <4>1 DEF Whole
      <4>2. CASE i = op.slot /\ j \in Core
        <5>1. j \in Neighbors(i, 0) /\ i \in Slots
          BY <1>3, <3>4, <4>2
        <5> QED BY <2>3, <5>1
      <4>3. CASE i \in Core /\ j = op.slot
        <5>1. op'.pc # "link"
          BY <2>2, <3>6, <4>3
        <5>2. ToSet(o.todo) = {}
          BY <1>5, <2>6, <5>1 DEF ToSet
        <5> QED BY <3>4, <4>3, <5>2
      <4> QED BY <3>6, <4>1, <4>2, <4>3
    <3>9. Entered'
      BY <1>1, <1>5, <2>1, <2>2, <2>6 DEF Entered, Core, InCore
    <3>10. Started'
      BY <1>5, <2>6 DEF Started, Searching
    <3>11. Joining'
      <4> SUFFICES ASSUME op'.pc = "link", NEW i \in Core
                   PROVE  /\ i \in ToSet(hnsw_edge_block'[op.slot][0]) \ {EMPTY}
                          /\ i \in ToSet(o.todo) \/ op.slot \in Neighbors(i, 0)'
        BY <1>5, <3>6 DEF Joining, Neighbors
      <4> QED BY <3>4, <3>7
    <3> QED BY <3>8, <3>9, <3>10, <3>11
  <2> QED BY <2>5, <2>6
<1> QED BY <1>7, <1>8 DEF NodeInv

LEMMA NextJoins ==
    ASSUME BeamIsWide, IInv, NodeInv, [Next]_vars
    PROVE  NodeInv'
<1>1. CASE \E v \in Vecs : InsertFresh(v)
  BY <1>1, InsertFreshJoins
<1>2. CASE \E i \in Slots, v \in Vecs : InsertAgain(i, v) \/ Update(i, v)
  BY <1>2, InsertAgainJoins, UpdateJoins
<1>3. CASE EnterFirst \/ Initialize \/ RaiseEntry \/ RaiseLevel \/ Answer
  BY <1>3, EnterFirstJoins, InitializeJoins, RaiseEntryJoins, RaiseLevelJoins, AnswerJoins
<1>4. CASE \E level \in Levels : Enter(level)
  BY <1>4, EnterJoins
<1>5. CASE Connect \/ SetNeighbor \/ SetDone \/ LinkBack \/ Prune
  BY <1>5, ConnectJoins, SetNeighborJoins, SetDoneJoins, LinkBackJoins, PruneJoins
<1>6. CASE \E i \in Slots : Delete(i)
  BY <1>6, DeleteJoins
<1>7. CASE Restart
  BY <1>7, RestartJoins
<1>8. CASE UNCHANGED vars
  <2> USE <1>8 DEF vars, vectors, graph, history, marks, counts
  <2>1. FirstInv' /\ HeldInv'
    BY DEF NodeInv, FirstInv, HeldInv, Free, Neighbors
  <2>2. \A i \in Slots : InCore(i)' <=> InCore(i)
    BY DEF InCore, Underway, Searching, HasUpper, Neighbors
  <2>3. Core' = Core
    BY <2>2 DEF Core
  <2>4. CoreInv'
    BY <2>3 DEF NodeInv, CoreInv, Whole, Entered, Started, Joining, Searching, Neighbors
  <2> QED BY <2>1, <2>4 DEF NodeInv
<1> QED BY <1>1, <1>2, <1>3, <1>4, <1>5, <1>6, <1>7, <1>8 DEF Next

(* The joined slots are met from any one of them, and the stored slots are *)
(* joined.                                                                 *)
LEMMA NearestFoundStep ==
    ASSUME IInv, NodeInv
    PROVE  NearestIsFound
<1> SUFFICES ASSUME Free, Stored # {}, ~cut, NEW v \in Vecs
             PROVE  /\ Search(v) # EMPTY
                    /\ \A i \in Stored : Dist(v, Search(v)) <= Dist(v, i)
                    /\ \A n \in 1 .. Capacity : \A i \in Stored \ ToSet(SearchN(v, n)) :
                          /\ Len(SearchN(v, n)) = n
                          /\ \A j \in ToSet(SearchN(v, n)) : Dist(v, j) <= Dist(v, i)
  BY DEF NearestIsFound
<1> DEFINE from == Descend(v, 0)
           Layer(ef) == search_layer(v, from, ef, 0)
<1>1. /\ TypeOK /\ Placed /\ UsedSlots \subseteq Slots /\ v \in Int \X Int
      /\ 0 \in Levels /\ (\A l \in Levels : Closed(UsedSlots, l)) /\ op.pc = "idle"
  BY Walkable, VecsAssumption, GraphAssumption DEF Levels, Free
<1>2. Stored \subseteq Core
  BY <1>1 DEF Stored, Core, InCore, Underway
<1>3. is_initialized /\ hnsw_entry_point \in Core /\ Whole
  BY DEF NodeInv, FirstInv, CoreInv, Entered, Stored
<1>4. /\ Core \subseteq UsedSlots /\ (\A i \in Core : ~deleted_flags[i])
      /\ \A l \in Levels : l > 0 => Closed(Core, l)
  <2>1. \A l \in Levels : l > 0 => l \in Levels \ {0}
    OBVIOUS
  <2> QED BY <1>1, <2>1, CoreClosed
<1>5. from \in Core
  BY <1>1, <1>3, <1>4, DescendIs
<1> HIDE DEF from
<1>6. ASSUME NEW ef \in Nat \ {0}
      PROVE  Layer(ef) \in SUBSET UsedSlots /\ \A i \in Stored : Covered(v, ef, i, Layer(ef))
  <2>1. ~deleted_flags[from] /\ from \in UsedSlots /\ ef \in Nat /\ ef # 0 /\ Closed(UsedSlots, 0)
    BY <1>1, <1>4, <1>5
  <2>2. /\ Layer(ef) \subseteq Live(UsedSlots)
        /\ \A i \in {from} \cup LiveNeighbors(from, 0) : Covered(v, ef, i, Layer(ef))
    BY <1>1, <2>1, LayerIs
  <2>3. Stored \subseteq {from} \cup LiveNeighbors(from, 0)
    BY <1>2, <1>3, <1>4, <1>5 DEF Whole, LiveNeighbors
  <2> QED BY <2>2, <2>3 DEF Live
<1>7. vector_count # 0 /\ \A i \in Stored : i \in UsedSlots
  <2>1. \A i \in Stored : i \in UsedSlots
    BY <1>2, <1>4
  <2> QED BY <2>1 DEF UsedSlots
<1> HIDE DEF Layer
<1>8. Search(v) # EMPTY /\ \A i \in Stored : Dist(v, Search(v)) <= Dist(v, i)
  <2> DEFINE found == Layer(8)
  <2>1. Search(v) = IF found = {} THEN EMPTY ELSE Closest(v, found)
    BY <1>7 DEF Search, hnsw_search_1, search_layer_1, from, Layer
  <2>2. found \in SUBSET UsedSlots /\ \A i \in Stored : Covered(v, 8, i, found)
    BY <1>6
  <2> HIDE DEF found
  <2>3. found # {}
    BY <2>2, FS_EmptySet DEF Covered
  <2>4. /\ Closest(v, found) \in found
        /\ \A i \in found : Dist(v, Closest(v, found)) <= Dist(v, i)
    BY <1>1, <2>2, <2>3, ClosestIs
  <2>5. \A i \in Stored : Dist(v, Closest(v, found)) <= Dist(v, i)
    BY <2>2, <2>4 DEF Covered
  <2>6. EMPTY \notin UsedSlots
    BY <1>1, GraphAssumption DEF EMPTY, Slots
  <2> QED BY <2>1, <2>2, <2>3, <2>4, <2>5, <2>6
<1>9. ASSUME NEW n \in 1 .. Capacity, NEW i \in Stored \ ToSet(SearchN(v, n))
      PROVE  /\ Len(SearchN(v, n)) = n
             /\ \A j \in ToSet(SearchN(v, n)) : Dist(v, j) <= Dist(v, i)
  <2> DEFINE ef == 4 * Max({EfSearch, n})
             found == Layer(ef)
             results == Sorted(v, found)
             k == Min({n, Len(results)})
             t == SubSeq(results, 1, k)
  <2>1. SearchN(v, n) = t
    BY <1>7 DEF SearchN, hnsw_search, from, Layer
  <2>2. n \in Nat /\ ef \in Nat /\ ef # 0 /\ ef >= n
    <3>1. n \in Nat /\ EfSearch \in Nat /\ n # 0
      BY BeamAssumption
    <3>2. Max({EfSearch, n}) \in Nat /\ Max({EfSearch, n}) >= n
      BY <3>1, MaxOf
    <3> QED BY <3>1, <3>2
  <2> HIDE DEF ef
  <2>3. found \in SUBSET UsedSlots /\ Covered(v, ef, i, found)
    BY <1>6, <2>2
  <2> HIDE DEF found
  <2>4. /\ results \in Seq(found) /\ Enumerates(results, found) /\ Len(results) = Cardinality(found)
        /\ \A h, j \in DOMAIN results : h <= j => Dist(v, results[h]) <= Dist(v, results[j])
    BY <1>1, <2>3, SortedIs
  <2> HIDE DEF results
  <2>5. /\ Len(results) \in Nat /\ DOMAIN results = 1 .. Len(results)
        /\ \A h \in DOMAIN results : results[h] \in found
    BY <2>4, ElementOfSeq, LenProperties
  <2>6. k \in Nat /\ k <= n /\ k <= Len(results) /\ k \in {n, Len(results)}
    <3>1. \E x \in {n, Len(results)} : \A y \in {n, Len(results)} : x <= y
      BY <2>2, <2>5
    <3>2. k \in {n, Len(results)}
      BY <3>1 DEF Min
    <3> HIDE DEF k
    <3>3. k \in Nat /\ k <= n /\ k <= Len(results)
      BY <2>2, <2>5, MinOf DEF k
    <3> QED BY <3>2, <3>3
  <2> HIDE DEF k
  <2>7. Len(t) = k /\ DOMAIN t = 1 .. k /\ \A j \in 1 .. k : j \in DOMAIN results /\ t[j] = results[j]
    BY <2>4, <2>5, <2>6
  <2> HIDE DEF t
  <2>8. CASE i \in found
    <3>1. PICK h \in DOMAIN results : i = results[h]
      BY <2>4, <2>8 DEF Enumerates, ToSet
    <3>2. h \notin 1 .. k
      BY <1>9, <2>1, <2>7, <3>1 DEF ToSet
    <3>6. h \in 1 .. Len(results) /\ Len(results) \in Nat
      BY <2>5
    <3>7. k \in Nat /\ k <= Len(results)
      BY <2>6
    <3>8. k < h
      BY <3>2, <3>6, <3>7
    <3>9. k # Len(results)
      BY <3>6, <3>7, <3>8
    <3>3. k < h /\ k = n
      BY <2>6, <3>8, <3>9
    <3>4. \A j \in ToSet(t) : \E g \in 1 .. k : j = results[g]
      BY <2>7 DEF ToSet
    <3>5. \A g \in 1 .. k : g \in DOMAIN results /\ g <= h
      BY <2>5, <2>6, <3>3
    <3> QED BY <2>1, <2>4, <2>7, <3>1, <3>3, <3>4, <3>5
  <2>9. CASE i \notin found
    <3>1. Cardinality(found) >= ef /\ \A r \in found : Dist(v, r) <= Dist(v, i)
      BY <2>3, <2>9 DEF Covered
    <3>2. k = n
      BY <2>2, <2>4, <2>5, <2>6, <3>1
    <3>3. \A j \in ToSet(t) : j \in found
      BY <2>5, <2>7 DEF ToSet
    <3> QED BY <2>1, <2>7, <3>1, <3>2, <3>3
  <2> QED BY <2>8, <2>9
<1> QED BY <1>8, <1>9

(* hnsw_insert, search and search_N: while every slot has a place in the   *)
(* lists of the others, no entry point is deleted and no crash leaves a    *)
(* slot half linked, a search finds the nearest stored vector and search_N *)
(* the nearest n, for every M, capacity and number of levels, through      *)
(* updates, deletions, reinsertions and restarts; given a beam at          *)
(* insertion wider than a list at level 0, as with the code's defaults.    *)
(* A graph of more live vectors than fit into a list is promised nothing.  *)
THEOREM NearestFound ==
    ASSUME BeamIsWide
    PROVE  Spec => []NearestIsFound
<1>1. Init => IInv /\ NodeInv
  BY InitIInv, InitNodeInv
<1>2. IInv /\ NodeInv /\ [Next]_vars => (IInv /\ NodeInv)'
  BY NextKeeps, NextJoins
<1>3. IInv /\ NodeInv => NearestIsFound
  BY NearestFoundStep
<1> QED BY <1>1, <1>2, <1>3, PTL DEF Spec
==============================================================================
