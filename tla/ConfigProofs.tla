---------------------------- MODULE ConfigProofs ----------------------------
(* Proofs about module Config, for every set of layer names, every set of documents that
   parse, every environment and every sequence of registrations.  The loop of Kahn's
   algorithm is a recursive function over the number of its rounds; what it computes is
   shown by induction over the set of the rounds after which its invariant holds. *)
EXTENDS Config, FiniteSetTheorems, WellFoundedInduction, TLAPS

-----------------------------------------------------------------------------
(* Numbers. *)

(* A set of numbers has a least element. *)
LEMMA LeastNumber ==
    ASSUME NEW T, T \subseteq Nat, T # {}
    PROVE  \E x \in T : \A y \in T : x <= y
<1>1. PICK R : R = OpToRel(<, Nat)
  OBVIOUS
<1>2. IsWellFoundedOn(OpToRel(<, Nat), Nat)
  BY NatLessThanWellFounded
<1>3. \A x, y \in Nat : <<x, y>> \in R <=> x < y
  BY <1>1 DEF OpToRel
<1>4. PICK x \in T : \A y \in T : ~ (<<y, x>> \in R)
  BY <1>1, <1>2, WFMin
<1>5. ASSUME NEW y \in T PROVE x <= y
  <2>1. x \in Nat /\ y \in Nat
    OBVIOUS
  <2>2. ~(y < x)
    BY <1>3, <1>4, <2>1
  <2> QED BY <2>1, <2>2
<1> QED BY <1>5

(* Induction up to a bound, over the set of the numbers that have the property. *)
LEMMA Induction ==
    ASSUME NEW N \in Nat, NEW P, 0 \in P, \A n \in 1..N : n - 1 \in P => n \in P
    PROVE  \A n \in 0..N : n \in P
<1> SUFFICES ASSUME (0..N) \ P # {} PROVE FALSE
  OBVIOUS
<1>1. PICK x \in (0..N) \ P : \A y \in (0..N) \ P : x <= y
  <2>1. PICK T : T = (0..N) \ P
    OBVIOUS
  <2>2. T \subseteq Nat /\ T # {}
    BY <2>1
  <2> QED BY <2>1, <2>2, LeastNumber
<1>2. x # 0
  BY <1>1
<1>3. x \in 1..N /\ x - 1 \in 0..N /\ ~(x <= x - 1)
  BY <1>2
<1> QED BY <1>1, <1>3

(* Min of FiniteSetsExt. *)
LEMMA MinIn ==
    ASSUME NEW T, T \subseteq Nat, T # {}
    PROVE  Min(T) \in T
BY LeastNumber DEF Min

-----------------------------------------------------------------------------
(* topo_order *)

(* A configuration whose layer table parsed. *)
Tabled(raw) ==
    /\ DOMAIN raw.layers \subseteq Names
    /\ \A n \in DOMAIN raw.layers : raw.layers[n].depends_on \in Seq(Names)

(* The dependencies of a node, and the entries among them not in L. *)
Deps(raw, n) == IF n \in DOMAIN raw.layers THEN DependsOn(raw.layers[n]) ELSE <<>>
Waiting(raw, n, L) == {i \in DOMAIN Deps(raw, n) : Deps(raw, n)[i] \notin L}

(* The nodes listed so far. *)
Listed(order1) == {order1[i] : i \in DOMAIN order1}

(* The loop's invariant after k rounds: each node is listed once and after what it depends
   on, a count is of the entries that are not listed, and what is ready is what waits for
   nothing and is not listed. *)
Round(raw, k, s) ==
    /\ s.order \in Seq(Nodes(raw))
    /\ \A i, j \in DOMAIN s.order : s.order[i] = s.order[j] => i = j
    /\ IsFiniteSet(Listed(s.order)) /\ Cardinality(Listed(s.order)) = Len(s.order)
    /\ DOMAIN s.incoming = Nodes(raw)
    /\ \A n \in Nodes(raw) :
          s.incoming[n] = Cardinality(Waiting(raw, n, Listed(s.order)))
    /\ s.ready = {n \in Nodes(raw) \ Listed(s.order) : s.incoming[n] = 0}
    /\ \A i \in DOMAIN s.order :
          \A e \in DOMAIN Deps(raw, s.order[i]) :
              \E j \in DOMAIN s.order : j < i /\ s.order[j] = Deps(raw, s.order[i])[e]
    /\ Len(s.order) = k \/ s.ready = {}

(* The nodes are finitely many numbers, and dependencies are lists. *)
LEMMA TabledFacts ==
    ASSUME NEW raw, Tabled(raw)
    PROVE  /\ Nodes(raw) \subseteq Names /\ Nodes(raw) \subseteq Nat
           /\ IsFiniteSet(Nodes(raw)) /\ Cardinality(Nodes(raw)) \in Nat
           /\ \A n : Deps(raw, n) \in Seq(Names)
<1>1. Nodes(raw) \subseteq Names /\ Nodes(raw) \subseteq Nat
  BY ConfigAssumption DEF Tabled, Nodes
<1>2. IsFiniteSet(Nodes(raw)) /\ Cardinality(Nodes(raw)) \in Nat
  BY <1>1, ConfigAssumption, FS_Subset, FS_CardinalityType
<1>3. ASSUME NEW n PROVE Deps(raw, n) \in Seq(Names)
  BY ConfigAssumption DEF Deps, DependsOn, Tabled
<1> QED BY <1>1, <1>2, <1>3

(* The entries that wait are finitely many, and none waits when the count is zero. *)
LEMMA WaitingFacts ==
    ASSUME NEW raw, Tabled(raw), NEW n, NEW L
    PROVE  /\ IsFiniteSet(Waiting(raw, n, L)) /\ Cardinality(Waiting(raw, n, L)) \in Nat
           /\ Cardinality(Waiting(raw, n, L)) = 0 <=> Waiting(raw, n, L) = {}
<1>1. PICK m \in Nat : DOMAIN Deps(raw, n) = 1..m
  BY TabledFacts
<1>2. IsFiniteSet(1..m) /\ Waiting(raw, n, L) \in SUBSET (1..m)
  BY <1>1, FS_Interval DEF Waiting
<1>3. IsFiniteSet(Waiting(raw, n, L))
  BY <1>2, FS_Subset
<1> QED BY <1>3, FS_CardinalityType, FS_EmptySet

(* Listing one more node takes its entries off the count. *)
LEMMA WaitingLess ==
    ASSUME NEW raw, Tabled(raw), NEW n, NEW L, NEW node, node \notin L
    PROVE  Cardinality(Waiting(raw, n, L \cup {node}))
               = Cardinality(Waiting(raw, n, L)) - Entries(raw, n, node)
<1>1. PICK S, T : /\ S = Waiting(raw, n, L)
                  /\ T = {i \in DOMAIN Deps(raw, n) : Deps(raw, n)[i] = node}
  OBVIOUS
<1>2. Waiting(raw, n, L \cup {node}) = S \ T /\ S \cap T = T
  BY <1>1 DEF Waiting
<1>3. Entries(raw, n, node) = Cardinality(T)
  <2>1. CASE n \in DOMAIN raw.layers
    BY <1>1, <2>1 DEF Entries, Deps
  <2>2. CASE n \notin DOMAIN raw.layers
    <3>1. T = {}
      BY <1>1, <2>2 DEF Deps
    <3> QED BY <2>2, <3>1, FS_EmptySet DEF Entries
  <2> QED BY <2>1, <2>2
<1>4. IsFiniteSet(S)
  BY <1>1, WaitingFacts
<1> QED BY <1>1, <1>2, <1>3, <1>4, FS_Difference

(* The loop starts with its invariant. *)
LEMMA KahnStarts ==
    ASSUME NEW raw, Tabled(raw)
    PROVE  Round(raw, 0, KahnStart(raw))
<1>1. PICK s : s = KahnStart(raw)
  OBVIOUS
<1>2. s.order = <<>> /\ Listed(s.order) = {}
  BY <1>1 DEF KahnStart, Listed
<1>3. IsFiniteSet(Listed(s.order)) /\ Cardinality(Listed(s.order)) = Len(s.order)
  BY <1>2, FS_EmptySet
<1>4. ASSUME NEW n \in Nodes(raw)
      PROVE  s.incoming[n] = Cardinality(Waiting(raw, n, {}))
  <2>1. s.incoming[n] = Len(Deps(raw, n))
    BY <1>1 DEF KahnStart, Deps
  <2>2. Len(Deps(raw, n)) \in Nat /\ Waiting(raw, n, {}) = 1..Len(Deps(raw, n))
    BY TabledFacts DEF Waiting
  <2>3. Cardinality(1..Len(Deps(raw, n))) = Len(Deps(raw, n))
    <3>1. PICK m \in Nat : m = Len(Deps(raw, n))
      BY <2>2
    <3>2. Cardinality(1..m) = IF 1 > m THEN 0 ELSE m - 1 + 1
      BY FS_Interval
    <3>3. Cardinality(1..m) = m
      BY <3>2
    <3> QED BY <3>1, <3>3
  <2> QED BY <2>1, <2>2, <2>3
<1>5. DOMAIN s.incoming = Nodes(raw) /\ s.ready = {n \in Nodes(raw) : s.incoming[n] = 0}
  BY <1>1 DEF KahnStart
<1> QED BY <1>1, <1>2, <1>3, <1>4, <1>5 DEF Round

(* A round keeps it. *)
LEMMA KahnSteps ==
    ASSUME NEW raw, Tabled(raw), NEW k \in Nat, NEW s, Round(raw, k, s)
    PROVE  Round(raw, k + 1, KahnStep(raw, s))
<1>1. CASE s.ready = {}
  <2>1. KahnStep(raw, s) = s
    BY <1>1 DEF KahnStep
  <2> QED BY <1>1, <2>1 DEF Round
<1>2. CASE s.ready # {}
  <2>1. PICK node, L, t, old : /\ node = Min(s.ready) /\ L = Listed(s.order)
                               /\ t = KahnStep(raw, s) /\ old = s.order
    OBVIOUS
  <2>2. /\ t.order = Append(old, node) /\ DOMAIN t.incoming = Nodes(raw)
        /\ \A n \in Nodes(raw) : t.incoming[n] = s.incoming[n] - Entries(raw, n, node)
        /\ t.ready = (s.ready \ {node}) \cup
                         {n \in Nodes(raw) : s.incoming[n] > 0 /\ t.incoming[n] = 0}
    BY <1>2, <2>1 DEF KahnStep, Released, Round
  <2>3. node \in s.ready
    BY <1>2, <2>1, MinIn, TabledFacts DEF Round
  <2>4. /\ node \in Nodes(raw) /\ node \notin L /\ s.incoming[node] = 0
        /\ old \in Seq(Nodes(raw)) /\ Len(old) = k
    BY <1>2, <2>1, <2>3 DEF Round
  <2>5. /\ t.order \in Seq(Nodes(raw)) /\ Len(t.order) = k + 1
        /\ DOMAIN old = 1..k /\ DOMAIN t.order = 1..(k + 1)
        /\ t.order[k + 1] = node /\ \A i \in 1..k : t.order[i] = old[i]
    BY <2>2, <2>4
  <2>6. Listed(t.order) = L \cup {node}
    <3>1. PICK new : new = t.order
      OBVIOUS
    <3>2. L = {old[i] : i \in 1..k} /\ Listed(new) = {new[i] : i \in 1..(k + 1)}
      BY <2>1, <2>5, <3>1 DEF Listed
    <3>3. ASSUME NEW x PROVE x \in Listed(new) <=> x \in L \cup {node}
      <4>1. ASSUME x \in Listed(new) PROVE x \in L \cup {node}
        <5>1. PICK i \in 1..(k + 1) : x = new[i]
          BY <3>2, <4>1
        <5>2. i \in 1..k \/ i = k + 1
          OBVIOUS
        <5> QED BY <2>5, <3>1, <3>2, <5>1, <5>2
      <4>2. ASSUME x \in L PROVE x \in Listed(new)
        <5>1. PICK i \in 1..k : x = old[i]
          BY <3>2, <4>2
        <5>2. i \in 1..(k + 1) /\ x = new[i]
          BY <2>5, <3>1, <5>1
        <5> QED BY <3>2, <5>2
      <4>3. node \in Listed(new)
        BY <2>5, <3>1, <3>2
      <4> QED BY <4>1, <4>2, <4>3
    <3> QED BY <3>1, <3>3
  <2>7. IsFiniteSet(L) /\ Cardinality(L) = k
    BY <2>1, <2>4 DEF Round
  <2>8. IsFiniteSet(Listed(t.order)) /\ Cardinality(Listed(t.order)) = Len(t.order)
    BY <2>4, <2>5, <2>6, <2>7, FS_AddElement
  <2>9. \A i, j \in DOMAIN t.order : t.order[i] = t.order[j] => i = j
    <3>1. \A i \in 1..k : old[i] # node
      BY <2>1, <2>4, <2>5 DEF Listed
    <3>2. \A i, j \in 1..k : old[i] = old[j] => i = j
      BY <2>1, <2>5 DEF Round
    <3> QED BY <2>5, <3>1, <3>2
  <2>10. ASSUME NEW n \in Nodes(raw)
         PROVE  /\ t.incoming[n] = Cardinality(Waiting(raw, n, Listed(t.order)))
                /\ s.incoming[n] = Cardinality(Waiting(raw, n, L))
                /\ s.incoming[n] \in Nat /\ t.incoming[n] \in Nat
                /\ s.incoming[n] = 0 => t.incoming[n] = 0
    <3>1. s.incoming[n] = Cardinality(Waiting(raw, n, L))
      BY <2>1 DEF Round
    <3>2. t.incoming[n] = Cardinality(Waiting(raw, n, L \cup {node}))
      BY <2>2, <2>4, <3>1, WaitingLess
    <3>3. Waiting(raw, n, L \cup {node}) \subseteq Waiting(raw, n, L)
      BY DEF Waiting
    <3> QED BY <2>6, <3>1, <3>2, <3>3, WaitingFacts
  <2>11. \A n \in L : s.incoming[n] = 0
    <3> SUFFICES ASSUME NEW i \in DOMAIN old PROVE s.incoming[old[i]] = 0
      BY <2>1 DEF Listed
    <3>1. old[i] \in Nodes(raw)
      BY <2>4
    <3>2. \A e \in DOMAIN Deps(raw, old[i]) :
             \E j \in DOMAIN old : j < i /\ old[j] = Deps(raw, old[i])[e]
      BY <2>1, Zenon DEF Round
    <3>3. \A j \in DOMAIN old : old[j] \in L
      BY <2>1 DEF Listed
    <3>4. Waiting(raw, old[i], L) = {}
      BY <3>2, <3>3 DEF Waiting
    <3> QED BY <2>10, <3>1, <3>4, FS_EmptySet
  <2>12. t.ready = {n \in Nodes(raw) \ Listed(t.order) : t.incoming[n] = 0}
    <3>1. s.ready = {n \in Nodes(raw) \ L : s.incoming[n] = 0}
      BY <2>1 DEF Round
    <3>2. \A n \in Nodes(raw) : s.incoming[n] = 0 \/ s.incoming[n] > 0
      BY <2>10
    <3>3. \A n \in Nodes(raw) : s.incoming[n] > 0 => n \notin L \cup {node}
      BY <2>4, <2>11
    <3> QED BY <2>2, <2>6, <2>10, <3>1, <3>2, <3>3
  <2>13. ASSUME NEW i \in DOMAIN t.order, NEW e \in DOMAIN Deps(raw, t.order[i])
         PROVE  \E j \in DOMAIN t.order : j < i /\ t.order[j] = Deps(raw, t.order[i])[e]
    <3>1. CASE i \in 1..k
      <4>1. PICK j \in DOMAIN old : j < i /\ old[j] = Deps(raw, old[i])[e]
        <5>1. i \in DOMAIN old /\ t.order[i] = old[i] /\ e \in DOMAIN Deps(raw, old[i])
          BY <2>5, <3>1, <2>13
        <5>2. \A a \in DOMAIN old : \A b \in DOMAIN Deps(raw, old[a]) :
                 \E j \in DOMAIN old : j < a /\ old[j] = Deps(raw, old[a])[b]
          BY <2>1, Zenon DEF Round
        <5> QED BY <5>1, <5>2
      <4>2. j \in DOMAIN t.order /\ t.order[j] = old[j] /\ t.order[i] = old[i]
        BY <2>5, <3>1
      <4>3. t.order[j] = Deps(raw, t.order[i])[e]
        BY <4>1, <4>2, Zenon
      <4> QED BY <4>1, <4>2, <4>3, Zenon
    <3>2. CASE i = k + 1
      <4>1. Waiting(raw, node, L) = {}
        BY <2>4, <2>10, WaitingFacts
      <4>2. Deps(raw, node)[e] \in L
        BY <2>5, <3>2, <4>1 DEF Waiting
      <4>3. PICK j \in DOMAIN old : old[j] = Deps(raw, node)[e]
        BY <2>1, <4>2 DEF Listed
      <4>4. j \in DOMAIN t.order /\ t.order[j] = old[j] /\ j < i
        BY <2>5, <3>2
      <4>5. t.order[i] = node
        BY <2>5, <3>2
      <4>6. t.order[j] = Deps(raw, t.order[i])[e]
        BY <4>3, <4>4, <4>5, Zenon
      <4> QED BY <4>4, <4>6, Zenon
    <3> QED BY <2>5, <3>1, <3>2
  <2>14. \A n \in Nodes(raw) :
            t.incoming[n] = Cardinality(Waiting(raw, n, Listed(t.order)))
    BY <2>10
  <2>15. Round(raw, k + 1, t)
    BY <2>2, <2>5, <2>8, <2>9, <2>12, <2>13, <2>14, Zenon DEF Round
  <2> QED BY <2>1, <2>15
<1> QED BY <1>1, <1>2

(* The loop, unrolled. *)
LEMMA KahnUnrolled ==
    ASSUME NEW raw, Tabled(raw)
    PROVE  \E f : /\ f[0] = KahnStart(raw)
                  /\ \A k \in 1..Cardinality(Nodes(raw)) : f[k] = KahnStep(raw, f[k - 1])
                  /\ Kahn(raw) = f[Cardinality(Nodes(raw))].order
<1> DEFINE N == Cardinality(Nodes(raw))
           X == KahnStart(raw)
           G(v) == KahnStep(raw, v)
           F(m, f) == [k \in 0..m |-> IF k = 0 THEN X ELSE G(f[k - 1])]
           P == {m \in 0..N : \E f : f = F(m, f)}
<1>0. N \in Nat
  BY TabledFacts
<1>1. Kahn(raw) = (CHOOSE f : f = F(N, f))[N].order
  BY Zenon DEF Kahn
<1> HIDE DEF X, G, N
<1>2. 0 \in P
  <2>1. PICK f : f = [k \in 0..0 |-> X]
    OBVIOUS
  <2>2. f = F(0, f)
    BY <2>1
  <2> QED BY <1>0, <2>2
<1>3. ASSUME NEW m \in 1..N, m - 1 \in P PROVE m \in P
  <2>1. PICK f : f = F(m - 1, f)
    BY <1>3
  <2>2. PICK g : g = [k \in 0..m |-> IF k = m THEN G(f[m - 1]) ELSE f[k]]
    OBVIOUS
  <2>3. DOMAIN f = 0..(m - 1) /\ DOMAIN g = 0..m
    BY <2>1, <2>2
  <2>4. ASSUME NEW k \in 0..m PROVE g[k] = IF k = 0 THEN X ELSE G(g[k - 1])
    <3>1. CASE k = m
      BY <1>0, <2>2, <3>1
    <3>2. CASE k # m
      <4>1. k \in 0..(m - 1) /\ g[k] = f[k]
        BY <1>0, <2>2, <3>2
      <4>2. f[k] = IF k = 0 THEN X ELSE G(f[k - 1])
        BY <2>1, <4>1
      <4>3. k # 0 => g[k - 1] = f[k - 1]
        BY <1>0, <2>2, <4>1
      <4> QED BY <4>1, <4>2, <4>3
    <3> QED BY <3>1, <3>2
  <2>5. g = F(m, g)
    BY <2>2, <2>3, <2>4
  <2> QED BY <1>0, <2>5
<1>4. N \in P
  <2>1. \A m \in 0..N : m \in P
    <3>1. PICK Q : Q = P
      OBVIOUS
    <3> QED BY <1>0, <1>2, <1>3, <3>1, Induction
  <2> QED BY <1>0, <2>1
<1>5. PICK f : f = (CHOOSE h : h = F(N, h))
  OBVIOUS
<1>6. f = F(N, f)
  BY <1>4, <1>5 DEF P
<1>7. f[0] = X /\ \A k \in 1..N : f[k] = G(f[k - 1])
  BY <1>0, <1>6
<1> QED BY <1>1, <1>5, <1>7 DEF X, G, N

(* The invariant holds at the end. *)
LEMMA KahnEnds ==
    ASSUME NEW raw, Tabled(raw)
    PROVE  \E s : Kahn(raw) = s.order /\ Round(raw, Cardinality(Nodes(raw)), s)
<1>1. PICK N : N = Cardinality(Nodes(raw)) /\ N \in Nat
  BY TabledFacts
<1>2. PICK f : /\ f[0] = KahnStart(raw) /\ \A k \in 1..N : f[k] = KahnStep(raw, f[k - 1])
               /\ Kahn(raw) = f[N].order
  BY <1>1, KahnUnrolled
<1>3. PICK P : P = {k \in 0..N : Round(raw, k, f[k])}
  OBVIOUS
<1>4. 0 \in P
  BY <1>1, <1>2, <1>3, KahnStarts
<1>5. ASSUME NEW k \in 1..N, k - 1 \in P PROVE k \in P
  <2>1. k - 1 \in Nat /\ (k - 1) + 1 = k /\ Round(raw, k - 1, f[k - 1])
    BY <1>3, <1>5
  <2>2. Round(raw, (k - 1) + 1, KahnStep(raw, f[k - 1]))
    BY <2>1, KahnSteps
  <2> QED BY <1>1, <1>2, <1>3, <2>1, <2>2
<1>6. N \in P
  BY <1>1, <1>4, <1>5, Induction
<1> QED BY <1>1, <1>2, <1>3, <1>6

(* A sound order of the nodes: each of them once, after everything it depends on. *)
IsOrder(raw, o) ==
    /\ o \in Seq(Nodes(raw)) /\ Listed(o) = Nodes(raw)
    /\ Len(o) = Cardinality(Nodes(raw))
    /\ \A i, j \in DOMAIN o : o[i] = o[j] => i = j
    /\ \A i, j \in DOMAIN o :
          o[i] \in DOMAIN raw.layers /\ o[j] \in Targets(raw.layers[o[i]]) => j < i

(* What the loop lists in full is a sound order. *)
LEMMA KahnOrders ==
    ASSUME NEW raw, Tabled(raw), Len(Kahn(raw)) = Cardinality(Nodes(raw))
    PROVE  IsOrder(raw, Kahn(raw))
<1>1. PICK s : Kahn(raw) = s.order /\ Round(raw, Cardinality(Nodes(raw)), s)
  BY KahnEnds
<1>2. PICK o : o = s.order
  OBVIOUS
<1>3. /\ o \in Seq(Nodes(raw)) /\ Cardinality(Listed(o)) = Len(o)
      /\ \A i, j \in DOMAIN o : o[i] = o[j] => i = j
      /\ \A i \in DOMAIN o : \A e \in DOMAIN Deps(raw, o[i]) :
            \E j \in DOMAIN o : j < i /\ o[j] = Deps(raw, o[i])[e]
  <2>1. Round(raw, Cardinality(Nodes(raw)), s)
    BY <1>1
  <2>2. /\ s.order \in Seq(Nodes(raw)) /\ Cardinality(Listed(s.order)) = Len(s.order)
        /\ \A i, j \in DOMAIN s.order : s.order[i] = s.order[j] => i = j
        /\ \A i \in DOMAIN s.order : \A e \in DOMAIN Deps(raw, s.order[i]) :
              \E j \in DOMAIN s.order : j < i /\ s.order[j] = Deps(raw, s.order[i])[e]
    BY <2>1, Zenon DEF Round
  <2> QED BY <1>2, <2>2
<1>4. Listed(o) \in SUBSET Nodes(raw)
  BY <1>3 DEF Listed
<1>5. Listed(o) = Nodes(raw)
  BY <1>1, <1>2, <1>3, <1>4, TabledFacts, FS_Subset
<1>6. ASSUME NEW i \in DOMAIN o, NEW j \in DOMAIN o,
             o[i] \in DOMAIN raw.layers, o[j] \in Targets(raw.layers[o[i]])
      PROVE  j < i
  <2>1. PICK e \in DOMAIN Deps(raw, o[i]) : o[j] = Deps(raw, o[i])[e]
    BY <1>6 DEF Targets, Deps
  <2> QED BY <1>3, <2>1
<1> QED BY <1>1, <1>2, <1>3, <1>5, <1>6 DEF IsOrder

(* What it cannot list waits for each other. *)
LEMMA KahnCycles ==
    ASSUME NEW raw, Tabled(raw), ~Dangling(raw), Len(Kahn(raw)) # Cardinality(Nodes(raw))
    PROVE  Circular(raw)
<1>1. PICK s : Kahn(raw) = s.order /\ Round(raw, Cardinality(Nodes(raw)), s)
  BY KahnEnds
<1>2. PICK L, S : L = Listed(s.order) /\ S = Nodes(raw) \ L
  OBVIOUS
<1>3. /\ s.order \in Seq(Nodes(raw)) /\ Cardinality(L) = Len(s.order) /\ s.ready = {}
      /\ s.ready = {n \in S : s.incoming[n] = 0}
      /\ \A n \in Nodes(raw) : s.incoming[n] = Cardinality(Waiting(raw, n, L))
  BY <1>1, <1>2 DEF Round
<1>4. L \subseteq Nodes(raw)
  BY <1>2, <1>3 DEF Listed
<1>5. S # {}
  <2>1. S = {} => L = Nodes(raw)
    BY <1>2, <1>4
  <2> QED BY <1>1, <1>3, <2>1
<1>6. ASSUME NEW n \in S
      PROVE  n \in DOMAIN raw.layers /\ Targets(raw.layers[n]) \cap S # {}
  <2>1. Waiting(raw, n, L) # {}
    BY <1>2, <1>3, WaitingFacts
  <2>2. PICK e \in DOMAIN Deps(raw, n) : Deps(raw, n)[e] \notin L
    BY <2>1 DEF Waiting
  <2>3. n \in DOMAIN raw.layers /\ Deps(raw, n)[e] \in Targets(raw.layers[n])
    BY <2>2 DEF Deps, Targets
  <2>4. Deps(raw, n)[e] \in Nodes(raw)
    BY <2>3 DEF Dangling
  <2> QED BY <1>2, <2>2, <2>3, <2>4
<1>7. S \in (SUBSET DOMAIN raw.layers) \ {{}}
  BY <1>5, <1>6
<1> QED BY <1>6, <1>7 DEF Circular

(* Layers in a sound order do not wait for each other. *)
LEMMA OrderedIsAcyclic ==
    ASSUME NEW raw, NEW o, IsOrder(raw, o)
    PROVE  ~Circular(raw)
<1> SUFFICES ASSUME NEW S \in (SUBSET DOMAIN raw.layers) \ {{}},
                    \A n \in S : Targets(raw.layers[n]) \cap S # {}
             PROVE  FALSE
  BY DEF Circular
<1>1. PICK T : T = {i \in DOMAIN o : o[i] \in S}
  OBVIOUS
<1>2. \A n \in S : \E i \in DOMAIN o : o[i] = n
  BY DEF IsOrder, Listed, Nodes
<1>3. T \subseteq Nat /\ T # {}
  <2>1. T \subseteq Nat
    BY <1>1 DEF IsOrder
  <2>2. PICK n : n \in S
    OBVIOUS
  <2> QED BY <1>1, <1>2, <2>1, <2>2
<1>4. PICK i \in T : \A j \in T : i <= j
  BY <1>3, LeastNumber
<1>5. PICK d \in S : d \in Targets(raw.layers[o[i]])
  BY <1>1
<1>6. PICK j \in T : o[j] = d
  BY <1>1, <1>2
<1>7. j < i
  BY <1>1, <1>5, <1>6 DEF IsOrder
<1> QED BY <1>3, <1>4, <1>6, <1>7
-----------------------------------------------------------------------------
(* validate *)

(* The error of the fourth check. *)
Flaw(raw) == IF Flawed(raw) = {} THEN "none" ELSE DerivedFlaw(raw, Min(Flawed(raw)))

(* A configuration that passes every check: those on the layers, and the others. *)
LayersValid(raw) ==
    /\ \A n \in DOMAIN raw.layers : ProfileOf(raw, n) \in raw.hashing
    /\ Flawed(raw) = {} /\ Code \notin DOMAIN raw.layers
    /\ ~Dangling(raw) /\ Len(Kahn(raw)) = Cardinality(Nodes(raw))
    /\ ~AuthoredDependency(raw)
    /\ \A n \in DOMAIN raw.layers :
          /\ ~WrongKeys(raw.layers[n]) /\ raw.layers[n].known_kinds
          /\ ~DimMismatch(raw, raw.layers[n])
RestValid(raw) ==
    /\ raw.schema_version = 1 /\ raw.spine \in raw.hashing
    /\ raw.coordination \in {"coalesce", "drop_and_mark_lagged", "error_and_close"}
    /\ raw.code_graph.precision \in {"container", "method"}
    /\ raw.code_graph.refinement \in {"sync", "async"}
    /\ ~LintSecrets(raw)

(* The flaw reported is one that a layer has. *)
LEMMA FlawIs ==
    ASSUME NEW raw, Tabled(raw), Flawed(raw) # {}
    PROVE  Flaw(raw) \in {"OriginViolation", "DanglingRef"}
<1>1. Flawed(raw) \subseteq Nat
  BY TabledFacts DEF Flawed, Nodes
<1>2. Min(Flawed(raw)) \in Flawed(raw)
  BY <1>1, MinIn
<1>3. DerivedFlaw(raw, Min(Flawed(raw))) # "none"
  BY <1>2 DEF Flawed
<1> QED BY <1>3 DEF Flaw, DerivedFlaw

(* The fifteen checks: which of them fail, and with which error. *)
LEMMA ChecksAre ==
    ASSUME NEW raw, Tabled(raw)
    PROVE  LET failing == {i \in DOMAIN Checks(raw) : Checks(raw)[i].fails}
           IN  /\ failing \subseteq 1..15
               /\ failing = {} <=> LayersValid(raw) /\ RestValid(raw)
               /\ \A i \in failing : /\ Checks(raw)[i].error # "none"
                                     /\ Checks(raw)[i].error = "Cycle" => i = 7
               /\ 7 \in failing => /\ ~Dangling(raw)
                                   /\ Len(Kahn(raw)) # Cardinality(Nodes(raw))
<1> DEFINE c == Checks(raw)
           layers == {raw.layers[n] : n \in DOMAIN raw.layers}
           failing == {i \in DOMAIN c : c[i].fails}
<1>0. DOMAIN c = 1..15
  BY DEF Checks
<1>1. /\ c[1].fails <=> raw.schema_version # 1
      /\ c[1].error = "UnknownVersion"
  <2>1. PICK x : x = c[1]
    OBVIOUS
  <2>2. x = Check("UnknownVersion", raw.schema_version # 1)
    BY <2>1 DEF Checks
  <2>3. (x.fails <=> raw.schema_version # 1) /\ x.error = "UnknownVersion"
    BY <2>2 DEF Check
  <2> QED BY <2>1, <2>3
<1>2. /\ c[2].fails <=> raw.spine \notin raw.hashing
      /\ c[2].error = "DanglingRef"
  <2>1. PICK x : x = c[2]
    OBVIOUS
  <2>2. x = Check("DanglingRef", raw.spine \notin raw.hashing)
    BY <2>1 DEF Checks
  <2>3. (x.fails <=> raw.spine \notin raw.hashing) /\ x.error = "DanglingRef"
    BY <2>2 DEF Check
  <2> QED BY <2>1, <2>3
<1>3. /\ c[3].fails <=> \E n \in DOMAIN raw.layers : ProfileOf(raw, n) \notin raw.hashing
      /\ c[3].error = "DanglingRef"
  <2>1. PICK x : x = c[3]
    OBVIOUS
  <2>2. x = Check("DanglingRef",
                   \E n \in DOMAIN raw.layers : ProfileOf(raw, n) \notin raw.hashing)
    BY <2>1 DEF Checks
  <2>3. /\ x.fails <=> \E n \in DOMAIN raw.layers : ProfileOf(raw, n) \notin raw.hashing
        /\ x.error = "DanglingRef"
    BY <2>2 DEF Check
  <2> QED BY <2>1, <2>3
<1>4. /\ c[4].fails <=> Flawed(raw) # {}
      /\ c[4].error = Flaw(raw)
  <2>1. PICK x : x = c[4]
    OBVIOUS
  <2>2. x = Check(Flaw(raw), Flawed(raw) # {})
    BY <2>1 DEF Checks, Flaw
  <2>3. (x.fails <=> Flawed(raw) # {}) /\ x.error = Flaw(raw)
    BY <2>2 DEF Check
  <2> QED BY <2>1, <2>3
<1>5. /\ c[5].fails <=> Code \in DOMAIN raw.layers
      /\ c[5].error = "ReservedName"
  <2>1. PICK x : x = c[5]
    OBVIOUS
  <2>2. x = Check("ReservedName", Code \in DOMAIN raw.layers)
    BY <2>1 DEF Checks
  <2>3. (x.fails <=> Code \in DOMAIN raw.layers) /\ x.error = "ReservedName"
    BY <2>2 DEF Check
  <2> QED BY <2>1, <2>3
<1>6. /\ c[6].fails <=> Dangling(raw)
      /\ c[6].error = "DanglingRef"
  <2>1. PICK x : x = c[6]
    OBVIOUS
  <2>2. x = Check("DanglingRef", Dangling(raw))
    BY <2>1 DEF Checks
  <2>3. (x.fails <=> Dangling(raw)) /\ x.error = "DanglingRef"
    BY <2>2 DEF Check
  <2> QED BY <2>1, <2>3
<1>7. /\ c[7].fails <=> ~Dangling(raw) /\ Len(Kahn(raw)) # Cardinality(Nodes(raw))
      /\ c[7].error = "Cycle"
  <2>1. PICK x : x = c[7]
    OBVIOUS
  <2>2. x = Check("Cycle", ~Dangling(raw) /\ Len(Kahn(raw)) # Cardinality(Nodes(raw)))
    BY <2>1 DEF Checks
  <2>3. /\ x.fails <=> ~Dangling(raw) /\ Len(Kahn(raw)) # Cardinality(Nodes(raw))
        /\ x.error = "Cycle"
    BY <2>2 DEF Check
  <2> QED BY <2>1, <2>3
<1>8. /\ c[8].fails <=> AuthoredDependency(raw)
      /\ c[8].error = "OriginViolation"
  <2>1. PICK x : x = c[8]
    OBVIOUS
  <2>2. x = Check("OriginViolation", AuthoredDependency(raw))
    BY <2>1 DEF Checks
  <2>3. (x.fails <=> AuthoredDependency(raw)) /\ x.error = "OriginViolation"
    BY <2>2 DEF Check
  <2> QED BY <2>1, <2>3
<1>9. /\ c[9].fails <=> \E layer \in layers : WrongKeys(layer)
      /\ c[9].error = "OriginViolation"
  <2>1. PICK x : x = c[9]
    OBVIOUS
  <2>2. x = Check("OriginViolation", \E layer \in layers : WrongKeys(layer))
    BY <2>1 DEF Checks
  <2>3. (x.fails <=> \E layer \in layers : WrongKeys(layer)) /\ x.error = "OriginViolation"
    BY <2>2 DEF Check
  <2> QED BY <2>1, <2>3
<1>10. /\ c[10].fails <=> \E layer \in layers : ~layer.known_kinds
      /\ c[10].error = "UnknownKind"
  <2>1. PICK x : x = c[10]
    OBVIOUS
  <2>2. x = Check("UnknownKind", \E layer \in layers : ~layer.known_kinds)
    BY <2>1 DEF Checks
  <2>3. (x.fails <=> \E layer \in layers : ~layer.known_kinds) /\ x.error = "UnknownKind"
    BY <2>2 DEF Check
  <2> QED BY <2>1, <2>3
<1>11. /\ c[11].fails <=> \E layer \in layers : DimMismatch(raw, layer)
      /\ c[11].error = "DimMismatch"
  <2>1. PICK x : x = c[11]
    OBVIOUS
  <2>2. x = Check("DimMismatch", \E layer \in layers : DimMismatch(raw, layer))
    BY <2>1 DEF Checks
  <2>3. (x.fails <=> \E layer \in layers : DimMismatch(raw, layer)) /\ x.error = "DimMismatch"
    BY <2>2 DEF Check
  <2> QED BY <2>1, <2>3
<1>12. /\ c[12].fails <=> raw.coordination \notin {"coalesce", "drop_and_mark_lagged", "error_and_close"}
      /\ c[12].error = "BlockingOverflow"
  <2>1. PICK x : x = c[12]
    OBVIOUS
  <2>2. x = Check("BlockingOverflow",
                   raw.coordination \notin {"coalesce", "drop_and_mark_lagged", "error_and_close"})
    BY <2>1 DEF Checks
  <2>3. /\ x.fails <=> raw.coordination \notin {"coalesce", "drop_and_mark_lagged", "error_and_close"}
        /\ x.error = "BlockingOverflow"
    BY <2>2 DEF Check
  <2> QED BY <2>1, <2>3
<1>13. /\ c[13].fails <=> raw.code_graph.precision \notin {"container", "method"}
      /\ c[13].error = "InvalidValue"
  <2>1. PICK x : x = c[13]
    OBVIOUS
  <2>2. x = Check("InvalidValue", raw.code_graph.precision \notin {"container", "method"})
    BY <2>1 DEF Checks
  <2>3. /\ x.fails <=> raw.code_graph.precision \notin {"container", "method"}
        /\ x.error = "InvalidValue"
    BY <2>2 DEF Check
  <2> QED BY <2>1, <2>3
<1>14. /\ c[14].fails <=> raw.code_graph.refinement \notin {"sync", "async"}
      /\ c[14].error = "InvalidValue"
  <2>1. PICK x : x = c[14]
    OBVIOUS
  <2>2. x = Check("InvalidValue", raw.code_graph.refinement \notin {"sync", "async"})
    BY <2>1 DEF Checks
  <2>3. (x.fails <=> raw.code_graph.refinement \notin {"sync", "async"}) /\ x.error = "InvalidValue"
    BY <2>2 DEF Check
  <2> QED BY <2>1, <2>3
<1>15. /\ c[15].fails <=> LintSecrets(raw)
      /\ c[15].error = "SecretInline"
  <2>1. PICK x : x = c[15]
    OBVIOUS
  <2>2. x = Check("SecretInline", LintSecrets(raw))
    BY <2>1 DEF Checks
  <2>3. (x.fails <=> LintSecrets(raw)) /\ x.error = "SecretInline"
    BY <2>2 DEF Check
  <2> QED BY <2>1, <2>3
<1> HIDE DEF c
<1>16. failing = {} <=> \A i \in 1..15 : ~c[i].fails
  BY <1>0
<1>17. (\A i \in 1..15 : ~c[i].fails) <=> LayersValid(raw) /\ RestValid(raw)
  <2>1. (\A i \in 1..15 : ~c[i].fails) <=>
           /\ ~c[1].fails /\ ~c[2].fails /\ ~c[3].fails /\ ~c[4].fails /\ ~c[5].fails
           /\ ~c[6].fails /\ ~c[7].fails /\ ~c[8].fails /\ ~c[9].fails /\ ~c[10].fails
           /\ ~c[11].fails /\ ~c[12].fails /\ ~c[13].fails /\ ~c[14].fails /\ ~c[15].fails
    OBVIOUS
  <2>2. LayersValid(raw) <=>
           /\ ~c[3].fails /\ ~c[4].fails /\ ~c[5].fails /\ ~c[6].fails /\ ~c[7].fails
           /\ ~c[8].fails /\ ~c[9].fails /\ ~c[10].fails /\ ~c[11].fails
    BY <1>3, <1>4, <1>5, <1>6, <1>7, <1>8, <1>9, <1>10, <1>11 DEF LayersValid
  <2>3. RestValid(raw) <=>
           /\ ~c[1].fails /\ ~c[2].fails
           /\ ~c[12].fails /\ ~c[13].fails /\ ~c[14].fails /\ ~c[15].fails
    BY <1>1, <1>2, <1>12, <1>13, <1>14, <1>15 DEF RestValid
  <2> QED BY <2>1, <2>2, <2>3
<1>18. ASSUME NEW i \in failing
       PROVE  c[i].error # "none" /\ (c[i].error = "Cycle" => i = 7)
  <2>1. c[4].fails => c[4].error \in {"OriginViolation", "DanglingRef"}
    BY <1>4, FlawIs
  <2>2. i \in 1..15 /\ c[i].fails
    BY <1>0
  <2> QED BY <1>1, <1>2, <1>3, <1>5, <1>6, <1>7, <1>8, <1>9, <1>10, <1>11, <1>12, <1>13,
             <1>14, <1>15, <2>1, <2>2
<1> QED BY <1>0, <1>7, <1>16, <1>17, <1>18 DEF c

(* A configuration is accepted if and only if every check passes. *)
LEMMA ValidateAccepts ==
    ASSUME NEW raw, Tabled(raw)
    PROVE  Validate(raw) = "none" <=> LayersValid(raw) /\ RestValid(raw)
<1>1. PICK failing : failing = {i \in DOMAIN Checks(raw) : Checks(raw)[i].fails}
  OBVIOUS
<1>2. /\ failing \subseteq 1..15
      /\ failing = {} <=> LayersValid(raw) /\ RestValid(raw)
      /\ \A i \in failing : Checks(raw)[i].error # "none"
  BY <1>1, ChecksAre
<1>3. failing # {} => Min(failing) \in failing
  <2>1. failing \subseteq Nat
    BY <1>2
  <2> QED BY <2>1, MinIn
<1> QED BY <1>1, <1>2, <1>3 DEF Validate

(* A cycle is reported only if the layers wait for each other. *)
LEMMA ValidateCycles ==
    ASSUME NEW raw, Tabled(raw), Validate(raw) = "Cycle"
    PROVE  Circular(raw)
<1>1. PICK failing : failing = {i \in DOMAIN Checks(raw) : Checks(raw)[i].fails}
  OBVIOUS
<1>2. /\ failing \subseteq 1..15
      /\ \A i \in failing : Checks(raw)[i].error = "Cycle" => i = 7
      /\ 7 \in failing => ~Dangling(raw) /\ Len(Kahn(raw)) # Cardinality(Nodes(raw))
  BY <1>1, ChecksAre
<1>3. failing # {} /\ Checks(raw)[Min(failing)].error = "Cycle"
  BY <1>1 DEF Validate
<1>4. Min(failing) \in failing
  <2>1. failing \subseteq Nat
    BY <1>2
  <2> QED BY <1>3, <2>1, MinIn
<1> QED BY <1>2, <1>3, <1>4, KahnCycles
-----------------------------------------------------------------------------
(* The invariant. *)

(* The tables of a configuration. *)
Tables == {"schema_version", "spine", "hashing", "layers", "generators", "stores",
           "coordination", "code_graph"}
Specs == [name : Names, history : BOOLEAN]

(* A configuration that was loaded: every table is there and has its shape. *)
Shaped(raw) ==
    /\ Tables \subseteq DOMAIN raw /\ Tabled(raw)
    /\ \A n \in DOMAIN raw.layers : raw.layers[n].history \in BOOLEAN
    /\ Unset \notin DOMAIN raw.generators

(* The types of what the other invariants speak of. *)
Types ==
    /\ \A document \in {committed, local} : document = NoFile \/ WellFormed(document)
    /\ plugins \in Seq(Specs) /\ authored \in Nat /\ edits \in Nat
    /\ notes \in [Names -> Seq(Nat)] /\ records \in [Names -> Seq(Nat)]

(* A session has a configuration in shape, whose endpoints are expanded once, and a
   sound order of it; the configuration is valid unless the reserved name was
   registered. *)
SessionInv ==
    Running =>
        /\ Shaped(config) /\ declared \subseteq DOMAIN config.layers
        /\ \A g \in DOMAIN config.generators :
              config.generators[g].endpoint \notin {"ref"} \ {Value}
        /\ ~Dangling(config) /\ IsOrder(config, order)
        /\ Code \notin DOMAIN config.layers => LayersValid(config) /\ RestValid(config)

(* A cycle was reported of files in which there is one. *)
CycleInv == outcome = "Cycle" /\ edits = 0 => Circular(Load)

(* The inductive invariant. *)
ConfigInv == Types /\ SessionInv /\ CycleInv /\ NotesFollowLayers
-----------------------------------------------------------------------------
(* Loading. *)

(* What a process reads parses if the files do. *)
LEMMA DocumentParses ==
    ASSUME Types
    PROVE  WellFormed(Document)
<1>1. CASE committed = NoFile
  <2>1. Document = Defaults
    BY <1>1 DEF Document
  <2>2. /\ "layers" \in DOMAIN Defaults /\ DOMAIN Defaults.layers = {}
        /\ "generators" \in DOMAIN Defaults /\ DOMAIN Defaults.generators = {}
    BY DEF Defaults, Empty
  <2> QED BY <2>1, <2>2 DEF WellFormed
<1>2. CASE committed # NoFile /\ local = NoFile
  BY <1>2 DEF Document, Merge, Types
<1>3. CASE committed # NoFile /\ local # NoFile
  <2>1. PICK d : d = Document
    OBVIOUS
  <2>2. /\ DOMAIN d = DOMAIN local \cup DOMAIN committed
        /\ \A x \in DOMAIN d : d[x] = IF x \in DOMAIN local THEN local[x] ELSE committed[x]
    BY <1>3, <2>1 DEF Document, Merge, Over
  <2>3. WellFormed(local) /\ WellFormed(committed)
    BY <1>3 DEF Types
  <2>4. WellFormed(d)
    BY <2>2, <2>3 DEF WellFormed
  <2> QED BY <2>1, <2>4
<1> QED BY <1>1, <1>2, <1>3

(* What is loaded is in shape, and its endpoints are expanded. *)
LEMMA LoadShapes ==
    ASSUME Types
    PROVE  /\ Shaped(Load)
           /\ \A g \in DOMAIN Load.generators :
                 Load.generators[g].endpoint \notin {"ref"} \ {Value}
<1>1. PICK d, t, raw : d = Document /\ t = Over(d, Defaults) /\ raw = Load
  OBVIOUS
<1>2. /\ DOMAIN Defaults = Tables /\ DOMAIN Defaults.layers = {}
      /\ DOMAIN Defaults.generators = {}
  BY DEF Defaults, Tables, Empty
<1>3. /\ Tables \subseteq DOMAIN t
      /\ t.layers = IF "layers" \in DOMAIN d THEN d.layers ELSE Defaults.layers
      /\ t.generators = IF "generators" \in DOMAIN d THEN d.generators ELSE Defaults.generators
  BY <1>1, <1>2 DEF Over, Tables
<1>4. raw = [t EXCEPT !.hashing = @ \cup {"structure"}, !.generators = Expand(@)]
  BY <1>1 DEF Load
<1>5. /\ DOMAIN raw = DOMAIN t /\ raw.layers = t.layers
      /\ raw.generators = Expand(t.generators)
  BY <1>3, <1>4 DEF Tables
<1>6. WellFormed(d)
  BY <1>1, DocumentParses
<1>7. /\ DOMAIN t.layers \subseteq Names
      /\ \A n \in DOMAIN t.layers : /\ t.layers[n].depends_on \in Seq(Names)
                                    /\ t.layers[n].history \in BOOLEAN
  BY <1>2, <1>3, <1>6 DEF WellFormed
<1>8. /\ Unset \notin DOMAIN t.generators
      /\ \A g \in DOMAIN t.generators : "endpoint" \in DOMAIN t.generators[g]
  BY <1>2, <1>3, <1>6 DEF WellFormed
<1>9. DOMAIN raw.generators = DOMAIN t.generators
  BY <1>5 DEF Expand
<1>10. Shaped(raw)
  BY <1>3, <1>5, <1>7, <1>8, <1>9 DEF Shaped, Tabled
<1>11. ASSUME NEW g \in DOMAIN raw.generators
       PROVE  raw.generators[g].endpoint \notin {"ref"} \ {Value}
  <2>1. PICK a : a = t.generators[g]
    OBVIOUS
  <2>2. raw.generators[g] = IF a.endpoint = "ref" THEN [a EXCEPT !.endpoint = Value] ELSE a
    BY <1>5, <1>9, <2>1 DEF Expand
  <2>3. CASE a.endpoint # "ref"
    BY <2>2, <2>3
  <2>4. CASE a.endpoint = "ref"
    <3>1. raw.generators[g] = [a EXCEPT !.endpoint = Value]
      BY <2>2, <2>4
    <3>2. raw.generators[g].endpoint = Value
      BY <1>8, <1>9, <2>1, <3>1
    <3> QED BY <3>2
  <2> QED BY <2>3, <2>4
<1> QED BY <1>1, <1>10, <1>11
-----------------------------------------------------------------------------
(* Registration. *)

(* A configuration with one authored layer more, under a name that was free. *)
Extended(raw, new, spec) ==
    /\ Shaped(raw) /\ spec \in Specs /\ spec.name \notin DOMAIN raw.layers
    /\ new = [raw EXCEPT !.layers = Registered(@, spec)]

(* What it consists of. *)
LEMMA ExtendedFacts ==
    ASSUME NEW raw, NEW new, NEW spec, Extended(raw, new, spec)
    PROVE  /\ DOMAIN new = DOMAIN raw /\ \A x \in Tables \ {"layers"} : new[x] = raw[x]
           /\ DOMAIN new.layers = DOMAIN raw.layers \cup {spec.name}
           /\ \A n \in DOMAIN raw.layers : new.layers[n] = raw.layers[n]
           /\ new.layers[spec.name] = RegisteredLayer(spec.history)
           /\ DependsOn(new.layers[spec.name]) = <<>> /\ Targets(new.layers[spec.name]) = {}
           /\ Nodes(new) = Nodes(raw) \cup {spec.name}
           /\ Shaped(new)
<1>1. /\ Tables \subseteq DOMAIN raw /\ "layers" \in DOMAIN raw
      /\ spec.name \in Names /\ spec.history \in BOOLEAN /\ spec.name \notin DOMAIN raw.layers
      /\ new = [raw EXCEPT !.layers = Registered(raw.layers, spec)]
  BY DEF Extended, Shaped, Tables, Specs
<1>2. DOMAIN new = DOMAIN raw /\ \A x \in Tables \ {"layers"} : new[x] = raw[x]
  BY <1>1
<1>3. new.layers = Registered(raw.layers, spec)
  BY <1>1
<1>4. /\ DOMAIN new.layers = DOMAIN raw.layers \cup {spec.name}
      /\ \A n \in DOMAIN raw.layers : new.layers[n] = raw.layers[n]
      /\ new.layers[spec.name] = RegisteredLayer(spec.history)
  BY <1>1, <1>3 DEF Registered, Over
<1>5. /\ RegisteredLayer(spec.history).depends_on = <<>>
      /\ RegisteredLayer(spec.history).origin = "authored"
      /\ RegisteredLayer(spec.history).history = spec.history
  BY DEF RegisteredLayer
<1>6. DependsOn(new.layers[spec.name]) = <<>> /\ Targets(new.layers[spec.name]) = {}
  BY <1>4, <1>5 DEF DependsOn, Targets
<1>7. Nodes(new) = Nodes(raw) \cup {spec.name}
  BY <1>4 DEF Nodes
<1>8. <<>> \in Seq(Names) /\ new.generators = raw.generators
  BY <1>2 DEF Tables
<1>9. Shaped(raw)
  BY DEF Extended
<1>10. /\ DOMAIN new.layers \subseteq Names
       /\ \A n \in DOMAIN new.layers : /\ new.layers[n].depends_on \in Seq(Names)
                                       /\ new.layers[n].history \in BOOLEAN
  BY <1>1, <1>4, <1>5, <1>8, <1>9 DEF Shaped, Tabled
<1>11. Shaped(new)
  BY <1>2, <1>8, <1>9, <1>10 DEF Shaped, Tabled
<1> QED BY <1>2, <1>4, <1>6, <1>7, <1>11

(* The order stays sound: nobody depends on a name that was free, and the new layer
   depends on nobody. *)
LEMMA ExtendedOrder ==
    ASSUME NEW raw, NEW new, NEW spec, Extended(raw, new, spec), ~Dangling(raw),
           NEW o, IsOrder(raw, o), NEW p,
           p = IF spec.name \in Listed(o) THEN o ELSE Append(o, spec.name)
    PROVE  ~Dangling(new) /\ IsOrder(new, p)
<1>1. PICK name : name = spec.name
  OBVIOUS
<1>2. /\ name \notin DOMAIN raw.layers /\ Nodes(new) = Nodes(raw) \cup {name}
      /\ DOMAIN new.layers = DOMAIN raw.layers \cup {name}
      /\ \A n \in DOMAIN raw.layers : new.layers[n] = raw.layers[n]
      /\ Targets(new.layers[name]) = {}
  <2>1. spec.name \notin DOMAIN raw.layers
    BY DEF Extended
  <2>2. /\ Nodes(new) = Nodes(raw) \cup {spec.name}
        /\ DOMAIN new.layers = DOMAIN raw.layers \cup {spec.name}
        /\ \A n \in DOMAIN raw.layers : new.layers[n] = raw.layers[n]
        /\ Targets(new.layers[spec.name]) = {}
    BY ExtendedFacts
  <2> QED BY <1>1, <2>1, <2>2
<1>3. \A n \in DOMAIN raw.layers : Targets(raw.layers[n]) \subseteq Nodes(raw)
  BY DEF Dangling
<1>4. ~Dangling(new)
  BY <1>2, <1>3 DEF Dangling
<1>5. /\ o \in Seq(Nodes(raw)) /\ Listed(o) = Nodes(raw)
      /\ Len(o) = Cardinality(Nodes(raw))
      /\ \A i, j \in DOMAIN o : o[i] = o[j] => i = j
      /\ \A i, j \in DOMAIN o :
            o[i] \in DOMAIN raw.layers /\ o[j] \in Targets(raw.layers[o[i]]) => j < i
  BY DEF IsOrder
<1>6. CASE name \in Nodes(raw)
  <2>1. p = o /\ Nodes(new) = Nodes(raw)
    BY <1>1, <1>2, <1>5, <1>6
  <2>2. \A i, j \in DOMAIN o :
           o[i] \in DOMAIN new.layers /\ o[j] \in Targets(new.layers[o[i]]) => j < i
    BY <1>2, <1>5
  <2> QED BY <1>4, <1>5, <2>1, <2>2 DEF IsOrder
<1>7. CASE name \notin Nodes(raw)
  <2>1. PICK k \in Nat : k = Len(o)
    BY <1>5
  <2>2. p = Append(o, name)
    BY <1>1, <1>5, <1>7
  <2>3. /\ p \in Seq(Nodes(new)) /\ Len(p) = k + 1 /\ DOMAIN o = 1..k /\ DOMAIN p = 1..(k + 1)
        /\ p[k + 1] = name /\ \A i \in 1..k : p[i] = o[i]
    BY <1>2, <1>5, <2>1, <2>2
  <2>4. \A i \in 1..k : o[i] \in Nodes(raw) /\ o[i] # name
    BY <1>5, <1>7, <2>3
  <2>5. \A i \in 1..(k + 1) : i = k + 1 \/ i \in 1..k
    BY <2>1
  <2>6. Listed(p) = Nodes(new)
    <3>1. \A x \in Listed(p) : x \in Nodes(new)
      BY <2>3 DEF Listed
    <3>2. ASSUME NEW x \in Nodes(raw) PROVE x \in Listed(p)
      <4>1. PICK i \in 1..k : o[i] = x
        BY <1>5, <2>3 DEF Listed
      <4>2. i \in DOMAIN p /\ p[i] = x
        BY <2>1, <2>3, <4>1
      <4> QED BY <4>2 DEF Listed
    <3>3. name \in Listed(p)
      BY <2>1, <2>3 DEF Listed
    <3> QED BY <1>2, <3>1, <3>2, <3>3
  <2>7. Cardinality(Nodes(new)) = k + 1
    <3>1. IsFiniteSet(Nodes(raw)) /\ Cardinality(Nodes(raw)) = k
      BY <1>5, <2>1, TabledFacts DEF Extended, Shaped
    <3> QED BY <1>2, <1>7, <3>1, FS_AddElement
  <2>8. \A i, j \in DOMAIN p : p[i] = p[j] => i = j
    BY <1>5, <2>3, <2>4, <2>5
  <2>9. ASSUME NEW i \in DOMAIN p, NEW j \in DOMAIN p, p[i] \in DOMAIN new.layers,
               p[j] \in Targets(new.layers[p[i]])
        PROVE  j < i
    <3>1. p[i] # name /\ i \in 1..k
      BY <1>2, <2>3, <2>5, <2>9
    <3>2. p[i] \in DOMAIN raw.layers /\ p[j] \in Targets(raw.layers[p[i]])
      BY <1>2, <2>9, <3>1
    <3>3. p[j] # name /\ j \in 1..k
      BY <1>3, <1>7, <2>3, <2>5, <3>2
    <3> QED BY <1>5, <2>3, <3>1, <3>2, <3>3
  <2> QED BY <1>4, <2>3, <2>6, <2>7, <2>8, <2>9 DEF IsOrder
<1> QED BY <1>6, <1>7

(* The configuration stays valid. *)
LEMMA ExtendedValid ==
    ASSUME NEW raw, NEW new, NEW spec, Extended(raw, new, spec), spec.name # Code,
           NEW o, IsOrder(raw, o), LayersValid(raw), RestValid(raw)
    PROVE  LayersValid(new) /\ RestValid(new)
<1>1. PICK name, added : name = spec.name /\ added = RegisteredLayer(spec.history)
  OBVIOUS
<1>2. /\ DOMAIN new.layers = DOMAIN raw.layers \cup {spec.name}
      /\ \A n \in DOMAIN raw.layers : new.layers[n] = raw.layers[n]
      /\ new.layers[spec.name] = RegisteredLayer(spec.history)
      /\ Targets(new.layers[spec.name]) = {} /\ Nodes(new) = Nodes(raw) \cup {spec.name}
      /\ Shaped(new) /\ \A x \in Tables \ {"layers"} : new[x] = raw[x]
  BY ExtendedFacts
<1>3. /\ DOMAIN new.layers = DOMAIN raw.layers \cup {name}
      /\ \A n \in DOMAIN raw.layers : new.layers[n] = raw.layers[n] /\ n # name
      /\ new.layers[name] = added /\ Targets(added) = {} /\ Nodes(new) = Nodes(raw) \cup {name}
      /\ name # Code /\ name \notin Nodes(raw)
  <2>1. spec.name \notin DOMAIN raw.layers
    BY DEF Extended
  <2> QED BY <1>1, <1>2, <2>1 DEF Nodes
<1>4. /\ added.origin = "authored" /\ added.depends_on = <<>> /\ added.known_kinds
      /\ added.generator = Unset /\ added.hash_profile = Unset /\ added.store = Unset
      /\ added.generator_version = Unset
  BY <1>1 DEF RegisteredLayer
<1>5. /\ new.schema_version = raw.schema_version /\ new.spine = raw.spine
      /\ new.hashing = raw.hashing /\ new.generators = raw.generators
      /\ new.stores = raw.stores /\ new.coordination = raw.coordination
      /\ new.code_graph = raw.code_graph
  BY <1>2 DEF Tables
<1>6. RestValid(new)
  BY <1>5 DEF RestValid, LintSecrets
<1>7. \A n \in DOMAIN new.layers : ProfileOf(new, n) \in new.hashing
  <2>1. \A n \in DOMAIN raw.layers : ProfileOf(new, n) = ProfileOf(raw, n)
    BY <1>3, <1>5 DEF ProfileOf
  <2>2. ProfileOf(new, name) = raw.spine
    BY <1>3, <1>4, <1>5 DEF ProfileOf
  <2> QED BY <1>3, <1>5, <2>1, <2>2 DEF LayersValid, RestValid
<1>8. Flawed(new) = {}
  <2>1. \A n \in DOMAIN raw.layers : DerivedFlaw(new, n) = DerivedFlaw(raw, n)
    BY <1>3, <1>5 DEF DerivedFlaw
  <2>2. DerivedFlaw(new, name) = "none"
    BY <1>3, <1>4 DEF DerivedFlaw
  <2> QED BY <1>3, <2>1, <2>2 DEF LayersValid, Flawed
<1>9. Code \notin DOMAIN new.layers
  BY <1>3 DEF LayersValid
<1>10. ~Dangling(new)
  BY <1>3 DEF LayersValid, Dangling
<1>11. Len(Kahn(new)) = Cardinality(Nodes(new))
  <2>1. ~Circular(raw)
    BY OrderedIsAcyclic
  <2>2. ASSUME NEW S \in (SUBSET DOMAIN new.layers) \ {{}},
               \A n \in S : Targets(new.layers[n]) \cap S # {}
        PROVE  FALSE
    <3>1. name \notin S
      BY <1>3, <2>2
    <3>2. S \in (SUBSET DOMAIN raw.layers) \ {{}}
      BY <1>3, <3>1
    <3>3. \A n \in S : Targets(raw.layers[n]) \cap S # {}
      BY <1>3, <2>2, <3>2
    <3> QED BY <2>1, <3>2, <3>3 DEF Circular
  <2>3. ~Circular(new)
    BY <2>2 DEF Circular
  <2> QED BY <1>2, <1>10, <2>3, KahnCycles DEF Shaped
<1>12. ~AuthoredDependency(new)
  <2> SUFFICES ASSUME NEW n \in DOMAIN new.layers,
                      NEW d \in Targets(new.layers[n]) \cap DOMAIN new.layers,
                      new.layers[d].origin = "authored"
               PROVE  FALSE
    BY DEF AuthoredDependency
  <2>1. n \in DOMAIN raw.layers /\ d \in Targets(raw.layers[n])
    BY <1>3
  <2>2. d \in Nodes(raw)
    BY <2>1 DEF LayersValid, Dangling
  <2>3. d \in DOMAIN raw.layers /\ raw.layers[d].origin = "authored"
    BY <1>3, <2>2
  <2> QED BY <2>1, <2>3 DEF LayersValid, AuthoredDependency
<1>13. ASSUME NEW n \in DOMAIN new.layers
       PROVE  /\ ~WrongKeys(new.layers[n]) /\ new.layers[n].known_kinds
              /\ ~DimMismatch(new, new.layers[n])
  <2>1. CASE n = name
    <3>1. ~WrongKeys(added) /\ added.known_kinds
      BY <1>4 DEF WrongKeys
    <3>2. ~DimMismatch(new, added)
      BY <1>2, <1>4 DEF DimMismatch, Shaped
    <3> QED BY <1>3, <2>1, <3>1, <3>2
  <2>2. CASE n \in DOMAIN raw.layers
    <3>1. PICK layer : layer = raw.layers[n] /\ layer = new.layers[n]
      BY <1>3, <2>2
    <3>2. ~WrongKeys(layer) /\ layer.known_kinds /\ ~DimMismatch(raw, layer)
      BY <2>2, <3>1 DEF LayersValid
    <3>3. ~DimMismatch(new, layer)
      BY <1>5, <3>2 DEF DimMismatch
    <3> QED BY <3>1, <3>2, <3>3
  <2> QED BY <1>3, <2>1, <2>2
<1> QED BY <1>6, <1>7, <1>8, <1>9, <1>10, <1>11, <1>12, <1>13 DEF LayersValid
-----------------------------------------------------------------------------
(* The invariant is inductive. *)

(* Initially nothing is open. *)
LEMMA ConfigInit == Init => ConfigInv
<1> SUFFICES ASSUME Init PROVE ConfigInv
  OBVIOUS
<1>1. PICK i \in Installations : /\ committed = i.committed /\ local = i.local
                                 /\ env = i.env /\ secrets = i.secrets
  BY DEF Init
<1>2. \A document \in {committed, local} : document = NoFile \/ WellFormed(document)
  BY <1>1, ConfigAssumption
<1>3. NoNotes \in [Names -> Seq(Nat)]
  BY DEF NoNotes
<1>4. Types
  BY <1>2, <1>3 DEF Init, Types
<1>5. SessionInv /\ CycleInv /\ NotesFollowLayers
  BY DEF Init, SessionInv, CycleInv, NotesFollowLayers, Running
<1> QED BY <1>4, <1>5 DEF ConfigInv

(* Files that stay as they are load as they did. *)
LEMMA LoadStays ==
    ASSUME UNCHANGED files
    PROVE  Load' = Load
BY DEF files, Load, Document, Merge, Over, Expand, Value, Defaults, Empty

(* The records of declared layers are loaded, all of them listed by a sound order. *)
LEMMA LoadedNotes ==
    ASSUME Types, NEW raw, Shaped(raw), NEW o, IsOrder(raw, o), NEW unread
    PROVE  /\ Loaded(raw, o, unread) \in [Names -> Seq(Nat)]
           /\ \A n \in DOMAIN raw.layers \ unread :
                 raw.layers[n].origin = "authored" /\ records[n] # <<>> =>
                    /\ Loaded(raw, o, unread)[n] # <<>>
                    /\ Loaded(raw, o, unread)[n][Len(Loaded(raw, o, unread)[n])]
                           = records[n][Len(records[n])]
                    /\ raw.layers[n].history => Loaded(raw, o, unread)[n] = records[n]
<1>1. PICK f : f = Loaded(raw, o, unread)
  OBVIOUS
<1>2. ASSUME NEW n \in Names
      PROVE  \/ f[n] = <<>>
             \/ records[n] # <<>> /\ f[n] \in {records[n], <<records[n][Len(records[n])]>>}
  BY <1>1 DEF Loaded, Recorded
<1>3. \A n \in Names : records[n] # <<>> => records[n][Len(records[n])] \in Nat
  BY DEF Types
<1>4. DOMAIN f = Names /\ \A n \in Names : f[n] \in Seq(Nat)
  <2>1. DOMAIN f = Names
    BY <1>1 DEF Loaded
  <2>2. \A n \in Names : records[n] \in Seq(Nat)
    BY DEF Types
  <2>3. \A x \in Nat : <<x>> \in Seq(Nat)
    OBVIOUS
  <2>4. <<>> \in Seq(Nat)
    OBVIOUS
  <2>5. ASSUME NEW n \in Names PROVE f[n] \in Seq(Nat)
    <3>1. CASE f[n] = <<>>
      BY <2>4, <3>1
    <3>2. CASE records[n] # <<>> /\ f[n] \in {records[n], <<records[n][Len(records[n])]>>}
      BY <1>3, <2>2, <2>3, <3>2
    <3> QED BY <1>2, <3>1, <3>2
  <2> QED BY <2>1, <2>5
<1>5. f \in [Names -> Seq(Nat)]
  <2>1. f = [n \in Names |-> f[n]]
    BY <1>1 DEF Loaded
  <2> QED BY <1>4, <2>1
<1>6. ASSUME NEW n \in DOMAIN raw.layers \ unread, raw.layers[n].origin = "authored", records[n] # <<>>
      PROVE  /\ f[n] # <<>> /\ f[n][Len(f[n])] = records[n][Len(records[n])]
             /\ raw.layers[n].history => f[n] = records[n]
  <2>1. n \in Names /\ raw.layers[n].history \in BOOLEAN
    BY DEF Shaped, Tabled
  <2>2. n \in {o[i] : i \in DOMAIN o}
    BY DEF IsOrder, Listed, Nodes
  <2>3. f[n] = IF raw.layers[n].history THEN records[n] ELSE <<records[n][Len(records[n])]>>
    BY <1>1, <1>6, <2>1, <2>2 DEF Loaded, Recorded
  <2> QED BY <1>6, <2>1, <2>3
<1> QED BY <1>1, <1>5, <1>6

(* TyProject.open *)
LEMMA OpenStep == ConfigInv /\ Open => ConfigInv'
<1> SUFFICES ASSUME ConfigInv, Open PROVE ConfigInv'
  OBVIOUS
<1>0. Types /\ UNCHANGED <<committed, local, env, secrets, records, authored, edits>>
  BY DEF ConfigInv, Open, files
<1>1. PICK raw, error : /\ raw = Load
                        /\ error = IF LoadError # "none" THEN LoadError ELSE Validate(raw)
  OBVIOUS
<1>2. Load' = raw
  BY <1>0, <1>1, LoadStays DEF files
<1>3. Shaped(raw)
  BY <1>0, <1>1, LoadShapes
<1>4. CASE /\ outcome' \in IF error # "none" THEN {error}
                            ELSE {"FormatVersion" : n \in Recorded(raw, Kahn(raw))}
           /\ UNCHANGED <<plugins, status, config, order, notes, declared, reloaded, skipped>>
  <2>1. /\ (outcome' = error /\ error # "none") \/ outcome' = "FormatVersion"
        /\ UNCHANGED <<plugins, status, config, order, notes, declared, reloaded>>
    BY <1>4
  <2>2. ~Running'
    BY <2>1 DEF Open, Running
  <2>3. error = "Cycle" => Circular(raw)
    <3>1. LoadError \in {"UndefinedEnv", "Parse", "none"}
      BY DEF LoadError
    <3>2. error = "Cycle" => Validate(raw) = "Cycle"
      BY <1>1, <3>1
    <3> QED BY <1>3, <3>2, ValidateCycles DEF Shaped
  <2>4. Types'
    BY <1>0, <2>1 DEF Types
  <2>5. CycleInv'
    BY <1>2, <2>1, <2>3 DEF CycleInv
  <2> QED BY <2>2, <2>4, <2>5 DEF ConfigInv, SessionInv, NotesFollowLayers
<1>5. CASE /\ error = "none" /\ outcome' = "none" /\ status' = "opening"
           /\ plugins' \in Plugins
           /\ config' = raw /\ order' = Kahn(raw)
           /\ skipped' \in SUBSET Recorded(raw, Kahn(raw))
           /\ notes' = Loaded(raw, Kahn(raw), skipped')
           /\ declared' = DOMAIN raw.layers /\ reloaded' = FALSE
  <2>1. /\ outcome' = "none" /\ status' = "opening" /\ plugins' \in Plugins
        /\ config' = raw /\ order' = Kahn(raw) /\ notes' = Loaded(raw, Kahn(raw), skipped')
        /\ declared' = DOMAIN raw.layers /\ reloaded' = FALSE
    BY <1>5
  <2>2. LoadError = "none" /\ Validate(raw) = "none"
    BY <1>1, <1>5
  <2>3. LayersValid(raw) /\ RestValid(raw)
    BY <1>3, <2>2, ValidateAccepts DEF Shaped
  <2>4. ~Dangling(raw) /\ IsOrder(raw, Kahn(raw))
    BY <1>3, <2>3, KahnOrders DEF Shaped, LayersValid
  <2>5. \A g \in DOMAIN raw.generators :
            raw.generators[g].endpoint \notin {"ref"} \ {Value}
    BY <1>0, <1>1, LoadShapes
  <2>6. SessionInv'
    BY <1>0, <1>3, <2>1, <2>3, <2>4, <2>5 DEF SessionInv, Value
  <2>7. Types'
    <3>1. plugins' \in Seq(Specs)
      BY <2>1, ConfigAssumption DEF Specs
    <3>2. notes' \in [Names -> Seq(Nat)]
      BY <1>0, <1>3, <2>1, <2>4, LoadedNotes
    <3> QED BY <1>0, <3>1, <3>2 DEF Types
  <2>8. NotesFollowLayers'
    <3>1. PICK f : f = Loaded(raw, Kahn(raw), skipped')
      OBVIOUS
    <3>2. \A n \in DOMAIN raw.layers \ skipped' :
             raw.layers[n].origin = "authored" /\ records[n] # <<>> =>
                /\ f[n] # <<>> /\ f[n][Len(f[n])] = records[n][Len(records[n])]
                /\ raw.layers[n].history => f[n] = records[n]
      BY <1>0, <1>3, <2>4, <3>1, LoadedNotes
    <3> QED BY <1>0, <2>1, <3>1, <3>2 DEF NotesFollowLayers
  <2>9. CycleInv'
    BY <2>1 DEF CycleInv
  <2> QED BY <2>6, <2>7, <2>8, <2>9 DEF ConfigInv
<1> QED BY <1>1, <1>4, <1>5, Zenon DEF Open

(* register_authored_layer *)
LEMMA RegisterStep == ConfigInv /\ Register => ConfigInv'
<1> SUFFICES ASSUME ConfigInv, Register PROVE ConfigInv'
  OBVIOUS
<1>0. /\ Types /\ SessionInv /\ CycleInv /\ NotesFollowLayers
      /\ UNCHANGED <<committed, local, env, secrets, notes, records, declared, reloaded,
                     skipped, authored, edits>>
      /\ plugins # <<>> /\ Running
  BY DEF ConfigInv, Register, files, Running
<1>1. Load' = Load
  BY <1>0, LoadStays DEF files
<1>2. PICK spec : spec = Head(plugins)
  OBVIOUS
<1>3. spec \in Specs /\ Tail(plugins) \in Seq(Specs)
  BY <1>0, <1>2 DEF Types
<1>4. CASE Collides(spec.name)
  <2>1. /\ status' = "closed" /\ outcome' = "Collision" /\ plugins' = <<>>
        /\ UNCHANGED <<config, order>>
    BY <1>2, <1>4 DEF Register
  <2>2. Types'
    BY <1>0, <2>1 DEF Types
  <2>3. ~Running' /\ CycleInv'
    BY <2>1 DEF Running, CycleInv
  <2> QED BY <2>2, <2>3 DEF ConfigInv, SessionInv, NotesFollowLayers
<1>5. CASE ~Collides(spec.name)
  <2>1. plugins' = Tail(plugins) /\ UNCHANGED <<status, outcome>>
    BY <1>2, <1>5, Zenon DEF Register
  <2>2. Types' /\ CycleInv' /\ Running'
    <3>1. Types'
      BY <1>0, <1>3, <2>1 DEF Types
    <3>2. CycleInv'
      BY <1>0, <1>1, <2>1 DEF CycleInv
    <3> QED BY <1>0, <2>1, <3>1, <3>2 DEF Running
  <2>3. CASE spec.name \in DOMAIN config.layers
    <3>1. UNCHANGED <<config, order>>
      BY <1>2, <1>5, <2>3 DEF Register, Collides
    <3>2. SessionInv'
      BY <1>0, <3>1 DEF SessionInv, Value
    <3>3. NotesFollowLayers'
      BY <1>0, <2>1, <3>1 DEF NotesFollowLayers, Running
    <3> QED BY <2>2, <3>2, <3>3 DEF ConfigInv
  <2>4. CASE spec.name \notin DOMAIN config.layers
    <3>1. /\ config' = [config EXCEPT !.layers = Registered(@, spec)]
          /\ order' = Ordered(spec.name)
      BY <1>2, <1>5, <2>4 DEF Register
    <3>2. PICK new, p : new = config' /\ p = order'
      OBVIOUS
    <3>3. /\ Shaped(config) /\ ~Dangling(config) /\ IsOrder(config, order)
          /\ declared \subseteq DOMAIN config.layers
          /\ \A g \in DOMAIN config.generators :
                config.generators[g].endpoint \notin {"ref"} \ {Value}
          /\ Code \notin DOMAIN config.layers => LayersValid(config) /\ RestValid(config)
      BY <1>0 DEF SessionInv
    <3>4. Extended(config, new, spec)
      BY <1>3, <2>4, <3>1, <3>2, <3>3 DEF Extended
    <3>5. p = IF spec.name \in Listed(order) THEN order ELSE Append(order, spec.name)
      BY <3>1, <3>2 DEF Ordered, Listed
    <3>6. ~Dangling(new) /\ IsOrder(new, p)
      BY <3>3, <3>4, <3>5, ExtendedOrder
    <3>7. /\ DOMAIN new.layers = DOMAIN config.layers \cup {spec.name} /\ Shaped(new)
          /\ \A n \in DOMAIN config.layers : new.layers[n] = config.layers[n]
          /\ \A x \in Tables \ {"layers"} : new[x] = config[x]
      BY <3>4, ExtendedFacts
    <3>8. new.generators = config.generators
      BY <3>7 DEF Tables
    <3>9. Code \notin DOMAIN new.layers => LayersValid(new) /\ RestValid(new)
      <4> SUFFICES ASSUME Code \notin DOMAIN new.layers
                   PROVE  LayersValid(new) /\ RestValid(new)
        OBVIOUS
      <4>1. Code \notin DOMAIN config.layers /\ spec.name # Code
        BY <3>7
      <4> QED BY <3>3, <3>4, <4>1, ExtendedValid
    <3>10. SessionInv'
      BY <1>0, <3>2, <3>3, <3>6, <3>7, <3>8, <3>9 DEF SessionInv, Value
    <3>11. NotesFollowLayers'
      BY <1>0, <3>2, <3>3, <3>7 DEF NotesFollowLayers
    <3> QED BY <2>2, <3>10, <3>11 DEF ConfigInv
  <2> QED BY <2>3, <2>4
<1> QED BY <1>4, <1>5

(* author *)
LEMMA AuthorStep == ConfigInv /\ Author => ConfigInv'
<1> SUFFICES ASSUME ConfigInv, Author PROVE ConfigInv'
  OBVIOUS
<1>0. /\ Types /\ SessionInv /\ CycleInv /\ NotesFollowLayers /\ Running
      /\ UNCHANGED <<committed, local, env, secrets, plugins, status, outcome, config, order,
                     declared, reloaded, edits>>
      /\ authored' = authored + 1
  BY DEF ConfigInv, Author, files, Running
<1>1. PICK n \in DOMAIN config.layers :
         /\ LET put == IF config.layers[n].history THEN Append(notes[n], authored + 1)
                                                   ELSE <<authored + 1>>
            IN  notes' = [notes EXCEPT ![n] = put] /\ records' = [records EXCEPT ![n] = put]
         /\ skipped' = skipped \ {n}
  BY DEF Author
<1>2. PICK put : /\ put = IF config.layers[n].history THEN Append(notes[n], authored + 1)
                                                     ELSE <<authored + 1>>
                 /\ notes' = [notes EXCEPT ![n] = put] /\ records' = [records EXCEPT ![n] = put]
  BY <1>1
<1>3. n \in Names
  BY <1>0 DEF SessionInv, Shaped, Tabled
<1>4. put \in Seq(Nat) /\ put # <<>>
  <2>1. notes[n] \in Seq(Nat) /\ authored + 1 \in Nat
    BY <1>0, <1>3 DEF Types
  <2>2. Append(notes[n], authored + 1) \in Seq(Nat) /\ Append(notes[n], authored + 1) # <<>>
    BY <2>1
  <2>3. <<authored + 1>> \in Seq(Nat) /\ <<authored + 1>> # <<>>
    BY <2>1
  <2> QED BY <1>2, <2>2, <2>3
<1>5. Types'
  BY <1>0, <1>2, <1>3, <1>4 DEF Types
<1>6. Load' = Load
  BY <1>0, LoadStays DEF files
<1>7. SessionInv' /\ CycleInv'
  BY <1>0, <1>6 DEF SessionInv, CycleInv, Running, Value
<1>8. NotesFollowLayers'
  <2>1. /\ notes'[n] = put /\ records'[n] = put
        /\ \A m \in Names \ {n} : notes'[m] = notes[m] /\ records'[m] = records[m]
    BY <1>0, <1>2, <1>3 DEF Types
  <2>2. declared \subseteq Names
    BY <1>0 DEF SessionInv, Shaped, Tabled
  <2> QED BY <1>0, <1>1, <1>4, <2>1, <2>2 DEF NotesFollowLayers
<1> QED BY <1>5, <1>7, <1>8 DEF ConfigInv

(* The other steps. *)
LEMMA OtherSteps ==
    ASSUME ConfigInv, Start \/ Reload \/ Close \/ EditConfig \/ UNCHANGED vars
    PROVE  ConfigInv'
<1>0. Types /\ SessionInv /\ CycleInv /\ NotesFollowLayers
  BY DEF ConfigInv
<1>1. CASE Start
  <2>1. /\ Running /\ UNCHANGED <<committed, local, env, secrets, plugins, outcome, config,
                                 order, notes, records, declared, reloaded, skipped, authored, edits>>
    BY <1>1 DEF Start, files, Running
  <2>2. Load' = Load
    BY <2>1, LoadStays DEF files
  <2> QED BY <1>0, <2>1, <2>2 DEF ConfigInv, Types, SessionInv, CycleInv, NotesFollowLayers,
                                  Value
<1>2. CASE Reload
  <2>1. /\ UNCHANGED <<committed, local, env, secrets, plugins, status, outcome, config, order,
                       records, declared, skipped, authored, edits>>
        /\ notes' = NoNotes /\ reloaded'
    BY <1>2 DEF Reload, files
  <2>2. Load' = Load /\ NoNotes \in [Names -> Seq(Nat)]
    BY <2>1, LoadStays DEF files, NoNotes
  <2>3. Types' /\ SessionInv' /\ CycleInv'
    BY <1>0, <2>1, <2>2 DEF Types, SessionInv, CycleInv, Running, Value
  <2> QED BY <2>1, <2>3 DEF ConfigInv, NotesFollowLayers
<1>3. CASE Close
  <2>1. /\ UNCHANGED <<committed, local, env, secrets, plugins, outcome, config, order, notes,
                       records, declared, reloaded, skipped, authored, edits>>
        /\ ~Running'
    BY <1>3 DEF Close, files, Running
  <2>2. Load' = Load
    BY <2>1, LoadStays DEF files
  <2> QED BY <1>0, <2>1, <2>2 DEF ConfigInv, Types, SessionInv, CycleInv, NotesFollowLayers,
                                  Value
<1>4. CASE EditConfig
  <2>1. /\ UNCHANGED <<local, env, secrets, plugins, status, outcome, config, order, notes,
                       records, declared, reloaded, skipped, authored>>
        /\ committed' \in Edits /\ edits' = edits + 1
    BY <1>4 DEF EditConfig
  <2>2. WellFormed(committed')
    BY <2>1, ConfigAssumption
  <2>3. Types'
    BY <1>0, <2>1, <2>2 DEF Types
  <2>4. CycleInv'
    BY <1>0, <2>1 DEF Types, CycleInv
  <2> QED BY <1>0, <2>1, <2>3, <2>4 DEF ConfigInv, SessionInv, NotesFollowLayers, Running,
                                          Value
<1>5. CASE UNCHANGED vars
  <2>1. UNCHANGED <<committed, local, env, secrets, plugins, status, outcome, config, order,
                    notes, records, declared, reloaded, skipped, authored, edits>>
    BY <1>5 DEF vars, files
  <2>2. Load' = Load
    BY <2>1, LoadStays DEF files
  <2> QED BY <1>0, <2>1, <2>2 DEF ConfigInv, Types, SessionInv, CycleInv, NotesFollowLayers,
                                  Running, Value
<1> QED BY <1>1, <1>2, <1>3, <1>4, <1>5

(* In every session the configuration is in shape and valid up to the reserved name, its
   order is sound, and the notes of its declared layers are loaded. *)
THEOREM ConfigInvariant == Spec => []ConfigInv
<1>1. ConfigInv /\ [Next]_vars => ConfigInv'
  BY OpenStep, RegisterStep, AuthorStep, OtherSteps DEF Next
<1> QED BY <1>1, ConfigInit, PTL DEF Spec

(* topo_order and register_authored_layer: the order lists "code" and every layer once and
   after its dependencies, for every table that is accepted and any registrations; a cycle
   is reported only of layers that wait for each other. *)
THEOREM OrdersAreSound == Spec => []OrderSound
<1>1. ConfigInv => OrderSound
  BY DEF ConfigInv, SessionInv, CycleInv, IsOrder, Listed, OrderSound
<1> QED BY <1>1, ConfigInvariant, PTL

(* validate and register_authored_layer: a session's configuration would be accepted again,
   unless the reserved name was registered, and no string of it is an unexpanded reference,
   unless the variable brought one. *)
THEOREM ConfigurationsStayValid == Spec => []StaysValid
<1>1. ASSUME ConfigInv, Running PROVE StaysValid
  <2>1. Code \notin DOMAIN config.layers => Validate(config) = "none"
    BY <1>1, ValidateAccepts DEF ConfigInv, SessionInv, Shaped
  <2> QED BY <1>1, <2>1 DEF ConfigInv, SessionInv, StaysValid
<1>2. ConfigInv => StaysValid
  BY <1>1 DEF StaysValid
<1> QED BY <1>2, ConfigInvariant, PTL

(* load_authored_records: a session that declares an authored layer holds what was last
   authored in it, through any sequence of sessions, edits of config.toml and changes of a
   layer's flags, until it reloads, and unless the layer's file could not be read. *)
THEOREM DeclaredNotesAreLoaded == Spec => []NotesFollowLayers
<1>1. ConfigInv => NotesFollowLayers
  BY DEF ConfigInv
<1> QED BY <1>1, ConfigInvariant, PTL
=============================================================================
