--------------------------- MODULE IdentityProofs ---------------------------
(* Proofs about module Identity, for every number of slots and ids, every set of files and
   hashes.  The two loops of the reconciliation are recursive functions over the slots;
   what they compute is shown by induction, in the form of a set of numbers that holds
   zero and every successor: the library's well-foundedness theorem gives it. *)
EXTENDS Identity, FiniteSetTheorems, WellFoundedInduction, TLAPS

-----------------------------------------------------------------------------
(* Numbers. *)

(* A set of numbers has a least element. *)
LEMMA LeastNumber ==
    ASSUME NEW T, T \subseteq Nat, T # {}
    PROVE  \E x \in T : \A y \in T : x <= y
<1>1. PICK R : R = OpToRel(<, Nat)
  OBVIOUS
<1>2. IsWellFoundedOn(OpToRel(<, Nat), Nat)
  BY NatLessThanWellFounded
<1>3. \A x, y \in Nat : <<x, y>> \in R <=> x < y
  BY <1>1 DEF OpToRel
<1>4. PICK x \in T : \A y \in T : ~ (<<y, x>> \in R)
  BY <1>1, <1>2, WFMin
<1>5. ASSUME NEW y \in T PROVE x <= y
  <2>1. x \in Nat /\ y \in Nat
    OBVIOUS
  <2>2. ~(y < x)
    BY <1>3, <1>4, <2>1
  <2> QED BY <2>1, <2>2
<1> QED BY <1>5

(* Induction up to a bound, over the set of the numbers that have the property. *)
LEMMA Induction ==
    ASSUME NEW N \in Nat, NEW P, 0 \in P, \A n \in 1..N : n - 1 \in P => n \in P
    PROVE  \A n \in 0..N : n \in P
<1> SUFFICES ASSUME (0..N) \ P # {} PROVE FALSE
  OBVIOUS
<1>1. PICK x \in (0..N) \ P : \A y \in (0..N) \ P : x <= y
  <2>1. PICK T : T = (0..N) \ P
    OBVIOUS
  <2>2. T \subseteq Nat /\ T # {}
    BY <2>1
  <2> QED BY <2>1, <2>2, LeastNumber
<1>2. x # 0
  BY <1>1
<1>3. x \in 1..N /\ x - 1 \in 0..N /\ ~(x <= x - 1)
  BY <1>2
<1> QED BY <1>1, <1>3

(* Min and Max of FiniteSetsExt. *)
LEMMA MinIn ==
    ASSUME NEW T, T \subseteq Nat, T # {}
    PROVE  Min(T) \in T
BY LeastNumber DEF Min

(* The greatest of finitely many numbers is one of them. *)
LEMMA MaxIn ==
    ASSUME NEW T, NEW k \in Nat, T \subseteq 1..k, T # {}
    PROVE  Max(T) \in T
<1>1. PICK U : U = {n \in Nat : \E x \in T : n + x = k}
  OBVIOUS
<1>2. U # {} /\ U \subseteq Nat
  <2>1. PICK x \in T : TRUE
    OBVIOUS
  <2>2. k - x \in Nat /\ (k - x) + x = k
    OBVIOUS
  <2> QED BY <1>1, <2>1, <2>2
<1>3. PICK n \in U : \A m \in U : n <= m
  BY <1>2, LeastNumber
<1>4. PICK x \in T : n + x = k
  BY <1>1
<1>5. ASSUME NEW y \in T PROVE x >= y
  <2>1. k - y \in U
    <3>1. k - y \in Nat /\ (k - y) + y = k
      OBVIOUS
    <3> QED BY <1>1, <3>1
  <2>2. n <= k - y /\ n \in Nat /\ x \in Nat /\ y \in Nat
    BY <1>2, <1>3, <2>1
  <2> QED BY <1>4, <2>2
<1> QED BY <1>4, <1>5 DEF Max
-----------------------------------------------------------------------------
(* The two loops, unrolled. *)

(* What the loop of pass B has bound after n slots. *)
LEMMA MovedUnrolled ==
    ASSUME NEW A, NEW bp, NEW src, NEW scope
    PROVE  \E b : /\ DOMAIN b = 0..NSlots /\ b[0] = Exact(A, bp, src, scope)
                  /\ \A n \in 1..NSlots : b[n] = Take(A, bp, src, scope, n, b[n - 1])
                  /\ Moved(A, bp, src, scope) = b[NSlots]
<1> DEFINE X == Exact(A, bp, src, scope)
           G(n, v) == Take(A, bp, src, scope, n, v)
           F(m, f) == [n \in 0..m |-> IF n = 0 THEN X ELSE G(n, f[n - 1])]
           P == {m \in 0..NSlots : \E f : f = F(m, f)}
<1>0. NSlots \in Nat
  BY IdentityAssumption
<1>1. Moved(A, bp, src, scope) = (CHOOSE f : f = F(NSlots, f))[NSlots]
  BY Zenon DEF Moved
<1> HIDE DEF X, G
<1>2. 0 \in P
  <2>1. PICK f : f = [n \in 0..0 |-> X]
    OBVIOUS
  <2>2. f = F(0, f)
    BY <2>1
  <2> QED BY <1>0, <2>2
<1>3. ASSUME NEW m \in 1..NSlots, m - 1 \in P PROVE m \in P
  <2>1. PICK f : f = F(m - 1, f)
    BY <1>3
  <2>2. PICK g : g = [n \in 0..m |-> IF n = m THEN G(m, f[m - 1]) ELSE f[n]]
    OBVIOUS
  <2>3. DOMAIN f = 0..(m - 1) /\ DOMAIN g = 0..m
    BY <2>1, <2>2
  <2>4. ASSUME NEW n \in 0..m PROVE g[n] = IF n = 0 THEN X ELSE G(n, g[n - 1])
    <3>1. CASE n = m
      BY <1>0, <2>2, <3>1
    <3>2. CASE n # m
      <4>1. n \in 0..(m - 1) /\ g[n] = f[n]
        BY <1>0, <2>2, <3>2
      <4>2. f[n] = IF n = 0 THEN X ELSE G(n, f[n - 1])
        BY <2>1, <4>1
      <4>3. n # 0 => g[n - 1] = f[n - 1]
        BY <1>0, <2>2, <4>1
      <4> QED BY <4>1, <4>2, <4>3
    <3> QED BY <3>1, <3>2
  <2>5. g = F(m, g)
    BY <2>2, <2>3, <2>4
  <2> QED BY <1>0, <2>5
<1> HIDE DEF P
<1>4. NSlots \in P
  BY <1>0, <1>2, <1>3, Induction
<1>5. PICK b : b = CHOOSE f : f = F(NSlots, f)
  OBVIOUS
<1>6. b = F(NSlots, b)
  BY <1>4, <1>5 DEF P
<1>7. /\ DOMAIN b = 0..NSlots /\ b[0] = X /\ \A n \in 1..NSlots : b[n] = G(n, b[n - 1])
  BY <1>0, <1>6
<1> QED BY <1>1, <1>5, <1>7 DEF X, G

(* What the apply loop has indexed after n slots. *)
LEMMA ReindexedUnrolled ==
    ASSUME NEW A, NEW bp, NEW c
    PROVE  \E b : /\ DOMAIN b = 0..NSlots /\ b[0] = bp
                  /\ \A n \in 1..NSlots : b[n] = Rebind(A, c, n, b[n - 1])
                  /\ Reindexed(A, bp, c) = b[NSlots]
<1> DEFINE X == bp
           G(n, v) == Rebind(A, c, n, v)
           F(m, f) == [n \in 0..m |-> IF n = 0 THEN X ELSE G(n, f[n - 1])]
           P == {m \in 0..NSlots : \E f : f = F(m, f)}
<1>0. NSlots \in Nat
  BY IdentityAssumption
<1>1. Reindexed(A, bp, c) = (CHOOSE f : f = F(NSlots, f))[NSlots]
  BY Zenon DEF Reindexed
<1> HIDE DEF X, G
<1>2. 0 \in P
  <2>1. PICK f : f = [n \in 0..0 |-> X]
    OBVIOUS
  <2>2. f = F(0, f)
    BY <2>1
  <2> QED BY <1>0, <2>2
<1>3. ASSUME NEW m \in 1..NSlots, m - 1 \in P PROVE m \in P
  <2>1. PICK f : f = F(m - 1, f)
    BY <1>3
  <2>2. PICK g : g = [n \in 0..m |-> IF n = m THEN G(m, f[m - 1]) ELSE f[n]]
    OBVIOUS
  <2>3. DOMAIN f = 0..(m - 1) /\ DOMAIN g = 0..m
    BY <2>1, <2>2
  <2>4. ASSUME NEW n \in 0..m PROVE g[n] = IF n = 0 THEN X ELSE G(n, g[n - 1])
    <3>1. CASE n = m
      BY <1>0, <2>2, <3>1
    <3>2. CASE n # m
      <4>1. n \in 0..(m - 1) /\ g[n] = f[n]
        BY <1>0, <2>2, <3>2
      <4>2. f[n] = IF n = 0 THEN X ELSE G(n, f[n - 1])
        BY <2>1, <4>1
      <4>3. n # 0 => g[n - 1] = f[n - 1]
        BY <1>0, <2>2, <4>1
      <4> QED BY <4>1, <4>2, <4>3
    <3> QED BY <3>1, <3>2
  <2>5. g = F(m, g)
    BY <2>2, <2>3, <2>4
  <2> QED BY <1>0, <2>5
<1> HIDE DEF P
<1>4. NSlots \in P
  BY <1>0, <1>2, <1>3, Induction
<1>5. PICK b : b = CHOOSE f : f = F(NSlots, f)
  OBVIOUS
<1>6. b = F(NSlots, b)
  BY <1>4, <1>5 DEF P
<1>7. /\ DOMAIN b = 0..NSlots /\ b[0] = X /\ \A n \in 1..NSlots : b[n] = G(n, b[n - 1])
  BY <1>0, <1>6
<1> QED BY <1>1, <1>5, <1>7 DEF X, G
-----------------------------------------------------------------------------
(* The invariant. *)

(* A registry with the ids 1..k, each with an anchor. *)
Registry(A, k) == k \in Nat /\ DOMAIN A = 1..k /\ \A i \in 1..k : A[i] \in Anchor

(* An index that leads to anchors of its paths. *)
Indexes(A, bp) ==
    /\ bp \in [Slots -> Nat]
    /\ \A s \in Slots : bp[s] # NoId => bp[s] \in DOMAIN A /\ A[bp[s]].path = s

(* An anchor that is not orphaned. *)
IsLive(A, i) == i \in DOMAIN A /\ A[i].status # "orphaned"

(* The live anchors are those of the source. *)
Mirrors(A, src) ==
    /\ \A i \in DOMAIN A : IsLive(A, i) => src[A[i].path] = A[i].hash
    /\ \A i, j \in DOMAIN A : IsLive(A, i) /\ IsLive(A, j) /\ A[i].path = A[j].path => i = j
    /\ \A s \in Slots : src[s] # NoEntity => \E i \in DOMAIN A : IsLive(A, i) /\ A[i].path = s

(* An entity that is indexed is indexed under its live anchor; what was loaded for a slot
   without an entity may be an orphan. *)
LeadsToLive(A, bp, src) ==
    \A s \in Slots : bp[s] # NoId /\ src[s] # NoEntity => IsLive(A, bp[s])

(* A source: what each slot holds. *)
Sources == [Slots -> Hashes \cup {NoEntity}]

(* The inductive invariant: the ids are 1..k, so that a minted id is a new one. *)
IdentityInv ==
    /\ code \in Sources
    /\ \E k \in Nat : Registry(anchors, k)
    /\ Indexes(anchors, byPath)
    /\ Mirrors(anchors, code)
    /\ LeadsToLive(anchors, byPath, code)
-----------------------------------------------------------------------------
(* The passes bind entities to anchors, no anchor twice. *)

Binds(A, src, scope, b) ==
    /\ DOMAIN b \subseteq Entities(src, scope)
    /\ \A s \in DOMAIN b : b[s] \in InScope(A, scope)
    /\ \A s, t \in DOMAIN b : b[s] = b[t] => s = t

(* c binds what b binds. *)
Keeps(b, c) == DOMAIN b \subseteq DOMAIN c /\ \A s \in DOMAIN b : c[s] = b[s]

(* Pass A. *)
LEMMA ExactBinds ==
    ASSUME NEW A, NEW bp, NEW src, NEW scope, Indexes(A, bp)
    PROVE  Binds(A, src, scope, Exact(A, bp, src, scope))
<1>1. PICK b : b = Exact(A, bp, src, scope)
  OBVIOUS
<1>2. /\ DOMAIN b = {s \in Entities(src, scope) : bp[s] # NoId}
      /\ \A s \in DOMAIN b : b[s] = bp[s]
  BY <1>1 DEF Exact
<1>3. \A s \in DOMAIN b : s \in Slots /\ bp[s] \in DOMAIN A /\ A[bp[s]].path = s /\ FileOf[s] \in scope
  BY <1>2 DEF Indexes, Entities
<1> QED BY <1>1, <1>2, <1>3 DEF Binds, InScope

(* One more binding of an anchor that is free. *)
LEMMA BoundBinds ==
    ASSUME NEW A, NEW src, NEW scope, NEW b, Binds(A, src, scope, b),
           NEW s \in Entities(src, scope) \ DOMAIN b, NEW i \in InScope(A, scope) \ Range(b)
    PROVE  Binds(A, src, scope, Bound(b, s, i)) /\ Keeps(b, Bound(b, s, i))
<1>1. PICK c : c = Bound(b, s, i)
  OBVIOUS
<1>2. /\ DOMAIN c = DOMAIN b \cup {s} /\ c[s] = i /\ \A t \in DOMAIN b : c[t] = b[t]
  BY <1>1 DEF Bound
<1>3. \A t \in DOMAIN b : b[t] # i
  BY DEF Range
<1> QED BY <1>1, <1>2, <1>3 DEF Binds, Keeps

(* The candidates of pass B are ids in scope that are free. *)
LEMMA TakeBinds ==
    ASSUME NEW A, NEW k, Registry(A, k), NEW bp, NEW src, NEW scope, NEW b,
           Binds(A, src, scope, b), NEW s
    PROVE  /\ Binds(A, src, scope, Take(A, bp, src, scope, s, b))
           /\ Keeps(b, Take(A, bp, src, scope, s, b))
<1>1. PICK c : c = Candidates(A, bp, src, scope, s, b)
  OBVIOUS
<1>2. c \subseteq InScope(A, scope) \ Range(b)
  BY <1>1 DEF Candidates
<1>3. c \subseteq Nat
  BY <1>2 DEF InScope, Registry
<1>4. CASE s \in Entities(src, scope) \ DOMAIN b /\ c # {}
  <2>1. Min(c) \in InScope(A, scope) \ Range(b)
    BY <1>2, <1>3, <1>4, MinIn
  <2>2. Take(A, bp, src, scope, s, b) = Bound(b, s, Min(c))
    BY <1>1, <1>4 DEF Take
  <2> QED BY <1>4, <2>1, <2>2, BoundBinds
<1>5. CASE ~(s \in Entities(src, scope) \ DOMAIN b /\ c # {})
  <2>1. Take(A, bp, src, scope, s, b) = b
    BY <1>1, <1>5 DEF Take
  <2> QED BY <2>1 DEF Keeps
<1> QED BY <1>4, <1>5

(* Pass B. *)
LEMMA MovedBinds ==
    ASSUME NEW A, NEW k, Registry(A, k), NEW bp, NEW src, NEW scope, Indexes(A, bp)
    PROVE  /\ Binds(A, src, scope, Moved(A, bp, src, scope))
           /\ Keeps(Exact(A, bp, src, scope), Moved(A, bp, src, scope))
<1>0. NSlots \in Nat
  BY IdentityAssumption
<1>1. PICK x : x = Exact(A, bp, src, scope)
  OBVIOUS
<1>2. PICK b : /\ b[0] = x
               /\ \A n \in 1..NSlots : b[n] = Take(A, bp, src, scope, n, b[n - 1])
               /\ Moved(A, bp, src, scope) = b[NSlots]
  BY <1>1, MovedUnrolled
<1>3. PICK P : P = {n \in 0..NSlots : Binds(A, src, scope, b[n]) /\ Keeps(x, b[n])}
  OBVIOUS
<1>4. 0 \in P
  BY <1>0, <1>1, <1>2, <1>3, ExactBinds DEF Keeps
<1>5. ASSUME NEW n \in 1..NSlots, n - 1 \in P PROVE n \in P
  <2>1. Binds(A, src, scope, b[n - 1]) /\ Keeps(x, b[n - 1])
    BY <1>3, <1>5
  <2>2. Binds(A, src, scope, b[n]) /\ Keeps(b[n - 1], b[n])
    BY <1>2, <2>1, TakeBinds
  <2>3. Keeps(x, b[n])
    BY <2>1, <2>2 DEF Keeps
  <2> QED BY <1>0, <1>3, <2>2, <2>3
<1>6. NSlots \in P
  BY <1>0, <1>4, <1>5, Induction
<1> QED BY <1>1, <1>2, <1>3, <1>6

(* Pass C, joined with the passes before it. *)
LEMMA StructBinds ==
    ASSUME NEW A, NEW k, Registry(A, k), NEW src, NEW scope, NEW b, Binds(A, src, scope, b)
    PROVE  /\ Binds(A, src, scope, Join(b, Struct(A, src, scope, b)))
           /\ Keeps(b, Join(b, Struct(A, src, scope, b)))
<1> DEFINE same(s) == {i \in InScope(A, scope) \ Range(b) : A[i].path = s}
<1>1. PICK c : c = Struct(A, src, scope, b)
  OBVIOUS
<1>2. /\ DOMAIN c = {s \in (Entities(src, scope) \ DOMAIN b) \cap Nested : same(s) # {}}
      /\ \A s \in DOMAIN c : c[s] = Min(same(s))
  BY <1>1 DEF Struct
<1>3. ASSUME NEW s \in DOMAIN c PROVE c[s] \in same(s)
  <2>1. same(s) # {} /\ same(s) \subseteq Nat
    BY <1>2 DEF InScope, Registry
  <2> QED BY <1>2, <2>1, MinIn
<1>4. \A s \in DOMAIN c : /\ s \in Entities(src, scope) \ DOMAIN b
                          /\ c[s] \in InScope(A, scope) /\ A[c[s]].path = s
                          /\ \A t \in DOMAIN b : b[t] # c[s]
  BY <1>2, <1>3 DEF Range
<1> HIDE DEF same
<1>5. PICK j : j = Join(b, c)
  OBVIOUS
<1>6. /\ DOMAIN j = DOMAIN b \cup DOMAIN c /\ \A s \in DOMAIN b : j[s] = b[s]
      /\ \A s \in DOMAIN c : j[s] = c[s]
  BY <1>4, <1>5 DEF Join
<1>7. ASSUME NEW s \in DOMAIN j, NEW t \in DOMAIN j, j[s] = j[t] PROVE s = t
  BY <1>4, <1>6, <1>7 DEF Binds
<1>8. \A s \in DOMAIN j : s \in Entities(src, scope) /\ j[s] \in InScope(A, scope)
  BY <1>4, <1>6 DEF Binds
<1> QED BY <1>1, <1>5, <1>6, <1>7, <1>8 DEF Binds, Keeps

(* All of the entities, to anchors in scope or to ids that are new. *)
BindsAll(A, src, scope, b, m) ==
    /\ m \in Nat /\ DOMAIN A \cup Range(b) = 1..m
    /\ DOMAIN b = Entities(src, scope)
    /\ \A s \in DOMAIN b : b[s] \in InScope(A, scope) \/ b[s] \notin DOMAIN A
    /\ \A s, t \in DOMAIN b : b[s] = b[t] => s = t

(* Pass D. *)
LEMMA FreshBinds ==
    ASSUME NEW A, NEW k, Registry(A, k), NEW src, NEW scope, NEW known,
           Binds(A, src, scope, known),
           NEW fresh \in Minted(A, Entities(src, scope) \ DOMAIN known)
    PROVE  /\ Keeps(known, Join(known, fresh))
           /\ \E m \in Nat : BindsAll(A, src, scope, Join(known, fresh), m)
<1>1. PICK left, b, n : /\ left = Entities(src, scope) \ DOMAIN known
                        /\ b = Join(known, fresh) /\ n = Cardinality(left)
  OBVIOUS
<1>2. IsFiniteSet(left) /\ n \in Nat
  <2>1. NSlots \in Nat /\ left \subseteq 1..NSlots
    BY <1>1, IdentityAssumption DEF Entities, Slots
  <2>2. IsFiniteSet(1..NSlots)
    BY <2>1, FS_Interval
  <2>3. IsFiniteSet(left)
    BY <2>1, <2>2, FS_Subset
  <2> QED BY <1>1, <2>3, FS_CardinalityType
<1>3. k \in Nat /\ DOMAIN A = 1..k /\ Cardinality(DOMAIN A) = k
  <2>1. k \in Nat /\ DOMAIN A = 1..k
    BY DEF Registry
  <2>2. Cardinality(1..k) = k
    BY <2>1, FS_Interval
  <2> QED BY <2>1, <2>2
<1>4. fresh \in [left -> (k + 1)..(k + n)] /\ \A s, t \in left : fresh[s] = fresh[t] => s = t
  BY <1>1, <1>3 DEF Minted
<1>5. \A i \in (k + 1)..(k + n) : \E s \in left : fresh[s] = i
  <2>1. PICK T : T = (k + 1)..(k + n)
    OBVIOUS
  <2>2. IsFiniteSet(T) /\ Cardinality(T) = n
    <3>1. k + 1 \in Int /\ k + n \in Int
      BY <1>2, <1>3
    <3>2. IsFiniteSet((k + 1)..(k + n))
          /\ Cardinality((k + 1)..(k + n)) = IF k + 1 > k + n THEN 0 ELSE (k + n) - (k + 1) + 1
      BY <3>1, FS_Interval
    <3> QED BY <1>2, <1>3, <2>1, <3>2
  <2>3. fresh \in Injection(left, T)
    BY <1>4, <2>1 DEF Injection, IsInjective
  <2>4. fresh \in Surjection(left, T)
    BY <1>1, <2>2, <2>3, FS_Injection
  <2> QED BY <2>1, <2>4 DEF Surjection
<1>6. /\ DOMAIN b = Entities(src, scope) /\ DOMAIN known \cap left = {}
      /\ \A s \in DOMAIN known : b[s] = known[s]
      /\ \A s \in left : b[s] = fresh[s]
  BY <1>1, <1>4 DEF Join, Binds
<1>7. \A s \in DOMAIN b : s \in DOMAIN known \/ s \in left
  BY <1>1, <1>6
<1>8. \A s \in DOMAIN known : b[s] \in InScope(A, scope) /\ b[s] \in 1..k
  BY <1>3, <1>6 DEF Binds, InScope
<1>9. \A s \in left : b[s] \in (k + 1)..(k + n) /\ b[s] \notin 1..k
  BY <1>2, <1>3, <1>4, <1>6
<1>10. \A s, t \in DOMAIN b : b[s] = b[t] => s = t
  BY <1>4, <1>6, <1>7, <1>8, <1>9 DEF Binds
<1>11. DOMAIN A \cup Range(b) = 1..(k + n)
  <2>1. ASSUME NEW i \in 1..(k + n) PROVE i \in 1..k \/ \E s \in DOMAIN b : b[s] = i
    <3>1. CASE i \in (k + 1)..(k + n)
      BY <1>1, <1>5, <1>6, <3>1
    <3>2. CASE i \notin (k + 1)..(k + n)
      BY <1>2, <1>3, <3>2
    <3> QED BY <3>1, <3>2
  <2>2. \A i \in 1..k : i \in 1..(k + n)
    BY <1>2, <1>3
  <2>3. \A i \in (k + 1)..(k + n) : i \in 1..(k + n)
    BY <1>2, <1>3
  <2> QED BY <1>3, <1>7, <1>8, <1>9, <2>1, <2>2, <2>3 DEF Range
<1>12. k + n \in Nat
  BY <1>2, <1>3
<1>13. BindsAll(A, src, scope, b, k + n)
  BY <1>3, <1>6, <1>7, <1>8, <1>9, <1>10, <1>11, <1>12 DEF BindsAll
<1>14. Keeps(known, b)
  BY <1>6 DEF Keeps, Binds
<1> QED BY <1>1, <1>12, <1>13, <1>14

(* What a reconciliation does, from the binding its passes make. *)
Outcome(A, bp, src, scope, b, m, review) ==
    /\ BindsAll(A, src, scope, b, m) /\ Keeps(Moved(A, bp, src, scope), b)
    /\ anchors' = Rebound(A, src, b, review, Vanished(A, scope, b))
    /\ byPath' = [s \in Slots |-> IF \E i \in Vanished(A, scope, b) : A[i].path = s
                                  THEN NoId ELSE Reindexed(A, bp, b)[s]]

(* Every reconciliation is of this form. *)
LEMMA ReconcileOutcome ==
    ASSUME NEW A, NEW k, Registry(A, k), NEW bp, NEW src, NEW scope, Indexes(A, bp),
           Reconcile(A, bp, src, scope)
    PROVE  \E b, m, review : Outcome(A, bp, src, scope, b, m, review)
<1>1. PICK moved, struct, known, left, review :
         /\ moved = Moved(A, bp, src, scope)
         /\ struct = Struct(A, src, scope, moved)
         /\ known = Join(moved, struct) /\ left = Entities(src, scope) \ DOMAIN known
         /\ review = Review(A, src, Exact(A, bp, src, scope), struct)
  OBVIOUS
<1>2. PICK fresh \in Minted(A, left) :
         /\ anchors' = Rebound(A, src, Join(known, fresh), review,
                               Vanished(A, scope, Join(known, fresh)))
         /\ byPath' = [s \in Slots |->
                         IF \E i \in Vanished(A, scope, Join(known, fresh)) : A[i].path = s
                         THEN NoId ELSE Reindexed(A, bp, Join(known, fresh))[s]]
  BY <1>1, Zenon DEF Reconcile
<1>3. PICK b : b = Join(known, fresh)
  OBVIOUS
<1>4. Binds(A, src, scope, known) /\ Keeps(moved, known)
  BY <1>1, MovedBinds, StructBinds
<1>5. Keeps(known, b) /\ \E m \in Nat : BindsAll(A, src, scope, b, m)
  BY <1>1, <1>2, <1>3, <1>4, FreshBinds
<1>6. Keeps(moved, b)
  BY <1>4, <1>5 DEF Keeps
<1> QED BY <1>1, <1>2, <1>3, <1>5, <1>6, Zenon DEF Outcome

(* by_id after a reconciliation: bound anchors are live for their entities, the others in
   scope are orphans where they were, and nothing else has changed. *)
Restated(A, src, scope, b, R) ==
    /\ DOMAIN R = DOMAIN A \cup Range(b)
    /\ \A s \in DOMAIN b :
          R[b[s]].path = s /\ R[b[s]].hash = src[s] /\ R[b[s]].status \in {"active", "review"}
    /\ \A i \in DOMAIN A \ Range(b) :
          /\ R[i].path = A[i].path /\ R[i].hash = A[i].hash
          /\ R[i].status = IF i \in InScope(A, scope) THEN "orphaned" ELSE A[i].status

(* The apply loop and the retirements leave by_id so, with the ids 1..m. *)
LEMMA ReboundRestates ==
    ASSUME NEW A, NEW k, Registry(A, k), NEW src \in Sources, NEW scope, NEW b, NEW m,
           BindsAll(A, src, scope, b, m), NEW review
    PROVE  LET R == Rebound(A, src, b, review, Vanished(A, scope, b))
           IN  Restated(A, src, scope, b, R) /\ Registry(R, m)
<1>1. PICK gone, R : gone = Vanished(A, scope, b) /\ R = Rebound(A, src, b, review, gone)
  OBVIOUS
<1>2. DOMAIN R = DOMAIN A \cup Range(b)
  BY <1>1 DEF Rebound
<1>3. ASSUME NEW s \in DOMAIN b
      PROVE  /\ R[b[s]].path = s /\ R[b[s]].hash = src[s] /\ R[b[s]].status \in {"active", "review"}
             /\ R[b[s]] \in Anchor
  <2>1. b[s] \in Range(b)
    BY DEF Range
  <2>2. PICK t : t = CHOOSE x \in DOMAIN b : b[x] = b[s]
    OBVIOUS
  <2>3. t = s
    <3>1. t \in DOMAIN b /\ b[t] = b[s]
      BY <2>2
    <3> QED BY <3>1 DEF BindsAll
  <2>4. R[b[s]] = [path |-> t, hash |-> src[t],
                   status |-> IF b[s] \in review THEN "review" ELSE "active"]
    BY <1>1, <2>1, <2>2 DEF Rebound
  <2>5. s \in Slots /\ src[s] \in Hashes
    BY DEF BindsAll, Entities, Sources
  <2>6. PICK st : st = IF b[s] \in review THEN "review" ELSE "active"
    OBVIOUS
  <2>7. st \in {"active", "review"} /\ R[b[s]] = [path |-> s, hash |-> src[s], status |-> st]
    BY <2>3, <2>4, <2>6
  <2> QED BY <2>5, <2>7 DEF Anchor, Statuses
<1>4. ASSUME NEW i \in DOMAIN A \ Range(b)
      PROVE  /\ R[i].path = A[i].path /\ R[i].hash = A[i].hash /\ R[i] \in Anchor
             /\ R[i].status = IF i \in InScope(A, scope) THEN "orphaned" ELSE A[i].status
  <2>1. A[i] \in Anchor
    BY DEF Registry
  <2>2. R[i] = IF i \in gone THEN Retired(A[i]) ELSE A[i]
    BY <1>1 DEF Rebound
  <2>3. i \in gone <=> i \in InScope(A, scope) /\ A[i].status # "orphaned"
    BY <1>1 DEF Vanished
  <2>4. CASE i \in gone
    BY <2>1, <2>2, <2>3, <2>4 DEF Retired, Anchor, Statuses
  <2>5. CASE i \notin gone
    BY <2>1, <2>2, <2>3, <2>5
  <2> QED BY <2>4, <2>5
<1>5. \A i \in DOMAIN R : R[i] \in Anchor
  BY <1>2, <1>3, <1>4 DEF Range
<1> QED BY <1>1, <1>2, <1>3, <1>4, <1>5 DEF Restated, Registry, BindsAll

(* The index after the apply loop: an entry is the entity bound there, or the one it was,
   which no other entity has been bound to. *)
Reindexes(bp, b, n, idx) ==
    /\ DOMAIN idx = Slots
    /\ \A s \in Slots :
          \/ idx[s] = NoId
          \/ s \in DOMAIN b /\ idx[s] = b[s]
          \/ /\ idx[s] = bp[s] /\ bp[s] # NoId
             /\ \A t \in DOMAIN b : t <= n /\ t # s => b[t] # bp[s]

(* By induction over the slots: the apply loop leaves the index so. *)
LEMMA ReindexedSays ==
    ASSUME NEW A, NEW k, Registry(A, k), NEW bp, Indexes(A, bp), NEW b, DOMAIN b \subseteq Slots
    PROVE  Reindexes(bp, b, NSlots, Reindexed(A, bp, b))
<1>0. NSlots \in Nat /\ Slots = 1..NSlots
  BY IdentityAssumption DEF Slots
<1>1. PICK p : /\ p[0] = bp /\ \A n \in 1..NSlots : p[n] = Rebind(A, b, n, p[n - 1])
               /\ Reindexed(A, bp, b) = p[NSlots]
  BY ReindexedUnrolled
<1>2. PICK P : P = {n \in 0..NSlots : Reindexes(bp, b, n, p[n])}
  OBVIOUS
<1>3. 0 \in P
  <2>1. DOMAIN bp = Slots /\ \A t \in DOMAIN b : ~(t <= 0)
    BY <1>0 DEF Indexes
  <2>2. Reindexes(bp, b, 0, bp)
    BY <2>1 DEF Reindexes
  <2> QED BY <1>0, <1>1, <1>2, <2>2
<1>4. ASSUME NEW n \in 1..NSlots, n - 1 \in P PROVE n \in P
  <2>1. PICK prev, idx : prev = p[n - 1] /\ idx = p[n]
    OBVIOUS
  <2>2. Reindexes(bp, b, n - 1, prev) /\ idx = Rebind(A, b, n, prev)
    BY <1>1, <1>2, <1>4, <2>1
  <2>3. \A t \in DOMAIN b : t <= n => t <= n - 1 \/ t = n
    BY <1>0
  <2>4. CASE n \notin DOMAIN b
    <3>1. idx = prev
      BY <2>2, <2>4 DEF Rebind
    <3>2. Reindexes(bp, b, n, idx)
      BY <2>2, <2>3, <2>4, <3>1 DEF Reindexes
    <3> QED BY <1>0, <1>2, <2>1, <3>2
  <2>5. CASE n \in DOMAIN b
    <3>1. DOMAIN idx = Slots
      BY <2>2, <2>5 DEF Rebind
    <3>2. ASSUME NEW s \in Slots
          PROVE  \/ idx[s] = NoId
                 \/ s \in DOMAIN b /\ idx[s] = b[s]
                 \/ /\ idx[s] = bp[s] /\ bp[s] # NoId
                    /\ \A t \in DOMAIN b : t <= n /\ t # s => b[t] # bp[s]
      <4>1. CASE s = n
        BY <2>2, <2>5, <4>1 DEF Rebind
      <4>2. CASE s # n /\ b[n] \in DOMAIN A /\ A[b[n]].path = s
        BY <2>2, <2>5, <4>2 DEF Rebind
      <4>3. CASE s # n /\ ~(b[n] \in DOMAIN A /\ A[b[n]].path = s)
        <5>1. idx[s] = prev[s]
          BY <2>2, <2>5, <4>3 DEF Rebind
        <5>2. bp[s] # NoId => b[n] # bp[s]
          BY <4>3 DEF Indexes
        <5> QED BY <2>2, <2>3, <5>1, <5>2 DEF Reindexes
      <4> QED BY <4>1, <4>2, <4>3
    <3>3. Reindexes(bp, b, n, idx)
      BY <3>1, <3>2 DEF Reindexes
    <3> QED BY <1>0, <1>2, <2>1, <3>3
  <2> QED BY <2>4, <2>5
<1>5. NSlots \in P
  BY <1>0, <1>3, <1>4, Induction
<1> QED BY <1>1, <1>2, <1>5
-----------------------------------------------------------------------------
(* A reconciliation keeps the invariant. *)

(* What a reconciliation starts from: the registry mirrors the source before it, and
   outside its scope nothing has changed and the index leads to live anchors. *)
Ready(A, bp, old, src, scope) ==
    /\ old \in Sources /\ src \in Sources
    /\ Indexes(A, bp) /\ Mirrors(A, old)
    /\ \A s \in Slots : FileOf[s] \notin scope =>
          src[s] = old[s] /\ (bp[s] # NoId /\ old[s] # NoEntity => IsLive(A, bp[s]))

(* The facts about one outcome that the properties rest on. *)
LEMMA OutcomeSays ==
    ASSUME NEW A, NEW k, Registry(A, k), NEW bp, NEW old, NEW src, NEW scope,
           Ready(A, bp, old, src, scope), NEW b, NEW m, NEW review,
           Outcome(A, bp, src, scope, b, m, review)
    PROVE  /\ Registry(anchors', m) /\ Restated(A, src, scope, b, anchors')
           /\ Keeps(Exact(A, bp, src, scope), b)
           /\ byPath' \in [Slots -> Nat]
           /\ \A s \in Slots : byPath'[s] # NoId =>
                 \/ s \in DOMAIN b /\ byPath'[s] = b[s]
                 \/ /\ byPath'[s] = bp[s] /\ bp[s] \in DOMAIN A /\ A[bp[s]].path = s
                    /\ \A t \in DOMAIN b : t # s => b[t] # bp[s]
<1>1. src \in Sources /\ Indexes(A, bp) /\ BindsAll(A, src, scope, b, m)
  BY DEF Ready, Outcome
<1>2. Registry(anchors', m) /\ Restated(A, src, scope, b, anchors')
  BY <1>1, ReboundRestates DEF Outcome
<1>3. Keeps(Exact(A, bp, src, scope), b)
  <2>1. Keeps(Exact(A, bp, src, scope), Moved(A, bp, src, scope))
    BY <1>1, MovedBinds
  <2> QED BY <2>1 DEF Keeps, Outcome
<1>4. DOMAIN b \subseteq Slots /\ \A t \in DOMAIN b : t <= NSlots
  BY <1>1, IdentityAssumption DEF BindsAll, Entities, Slots
<1>5. PICK idx : idx = Reindexed(A, bp, b)
  OBVIOUS
<1>6. Reindexes(bp, b, NSlots, idx)
  BY <1>1, <1>4, <1>5, ReindexedSays
<1>7. DOMAIN byPath' = Slots /\ \A s \in Slots : byPath'[s] = NoId \/ byPath'[s] = idx[s]
  BY <1>5 DEF Outcome
<1>8. byPath' = [s \in Slots |-> byPath'[s]]
  BY DEF Outcome
<1>9. \A s \in DOMAIN b : b[s] \in Nat
  BY <1>1 DEF BindsAll, Range
<1>10. \A s \in Slots : byPath'[s] \in Nat
  BY <1>1, <1>6, <1>7, <1>9 DEF Reindexes, Indexes, NoId
<1>11. ASSUME NEW s \in Slots, byPath'[s] # NoId
       PROVE  \/ s \in DOMAIN b /\ byPath'[s] = b[s]
              \/ /\ byPath'[s] = bp[s] /\ bp[s] \in DOMAIN A /\ A[bp[s]].path = s
                 /\ \A t \in DOMAIN b : t # s => b[t] # bp[s]
  <2>1. byPath'[s] = idx[s]
    BY <1>7, <1>11
  <2>2. bp[s] # NoId => bp[s] \in DOMAIN A /\ A[bp[s]].path = s
    BY <1>1 DEF Indexes
  <2> QED BY <1>4, <1>6, <1>11, <2>1, <2>2 DEF Reindexes
<1> QED BY <1>2, <1>3, <1>8, <1>10, <1>11

(* A reconciliation restores what the invariant says, for the new source. *)
LEMMA OutcomeKeeps ==
    ASSUME NEW A, NEW k, Registry(A, k), NEW bp, NEW old, NEW src, NEW scope,
           Ready(A, bp, old, src, scope), NEW b, NEW m, NEW review,
           Outcome(A, bp, src, scope, b, m, review)
    PROVE  /\ \E n \in Nat : Registry(anchors', n)
           /\ Indexes(anchors', byPath')
           /\ Mirrors(anchors', src)
           /\ LeadsToLive(anchors', byPath', src)
<1>1. PICK R, X : R = anchors' /\ X = byPath'
  OBVIOUS
<1>2. /\ Registry(R, m) /\ Restated(A, src, scope, b, R) /\ Keeps(Exact(A, bp, src, scope), b)
      /\ X \in [Slots -> Nat]
      /\ \A s \in Slots : X[s] # NoId =>
            \/ s \in DOMAIN b /\ X[s] = b[s]
            \/ /\ X[s] = bp[s] /\ bp[s] \in DOMAIN A /\ A[bp[s]].path = s
               /\ \A t \in DOMAIN b : t # s => b[t] # bp[s]
  BY <1>1, OutcomeSays
<1>3. BindsAll(A, src, scope, b, m)
  BY DEF Outcome
<1>4. \A s \in DOMAIN b : /\ s \in Slots /\ FileOf[s] \in scope /\ src[s] # NoEntity
                          /\ b[s] \in DOMAIN R /\ IsLive(R, b[s])
                          /\ R[b[s]].path = s /\ R[b[s]].hash = src[s]
  BY <1>2, <1>3 DEF BindsAll, Entities, Restated, Range, IsLive
<1>5. \A s \in Slots : FileOf[s] \in scope /\ src[s] # NoEntity => s \in DOMAIN b
  BY <1>3 DEF BindsAll, Entities
<1>6. \A i \in DOMAIN R : (\E s \in DOMAIN b : b[s] = i) \/ i \in DOMAIN A \ Range(b)
  BY <1>2 DEF Restated, Range
<1>7. \A i \in DOMAIN A : A[i].path \in Slots
  BY DEF Registry, Anchor
<1>8. ASSUME NEW i \in DOMAIN A \ Range(b)
      PROVE  /\ i \in DOMAIN R /\ R[i].path = A[i].path /\ R[i].hash = A[i].hash
             /\ IsLive(R, i) <=> IsLive(A, i) /\ FileOf[A[i].path] \notin scope
  BY <1>2 DEF Restated, IsLive, InScope
<1>9. ASSUME NEW i \in DOMAIN A, FileOf[A[i].path] \notin scope PROVE i \notin Range(b)
  BY <1>3, <1>9 DEF BindsAll, InScope, Range
<1>10. Mirrors(R, src)
  <2>1. ASSUME NEW i \in DOMAIN R, IsLive(R, i) PROVE src[R[i].path] = R[i].hash
    <3>1. CASE \E s \in DOMAIN b : b[s] = i
      BY <1>4, <3>1
    <3>2. CASE i \in DOMAIN A \ Range(b)
      BY <1>7, <1>8, <2>1, <3>2 DEF Ready, Mirrors
    <3> QED BY <1>6, <3>1, <3>2
  <2>2. ASSUME NEW i \in DOMAIN R, NEW j \in DOMAIN R, IsLive(R, i), IsLive(R, j),
               R[i].path = R[j].path
        PROVE  i = j
    <3>1. CASE (\E s \in DOMAIN b : b[s] = i) /\ (\E s \in DOMAIN b : b[s] = j)
      BY <1>4, <2>2, <3>1
    <3>2. CASE (\E s \in DOMAIN b : b[s] = i) /\ j \in DOMAIN A \ Range(b)
      BY <1>4, <1>8, <2>2, <3>2
    <3>3. CASE i \in DOMAIN A \ Range(b) /\ (\E s \in DOMAIN b : b[s] = j)
      BY <1>4, <1>8, <2>2, <3>3
    <3>4. CASE i \in DOMAIN A \ Range(b) /\ j \in DOMAIN A \ Range(b)
      BY <1>8, <2>2, <3>4 DEF Ready, Mirrors
    <3> QED BY <1>6, <3>1, <3>2, <3>3, <3>4
  <2>3. ASSUME NEW s \in Slots, src[s] # NoEntity PROVE \E i \in DOMAIN R : IsLive(R, i) /\ R[i].path = s
    <3>1. CASE FileOf[s] \in scope
      BY <1>4, <1>5, <2>3, <3>1
    <3>2. CASE FileOf[s] \notin scope
      <4>1. PICK i \in DOMAIN A : IsLive(A, i) /\ A[i].path = s
        BY <2>3, <3>2 DEF Ready, Mirrors
      <4> QED BY <1>8, <1>9, <3>2, <4>1
    <3> QED BY <3>1, <3>2
  <2> QED BY <2>1, <2>2, <2>3 DEF Mirrors
<1>11. Indexes(R, X)
  <2>1. ASSUME NEW s \in Slots, X[s] # NoId PROVE X[s] \in DOMAIN R /\ R[X[s]].path = s
    <3>1. CASE s \in DOMAIN b /\ X[s] = b[s]
      BY <1>4, <3>1
    <3>2. CASE /\ X[s] = bp[s] /\ bp[s] \in DOMAIN A /\ A[bp[s]].path = s
               /\ \A t \in DOMAIN b : t # s => b[t] # bp[s]
      <4>1. CASE bp[s] \in Range(b)
        BY <1>4, <3>2, <4>1 DEF Range
      <4>2. CASE bp[s] \notin Range(b)
        BY <1>8, <3>2, <4>2
      <4> QED BY <4>1, <4>2
    <3> QED BY <1>2, <2>1, <3>1, <3>2
  <2> QED BY <1>2, <2>1 DEF Indexes
<1>12. LeadsToLive(R, X, src)
  <2> SUFFICES ASSUME NEW s \in Slots, X[s] # NoId, src[s] # NoEntity PROVE IsLive(R, X[s])
    BY DEF LeadsToLive
  <2>1. CASE s \in DOMAIN b /\ X[s] = b[s]
    BY <1>4, <2>1
  <2>2. CASE X[s] = bp[s] /\ bp[s] \in DOMAIN A /\ A[bp[s]].path = s
    <3>1. CASE FileOf[s] \in scope
      <4>1. s \in DOMAIN Exact(A, bp, src, scope) /\ Exact(A, bp, src, scope)[s] = bp[s]
        BY <2>2, <3>1 DEF Exact, Entities
      <4>2. s \in DOMAIN b /\ b[s] = bp[s]
        BY <1>2, <4>1 DEF Keeps
      <4> QED BY <1>4, <2>2, <4>2
    <3>2. CASE FileOf[s] \notin scope
      <4>1. IsLive(A, bp[s]) /\ bp[s] \notin Range(b)
        BY <1>9, <2>2, <3>2 DEF Ready
      <4> QED BY <1>8, <2>2, <3>2, <4>1
    <3> QED BY <3>1, <3>2
  <2> QED BY <1>2, <2>1, <2>2
<1> QED BY <1>1, <1>2, <1>10, <1>11, <1>12 DEF Registry

(* from_json indexes each path under one of its anchors. *)
LEMMA LoadedIndexes ==
    ASSUME NEW A, NEW k, Registry(A, k)
    PROVE  Indexes(A, Loaded(A))
<1>1. ASSUME NEW s \in Slots
      PROVE  Loaded(A)[s] \in Nat /\ (Loaded(A)[s] # NoId => Loaded(A)[s] \in DOMAIN A /\ A[Loaded(A)[s]].path = s)
  <2>1. PICK at : at = {i \in DOMAIN A : A[i].path = s}
    OBVIOUS
  <2>2. Loaded(A)[s] = IF at = {} THEN NoId ELSE Max(at)
    BY <2>1 DEF Loaded
  <2>3. at # {} => Max(at) \in at /\ Max(at) \in Nat
    <3>1. k \in Nat /\ at \subseteq 1..k
      BY <2>1 DEF Registry
    <3>2. at # {} => Max(at) \in at
      BY <3>1, MaxIn
    <3>3. \A i \in 1..k : i \in Nat
      BY <3>1
    <3> QED BY <3>1, <3>2, <3>3
  <2> QED BY <2>1, <2>2, <2>3 DEF NoId
<1>2. Loaded(A) = [s \in Slots |-> Loaded(A)[s]]
  BY DEF Loaded
<1> QED BY <1>1, <1>2 DEF Indexes

(* Every step is the outcome of a reconciliation: a commit's over the index in memory, a
   restart's over the one that was loaded and all of the source. *)
LEMMA StepOutcome ==
    ASSUME IdentityInv, Next
    PROVE  \E k, bp, src, scope, b, m, review :
              /\ Registry(anchors, k) /\ Ready(anchors, bp, code, src, scope)
              /\ Outcome(anchors, bp, src, scope, b, m, review) /\ code' = src
              /\ code' # code => bp = byPath
<1>1. PICK k : Registry(anchors, k)
  BY DEF IdentityInv
<1>2. CASE Commit
  <2>1. PICK scope \in SUBSET Files, src \in [Slots -> Hashes \cup {NoEntity}] :
           /\ \A s \in Slots : FileOf[s] \notin scope => src[s] = code[s]
           /\ code' = src /\ Reconcile(anchors, byPath, src, scope)
    BY <1>2 DEF Commit
  <2>2. Ready(anchors, byPath, code, src, scope)
    BY <2>1 DEF IdentityInv, Ready, Sources, LeadsToLive
  <2>3. \E b, m, review : Outcome(anchors, byPath, src, scope, b, m, review)
    BY <1>1, <2>1, ReconcileOutcome DEF IdentityInv
  <2> QED BY <1>1, <2>1, <2>2, <2>3
<1>3. CASE Restart
  <2>1. code' = code /\ Reconcile(anchors, Loaded(anchors), code, Files)
    BY <1>3 DEF Restart
  <2>2. Indexes(anchors, Loaded(anchors))
    BY <1>1, LoadedIndexes
  <2>3. \A s \in Slots : FileOf[s] \in Files
    BY IdentityAssumption
  <2>4. Ready(anchors, Loaded(anchors), code, code, Files)
    BY <2>2, <2>3 DEF IdentityInv, Ready
  <2>5. \E b, m, review : Outcome(anchors, Loaded(anchors), code, Files, b, m, review)
    BY <1>1, <2>1, <2>2, ReconcileOutcome
  <2> QED BY <1>1, <2>1, <2>4, <2>5
<1> QED BY <1>2, <1>3 DEF Next

(* Initially nothing is known. *)
LEMMA IdentityInit == Init => IdentityInv
<1> SUFFICES ASSUME Init PROVE IdentityInv
  OBVIOUS
<1>1. DOMAIN anchors = {} /\ code \in Sources /\ byPath \in [Slots -> Nat]
      /\ (\A s \in Slots : code[s] = NoEntity /\ byPath[s] = NoId)
  BY DEF Init, Sources, NoId
<1>2. Registry(anchors, 0)
  BY <1>1 DEF Registry
<1> QED BY <1>1, <1>2 DEF IdentityInv, Indexes, Mirrors, LeadsToLive

(* The invariant is inductive. *)
LEMMA IdentityStep ==
    ASSUME IdentityInv, [Next]_vars
    PROVE  IdentityInv'
<1>1. CASE Next
  <2>1. PICK k, bp, src, scope, b, m, review :
           /\ Registry(anchors, k) /\ Ready(anchors, bp, code, src, scope)
           /\ Outcome(anchors, bp, src, scope, b, m, review) /\ code' = src
    BY <1>1, StepOutcome
  <2>2. /\ \E n \in Nat : Registry(anchors', n)
        /\ Indexes(anchors', byPath') /\ Mirrors(anchors', src)
        /\ LeadsToLive(anchors', byPath', src)
    BY <2>1, OutcomeKeeps
  <2> QED BY <2>1, <2>2 DEF IdentityInv, Ready
<1>2. CASE UNCHANGED vars
  BY <1>2 DEF vars, IdentityInv
<1> QED BY <1>1, <1>2

(* The inductive invariant holds. *)
THEOREM IdentityInvariant == Spec => []IdentityInv
BY IdentityInit, IdentityStep, PTL DEF Spec

(* The registry is one to one with the source after every commit and every restart: each
   entity has one live anchor with its path and body, no anchor is live for an entity
   that is gone, in the files a scoped reconciliation did not look at too, and the index
   leads to anchors of its paths. *)
THEOREM RegistryIsOneToOne == Spec => []OneToOne
<1>1. IdentityInv => OneToOne
  <2> SUFFICES ASSUME IdentityInv PROVE OneToOne
    OBVIOUS
  <2>1. \A i \in DOMAIN anchors : anchors[i] \in Anchor
    BY DEF IdentityInv, Registry
  <2>2. \A i \in DOMAIN anchors : i \in Live <=> IsLive(anchors, i)
    BY DEF Live, IsLive
  <2>3. ASSUME NEW s \in Slots, code[s] # NoEntity
        PROVE  Cardinality({i \in Live : anchors[i].path = s}) = 1
    <3>1. PICK i \in DOMAIN anchors : IsLive(anchors, i) /\ anchors[i].path = s
      BY <2>3 DEF IdentityInv, Mirrors
    <3>2. \A j \in DOMAIN anchors : IsLive(anchors, j) /\ anchors[j].path = s => j = i
      BY <3>1 DEF IdentityInv, Mirrors
    <3>3. Live \subseteq DOMAIN anchors
      BY DEF Live
    <3>4. {j \in Live : anchors[j].path = s} = {i}
      BY <2>2, <3>1, <3>2, <3>3
    <3> QED BY <3>4, FS_Singleton
  <2>4. \A i \in Live : code[anchors[i].path] = anchors[i].hash
    BY <2>2 DEF Live, IdentityInv, Mirrors
  <2> QED BY <2>1, <2>3, <2>4 DEF OneToOne, IdentityInv, Indexes
<1> QED BY <1>1, IdentityInvariant, PTL

(* retire and rebind forget nothing: no id ever leaves the registry, and an orphan keeps
   the path and the body it was last seen with. *)
THEOREM NothingIsForgotten == Spec => NothingForgotten
<1> DEFINE Kept == \A i \in DOMAIN anchors :
                      /\ i \in DOMAIN anchors'
                      /\ anchors'[i].status = "orphaned" =>
                            /\ anchors'[i].path = anchors[i].path
                            /\ anchors'[i].hash = anchors[i].hash
<1>1. IdentityInv /\ [Next]_vars => [Kept]_vars
  <2> SUFFICES ASSUME IdentityInv, Next PROVE Kept
    OBVIOUS
  <2>1. PICK k, bp, src, scope, b, m, review :
           /\ Registry(anchors, k) /\ Ready(anchors, bp, code, src, scope)
           /\ Outcome(anchors, bp, src, scope, b, m, review)
    BY StepOutcome
  <2>2. Restated(anchors, src, scope, b, anchors')
    BY <2>1, OutcomeSays
  <2> QED BY <2>2 DEF Restated, Range
<1>2. Spec => [][Kept]_vars
  BY <1>1, IdentityInvariant, PTL DEF Spec
<1> QED BY <1>2 DEF NothingForgotten

(* Pass A: an entity that is indexed and still there keeps its id through a commit, however
   its body and the rest of the source changed. *)
THEOREM EditsKeepIds == Spec => EditKeepsId
<1> DEFINE Kept == code' # code => \A s \in Slots :
                      byPath[s] # NoId /\ code'[s] # NoEntity => byPath[s] \in Live'
                                                              /\ anchors'[byPath[s]].path = s
<1>1. IdentityInv /\ [Next]_vars => [Kept]_vars
  <2> SUFFICES ASSUME IdentityInv, Next, code' # code,
                      NEW s \in Slots, byPath[s] # NoId, code'[s] # NoEntity
               PROVE  byPath[s] \in Live' /\ anchors'[byPath[s]].path = s
    OBVIOUS
  <2>1. PICK k, bp, src, scope, b, m, review :
           /\ Registry(anchors, k) /\ Ready(anchors, bp, code, src, scope)
           /\ Outcome(anchors, bp, src, scope, b, m, review) /\ code' = src
           /\ code' # code => bp = byPath
    BY StepOutcome
  <2>2. bp = byPath /\ Restated(anchors, src, scope, b, anchors') /\ Keeps(Exact(anchors, bp, src, scope), b)
    BY <2>1, OutcomeSays
  <2>3. byPath[s] \in DOMAIN anchors /\ anchors[byPath[s]].path = s
    BY DEF IdentityInv, Indexes
  <2>4. CASE FileOf[s] \in scope
    <3>1. s \in DOMAIN Exact(anchors, bp, src, scope) /\ Exact(anchors, bp, src, scope)[s] = byPath[s]
      BY <2>1, <2>2, <2>4 DEF Exact, Entities
    <3>2. s \in DOMAIN b /\ b[s] = byPath[s]
      BY <2>2, <3>1 DEF Keeps
    <3> QED BY <2>2, <2>3, <3>2 DEF Restated, Live
  <2>5. CASE FileOf[s] \notin scope
    <3>1. byPath[s] \notin Range(b)
      BY <2>1, <2>3, <2>5 DEF Outcome, BindsAll, InScope, Range
    <3>2. IsLive(anchors, byPath[s])
      BY <2>1, <2>2, <2>5 DEF Ready
    <3> QED BY <2>2, <2>3, <2>5, <3>1, <3>2 DEF Restated, Live, IsLive, InScope
  <2> QED BY <2>4, <2>5
<1>2. Spec => [][Kept]_vars
  BY <1>1, IdentityInvariant, PTL DEF Spec
<1> QED BY <1>2 DEF EditKeepsId

(* Pass B finds the one anchor that ever had a body for the one entity that has it now. *)
LEMMA MovedFinds ==
    ASSUME NEW A, NEW k, Registry(A, k), NEW bp, Indexes(A, bp), NEW src, NEW scope,
           NEW t \in Entities(src, scope), bp[t] = NoId,
           \A u \in Slots \ {t} : src[u] # src[t],
           NEW i \in InScope(A, scope), A[i].hash = src[t], src[A[i].path] = NoEntity,
           src[t] # NoEntity,
           \A j \in DOMAIN A : A[j].hash = src[t] => j = i
    PROVE  t \in DOMAIN Moved(A, bp, src, scope) /\ Moved(A, bp, src, scope)[t] = i
<1>0. NSlots \in Nat /\ t \in 1..NSlots /\ A[i].path # t /\ i \in DOMAIN A
  BY IdentityAssumption DEF Slots, Entities, InScope
<1>1. PICK b : /\ b[0] = Exact(A, bp, src, scope)
               /\ \A n \in 1..NSlots : b[n] = Take(A, bp, src, scope, n, b[n - 1])
               /\ Moved(A, bp, src, scope) = b[NSlots]
  BY MovedUnrolled
<1> DEFINE Before(c) == t \notin DOMAIN c /\ i \notin Range(c)
           After(c) == t \in DOMAIN c /\ c[t] = i
           Good(n) == /\ Binds(A, src, scope, b[n])
                      /\ n < t => Before(b[n])
                      /\ ~(n < t) => After(b[n])
           P == {n \in 0..NSlots : Good(n)}
<1>2. 0 \in P
  <2>1. PICK c : c = Exact(A, bp, src, scope)
    OBVIOUS
  <2>2. /\ DOMAIN c = {u \in Entities(src, scope) : bp[u] # NoId} /\ \A u \in DOMAIN c : c[u] = bp[u]
    BY <2>1 DEF Exact
  <2>3. \A u \in DOMAIN c : A[c[u]].path = u /\ src[u] # NoEntity
    BY <2>2 DEF Indexes, Entities
  <2>4. Before(c)
    BY <2>2, <2>3 DEF Range
  <2> QED BY <1>0, <1>1, <2>1, <2>4, ExactBinds
<1>3. ASSUME NEW n \in 1..NSlots, n - 1 \in P PROVE n \in P
  <2>1. PICK p, c, d : /\ p = b[n - 1] /\ c = Candidates(A, bp, src, scope, n, p)
                       /\ d = Take(A, bp, src, scope, n, p)
    OBVIOUS
  <2>2. b[n] = d /\ Good(n - 1)
    BY <1>1, <1>3, <2>1
  <2>3. Binds(A, src, scope, p) /\ Binds(A, src, scope, d) /\ Keeps(p, d)
    BY <2>1, <2>2, TakeBinds
  <2>4. c \subseteq {j \in InScope(A, scope) \ Range(p) : A[j].hash = src[n]} /\ c \subseteq Nat
    BY <2>1 DEF Candidates, InScope, Registry
  <2>5. d = IF n \in Entities(src, scope) \ DOMAIN p /\ c # {} THEN Bound(p, n, Min(c)) ELSE p
    BY <2>1 DEF Take
  <2>6. CASE n < t
    <3>1. Before(p)
      BY <1>0, <2>1, <2>2, <2>6
    <3>2. CASE n \in Entities(src, scope) \ DOMAIN p /\ c # {}
      <4>1. Min(c) \in c
        BY <2>4, <3>2, MinIn
      <4>2. n # t /\ n \in Slots
        BY <1>0, <2>6 DEF Slots
      <4>3. Min(c) # i
        BY <2>4, <4>1, <4>2
      <4>4. /\ DOMAIN d = DOMAIN p \cup {n} /\ d[n] = Min(c)
            /\ \A u \in DOMAIN p : d[u] = p[u]
        BY <2>5, <3>2 DEF Bound
      <4>5. Before(d)
        BY <3>1, <4>2, <4>3, <4>4 DEF Range
      <4> QED BY <1>0, <2>2, <2>3, <2>6, <4>5
    <3>3. CASE ~(n \in Entities(src, scope) \ DOMAIN p /\ c # {})
      BY <1>0, <2>2, <2>3, <2>5, <2>6, <3>1, <3>3
    <3> QED BY <3>2, <3>3
  <2>7. CASE n = t
    <3>1. Before(p)
      BY <1>0, <2>1, <2>2, <2>7
    <3>2. i \in c
      BY <1>0, <2>1, <2>7, <3>1 DEF Candidates
    <3>3. Min(c) = i
      <4>1. Min(c) \in c
        BY <2>4, <3>2, MinIn
      <4> QED BY <2>4, <2>7, <4>1 DEF InScope
    <3>4. d = Bound(p, t, i)
      BY <2>5, <2>7, <3>1, <3>2, <3>3
    <3>5. After(d)
      BY <3>4 DEF Bound
    <3> QED BY <1>0, <2>2, <2>3, <2>7, <3>5
  <2>8. CASE n > t
    <3>1. After(p)
      BY <1>0, <2>1, <2>2, <2>8
    <3>2. After(d)
      BY <2>3, <3>1 DEF Keeps
    <3> QED BY <1>0, <2>2, <2>3, <2>8, <3>2
  <2> QED BY <1>0, <2>6, <2>7, <2>8
<1>4. NSlots \in P
  <2> HIDE DEF P
  <2> QED BY <1>0, <1>2, <1>3, Induction
<1>5. After(b[NSlots])
  BY <1>0, <1>4
<1> QED BY <1>1, <1>5

(* Pass B: when one commit takes a body away from one slot and puts it at a slot that had no
   entity, and no other anchor ever had that body, the id moves with it, over any distance
   and in any order of the slots. *)
THEOREM MovesKeepIds == Spec => MoveKeepsId
<1> DEFINE Given(s, t) ==
              /\ code[s] # NoEntity /\ code'[s] = NoEntity
              /\ code[t] = NoEntity /\ code'[t] = code[s] /\ byPath[t] = NoId
              /\ \A u \in Slots \ {t} : code'[u] # code[s]
              /\ \A i, j \in DOMAIN anchors :
                    anchors[i].hash = code[s] /\ anchors[j].hash = code[s] => i = j
           Kept == code' # code => \A s, t \in Slots : Given(s, t) =>
                      \A i \in Live : anchors[i].path = s => i \in Live' /\ anchors'[i].path = t
<1>1. IdentityInv /\ [Next]_vars => [Kept]_vars
  <2> SUFFICES ASSUME IdentityInv, Next, code' # code, NEW s \in Slots, NEW t \in Slots,
                      Given(s, t), NEW i \in Live, anchors[i].path = s
               PROVE  i \in Live' /\ anchors'[i].path = t
    OBVIOUS
  <2>1. PICK k, bp, src, scope, b, m, review :
           /\ Registry(anchors, k) /\ Ready(anchors, bp, code, src, scope)
           /\ Outcome(anchors, bp, src, scope, b, m, review) /\ code' = src
           /\ code' # code => bp = byPath
    BY StepOutcome
  <2>2. bp = byPath /\ Restated(anchors, src, scope, b, anchors') /\ Indexes(anchors, bp)
    BY <2>1, OutcomeSays DEF Ready
  <2>3. i \in DOMAIN anchors /\ anchors[i].hash = code[s]
    BY DEF Live, IsLive, IdentityInv, Mirrors
  <2>4. FileOf[s] \in scope /\ FileOf[t] \in scope
    BY <2>1 DEF Ready
  <2>5. i \in InScope(anchors, scope) /\ t \in Entities(src, scope)
    BY <2>1, <2>3, <2>4 DEF InScope, Entities
  <2>6. /\ bp[t] = NoId /\ src[t] # NoEntity /\ anchors[i].hash = src[t]
        /\ src[anchors[i].path] = NoEntity
        /\ \A u \in Slots \ {t} : src[u] # src[t]
        /\ \A j \in DOMAIN anchors : anchors[j].hash = src[t] => j = i
    BY <2>1, <2>2, <2>3
  <2>7. t \in DOMAIN Moved(anchors, bp, src, scope) /\ Moved(anchors, bp, src, scope)[t] = i
    BY <2>1, <2>2, <2>5, <2>6, MovedFinds
  <2>8. t \in DOMAIN b /\ b[t] = i
    BY <2>1, <2>7 DEF Outcome, Keeps
  <2> QED BY <2>2, <2>3, <2>8 DEF Restated, Live
<1>2. Spec => [][Kept]_vars
  BY <1>1, IdentityInvariant, PTL DEF Spec
<1> QED BY <1>2 DEF MoveKeepsId
=============================================================================
