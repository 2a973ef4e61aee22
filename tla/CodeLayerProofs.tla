--------------------------- MODULE CodeLayerProofs ---------------------------
(* Proofs about module CodeLayer, for every set of files and packages and every set of
   well-formed texts.  What an operator of the builder does to the four fields of a layer
   is stated once, as a lemma; the rest of the argument uses only those lemmas. *)
EXTENDS CodeLayer, FiniteSetTheorems, WellFoundedInduction, TLAPS

-----------------------------------------------------------------------------
(* The operators, field by field. *)

(* A layer is a record of four fields. *)
Layer(n, e, r, o) == [nodes |-> n, edges |-> e, rdeps |-> r, order |-> o]
IsLayer(L) == L = Layer(L.nodes, L.edges, L.rdeps, L.order)

(* Its fields. *)
LEMMA LayerIs ==
    ASSUME NEW n, NEW e, NEW r, NEW o, NEW M, M = Layer(n, e, r, o)
    PROVE  IsLayer(M) /\ M.nodes = n /\ M.edges = e /\ M.rdeps = r /\ M.order = o
BY DEF Layer, IsLayer

(* The empty layer. *)
LEMMA EmptyIs ==
    /\ IsLayer(EmptyLayer) /\ EmptyLayer.nodes = <<>> /\ EmptyLayer.edges = {}
    /\ EmptyLayer.rdeps = {} /\ EmptyLayer.order = <<>>
BY DEF EmptyLayer, IsLayer, Layer

(* A layer with another value of one field, or of two. *)
LEMMA NodesSet ==
    ASSUME NEW L, IsLayer(L), NEW v
    PROVE  [L EXCEPT !.nodes = v] = Layer(v, L.edges, L.rdeps, L.order)
BY DEF IsLayer, Layer

(* Its edges replaced. *)
LEMMA EdgesSet ==
    ASSUME NEW L, IsLayer(L), NEW v
    PROVE  [L EXCEPT !.edges = v] = Layer(L.nodes, v, L.rdeps, L.order)
BY DEF IsLayer, Layer

(* Its index replaced. *)
LEMMA RdepsSet ==
    ASSUME NEW L, IsLayer(L), NEW v
    PROVE  [L EXCEPT !.rdeps = v] = Layer(L.nodes, L.edges, v, L.order)
BY DEF IsLayer, Layer

(* Its lists replaced. *)
LEMMA OrderSet ==
    ASSUME NEW L, IsLayer(L), NEW v
    PROVE  [L EXCEPT !.order = v] = Layer(L.nodes, L.edges, L.rdeps, v)
BY DEF IsLayer, Layer

(* Nodes and lists replaced together. *)
LEMMA NodesOrderSet ==
    ASSUME NEW L, IsLayer(L), NEW N, NEW O
    PROVE  [L EXCEPT !.nodes = N, !.order = O] = Layer(N, L.edges, L.rdeps, O)
<1>1. PICK M : M = [L EXCEPT !.nodes = N]
  OBVIOUS
<1>2. [L EXCEPT !.nodes = N, !.order = O] = [M EXCEPT !.order = O]
  BY <1>1, Zenon
<1>3. M = Layer(N, L.edges, L.rdeps, L.order)
  BY <1>1, NodesSet
<1>4. IsLayer(M) /\ M.nodes = N /\ M.edges = L.edges /\ M.rdeps = L.rdeps
  BY <1>3, LayerIs
<1>5. [M EXCEPT !.order = O] = Layer(N, L.edges, L.rdeps, O)
  BY <1>4, OrderSet
<1> QED BY <1>2, <1>5

(* Edges and index replaced together. *)
LEMMA EdgesRdepsSet ==
    ASSUME NEW L, IsLayer(L), NEW E, NEW R
    PROVE  [L EXCEPT !.edges = E, !.rdeps = R] = Layer(L.nodes, E, R, L.order)
<1>1. PICK M : M = [L EXCEPT !.edges = E]
  OBVIOUS
<1>2. [L EXCEPT !.edges = E, !.rdeps = R] = [M EXCEPT !.rdeps = R]
  BY <1>1, Zenon
<1>3. M = Layer(L.nodes, E, L.rdeps, L.order)
  BY <1>1, EdgesSet
<1>4. IsLayer(M) /\ M.nodes = L.nodes /\ M.edges = E /\ M.order = L.order
  BY <1>3, LayerIs
<1>5. [M EXCEPT !.rdeps = R] = Layer(L.nodes, E, R, L.order)
  BY <1>4, RdepsSet
<1> QED BY <1>2, <1>5

(* add_edge *)
LEMMA AddEdgesIs ==
    ASSUME NEW L, IsLayer(L), NEW E
    PROVE  /\ IsLayer(AddEdges(L, E)) /\ AddEdges(L, E).nodes = L.nodes
           /\ AddEdges(L, E).edges = L.edges \cup E
           /\ AddEdges(L, E).rdeps = L.rdeps \cup Inbound(E)
           /\ AddEdges(L, E).order = L.order
<1>1. AddEdges(L, E) = Layer(L.nodes, L.edges \cup E, L.rdeps \cup Inbound(E), L.order)
  BY EdgesRdepsSet, Zenon DEF AddEdges
<1> QED BY <1>1, LayerIs

(* remove_edge *)
LEMMA RemoveEdgesIs ==
    ASSUME NEW L, IsLayer(L), NEW E
    PROVE  /\ IsLayer(RemoveEdges(L, E)) /\ RemoveEdges(L, E).nodes = L.nodes
           /\ RemoveEdges(L, E).edges = L.edges \ E
           /\ RemoveEdges(L, E).rdeps = L.rdeps \ (Inbound(E) \ Inbound(L.edges \ E))
           /\ RemoveEdges(L, E).order = L.order
<1>1. PICK R, D : R = L.rdeps \ (Inbound(E) \ Inbound(L.edges \ E)) /\ D = L.edges \ E
  OBVIOUS
<1>2. RemoveEdges(L, E) = Layer(L.nodes, D, R, L.order)
  BY <1>1, EdgesRdepsSet, Zenon DEF RemoveEdges
<1>3. /\ IsLayer(RemoveEdges(L, E)) /\ RemoveEdges(L, E).nodes = L.nodes
      /\ RemoveEdges(L, E).edges = D /\ RemoveEdges(L, E).rdeps = R
      /\ RemoveEdges(L, E).order = L.order
  BY <1>2, LayerIs
<1> QED BY <1>1, <1>3, Zenon

(* The index of a union is the union of the indices. *)
LEMMA InboundUnion ==
    ASSUME NEW E, NEW F
    PROVE  Inbound(E \cup F) = Inbound(E) \cup Inbound(F)
BY DEF Inbound

(* A layer whose index is exact. *)
Indexed(L) == IsLayer(L) /\ L.rdeps = Inbound(L.edges)

(* try_add_edge: the edges between existing nodes are added, nothing else changes. *)
LEMMA TryEdgesIs ==
    ASSUME NEW L, IsLayer(L), NEW E
    PROVE  /\ IsLayer(TryEdges(L, E)) /\ TryEdges(L, E).nodes = L.nodes
           /\ TryEdges(L, E).order = L.order
           /\ TryEdges(L, E).edges =
                 L.edges \cup {e \in E : e.source \in DOMAIN L.nodes /\ e.target \in DOMAIN L.nodes}
           /\ Indexed(L) => Indexed(TryEdges(L, E))
<1>1. PICK F : F = {e \in E : {e.source, e.target} \subseteq DOMAIN L.nodes}
  OBVIOUS
<1>2. F = {e \in E : e.source \in DOMAIN L.nodes /\ e.target \in DOMAIN L.nodes}
  BY <1>1
<1>3. TryEdges(L, E) = AddEdges(L, F)
  BY <1>1 DEF TryEdges
<1>4. Indexed(L) => Indexed(AddEdges(L, F))
  <2>1. PICK M : M = AddEdges(L, F)
    OBVIOUS
  <2>2. IsLayer(M) /\ M.edges = L.edges \cup F /\ M.rdeps = L.rdeps \cup Inbound(F)
    BY <2>1, AddEdgesIs
  <2>3. Inbound(M.edges) = Inbound(L.edges) \cup Inbound(F)
    BY <2>2, InboundUnion
  <2> QED BY <2>1, <2>2, <2>3 DEF Indexed
<1> QED BY <1>2, <1>3, <1>4, AddEdgesIs

(* materialize_file_nodes *)
LEMMA MaterializedIs ==
    ASSUME NEW L, IsLayer(L), NEW t, NEW fs
    PROVE  /\ IsLayer(Materialized(L, t, fs)) /\ Materialized(L, t, fs).edges = L.edges
           /\ Materialized(L, t, fs).rdeps = L.rdeps
           /\ Materialized(L, t, fs).order = Over([f \in fs |-> Listed(L, t, f)], L.order)
           /\ Materialized(L, t, fs).nodes =
                 Over(L.nodes, [i \in UNION {Range(Listed(L, t, f)) : f \in fs} |->
                                   NodeOf(t, CHOOSE f \in fs : i \in Range(Listed(L, t, f)), i)])
<1>1. PICK ids : ids = UNION {Range(Listed(L, t, f)) : f \in fs}
  OBVIOUS
<1>2. PICK home : home = [i \in ids |-> CHOOSE f \in fs : i \in Range(Listed(L, t, f))]
  OBVIOUS
<1>3. PICK N, O : /\ N = Over(L.nodes, [i \in ids |-> NodeOf(t, home[i], i)])
                  /\ O = Over([f \in fs |-> Listed(L, t, f)], L.order)
  OBVIOUS
<1>4. Materialized(L, t, fs) = [L EXCEPT !.nodes = N, !.order = O]
  BY <1>1, <1>2, <1>3 DEF Materialized
<1>5. [i \in ids |-> NodeOf(t, home[i], i)]
         = [i \in ids |-> NodeOf(t, CHOOSE f \in fs : i \in Range(Listed(L, t, f)), i)]
  BY <1>2
<1>6. Materialized(L, t, fs) = Layer(N, L.edges, L.rdeps, O)
  BY <1>4, NodesOrderSet
<1> QED BY <1>1, <1>3, <1>5, <1>6, LayerIs

(* It leaves the edges and their index alone. *)
LEMMA MaterializedEdges ==
    ASSUME NEW L, IsLayer(L), NEW t, NEW fs
    PROVE  /\ IsLayer(Materialized(L, t, fs)) /\ Materialized(L, t, fs).edges = L.edges
           /\ Materialized(L, t, fs).rdeps = L.rdeps
<1>1. PICK N, O : Materialized(L, t, fs) = [L EXCEPT !.nodes = N, !.order = O]
  BY Zenon DEF Materialized
<1>2. Materialized(L, t, fs) = Layer(N, L.edges, L.rdeps, O)
  BY <1>1, NodesOrderSet
<1> QED BY <1>2, LayerIs

(* It keeps the nodes there are. *)
LEMMA MaterializedGrows ==
    ASSUME NEW L, IsLayer(L), NEW t, NEW fs
    PROVE  DOMAIN L.nodes \subseteq DOMAIN Materialized(L, t, fs).nodes
<1>1. PICK X, O : Materialized(L, t, fs) = [L EXCEPT !.nodes = Over(L.nodes, X), !.order = O]
  BY DEF Materialized
<1>2. Materialized(L, t, fs) = Layer(Over(L.nodes, X), L.edges, L.rdeps, O)
  BY <1>1, NodesOrderSet
<1>3. Materialized(L, t, fs).nodes = Over(L.nodes, X)
  BY <1>2, LayerIs
<1>4. DOMAIN L.nodes \subseteq DOMAIN Over(L.nodes, X)
  BY DEF Over
<1> QED BY <1>3, <1>4

(* ensure_external_target: the stubs are added, where there is no node yet. *)
Stubs(S) == [i \in {ExternalId(x[1], x[2]) : x \in S} |-> Stub(i[2], i[3])]

(* Stubs are added below the nodes that exist. *)
LEMMA WithStubsIs ==
    ASSUME NEW L, IsLayer(L), NEW S
    PROVE  /\ IsLayer(WithStubs(L, S)) /\ WithStubs(L, S).edges = L.edges
           /\ WithStubs(L, S).rdeps = L.rdeps /\ WithStubs(L, S).order = L.order
           /\ WithStubs(L, S).nodes = Over(L.nodes, Stubs(S))
<1>1. WithStubs(L, S) = [L EXCEPT !.nodes = Over(L.nodes, Stubs(S))]
  BY Zenon DEF WithStubs, Stubs
<1>2. WithStubs(L, S) = Layer(Over(L.nodes, Stubs(S)), L.edges, L.rdeps, L.order)
  BY <1>1, NodesSet
<1> QED BY <1>2, LayerIs

(* evict_file *)
FileIds(L, fs) == UNION {Range(NodesOf(L, f)) : f \in fs}

(* An eviction takes the nodes of the files, their lists and the edges that start at them. *)
LEMMA EvictIs ==
    ASSUME NEW L, IsLayer(L), NEW fs
    PROVE  /\ IsLayer(Evict(L, fs))
           /\ Evict(L, fs).edges = {e \in L.edges : e.source \notin FileIds(L, fs)}
           /\ Evict(L, fs).nodes = Restrict(L.nodes, DOMAIN L.nodes \ FileIds(L, fs))
           /\ Evict(L, fs).order = Restrict(L.order, DOMAIN L.order \ fs)
           /\ Indexed(L) => Indexed(Evict(L, fs))
<1>1. PICK E, M : /\ E = {e \in L.edges : e.source \in FileIds(L, fs)}
                  /\ M = RemoveEdges(L, E)
  OBVIOUS
<1>2. /\ IsLayer(M) /\ M.nodes = L.nodes /\ M.edges = L.edges \ E /\ M.order = L.order
      /\ M.rdeps = L.rdeps \ (Inbound(E) \ Inbound(L.edges \ E))
  <2>1. /\ IsLayer(RemoveEdges(L, E)) /\ RemoveEdges(L, E).nodes = L.nodes
        /\ RemoveEdges(L, E).edges = L.edges \ E /\ RemoveEdges(L, E).order = L.order
        /\ RemoveEdges(L, E).rdeps = L.rdeps \ (Inbound(E) \ Inbound(L.edges \ E))
    BY RemoveEdgesIs
  <2> QED BY <1>1, <2>1, Zenon
<1>3. PICK N, O : /\ N = Restrict(M.nodes, DOMAIN M.nodes \ FileIds(L, fs))
                  /\ O = Restrict(M.order, DOMAIN M.order \ fs)
  OBVIOUS
<1>4. Evict(L, fs) = Layer(N, M.edges, M.rdeps, O)
  <2>1. Evict(L, fs) = [M EXCEPT !.nodes = N, !.order = O]
    BY <1>1, <1>3 DEF Evict, FileIds
  <2> QED BY <1>2, <2>1, NodesOrderSet
<1>5. L.edges \ E = {e \in L.edges : e.source \notin FileIds(L, fs)}
  BY <1>1
<1>6. ASSUME Indexed(L) PROVE M.rdeps = Inbound(M.edges)
  <2>1. L.edges = (L.edges \ E) \cup E
    BY <1>1
  <2>2. Inbound(L.edges) = Inbound(L.edges \ E) \cup Inbound(E)
    BY <2>1, InboundUnion
  <2> QED BY <1>2, <1>6, <2>2 DEF Indexed
<1>7. /\ IsLayer(Evict(L, fs)) /\ Evict(L, fs).edges = M.edges /\ Evict(L, fs).rdeps = M.rdeps
      /\ Evict(L, fs).nodes = N /\ Evict(L, fs).order = O
  BY <1>4, LayerIs
<1> QED BY <1>2, <1>3, <1>5, <1>6, <1>7 DEF Indexed

(* gc_external_stubs *)
LEMMA CollectedIs ==
    ASSUME NEW L, IsLayer(L)
    PROVE  /\ IsLayer(Collected(L)) /\ Collected(L).edges = L.edges
           /\ Collected(L).rdeps = L.rdeps /\ Collected(L).order = L.order
           /\ Collected(L).nodes = Restrict(L.nodes, DOMAIN L.nodes \ IdleStubs(L))
           /\ Indexed(L) => Indexed(Collected(L))
<1>1. Collected(L) = Layer(Restrict(L.nodes, DOMAIN L.nodes \ IdleStubs(L)), L.edges,
                           L.rdeps, L.order)
  BY NodesSet, Zenon DEF Collected
<1> QED BY <1>1, LayerIs DEF Indexed

-----------------------------------------------------------------------------
(* The index. *)

(* Every pass keeps the index exact. *)
LEMMA PassesIndexed ==
    ASSUME NEW L, Indexed(L), NEW t, NEW fs
    PROVE  Indexed(Passes(L, t, fs))
<1>1. PICK L2, L3, L4, L5 :
          /\ L2 = Materialized(L, t, fs) /\ L3 = ContainmentPass(L2, t, fs)
          /\ L4 = ReferencesPass(L3, t, fs) /\ L5 = InheritsPass(L4, t, fs)
  OBVIOUS
<1>2. Passes(L, t, fs) = OverridesPass(L5, t, fs)
  BY <1>1, Zenon DEF Passes
<1>3. Indexed(L2)
  <2>1. /\ IsLayer(Materialized(L, t, fs)) /\ Materialized(L, t, fs).edges = L.edges
        /\ Materialized(L, t, fs).rdeps = L.rdeps
    <3>1. IsLayer(L)
      BY DEF Indexed
    <3> QED BY <3>1, MaterializedEdges, Zenon
  <2> QED BY <1>1, <2>1 DEF Indexed
<1>4. Indexed(L3)
  BY <1>1, <1>3, TryEdgesIs DEF Indexed, ContainmentPass
<1>5. ASSUME NEW M, Indexed(M), NEW S PROVE Indexed(WithStubs(M, S))
  BY <1>5, WithStubsIs DEF Indexed
<1>6. ASSUME NEW M, Indexed(M), NEW E PROVE Indexed(TryEdges(M, E))
  BY <1>6, TryEdgesIs DEF Indexed
<1>7. Indexed(L4)
  BY <1>1, <1>4, <1>5, <1>6, Zenon DEF ReferencesPass
<1>8. Indexed(L5)
  BY <1>1, <1>5, <1>6, <1>7, Zenon DEF InheritsPass
<1> QED BY <1>2, <1>6, <1>8, Zenon DEF OverridesPass

(* build *)
LEMMA FullIndexed ==
    ASSUME NEW t
    PROVE  Indexed(Full(t))
<1>1. Indexed(EmptyLayer)
  BY EmptyIs DEF Indexed, Inbound
<1> QED BY <1>1, PassesIndexed DEF Full

(* build_scoped *)
LEMMA ScopedIndexed ==
    ASSUME NEW L, Indexed(L), NEW t, NEW seeds
    PROVE  Indexed(Scoped(L, t, seeds))
<1>1. PICK dirty, M : dirty = Dirty(L, seeds) /\ M = Passes(Evict(L, dirty), t, dirty \cap Existing(t))
  OBVIOUS
<1>2. Indexed(Evict(L, dirty))
  BY EvictIs DEF Indexed
<1>3. Indexed(M)
  BY <1>1, <1>2, PassesIndexed
<1>4. Scoped(L, t, seeds) = Collected(M)
  BY <1>1 DEF Scoped
<1> QED BY <1>3, <1>4, CollectedIs DEF Indexed

(* produce_layer *)
LEMMA ProduceIndexed ==
    ASSUME NEW L, Indexed(L), NEW t \in Projects, NEW seeds, NEW rescan
    PROVE  Indexed(Produce(L, t, seeds, rescan))
<1>1. FullOf[t] = Full(t)
  BY DEF FullOf
<1> QED BY <1>1, FullIndexed, ScopedIndexed DEF Produce

(* IndexExact for every history of commits: reverse_deps, kept edge by edge, never loses an
   entry that an edge still needs and never keeps one whose last edge is gone. *)
THEOREM IndexIsExact == Spec => []IndexExact
<1>1. Init => Indexed(layer)
  BY FullIndexed DEF Init, FullOf
<1>2. Indexed(layer) /\ [Next]_vars => Indexed(layer)'
  <2>1. ASSUME Indexed(layer), UNCHANGED vars PROVE Indexed(layer)'
    BY <2>1 DEF vars, Indexed, IsLayer, Layer
  <2>2. ASSUME Indexed(layer), NEW seeds \in SUBSET Files, NEW rescan \in BOOLEAN,
               Commit(seeds, rescan)
        PROVE  Indexed(layer)'
    <3>1. PICK t \in Projects : layer' = Produce(layer, t, seeds, rescan)
      BY <2>2 DEF Commit
    <3>2. Indexed(Produce(layer, t, seeds, rescan))
      BY <2>2, ProduceIndexed
    <3> QED BY <3>1, <3>2, Zenon DEF Indexed, IsLayer
  <2> QED BY <2>1, <2>2 DEF Next
<1>3. Indexed(layer) => IndexExact
  BY DEF Indexed, IndexExact
<1> QED BY <1>1, <1>2, <1>3, PTL DEF Spec

-----------------------------------------------------------------------------
(* Projects and their nodes. *)

(* What a file lists, and the ids it lists. *)
SymbolList(t, f) == [n \in DOMAIN t[f].syms |-> Entity(t[f].syms[n].id)]
Listing(t, f) == <<ModuleId(f)>> \o SymbolList(t, f)
OwnIds(t, f) == {ModuleId(f)} \cup SymbolIds(t, f)

(* Ids of different sorts, or made of different parts, differ. *)
LEMMA IdsDiffer ==
    /\ \A a, b : Entity(a) = Entity(b) => a = b
    /\ \A f, g : ModuleId(f) = ModuleId(g) => f = g
    /\ \A p, m, q, n : ExternalId(p, m) = ExternalId(q, n) => p = q /\ m = n
    /\ \A a, f : Entity(a) # ModuleId(f)
    /\ \A a, p, n : Entity(a) # ExternalId(p, n)
    /\ \A f, p, n : ModuleId(f) # ExternalId(p, n)
    /\ \A a : Entity(a) # NoNode
    /\ \A f : ModuleId(f) # NoNode
    /\ \A p, n : ExternalId(p, n) # NoNode
BY DEF Entity, ModuleId, ExternalId, NoNode

(* The text of an existing file. *)
LEMMA TextIs ==
    ASSUME NEW t \in Projects, NEW f \in Existing(t)
    PROVE  f \in Files /\ t[f] # Absent /\ t[f] \in Texts[f] /\ WellFormed(t[f])
BY CodeLayerAssumption DEF Projects, Existing

(* Its listing is a sequence of the file's ids. *)
LEMMA ListingIs ==
    ASSUME NEW t \in Projects, NEW f \in Existing(t)
    PROVE  /\ SymbolList(t, f) \in Seq(SymbolIds(t, f))
           /\ DOMAIN SymbolList(t, f) = DOMAIN t[f].syms
           /\ Len(SymbolList(t, f)) \in Nat
           /\ DOMAIN SymbolList(t, f) = 1..Len(SymbolList(t, f))
           /\ Range(SymbolList(t, f)) = SymbolIds(t, f)
           /\ Range(Listing(t, f)) = OwnIds(t, f)
<1>1. t[f] # Absent /\ t[f].syms \in Seq(Range(t[f].syms))
  BY TextIs DEF WellFormed
<1>2. PICK s, q : s = t[f].syms /\ q = SymbolList(t, f)
  OBVIOUS
<1>3. PICK m \in Nat : DOMAIN s = 1..m
  BY <1>1, <1>2
<1>4. Symbols(t, f) = {s[n] : n \in DOMAIN s}
  BY <1>1, <1>2 DEF Symbols, Range
<1>5. q = [n \in 1..m |-> Entity(s[n].id)]
  BY <1>2, <1>3 DEF SymbolList
<1>6. SymbolIds(t, f) = {Entity(s[n].id) : n \in 1..m}
  BY <1>3, <1>4 DEF SymbolIds
<1>7. q \in Seq(SymbolIds(t, f)) /\ Len(q) = m
  BY <1>5, <1>6
<1>8. Range(q) = SymbolIds(t, f)
  BY <1>5, <1>6 DEF Range
<1>9. PICK r : r = Listing(t, f)
  OBVIOUS
<1>10. r = <<ModuleId(f)>> \o q
  BY <1>2, <1>9 DEF Listing
<1>11. DOMAIN r = 1..(m + 1) /\ r[1] = ModuleId(f) /\ \A n \in 1..m : r[n + 1] = q[n]
  BY <1>5, <1>7, <1>10
<1>12. Range(r) = OwnIds(t, f)
  <2>1. ASSUME NEW i \in Range(r) PROVE i \in OwnIds(t, f)
    <3>1. PICK n \in 1..(m + 1) : i = r[n]
      BY <1>11 DEF Range
    <3>2. CASE n = 1
      BY <1>11, <3>1, <3>2 DEF OwnIds
    <3>3. CASE n # 1
      <4>1. n - 1 \in 1..m /\ (n - 1) + 1 = n
        BY <3>3
      <4>2. i = q[n - 1]
        BY <1>11, <3>1, <4>1
      <4>3. i \in Range(q)
        BY <1>5, <4>1, <4>2 DEF Range
      <4> QED BY <1>8, <4>3 DEF OwnIds
    <3> QED BY <3>2, <3>3
  <2>2. ASSUME NEW i \in OwnIds(t, f) PROVE i \in Range(r)
    <3>1. CASE i = ModuleId(f)
      <4>1. 1 \in DOMAIN r
        BY <1>11
      <4> QED BY <1>11, <3>1, <4>1 DEF Range
    <3>2. CASE i \in SymbolIds(t, f)
      <4>1. PICK n \in 1..m : i = q[n]
        BY <1>5, <1>8, <3>2 DEF Range
      <4>2. n + 1 \in DOMAIN r /\ r[n + 1] = i
        BY <1>11, <4>1
      <4> QED BY <4>2 DEF Range
    <3> QED BY <3>1, <3>2 DEF OwnIds
  <2> QED BY <2>1, <2>2
<1> QED BY <1>2, <1>3, <1>5, <1>7, <1>8, <1>9, <1>12

(* No id is in two files. *)
LEMMA OwnDisjoint ==
    ASSUME NEW t \in Projects, NEW f \in Files, NEW g \in Files, NEW i,
           i \in OwnIds(t, f), i \in OwnIds(t, g)
    PROVE  f = g
<1>1. f # g => SymbolIds(t, f) \cap SymbolIds(t, g) = {}
  BY DEF Projects
<1> QED BY <1>1, IdsDiffer DEF OwnIds, SymbolIds

(* Taking every position takes the sequence. *)
LEMMA KeptAll ==
    ASSUME NEW q, NEW m \in Nat, DOMAIN q = 1..m, q = [n \in 1..m |-> q[n]]
    PROVE  Kept(q, 1..m) = q
<1>1. \A n \in 0..m : Cardinality(1..n) = n
  <2>1. ASSUME NEW n \in 0..m PROVE Cardinality(1..n) = n
    <3>1. n \in Int /\ 1 \in Int
      OBVIOUS
    <3>2. Cardinality(1..n) = IF 1 > n THEN 0 ELSE n - 1 + 1
      BY <3>1, FS_Interval, ZenonT(30)
    <3> QED BY <3>1, <3>2, SMTT(30)
  <2> QED BY <2>1
<1>2. ASSUME NEW n \in 1..m PROVE (1..m) \cap (1..n) = 1..n
  OBVIOUS
<1>3. ASSUME NEW k \in 1..m
      PROVE  (CHOOSE n \in 1..m : Cardinality((1..m) \cap (1..n)) = k) = k
  <2>1. ASSUME NEW n \in 1..m PROVE Cardinality((1..m) \cap (1..n)) = n
    <3>1. Cardinality(1..n) = n
      BY <1>1
    <3> QED BY <1>2, <3>1, Zenon
  <2> QED BY <2>1
<1>4. Cardinality(1..m) = m
  BY <1>1
<1> QED BY <1>3, <1>4 DEF Kept

(* A file none of whose symbols has a node yet lists them all. *)
LEMMA ListedAll ==
    ASSUME NEW t \in Projects, NEW f \in Existing(t), NEW L,
           \A i \in SymbolIds(t, f) : i \notin DOMAIN L.nodes
    PROVE  Listed(L, t, f) = Listing(t, f)
<1>1. PICK q, m : q = SymbolList(t, f) /\ m = Len(q)
  OBVIOUS
<1>2. m \in Nat /\ DOMAIN q = 1..m /\ \A n \in 1..m : q[n] \in SymbolIds(t, f)
  BY <1>1, ListingIs
<1>3. {n \in DOMAIN q : q[n] \notin DOMAIN L.nodes} = 1..m
  BY <1>2
<1>4. q = [n \in 1..m |-> q[n]]
  BY <1>1, <1>2 DEF SymbolList
<1>5. Kept(q, 1..m) = q
  BY <1>2, <1>4, KeptAll
<1>6. Listed(L, t, f) = <<ModuleId(f)>> \o Kept(q, {n \in DOMAIN q : q[n] \notin DOMAIN L.nodes})
  BY <1>1 DEF Listed, SymbolList
<1> QED BY <1>1, <1>3, <1>5, <1>6 DEF Listing

-----------------------------------------------------------------------------
(* What a layer holds of the files gs of a project: their listings, the nodes of their ids,
   and besides them only stubs. *)
StubNode(N, i) == \E p, n : i = ExternalId(p, n) /\ N[i] = Stub(p, n)
Tracks(L, t, gs) ==
    /\ IsLayer(L) /\ gs \subseteq Existing(t)
    /\ L.nodes = [i \in DOMAIN L.nodes |-> L.nodes[i]]
    /\ L.order = [f \in gs |-> Listing(t, f)]
    /\ \A f \in gs : \A i \in OwnIds(t, f) : i \in DOMAIN L.nodes /\ L.nodes[i] = NodeOf(t, f, i)
    /\ \A i \in DOMAIN L.nodes : (\E f \in gs : i \in OwnIds(t, f)) \/ StubNode(L.nodes, i)

(* A function over another. *)
LEMMA OverIs ==
    ASSUME NEW f, NEW g
    PROVE  /\ DOMAIN Over(f, g) = DOMAIN f \cup DOMAIN g
           /\ \A x \in DOMAIN f : Over(f, g)[x] = f[x]
           /\ \A x \in DOMAIN g \ DOMAIN f : Over(f, g)[x] = g[x]
           /\ Over(f, g) = [x \in DOMAIN Over(f, g) |-> Over(f, g)[x]]
BY DEF Over

(* The empty layer tracks nothing. *)
LEMMA EmptyTracks ==
    ASSUME NEW t
    PROVE  Tracks(EmptyLayer, t, {})
<1>1. <<>> = [i \in {} |-> <<>>[i]] /\ DOMAIN <<>> = {}
  OBVIOUS
<1>2. <<>> = [f \in {} |-> Listing(t, f)]
  OBVIOUS
<1> QED BY <1>1, <1>2, EmptyIs DEF Tracks

(* A node depends on the text of its file alone. *)
LEMMA NodeOfText ==
    ASSUME NEW t, NEW u, NEW f, t[f] = u[f], NEW i
    PROVE  NodeOf(t, f, i) = NodeOf(u, f, i)
<1>1. Symbols(t, f) = Symbols(u, f)
  BY DEF Symbols
<1>2. \A s : Hash(t, f, s) = Hash(u, f, s)
  BY <1>1 DEF Hash
<1>3. \A s : DocHash(t, f, s) = DocHash(u, f, s)
  BY <1>1 DEF DocHash
<1>4. \A s : EntityNode(t, f, s) = EntityNode(u, f, s)
  BY <1>2, <1>3 DEF EntityNode
<1> QED BY <1>1, <1>4, Zenon DEF NodeOf

(* So do its ids and its listing, and a layer tracks the files that stay in a new project. *)
LEMMA OwnText ==
    ASSUME NEW t, NEW u, NEW f, t[f] = u[f]
    PROVE  OwnIds(t, f) = OwnIds(u, f) /\ Listing(t, f) = Listing(u, f)
BY DEF OwnIds, SymbolIds, Symbols, Listing, SymbolList

(* Tracking a project depends on the texts of its files alone. *)
LEMMA TracksText ==
    ASSUME NEW t, NEW u, NEW gs, NEW L, Tracks(L, t, gs), gs \subseteq Existing(u),
           \A f \in gs : t[f] = u[f]
    PROVE  Tracks(L, u, gs)
<1>1. \A f \in gs : OwnIds(t, f) = OwnIds(u, f) /\ Listing(t, f) = Listing(u, f)
  BY OwnText
<1>2. \A f \in gs : \A i : NodeOf(t, f, i) = NodeOf(u, f, i)
  BY NodeOfText
<1>3. [f \in gs |-> Listing(t, f)] = [f \in gs |-> Listing(u, f)]
  BY <1>1
<1> QED BY <1>1, <1>2, <1>3 DEF Tracks

(* Evicting files stops tracking them. *)
LEMMA EvictTracks ==
    ASSUME NEW t \in Projects, NEW gs, NEW L, Tracks(L, t, gs), NEW fs
    PROVE  Tracks(Evict(L, fs), t, gs \ fs)
<1>1. PICK M, ids : M = Evict(L, fs) /\ ids = FileIds(L, fs)
  OBVIOUS
<1>2. /\ IsLayer(M) /\ M.nodes = Restrict(L.nodes, DOMAIN L.nodes \ ids)
      /\ M.order = Restrict(L.order, DOMAIN L.order \ fs)
  <2>1. IsLayer(L)
    BY DEF Tracks
  <2> QED BY <1>1, <2>1, EvictIs, Zenon
<1>3. gs \subseteq Existing(t) /\ L.order = [f \in gs |-> Listing(t, f)]
  BY DEF Tracks
<1>4. ids = UNION {OwnIds(t, f) : f \in fs \cap gs}
  <2>1. ASSUME NEW f PROVE Range(NodesOf(L, f)) = IF f \in gs THEN OwnIds(t, f) ELSE {}
    <3>1. CASE f \in gs
      <4>1. NodesOf(L, f) = Listing(t, f)
        BY <1>3, <3>1 DEF NodesOf
      <4> QED BY <1>3, <3>1, <4>1, ListingIs
    <3>2. CASE f \notin gs
      <4>1. NodesOf(L, f) = <<>>
        BY <1>3, <3>2 DEF NodesOf
      <4> QED BY <3>2, <4>1 DEF Range
    <3> QED BY <3>1, <3>2
  <2>2. ASSUME NEW i PROVE i \in ids <=> \E f \in fs \cap gs : i \in OwnIds(t, f)
    BY <1>1, <2>1 DEF FileIds
  <2> QED BY <2>2
<1>5. /\ DOMAIN M.nodes = DOMAIN L.nodes \ ids
      /\ \A i \in DOMAIN M.nodes : M.nodes[i] = L.nodes[i]
      /\ M.nodes = [i \in DOMAIN M.nodes |-> M.nodes[i]]
  BY <1>2 DEF Restrict
<1>6. M.order = [f \in gs \ fs |-> Listing(t, f)]
  BY <1>2, <1>3 DEF Restrict
<1>7. ASSUME NEW f \in gs \ fs, NEW i \in OwnIds(t, f)
      PROVE  i \in DOMAIN M.nodes /\ M.nodes[i] = NodeOf(t, f, i)
  <2>1. i \in DOMAIN L.nodes /\ L.nodes[i] = NodeOf(t, f, i)
    BY DEF Tracks
  <2>2. i \notin ids
    BY <1>3, <1>4, OwnDisjoint DEF Existing
  <2> QED BY <1>5, <2>1, <2>2
<1>8. ASSUME NEW i \in DOMAIN M.nodes
      PROVE  (\E f \in gs \ fs : i \in OwnIds(t, f)) \/ StubNode(M.nodes, i)
  <2>1. i \in DOMAIN L.nodes /\ i \notin ids /\ M.nodes[i] = L.nodes[i]
    BY <1>5
  <2>2. (\E f \in gs : i \in OwnIds(t, f)) \/ StubNode(L.nodes, i)
    BY <2>1 DEF Tracks
  <2> QED BY <1>4, <2>1, <2>2 DEF StubNode
<1> QED BY <1>1, <1>2, <1>3, <1>5, <1>6, <1>7, <1>8 DEF Tracks

(* A pass over files that are not tracked yet tracks them. *)
LEMMA MaterializedTracks ==
    ASSUME NEW t \in Projects, NEW gs, NEW L, Tracks(L, t, gs), NEW fs, fs \subseteq Existing(t),
           fs \cap gs = {}
    PROVE  /\ Tracks(Materialized(L, t, fs), t, gs \cup fs)
           /\ \A i \in DOMAIN Materialized(L, t, fs).nodes :
                 i \in DOMAIN L.nodes \/ \E f \in fs : i \in OwnIds(t, f)
<1>0. IsLayer(L) /\ gs \subseteq Existing(t) /\ gs \subseteq Files /\ fs \subseteq Files
  BY DEF Tracks, Existing
<1>1. ASSUME NEW f \in fs
      PROVE  Listed(L, t, f) = Listing(t, f) /\ Range(Listed(L, t, f)) = OwnIds(t, f)
  <2>1. ASSUME NEW i \in SymbolIds(t, f) PROVE i \notin DOMAIN L.nodes
    <3>1. SUFFICES ASSUME i \in DOMAIN L.nodes PROVE FALSE
      OBVIOUS
    <3>2. (\E g \in gs : i \in OwnIds(t, g)) \/ StubNode(L.nodes, i)
      BY <3>1 DEF Tracks
    <3>3. ~StubNode(L.nodes, i)
      BY IdsDiffer DEF SymbolIds, StubNode
    <3>4. PICK g \in gs : i \in OwnIds(t, g)
      BY <3>2, <3>3
    <3>5. i \in OwnIds(t, f)
      BY DEF OwnIds
    <3> QED BY <1>0, <3>4, <3>5, OwnDisjoint
  <2> QED BY <2>1, ListedAll, ListingIs
<1>2. PICK ids, new, M :
          /\ ids = UNION {Range(Listed(L, t, f)) : f \in fs}
          /\ new = [i \in ids |-> NodeOf(t, CHOOSE f \in fs : i \in Range(Listed(L, t, f)), i)]
          /\ M = Materialized(L, t, fs)
  OBVIOUS
<1>3. /\ IsLayer(M) /\ M.order = Over([f \in fs |-> Listed(L, t, f)], L.order)
      /\ M.nodes = Over(L.nodes, new)
  BY <1>0, <1>2, MaterializedIs
<1>4. \A i : i \in ids <=> \E f \in fs : i \in OwnIds(t, f)
  BY <1>1, <1>2
<1>5. ASSUME NEW f \in fs, NEW i \in OwnIds(t, f)
      PROVE  i \in ids /\ new[i] = NodeOf(t, f, i)
  <2>1. i \in ids
    BY <1>4
  <2>2. \A g \in fs : i \in Range(Listed(L, t, g)) <=> g = f
    BY <1>0, <1>1, OwnDisjoint
  <2>3. (CHOOSE g \in fs : i \in Range(Listed(L, t, g))) = f
    BY <2>2
  <2> QED BY <1>2, <2>1, <2>3
<1>6. M.order = [f \in gs \cup fs |-> Listing(t, f)]
  <2>1. L.order = [f \in gs |-> Listing(t, f)]
    BY DEF Tracks
  <2> QED BY <1>1, <1>3, <2>1 DEF Over
<1>7. /\ DOMAIN M.nodes = DOMAIN L.nodes \cup ids
      /\ \A i \in DOMAIN L.nodes : M.nodes[i] = L.nodes[i]
      /\ \A i \in ids \ DOMAIN L.nodes : M.nodes[i] = new[i]
      /\ M.nodes = [i \in DOMAIN M.nodes |-> M.nodes[i]]
  <2>1. DOMAIN new = ids
    BY <1>2
  <2>2. PICK N : N = Over(L.nodes, new)
    OBVIOUS
  <2>3. /\ DOMAIN N = DOMAIN L.nodes \cup ids
        /\ \A i \in DOMAIN L.nodes : N[i] = L.nodes[i]
        /\ \A i \in ids \ DOMAIN L.nodes : N[i] = new[i]
        /\ N = [i \in DOMAIN N |-> N[i]]
    BY <2>1, <2>2 DEF Over
  <2> QED BY <1>3, <2>2, <2>3
<1>8. ASSUME NEW i \in ids PROVE i \notin DOMAIN L.nodes
  <2>1. PICK f \in fs : i \in OwnIds(t, f)
    BY <1>4
  <2>2. SUFFICES ASSUME i \in DOMAIN L.nodes PROVE FALSE
    OBVIOUS
  <2>3. (\E g \in gs : i \in OwnIds(t, g)) \/ StubNode(L.nodes, i)
    BY <2>2 DEF Tracks
  <2>4. ~StubNode(L.nodes, i)
    BY <2>1, IdsDiffer DEF SymbolIds, StubNode, OwnIds
  <2> QED BY <1>0, <2>1, <2>3, <2>4, OwnDisjoint
<1>9. ASSUME NEW f \in gs \cup fs, NEW i \in OwnIds(t, f)
      PROVE  i \in DOMAIN M.nodes /\ M.nodes[i] = NodeOf(t, f, i)
  <2>1. CASE f \in fs
    BY <1>5, <1>7, <1>8, <2>1
  <2>2. CASE f \in gs
    BY <1>7, <2>2 DEF Tracks
  <2> QED BY <2>1, <2>2
<1>10. ASSUME NEW i \in DOMAIN M.nodes
       PROVE  (\E f \in gs \cup fs : i \in OwnIds(t, f)) \/ StubNode(M.nodes, i)
  <2>1. CASE i \in ids
    BY <1>4, <2>1
  <2>2. CASE i \in DOMAIN L.nodes
    <3>1. (\E f \in gs : i \in OwnIds(t, f)) \/ StubNode(L.nodes, i)
      BY <2>2 DEF Tracks
    <3>2. StubNode(L.nodes, i) => StubNode(M.nodes, i)
      BY <1>7, <2>2 DEF StubNode
    <3> QED BY <3>1, <3>2
  <2> QED BY <1>7, <2>1, <2>2
<1>11. gs \cup fs \subseteq Existing(t)
  BY <1>0
<1>12. Tracks(M, t, gs \cup fs)
  BY <1>3, <1>6, <1>7, <1>9, <1>10, <1>11 DEF Tracks
<1>13. \A i \in DOMAIN M.nodes : i \in DOMAIN L.nodes \/ \E f \in fs : i \in OwnIds(t, f)
  BY <1>4, <1>7
<1> QED BY <1>2, <1>12, <1>13

(* Stubs and edges leave what is tracked alone. *)
LEMMA WithStubsTracks ==
    ASSUME NEW t, NEW gs, NEW L, Tracks(L, t, gs), NEW S
    PROVE  /\ Tracks(WithStubs(L, S), t, gs)
           /\ \A x \in S : ExternalId(x[1], x[2]) \in DOMAIN WithStubs(L, S).nodes
           /\ DOMAIN L.nodes \subseteq DOMAIN WithStubs(L, S).nodes
<1>1. PICK M, X, N : M = WithStubs(L, S) /\ X = Stubs(S) /\ N = Over(L.nodes, X)
  OBVIOUS
<1>2. IsLayer(M) /\ M.order = L.order /\ M.nodes = N
  BY <1>1, WithStubsIs DEF Tracks
<1>3. /\ \A i : i \in DOMAIN X <=> \E x \in S : i = ExternalId(x[1], x[2])
      /\ \A i \in DOMAIN X : X[i] = Stub(i[2], i[3])
  BY <1>1 DEF Stubs
<1>4. ASSUME NEW i \in DOMAIN X PROVE StubNode(X, i)
  <2>1. PICK x \in S : i = ExternalId(x[1], x[2])
    BY <1>3
  <2>2. i[2] = x[1] /\ i[3] = x[2]
    BY <2>1 DEF ExternalId
  <2> QED BY <1>3, <2>1, <2>2 DEF StubNode
<1>5. /\ DOMAIN N = DOMAIN L.nodes \cup DOMAIN X
      /\ \A i \in DOMAIN L.nodes : N[i] = L.nodes[i]
      /\ \A i \in DOMAIN X \ DOMAIN L.nodes : N[i] = X[i]
      /\ N = [i \in DOMAIN N |-> N[i]]
  BY <1>1 DEF Over
<1>6. ASSUME NEW i \in DOMAIN N
      PROVE  (\E f \in gs : i \in OwnIds(t, f)) \/ StubNode(N, i)
  <2>1. CASE i \in DOMAIN L.nodes
    <3>1. (\E f \in gs : i \in OwnIds(t, f)) \/ StubNode(L.nodes, i)
      BY <2>1 DEF Tracks
    <3>2. StubNode(L.nodes, i) => StubNode(N, i)
      BY <1>5, <2>1 DEF StubNode
    <3> QED BY <3>1, <3>2
  <2>2. CASE i \notin DOMAIN L.nodes
    <3>1. i \in DOMAIN X /\ N[i] = X[i]
      BY <1>5, <2>2
    <3> QED BY <1>4, <3>1 DEF StubNode
  <2> QED BY <2>1, <2>2
<1>7. \A f \in gs : \A i \in OwnIds(t, f) : i \in DOMAIN N /\ N[i] = NodeOf(t, f, i)
  BY <1>5 DEF Tracks
<1>8. Tracks(M, t, gs)
  BY <1>2, <1>5, <1>6, <1>7 DEF Tracks
<1> QED BY <1>1, <1>2, <1>3, <1>5, <1>8

(* Adding edges touches no node and no list. *)
LEMMA TryEdgesTracks ==
    ASSUME NEW t, NEW gs, NEW L, Tracks(L, t, gs), NEW E
    PROVE  Tracks(TryEdges(L, E), t, gs)
<1>1. PICK M : M = TryEdges(L, E)
  OBVIOUS
<1>2. IsLayer(M) /\ M.nodes = L.nodes /\ M.order = L.order
  BY <1>1, TryEdgesIs, Zenon DEF Tracks
<1>3. Tracks(M, t, gs)
  BY <1>2 DEF Tracks
<1> QED BY <1>1, <1>3

(* The node of a file's own id is not a stub. *)
LEMMA OwnKind ==
    ASSUME NEW t \in Projects, NEW f \in Existing(t), NEW i \in OwnIds(t, f)
    PROVE  NodeOf(t, f, i).kind # "stub"
<1>1. CASE i = ModuleId(f)
  BY <1>1 DEF NodeOf, ModuleNode
<1>2. CASE i # ModuleId(f)
  <2>1. \E s \in Symbols(t, f) : Entity(s.id) = i
    BY <1>2 DEF OwnIds, SymbolIds
  <2>2. PICK s \in Symbols(t, f) : s = CHOOSE x \in Symbols(t, f) : Entity(x.id) = i
    BY <2>1, Zenon
  <2>3. NodeOf(t, f, i).kind = s.kind
    BY <1>2, <2>2 DEF NodeOf, EntityNode
  <2> QED BY <2>3, TextIs DEF WellFormed, Symbols
<1> QED BY <1>1, <1>2

(* Collecting idle stubs loses none of them. *)
LEMMA CollectedTracks ==
    ASSUME NEW t \in Projects, NEW gs, NEW L, Tracks(L, t, gs)
    PROVE  Tracks(Collected(L), t, gs)
<1>1. PICK M, idle : M = Collected(L) /\ idle = IdleStubs(L)
  OBVIOUS
<1>2. IsLayer(M) /\ M.order = L.order /\ M.nodes = Restrict(L.nodes, DOMAIN L.nodes \ idle)
  BY <1>1, CollectedIs, Zenon DEF Tracks
<1>3. /\ DOMAIN M.nodes = DOMAIN L.nodes \ idle
      /\ \A i \in DOMAIN M.nodes : M.nodes[i] = L.nodes[i]
      /\ M.nodes = [i \in DOMAIN M.nodes |-> M.nodes[i]]
  BY <1>2 DEF Restrict
<1>4. ASSUME NEW f \in gs, NEW i \in OwnIds(t, f)
      PROVE  i \in DOMAIN M.nodes /\ M.nodes[i] = NodeOf(t, f, i)
  <2>1. i \in DOMAIN L.nodes /\ L.nodes[i] = NodeOf(t, f, i) /\ f \in Existing(t)
    BY DEF Tracks
  <2>2. i \notin idle
    BY <1>1, <2>1, OwnKind DEF IdleStubs
  <2> QED BY <1>3, <2>1, <2>2
<1>5. ASSUME NEW i \in DOMAIN M.nodes
      PROVE  (\E f \in gs : i \in OwnIds(t, f)) \/ StubNode(M.nodes, i)
  <2>1. i \in DOMAIN L.nodes /\ M.nodes[i] = L.nodes[i]
    BY <1>3
  <2> QED BY <2>1 DEF Tracks, StubNode
<1>6. Tracks(M, t, gs)
  BY <1>2, <1>3, <1>4, <1>5 DEF Tracks
<1> QED BY <1>1, <1>6

(* The passes, one after the other. *)
LEMMA PassesTrack ==
    ASSUME NEW t, NEW gs, NEW L, Tracks(L, t, gs), NEW fs
    PROVE  /\ Tracks(ContainmentPass(L, t, fs), t, gs) /\ Tracks(ReferencesPass(L, t, fs), t, gs)
           /\ Tracks(InheritsPass(L, t, fs), t, gs) /\ Tracks(OverridesPass(L, t, fs), t, gs)
<1>1. \A M, E : Tracks(M, t, gs) => Tracks(TryEdges(M, E), t, gs)
  BY TryEdgesTracks
<1>2. \A S : Tracks(WithStubs(L, S), t, gs)
  BY WithStubsTracks
<1> QED BY <1>1, <1>2, Zenon DEF ContainmentPass, ReferencesPass, InheritsPass, OverridesPass

(* The passes over fs turn a layer of the other files into one of the project. *)
LEMMA PassesTracks ==
    ASSUME NEW t \in Projects, NEW gs, NEW L, Tracks(L, t, gs), NEW fs, fs \subseteq Existing(t),
           fs \cap gs = {}
    PROVE  Tracks(Passes(L, t, fs), t, gs \cup fs)
<1>1. Tracks(Materialized(L, t, fs), t, gs \cup fs)
  BY MaterializedTracks
<1> QED BY <1>1, PassesTrack, Zenon DEF Passes

(* A full build holds the whole project. *)
LEMMA FullTracks ==
    ASSUME NEW t \in Projects
    PROVE  Tracks(Full(t), t, Existing(t))
<1>1. Tracks(Passes(EmptyLayer, t, Existing(t)), t, {} \cup Existing(t))
  BY EmptyTracks, PassesTracks
<1> QED BY <1>1 DEF Full

(* A scoped build over a layer that holds the project before holds the project after. *)
LEMMA ScopedTracks ==
    ASSUME NEW t \in Projects, NEW u \in Projects, NEW L, Tracks(L, t, Existing(t)),
           NEW seeds, \A f \in Files \ seeds : u[f] = t[f]
    PROVE  /\ Tracks(Evict(L, Dirty(L, seeds)), u, Existing(u) \ Dirty(L, seeds))
           /\ Tracks(Scoped(L, u, seeds), u, Existing(u))
<1>1. PICK dirty, M, gs, fs : /\ dirty = Dirty(L, seeds) /\ M = Evict(L, dirty)
                              /\ gs = Existing(t) \ dirty /\ fs = dirty \cap Existing(u)
  OBVIOUS
<1>2. seeds \subseteq dirty
  BY <1>1 DEF Dirty
<1>3. gs = Existing(u) \ dirty /\ \A f \in gs : t[f] = u[f]
  BY <1>1, <1>2 DEF Existing
<1>4. Tracks(M, t, gs)
  BY <1>1, EvictTracks
<1>5. Tracks(M, u, gs)
  BY <1>3, <1>4, TracksText
<1>6. gs \cup fs = Existing(u) /\ gs \cap fs = {} /\ fs \subseteq Existing(u)
  BY <1>1, <1>3
<1>7. Tracks(Passes(M, u, fs), u, gs \cup fs)
  BY <1>5, <1>6, PassesTracks
<1>8. Tracks(Collected(Passes(M, u, fs)), u, Existing(u))
  BY <1>6, <1>7, CollectedTracks
<1>9. Scoped(L, u, seeds) = Collected(Passes(M, u, fs))
  BY <1>1 DEF Scoped
<1> QED BY <1>1, <1>3, <1>5, <1>8, <1>9

(* The layer of every revision holds its project. *)
Carried == text \in Projects /\ Tracks(layer, text, Existing(text))

(* The layer a commit produces, by either build. *)
LEMMA ProduceTracks ==
    ASSUME NEW t \in Projects, NEW u \in Projects, NEW L, Tracks(L, t, Existing(t)),
           NEW seeds, \A f \in Files \ seeds : u[f] = t[f], NEW rescan
    PROVE  Tracks(Produce(L, u, seeds, rescan), u, Existing(u))
<1>1. FullOf[u] = Full(u)
  BY DEF FullOf
<1>2. Tracks(Full(u), u, Existing(u)) /\ Tracks(Scoped(L, u, seeds), u, Existing(u))
  BY FullTracks, ScopedTracks
<1> QED BY <1>1, <1>2, Zenon DEF Produce

(* Opening a project. *)
LEMMA CarriedInit == Init => Carried
<1> SUFFICES ASSUME Init PROVE Carried
  OBVIOUS
<1>1. text \in Projects /\ layer = Full(text)
  BY DEF Init, FullOf
<1>2. Tracks(Full(text), text, Existing(text))
  BY <1>1, FullTracks
<1> QED BY <1>1, <1>2, Zenon DEF Carried

(* A commit. *)
LEMMA CarriedCommit ==
    ASSUME Carried, NEW seeds \in SUBSET Files, NEW rescan \in BOOLEAN, Commit(seeds, rescan)
    PROVE  Carried'
<1>1. PICK u \in Projects : /\ \A f \in Files \ seeds : u[f] = text[f]
                            /\ text' = u /\ layer' = Produce(layer, u, seeds, rescan)
  BY DEF Commit
<1>2. Tracks(Produce(layer, u, seeds, rescan), u, Existing(u))
  BY <1>1, ProduceTracks DEF Carried
<1>3. Tracks(layer', text', Existing(text'))
  BY <1>1, <1>2, Zenon
<1> QED BY <1>1, <1>3 DEF Carried, Tracks, IsLayer

(* Every step. *)
LEMMA CarriedStep == Carried /\ [Next]_vars => Carried'
<1>1. ASSUME Carried, UNCHANGED vars PROVE Carried'
  <2>1. text' = text /\ layer' = layer
    BY <1>1 DEF vars
  <2> QED BY <1>1, <2>1 DEF Carried
<1> QED BY <1>1, CarriedCommit DEF Next

(* Scoped commits carry forward exactly the modules and entities of the project, each listed
   once, in document order, under its file. *)
THEOREM CarriedInvariant == Spec => []Carried
BY CarriedInit, CarriedStep, PTL DEF Spec

-----------------------------------------------------------------------------
(* Numbers. *)

(* A set of numbers has a least element. *)
LEMMA LeastNumber ==
    ASSUME NEW T, T \subseteq Nat, T # {}
    PROVE  \E x \in T : \A y \in T : x <= y
<1>1. PICK R : R = OpToRel(<, Nat)
  OBVIOUS
<1>2. IsWellFoundedOn(OpToRel(<, Nat), Nat)
  BY NatLessThanWellFounded
<1>3. \A x, y \in Nat : <<x, y>> \in R <=> x < y
  BY <1>1 DEF OpToRel
<1>4. PICK x \in T : \A y \in T : ~ (<<y, x>> \in R)
  BY <1>1, <1>2, WFMin
<1>5. ASSUME NEW y \in T PROVE x <= y
  <2>1. x \in Nat /\ y \in Nat
    OBVIOUS
  <2>2. ~(y < x)
    BY <1>3, <1>4, <2>1
  <2> QED BY <2>1, <2>2
<1> QED BY <1>5

(* Induction up to a bound, over the set of the numbers that have the property. *)
LEMMA Induction ==
    ASSUME NEW N \in Nat, NEW P, 0 \in P, \A n \in 1..N : n - 1 \in P => n \in P
    PROVE  \A n \in 0..N : n \in P
<1> SUFFICES ASSUME (0..N) \ P # {} PROVE FALSE
  OBVIOUS
<1>1. PICK x \in (0..N) \ P : \A y \in (0..N) \ P : x <= y
  <2>1. PICK T : T = (0..N) \ P
    OBVIOUS
  <2>2. T \subseteq Nat /\ T # {}
    BY <2>1
  <2> QED BY <2>1, <2>2, LeastNumber
<1>2. x # 0
  BY <1>1
<1>3. x \in 1..N /\ x - 1 \in 0..N /\ ~(x <= x - 1)
  BY <1>2
<1> QED BY <1>1, <1>3

(* Min of FiniteSetsExt. *)
LEMMA MinIn ==
    ASSUME NEW T, T \subseteq Nat, T # {}
    PROVE  Min(T) \in T
BY LeastNumber DEF Min

-----------------------------------------------------------------------------
(* Looking up names and lines.  Two layers that agree on a file give the same answers. *)
AgreeOn(L, M, f) ==
    /\ NodesOf(L, f) = NodesOf(M, f)
    /\ \A i \in Range(NodesOf(L, f)) : L.nodes[i] = M.nodes[i]

(* The two lookups, with their parts named. *)
Hits(L, f, name) ==
    {n \in DOMAIN NodesOf(L, f) :
        name \in {L.nodes[NodesOf(L, f)[n]].name, L.nodes[NodesOf(L, f)[n]].qname}}
Found(ids, hits, q) ==
    IF Cardinality(ids) = 1 THEN CHOOSE i \in ids : TRUE
    ELSE IF hits # {} THEN q[Min(hits)] ELSE NoNode
Around(L, f, line) ==
    {i \in Range(NodesOf(L, f)) \ {ModuleId(f)} : L.nodes[i].lo <= line /\ line <= L.nodes[i].hi}
Smallest(L, A) ==
    CHOOSE i \in A : \A j \in A : L.nodes[i].hi - L.nodes[i].lo <= L.nodes[j].hi - L.nodes[j].lo

(* find_symbol_in_file and find_enclosing_symbol in these terms. *)
LEMMA LookupsAre ==
    /\ \A L, f, name :
          FindSymbol(L, f, name) = Found(Registered(L, f, name), Hits(L, f, name), NodesOf(L, f))
    /\ \A L, f, line :
          Enclosing(L, f, line) =
              IF Around(L, f, line) = {} THEN ModuleId(f) ELSE Smallest(L, Around(L, f, line))
<1>1. ASSUME NEW L, NEW f, NEW name
      PROVE  FindSymbol(L, f, name) = Found(Registered(L, f, name), Hits(L, f, name), NodesOf(L, f))
  BY SMT DEF FindSymbol, Hits, Found
<1>2. ASSUME NEW L, NEW f, NEW line
      PROVE  Enclosing(L, f, line) =
                 IF Around(L, f, line) = {} THEN ModuleId(f) ELSE Smallest(L, Around(L, f, line))
  BY SMT DEF Enclosing, Around, Smallest
<1> QED BY <1>1, <1>2

(* Layers that agree on a file answer lookups in it alike. *)
LEMMA LookupsAgree ==
    ASSUME NEW L, NEW M, NEW f, AgreeOn(L, M, f)
    PROVE  /\ \A name : FindSymbol(L, f, name) = FindSymbol(M, f, name)
           /\ \A line : Enclosing(L, f, line) = Enclosing(M, f, line)
<1>1. ASSUME NEW name PROVE FindSymbol(L, f, name) = FindSymbol(M, f, name)
  <2>1. Registered(L, f, name) = Registered(M, f, name)
    BY DEF AgreeOn, Registered
  <2>2. PICK q : q = NodesOf(L, f) /\ q = NodesOf(M, f)
    BY DEF AgreeOn
  <2>3. \A n \in DOMAIN q : L.nodes[q[n]] = M.nodes[q[n]]
    BY <2>2 DEF AgreeOn, Range
  <2>4. Hits(L, f, name) = Hits(M, f, name)
    BY <2>2, <2>3 DEF Hits
  <2> QED BY <2>1, <2>2, <2>4, LookupsAre
<1>2. ASSUME NEW line PROVE Enclosing(L, f, line) = Enclosing(M, f, line)
  <2>1. PICK A : A = Around(L, f, line)
    OBVIOUS
  <2>2. A = Around(M, f, line) /\ \A i \in A : L.nodes[i] = M.nodes[i]
    BY <2>1 DEF AgreeOn, Around
  <2>3. \A i \in A :
           (\A j \in A : L.nodes[i].hi - L.nodes[i].lo <= L.nodes[j].hi - L.nodes[j].lo)
           <=> (\A j \in A : M.nodes[i].hi - M.nodes[i].lo <= M.nodes[j].hi - M.nodes[j].lo)
    BY <2>2
  <2>4. Smallest(L, A) = Smallest(M, A)
    BY <2>3 DEF Smallest
  <2> QED BY <2>1, <2>2, <2>4, LookupsAre, Zenon
<1> QED BY <1>1, <1>2

(* Layers that hold the same text of a file agree on it. *)
LEMMA TracksAgree ==
    ASSUME NEW t \in Projects, NEW u \in Projects, NEW gs, NEW hs, NEW L, NEW M,
           Tracks(L, t, gs), Tracks(M, u, hs), NEW f, f \in gs, f \in hs, t[f] = u[f]
    PROVE  AgreeOn(L, M, f)
<1>1. f \in Existing(t)
  BY DEF Tracks
<1>2. NodesOf(L, f) = Listing(t, f) /\ NodesOf(M, f) = Listing(u, f)
  BY DEF NodesOf, Tracks
<1>3. Listing(t, f) = Listing(u, f) /\ OwnIds(t, f) = OwnIds(u, f)
  BY OwnText
<1>4. Range(Listing(t, f)) = OwnIds(t, f)
  BY <1>1, ListingIs
<1>5. ASSUME NEW i \in OwnIds(t, f) PROVE L.nodes[i] = M.nodes[i]
  <2>1. L.nodes[i] = NodeOf(t, f, i) /\ M.nodes[i] = NodeOf(u, f, i)
    BY <1>3 DEF Tracks
  <2> QED BY <2>1, NodeOfText
<1> QED BY <1>2, <1>3, <1>4, <1>5 DEF AgreeOn

(* The node of a symbol is made from that symbol. *)
LEMMA SymbolNode ==
    ASSUME NEW t \in Projects, NEW f \in Existing(t), NEW s \in Symbols(t, f)
    PROVE  NodeOf(t, f, Entity(s.id)) = EntityNode(t, f, s)
<1>1. PICK q : q = t[f].syms
  OBVIOUS
<1>2. /\ Symbols(t, f) = {q[n] : n \in DOMAIN q}
      /\ \A m, n \in DOMAIN q : q[m].id = q[n].id => m = n
  BY <1>1, TextIs DEF Symbols, Range, WellFormed
<1>3. ASSUME NEW x \in Symbols(t, f), Entity(x.id) = Entity(s.id) PROVE x = s
  BY <1>2, <1>3, IdsDiffer
<1>4. (CHOOSE x \in Symbols(t, f) : Entity(x.id) = Entity(s.id)) = s
  BY <1>3, Zenon
<1>5. Entity(s.id) # ModuleId(f)
  BY IdsDiffer
<1> QED BY <1>4, <1>5, Zenon DEF NodeOf

(* What a lookup finds is of the file, and a symbol's qualified name is found. *)
LEMMA FindOwn ==
    ASSUME NEW t \in Projects, NEW gs, NEW L, Tracks(L, t, gs), NEW f \in gs, NEW name
    PROVE  /\ FindSymbol(L, f, name) = NoNode \/ FindSymbol(L, f, name) \in OwnIds(t, f)
           /\ \A s \in Symbols(t, f) : s.qname = name => FindSymbol(L, f, name) \in OwnIds(t, f)
<1>1. PICK ids, q : ids = Registered(L, f, name) /\ q = NodesOf(L, f)
  OBVIOUS
<1>2. f \in Existing(t) /\ q = Listing(t, f)
  BY <1>1 DEF Tracks, NodesOf
<1>3. Range(q) = OwnIds(t, f)
  BY <1>2, ListingIs
<1>4. PICK hits : hits = Hits(L, f, name)
  OBVIOUS
<1>5. FindSymbol(L, f, name) = IF Cardinality(ids) = 1 THEN CHOOSE i \in ids : TRUE
                               ELSE IF hits # {} THEN q[Min(hits)] ELSE NoNode
  BY <1>1, <1>4, LookupsAre DEF Found
<1>6. CASE Cardinality(ids) = 1
  <2>1. ids # {}
    BY <1>6, FS_EmptySet
  <2>2. (CHOOSE i \in ids : TRUE) \in ids
    BY <2>1, Zenon
  <2>3. ids \subseteq Range(q)
    BY <1>1 DEF Registered
  <2> QED BY <1>3, <1>5, <1>6, <2>2, <2>3
<1>7. CASE Cardinality(ids) # 1 /\ hits # {}
  <2>1. hits \subseteq Nat /\ hits \subseteq DOMAIN q
    <3>1. SymbolList(t, f) \in Seq(SymbolIds(t, f))
      BY <1>2, ListingIs
    <3>2. Listing(t, f) = <<ModuleId(f)>> \o SymbolList(t, f)
      BY DEF Listing
    <3>3. DOMAIN Listing(t, f) = 1..(1 + Len(SymbolList(t, f)))
      BY <3>1, <3>2
    <3>4. hits \subseteq DOMAIN q
      BY <1>1, <1>4 DEF Hits
    <3> QED BY <1>2, <3>1, <3>3, <3>4
  <2>2. Min(hits) \in hits
    BY <1>7, <2>1, MinIn
  <2>3. q[Min(hits)] \in Range(q)
    BY <2>1, <2>2 DEF Range
  <2> QED BY <1>3, <1>5, <1>7, <2>3
<1>8. CASE Cardinality(ids) # 1 /\ hits = {}
  <2>1. FindSymbol(L, f, name) = NoNode
    BY <1>5, <1>8
  <2>2. ASSUME NEW s \in Symbols(t, f), s.qname = name PROVE FALSE
    <3>1. Entity(s.id) \in OwnIds(t, f)
      BY DEF OwnIds, SymbolIds
    <3>2. L.nodes[Entity(s.id)] = EntityNode(t, f, s)
      BY <1>2, <3>1, SymbolNode DEF Tracks
    <3>3. L.nodes[Entity(s.id)].qname = name
      BY <2>2, <3>2 DEF EntityNode
    <3>4. PICK m \in DOMAIN q : q[m] = Entity(s.id)
      BY <1>3, <3>1 DEF Range
    <3>5. m \in hits
      BY <1>1, <1>4, <3>3, <3>4 DEF Hits
    <3> QED BY <1>8, <3>5
  <2> QED BY <2>1, <2>2
<1> QED BY <1>6, <1>7, <1>8

(* The entity around a line is of the file. *)
LEMMA EnclosingOwn ==
    ASSUME NEW t \in Projects, NEW gs, NEW L, Tracks(L, t, gs), NEW f \in gs, NEW line \in Nat
    PROVE  Enclosing(L, f, line) \in OwnIds(t, f)
<1>1. PICK A, x : A = Around(L, f, line) /\ x = Smallest(L, A)
  OBVIOUS
<1>3. Enclosing(L, f, line) = IF A = {} THEN ModuleId(f) ELSE x
  BY <1>1, LookupsAre, Zenon
<1>4. f \in Existing(t) /\ NodesOf(L, f) = Listing(t, f)
  BY DEF Tracks, NodesOf
<1>5. A \subseteq SymbolIds(t, f)
  BY <1>1, <1>4, ListingIs DEF OwnIds, Around
<1>6. ASSUME NEW i \in A
      PROVE  L.nodes[i].lo \in Nat /\ L.nodes[i].hi \in Nat /\ L.nodes[i].hi - L.nodes[i].lo \in Nat
  <2>1. PICK s \in Symbols(t, f) : i = Entity(s.id)
    BY <1>5 DEF SymbolIds
  <2>2. i \in OwnIds(t, f)
    BY <1>5 DEF OwnIds
  <2>3. L.nodes[i] = EntityNode(t, f, s)
    BY <1>4, <2>1, <2>2, SymbolNode DEF Tracks
  <2>4. s.lo \in Nat /\ s.hi \in Nat
    BY <1>4, TextIs DEF WellFormed, Symbols
  <2>5. L.nodes[i].lo = s.lo /\ L.nodes[i].hi = s.hi
    BY <2>3 DEF EntityNode
  <2>6. s.lo <= line /\ line <= s.hi
    BY <1>1, <2>5 DEF Around
  <2> QED BY <2>4, <2>5, <2>6
<1>7. ASSUME A # {} PROVE x \in A
  <2>1. PICK T : T = {L.nodes[i].hi - L.nodes[i].lo : i \in A}
    OBVIOUS
  <2>2. T \subseteq Nat /\ T # {}
    BY <1>6, <1>7, <2>1
  <2>3. PICK m \in T : \A n \in T : m <= n
    BY <2>2, LeastNumber
  <2>4. PICK i \in A : m = L.nodes[i].hi - L.nodes[i].lo
    BY <2>1
  <2>5. \A j \in A : L.nodes[i].hi - L.nodes[i].lo <= L.nodes[j].hi - L.nodes[j].lo
    BY <2>1, <2>3, <2>4
  <2> QED BY <1>1, <2>5 DEF Smallest
<1> QED BY <1>3, <1>5, <1>7 DEF OwnIds

-----------------------------------------------------------------------------
(* Resolution.  What a name resolves to depends on the files it reaches. *)

(* The target of a name, over texts that agree where it reaches. *)
LEMMA TargetAgrees ==
    ASSUME NEW t, NEW u, NEW from, NEW name, \A g \in Reaches(t, from, name) : t[g] = u[g]
    PROVE  Target(t, from, name) = Target(u, from, name)
<1>1. CASE from \in Packages
  BY <1>1 DEF Target, Defines
<1>2. CASE from \notin Packages
  <2>1. t[from] = u[from]
    BY <1>2 DEF Reaches
  <2>2. Exports(t, from, name) = Exports(u, from, name)
    BY <2>1 DEF Exports
  <2>3. ASSUME NEW g \in {from} \cup Exports(t, from, name)
        PROVE  Defines(t, g, name) <=> Defines(u, g, name)
    <3>1. CASE g \in Packages
      BY <3>1 DEF Defines
    <3>2. CASE g \notin Packages
      <4>1. t[g] = u[g]
        BY <3>2 DEF Reaches
      <4>2. Names(t, g) = Names(u, g)
        BY <4>1 DEF Names, Symbols
      <4> QED BY <4>2 DEF Defines
    <3> QED BY <3>1, <3>2
  <2> QED BY <2>2, <2>3 DEF Target
<1> QED BY <1>1, <1>2

(* It is a package, or an existing file that it reaches. *)
LEMMA TargetReached ==
    ASSUME NEW t \in Projects, NEW from \in Files \cup Packages, NEW name,
           NEW to \in Target(t, from, name), to \notin Packages
    PROVE  to \in Existing(t) /\ to \in Reaches(t, from, name)
<1>1. to \in {from} \cup Exports(t, from, name) /\ Defines(t, to, name)
  BY DEF Target
<1>2. to \in Reaches(t, from, name)
  BY <1>1 DEF Reaches
<1>3. to \in Files
  <2>1. CASE to = from
    BY <2>1
  <2>2. CASE to # from
    <3>1. to \in Exports(t, from, name)
      BY <1>1, <2>2
    <3>2. from \notin Packages /\ t[from] # Absent
      BY <3>1 DEF Exports
    <3>3. from \in Existing(t)
      BY <3>2 DEF Existing
    <3>4. PICK x \in t[from].exports : to = x.from
      BY <3>1, <3>2 DEF Exports
    <3> QED BY <3>3, <3>4, TextIs DEF WellFormed
  <2> QED BY <2>1, <2>2
<1>4. t[to] # Absent
  BY <1>1 DEF Defines, Names, Symbols
<1> QED BY <1>2, <1>3, <1>4 DEF Existing

(* The edges of one base class, of one file's references and of one file's own text. *)
InheritsOf(L, t, b) ==
    {Edge(Entity(b.cls), Resolved(L, to, b.name), "inherits", 0) :
        to \in {to \in Target(t, b.from, b.name) : Resolved(L, to, b.name) # NoNode}}
ReferencesEdges(L, t, f) == UNION {OccurrenceEdges(L, t, f, o) : o \in t[f].occs}
Derived(L, t, f) ==
    Containment(L, t, f) \cup ReferencesEdges(L, t, f) \cup InheritsEdges(L, t, f)

(* Fields of an edge. *)
LEMMA EdgeIs ==
    ASSUME NEW s, NEW d, NEW k, NEW a
    PROVE  Edge(s, d, k, a).source = s /\ Edge(s, d, k, a).target = d /\ Edge(s, d, k, a).kind = k
BY DEF Edge

(* The containment edges of a file depend on its text and its nodes. *)
LEMMA ContainmentAgrees ==
    ASSUME NEW t, NEW u, NEW f, t[f] = u[f], NEW L, NEW M, AgreeOn(L, M, f)
    PROVE  Containment(L, t, f) = Containment(M, u, f)
<1>1. \A name : FindSymbol(L, f, name) = FindSymbol(M, f, name)
  BY LookupsAgree
<1>2. \A s : Parent(L, f, s) = Parent(M, f, s)
  BY <1>1 DEF Parent
<1>3. Symbols(t, f) = Symbols(u, f)
  BY DEF Symbols
<1> QED BY <1>2, <1>3 DEF Containment

(* Two layers resolve a name alike in a package and in a file they agree on. *)
LEMMA ResolvedAgrees ==
    ASSUME NEW L, NEW M, NEW to, to \in Packages \/ AgreeOn(L, M, to), NEW name
    PROVE  Resolved(L, to, name) = Resolved(M, to, name)
BY LookupsAgree DEF Resolved

(* So do the edges of a base class, on the file it resolves to. *)
LEMMA InheritsAgrees ==
    ASSUME NEW t, NEW u, NEW L, NEW M, NEW b,
           Target(t, b.from, b.name) = Target(u, b.from, b.name),
           \A to \in Target(t, b.from, b.name) : to \in Packages \/ AgreeOn(L, M, to)
    PROVE  InheritsOf(L, t, b) = InheritsOf(M, u, b)
<1>1. \A to \in Target(t, b.from, b.name) : Resolved(L, to, b.name) = Resolved(M, to, b.name)
  BY ResolvedAgrees
<1> QED BY <1>1 DEF InheritsOf

(* And those of an occurrence. *)
LEMMA OccurrenceAgrees ==
    ASSUME NEW t, NEW u, NEW L, NEW M, NEW f, NEW o, AgreeOn(L, M, f),
           o.role = "module" => GotoModule(t, o.from) = GotoModule(u, o.from),
           o.role # "module" => /\ Target(t, o.from, o.name) = Target(u, o.from, o.name)
                                /\ \A to \in Target(t, o.from, o.name) :
                                      to \in Packages \/ AgreeOn(L, M, to)
    PROVE  OccurrenceEdges(L, t, f, o) = OccurrenceEdges(M, u, f, o)
<1>1. CASE o.role = "module"
  BY <1>1 DEF OccurrenceEdges
<1>2. CASE o.role # "module"
  <2>1. PICK T : T = Target(t, o.from, o.name) /\ T = Target(u, o.from, o.name)
    BY <1>2
  <2>2. \A to \in T : Resolved(L, to, o.name) = Resolved(M, to, o.name)
    BY <1>2, <2>1, ResolvedAgrees
  <2>3. PICK around : around = Enclosing(L, f, o.line) /\ around = Enclosing(M, f, o.line)
    BY LookupsAgree
  <2>4. PICK hit : hit = {to \in T : Resolved(L, to, o.name) \notin {NoNode, around}}
    OBVIOUS
  <2>5. hit = {to \in T : Resolved(M, to, o.name) \notin {NoNode, around}}
    BY <2>2, <2>4
  <2>6. OccurrenceEdges(L, t, f, o) =
            {ImportEdge(f, to, o.line) : to \in hit \ {f}} \cup
            {Edge(around, Resolved(L, to, o.name), "references", o.line) :
                to \in {to \in hit : o.role = "read"}}
    BY <1>2, <2>1, <2>3, <2>4 DEF OccurrenceEdges
  <2>7. OccurrenceEdges(M, u, f, o) =
            {ImportEdge(f, to, o.line) : to \in hit \ {f}} \cup
            {Edge(around, Resolved(M, to, o.name), "references", o.line) :
                to \in {to \in hit : o.role = "read"}}
    BY <1>2, <2>1, <2>3, <2>5 DEF OccurrenceEdges
  <2> QED BY <2>2, <2>4, <2>6, <2>7
<1> QED BY <1>1, <1>2

(* InheritsEdges is made of the edges of each base class. *)
LEMMA InheritsUnion ==
    ASSUME NEW L, NEW t, NEW f
    PROVE  InheritsEdges(L, t, f) = UNION {InheritsOf(L, t, b) : b \in t[f].supers}
BY DEF InheritsEdges, InheritsOf

(* Two layers of one project derive the same edges. *)
LEMMA OneProject ==
    ASSUME NEW t \in Projects, NEW L, NEW M, Tracks(L, t, Existing(t)), Tracks(M, t, Existing(t)),
           NEW f \in Existing(t)
    PROVE  /\ Containment(L, t, f) = Containment(M, t, f)
           /\ ReferencesEdges(L, t, f) = ReferencesEdges(M, t, f)
           /\ InheritsEdges(L, t, f) = InheritsEdges(M, t, f)
           /\ Derived(L, t, f) = Derived(M, t, f)
<1>1. \A g \in Existing(t) : AgreeOn(L, M, g)
  BY TracksAgree
<1>2. /\ \A b \in t[f].supers : b.from \in Files \cup Packages
      /\ \A o \in t[f].occs : o.from \in Files \cup Packages
  BY TextIs DEF WellFormed
<1>3. Containment(L, t, f) = Containment(M, t, f)
  BY <1>1, ContainmentAgrees
<1>4. ASSUME NEW b \in t[f].supers PROVE InheritsOf(L, t, b) = InheritsOf(M, t, b)
  <2>1. \A to \in Target(t, b.from, b.name) : to \in Packages \/ AgreeOn(L, M, to)
    BY <1>1, <1>2, TargetReached
  <2> QED BY <2>1, InheritsAgrees
<1>5. ASSUME NEW o \in t[f].occs PROVE OccurrenceEdges(L, t, f, o) = OccurrenceEdges(M, t, f, o)
  <2>1. \A to \in Target(t, o.from, o.name) : to \in Packages \/ AgreeOn(L, M, to)
    BY <1>1, <1>2, TargetReached
  <2> QED BY <1>1, <2>1, OccurrenceAgrees
<1>6. InheritsEdges(L, t, f) = InheritsEdges(M, t, f)
  BY <1>4, InheritsUnion
<1>7. ReferencesEdges(L, t, f) = ReferencesEdges(M, t, f)
  BY <1>5 DEF ReferencesEdges
<1> QED BY <1>3, <1>6, <1>7 DEF Derived

-----------------------------------------------------------------------------
(* Where edges start and end. *)
Owned(t, i) == \E g \in Existing(t) : i \in OwnIds(t, g)

(* Containment edges stay in their file. *)
LEMMA ContainmentEnds ==
    ASSUME NEW t \in Projects, NEW L, Tracks(L, t, Existing(t)), NEW f \in Existing(t),
           NEW e \in Containment(L, t, f)
    PROVE  /\ e.source \in OwnIds(t, f) /\ e.target \in SymbolIds(t, f)
           /\ e.kind \in {"defines", "contains"}
<1>1. PICK s \in Symbols(t, f) :
          e = Edge(Parent(L, f, s), Entity(s.id),
                   IF Parent(L, f, s) = ModuleId(f) THEN "defines" ELSE "contains", 0)
  BY DEF Containment
<1>2. /\ e.source = Parent(L, f, s) /\ e.target = Entity(s.id) /\ e.kind \in {"defines", "contains"}
  BY <1>1, EdgeIs
<1>3. Parent(L, f, s) \in OwnIds(t, f)
  <2>1. \A name : FindSymbol(L, f, name) = NoNode \/ FindSymbol(L, f, name) \in OwnIds(t, f)
    BY FindOwn
  <2>2. ModuleId(f) \in OwnIds(t, f)
    BY DEF OwnIds
  <2> QED BY <2>1, <2>2 DEF Parent
<1> QED BY <1>2, <1>3 DEF SymbolIds

(* A name resolves to the stub of a package or to a node of an existing file. *)
LEMMA ResolvedEnds ==
    ASSUME NEW t \in Projects, NEW L, Tracks(L, t, Existing(t)),
           NEW from \in Files \cup Packages, NEW name, NEW to \in Target(t, from, name),
           Resolved(L, to, name) # NoNode
    PROVE  \/ to \in Packages /\ Resolved(L, to, name) = ExternalId(to, name)
           \/ /\ to \in Existing(t) /\ to \in Reaches(t, from, name)
              /\ Resolved(L, to, name) \in OwnIds(t, to)
<1>1. CASE to \in Packages
  BY <1>1 DEF Resolved
<1>2. CASE to \notin Packages
  <2>1. to \in Existing(t) /\ to \in Reaches(t, from, name)
    BY <1>2, TargetReached
  <2>2. Resolved(L, to, name) = FindSymbol(L, to, name)
    BY <1>2 DEF Resolved
  <2> QED BY <2>1, <2>2, FindOwn
<1> QED BY <1>1, <1>2

(* An inherits edge starts at a class of its file and ends at a node of the project or a stub it made. *)
LEMMA InheritsEnds ==
    ASSUME NEW t \in Projects, NEW L, Tracks(L, t, Existing(t)), NEW f \in Existing(t),
           NEW b \in t[f].supers, NEW e \in InheritsOf(L, t, b)
    PROVE  /\ e.source = Entity(b.cls) /\ e.source \in OwnIds(t, f) /\ e.kind = "inherits"
           /\ \/ \E g \in Existing(t) : g \in Reaches(t, b.from, b.name) /\ e.target \in OwnIds(t, g)
              \/ \E x \in InheritsStubs(t, f) : e.target = ExternalId(x[1], x[2])
<1>1. PICK to \in Target(t, b.from, b.name) :
          /\ Resolved(L, to, b.name) # NoNode
          /\ e = Edge(Entity(b.cls), Resolved(L, to, b.name), "inherits", 0)
  BY DEF InheritsOf
<1>2. e.source = Entity(b.cls) /\ e.target = Resolved(L, to, b.name) /\ e.kind = "inherits"
  BY <1>1, EdgeIs
<1>3. Entity(b.cls) \in OwnIds(t, f)
  <2>1. t[f] # Absent /\ b.cls \in {s.id : s \in Range(t[f].syms)}
    BY TextIs DEF WellFormed
  <2> QED BY <2>1 DEF OwnIds, SymbolIds, Symbols
<1>4. b.from \in Files \cup Packages
  BY TextIs DEF WellFormed
<1>5. CASE to \in Packages /\ Resolved(L, to, b.name) = ExternalId(to, b.name)
  <2>1. PICK x : x = <<to, b.name>>
    OBVIOUS
  <2>2. x \in InheritsStubs(t, f)
    BY <1>1, <1>5, <2>1 DEF InheritsStubs
  <2>3. e.target = ExternalId(x[1], x[2])
    BY <1>2, <1>5, <2>1
  <2> QED BY <1>2, <1>3, <2>2, <2>3
<1>6. CASE /\ to \in Existing(t) /\ to \in Reaches(t, b.from, b.name)
           /\ Resolved(L, to, b.name) \in OwnIds(t, to)
  BY <1>2, <1>3, <1>6
<1> QED BY <1>1, <1>4, <1>5, <1>6, ResolvedEnds

(* The fields of an imports edge. *)
LEMMA ImportEdgeIs ==
    ASSUME NEW f, NEW to, NEW line
    PROVE  /\ ImportEdge(f, to, line).source = ModuleId(f) /\ ImportEdge(f, to, line).kind = "imports"
           /\ to \in Packages => ImportEdge(f, to, line).target = ExternalId(to, ModuleName)
           /\ to \notin Packages => ImportEdge(f, to, line).target = ModuleId(to)
BY EdgeIs DEF ImportEdge

(* The edges of an occurrence start in its file and end at a node of the project or a stub it made. *)
LEMMA OccurrenceEnds ==
    ASSUME NEW t \in Projects, NEW L, Tracks(L, t, Existing(t)), NEW f \in Existing(t),
           NEW o \in t[f].occs, NEW e \in OccurrenceEdges(L, t, f, o)
    PROVE  /\ e.source \in OwnIds(t, f) /\ e.kind \in {"imports", "references"}
           /\ e.kind = "imports" => e.source = ModuleId(f)
           /\ Owned(t, e.target) \/ \E x \in OccurrenceStubs(t, o) : e.target = ExternalId(x[1], x[2])
<1>1. o.from \in Files \cup Packages /\ o.line \in Nat
  BY TextIs DEF WellFormed
<1>2. ModuleId(f) \in OwnIds(t, f)
  BY DEF OwnIds
<1>3. CASE o.role = "module"
  <2>1. PICK to \in GotoModule(t, o.from) : e = ImportEdge(f, to, o.line)
    BY <1>3 DEF OccurrenceEdges
  <2>2. e.source = ModuleId(f) /\ e.kind = "imports"
    BY <2>1, ImportEdgeIs
  <2>3. CASE to \in Packages
    <3>1. PICK x : x = <<to, ModuleName>>
      OBVIOUS
    <3>2. x \in OccurrenceStubs(t, o)
      BY <1>3, <2>1, <2>3, <3>1 DEF OccurrenceStubs
    <3>3. e.target = ExternalId(x[1], x[2])
      BY <2>1, <2>3, <3>1, ImportEdgeIs
    <3> QED BY <1>2, <2>2, <3>2, <3>3
  <2>4. CASE to \notin Packages
    <3>1. to \in Existing(t)
      BY <1>1, <2>1, <2>4 DEF GotoModule, Existing
    <3>2. e.target \in OwnIds(t, to)
      BY <2>1, <2>4, ImportEdgeIs DEF OwnIds
    <3> QED BY <1>2, <2>2, <3>1, <3>2 DEF Owned
  <2> QED BY <2>3, <2>4
<1>4. CASE o.role # "module"
  <2>1. PICK around, hit :
            /\ around = Enclosing(L, f, o.line)
            /\ hit = {to \in Target(t, o.from, o.name) : Resolved(L, to, o.name) \notin {NoNode, around}}
    OBVIOUS
  <2>2. OccurrenceEdges(L, t, f, o) =
            {ImportEdge(f, to, o.line) : to \in hit \ {f}} \cup
            {Edge(around, Resolved(L, to, o.name), "references", o.line) :
                to \in {to \in hit : o.role = "read"}}
    BY <1>4, <2>1 DEF OccurrenceEdges
  <2>3. PICK to \in hit : \/ e = ImportEdge(f, to, o.line)
                          \/ e = Edge(around, Resolved(L, to, o.name), "references", o.line)
    BY <2>2
  <2>4. to \in Target(t, o.from, o.name) /\ Resolved(L, to, o.name) # NoNode
    BY <2>1, <2>3
  <2>5. \/ to \in Packages /\ Resolved(L, to, o.name) = ExternalId(to, o.name)
        \/ to \notin Packages /\ to \in Existing(t) /\ Resolved(L, to, o.name) \in OwnIds(t, to)
    <3>1. Existing(t) \cap Packages = {}
      BY CodeLayerAssumption DEF Existing
    <3> QED BY <1>1, <2>4, <3>1, ResolvedEnds
  <2>6. around \in OwnIds(t, f)
    BY <1>1, <2>1, EnclosingOwn
  <2>7. ASSUME to \in Packages, NEW n \in {o.name, ModuleName}
        PROVE  \E x \in OccurrenceStubs(t, o) : ExternalId(to, n) = ExternalId(x[1], x[2])
    <3>1. PICK x : x = <<to, n>>
      OBVIOUS
    <3>2. x \in OccurrenceStubs(t, o)
      BY <1>4, <2>4, <2>7, <3>1 DEF OccurrenceStubs
    <3>3. ExternalId(to, n) = ExternalId(x[1], x[2])
      BY <3>1
    <3> QED BY <3>2, <3>3
  <2>8. CASE e = ImportEdge(f, to, o.line)
    <3>1. e.source = ModuleId(f) /\ e.kind = "imports"
      BY <2>8, ImportEdgeIs
    <3>2. CASE to \in Packages
      <4>1. e.target = ExternalId(to, ModuleName)
        BY <2>8, <3>2, ImportEdgeIs
      <4> QED BY <1>2, <2>7, <3>1, <3>2, <4>1
    <3>3. CASE to \notin Packages
      <4>1. e.target = ModuleId(to) /\ to \in Existing(t)
        BY <2>5, <2>8, <3>3, ImportEdgeIs
      <4> QED BY <1>2, <3>1, <4>1 DEF Owned, OwnIds
    <3> QED BY <3>2, <3>3
  <2>9. CASE e = Edge(around, Resolved(L, to, o.name), "references", o.line)
    <3>1. e.source = around /\ e.kind = "references" /\ e.target = Resolved(L, to, o.name)
      BY <2>9, EdgeIs
    <3>2. CASE to \in Packages
      <4>1. e.target = ExternalId(to, o.name)
        BY <2>5, <3>1, <3>2
      <4> QED BY <2>6, <2>7, <3>1, <3>2, <4>1
    <3>3. CASE to \notin Packages
      BY <2>5, <2>6, <3>1, <3>3 DEF Owned
    <3> QED BY <3>2, <3>3
  <2> QED BY <2>3, <2>8, <2>9
<1> QED BY <1>3, <1>4

(* The override of one method of one class. *)
OverridesOf(L, f, x) ==
    LET near == Nearest(L, FindSymbol(L, f, x[1].qname), x[2].name)
    IN  IF near = {} THEN {}
        ELSE {Edge(Entity(x[2].id), CHOOSE y \in near : TRUE, "overrides", 0)}

(* The overrides edges of a file, method by method. *)
LEMMA OverridesUnion ==
    ASSUME NEW L, NEW t, NEW f
    PROVE  OverridesEdges(L, t, f) = UNION {OverridesOf(L, f, x) : x \in ClassMethods(t, f)}
BY DEF OverridesEdges, OverridesOf

(* The methods found are nodes of the project. *)
LEMMA NearestOwned ==
    ASSUME NEW t \in Projects, NEW L, Tracks(L, t, Existing(t)), NEW i, NEW name,
           NEW y \in Nearest(L, i, name)
    PROVE  Owned(t, y)
<1>1. PICK cs : y \in Methods(L, cs, name)
  BY DEF Nearest
<1>2. y \in DOMAIN L.nodes /\ L.nodes[y].kind = "method"
  BY <1>1 DEF Methods
<1>3. ~StubNode(L.nodes, y)
  <2>1. \A p, n : Stub(p, n).kind = "stub"
    BY DEF Stub
  <2> QED BY <1>2, <2>1 DEF StubNode
<1> QED BY <1>2, <1>3 DEF Tracks, Owned

(* An overrides edge starts in its file and ends at a node of the project. *)
LEMMA OverridesEnds ==
    ASSUME NEW t \in Projects, NEW L, Tracks(L, t, Existing(t)), NEW f \in Existing(t),
           NEW e \in OverridesEdges(L, t, f)
    PROVE  e.source \in OwnIds(t, f) /\ e.kind = "overrides" /\ Owned(t, e.target)
<1>1. PICK x \in ClassMethods(t, f) : e \in OverridesOf(L, f, x)
  BY OverridesUnion
<1>2. PICK near : near = Nearest(L, FindSymbol(L, f, x[1].qname), x[2].name)
  OBVIOUS
<1>3. near # {} /\ e = Edge(Entity(x[2].id), CHOOSE y \in near : TRUE, "overrides", 0)
  BY <1>1, <1>2 DEF OverridesOf
<1>4. (CHOOSE y \in near : TRUE) \in near
  BY <1>3, Zenon
<1>5. /\ e.source = Entity(x[2].id) /\ e.kind = "overrides" /\ e.target = CHOOSE y \in near : TRUE
  BY <1>3, EdgeIs
<1>6. Owned(t, e.target)
  BY <1>2, <1>4, <1>5, NearestOwned
<1>7. x[2] \in Symbols(t, f)
  BY DEF ClassMethods
<1> QED BY <1>5, <1>6, <1>7 DEF OwnIds, SymbolIds

-----------------------------------------------------------------------------
(* The passes add the edges they derive: try_add_edge drops none of them. *)

(* What a file of the project owns is a node. *)
LEMMA OwnedNode ==
    ASSUME NEW t, NEW L, Tracks(L, t, Existing(t)), NEW i, Owned(t, i)
    PROVE  i \in DOMAIN L.nodes
BY DEF Tracks, Owned

(* Edges between nodes are all added. *)
LEMMA TryEdgesAll ==
    ASSUME NEW L, IsLayer(L), NEW E, \A e \in E : e.source \in DOMAIN L.nodes /\ e.target \in DOMAIN L.nodes
    PROVE  TryEdges(L, E).edges = L.edges \cup E
<1>1. {e \in E : e.source \in DOMAIN L.nodes /\ e.target \in DOMAIN L.nodes} = E
  OBVIOUS
<1> QED BY <1>1, TryEdgesIs

(* Pass 3. *)
LEMMA ContainmentPassEdges ==
    ASSUME NEW t \in Projects, NEW L, Tracks(L, t, Existing(t)), NEW fs, fs \subseteq Existing(t)
    PROVE  ContainmentPass(L, t, fs).edges = L.edges \cup UNION {Containment(L, t, f) : f \in fs}
<1>1. ASSUME NEW e \in UNION {Containment(L, t, f) : f \in fs}
      PROVE  e.source \in DOMAIN L.nodes /\ e.target \in DOMAIN L.nodes
  <2>1. PICK f \in fs : e \in Containment(L, t, f)
    OBVIOUS
  <2>2. e.source \in OwnIds(t, f) /\ e.target \in OwnIds(t, f)
    BY <2>1, ContainmentEnds DEF OwnIds
  <2> QED BY <2>2 DEF Tracks
<1> QED BY <1>1, TryEdgesAll DEF ContainmentPass, Tracks

(* Pass 4. *)
LEMMA ReferencesPassEdges ==
    ASSUME NEW t \in Projects, NEW L, Tracks(L, t, Existing(t)), NEW fs, fs \subseteq Existing(t)
    PROVE  ReferencesPass(L, t, fs).edges = L.edges \cup UNION {ReferencesEdges(L, t, f) : f \in fs}
<1>1. PICK S, E, M : /\ S = UNION {UNION {OccurrenceStubs(t, o) : o \in t[f].occs} : f \in fs}
                     /\ E = UNION {ReferencesEdges(L, t, f) : f \in fs}
                     /\ M = WithStubs(L, S)
  OBVIOUS
<1>2. /\ Tracks(M, t, Existing(t)) /\ \A x \in S : ExternalId(x[1], x[2]) \in DOMAIN M.nodes
  BY <1>1, WithStubsTracks
<1>3. M.edges = L.edges /\ IsLayer(M)
  BY <1>1, WithStubsIs DEF Tracks
<1>4. ASSUME NEW e \in E PROVE e.source \in DOMAIN M.nodes /\ e.target \in DOMAIN M.nodes
  <2>1. PICK f \in fs : e \in ReferencesEdges(L, t, f)
    BY <1>1
  <2>2. PICK o \in t[f].occs : e \in OccurrenceEdges(L, t, f, o)
    BY <2>1 DEF ReferencesEdges
  <2>3. /\ e.source \in OwnIds(t, f)
        /\ Owned(t, e.target) \/ \E x \in OccurrenceStubs(t, o) : e.target = ExternalId(x[1], x[2])
    BY <2>2, OccurrenceEnds
  <2>4. OccurrenceStubs(t, o) \subseteq S
    BY <1>1
  <2>5. e.source \in DOMAIN M.nodes
    BY <1>2, <2>3 DEF Tracks
  <2> QED BY <1>2, <2>3, <2>4, <2>5, OwnedNode
<1>5. ReferencesPass(L, t, fs) = TryEdges(M, E)
  BY <1>1, Zenon DEF ReferencesPass, ReferencesEdges
<1>6. TryEdges(M, E).edges = M.edges \cup E
  BY <1>3, <1>4, TryEdgesAll
<1> QED BY <1>1, <1>3, <1>5, <1>6, Zenon

(* Pass 5, the base classes. *)
LEMMA InheritsPassEdges ==
    ASSUME NEW t \in Projects, NEW L, Tracks(L, t, Existing(t)), NEW fs, fs \subseteq Existing(t)
    PROVE  InheritsPass(L, t, fs).edges = L.edges \cup UNION {InheritsEdges(L, t, f) : f \in fs}
<1>1. PICK S, E, M : /\ S = UNION {InheritsStubs(t, f) : f \in fs}
                     /\ E = UNION {InheritsEdges(L, t, f) : f \in fs}
                     /\ M = WithStubs(L, S)
  OBVIOUS
<1>2. /\ Tracks(M, t, Existing(t)) /\ \A x \in S : ExternalId(x[1], x[2]) \in DOMAIN M.nodes
  BY <1>1, WithStubsTracks
<1>3. M.edges = L.edges /\ IsLayer(M)
  BY <1>1, WithStubsIs DEF Tracks
<1>4. ASSUME NEW e \in E PROVE e.source \in DOMAIN M.nodes /\ e.target \in DOMAIN M.nodes
  <2>1. PICK f \in fs : e \in InheritsEdges(L, t, f)
    BY <1>1
  <2>2. PICK b \in t[f].supers : e \in InheritsOf(L, t, b)
    BY <2>1, InheritsUnion
  <2>3. /\ e.source \in OwnIds(t, f)
        /\ Owned(t, e.target) \/ \E x \in InheritsStubs(t, f) : e.target = ExternalId(x[1], x[2])
    BY <2>2, InheritsEnds DEF Owned
  <2>4. InheritsStubs(t, f) \subseteq S
    BY <1>1
  <2>5. e.source \in DOMAIN M.nodes
    BY <1>2, <2>3 DEF Tracks
  <2> QED BY <1>2, <2>3, <2>4, <2>5, OwnedNode
<1>5. InheritsPass(L, t, fs) = TryEdges(M, E)
  BY <1>1, Zenon DEF InheritsPass
<1>6. TryEdges(M, E).edges = M.edges \cup E
  BY <1>3, <1>4, TryEdgesAll
<1> QED BY <1>1, <1>3, <1>5, <1>6, Zenon

(* Pass 5, the overrides. *)
LEMMA OverridesPassEdges ==
    ASSUME NEW t \in Projects, NEW L, Tracks(L, t, Existing(t)), NEW fs, fs \subseteq Existing(t)
    PROVE  OverridesPass(L, t, fs).edges = L.edges \cup UNION {OverridesEdges(L, t, f) : f \in fs}
<1>1. ASSUME NEW e \in UNION {OverridesEdges(L, t, f) : f \in fs}
      PROVE  e.source \in DOMAIN L.nodes /\ e.target \in DOMAIN L.nodes
  <2>1. PICK f \in fs : e \in OverridesEdges(L, t, f)
    OBVIOUS
  <2>2. e.source \in OwnIds(t, f) /\ Owned(t, e.target)
    BY <2>1, OverridesEnds
  <2> QED BY <2>2, OwnedNode DEF Tracks
<1> QED BY <1>1, TryEdgesAll DEF OverridesPass, Tracks

(* M is the layer before the overrides pass of a build over L. *)
Midway(L, t, fs, R, M) ==
    /\ Tracks(M, t, Existing(t))
    /\ M.edges = L.edges \cup UNION {Derived(R, t, f) : f \in fs}
    /\ Passes(L, t, fs).edges = M.edges \cup UNION {OverridesEdges(M, t, f) : f \in fs}

(* All of them, through the layer midway, before the overrides. *)
LEMMA PassesEdges ==
    ASSUME NEW t \in Projects, NEW gs, NEW L, Tracks(L, t, gs), NEW fs, fs \subseteq Existing(t),
           fs \cap gs = {}, gs \cup fs = Existing(t), NEW R, Tracks(R, t, Existing(t))
    PROVE  \E M : Midway(L, t, fs, R, M)
<1>1. PICK L2, L3, L4, L5 :
          /\ L2 = Materialized(L, t, fs) /\ L3 = ContainmentPass(L2, t, fs)
          /\ L4 = ReferencesPass(L3, t, fs) /\ L5 = InheritsPass(L4, t, fs)
  OBVIOUS
<1>2. Passes(L, t, fs) = OverridesPass(L5, t, fs)
  BY <1>1, Zenon DEF Passes
<1>3. Tracks(L2, t, Existing(t)) /\ L2.edges = L.edges
  <2>1. Tracks(L2, t, gs \cup fs)
    BY <1>1, MaterializedTracks
  <2>2. IsLayer(L)
    BY DEF Tracks
  <2>3. Materialized(L, t, fs).edges = L.edges
    BY <2>2, MaterializedEdges, Zenon
  <2> QED BY <1>1, <2>1, <2>3
<1>4. Tracks(L3, t, Existing(t)) /\ Tracks(L4, t, Existing(t)) /\ Tracks(L5, t, Existing(t))
  BY <1>1, <1>3, PassesTrack
<1>5. L3.edges = L2.edges \cup UNION {Containment(L2, t, f) : f \in fs}
  BY <1>1, <1>3, ContainmentPassEdges
<1>6. L4.edges = L3.edges \cup UNION {ReferencesEdges(L3, t, f) : f \in fs}
  BY <1>1, <1>4, ReferencesPassEdges
<1>7. L5.edges = L4.edges \cup UNION {InheritsEdges(L4, t, f) : f \in fs}
  BY <1>1, <1>4, InheritsPassEdges
<1>8. OverridesPass(L5, t, fs).edges = L5.edges \cup UNION {OverridesEdges(L5, t, f) : f \in fs}
  BY <1>4, OverridesPassEdges
<1>9. ASSUME NEW f \in fs
      PROVE  /\ Containment(L2, t, f) = Containment(R, t, f)
             /\ ReferencesEdges(L3, t, f) = ReferencesEdges(R, t, f)
             /\ InheritsEdges(L4, t, f) = InheritsEdges(R, t, f)
  <2>1. f \in Existing(t)
    OBVIOUS
  <2>2. Containment(L2, t, f) = Containment(R, t, f)
    BY <1>3, <2>1, OneProject
  <2>3. ReferencesEdges(L3, t, f) = ReferencesEdges(R, t, f)
    BY <1>4, <2>1, OneProject
  <2>4. InheritsEdges(L4, t, f) = InheritsEdges(R, t, f)
    BY <1>4, <2>1, OneProject
  <2> QED BY <2>2, <2>3, <2>4
<1>10. L5.edges = L.edges \cup UNION {Derived(R, t, f) : f \in fs}
  <2>1. /\ UNION {Containment(L2, t, f) : f \in fs} = UNION {Containment(R, t, f) : f \in fs}
        /\ UNION {ReferencesEdges(L3, t, f) : f \in fs} = UNION {ReferencesEdges(R, t, f) : f \in fs}
        /\ UNION {InheritsEdges(L4, t, f) : f \in fs} = UNION {InheritsEdges(R, t, f) : f \in fs}
    BY <1>9
  <2>2. UNION {Derived(R, t, f) : f \in fs} =
            (UNION {Containment(R, t, f) : f \in fs}) \cup
            (UNION {ReferencesEdges(R, t, f) : f \in fs}) \cup
            (UNION {InheritsEdges(R, t, f) : f \in fs})
    BY DEF Derived
  <2> QED BY <1>3, <1>5, <1>6, <1>7, <2>1, <2>2
<1>11. Midway(L, t, fs, R, L5)
  BY <1>2, <1>4, <1>8, <1>10, Zenon DEF Midway
<1> QED BY <1>11

-----------------------------------------------------------------------------
(* The chain of base classes. *)

(* The levels of Ancestors. *)
LEMMA AncestorsAre ==
    ASSUME NEW L, NEW i
    PROVE  /\ Cardinality(TextIds) \in Nat
           /\ DOMAIN Ancestors(L, i) = 0..Cardinality(TextIds)
           /\ Ancestors(L, i)[0] = {i}
           /\ \A n \in 1..Cardinality(TextIds) :
                 Ancestors(L, i)[n] =
                     {e.target : e \in {e \in {e \in L.edges : e.kind = "inherits"} :
                                            e.source \in Ancestors(L, i)[n - 1]}}
<1> DEFINE N == Cardinality(TextIds)
           X == {i}
           G(v) == {e.target : e \in {e \in {e \in L.edges : e.kind = "inherits"} : e.source \in v}}
           F(m, f) == [k \in 0..m |-> IF k = 0 THEN X ELSE G(f[k - 1])]
           P == {m \in 0..N : \E f : f = F(m, f)}
<1>0. N \in Nat
  BY CodeLayerAssumption, FS_CardinalityType
<1>1. Ancestors(L, i) = CHOOSE f : f = F(N, f)
  BY Zenon DEF Ancestors
<1> HIDE DEF X, G, N
<1>2. 0 \in P
  <2>1. PICK f : f = [k \in 0..0 |-> X]
    OBVIOUS
  <2>2. f = F(0, f)
    BY <2>1
  <2> QED BY <1>0, <2>2
<1>3. ASSUME NEW m \in 1..N, m - 1 \in P PROVE m \in P
  <2>1. PICK f : f = F(m - 1, f)
    BY <1>3
  <2>2. PICK g : g = [k \in 0..m |-> IF k = m THEN G(f[m - 1]) ELSE f[k]]
    OBVIOUS
  <2>3. DOMAIN f = 0..(m - 1) /\ DOMAIN g = 0..m
    BY <2>1, <2>2
  <2>4. ASSUME NEW k \in 0..m PROVE g[k] = IF k = 0 THEN X ELSE G(g[k - 1])
    <3>1. CASE k = m
      BY <1>0, <2>2, <3>1
    <3>2. CASE k # m
      <4>1. k \in 0..(m - 1) /\ g[k] = f[k]
        BY <1>0, <2>2, <3>2
      <4>2. f[k] = IF k = 0 THEN X ELSE G(f[k - 1])
        BY <2>1, <4>1
      <4>3. k # 0 => g[k - 1] = f[k - 1]
        BY <1>0, <2>2, <4>1
      <4> QED BY <4>1, <4>2, <4>3
    <3> QED BY <3>1, <3>2
  <2>5. g = F(m, g)
    BY <2>2, <2>3, <2>4
  <2> QED BY <1>0, <2>5
<1>4. N \in P
  <2>1. \A m \in 0..N : m \in P
    <3>1. PICK Q : Q = P
      OBVIOUS
    <3> QED BY <1>0, <1>2, <1>3, <3>1, Induction
  <2> QED BY <1>0, <2>1
<1>5. PICK f : f = (CHOOSE h : h = F(N, h))
  OBVIOUS
<1>6. f = F(N, f)
  BY <1>4, <1>5 DEF P
<1>7. f[0] = X /\ DOMAIN f = 0..N /\ \A k \in 1..N : f[k] = G(f[k - 1])
  BY <1>0, <1>6
<1> QED BY <1>0, <1>1, <1>5, <1>7 DEF X, G, N

(* Everything above a node, itself included. *)
Above(L, i) == UNION Range(Ancestors(L, i))

(* Two layers find the same methods above a node if they have the same inherits edges and the
   same methods at what is above it. *)
LEMMA NearestAgrees ==
    ASSUME NEW L, NEW M, NEW i, NEW name,
           \A e : e.source \in Above(L, i) /\ e.kind = "inherits" => (e \in L.edges <=> e \in M.edges),
           \A cs : cs \subseteq Above(L, i) => Methods(L, cs, name) = Methods(M, cs, name)
    PROVE  Nearest(L, i, name) = Nearest(M, i, name)
<1>1. PICK N, up, vp : N = Cardinality(TextIds) /\ up = Ancestors(L, i) /\ vp = Ancestors(M, i)
  OBVIOUS
<1>2. /\ N \in Nat /\ DOMAIN up = 0..N /\ DOMAIN vp = 0..N /\ up[0] = {i} /\ vp[0] = {i}
  BY <1>1, AncestorsAre
<1>3. ASSUME NEW n \in 1..N
      PROVE  /\ \A x : x \in up[n] <=> \E e \in L.edges : e.kind = "inherits" /\ e.source \in up[n - 1] /\ x = e.target
             /\ \A x : x \in vp[n] <=> \E e \in M.edges : e.kind = "inherits" /\ e.source \in vp[n - 1] /\ x = e.target
  <2>1. up[n] = {e.target : e \in {e \in {e \in L.edges : e.kind = "inherits"} : e.source \in up[n - 1]}}
    BY <1>1, AncestorsAre
  <2>2. vp[n] = {e.target : e \in {e \in {e \in M.edges : e.kind = "inherits"} : e.source \in vp[n - 1]}}
    BY <1>1, AncestorsAre
  <2> QED BY <2>1, <2>2
<1>4. \A n \in 0..N : up[n] \subseteq Above(L, i)
  BY <1>1, <1>2 DEF Above, Range
<1>5. \A n \in 0..N : up[n] = vp[n]
  <2>1. PICK P : P = {n \in 0..N : up[n] = vp[n]}
    OBVIOUS
  <2>2. 0 \in P
    <3>1. up[0] = vp[0] /\ 0 \in 0..N
      BY <1>2
    <3> QED BY <2>1, <3>1
  <2>3. ASSUME NEW n \in 1..N, n - 1 \in P PROVE n \in P
    <3>1. up[n - 1] = vp[n - 1] /\ up[n - 1] \subseteq Above(L, i) /\ n - 1 \in 0..N
      BY <1>4, <2>1, <2>3
    <3>2. \A x : x \in up[n] <=> x \in vp[n]
      BY <1>3, <3>1
    <3>3. up[n] = vp[n]
      <4>1. up[n] = {e.target : e \in {e \in {e \in L.edges : e.kind = "inherits"} : e.source \in up[n - 1]}}
        BY <1>1, AncestorsAre
      <4>2. vp[n] = {e.target : e \in {e \in {e \in M.edges : e.kind = "inherits"} : e.source \in vp[n - 1]}}
        BY <1>1, AncestorsAre
      <4> QED BY <3>2, <4>1, <4>2
    <3> QED BY <2>1, <3>3
  <2>4. \A n \in 0..N : n \in P
    BY <1>2, <2>2, <2>3, Induction
  <2> QED BY <2>1, <2>4
<1>6. \A n \in 0..N : Methods(L, up[n], name) = Methods(M, vp[n], name)
  BY <1>4, <1>5
<1>7. PICK hits : hits = {n \in DOMAIN up \ {0} : Methods(L, up[n], name) # {}}
  OBVIOUS
<1>8. hits = {n \in DOMAIN vp \ {0} : Methods(M, vp[n], name) # {}}
  BY <1>2, <1>6, <1>7
<1>9. /\ Nearest(L, i, name) = IF hits = {} THEN {} ELSE Methods(L, up[Min(hits)], name)
      /\ Nearest(M, i, name) = IF hits = {} THEN {} ELSE Methods(M, vp[Min(hits)], name)
  BY <1>1, <1>7, <1>8 DEF Nearest
<1>10. hits # {} => Min(hits) \in 0..N
  <2>1. hits \subseteq Nat /\ hits \subseteq 0..N
    BY <1>2, <1>7
  <2> QED BY <2>1, MinIn
<1> QED BY <1>6, <1>9, <1>10

(* The derived edges of a file, by kind. *)
LEMMA DerivedEnds ==
    ASSUME NEW t \in Projects, NEW L, Tracks(L, t, Existing(t)), NEW f \in Existing(t),
           NEW e \in Derived(L, t, f)
    PROVE  /\ e.source \in OwnIds(t, f)
           /\ e.kind \in {"defines", "contains", "imports", "references", "inherits"}
           /\ e.kind \in {"defines", "contains"} => e \in Containment(L, t, f) /\ Owned(t, e.target)
           /\ e.kind = "inherits" => e \in InheritsEdges(L, t, f)
           /\ e.kind = "imports" => e.source = ModuleId(f)
<1>1. CASE e \in Containment(L, t, f)
  <2>1. /\ e.source \in OwnIds(t, f) /\ e.target \in SymbolIds(t, f)
        /\ e.kind \in {"defines", "contains"}
    BY <1>1, ContainmentEnds
  <2> QED BY <1>1, <2>1 DEF Owned, OwnIds
<1>2. CASE e \in ReferencesEdges(L, t, f)
  <2>1. PICK o \in t[f].occs : e \in OccurrenceEdges(L, t, f, o)
    BY <1>2 DEF ReferencesEdges
  <2>2. /\ e.source \in OwnIds(t, f) /\ e.kind \in {"imports", "references"}
        /\ e.kind = "imports" => e.source = ModuleId(f)
    BY <2>1, OccurrenceEnds
  <2> QED BY <2>2
<1>3. CASE e \in InheritsEdges(L, t, f)
  <2>1. PICK b \in t[f].supers : e \in InheritsOf(L, t, b)
    BY <1>3, InheritsUnion
  <2>2. e.source \in OwnIds(t, f) /\ e.kind = "inherits"
    BY <2>1, InheritsEnds
  <2> QED BY <1>3, <2>2
<1> QED BY <1>1, <1>2, <1>3 DEF Derived

Structural == {"inherits", "defines", "contains"}

(* Overrides depend on the structural edges alone. *)
LEMMA OverridesSame ==
    ASSUME NEW t \in Projects, NEW L, NEW M, Tracks(L, t, Existing(t)), Tracks(M, t, Existing(t)),
           \A e : e.kind \in Structural => (e \in L.edges <=> e \in M.edges),
           \A e \in L.edges : e.kind \in {"defines", "contains"} => Owned(t, e.target),
           NEW f \in Existing(t)
    PROVE  OverridesEdges(L, t, f) = OverridesEdges(M, t, f)
<1>1. AgreeOn(L, M, f)
  BY TracksAgree
<1>2. ASSUME NEW i, Owned(t, i)
      PROVE  i \in DOMAIN L.nodes /\ i \in DOMAIN M.nodes /\ L.nodes[i] = M.nodes[i]
  <2>1. PICK g \in Existing(t) : i \in OwnIds(t, g)
    BY <1>2 DEF Owned
  <2>2. i \in DOMAIN L.nodes /\ L.nodes[i] = NodeOf(t, g, i)
    BY <2>1 DEF Tracks
  <2>3. i \in DOMAIN M.nodes /\ M.nodes[i] = NodeOf(t, g, i)
    BY <2>1 DEF Tracks
  <2> QED BY <2>2, <2>3
<1>3. ASSUME NEW cs, NEW name PROVE Methods(L, cs, name) = Methods(M, cs, name)
  <2>1. \A e : e.kind \in {"defines", "contains"} => (e \in L.edges <=> e \in M.edges)
    BY DEF Structural
  <2>2. PICK A, B :
            /\ A = {e \in L.edges : /\ e.source \in cs /\ e.kind \in {"defines", "contains"}
                                    /\ e.target \in DOMAIN L.nodes
                                    /\ L.nodes[e.target].kind = "method"
                                    /\ L.nodes[e.target].name = name}
            /\ B = {e \in M.edges : /\ e.source \in cs /\ e.kind \in {"defines", "contains"}
                                    /\ e.target \in DOMAIN M.nodes
                                    /\ M.nodes[e.target].kind = "method"
                                    /\ M.nodes[e.target].name = name}
    OBVIOUS
  <2>3. A = B
    BY <1>2, <2>1, <2>2
  <2>4. Methods(L, cs, name) = {e.target : e \in A} /\ Methods(M, cs, name) = {e.target : e \in B}
    BY <2>2, Zenon DEF Methods
  <2> QED BY <2>3, <2>4
<1>4. \A i, name : Nearest(L, i, name) = Nearest(M, i, name)
  <2>1. \A e : e.kind = "inherits" => (e \in L.edges <=> e \in M.edges)
    BY DEF Structural
  <2> QED BY <1>3, <2>1, NearestAgrees
<1>5. \A name : FindSymbol(L, f, name) = FindSymbol(M, f, name)
  BY <1>1, LookupsAgree
<1>6. \A x : OverridesOf(L, f, x) = OverridesOf(M, f, x)
  BY <1>4, <1>5 DEF OverridesOf
<1> QED BY <1>6, OverridesUnion

(* The edges of a full build. *)
LEMMA FullEdges ==
    ASSUME NEW t \in Projects
    PROVE  Full(t).edges = (UNION {Derived(Full(t), t, f) : f \in Existing(t)}) \cup
                           (UNION {OverridesEdges(Full(t), t, f) : f \in Existing(t)})
<1>1. PICK R : R = Full(t) /\ R = Passes(EmptyLayer, t, Existing(t))
  BY DEF Full
<1>2. Tracks(R, t, Existing(t))
  BY <1>1, FullTracks
<1>3. PICK M : /\ Tracks(M, t, Existing(t))
               /\ M.edges = EmptyLayer.edges \cup UNION {Derived(R, t, f) : f \in Existing(t)}
               /\ R.edges = M.edges \cup UNION {OverridesEdges(M, t, f) : f \in Existing(t)}
  <2>1. Tracks(EmptyLayer, t, {}) /\ {} \cup Existing(t) = Existing(t)
    BY EmptyTracks
  <2>2. PICK M : Midway(EmptyLayer, t, Existing(t), R, M)
    BY <1>2, <2>1, PassesEdges
  <2> QED BY <1>1, <2>2, Zenon DEF Midway
<1>4. M.edges = UNION {Derived(R, t, f) : f \in Existing(t)}
  BY <1>3, EmptyIs
<1>5. ASSUME NEW e PROVE e.kind \in Structural => (e \in R.edges <=> e \in M.edges)
  <2>1. ASSUME e \in R.edges, e \notin M.edges PROVE e.kind = "overrides"
    <3>1. PICK f \in Existing(t) : e \in OverridesEdges(M, t, f)
      BY <1>3, <2>1
    <3> QED BY <1>3, <3>1, OverridesEnds
  <2> QED BY <1>3, <2>1 DEF Structural
<1>6. ASSUME NEW e \in R.edges, e.kind \in {"defines", "contains"} PROVE Owned(t, e.target)
  <2>1. e \in M.edges
    BY <1>5, <1>6 DEF Structural
  <2>2. PICK f \in Existing(t) : e \in Derived(R, t, f)
    BY <1>4, <2>1
  <2> QED BY <1>2, <1>6, <2>2, DerivedEnds
<1>7. \A f \in Existing(t) : OverridesEdges(R, t, f) = OverridesEdges(M, t, f)
  BY <1>2, <1>3, <1>5, <1>6, OverridesSame
<1>8. UNION {OverridesEdges(M, t, f) : f \in Existing(t)}
          = UNION {OverridesEdges(R, t, f) : f \in Existing(t)}
  BY <1>7
<1> QED BY <1>1, <1>3, <1>4, <1>8, Zenon

(* An edge of a full build is derived, or an override. *)
LEMMA FullEdge ==
    ASSUME NEW t \in Projects, NEW e \in Full(t).edges
    PROVE  \E f \in Existing(t) :
              \/ e \in Derived(Full(t), t, f)
              \/ e \in OverridesEdges(Full(t), t, f) /\ e.kind = "overrides" /\ e.source \in OwnIds(t, f)
<1>1. PICK f \in Existing(t) : e \in Derived(Full(t), t, f) \/ e \in OverridesEdges(Full(t), t, f)
  BY FullEdges
<1>2. Tracks(Full(t), t, Existing(t))
  BY FullTracks
<1> QED BY <1>1, <1>2, OverridesEnds

-----------------------------------------------------------------------------
(* A commit from project t to project u that changes files among the seeds.  A file none of
   whose reads is a seed keeps its edges. *)

(* A name of a project reaches files of it. *)
LEMMA ReachesFiles ==
    ASSUME NEW t \in Projects, NEW from \in Files \cup Packages, NEW name
    PROVE  Reaches(t, from, name) \subseteq Files
<1> SUFFICES ASSUME NEW g \in Reaches(t, from, name) PROVE g \in Files
  OBVIOUS
<1>1. g \notin Packages /\ g \in {from} \cup Exports(t, from, name)
  BY DEF Reaches
<1>2. CASE g = from
  BY <1>1, <1>2
<1>3. CASE g \in Exports(t, from, name)
  <2>1. from \notin Packages /\ t[from] # Absent
    BY <1>3 DEF Exports
  <2>2. from \in Existing(t)
    BY <2>1 DEF Existing
  <2>3. PICK x \in t[from].exports : g = x.from
    BY <1>3, <2>1 DEF Exports
  <2> QED BY <1>1, <2>2, <2>3, TextIs DEF WellFormed
<1> QED BY <1>1, <1>2, <1>3

(* A file that stays is tracked alike in both full builds. *)
LEMMA FullsAgree ==
    ASSUME NEW t \in Projects, NEW u \in Projects, NEW f \in Existing(t), t[f] = u[f]
    PROVE  f \in Existing(u) /\ AgreeOn(Full(t), Full(u), f)
<1>1. f \in Existing(u)
  BY DEF Existing
<1>2. Tracks(Full(t), t, Existing(t)) /\ Tracks(Full(u), u, Existing(u))
  BY FullTracks
<1> QED BY <1>1, <1>2, TracksAgree

(* A name whose reach avoids the seeds resolves as before. *)
LEMMA TargetKept ==
    ASSUME NEW t \in Projects, NEW u \in Projects, NEW seeds, \A g \in Files \ seeds : u[g] = t[g],
           NEW from \in Files \cup Packages, NEW name, Reaches(t, from, name) \cap seeds = {}
    PROVE  /\ Target(t, from, name) = Target(u, from, name)
           /\ \A to \in Target(t, from, name) : to \in Packages \/ AgreeOn(Full(t), Full(u), to)
<1>1. \A g \in Reaches(t, from, name) : t[g] = u[g]
  BY ReachesFiles
<1>2. ASSUME NEW to \in Target(t, from, name), to \notin Packages
      PROVE  AgreeOn(Full(t), Full(u), to)
  <2>1. to \in Existing(t) /\ to \in Reaches(t, from, name)
    BY <1>2, TargetReached
  <2> QED BY <1>1, <2>1, FullsAgree
<1> QED BY <1>1, <1>2, TargetAgrees

(* The base classes of a file that reads no seed resolve as before. *)
LEMMA InheritsKept ==
    ASSUME NEW t \in Projects, NEW u \in Projects, NEW seeds, \A g \in Files \ seeds : u[g] = t[g],
           NEW b, b.from \in Files \cup Packages, Reaches(t, b.from, b.name) \cap seeds = {}
    PROVE  InheritsOf(Full(t), t, b) = InheritsOf(Full(u), u, b)
BY TargetKept, InheritsAgrees

(* What a file's own text is looked up in: each part of ReadsOf. *)
LEMMA ReadsParts ==
    ASSUME NEW L, NEW t, NEW f, NEW seeds, ReadsOf(L, t, f) \cap seeds = {}
    PROVE  /\ \A o \in t[f].occs : o.role # "module" => Reaches(t, o.from, o.name) \cap seeds = {}
           /\ \A o \in t[f].occs : o.role = "module" => o.from \in Packages \/ o.from \notin seeds
           /\ \A b \in SupersAbove(L, t, f) : Reaches(t, b.from, b.name) \cap seeds = {}
<1>1. PICK A, B, C :
          /\ A = UNION {Reaches(t, o.from, o.name) : o \in {o \in t[f].occs : o.role # "module"}}
          /\ B = {o.from : o \in {o \in t[f].occs : o.role = "module" /\ o.from \notin Packages}}
          /\ C = UNION {Reaches(t, b.from, b.name) : b \in SupersAbove(L, t, f)}
  OBVIOUS
<1>2. A \cap seeds = {} /\ B \cap seeds = {} /\ C \cap seeds = {}
  <2>1. ReadsOf(L, t, f) = A \cup B \cup C
    BY <1>1 DEF ReadsOf
  <2> QED BY <2>1
<1>3. \A o \in t[f].occs : o.role # "module" => Reaches(t, o.from, o.name) \cap seeds = {}
  BY <1>1, <1>2
<1>4. \A o \in t[f].occs : o.role = "module" => o.from \in Packages \/ o.from \notin seeds
  BY <1>1, <1>2
<1>5. \A b \in SupersAbove(L, t, f) : Reaches(t, b.from, b.name) \cap seeds = {}
  BY <1>1, <1>2
<1> QED BY <1>3, <1>4, <1>5

(* A base class written for a class above one of the file's nodes. *)
LEMMA SupersOf ==
    ASSUME NEW t \in Projects, NEW L, Tracks(L, t, Existing(t)), NEW f \in Existing(t),
           NEW i \in OwnIds(t, f), NEW g \in Existing(t), NEW b \in t[g].supers,
           Entity(b.cls) \in Above(L, i)
    PROVE  b \in SupersAbove(L, t, f)
<1>1. Range(NodesOf(L, f)) = OwnIds(t, f)
  <2>1. NodesOf(L, f) = Listing(t, f)
    BY DEF NodesOf, Tracks
  <2> QED BY <2>1, ListingIs
<1>2. b \in UNION {t[h].supers : h \in Existing(t)}
  OBVIOUS
<1>3. Entity(b.cls) \in UNION {UNION Range(Ancestors(L, j)) : j \in Range(NodesOf(L, f))}
  BY <1>1 DEF Above
<1> QED BY <1>2, <1>3, Zenon DEF SupersAbove

(* A node is above itself. *)
LEMMA AboveSelf ==
    ASSUME NEW L, NEW i
    PROVE  i \in Above(L, i)
<1>1. Ancestors(L, i)[0] = {i} /\ 0 \in DOMAIN Ancestors(L, i)
  BY AncestorsAre
<1>2. Ancestors(L, i)[0] \in Range(Ancestors(L, i))
  BY <1>1 DEF Range
<1> QED BY <1>1, <1>2 DEF Above

(* So do all the edges it derives from its own text. *)
LEMMA DerivedKept ==
    ASSUME NEW t \in Projects, NEW u \in Projects, NEW seeds, \A g \in Files \ seeds : u[g] = t[g],
           NEW f \in Existing(t), f \notin seeds, ReadsOf(Full(t), t, f) \cap seeds = {}
    PROVE  Derived(Full(t), t, f) = Derived(Full(u), u, f)
<1>1. t[f] = u[f] /\ f \in Files
  BY DEF Existing
<1>2. AgreeOn(Full(t), Full(u), f)
  BY <1>1, FullsAgree
<1>3. Tracks(Full(t), t, Existing(t))
  BY FullTracks
<1>4. /\ \A b \in t[f].supers : b.from \in Files \cup Packages
      /\ \A o \in t[f].occs : o.from \in Files \cup Packages
  BY TextIs DEF WellFormed
<1>5. Containment(Full(t), t, f) = Containment(Full(u), u, f)
  BY <1>1, <1>2, ContainmentAgrees
<1>6. ASSUME NEW b \in t[f].supers PROVE InheritsOf(Full(t), t, b) = InheritsOf(Full(u), u, b)
  <2>1. Entity(b.cls) \in OwnIds(t, f)
    <3>1. t[f] # Absent /\ b.cls \in {s.id : s \in Range(t[f].syms)}
      BY TextIs DEF WellFormed
    <3> QED BY <3>1 DEF OwnIds, SymbolIds, Symbols
  <2>2. b \in SupersAbove(Full(t), t, f)
    BY <1>3, <2>1, AboveSelf, SupersOf
  <2>3. Reaches(t, b.from, b.name) \cap seeds = {}
    BY <2>2, ReadsParts
  <2> QED BY <1>4, <2>3, InheritsKept
<1>7. ASSUME NEW o \in t[f].occs
      PROVE  OccurrenceEdges(Full(t), t, f, o) = OccurrenceEdges(Full(u), u, f, o)
  <2>1. ASSUME o.role = "module" PROVE GotoModule(t, o.from) = GotoModule(u, o.from)
    <3>1. o.from \in Packages \/ o.from \notin seeds
      BY <2>1, ReadsParts
    <3>2. o.from \in Packages \/ t[o.from] = u[o.from]
      BY <1>4, <3>1
    <3> QED BY <3>2 DEF GotoModule
  <2>2. ASSUME o.role # "module"
        PROVE  /\ Target(t, o.from, o.name) = Target(u, o.from, o.name)
               /\ \A to \in Target(t, o.from, o.name) :
                     to \in Packages \/ AgreeOn(Full(t), Full(u), to)
    <3>1. Reaches(t, o.from, o.name) \cap seeds = {}
      BY <2>2, ReadsParts
    <3> QED BY <1>4, <3>1, TargetKept
  <2> QED BY <1>2, <2>1, <2>2, OccurrenceAgrees
<1>8. InheritsEdges(Full(t), t, f) = InheritsEdges(Full(u), u, f)
  BY <1>1, <1>6, InheritsUnion
<1>9. ReferencesEdges(Full(t), t, f) = ReferencesEdges(Full(u), u, f)
  BY <1>1, <1>7 DEF ReferencesEdges
<1> QED BY <1>5, <1>8, <1>9 DEF Derived

(* What is above a node of such a file is of files that stay, or a stub. *)
LEMMA AboveStays ==
    ASSUME NEW t \in Projects, NEW seeds, NEW f \in Existing(t), f \notin seeds,
           ReadsOf(Full(t), t, f) \cap seeds = {}, NEW i \in OwnIds(t, f), NEW x \in Above(Full(t), i)
    PROVE  \/ \E p, n : x = ExternalId(p, n)
           \/ \E g \in Existing(t) \ seeds : x \in OwnIds(t, g)
<1>1. PICK R, up, N : R = Full(t) /\ up = Ancestors(R, i) /\ N = Cardinality(TextIds)
  OBVIOUS
<1>2. Tracks(R, t, Existing(t))
  BY <1>1, FullTracks
<1>3. N \in Nat /\ DOMAIN up = 0..N /\ up[0] = {i}
  BY <1>1, AncestorsAre
<1>4. PICK n \in 0..N : x \in up[n]
  BY <1>1, <1>3 DEF Above, Range
<1>5. CASE n = 0
  BY <1>3, <1>4, <1>5
<1>6. CASE n # 0
  <2>1. n \in 1..N /\ n - 1 \in 0..N
    BY <1>3, <1>6
  <2>2. up[n] = {e.target : e \in {e \in {e \in R.edges : e.kind = "inherits"} : e.source \in up[n - 1]}}
    BY <1>1, <2>1, AncestorsAre
  <2>3. PICK e \in R.edges : e.kind = "inherits" /\ e.source \in up[n - 1] /\ x = e.target
    BY <1>4, <2>2
  <2>4. e.source \in Above(R, i)
    BY <1>1, <1>3, <2>1, <2>3 DEF Above, Range
  <2>5. PICK g \in Existing(t) : e \in Derived(R, t, g)
    BY <1>1, <2>3, FullEdge
  <2>6. e \in InheritsEdges(R, t, g)
    BY <1>2, <2>3, <2>5, DerivedEnds
  <2>7. PICK b \in t[g].supers : e \in InheritsOf(R, t, b)
    BY <2>6, InheritsUnion
  <2>8. /\ e.source = Entity(b.cls)
        /\ \/ \E h \in Existing(t) : h \in Reaches(t, b.from, b.name) /\ e.target \in OwnIds(t, h)
           \/ \E y \in InheritsStubs(t, g) : e.target = ExternalId(y[1], y[2])
    BY <1>2, <2>7, InheritsEnds
  <2>9. b \in SupersAbove(R, t, f)
    BY <1>2, <2>4, <2>8, SupersOf
  <2>10. Reaches(t, b.from, b.name) \cap seeds = {}
    BY <1>1, <2>9, ReadsParts
  <2> QED BY <2>3, <2>8, <2>10
<1> QED BY <1>5, <1>6

(* A node of a file that stays has one file in both projects. *)
LEMMA OneFile ==
    ASSUME NEW t \in Projects, NEW u \in Projects, NEW seeds, \A g \in Files \ seeds : u[g] = t[g],
           NEW g \in Existing(t) \ seeds, NEW i \in OwnIds(t, g)
    PROVE  /\ g \in Existing(u) /\ t[g] = u[g] /\ i \in OwnIds(u, g)
           /\ \A h \in Existing(t) : i \in OwnIds(t, h) => h = g
           /\ \A h \in Existing(u) : i \in OwnIds(u, h) => h = g
<1>1. g \in Files /\ t[g] = u[g] /\ g \in Existing(u)
  BY DEF Existing
<1>2. i \in OwnIds(u, g)
  BY <1>1, OwnText
<1>3. Existing(t) \subseteq Files /\ Existing(u) \subseteq Files
  BY DEF Existing
<1>4. \A h \in Existing(t) : i \in OwnIds(t, h) => h = g
  BY <1>1, <1>3, OwnDisjoint
<1>5. \A h \in Existing(u) : i \in OwnIds(u, h) => h = g
  BY <1>1, <1>2, <1>3, OwnDisjoint
<1> QED BY <1>1, <1>2, <1>4, <1>5

(* And its overrides, whose chains meet the same classes and methods. *)
LEMMA OverridesKept ==
    ASSUME NEW t \in Projects, NEW u \in Projects, NEW seeds, \A g \in Files \ seeds : u[g] = t[g],
           NEW f \in Existing(t), f \notin seeds, ReadsOf(Full(t), t, f) \cap seeds = {}
    PROVE  OverridesEdges(Full(t), t, f) = OverridesEdges(Full(u), u, f)
<1>1. PICK R, Q : R = Full(t) /\ Q = Full(u)
  OBVIOUS
<1>2. Tracks(R, t, Existing(t)) /\ Tracks(Q, u, Existing(u))
  BY <1>1, FullTracks
<1>3. t[f] = u[f] /\ f \in Files /\ f \in Existing(u) /\ AgreeOn(R, Q, f)
  BY <1>1, FullsAgree DEF Existing
<1>4. ASSUME NEW i \in OwnIds(t, f), NEW x \in Above(R, i)
      PROVE  (\E p, n : x = ExternalId(p, n)) \/ \E g \in Existing(t) \ seeds : x \in OwnIds(t, g)
  BY <1>1, AboveStays
<1>5. ASSUME NEW x, NEW h, x \in OwnIds(t, h) \/ x \in OwnIds(u, h)
      PROVE  \A p, n : x # ExternalId(p, n)
  BY <1>5, IdsDiffer DEF OwnIds, SymbolIds
<1>6. ASSUME NEW i \in OwnIds(t, f), NEW e, e.source \in Above(R, i), e.kind = "inherits"
      PROVE  e \in R.edges <=> e \in Q.edges
  <2>1. ASSUME NEW g \in Existing(t) \ seeds, e.source \in OwnIds(t, g), NEW b \in t[g].supers,
               e.source = Entity(b.cls)
        PROVE  InheritsOf(R, t, b) = InheritsOf(Q, u, b)
    <3>1. b \in SupersAbove(R, t, f)
      BY <1>2, <1>6, <2>1, SupersOf
    <3>2. Reaches(t, b.from, b.name) \cap seeds = {}
      BY <1>1, <3>1, ReadsParts
    <3>3. b.from \in Files \cup Packages
      BY TextIs DEF WellFormed
    <3> QED BY <1>1, <3>2, <3>3, InheritsKept
  <2>2. ASSUME e \in R.edges PROVE e \in Q.edges
    <3>1. PICK g \in Existing(t) : e \in Derived(R, t, g)
      BY <1>1, <1>6, <2>2, FullEdge
    <3>2. e \in InheritsEdges(R, t, g) /\ e.source \in OwnIds(t, g)
      BY <1>2, <1>6, <3>1, DerivedEnds
    <3>3. PICK b \in t[g].supers : e \in InheritsOf(R, t, b)
      BY <3>2, InheritsUnion
    <3>4. e.source = Entity(b.cls)
      BY <1>2, <3>3, InheritsEnds
    <3>5. PICK h \in Existing(t) \ seeds : e.source \in OwnIds(t, h)
      BY <1>4, <1>5, <1>6, <3>2
    <3>6. g = h /\ t[g] = u[g] /\ g \in Existing(u)
      BY <3>2, <3>5, OneFile
    <3>7. e \in InheritsOf(Q, u, b)
      BY <2>1, <3>2, <3>3, <3>4, <3>5, <3>6
    <3>8. e \in InheritsEdges(Q, u, g)
      BY <3>3, <3>6, <3>7, InheritsUnion
    <3>9. e \in Derived(Q, u, g)
      BY <3>8 DEF Derived
    <3> QED BY <1>1, <3>6, <3>9, FullEdges
  <2>3. ASSUME e \in Q.edges PROVE e \in R.edges
    <3>1. PICK g \in Existing(u) : e \in Derived(Q, u, g)
      BY <1>1, <1>6, <2>3, FullEdge
    <3>2. e \in InheritsEdges(Q, u, g) /\ e.source \in OwnIds(u, g)
      BY <1>2, <1>6, <3>1, DerivedEnds
    <3>3. PICK b \in u[g].supers : e \in InheritsOf(Q, u, b)
      BY <3>2, InheritsUnion
    <3>4. e.source = Entity(b.cls)
      BY <1>2, <3>3, InheritsEnds
    <3>5. PICK h \in Existing(t) \ seeds : e.source \in OwnIds(t, h)
      BY <1>4, <1>5, <1>6, <3>2
    <3>6. g = h /\ t[g] = u[g]
      BY <3>2, <3>5, OneFile
    <3>7. e \in InheritsOf(R, t, b)
      BY <2>1, <3>3, <3>4, <3>5, <3>6
    <3>8. e \in InheritsEdges(R, t, g)
      BY <3>3, <3>6, <3>7, InheritsUnion
    <3>9. e \in Derived(R, t, g)
      BY <3>8 DEF Derived
    <3> QED BY <1>1, <3>5, <3>6, <3>9, FullEdges
  <2> QED BY <2>2, <2>3
<1>7. ASSUME NEW i \in OwnIds(t, f), NEW cs, cs \subseteq Above(R, i), NEW name
      PROVE  Methods(R, cs, name) = Methods(Q, cs, name)
  <2>1. ASSUME NEW e, e.source \in cs, e.kind \in {"defines", "contains"}
        PROVE  /\ e \in R.edges <=> e \in Q.edges
               /\ e \in R.edges => /\ e.target \in DOMAIN R.nodes /\ e.target \in DOMAIN Q.nodes
                                   /\ R.nodes[e.target] = Q.nodes[e.target]
    <3>1. ASSUME NEW h \in Existing(t) \ seeds
          PROVE  Containment(R, t, h) = Containment(Q, u, h) /\ h \in Existing(u) /\ t[h] = u[h]
      <4>1. t[h] = u[h]
        BY DEF Existing
      <4>2. h \in Existing(u) /\ AgreeOn(R, Q, h)
        BY <1>1, <4>1, FullsAgree
      <4> QED BY <4>1, <4>2, ContainmentAgrees
    <3>2. ASSUME e \in R.edges
          PROVE  /\ e \in Q.edges /\ e.target \in DOMAIN R.nodes /\ e.target \in DOMAIN Q.nodes
                 /\ R.nodes[e.target] = Q.nodes[e.target]
      <4>1. PICK g \in Existing(t) : e \in Derived(R, t, g)
        BY <1>1, <2>1, <3>2, FullEdge
      <4>2. e \in Containment(R, t, g) /\ e.source \in OwnIds(t, g)
        BY <1>2, <2>1, <4>1, DerivedEnds
      <4>3. PICK h \in Existing(t) \ seeds : e.source \in OwnIds(t, h)
        BY <1>4, <1>5, <1>7, <2>1, <4>2
      <4>4. g = h
        BY <4>2, <4>3, OneFile
      <4>5. g \in Existing(u) /\ t[g] = u[g] /\ e \in Derived(Q, u, g)
        BY <3>1, <4>2, <4>3, <4>4 DEF Derived
      <4>6. e \in Q.edges
        BY <1>1, <4>5, FullEdges
      <4>7. e.target \in OwnIds(t, g) /\ e.target \in OwnIds(u, g)
        BY <1>2, <4>2, <4>5, ContainmentEnds, OwnText DEF OwnIds
      <4>8. e.target \in DOMAIN R.nodes /\ R.nodes[e.target] = NodeOf(t, g, e.target)
        BY <1>2, <4>7 DEF Tracks
      <4>9. e.target \in DOMAIN Q.nodes /\ Q.nodes[e.target] = NodeOf(u, g, e.target)
        BY <1>2, <4>5, <4>7 DEF Tracks
      <4> QED BY <4>5, <4>6, <4>8, <4>9, NodeOfText
    <3>3. ASSUME e \in Q.edges PROVE e \in R.edges
      <4>1. PICK g \in Existing(u) : e \in Derived(Q, u, g)
        BY <1>1, <2>1, <3>3, FullEdge
      <4>2. e \in Containment(Q, u, g) /\ e.source \in OwnIds(u, g)
        BY <1>2, <2>1, <4>1, DerivedEnds
      <4>3. PICK h \in Existing(t) \ seeds : e.source \in OwnIds(t, h)
        BY <1>4, <1>5, <1>7, <2>1, <4>2
      <4>4. g = h
        BY <4>2, <4>3, OneFile
      <4>5. e \in Derived(R, t, g)
        BY <3>1, <4>2, <4>3, <4>4 DEF Derived
      <4> QED BY <1>1, <4>3, <4>4, <4>5, FullEdges
    <3> QED BY <3>2, <3>3
  <2>2. PICK A, B :
            /\ A = {e \in R.edges : /\ e.source \in cs /\ e.kind \in {"defines", "contains"}
                                    /\ e.target \in DOMAIN R.nodes
                                    /\ R.nodes[e.target].kind = "method"
                                    /\ R.nodes[e.target].name = name}
            /\ B = {e \in Q.edges : /\ e.source \in cs /\ e.kind \in {"defines", "contains"}
                                    /\ e.target \in DOMAIN Q.nodes
                                    /\ Q.nodes[e.target].kind = "method"
                                    /\ Q.nodes[e.target].name = name}
    OBVIOUS
  <2>3. A = B
    BY <2>1, <2>2
  <2>4. Methods(R, cs, name) = {e.target : e \in A} /\ Methods(Q, cs, name) = {e.target : e \in B}
    BY <2>2, Zenon DEF Methods
  <2> QED BY <2>3, <2>4
<1>8. \A i \in OwnIds(t, f) : \A name : Nearest(R, i, name) = Nearest(Q, i, name)
  BY <1>6, <1>7, NearestAgrees
<1>9. \A name : FindSymbol(R, f, name) = FindSymbol(Q, f, name)
  BY <1>3, LookupsAgree
<1>10. ClassMethods(t, f) = ClassMethods(u, f)
  BY <1>3 DEF ClassMethods, Symbols
<1>11. ASSUME NEW x \in ClassMethods(t, f) PROVE OverridesOf(R, f, x) = OverridesOf(Q, f, x)
  <2>1. x[1] \in Symbols(t, f)
    BY DEF ClassMethods
  <2>2. FindSymbol(R, f, x[1].qname) \in OwnIds(t, f)
    BY <1>2, <2>1, FindOwn
  <2> QED BY <1>8, <1>9, <2>2 DEF OverridesOf
<1>12. UNION {OverridesOf(R, f, x) : x \in ClassMethods(t, f)}
          = UNION {OverridesOf(Q, f, x) : x \in ClassMethods(u, f)}
  BY <1>10, <1>11
<1> QED BY <1>1, <1>12, OverridesUnion

-----------------------------------------------------------------------------
(* Scoped builds. *)

(* A file that is not dirty reads no seed, if every file imports what it reads. *)
LEMMA CleanReads ==
    ASSUME NEW t \in Projects, NEW L, Tracks(L, t, Existing(t)), L.edges = Full(t).edges, OneHop(t),
           NEW seeds, NEW f \in Existing(t), f \notin Dirty(L, seeds)
    PROVE  f \notin seeds /\ ReadsOf(Full(t), t, f) \cap seeds = {}
<1>1. f \notin seeds
  BY DEF Dirty
<1>2. ASSUME NEW g \in ReadsOf(Full(t), t, f), g \in seeds PROVE FALSE
  <2>1. FullOf[t] = Full(t)
    BY DEF FullOf
  <2>2. g \in ReadsOf(Full(t), t, f) \ {f}
    BY <1>1, <1>2
  <2>3. PICK e \in L.edges : e.kind = "imports" /\ e.source = ModuleId(f) /\ e.target = ModuleId(g)
    BY <2>1, <2>2 DEF OneHop
  <2>4. e.source \in DOMAIN L.nodes /\ L.nodes[e.source] = NodeOf(t, f, e.source)
    BY <2>3 DEF Tracks, OwnIds
  <2>5. L.nodes[e.source].file = f
    BY <2>3, <2>4 DEF NodeOf, ModuleNode
  <2>6. e \in {x \in L.edges : /\ x.kind = "imports" /\ x.source \in DOMAIN L.nodes
                               /\ x.target \in {ModuleId(h) : h \in seeds}}
    BY <1>2, <2>3, <2>4
  <2>7. f \in Dirty(L, seeds)
    BY <2>5, <2>6 DEF Dirty
  <2> QED BY <2>7
<1> QED BY <1>1, <1>2

(* The ids of the files evicted. *)
LEMMA FileIdsAre ==
    ASSUME NEW t \in Projects, NEW L, Tracks(L, t, Existing(t)), NEW fs, NEW i
    PROVE  i \in FileIds(L, fs) <=> \E f \in fs \cap Existing(t) : i \in OwnIds(t, f)
<1>1. L.order = [f \in Existing(t) |-> Listing(t, f)]
  BY DEF Tracks
<1>2. \A f \in Existing(t) : Range(NodesOf(L, f)) = OwnIds(t, f)
  BY <1>1, ListingIs DEF NodesOf
<1>3. \A f : f \notin Existing(t) => Range(NodesOf(L, f)) = {}
  BY <1>1 DEF NodesOf, Range
<1> QED BY <1>2, <1>3 DEF FileIds

(* The edges of one file in a full build. *)
EdgesOf(t, f) == Derived(Full(t), t, f) \cup OverridesEdges(Full(t), t, f)

(* A full build has the edges of its files, each starting in its file. *)
LEMMA EdgesOfAre ==
    ASSUME NEW t \in Projects
    PROVE  /\ \A e : e \in Full(t).edges <=> \E f \in Existing(t) : e \in EdgesOf(t, f)
           /\ \A f \in Existing(t) : \A e \in EdgesOf(t, f) :
                 /\ e.source \in OwnIds(t, f)
                 /\ e.kind \in Structural => e \in Derived(Full(t), t, f)
<1>1. Tracks(Full(t), t, Existing(t))
  BY FullTracks
<1>2. \A e : e \in Full(t).edges <=> \E f \in Existing(t) : e \in EdgesOf(t, f)
  BY FullEdges DEF EdgesOf
<1>3. ASSUME NEW f \in Existing(t), NEW e \in EdgesOf(t, f)
      PROVE  e.source \in OwnIds(t, f) /\ (e.kind \in Structural => e \in Derived(Full(t), t, f))
  <2>1. CASE e \in Derived(Full(t), t, f)
    BY <1>1, <2>1, DerivedEnds
  <2>2. CASE e \in OverridesEdges(Full(t), t, f)
    BY <1>1, <2>2, OverridesEnds DEF Structural
  <2> QED BY <2>1, <2>2 DEF EdgesOf
<1> QED BY <1>2, <1>3

(* Over a layer with the edges of a full build, where every file imports what it reads, a
   scoped build gives the edges of a full build. *)
LEMMA ScopedEdges ==
    ASSUME NEW t \in Projects, NEW u \in Projects, NEW L, Tracks(L, t, Existing(t)),
           L.edges = Full(t).edges, OneHop(t), NEW seeds, \A f \in Files \ seeds : u[f] = t[f]
    PROVE  Scoped(L, u, seeds).edges = Full(u).edges
<1>1. PICK dirty, E, gs, fs, R : /\ dirty = Dirty(L, seeds) /\ E = Evict(L, dirty)
                                 /\ gs = Existing(u) \ dirty /\ fs = dirty \cap Existing(u)
                                 /\ R = Full(u)
  OBVIOUS
<1>2. seeds \subseteq dirty
  BY <1>1 DEF Dirty
<1>3. gs = Existing(t) \ dirty
  BY <1>1, <1>2 DEF Existing
<1>4. Tracks(E, u, gs) /\ Tracks(R, u, Existing(u))
  BY <1>1, ScopedTracks, FullTracks
<1>5. gs \cup fs = Existing(u) /\ fs \cap gs = {} /\ fs \subseteq Existing(u)
  BY <1>1
<1>6. PICK M : /\ Tracks(M, u, Existing(u))
               /\ M.edges = E.edges \cup UNION {Derived(R, u, f) : f \in fs}
               /\ Passes(E, u, fs).edges = M.edges \cup UNION {OverridesEdges(M, u, f) : f \in fs}
  <2>1. PICK M : Midway(E, u, fs, R, M)
    BY <1>4, <1>5, PassesEdges
  <2> QED BY <2>1, Zenon DEF Midway
<1>7. \A f \in gs : EdgesOf(t, f) = EdgesOf(u, f)
  <2>1. ASSUME NEW f \in gs PROVE EdgesOf(t, f) = EdgesOf(u, f)
    <3>1. f \in Existing(t) /\ f \notin Dirty(L, seeds)
      BY <1>1, <1>3
    <3>2. f \notin seeds /\ ReadsOf(Full(t), t, f) \cap seeds = {}
      BY <3>1, CleanReads
    <3>3. Derived(Full(t), t, f) = Derived(Full(u), u, f)
      BY <3>1, <3>2, DerivedKept
    <3>4. OverridesEdges(Full(t), t, f) = OverridesEdges(Full(u), u, f)
      BY <3>1, <3>2, OverridesKept
    <3> QED BY <3>3, <3>4 DEF EdgesOf
  <2> QED BY <2>1
<1>8. ASSUME NEW e PROVE e \in E.edges <=> \E f \in gs : e \in EdgesOf(u, f)
  <2>1. e \in E.edges <=> e \in Full(t).edges /\ e.source \notin FileIds(L, dirty)
    <3>1. E.edges = {x \in L.edges : x.source \notin FileIds(L, dirty)}
      <4>1. IsLayer(L)
        BY DEF Tracks
      <4>2. Evict(L, dirty).edges = {x \in L.edges : x.source \notin FileIds(L, dirty)}
        BY <4>1, EvictIs
      <4> QED BY <1>1, <4>2
    <3> QED BY <3>1
  <2>2. ASSUME e \in E.edges PROVE \E f \in gs : e \in EdgesOf(u, f)
    <3>1. PICK f \in Existing(t) : e \in EdgesOf(t, f)
      BY <2>1, <2>2, EdgesOfAre
    <3>2. e.source \in OwnIds(t, f)
      BY <3>1, EdgesOfAre
    <3>3. f \notin dirty
      BY <2>1, <2>2, <3>2, FileIdsAre
    <3> QED BY <1>3, <1>7, <3>1, <3>3
  <2>3. ASSUME NEW f \in gs, e \in EdgesOf(u, f) PROVE e \in E.edges
    <3>1. f \in Existing(t) /\ f \notin dirty /\ e \in EdgesOf(t, f)
      BY <1>3, <1>7, <2>3
    <3>2. e \in Full(t).edges /\ e.source \in OwnIds(t, f)
      BY <3>1, EdgesOfAre
    <3>3. Existing(t) \subseteq Files
      BY DEF Existing
    <3>4. \A h \in Existing(t) : e.source \in OwnIds(t, h) => h = f
      BY <3>1, <3>2, <3>3, OwnDisjoint
    <3>5. e.source \notin FileIds(L, dirty)
      BY <3>1, <3>4, FileIdsAre
    <3> QED BY <2>1, <3>2, <3>5
  <2> QED BY <2>2, <2>3
<1>9. ASSUME NEW e PROVE e \in M.edges <=> \/ \E f \in gs : e \in EdgesOf(u, f)
                                           \/ \E f \in fs : e \in Derived(R, u, f)
  BY <1>6, <1>8
<1>10. ASSUME NEW e, e.kind \in Structural PROVE e \in R.edges <=> e \in M.edges
  <2>1. ASSUME e \in R.edges PROVE e \in M.edges
    <3>1. PICK f \in Existing(u) : e \in EdgesOf(u, f)
      BY <1>1, <2>1, EdgesOfAre
    <3>2. e \in Derived(R, u, f)
      BY <1>1, <1>10, <3>1, EdgesOfAre
    <3> QED BY <1>5, <1>9, <3>1, <3>2
  <2>2. ASSUME e \in M.edges PROVE e \in R.edges
    <3>1. PICK f \in Existing(u) : e \in EdgesOf(u, f)
      BY <1>1, <1>5, <1>9, <2>2 DEF EdgesOf
    <3> QED BY <1>1, <3>1, EdgesOfAre
  <2> QED BY <2>1, <2>2
<1>11. ASSUME NEW e \in R.edges, e.kind \in {"defines", "contains"} PROVE Owned(u, e.target)
  <2>1. PICK f \in Existing(u) : e \in EdgesOf(u, f)
    BY <1>1, EdgesOfAre
  <2>2. e \in Derived(R, u, f)
    BY <1>1, <1>11, <2>1, EdgesOfAre DEF Structural
  <2> QED BY <1>4, <1>11, <2>2, DerivedEnds
<1>12. \A f \in Existing(u) : OverridesEdges(R, u, f) = OverridesEdges(M, u, f)
  BY <1>4, <1>6, <1>10, <1>11, OverridesSame
<1>13. ASSUME NEW e PROVE e \in Passes(E, u, fs).edges <=> e \in R.edges
  <2>1. e \in Passes(E, u, fs).edges <=>
            e \in M.edges \/ \E f \in fs : e \in OverridesEdges(R, u, f)
    BY <1>5, <1>6, <1>12
  <2>2. e \in Passes(E, u, fs).edges <=> \E f \in gs \cup fs : e \in EdgesOf(u, f)
    BY <1>1, <1>9, <2>1 DEF EdgesOf
  <2> QED BY <1>1, <1>5, <2>2, EdgesOfAre
<1>14. IsLayer(Passes(E, u, fs)) /\ Scoped(L, u, seeds) = Collected(Passes(E, u, fs))
  <2>1. Tracks(Passes(E, u, fs), u, gs \cup fs)
    BY <1>4, <1>5, PassesTracks
  <2> QED BY <1>1, <2>1 DEF Tracks, Scoped
<1>15. Scoped(L, u, seeds).edges = Passes(E, u, fs).edges
  BY <1>14, CollectedIs, Zenon
<1>16. R.edges = M.edges \cup UNION {OverridesEdges(M, u, f) : f \in fs}
  <2>1. ASSUME NEW e PROVE e \in R.edges <=> e \in M.edges \cup UNION {OverridesEdges(M, u, f) : f \in fs}
    BY <1>6, <1>13
  <2>2. R.edges = (UNION {Derived(R, u, f) : f \in Existing(u)}) \cup
                  (UNION {OverridesEdges(R, u, f) : f \in Existing(u)})
    BY <1>1, FullEdges
  <2> QED BY <2>1, <2>2
<1> QED BY <1>1, <1>6, <1>15, <1>16

-----------------------------------------------------------------------------
(* Stubs. *)

(* Every edge to an external id has its stub. *)
External(i) == \E p, n : i = ExternalId(p, n)
Anchored(L) == \A e \in L.edges : External(e.target) => e.target \in DOMAIN L.nodes

(* Adding nodes keeps that, and so does adding edges between nodes that exist. *)
LEMMA GrownAnchored ==
    ASSUME NEW L, Anchored(L), NEW M, M.edges = L.edges, DOMAIN L.nodes \subseteq DOMAIN M.nodes
    PROVE  Anchored(M)
BY DEF Anchored

(* Only edges between nodes are added. *)
LEMMA TryEdgesAnchored ==
    ASSUME NEW L, IsLayer(L), Anchored(L), NEW E
    PROVE  Anchored(TryEdges(L, E))
<1>1. PICK M : M = TryEdges(L, E)
  OBVIOUS
<1>2. /\ M.nodes = L.nodes
      /\ M.edges = L.edges \cup {e \in E : e.source \in DOMAIN L.nodes /\ e.target \in DOMAIN L.nodes}
  BY <1>1, TryEdgesIs, Zenon
<1>3. Anchored(M)
  BY <1>2 DEF Anchored
<1> QED BY <1>1, <1>3

(* Stubs take no node away. *)
LEMMA WithStubsAnchored ==
    ASSUME NEW L, IsLayer(L), Anchored(L), NEW S
    PROVE  IsLayer(WithStubs(L, S)) /\ Anchored(WithStubs(L, S))
<1>1. PICK M : M = WithStubs(L, S)
  OBVIOUS
<1>2. IsLayer(M) /\ M.edges = L.edges /\ M.nodes = Over(L.nodes, Stubs(S))
  BY <1>1, WithStubsIs, Zenon
<1>3. DOMAIN Over(L.nodes, Stubs(S)) = DOMAIN L.nodes \cup DOMAIN Stubs(S)
  BY OverIs
<1>4. DOMAIN L.nodes \subseteq DOMAIN M.nodes
  BY <1>2, <1>3
<1> QED BY <1>1, <1>2, <1>4, GrownAnchored

(* The passes. *)
LEMMA PassesAnchored ==
    ASSUME NEW L, IsLayer(L), Anchored(L), NEW t, NEW fs
    PROVE  IsLayer(Passes(L, t, fs)) /\ Anchored(Passes(L, t, fs))
<1>1. ASSUME NEW M, IsLayer(M), Anchored(M), NEW E
      PROVE  IsLayer(TryEdges(M, E)) /\ Anchored(TryEdges(M, E))
  BY <1>1, TryEdgesIs, TryEdgesAnchored, Zenon
<1>2. ASSUME NEW M, IsLayer(M), Anchored(M), NEW S, NEW E
      PROVE  /\ IsLayer(TryEdges(WithStubs(M, S), E)) /\ Anchored(TryEdges(WithStubs(M, S), E))
  BY <1>1, <1>2, WithStubsAnchored, Zenon
<1>3. IsLayer(Materialized(L, t, fs)) /\ Anchored(Materialized(L, t, fs))
  <2>1. PICK M : M = Materialized(L, t, fs)
    OBVIOUS
  <2>2. IsLayer(Materialized(L, t, fs)) /\ Materialized(L, t, fs).edges = L.edges
    BY MaterializedEdges, Zenon
  <2>3. DOMAIN L.nodes \subseteq DOMAIN M.nodes
    BY <2>1, MaterializedGrows, Zenon
  <2> QED BY <2>1, <2>2, <2>3, GrownAnchored
<1> QED BY <1>1, <1>2, <1>3, Zenon
        DEF Passes, ContainmentPass, ReferencesPass, InheritsPass, OverridesPass

(* Eviction takes no stub, and collection none that an edge leads to. *)
LEMMA EvictAnchored ==
    ASSUME NEW t \in Projects, NEW L, Tracks(L, t, Existing(t)), Anchored(L), NEW fs
    PROVE  IsLayer(Evict(L, fs)) /\ Anchored(Evict(L, fs))
<1>1. PICK M, ids : M = Evict(L, fs) /\ ids = FileIds(L, fs)
  OBVIOUS
<1>2. IsLayer(L)
  BY DEF Tracks
<1>3. /\ IsLayer(M) /\ M.edges = {e \in L.edges : e.source \notin ids}
      /\ M.nodes = Restrict(L.nodes, DOMAIN L.nodes \ ids)
  <2>1. /\ IsLayer(Evict(L, fs))
        /\ Evict(L, fs).edges = {e \in L.edges : e.source \notin FileIds(L, fs)}
        /\ Evict(L, fs).nodes = Restrict(L.nodes, DOMAIN L.nodes \ FileIds(L, fs))
    BY <1>2, EvictIs
  <2> QED BY <1>1, <2>1
<1>4. \A i : External(i) => i \notin ids
  BY <1>1, FileIdsAre, IdsDiffer DEF External, OwnIds, SymbolIds
<1>5. DOMAIN M.nodes = DOMAIN L.nodes \ ids
  BY <1>3 DEF Restrict
<1> QED BY <1>1, <1>3, <1>4, <1>5 DEF Anchored

(* A collected stub is the target of no edge, and never a source. *)
LEMMA CollectedAnchored ==
    ASSUME NEW L, IsLayer(L), Anchored(L)
    PROVE  Anchored(Collected(L))
<1>1. PICK M, idle : M = Collected(L) /\ idle = IdleStubs(L)
  OBVIOUS
<1>2. M.edges = L.edges /\ M.nodes = Restrict(L.nodes, DOMAIN L.nodes \ idle)
  BY <1>1, CollectedIs, Zenon
<1>3. DOMAIN M.nodes = DOMAIN L.nodes \ idle
  BY <1>2 DEF Restrict
<1>4. \A e \in L.edges : e.target \notin idle
  BY <1>1 DEF IdleStubs
<1> QED BY <1>1, <1>2, <1>3, <1>4 DEF Anchored

(* build and build_scoped *)
LEMMA FullAnchored ==
    ASSUME NEW t
    PROVE  Anchored(Full(t))
<1>1. IsLayer(EmptyLayer) /\ Anchored(EmptyLayer)
  BY EmptyIs DEF Anchored
<1> QED BY <1>1, PassesAnchored, Zenon DEF Full

(* A scoped build over an anchored layer. *)
LEMMA ScopedAnchored ==
    ASSUME NEW t \in Projects, NEW L, Tracks(L, t, Existing(t)), Anchored(L), NEW u, NEW seeds
    PROVE  Anchored(Scoped(L, u, seeds))
<1>1. PICK dirty : dirty = Dirty(L, seeds)
  OBVIOUS
<1>2. IsLayer(Evict(L, dirty)) /\ Anchored(Evict(L, dirty))
  BY EvictAnchored
<1>3. PICK M : M = Passes(Evict(L, dirty), u, dirty \cap Existing(u))
  OBVIOUS
<1>4. IsLayer(M) /\ Anchored(M)
  BY <1>2, <1>3, PassesAnchored
<1>5. Scoped(L, u, seeds) = Collected(M)
  BY <1>1, <1>3 DEF Scoped
<1> QED BY <1>4, <1>5, CollectedAnchored

(* The stubs that an edge leads to, and every node of a file, are what collection keeps: two
   layers of a project with the same edges keep the same nodes. *)
LEMMA CollectedNodes ==
    ASSUME NEW t \in Projects, NEW L, Tracks(L, t, Existing(t)), Anchored(L), NEW i
    PROVE  /\ i \in DOMAIN Collected(L).nodes <=>
                 Owned(t, i) \/ (External(i) /\ \E e \in L.edges : e.target = i)
           /\ i \in DOMAIN Collected(L).nodes => Collected(L).nodes[i] = L.nodes[i]
<1>1. PICK M, idle : M = Collected(L) /\ idle = IdleStubs(L)
  OBVIOUS
<1>2. IsLayer(L)
  BY DEF Tracks
<1>3. M.nodes = Restrict(L.nodes, DOMAIN L.nodes \ idle)
  BY <1>1, <1>2, CollectedIs, Zenon
<1>4. /\ DOMAIN M.nodes = DOMAIN L.nodes \ idle
      /\ i \in DOMAIN M.nodes => M.nodes[i] = L.nodes[i]
  BY <1>3 DEF Restrict
<1>5. ASSUME Owned(t, i) PROVE i \in DOMAIN L.nodes /\ L.nodes[i].kind # "stub"
  BY <1>5, OwnKind DEF Owned, Tracks
<1>6. ASSUME ~Owned(t, i), i \in DOMAIN L.nodes PROVE External(i) /\ L.nodes[i].kind = "stub"
  <2>1. StubNode(L.nodes, i)
    BY <1>6 DEF Tracks, Owned
  <2>2. \A p, n : Stub(p, n).kind = "stub"
    BY DEF Stub
  <2> QED BY <2>1, <2>2 DEF StubNode, External
<1>7. i \in idle <=> i \in DOMAIN L.nodes /\ L.nodes[i].kind = "stub" /\ ~\E e \in L.edges : e.target = i
  BY <1>1 DEF IdleStubs
<1>8. External(i) /\ (\E e \in L.edges : e.target = i) => i \in DOMAIN L.nodes
  BY DEF Anchored
<1> QED BY <1>1, <1>4, <1>5, <1>6, <1>7, <1>8

(* Two layers of a project agree on every node they both have. *)
LEMMA OneNode ==
    ASSUME NEW t \in Projects, NEW L, Tracks(L, t, Existing(t)), NEW M, Tracks(M, t, Existing(t)),
           NEW i, i \in DOMAIN L.nodes, i \in DOMAIN M.nodes
    PROVE  L.nodes[i] = M.nodes[i]
<1>1. CASE Owned(t, i)
  BY <1>1 DEF Owned, Tracks
<1>2. CASE ~Owned(t, i)
  <2>1. StubNode(L.nodes, i) /\ StubNode(M.nodes, i)
    BY <1>2 DEF Tracks, Owned
  <2>2. PICK p, n : i = ExternalId(p, n) /\ L.nodes[i] = Stub(p, n)
    BY <2>1 DEF StubNode
  <2>3. PICK q, m : i = ExternalId(q, m) /\ M.nodes[i] = Stub(q, m)
    BY <2>1 DEF StubNode
  <2>4. p = q /\ n = m
    BY <2>2, <2>3 DEF ExternalId
  <2> QED BY <2>2, <2>3, <2>4
<1> QED BY <1>1, <1>2

(* Tracked layers with the same edges have, once collected, the same nodes. *)
LEMMA SameCollected ==
    ASSUME NEW t \in Projects, NEW L, Tracks(L, t, Existing(t)), Anchored(L),
           NEW M, Tracks(M, t, Existing(t)), Anchored(M), L.edges = M.edges
    PROVE  Collected(L).nodes = Collected(M).nodes
<1>1. PICK A, B : A = Collected(L).nodes /\ B = Collected(M).nodes
  OBVIOUS
<1>2. /\ Tracks(Collected(L), t, Existing(t)) /\ Tracks(Collected(M), t, Existing(t))
  BY CollectedTracks
<1>3. A = [i \in DOMAIN A |-> A[i]] /\ B = [i \in DOMAIN B |-> B[i]]
  BY <1>1, <1>2 DEF Tracks
<1>4. \A i : i \in DOMAIN A <=> i \in DOMAIN B
  BY <1>1, CollectedNodes
<1>5. \A i \in DOMAIN A : i \in DOMAIN B => A[i] = B[i]
  BY <1>1, <1>2, OneNode
<1>6. DOMAIN A = DOMAIN B
  BY <1>4
<1>7. [i \in DOMAIN A |-> A[i]] = [i \in DOMAIN B |-> B[i]]
  BY <1>5, <1>6
<1> QED BY <1>1, <1>3, <1>7

-----------------------------------------------------------------------------
(* What is carried forward. *)

(* The modules and entities of a layer. *)
OwnNodes(L) == Restrict(L.nodes, {i \in DOMAIN L.nodes : L.nodes[i].kind # "stub"})

(* Layers that track a project have the same modules and entities. *)
LEMMA SameOwnNodes ==
    ASSUME NEW t \in Projects, NEW L, Tracks(L, t, Existing(t)), NEW M, Tracks(M, t, Existing(t))
    PROVE  OwnNodes(L) = OwnNodes(M)
<1>1. ASSUME NEW K, Tracks(K, t, Existing(t)), NEW i
      PROVE  i \in DOMAIN K.nodes /\ K.nodes[i].kind # "stub" <=> Owned(t, i)
  <2>1. Owned(t, i) => i \in DOMAIN K.nodes /\ K.nodes[i].kind # "stub"
    BY <1>1, OwnKind DEF Owned, Tracks
  <2>2. i \in DOMAIN K.nodes /\ ~Owned(t, i) => StubNode(K.nodes, i)
    BY <1>1 DEF Owned, Tracks
  <2>3. \A p, n : Stub(p, n).kind = "stub"
    BY DEF Stub
  <2> QED BY <2>1, <2>2, <2>3 DEF StubNode
<1>2. PICK A, B : /\ A = {i \in DOMAIN L.nodes : L.nodes[i].kind # "stub"}
                  /\ B = {i \in DOMAIN M.nodes : M.nodes[i].kind # "stub"}
  OBVIOUS
<1>3. \A i : (i \in A <=> Owned(t, i)) /\ (i \in B <=> Owned(t, i))
  BY <1>1, <1>2
<1>4. A = B
  BY <1>3
<1>5. \A i \in A : L.nodes[i] = M.nodes[i]
  BY <1>2, <1>4, OneNode
<1>6. Restrict(L.nodes, A) = Restrict(M.nodes, B)
  BY <1>4, <1>5 DEF Restrict
<1> QED BY <1>2, <1>6 DEF OwnNodes

(* The inductive invariant: the layer holds the project, every external target has its stub,
   and a settled layer has the edges of a full build of a project in which every file imports
   what it reads. *)
Settled == settled => OneHop(text) /\ layer.edges = Full(text).edges
CarriedInv == Carried /\ Anchored(layer) /\ Settled

(* Opening a project. *)
LEMMA CarriedInvInit == Init => CarriedInv
<1> SUFFICES ASSUME Init PROVE CarriedInv
  OBVIOUS
<1>1. Carried
  BY CarriedInit
<1>2. layer = Full(text) /\ settled = OneHop(text)
  BY DEF Init, FullOf, OneHopOf
<1>3. Anchored(Full(text))
  BY FullAnchored
<1> QED BY <1>1, <1>2, <1>3, Zenon DEF CarriedInv, Settled

(* A commit, rescan or scoped. *)
LEMMA CarriedInvCommit ==
    ASSUME CarriedInv, NEW seeds \in SUBSET Files, NEW rescan \in BOOLEAN, Commit(seeds, rescan)
    PROVE  CarriedInv'
<1>1. PICK u \in Projects :
          /\ \A f \in Files \ seeds : u[f] = text[f]
          /\ text' = u /\ layer' = Produce(layer, u, seeds, rescan)
          /\ settled' = (OneHopOf[u] /\ (settled \/ layer' = FullOf[u]))
  BY Zenon DEF Commit
<1>2. OneHopOf[u] = OneHop(u) /\ FullOf[u] = Full(u)
  BY DEF OneHopOf, FullOf
<1>3. text \in Projects /\ Tracks(layer, text, Existing(text)) /\ Anchored(layer)
  BY DEF CarriedInv, Carried
<1>4. Carried'
  BY CarriedCommit DEF CarriedInv
<1>5. PICK M : M = Produce(layer, u, seeds, rescan)
  OBVIOUS
<1>6. M = Full(u) \/ M = Scoped(layer, u, seeds)
  BY <1>2, <1>5, Zenon DEF Produce
<1>7. Anchored(M)
  BY <1>3, <1>6, FullAnchored, ScopedAnchored
<1>8. ASSUME OneHop(u), settled \/ M = Full(u) PROVE M.edges = Full(u).edges
  <2>1. CASE M = Full(u)
    BY <2>1
  <2>2. CASE M # Full(u)
    <3>1. M = Scoped(layer, u, seeds) /\ OneHop(text) /\ layer.edges = Full(text).edges
      BY <1>6, <1>8, <2>2 DEF CarriedInv, Settled
    <3>2. Scoped(layer, u, seeds).edges = Full(u).edges
      BY <1>1, <1>3, <3>1, ScopedEdges
    <3> QED BY <3>1, <3>2
  <2> QED BY <2>1, <2>2
<1>9. settled' = (OneHop(u) /\ (settled \/ M = Full(u)))
  BY <1>1, <1>2, <1>5, Zenon
<1>10. Settled'
  BY <1>1, <1>5, <1>8, <1>9, Zenon DEF Settled
<1>11. Anchored(layer)'
  BY <1>1, <1>5, <1>7, Zenon DEF Anchored
<1> QED BY <1>4, <1>10, <1>11 DEF CarriedInv

(* Every step. *)
LEMMA CarriedInvStep == CarriedInv /\ [Next]_vars => CarriedInv'
<1>1. ASSUME CarriedInv, UNCHANGED vars PROVE CarriedInv'
  <2>1. text' = text /\ layer' = layer /\ settled' = settled
    BY <1>1 DEF vars
  <2>2. Carried'
    BY <1>1, <2>1 DEF CarriedInv, Carried
  <2> QED BY <1>1, <2>1, <2>2 DEF CarriedInv, Settled, Anchored
<1> QED BY <1>1, CarriedInvCommit DEF Next

(* From it, what the carried layer shares with a full build. *)
LEMMA CarriedInvExact == CarriedInv => CarriedExact
<1> SUFFICES ASSUME CarriedInv PROVE CarriedExact
  OBVIOUS
<1>1. PICK full : full = Full(text)
  OBVIOUS
<1>2. text \in Projects /\ Tracks(layer, text, Existing(text)) /\ Anchored(layer)
  BY DEF CarriedInv, Carried
<1>3. Tracks(full, text, Existing(text)) /\ Anchored(full)
  BY <1>1, <1>2, FullTracks, FullAnchored
<1>4. FullOf[text] = full
  BY <1>1, <1>2 DEF FullOf
<1>5. OwnNodes(layer) = OwnNodes(full)
  BY <1>2, <1>3, SameOwnNodes
<1>6. layer.order = full.order
  BY <1>2, <1>3 DEF Tracks
<1>7. ASSUME settled
      PROVE  Served.edges = full.edges /\ Collected(Served).nodes = Collected(full).nodes
  <2>1. layer.edges = full.edges
    BY <1>1, <1>7 DEF CarriedInv, Settled
  <2>2. Collected(layer).nodes = Collected(full).nodes
    BY <1>2, <1>3, <2>1, SameCollected
  <2>3. Served = full \/ Served = layer
    BY <1>4 DEF Served
  <2> QED BY <2>1, <2>2, <2>3
<1> QED BY <1>4, <1>5, <1>6, <1>7, Zenon DEF CarriedExact, OwnNodes

(* CarriedExact for every history of commits: what build_scoped carries forward over any number
   of commits is what one full build of the last texts makes - always for the nodes and the
   listings, and for the edges while every file imports the files its derivation reads. *)
THEOREM CarriedIsExact == Spec => []CarriedExact
<1>1. Spec => []CarriedInv
  BY CarriedInvInit, CarriedInvStep, PTL DEF Spec
<1> QED BY <1>1, CarriedInvExact, PTL

-----------------------------------------------------------------------------
(* The ids there can be. *)

StubIds == {ExternalId(p, n) : p \in Packages, n \in TextNames}
NodeIds == {ModuleId(f) : f \in Files} \cup {Entity(i) : i \in TextIds} \cup StubIds

(* They are finite in number: each sort is the image of a finite set. *)
LEMMA NodeIdsFinite == IsFiniteSet(NodeIds)
<1>1. PICK A, B, C : /\ A = {ModuleId(f) : f \in Files} /\ B = {Entity(i) : i \in TextIds}
                     /\ C = StubIds
  OBVIOUS
<1>2. /\ IsFiniteSet(Files) /\ IsFiniteSet(Packages) /\ IsFiniteSet(TextIds)
      /\ IsFiniteSet(TextNames)
  BY CodeLayerAssumption
<1>3. IsFiniteSet(A)
  <2>1. PICK m : m = [f \in Files |-> ModuleId(f)]
    OBVIOUS
  <2>2. m \in Surjection(Files, A)
    BY <1>1, <2>1 DEF Surjection
  <2> QED BY <1>2, <2>2, FS_Surjection
<1>4. IsFiniteSet(B)
  <2>1. PICK m : m = [i \in TextIds |-> Entity(i)]
    OBVIOUS
  <2>2. m \in Surjection(TextIds, B)
    BY <1>1, <2>1 DEF Surjection
  <2> QED BY <1>2, <2>2, FS_Surjection
<1>5. IsFiniteSet(C)
  <2>1. IsFiniteSet(Packages \X TextNames)
    BY <1>2, FS_Product
  <2>2. PICK m : m = [x \in Packages \X TextNames |-> ExternalId(x[1], x[2])]
    OBVIOUS
  <2>3. ASSUME NEW c \in C PROVE \E x \in Packages \X TextNames : m[x] = c
    <3>1. PICK p \in Packages, n \in TextNames : c = ExternalId(p, n)
      BY <1>1 DEF StubIds
    <3>2. <<p, n>> \in Packages \X TextNames /\ m[<<p, n>>] = c
      BY <2>2, <3>1
    <3> QED BY <3>2
  <2>4. m \in [Packages \X TextNames -> C]
    BY <1>1, <2>2 DEF StubIds
  <2>5. m \in Surjection(Packages \X TextNames, C)
    BY <2>3, <2>4 DEF Surjection
  <2> QED BY <2>1, <2>5, FS_Surjection
<1>6. IsFiniteSet(A \cup B)
  BY <1>3, <1>4, FS_Union
<1>7. IsFiniteSet((A \cup B) \cup C)
  BY <1>5, <1>6, FS_Union
<1> QED BY <1>1, <1>7 DEF NodeIds

(* The ids of a file are among them. *)
LEMMA OwnIdsIn ==
    ASSUME NEW t \in Projects, NEW f \in Existing(t)
    PROVE  OwnIds(t, f) \subseteq NodeIds
<1>1. f \in Files /\ t[f] \in Texts[f] /\ t[f] # Absent
  BY TextIs
<1>2. ASSUME NEW s \in Symbols(t, f) PROVE s.id \in TextIds
  BY <1>1 DEF Symbols, TextIds
<1> QED BY <1>1, <1>2 DEF OwnIds, SymbolIds, NodeIds

(* So are those of the stubs that the passes make. *)
LEMMA StubsNamed ==
    ASSUME NEW t \in Projects, NEW f \in Existing(t)
    PROVE  /\ \A o \in t[f].occs : \A x \in OccurrenceStubs(t, o) : ExternalId(x[1], x[2]) \in StubIds
           /\ \A x \in InheritsStubs(t, f) : ExternalId(x[1], x[2]) \in StubIds
<1>1. f \in Files /\ t[f] \in Texts[f]
  BY TextIs
<1>2. \A y \in t[f].occs \cup t[f].supers : y.name \in TextNames
  BY <1>1 DEF TextNames
<1>3. ModuleName \in TextNames
  BY DEF TextNames
<1>4. ASSUME NEW o \in t[f].occs, NEW x \in OccurrenceStubs(t, o)
      PROVE  ExternalId(x[1], x[2]) \in StubIds
  <2>1. \E p \in Packages, n \in {o.name, ModuleName} : x = <<p, n>>
    BY DEF OccurrenceStubs
  <2> QED BY <1>2, <1>3, <2>1 DEF StubIds
<1>5. ASSUME NEW x \in InheritsStubs(t, f) PROVE ExternalId(x[1], x[2]) \in StubIds
  <2>1. PICK b \in t[f].supers : \E p \in Packages : x = <<p, b.name>>
    BY DEF InheritsStubs
  <2> QED BY <1>2, <2>1 DEF StubIds
<1> QED BY <1>4, <1>5

(* A layer with no other ids. *)
Bounded(L) == DOMAIN L.nodes \subseteq NodeIds

(* Stubs of names that occur are among the ids that can be. *)
LEMMA WithStubsBounded ==
    ASSUME NEW L, IsLayer(L), Bounded(L), NEW S, \A x \in S : ExternalId(x[1], x[2]) \in StubIds
    PROVE  IsLayer(WithStubs(L, S)) /\ Bounded(WithStubs(L, S))
<1>1. PICK M, X : M = WithStubs(L, S) /\ X = Stubs(S)
  OBVIOUS
<1>2. IsLayer(M) /\ M.nodes = Over(L.nodes, X)
  BY <1>1, WithStubsIs, Zenon
<1>3. DOMAIN Over(L.nodes, X) = DOMAIN L.nodes \cup DOMAIN X
  BY OverIs
<1>4. DOMAIN X \subseteq StubIds
  BY <1>1 DEF Stubs
<1>5. DOMAIN M.nodes \subseteq NodeIds
  BY <1>2, <1>3, <1>4 DEF Bounded, NodeIds
<1> QED BY <1>1, <1>2, <1>5 DEF Bounded

(* Adding edges adds no node. *)
LEMMA TryEdgesBounded ==
    ASSUME NEW L, IsLayer(L), Bounded(L), NEW E
    PROVE  IsLayer(TryEdges(L, E)) /\ Bounded(TryEdges(L, E))
<1>1. IsLayer(TryEdges(L, E)) /\ TryEdges(L, E).nodes = L.nodes
  BY TryEdgesIs, Zenon
<1> QED BY <1>1 DEF Bounded

(* The passes make nodes of the texts and stubs of the names that occur in them. *)
LEMMA PassesBounded ==
    ASSUME NEW t \in Projects, NEW gs, NEW L, Tracks(L, t, gs), NEW fs, fs \subseteq Existing(t),
           fs \cap gs = {}, Bounded(L)
    PROVE  Bounded(Passes(L, t, fs))
<1>1. PICK L2, L3, L4, L5 :
          /\ L2 = Materialized(L, t, fs) /\ L3 = ContainmentPass(L2, t, fs)
          /\ L4 = ReferencesPass(L3, t, fs) /\ L5 = InheritsPass(L4, t, fs)
  OBVIOUS
<1>2. Passes(L, t, fs) = OverridesPass(L5, t, fs)
  BY <1>1, Zenon DEF Passes
<1>3. IsLayer(L2) /\ Bounded(L2)
  <2>1. /\ Tracks(L2, t, gs \cup fs)
        /\ \A i \in DOMAIN L2.nodes : i \in DOMAIN L.nodes \/ \E f \in fs : i \in OwnIds(t, f)
    BY <1>1, MaterializedTracks
  <2>2. \A f \in fs : OwnIds(t, f) \subseteq NodeIds
    BY OwnIdsIn
  <2>3. Bounded(L2)
    BY <2>1, <2>2 DEF Bounded
  <2> QED BY <2>1, <2>3 DEF Tracks
<1>4. IsLayer(L3) /\ Bounded(L3)
  BY <1>1, <1>3, TryEdgesBounded DEF ContainmentPass
<1>5. IsLayer(L4) /\ Bounded(L4)
  <2>1. PICK S, E : /\ S = UNION {UNION {OccurrenceStubs(t, o) : o \in t[f].occs} : f \in fs}
                    /\ L4 = TryEdges(WithStubs(L3, S), E)
    BY <1>1 DEF ReferencesPass
  <2>2. \A x \in S : ExternalId(x[1], x[2]) \in StubIds
    BY <2>1, StubsNamed
  <2>3. IsLayer(WithStubs(L3, S)) /\ Bounded(WithStubs(L3, S))
    BY <1>4, <2>2, WithStubsBounded
  <2> QED BY <2>1, <2>3, TryEdgesBounded
<1>6. IsLayer(L5) /\ Bounded(L5)
  <2>1. PICK S, E : S = UNION {InheritsStubs(t, f) : f \in fs} /\ L5 = TryEdges(WithStubs(L4, S), E)
    BY <1>1 DEF InheritsPass
  <2>2. \A x \in S : ExternalId(x[1], x[2]) \in StubIds
    BY <2>1, StubsNamed
  <2>3. IsLayer(WithStubs(L4, S)) /\ Bounded(WithStubs(L4, S))
    BY <1>5, <2>2, WithStubsBounded
  <2> QED BY <2>1, <2>3, TryEdgesBounded
<1> QED BY <1>2, <1>6, TryEdgesBounded DEF OverridesPass

(* build and build_scoped *)
LEMMA FullBounded ==
    ASSUME NEW t \in Projects
    PROVE  Bounded(Full(t))
<1>1. Tracks(EmptyLayer, t, {}) /\ Bounded(EmptyLayer)
  BY EmptyTracks, EmptyIs DEF Bounded
<1>2. Bounded(Passes(EmptyLayer, t, Existing(t)))
  BY <1>1, PassesBounded
<1> QED BY <1>2 DEF Full

(* A scoped build over a bounded layer. *)
LEMMA ScopedBounded ==
    ASSUME NEW t \in Projects, NEW u \in Projects, NEW L, Tracks(L, t, Existing(t)), Bounded(L),
           NEW seeds, \A f \in Files \ seeds : u[f] = t[f]
    PROVE  Bounded(Scoped(L, u, seeds))
<1>1. PICK dirty, E, gs, fs : /\ dirty = Dirty(L, seeds) /\ E = Evict(L, dirty)
                              /\ gs = Existing(u) \ dirty /\ fs = dirty \cap Existing(u)
  OBVIOUS
<1>2. Tracks(E, u, gs)
  BY <1>1, ScopedTracks
<1>3. Bounded(E)
  <2>1. IsLayer(L)
    BY DEF Tracks
  <2>2. Evict(L, dirty).nodes = Restrict(L.nodes, DOMAIN L.nodes \ FileIds(L, dirty))
    BY <2>1, EvictIs, Zenon
  <2> QED BY <1>1, <2>2 DEF Bounded, Restrict
<1>4. PICK M : M = Passes(E, u, fs)
  OBVIOUS
<1>5. fs \subseteq Existing(u) /\ fs \cap gs = {}
  BY <1>1
<1>6. Bounded(M)
  BY <1>2, <1>3, <1>4, <1>5, PassesBounded
<1>7. IsLayer(M)
  <2>1. Tracks(M, u, gs \cup fs)
    BY <1>2, <1>4, <1>5, PassesTracks
  <2> QED BY <2>1 DEF Tracks
<1>8. Collected(M).nodes = Restrict(M.nodes, DOMAIN M.nodes \ IdleStubs(M))
  BY <1>7, CollectedIs, Zenon
<1>9. Scoped(L, u, seeds) = Collected(M)
  BY <1>1, <1>4 DEF Scoped
<1> QED BY <1>6, <1>8, <1>9 DEF Bounded, Restrict

-----------------------------------------------------------------------------
(* Where edges start. *)

(* Every edge starts at a module or an entity of the project. *)
Sourced(L, t) == \A e \in L.edges : Owned(t, e.source)

(* The passes add edges that start in the files they are over. *)
LEMMA PassesSourced ==
    ASSUME NEW t \in Projects, NEW gs, NEW L, Tracks(L, t, gs), NEW fs, fs \subseteq Existing(t),
           fs \cap gs = {}, gs \cup fs = Existing(t), Sourced(L, t)
    PROVE  Sourced(Passes(L, t, fs), t)
<1>1. PICK R : R = Full(t)
  OBVIOUS
<1>2. Tracks(R, t, Existing(t))
  BY <1>1, FullTracks
<1>3. PICK M : /\ Tracks(M, t, Existing(t))
               /\ M.edges = L.edges \cup UNION {Derived(R, t, f) : f \in fs}
               /\ Passes(L, t, fs).edges = M.edges \cup UNION {OverridesEdges(M, t, f) : f \in fs}
  <2>1. PICK M : Midway(L, t, fs, R, M)
    BY <1>2, PassesEdges
  <2> QED BY <2>1, Zenon DEF Midway
<1>4. \A f \in fs : \A e \in Derived(R, t, f) : Owned(t, e.source)
  BY <1>2, DerivedEnds DEF Owned
<1>5. \A f \in fs : \A e \in OverridesEdges(M, t, f) : Owned(t, e.source)
  BY <1>3, OverridesEnds DEF Owned
<1> QED BY <1>3, <1>4, <1>5 DEF Sourced

(* A full build. *)
LEMMA FullSourced ==
    ASSUME NEW t \in Projects
    PROVE  Sourced(Full(t), t)
BY EdgesOfAre DEF Sourced, Owned

(* A scoped build evicts the edges of a file with its nodes. *)
LEMMA ScopedSourced ==
    ASSUME NEW t \in Projects, NEW u \in Projects, NEW L, Tracks(L, t, Existing(t)), Sourced(L, t),
           NEW seeds, \A f \in Files \ seeds : u[f] = t[f]
    PROVE  Sourced(Scoped(L, u, seeds), u)
<1>1. PICK dirty, E, gs, fs : /\ dirty = Dirty(L, seeds) /\ E = Evict(L, dirty)
                              /\ gs = Existing(u) \ dirty /\ fs = dirty \cap Existing(u)
  OBVIOUS
<1>2. Tracks(E, u, gs)
  BY <1>1, ScopedTracks
<1>3. gs \cup fs = Existing(u) /\ fs \cap gs = {} /\ fs \subseteq Existing(u)
  BY <1>1
<1>4. Sourced(E, u)
  <2>1. IsLayer(L)
    BY DEF Tracks
  <2>2. Evict(L, dirty).edges = {e \in L.edges : e.source \notin FileIds(L, dirty)}
    BY <2>1, EvictIs
  <2>3. ASSUME NEW e \in E.edges PROVE Owned(u, e.source)
    <3>1. e \in L.edges /\ e.source \notin FileIds(L, dirty)
      BY <1>1, <2>2
    <3>2. PICK f \in Existing(t) : e.source \in OwnIds(t, f)
      BY <3>1 DEF Sourced, Owned
    <3>3. f \notin dirty
      BY <3>1, <3>2, FileIdsAre
    <3>4. f \in Existing(u) /\ t[f] = u[f]
      BY <1>1, <3>3 DEF Dirty, Existing
    <3> QED BY <3>2, <3>4, OwnText DEF Owned
  <2> QED BY <2>3 DEF Sourced
<1>5. PICK M : M = Passes(E, u, fs)
  OBVIOUS
<1>6. Sourced(M, u)
  BY <1>2, <1>3, <1>4, <1>5, PassesSourced
<1>7. IsLayer(M)
  <2>1. Tracks(M, u, gs \cup fs)
    BY <1>2, <1>3, <1>5, PassesTracks
  <2> QED BY <2>1 DEF Tracks
<1>8. Scoped(L, u, seeds).edges = M.edges
  <2>1. Scoped(L, u, seeds) = Collected(M)
    BY <1>1, <1>5 DEF Scoped
  <2> QED BY <1>7, <2>1, CollectedIs, Zenon
<1> QED BY <1>6, <1>8 DEF Sourced

-----------------------------------------------------------------------------
(* The closure of the affected ids. *)

(* One round of it, along pairs of a target and a source. *)
Grow(R, S) == S \cup {p[2] : p \in {p \in R : p[1] \in S}}

(* The pairs that it follows. *)
Followed(prev, next, deleted) == next.rdeps \cup {p \in prev.rdeps : p[1] \in deleted}

(* The rounds of Affected. *)
Rounds(at, N, seeds, R) == at[0] = seeds /\ \A n \in 1..N : at[n] = Grow(R, at[n - 1])

(* The affected closure is the last of as many rounds as there are ids. *)
LEMMA AffectedRounds ==
    ASSUME NEW prev, NEW next, NEW seeds, NEW deleted,
           NEW U, U = DOMAIN next.nodes \cup DOMAIN prev.nodes, IsFiniteSet(U)
    PROVE  \E at : /\ Rounds(at, Cardinality(U), seeds, Followed(prev, next, deleted))
                   /\ Affected(prev, next, seeds, deleted) = at[Cardinality(U)]
<1> SUFFICES ASSUME NEW N \in Nat, N = Cardinality(DOMAIN next.nodes \cup DOMAIN prev.nodes)
             PROVE  \E at : /\ Rounds(at, N, seeds, Followed(prev, next, deleted))
                            /\ Affected(prev, next, seeds, deleted) = at[N]
  BY FS_CardinalityType
<1> DEFINE X == seeds
           G(v) == v \cup {p[2] : p \in {p \in next.rdeps : p[1] \in v}}
                     \cup {p[2] : p \in {p \in prev.rdeps : p[1] \in v \cap deleted}}
           F(m, f) == [k \in 0..m |-> IF k = 0 THEN X ELSE G(f[k - 1])]
           P == {m \in 0..N : \E f : f = F(m, f)}
<1>0. N \in Nat /\ N \in 0..N
  OBVIOUS
<1>1. Affected(prev, next, seeds, deleted) = (CHOOSE f : f = F(N, f))[N]
  BY Zenon DEF Affected
<1>2. \A v : G(v) = Grow(Followed(prev, next, deleted), v)
  BY DEF Grow, Followed
<1> HIDE DEF X, G
<1>3. 0 \in P
  <2>1. PICK f : f = [k \in 0..0 |-> X]
    OBVIOUS
  <2>2. f = F(0, f)
    BY <2>1
  <2> QED BY <2>2
<1>4. ASSUME NEW m \in 1..N, m - 1 \in P PROVE m \in P
  <2>1. PICK f : f = F(m - 1, f)
    BY <1>4
  <2>2. PICK g : g = [k \in 0..m |-> IF k = m THEN G(f[m - 1]) ELSE f[k]]
    OBVIOUS
  <2>3. DOMAIN f = 0..(m - 1) /\ DOMAIN g = 0..m
    BY <2>1, <2>2
  <2>4. ASSUME NEW k \in 0..m PROVE g[k] = IF k = 0 THEN X ELSE G(g[k - 1])
    <3>1. CASE k = m
      BY <2>2, <3>1
    <3>2. CASE k # m
      <4>1. k \in 0..(m - 1) /\ g[k] = f[k]
        BY <2>2, <3>2
      <4>2. f[k] = IF k = 0 THEN X ELSE G(f[k - 1])
        BY <2>1, <4>1
      <4>3. k # 0 => g[k - 1] = f[k - 1]
        BY <2>2, <4>1
      <4> QED BY <4>1, <4>2, <4>3
    <3> QED BY <3>1, <3>2
  <2>5. g = F(m, g)
    BY <2>2, <2>3, <2>4
  <2> QED BY <2>5
<1>5. N \in P
  <2>1. \A m \in 0..N : m \in P
    <3>1. PICK Q : Q = P
      OBVIOUS
    <3> QED BY <1>3, <1>4, <3>1, Induction
  <2> QED BY <1>0, <2>1
<1>6. PICK f : f = (CHOOSE h : h = F(N, h))
  OBVIOUS
<1>7. f = F(N, f)
  BY <1>5, <1>6 DEF P
<1>8. f[0] = X /\ \A k \in 1..N : f[k] = G(f[k - 1])
  <2>1. \A k \in 0..N : f[k] = IF k = 0 THEN X ELSE G(f[k - 1])
    BY <1>7
  <2>2. 0 \in 0..N /\ \A k \in 1..N : k \in 0..N /\ k # 0
    BY <1>0
  <2> QED BY <2>1, <2>2
<1>9. Rounds(f, N, seeds, Followed(prev, next, deleted))
  BY <1>2, <1>8 DEF Rounds, X
<1> QED BY <1>1, <1>6, <1>9

(* A round adds to a set; one that adds nothing leaves it closed. *)
LEMMA GrowIs ==
    ASSUME NEW R, NEW S
    PROVE  /\ S \subseteq Grow(R, S)
           /\ Grow(R, S) = S <=> \A p \in R : p[1] \in S => p[2] \in S
BY DEF Grow

(* In a finite set of N elements, N rounds close any subset: either some round added nothing,
   and then no later round did, or each added an element and the whole set is reached. *)
LEMMA RoundsClose ==
    ASSUME NEW U, IsFiniteSet(U), NEW R, \A p \in R : p[2] \in U, NEW seeds, seeds \subseteq U,
           NEW at, Rounds(at, Cardinality(U), seeds, R)
    PROVE  /\ seeds \subseteq at[Cardinality(U)]
           /\ \A p \in R : p[1] \in at[Cardinality(U)] => p[2] \in at[Cardinality(U)]
<1> SUFFICES ASSUME NEW N, N = Cardinality(U), Rounds(at, N, seeds, R)
             PROVE  seeds \subseteq at[N] /\ \A p \in R : p[1] \in at[N] => p[2] \in at[N]
  OBVIOUS
<1>1. N \in Nat
  BY FS_CardinalityType
<1>2. \A S : S \subseteq U => Grow(R, S) \subseteq U
  BY DEF Grow
<1>3. \A n \in 0..N : seeds \subseteq at[n] /\ at[n] \subseteq U
  <2>1. PICK P : P = {n \in 0..N : seeds \subseteq at[n] /\ at[n] \subseteq U}
    OBVIOUS
  <2>2. 0 \in P
    BY <1>1, <2>1 DEF Rounds
  <2>3. ASSUME NEW n \in 1..N, n - 1 \in P PROVE n \in P
    <3>1. at[n] = Grow(R, at[n - 1])
      BY DEF Rounds
    <3> QED BY <1>1, <1>2, <2>1, <2>3, <3>1, GrowIs
  <2>4. \A n \in 0..N : n \in P
    BY <1>1, <2>2, <2>3, Induction
  <2> QED BY <2>1, <2>4
<1>4. \A n \in 0..N : IsFiniteSet(at[n]) /\ Cardinality(at[n]) \in Nat
  BY <1>3, FS_Subset, FS_CardinalityType
<1>5. \A n \in 0..N : Grow(R, at[n]) = at[n] \/ Cardinality(at[n]) >= n
  <2>1. PICK P : P = {n \in 0..N : Grow(R, at[n]) = at[n] \/ Cardinality(at[n]) >= n}
    OBVIOUS
  <2>2. 0 \in P
    <3>1. 0 \in 0..N
      BY <1>1
    <3> QED BY <1>4, <2>1, <3>1
  <2>3. ASSUME NEW n \in 1..N, n - 1 \in P PROVE n \in P
    <3>1. n \in 0..N /\ n - 1 \in 0..N /\ n \in Nat
      BY <1>1
    <3>2. at[n] = Grow(R, at[n - 1])
      BY DEF Rounds
    <3>3. CASE at[n] = at[n - 1]
      BY <2>1, <3>1, <3>2, <3>3
    <3>4. CASE at[n] # at[n - 1]
      <4>1. Cardinality(at[n - 1]) >= n - 1
        BY <2>1, <2>3, <3>2, <3>4
      <4>2. at[n - 1] \subseteq at[n]
        BY <3>2, GrowIs
      <4>3. /\ Cardinality(at[n - 1]) <= Cardinality(at[n])
            /\ Cardinality(at[n]) # Cardinality(at[n - 1])
        BY <1>4, <3>1, <3>4, <4>2, FS_Subset
      <4>4. Cardinality(at[n]) >= n
        BY <1>4, <3>1, <4>1, <4>3
      <4> QED BY <2>1, <3>1, <4>4
    <3> QED BY <3>3, <3>4
  <2>4. \A n \in 0..N : n \in P
    BY <1>1, <2>2, <2>3, Induction
  <2> QED BY <2>1, <2>4
<1>6. N \in 0..N
  BY <1>1
<1>7. Grow(R, at[N]) = at[N]
  <2>1. CASE Cardinality(at[N]) >= N
    <3>1. at[N] \subseteq U /\ Cardinality(at[N]) <= Cardinality(U)
      BY <1>3, <1>6, FS_Subset
    <3>2. Cardinality(at[N]) = Cardinality(U)
      BY <1>1, <1>4, <1>6, <2>1, <3>1
    <3>3. at[N] = U
      BY <3>1, <3>2, FS_Subset
    <3> QED BY <1>2, <3>3, GrowIs
  <2> QED BY <1>5, <1>6, <2>1
<1> QED BY <1>3, <1>6, <1>7, GrowIs

(* The ids of a commit's entities are nodes of its layer. *)
LEMMA IdsTracked ==
    ASSUME NEW t \in Projects, NEW L, Tracks(L, t, Existing(t))
    PROVE  Ids(t) \subseteq DOMAIN L.nodes
<1>1. ASSUME NEW f \in Files, NEW i \in SymbolIds(t, f) PROVE i \in DOMAIN L.nodes
  <2>1. f \in Existing(t)
    BY DEF SymbolIds, Symbols, Existing
  <2> QED BY <2>1 DEF Tracks, OwnIds
<1> QED BY <1>1 DEF Ids

(* What the index of a layer leads to are nodes of the layer. *)
LEMMA IndexSources ==
    ASSUME NEW t \in Projects, NEW L, Tracks(L, t, Existing(t)), Sourced(L, t), Indexed(L),
           NEW p \in L.rdeps
    PROVE  p[2] \in DOMAIN L.nodes
<1>1. PICK e \in L.edges : p = <<e.target, e.source>>
  BY DEF Indexed, Inbound
<1>2. Owned(t, e.source)
  BY DEF Sourced
<1> QED BY <1>1, <1>2 DEF Owned, Tracks

(* The affected ids: the changed and the deleted ones, closed under the dependencies of the
   new layer, and with the dependents that the deleted ones had. *)
LEMMA AffectedClosed ==
    ASSUME NEW t \in Projects, NEW L, Tracks(L, t, Existing(t)), Sourced(L, t), Indexed(L), Bounded(L),
           NEW u \in Projects, NEW M, Tracks(M, u, Existing(u)), Sourced(M, u), Indexed(M), Bounded(M)
    PROVE  /\ ChangedIds(t, u) \cup DeletedIds(t, u) \subseteq AffectedIds(t, u, L, M)
           /\ \A p \in Inbound(M.edges) :
                 p[1] \in AffectedIds(t, u, L, M) => p[2] \in AffectedIds(t, u, L, M)
           /\ \A p \in Inbound(L.edges) :
                 p[1] \in DeletedIds(t, u) => p[2] \in AffectedIds(t, u, L, M)
<1>1. PICK U, deleted, seeds, R, A :
          /\ U = DOMAIN M.nodes \cup DOMAIN L.nodes
          /\ deleted = DeletedIds(t, u) /\ seeds = ChangedIds(t, u) \cup deleted
          /\ R = Followed(L, M, deleted) /\ A = Affected(L, M, seeds, deleted)
  OBVIOUS
<1>2. IsFiniteSet(U)
  <2>1. U \subseteq NodeIds
    BY <1>1 DEF Bounded
  <2> QED BY <2>1, NodeIdsFinite, FS_Subset
<1>3. seeds \subseteq U
  <2>1. Ids(t) \subseteq U /\ deleted \subseteq Ids(t)
    BY <1>1, IdsTracked DEF DeletedIds
  <2>2. ChangedIds(t, u) \subseteq Ids(t)
    BY DEF ChangedIds
  <2> QED BY <1>1, <2>1, <2>2
<1>4. \A p \in R : p[2] \in U
  BY <1>1, IndexSources DEF Followed
<1>5. PICK at : Rounds(at, Cardinality(U), seeds, R) /\ A = at[Cardinality(U)]
  <2>1. U = DOMAIN M.nodes \cup DOMAIN L.nodes
    BY <1>1
  <2>2. PICK at : /\ Rounds(at, Cardinality(U), seeds, Followed(L, M, deleted))
                  /\ Affected(L, M, seeds, deleted) = at[Cardinality(U)]
    BY <1>2, <2>1, AffectedRounds
  <2>3. Rounds(at, Cardinality(U), seeds, R) /\ A = at[Cardinality(U)]
    BY <1>1, <2>2
  <2> QED BY <2>3
<1>6. seeds \subseteq A /\ \A p \in R : p[1] \in A => p[2] \in A
  BY <1>2, <1>3, <1>4, <1>5, RoundsClose, Zenon
<1>7. AffectedIds(t, u, L, M) = A
  BY <1>1 DEF AffectedIds
<1>8. M.rdeps = Inbound(M.edges) /\ L.rdeps = Inbound(L.edges)
  BY DEF Indexed
<1>9. /\ \A p \in Inbound(M.edges) : p \in R
      /\ \A p \in Inbound(L.edges) : p[1] \in deleted => p \in R
  BY <1>1, <1>8 DEF Followed
<1> QED BY <1>1, <1>6, <1>7, <1>9

(* What the closure rests on, of every layer. *)
LayerInv == CarriedInv /\ Indexed(layer) /\ Bounded(layer) /\ Sourced(layer, text)

(* Opening a project. *)
LEMMA LayerInvInit == Init => LayerInv
<1> SUFFICES ASSUME Init PROVE LayerInv
  OBVIOUS
<1>1. text \in Projects /\ layer = Full(text)
  BY DEF Init, FullOf
<1>2. Indexed(Full(text)) /\ Bounded(Full(text)) /\ Sourced(Full(text), text)
  BY <1>1, FullIndexed, FullBounded, FullSourced
<1> QED BY <1>1, <1>2, CarriedInvInit, Zenon DEF LayerInv

(* Every step. *)
LEMMA LayerInvStep == LayerInv /\ [Next]_vars => LayerInv'
<1>1. ASSUME LayerInv, UNCHANGED vars PROVE LayerInv'
  <2>1. text' = text /\ layer' = layer
    BY <1>1 DEF vars
  <2>2. CarriedInv'
    BY <1>1, CarriedInvStep DEF LayerInv
  <2> QED BY <1>1, <2>1, <2>2 DEF LayerInv, Indexed, IsLayer, Bounded, Sourced
<1>2. ASSUME LayerInv, NEW seeds \in SUBSET Files, NEW rescan \in BOOLEAN, Commit(seeds, rescan)
      PROVE  LayerInv'
  <2>1. PICK u \in Projects : /\ \A f \in Files \ seeds : u[f] = text[f]
                              /\ text' = u /\ layer' = Produce(layer, u, seeds, rescan)
    BY <1>2 DEF Commit
  <2>2. /\ text \in Projects /\ Tracks(layer, text, Existing(text))
        /\ Indexed(layer) /\ Bounded(layer) /\ Sourced(layer, text)
    BY <1>2 DEF LayerInv, CarriedInv, Carried
  <2>3. PICK M : M = Produce(layer, u, seeds, rescan)
    OBVIOUS
  <2>4. M = Full(u) \/ M = Scoped(layer, u, seeds)
    BY <2>3, Zenon DEF Produce, FullOf
  <2>5. Indexed(M)
    BY <2>2, <2>3, ProduceIndexed
  <2>6. Bounded(M)
    BY <2>1, <2>2, <2>4, FullBounded, ScopedBounded
  <2>7. Sourced(M, u)
    BY <2>1, <2>2, <2>4, FullSourced, ScopedSourced
  <2>8. layer' = M /\ text' = u
    BY <2>1, <2>3
  <2>9. CarriedInv'
    BY <1>2, CarriedInvCommit DEF LayerInv
  <2> QED BY <2>5, <2>6, <2>7, <2>8, <2>9, Zenon DEF LayerInv, Indexed, IsLayer, Bounded, Sourced
<1> QED BY <1>1, <1>2 DEF Next

(* The affected ids of a commit, against full builds of the texts before and after it: the
   changed and the deleted ids and, while the layer is settled, with an id that is affected
   every entity that depends on it, and with one that is deleted every entity that did. *)
DependentsAffected ==
    [][LET affected == AffectedIds(text, text', layer, layer')
       IN  /\ ChangedIds(text, text') \cup DeletedIds(text, text') \subseteq affected
           /\ settled' => \A p \in Inbound(FullOf[text'].edges) :
                              p[1] \in affected => p[2] \in affected
           /\ settled => \A p \in Inbound(FullOf[text].edges) :
                              p[1] \in DeletedIds(text, text') => p[2] \in affected]_vars

(* DependentsAffected for every history of commits: the part of "a miss is not" that edges
   record, through any chain of dependents (affected_closure_with_deleted). *)
THEOREM NoDependentMissed == Spec => DependentsAffected
<1>1. LayerInv /\ LayerInv' =>
        LET affected == AffectedIds(text, text', layer, layer')
        IN  /\ ChangedIds(text, text') \cup DeletedIds(text, text') \subseteq affected
            /\ settled' => \A p \in Inbound(FullOf[text'].edges) :
                               p[1] \in affected => p[2] \in affected
            /\ settled => \A p \in Inbound(FullOf[text].edges) :
                               p[1] \in DeletedIds(text, text') => p[2] \in affected
  <2> SUFFICES ASSUME LayerInv, LayerInv'
               PROVE  LET affected == AffectedIds(text, text', layer, layer')
                      IN  /\ ChangedIds(text, text') \cup DeletedIds(text, text') \subseteq affected
                          /\ settled' => \A p \in Inbound(FullOf[text'].edges) :
                                             p[1] \in affected => p[2] \in affected
                          /\ settled => \A p \in Inbound(FullOf[text].edges) :
                                             p[1] \in DeletedIds(text, text') => p[2] \in affected
    OBVIOUS
  <2>1. /\ text \in Projects /\ Tracks(layer, text, Existing(text)) /\ Indexed(layer)
        /\ Bounded(layer) /\ Sourced(layer, text)
        /\ settled => layer.edges = Full(text).edges
    BY DEF LayerInv, CarriedInv, Carried, Settled
  <2>2. PICK u, M : u = text' /\ M = layer'
    OBVIOUS
  <2>3. /\ u \in Projects /\ Tracks(M, u, Existing(u)) /\ Indexed(M) /\ Bounded(M) /\ Sourced(M, u)
        /\ settled' => M.edges = Full(u).edges
    BY <2>2 DEF LayerInv, CarriedInv, Carried, Settled
  <2>4. /\ settled => FullOf[text].edges = layer.edges
        /\ settled' => FullOf[u].edges = M.edges
    BY <2>1, <2>3 DEF FullOf
  <2>5. PICK A : A = AffectedIds(text, u, layer, M)
    OBVIOUS
  <2>6. /\ ChangedIds(text, u) \cup DeletedIds(text, u) \subseteq A
        /\ \A p \in Inbound(M.edges) : p[1] \in A => p[2] \in A
        /\ \A p \in Inbound(layer.edges) : p[1] \in DeletedIds(text, u) => p[2] \in A
    BY <2>1, <2>3, <2>5, AffectedClosed
  <2> QED BY <2>2, <2>4, <2>5, <2>6
<1>2. Spec => []LayerInv
  BY LayerInvInit, LayerInvStep, PTL DEF Spec
<1> QED BY <1>1, <1>2, PTL DEF DependentsAffected
=============================================================================
