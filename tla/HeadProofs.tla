----------------------------- MODULE HeadProofs -----------------------------
(* Proofs about module Head, for every set of paths, texts and values and every
   value of the bounds: the commit transaction, the pinned snapshots and the retained
   window, that Head implements Ledger, and what the head serves. *)
EXTENDS HeadLedger, FiniteSetTheorems, WellFoundedInduction, TLAPS

(* Retain keeps generations of revisions it was given. *)
LEMMA RetainType ==
    ASSUME NEW W, NEW r \in Nat, NEW g \in Generations, NEW n \in Nat, r <= n,
           DOMAIN W \subseteq 0..n, W \in [DOMAIN W -> Generations]
    PROVE  /\ DOMAIN Retain(W, r, g) \subseteq 0..n
           /\ Retain(W, r, g) \in [DOMAIN Retain(W, r, g) -> Generations]
<1> DEFINE all == DOMAIN W \cup {r}
           kept == {k \in all : Cardinality({j \in all : j >= k}) <= RetainCap}
<1>1. Retain(W, r, g) = [k \in kept |-> IF k = r THEN g ELSE W[k]]
  BY DEF Retain
<1>2. kept \subseteq all /\ all \subseteq 0..n
  OBVIOUS
<1> HIDE DEF kept
<1>3. DOMAIN Retain(W, r, g) = kept
  BY <1>1
<1>4. \A k \in kept : (IF k = r THEN g ELSE W[k]) \in Generations
  BY <1>2
<1> QED BY <1>1, <1>2, <1>3, <1>4

(* A set of numbers has a least element. *)
LEMMA LeastNumber ==
    ASSUME NEW T, T \subseteq Nat, T # {}
    PROVE  \E x \in T : \A y \in T : x <= y
<1>1. PICK R : R = OpToRel(<, Nat)
  OBVIOUS
<1>2. IsWellFoundedOn(OpToRel(<, Nat), Nat)
  BY NatLessThanWellFounded
<1>3. \A x, y \in Nat : <<x, y>> \in R <=> x < y
  BY <1>1 DEF OpToRel
<1>4. PICK x \in T : \A y \in T : ~ (<<y, x>> \in R)
  BY <1>1, <1>2, WFMin
<1>5. ASSUME NEW y \in T PROVE x <= y
  <2>1. x \in Nat /\ y \in Nat
    OBVIOUS
  <2>2. ~(y < x)
    BY <1>3, <1>4, <2>1
  <2> QED BY <2>1, <2>2
<1> QED BY <1>5

(* The smallest of some ids is one of them. *)
LEMMA SmallestId ==
    ASSUME NEW T \in SUBSET Numbers, T # {}
    PROVE  Min(T) \in T
<1>1. T \subseteq Nat
  BY HeadAssumption DEF Numbers
<1>2. \E x \in T : \A y \in T : x <= y
  BY <1>1, LeastNumber
<1> QED BY <1>2 DEF Min

(* The largest of some ids, or 0, is one of them. *)
LEMMA LargestId ==
    ASSUME NEW T \in SUBSET Numbers
    PROVE  Max(T \cup {0}) \in T \cup {0}
<1>1. PICK S : S = T \cup {0}
  OBVIOUS
<1>2. S \subseteq 0..MaxIds /\ 0 \in S
  BY <1>1, HeadAssumption DEF Numbers
<1>3. PICK U : U = {n \in Nat : n <= MaxIds /\ MaxIds - n \in S}
  OBVIOUS
<1>4. MaxIds \in U /\ U \subseteq Nat
  BY <1>2, <1>3, HeadAssumption
<1>5. PICK x \in U : \A y \in U : x <= y
  BY <1>4, LeastNumber
<1>6. MaxIds - x \in S /\ \A k \in S : MaxIds - x >= k
  <2>1. x \in Nat /\ x <= MaxIds /\ MaxIds - x \in S
    BY <1>3
  <2>2. ASSUME NEW k \in S PROVE MaxIds - x >= k
    <3>1. k \in Nat /\ k <= MaxIds
      BY <1>2, HeadAssumption
    <3>2. MaxIds - k \in Nat /\ MaxIds - k <= MaxIds /\ MaxIds - (MaxIds - k) = k
      BY <3>1, HeadAssumption
    <3>3. MaxIds - k \in U
      BY <1>3, <3>2
    <3> QED BY <1>5, <2>1, <3>1, <3>3, HeadAssumption
  <2> QED BY <2>1, <2>2
<1>7. Max(S) \in S
  BY <1>6 DEF Max
<1> QED BY <1>1, <1>7

(* The passes find one of the path's ids. *)
LEMMA MatchType ==
    ASSUME NEW e \in Entries, NEW text, UnusedIds(e.anchors) # {}
    PROVE  Match(e, text) \in Numbers
<1>1. /\ WithBody(e.anchors, text) \in SUBSET Numbers
      /\ UnusedIds(e.anchors) \in SUBSET Numbers
      /\ e.at \in Numbers \cup {0}
  BY DEF WithBody, KnownIds, UnusedIds, Entries
<1>2. CASE e.at # 0
  BY <1>1, <1>2, Zenon DEF Match
<1>3. CASE e.at = 0 /\ WithBody(e.anchors, text) # {}
  <2>1. Min(WithBody(e.anchors, text)) \in Numbers
    BY <1>1, <1>3, SmallestId
  <2>2. Match(e, text) = Min(WithBody(e.anchors, text))
    BY <1>3, Zenon DEF Match
  <2> QED BY <2>1, <2>2
<1>4. CASE e.at = 0 /\ WithBody(e.anchors, text) = {}
  <2>1. Min(UnusedIds(e.anchors)) \in Numbers
    BY <1>1, SmallestId
  <2>2. Match(e, text) = Min(UnusedIds(e.anchors))
    BY <1>4, Zenon DEF Match
  <2> QED BY <2>1, <2>2
<1> QED BY <1>2, <1>3, <1>4

(* Rebinding gives an entry. *)
LEMMA ReboundType ==
    ASSUME NEW e \in Entries, NEW id \in Numbers, NEW text \in Texts
    PROVE  Rebound(e, id, text) \in Entries
BY DEF Rebound, Entries, AnchorLists, Anchors, Known, Live

(* Retiring gives an entry. *)
LEMMA RetiredType ==
    ASSUME NEW e \in Entries, NEW gone
    PROVE  Retired(e, gone) \in Entries
<1>1. \A k \in Numbers : e.anchors[k] \in Anchors
  BY DEF Entries, AnchorLists
<1>2. \A k \in Numbers : [hash |-> e.anchors[k].hash, status |-> "orphaned"] \in Anchors
  BY <1>1 DEF Anchors, Known
<1> QED BY <1>1, <1>2 DEF Retired, Entries, AnchorLists

(* Reconciling one path gives an entry. *)
LEMMA BindType ==
    ASSUME NEW e \in Entries, NEW text, UnusedIds(e.anchors) # {}
    PROVE  Bind(e, text) \in Entries
<1>1. CASE text \in Texts
  <2>1. PICK id \in Numbers : id = Match(e, text)
    BY MatchType
  <2>2. Rebound(e, id, text) \in Entries
    BY <1>1, ReboundType
  <2>3. Bind(e, text) = Retired(Rebound(e, id, text), LiveIds(e.anchors) \ {id})
    BY <1>1, <2>1, Zenon DEF Bind
  <2> QED BY <2>2, <2>3, RetiredType
<1>2. CASE text \notin Texts
  <2>1. Bind(e, text) = Retired(e, LiveIds(e.anchors))
    BY <1>2, Zenon DEF Bind
  <2> QED BY <2>1, RetiredType
<1> QED BY <1>1, <1>2

(* Reconciling a registry over the engine's view gives a registry. *)
LEMMA ReconcileType ==
    ASSUME NEW r \in Registries, NEW view, NEW scope, CanMint(Saved(r))
    PROVE  Reconcile(r, view, scope) \in Registries
<1> SUFFICES ASSUME NEW p \in Paths
             PROVE  Reconcile(r, view, scope)[p] \in Entries
  BY DEF Reconcile, Registries
<1>1. r[p] \in Entries
  BY DEF Registries
<1>2. UnusedIds(r[p].anchors) # {}
  BY DEF CanMint, Saved
<1>3. Bind(r[p], view[p].text) \in Entries
  BY <1>1, <1>2, BindType
<1> QED BY <1>1, <1>3 DEF Reconcile

(* What is written to identity.db is a list of anchors per path. *)
LEMMA SavedType ==
    ASSUME NEW r \in Registries
    PROVE  Saved(r) \in [Paths -> AnchorLists]
BY DEF Saved, Registries, Entries

(* What a load makes of it is a registry. *)
LEMMA LoadedType ==
    ASSUME NEW a \in [Paths -> AnchorLists]
    PROVE  Loaded(a) \in Registries /\ StartedFresh(a) \in Registries
<1>1. ASSUME NEW p \in Paths PROVE Loaded(a)[p] \in Entries
  <2>1. KnownIds(a[p]) \in SUBSET Numbers
    BY DEF KnownIds
  <2>2. Max(KnownIds(a[p]) \cup {0}) \in Numbers \cup {0}
    BY <2>1, LargestId
  <2> QED BY <2>2 DEF Loaded, Entries
<1>2. ASSUME NEW p \in Paths PROVE StartedFresh(a)[p] \in Entries
  BY DEF StartedFresh, Entries, AnchorLists, Anchors
<1> QED BY <1>1, <1>2 DEF Loaded, StartedFresh, Registries

(* What is loaded has the unused ids of what was saved. *)
LEMMA LoadedMints ==
    ASSUME NEW a \in [Paths -> AnchorLists], CanMint(a)
    PROVE  CanMint(Saved(Loaded(a))) /\ CanMint(Saved(StartedFresh(a)))
<1>1. \A p \in Paths : Saved(Loaded(a))[p] = a[p]
  BY DEF Saved, Loaded
<1>2. ASSUME NEW p \in Paths PROVE UnusedIds(Saved(StartedFresh(a))[p]) # {}
  <2>1. PICK k \in Numbers : a[p][k].status = "unused"
    BY DEF CanMint, UnusedIds
  <2>2. Saved(StartedFresh(a))[p][k].status = "unused"
    BY <2>1 DEF Saved, StartedFresh
  <2> QED BY <2>2 DEF UnusedIds
<1> QED BY <1>1, <1>2 DEF CanMint

(* Opening reads a registry that can mint. *)
LEMMA OpensWith ==
    ASSUME TypeOK, Open
    PROVE  \E loaded \in {Loaded(idDisk), StartedFresh(idDisk)} :
              loaded \in Registries /\ CanMint(Saved(loaded)) /\ OpenWith(loaded)
<1>1. CanMint(idDisk) /\ idDisk \in [Paths -> AnchorLists]
  BY DEF Open, OpenWith, TypeOK
<1>2. \A x \in {Loaded(idDisk), StartedFresh(idDisk)} : x \in Registries /\ CanMint(Saved(x))
  BY <1>1, LoadedType, LoadedMints
<1> QED BY <1>2 DEF Open

(* What the engine reads after applying events is a document per path. *)
LEMMA RefreshType ==
    ASSUME TypeOK, NEW g \in Generations, NEW S \in SUBSET Paths
    PROVE  Refresh(g, S) \in Generations
BY DEF TypeOK, Refresh, Read, Generations, Docs

(* Staging a batch of changes gives a generation. *)
LEMMA StageType ==
    ASSUME TypeOK, NEW S \in SUBSET Paths, NEW f \in [S -> Texts \cup {Gone}]
    PROVE  Stage(f) \in Generations
BY DEF TypeOK, Stage, Generations, Docs

(* Appending a version to an id's record gives records. *)
LEMMA PutType ==
    ASSUME NEW a \in Records, NEW i \in Ids, NEW v \in Versions
    PROVE  [a EXCEPT ![i] = Put(@, v)] \in Records
<1>1. Put(a[i], v) \in Seq(Versions)
  BY DEF Put, Records
<1> QED BY <1>1 DEF Records

(* A plan over content is a plan. *)
LEMMA ContentPlanType ==
    ASSUME TypeOK, NEW S \in SUBSET Paths, NEW f \in [S -> Texts \cup {Gone}],
           NEW E \in SUBSET Paths, NEW D \in SUBSET Paths,
           NEW X \in SUBSET Paths, NEW Y \in SUBSET Paths
    PROVE  ContentPlan(f, E, D, X, Y) \in Plans
BY StageType DEF TypeOK, ContentPlan, Plans

(* The initial values have their types. *)
LEMMA InitialTypes ==
    /\ EmptyGen \in Generations /\ EmptyRegistry \in Registries
    /\ NoRecords \in Records
    /\ Baseline(EmptyGen, EmptyRegistry) \in Baselines
    /\ Idle \in Plans
BY DEF EmptyGen, Generations, Docs, EmptyRegistry, Registries, Entries, AnchorLists,
       Anchors, NoRecords, Records, Baseline, Baselines, Idle, Plans

(* An accepted write starts a commit with a plan and the baseline. *)
LEMMA BeginType ==
    ASSUME TypeOK, NEW plan \in Plans, Begin(plan), ver' \in Nat,
           pending' \in Seq(Events)
    PROVE  TypeOK'
<1>1. Baseline(gen, reg) \in Baselines
  BY DEF TypeOK, Baseline, Baselines
<1> QED BY <1>1 DEF TypeOK, Begin, sidecar, ghosts, counters

(* The watcher's queues hold events. *)
LEMMA QueueType ==
    ASSUME TypeOK
    PROVE  /\ ExtendQueue(pending, debounce) \in Seq(Events)
           /\ <<Rescan>> \in Seq(Events)
           /\ <<>> \in Seq(Events)
           /\ \A e \in Events : Append(debounce, e) \in Seq(Events)
BY DEF TypeOK, ExtendQueue, Events

(* What a stopped watcher had not handed over is about project files. *)
LEMMA UndeliveredType ==
    ASSUME TypeOK
    PROVE  Undelivered \subseteq Paths
<1>1. CASE Rescan \in {debounce[i] : i \in DOMAIN debounce}
  BY <1>1 DEF Undelivered
<1>2. CASE Rescan \notin {debounce[i] : i \in DOMAIN debounce}
  <2>1. \A i \in DOMAIN debounce : debounce[i].path \in Paths
    BY <1>2 DEF TypeOK, Events
  <2>2. Undelivered = {e.path : e \in {debounce[i] : i \in DOMAIN debounce}}
    BY <1>2, Zenon DEF Undelivered
  <2> QED BY <2>1, <2>2
<1> QED BY <1>1, <1>2

(* Every step of the head preserves the types of its state. *)
LEMMA TypeStep == TypeOK /\ [Next]_vars => TypeOK'
<1> SUFFICES ASSUME TypeOK, [Next]_vars PROVE TypeOK'
  OBVIOUS
<1> USE InitialTypes, QueueType
<1>1. CASE Open
  <2>0. PICK loaded \in Registries : CanMint(Saved(loaded)) /\ OpenWith(loaded)
    BY <1>1, OpensWith
  <2> DEFINE g == [p \in Paths |-> IF disk[p] = Gone THEN EmptyGen[p]
                                   ELSE [text |-> disk[p], ver |-> 1]]
             read == [p \in Paths |-> [text |-> disk[p], ver |-> g[p].ver]]
             r == Reconcile(loaded, read, Paths)
  <2>1. g \in Generations
    BY DEF TypeOK, Generations, Docs
  <2>2. read \in Generations
    BY <2>1 DEF TypeOK, Generations, Docs
  <2>3. r \in Registries
    BY <2>0, ReconcileType
  <2>4. /\ gen' = g /\ overlay' = g /\ db' = read /\ reg' = r
        /\ retained' = Retain([k \in {0} |-> EmptyGen], 1, g)
        /\ hist' = [k \in 0..1 |-> IF k = 0 THEN Baseline(EmptyGen, r)
                                            ELSE Baseline(g, r)]
        /\ rev' = 1
    BY <2>0 DEF OpenWith
  <2> HIDE DEF g, read, r
  <2>5. /\ DOMAIN retained' \subseteq 0..1
        /\ retained' \in [DOMAIN retained' -> Generations]
    <3> DEFINE W == [k \in {0} |-> EmptyGen]
    <3>1. DOMAIN W \subseteq 0..1 /\ W \in [DOMAIN W -> Generations]
      OBVIOUS
    <3>2. retained' = Retain(W, 1, g)
      BY <2>4
    <3>3. 1 \in Nat /\ 1 <= 1
      OBVIOUS
    <3> HIDE DEF W
    <3>4. /\ DOMAIN Retain(W, 1, g) \subseteq 0..1
          /\ Retain(W, 1, g) \in [DOMAIN Retain(W, 1, g) -> Generations]
      BY <2>1, <3>1, <3>3, RetainType, Zenon
    <3> QED BY <3>2, <3>4
  <2>6. hist' \in [0..1 -> Baselines]
    BY <2>1, <2>3, <2>4 DEF Baseline, Baselines
  <2>7. /\ phase' = "opening" /\ ver' = 1 /\ authored' = NoRecords
        /\ unsaved' = {} /\ staged' = Idle
        /\ base' = Baseline(EmptyGen, EmptyRegistry)
        /\ watching' = FALSE /\ debounce' = <<>> /\ pending' = <<>> /\ snaps' = {}
        /\ buffer' = [p \in Paths |-> NoDoc] /\ unseen' = {}
        /\ starts' = starts + 1
        /\ UNCHANGED <<disk, idDisk, recDisk, disks, faults>>
    BY <2>0 DEF OpenWith, sidecar
  <2>8. /\ DOMAIN retained' \subseteq 0..rev'
        /\ retained' \in [DOMAIN retained' -> Generations]
        /\ hist' \in [0..rev' -> Baselines]
    BY <2>4, <2>5, <2>6
  <2>9. gen' \in Generations /\ overlay' \in Generations /\ db' \in Generations
        /\ reg' \in Registries /\ rev' \in Nat
    BY <2>1, <2>2, <2>3, <2>4
  <2>10. /\ disk' \in [Paths -> Texts \cup {Gone}]
         /\ idDisk' \in [Paths -> AnchorLists] /\ recDisk' \in Records
         /\ disks' \in Nat /\ faults' \in Nat /\ starts' \in Nat
    BY <2>7 DEF TypeOK
  <2>11. buffer' \in [Paths -> Texts \cup {NoDoc, Gone}]
    BY <2>7
  <2> QED BY <2>7, <2>8, <2>9, <2>10, <2>11 DEF TypeOK
<1>2. CASE FinishOpen
  BY <1>2, SavedType DEF TypeOK, FinishOpen, store, watch, ghosts, counters
<1>25. CASE FailOpen
  BY <1>25, SavedType DEF TypeOK, FailOpen, store, watch, ghosts, counters
<1>3. CASE Close
  BY <1>3 DEF TypeOK, Close, sidecar, store, ghosts, counters
<1>4. CASE Crash
  BY <1>4 DEF TypeOK, Crash, sidecar, store, ghosts, counters
<1>5. CASE Edit
  <2>0. PICK S \in SUBSET Paths : \E f \in [S -> Texts] :
                Begin(ContentPlan(f, S, S, S, {}))
    BY <1>5 DEF Edit
  <2>1. PICK f \in [S -> Texts] : Begin(ContentPlan(f, S, S, S, {}))
    BY <2>0
  <2>2. f \in [S -> Texts \cup {Gone}]
    OBVIOUS
  <2>3. ContentPlan(f, S, S, S, {}) \in Plans
    BY <2>2, ContentPlanType
  <2>4. ver' \in Nat /\ pending' \in Seq(Events)
    BY <1>5 DEF Edit, TypeOK
  <2> QED BY <2>1, <2>3, <2>4, BeginType
<1>6. CASE EditVirtual
  <2>1. NoChange \in [{} -> Texts \cup {Gone}]
    BY DEF NoChange
  <2>2. ContentPlan(NoChange, {}, Paths, {}, {}) \in Plans
    BY <2>1, ContentPlanType
  <2>3. ver' \in Nat /\ pending' \in Seq(Events)
    BY <1>6 DEF EditVirtual, TypeOK
  <2> QED BY <1>6, <2>2, <2>3, BeginType DEF EditVirtual
<1>26. CASE SyncOther
  <2>1. NoChange \in [{} -> Texts \cup {Gone}]
    BY DEF NoChange
  <2>2. PICK S \in {{}, Paths} : Begin(ContentPlan(NoChange, S, Paths, {}, {}))
    BY <1>26 DEF SyncOther
  <2>3. S \in SUBSET Paths
    OBVIOUS
  <2>4. ContentPlan(NoChange, S, Paths, {}, {}) \in Plans
    BY <2>1, <2>3, ContentPlanType
  <2>5. ver' \in Nat /\ pending' \in Seq(Events)
    BY <1>26 DEF SyncOther, TypeOK
  <2> QED BY <2>2, <2>4, <2>5, BeginType
<1>7. CASE SyncPath
  <2>1. PICK p \in Paths :
                Begin(ContentPlan([q \in {p} |-> disk[q]], {p}, {p}, {}, {p}))
    BY <1>7 DEF SyncPath
  <2>2. [q \in {p} |-> disk[q]] \in [{p} -> Texts \cup {Gone}]
    BY DEF TypeOK
  <2>3. ContentPlan([q \in {p} |-> disk[q]], {p}, {p}, {}, {p}) \in Plans
    BY <2>2, ContentPlanType
  <2>4. ver' \in Nat /\ pending' \in Seq(Events)
    BY <1>7 DEF SyncPath, TypeOK
  <2> QED BY <2>1, <2>3, <2>4, BeginType
<1>8. CASE SyncAll
  <2> DEFINE found == {p \in Paths \ SyncSkips : disk[p] # Gone}
             f == [p \in found |-> disk[p]]
  <2>1. Begin(ContentPlan(f, Paths, Paths, {}, {}))
    BY <1>8 DEF SyncAll
  <2>2. found \in SUBSET Paths /\ f \in [found -> Texts \cup {Gone}]
    BY DEF TypeOK
  <2> HIDE DEF f, found
  <2>3. ContentPlan(f, Paths, Paths, {}, {}) \in Plans
    BY <2>2, ContentPlanType
  <2>4. ver' \in Nat /\ pending' \in Seq(Events)
    BY <1>8 DEF SyncAll, TypeOK
  <2> QED BY <2>1, <2>3, <2>4, BeginType
<1>9. CASE Author
  <2> DEFINE note(i, v) == [val |-> v, rev |-> rev + 1,
                            reviewed |-> AnchorOf(reg, i).hash]
             plan(i, v) == [gen |-> gen, events |-> {}, scope |-> {},
                            reconcile |-> FALSE,
                            notes |-> [authored EXCEPT ![i] = Put(@, note(i, v))],
                            writes |-> {i}, ins |-> {}, rem |-> {}]
  <2>1. PICK i \in Ids, v \in Vals : Begin(plan(i, v))
    BY <1>9 DEF Author
  <2>2. note(i, v) \in Versions
    <3>1. AnchorOf(reg, i) \in Anchors
      BY DEF TypeOK, Registries, Entries, AnchorLists, AnchorOf, Ids
    <3> QED BY <3>1 DEF TypeOK, Versions, Anchors
  <2> HIDE DEF note
  <2>3. [authored EXCEPT ![i] = Put(@, note(i, v))] \in Records
    BY <2>2, PutType DEF TypeOK
  <2>4. plan(i, v) \in Plans
    BY <2>3 DEF TypeOK, Plans
  <2>5. ver' \in Nat /\ pending' \in Seq(Events)
    BY <1>9 DEF Author, TypeOK
  <2> HIDE DEF plan
  <2> QED BY <2>1, <2>4, <2>5, BeginType
<1>10. CASE Poll
  <2> DEFINE kept == {pending[i].path : i \in DOMAIN pending} \ PollIgnores
             text(p) == IF LastKind(pending, p) = "deleted" THEN Gone ELSE disk[p]
             f == [p \in kept |-> text(p)]
  <2>1. pending' \in Seq(Events)
    BY <1>10 DEF Poll
  <2>2. CASE /\ Rescan \in {pending[i] : i \in DOMAIN pending}
             /\ Begin(ContentPlan(NoChange, Paths, Paths, {}, {}))
             /\ UNCHANGED ver
    <3>1. NoChange \in [{} -> Texts \cup {Gone}]
      BY DEF NoChange
    <3>2. ContentPlan(NoChange, Paths, Paths, {}, {}) \in Plans
      BY <3>1, ContentPlanType
    <3>3. ver' \in Nat
      BY <2>2 DEF TypeOK
    <3> QED BY <2>1, <2>2, <3>2, <3>3, BeginType
  <2>3. CASE UNCHANGED <<phase, disk, sidecar, store, overlay, db, reg, authored,
                         unsaved, staged, base, watching, debounce, snaps, ghosts,
                         counters>>
    BY <2>1, <2>3 DEF TypeOK, sidecar, store, ghosts, counters
  <2>4. CASE /\ ~(Rescan \in {pending[i] : i \in DOMAIN pending})
             /\ Begin(ContentPlan(f, kept, kept, {}, {}))
             /\ ver' = ver + 1
    <3>1. kept \in SUBSET Paths
      BY <2>4 DEF TypeOK, Events
    <3>2. f \in [kept -> Texts \cup {Gone}]
      <4>1. \A p \in Paths : text(p) \in Texts \cup {Gone}
        BY DEF TypeOK
      <4> HIDE DEF kept, text
      <4> QED BY <3>1, <4>1
    <3> HIDE DEF f, kept
    <3>3. ContentPlan(f, kept, kept, {}, {}) \in Plans
      BY <3>1, <3>2, ContentPlanType
    <3>4. ver' \in Nat
      BY <2>4 DEF TypeOK
    <3> QED BY <2>1, <2>4, <3>3, <3>4, BeginType
  <2> QED BY <1>10, <2>2, <2>3, <2>4 DEF Poll
<1>11. CASE ApplyEngine
  <2>1. staged.gen \in Generations /\ staged.events \in SUBSET Paths
        /\ staged.scope \in SUBSET Paths
    BY DEF TypeOK, Plans
  <2>2. db' \in Generations
    BY <1>11, <2>1, RefreshType DEF ApplyEngine
  <2>3. reg' \in Registries
    BY <1>11, <2>1, <2>2, ReconcileType DEF ApplyEngine, TypeOK
  <2> QED BY <1>11, <2>1, <2>2, <2>3
          DEF TypeOK, ApplyEngine, sidecar, store, watch, ghosts, counters
<1>12. CASE Persist
  <2>1. recDisk' \in Records
    BY <1>12 DEF TypeOK, Persist, WrittenRecords, Plans, Records
  <2> QED BY <1>12, <2>1, SavedType DEF TypeOK, Persist, store, watch, ghosts, counters
<1>13. CASE Rollback
  <2>1. base.gen \in Generations /\ base.reg \in Registries
    BY DEF TypeOK, Baselines
  <2> QED BY <1>13, <2>1
          DEF TypeOK, Rollback, RestoredRegistry, sidecar, store, watch, ghosts
<1>14. CASE PublishStaged
  <2>1. /\ staged.gen \in Generations /\ staged.notes \in Records
        /\ staged.ins \subseteq Paths /\ staged.rem \subseteq Paths
    BY DEF TypeOK, Plans
  <2>2. rev + 1 \in Nat /\ rev' = rev + 1
    BY <1>14 DEF TypeOK, PublishStaged
  <2>3. /\ DOMAIN retained' \subseteq 0..rev'
        /\ retained' \in [DOMAIN retained' -> Generations]
    <3>1. DOMAIN retained \subseteq 0..(rev + 1)
      BY DEF TypeOK
    <3>2. retained \in [DOMAIN retained -> Generations]
      BY DEF TypeOK
    <3>3. retained' = Retain(retained, rev + 1, staged.gen)
      BY <1>14 DEF PublishStaged
    <3> QED BY <2>1, <2>2, <3>1, <3>2, <3>3, RetainType
  <2>4. hist' \in [0..rev' -> Baselines]
    <3>1. Baseline(staged.gen, reg) \in Baselines
      BY <2>1 DEF TypeOK, Baseline, Baselines
    <3>2. \A k \in 0..rev + 1 : k # rev + 1 => hist[k] \in Baselines
      BY DEF TypeOK
    <3>3. hist' = [k \in 0..rev + 1 |-> IF k = rev + 1 THEN Baseline(staged.gen, reg)
                                                      ELSE hist[k]]
      BY <1>14 DEF PublishStaged
    <3> QED BY <2>2, <3>1, <3>2, <3>3
  <2>5. buffer' \in [Paths -> Texts \cup {NoDoc, Gone}]
    BY <1>14, <2>1 DEF TypeOK, PublishStaged, Generations, Docs
  <2> QED BY <1>14, <2>1, <2>2, <2>3, <2>4, <2>5
          DEF TypeOK, PublishStaged, sidecar, watch, counters
<1>15. CASE Snapshot
  <2>1. [rev |-> rev, gen |-> gen, reg |-> reg, authored |-> authored,
         head |-> TRUE] \in Snapshots
    BY DEF TypeOK, Snapshots
  <2> QED BY <1>15, <2>1
          DEF TypeOK, Snapshot, Pin, sidecar, store, watch, ghosts, counters
<1>16. CASE SnapshotAt
  <2>1. PICK r \in DOMAIN retained : Pin(r, retained[r], FALSE)
    BY <1>16 DEF SnapshotAt
  <2>2. [rev |-> r, gen |-> retained[r], reg |-> reg, authored |-> authored,
         head |-> FALSE] \in Snapshots
    BY DEF TypeOK, Snapshots
  <2> QED BY <2>1, <2>2 DEF TypeOK, Pin, sidecar, store, watch, ghosts, counters
<1>17. CASE ReleaseSnapshot
  BY <1>17 DEF TypeOK, ReleaseSnapshot, sidecar, store, watch, ghosts, counters
<1>18. CASE Reload
  <2>1. db' \in Generations
    BY <1>18 DEF TypeOK, Reload, Read, Generations, Docs
  <2> QED BY <1>18, <2>1 DEF TypeOK, Reload, sidecar, store, watch, ghosts, counters
<1>19. CASE Watch
  <2>1. unseen' \subseteq Paths
    BY <1>19, UndeliveredType DEF TypeOK, Watch
  <2> QED BY <1>19, <2>1 DEF TypeOK, Watch, sidecar, store, counters
<1>20. CASE Unwatch
  <2>1. unseen' \subseteq Paths
    BY <1>20, UndeliveredType DEF TypeOK, Unwatch
  <2> QED BY <1>20, <2>1 DEF TypeOK, Unwatch, sidecar, store, counters
<1>21. CASE WatcherDelivers
  BY <1>21 DEF TypeOK, WatcherDelivers, sidecar, store, ghosts, counters
<1>22. CASE WatcherLosesSync
  BY <1>22 DEF TypeOK, WatcherLosesSync, sidecar, store, ghosts, counters
<1>23. CASE DiskChange
  <2>1. disk' \in [Paths -> Texts \cup {Gone}] /\ unseen' \subseteq Paths
    BY <1>23 DEF TypeOK, DiskChange
  <2>2. debounce' \in Seq(Events)
    <3>1. \A p \in Paths, c \in {"created", "changed", "deleted"} :
             [kind |-> c, path |-> p] \in Events
      BY DEF Events
    <3>2. \/ debounce' = debounce
          \/ \E p \in Paths, c \in {"created", "changed", "deleted"} :
                debounce' = Append(debounce, [kind |-> c, path |-> p])
      BY <1>23 DEF DiskChange
    <3> QED BY <3>1, <3>2 DEF TypeOK
  <2> QED BY <1>23, <2>1, <2>2 DEF TypeOK, DiskChange, sidecar, store
<1>24. CASE UNCHANGED vars
  BY <1>24 DEF TypeOK, vars, sidecar, store, watch, ghosts, counters
<1> QED BY <1>1, <1>2, <1>3, <1>4, <1>5, <1>6, <1>7, <1>8, <1>9, <1>10, <1>11, <1>12,
           <1>13, <1>14, <1>15, <1>16, <1>17, <1>18, <1>19, <1>20, <1>21, <1>22,
           <1>23, <1>24, <1>25, <1>26 DEF Next

(* The head starts with well-typed state. *)
LEMMA TypeInit == Init => TypeOK
<1> SUFFICES ASSUME Init PROVE TypeOK
  OBVIOUS
<1>1. /\ DOMAIN retained \subseteq 0..rev
      /\ retained \in [DOMAIN retained -> Generations]
  BY InitialTypes DEF Init
<1>2. hist \in [0..rev -> Baselines]
  BY InitialTypes DEF Init
<1>3. idDisk \in [Paths -> AnchorLists]
  BY InitialTypes, SavedType DEF Init
<1>4. /\ phase = "closed" /\ disk \in [Paths -> Texts \cup {Gone}] /\ recDisk = NoRecords
      /\ rev = 0 /\ gen = EmptyGen /\ ver = 0 /\ overlay = EmptyGen /\ db = EmptyGen
      /\ reg = EmptyRegistry /\ authored = NoRecords /\ unsaved = {}
      /\ staged = Idle /\ base = Baseline(EmptyGen, EmptyRegistry)
      /\ watching = FALSE /\ debounce = <<>> /\ pending = <<>> /\ snaps = {}
      /\ unseen = {}
      /\ disks = 0 /\ faults = 0 /\ starts = 0
  BY DEF Init
<1>5. buffer \in [Paths -> Texts \cup {NoDoc, Gone}]
  BY DEF Init
<1>6. debounce \in Seq(Events) /\ pending \in Seq(Events)
  BY <1>4
<1>7. staged \in Plans /\ base \in Baselines /\ gen \in Generations /\ overlay \in Generations
      /\ db \in Generations /\ reg \in Registries /\ authored \in Records /\ recDisk \in Records
  BY <1>4, InitialTypes
<1> QED BY <1>1, <1>2, <1>3, <1>4, <1>5, <1>6, <1>7 DEF TypeOK

(* Every variable of the head keeps its type in every reachable state. *)
THEOREM TypeCorrect == Spec => []TypeOK
BY TypeInit, TypeStep, PTL DEF Spec

-----------------------------------------------------------------------------
(* Where a commit is in its transaction, the overlay, the registry, identity.db and
   the baseline are tied to the last committed revision in this way: nothing of the
   store moves before the publish step, and until then the baseline is that revision. *)
CommitInv ==
    /\ phase # "closed" => hist[rev].gen = gen
    /\ phase \in {"opening", "ready"} => overlay = gen /\ hist[rev].reg = reg
    /\ phase \in {"ready", "publish"} => idDisk = Saved(reg)
    /\ phase \in {"apply", "persist"} =>
          /\ base.gen = gen
          /\ idDisk = Saved(base.reg)
    /\ phase \in {"apply", "persist", "publish"} => hist[rev].reg = base.reg
    /\ phase = "apply" => overlay = gen /\ reg = base.reg
    /\ phase = "persist" => staged.reconcile \/ reg = base.reg
    /\ phase \in {"persist", "publish"} => overlay = staged.gen

(* Every snapshot is of a revision there is, so that publishing a later one cannot
   touch what it is compared with. *)
SnapshotInv ==
    \A s \in snaps : /\ s.rev \in 0..rev
                     /\ s.gen = hist[s.rev].gen
                     /\ s.head => s.reg = hist[s.rev].reg

(* The inductive invariant of the head. *)
HeadInv == TypeOK /\ CommitInv /\ SnapshotInv /\ RetainedWindow

(* Starting a commit from a free mutex establishes the baseline. *)
LEMMA BeginCommit ==
    ASSUME TypeOK, CommitInv, phase = "ready", NEW plan, Begin(plan)
    PROVE  CommitInv'
BY DEF TypeOK, CommitInv, Begin, Baseline, sidecar, ghosts

(* Every step keeps the commit tied to the last committed revision. *)
LEMMA CommitStep ==
    ASSUME TypeOK, TypeOK', CommitInv, [Next]_vars
    PROVE  CommitInv'
<1>1. CASE Open
  <2>0. PICK loaded : OpenWith(loaded)
    BY <1>1 DEF Open
  <2>1. PICK g, r :
          /\ gen' = g /\ overlay' = g /\ reg' = r
          /\ hist' = [k \in 0..1 |-> IF k = 0 THEN Baseline(EmptyGen, r)
                                              ELSE Baseline(g, r)]
    BY <2>0 DEF OpenWith
  <2>2. phase' = "opening" /\ rev' = 1
    BY <1>1 DEF Open, OpenWith
  <2>3. hist'[rev'].gen = g /\ hist'[rev'].reg = r
    BY <2>1, <2>2 DEF Baseline
  <2> QED BY <2>1, <2>2, <2>3 DEF CommitInv
<1>2. CASE FinishOpen
  BY <1>2 DEF FinishOpen, CommitInv, store, ghosts
<1>25. CASE FailOpen
  BY <1>25 DEF FailOpen, CommitInv
<1>26. CASE SyncOther
  BY <1>26, BeginCommit DEF SyncOther, CanWrite
<1>3. CASE Close
  BY <1>3 DEF Close, CommitInv
<1>4. CASE Crash
  BY <1>4 DEF Crash, CommitInv
<1>5. CASE Edit
  BY <1>5, BeginCommit DEF Edit, CanWrite
<1>6. CASE EditVirtual
  BY <1>6, BeginCommit DEF EditVirtual, CanWrite
<1>7. CASE SyncPath
  BY <1>7, BeginCommit DEF SyncPath, CanWrite
<1>8. CASE SyncAll
  BY <1>8, BeginCommit DEF SyncAll, CanWrite
<1>9. CASE Author
  BY <1>9, BeginCommit DEF Author, CanWrite
<1>10. CASE Poll
  <2>1. CASE \E plan : Begin(plan)
    BY <1>10, <2>1, BeginCommit DEF Poll
  <2>2. CASE UNCHANGED <<phase, disk, sidecar, store, overlay, db, reg, authored,
                         unsaved, staged, base, watching, debounce, snaps, ghosts,
                         counters>>
    BY <2>2 DEF CommitInv, sidecar, store, ghosts
  <2> QED BY <1>10, <2>1, <2>2 DEF Poll
<1>11. CASE ApplyEngine
  BY <1>11 DEF ApplyEngine, CommitInv, sidecar, store, ghosts
<1>12. CASE Persist
  BY <1>12 DEF Persist, CommitInv, store, ghosts
<1>13. CASE Rollback
  BY <1>13 DEF Rollback, RestoredRegistry, CommitInv, sidecar, store, ghosts
<1>14. CASE PublishStaged
  <2>1. hist'[rev'] = Baseline(staged.gen, reg)
    BY <1>14 DEF TypeOK, PublishStaged
  <2> QED BY <1>14, <2>1 DEF PublishStaged, CommitInv, Baseline, sidecar
<1>15. CASE Snapshot
  BY <1>15 DEF Snapshot, Pin, CommitInv, sidecar, store, ghosts
<1>16. CASE SnapshotAt
  BY <1>16 DEF SnapshotAt, Pin, CommitInv, sidecar, store, ghosts
<1>17. CASE ReleaseSnapshot
  BY <1>17 DEF ReleaseSnapshot, CommitInv, sidecar, store, ghosts
<1>18. CASE Reload
  BY <1>18 DEF Reload, CommitInv, sidecar, store, ghosts
<1>19. CASE Watch
  BY <1>19 DEF Watch, CommitInv, sidecar, store, ghosts
<1>20. CASE Unwatch
  BY <1>20 DEF Unwatch, CommitInv, sidecar, store
<1>21. CASE WatcherDelivers
  BY <1>21 DEF WatcherDelivers, CommitInv, sidecar, store, ghosts
<1>22. CASE WatcherLosesSync
  BY <1>22 DEF WatcherLosesSync, CommitInv, sidecar, store, ghosts
<1>23. CASE DiskChange
  BY <1>23 DEF DiskChange, CommitInv, sidecar, store
<1>24. CASE UNCHANGED vars
  BY <1>24 DEF vars, CommitInv, sidecar, store, ghosts
<1> QED BY <1>1, <1>2, <1>3, <1>4, <1>5, <1>6, <1>7, <1>8, <1>9, <1>10, <1>11, <1>12,
           <1>13, <1>14, <1>15, <1>16, <1>17, <1>18, <1>19, <1>20, <1>21, <1>22,
           <1>23, <1>24, <1>25, <1>26 DEF Next

(* Retain keeps the newest RetainCap of consecutive revisions, each with the
   generation it had. *)
LEMMA RetainWindow ==
    ASSUME NEW W, NEW lo \in Nat, NEW r \in Nat, NEW g, lo <= r,
           \A k : k \in lo..r <=> k \in DOMAIN W \/ k = r
    PROVE  /\ \A k : k \in DOMAIN Retain(W, r, g)
                      <=> k \in lo..r /\ k + RetainCap > r
           /\ \A k \in DOMAIN Retain(W, r, g) :
                  /\ k = r => Retain(W, r, g)[k] = g
                  /\ k # r => Retain(W, r, g)[k] = W[k]
<1> DEFINE all == DOMAIN W \cup {r}
           kept == {k \in all : Cardinality({j \in all : j >= k}) <= RetainCap}
<1>1. Retain(W, r, g) = [k \in kept |-> IF k = r THEN g ELSE W[k]]
  BY DEF Retain
<1>0. all = lo..r
  OBVIOUS
<1>2. \A k \in lo..r : Cardinality({j \in all : j >= k}) = r - k + 1
  <2> SUFFICES ASSUME NEW k \in lo..r
               PROVE  Cardinality({j \in all : j >= k}) = r - k + 1
    OBVIOUS
  <2>1. {j \in all : j >= k} = k..r
    BY <1>0
  <2>2. Cardinality(k..r) = r - k + 1
    BY FS_Interval
  <2> QED BY <2>1, <2>2
<1>3. kept = {k \in lo..r : k + RetainCap > r}
  <2>1. kept = {k \in lo..r : Cardinality({j \in all : j >= k}) <= RetainCap}
    BY <1>0
  <2>2. \A k \in lo..r : r - k + 1 <= RetainCap <=> k + RetainCap > r
    BY HeadAssumption
  <2> HIDE DEF all, kept
  <2> QED BY <1>2, <2>1, <2>2
<1> HIDE DEF kept
<1> QED BY <1>1, <1>3

(* A step that moves neither the store nor the history leaves the window alone. *)
LEMMA RetainedKept ==
    ASSUME RetainedWindow, UNCHANGED <<rev, retained, hist>>,
           phase # "closed" \/ phase' = "closed"
    PROVE  RetainedWindow'
BY DEF RetainedWindow

(* Which steps move the store or the history: opening and publishing. *)
LEMMA StoreMoves ==
    ASSUME [Next]_vars, ~Open, ~PublishStaged
    PROVE  /\ UNCHANGED <<rev, retained, hist>>
           /\ phase # "closed" \/ phase' = "closed"
<1>1. ASSUME NEW plan, phase = "ready", Begin(plan)
      PROVE  UNCHANGED <<rev, retained, hist>>
  BY <1>1 DEF Begin, ghosts
<1>2. CASE Edit \/ EditVirtual \/ SyncPath \/ SyncOther \/ SyncAll \/ Author
  BY <1>1, <1>2 DEF Edit, EditVirtual, SyncPath, SyncOther, SyncAll, Author, CanWrite
<1>3. CASE Poll
  BY <1>1, <1>3 DEF Poll, store, ghosts
<1>4. CASE FinishOpen \/ FailOpen \/ Close \/ Crash \/ ApplyEngine \/ Persist \/ Rollback
  BY <1>4 DEF FinishOpen, FailOpen, Close, Crash, ApplyEngine, Persist, Rollback, store, ghosts
<1>5. CASE Snapshot \/ SnapshotAt \/ ReleaseSnapshot \/ Reload
  BY <1>5 DEF Snapshot, SnapshotAt, Pin, ReleaseSnapshot, Reload, store, ghosts
<1>6. CASE Watch \/ Unwatch \/ WatcherDelivers \/ WatcherLosesSync \/ DiskChange
  BY <1>6 DEF Watch, Unwatch, WatcherDelivers, WatcherLosesSync, DiskChange, store,
              ghosts
<1>7. CASE UNCHANGED vars
  BY <1>7 DEF vars, store, ghosts
<1> QED BY <1>2, <1>3, <1>4, <1>5, <1>6, <1>7 DEF Next

(* Every step keeps exactly the last RetainCap revisions available. *)
LEMMA RetainedStep ==
    ASSUME TypeOK, TypeOK', RetainedWindow, [Next]_vars
    PROVE  RetainedWindow'
<1>1. CASE Open
  <2> DEFINE W == [k \in {0} |-> EmptyGen]
  <2>1. PICK g, r :
              /\ retained' = Retain(W, 1, g)
              /\ hist' = [k \in 0..1 |-> IF k = 0 THEN Baseline(EmptyGen, r)
                                                  ELSE Baseline(g, r)]
    BY <1>1 DEF Open, OpenWith
  <2>2. \A k : k \in 0..1 <=> k \in DOMAIN W \/ k = 1
    OBVIOUS
  <2>3. /\ DOMAIN retained' = {k \in 0..1 : k + RetainCap > 1}
        /\ \A k \in DOMAIN retained' : retained'[k] = IF k = 1 THEN g ELSE W[k]
    <3>1. 0 \in Nat /\ 1 \in Nat /\ 0 <= 1
      OBVIOUS
    <3> HIDE DEF W
    <3>2. /\ \A k : k \in DOMAIN Retain(W, 1, g) <=> k \in 0..1 /\ k + RetainCap > 1
          /\ \A k \in DOMAIN Retain(W, 1, g) :
                /\ k = 1 => Retain(W, 1, g)[k] = g
                /\ k # 1 => Retain(W, 1, g)[k] = W[k]
      BY <2>2, <3>1, RetainWindow
    <3> QED BY <2>1, <3>2
  <2>4. \A k \in 0..1 : hist'[k].gen = IF k = 1 THEN g ELSE W[k]
    BY <2>1 DEF Baseline
  <2>5. rev' = 1
    BY <1>1 DEF Open, OpenWith
  <2> HIDE DEF W
  <2> QED BY <2>3, <2>4, <2>5 DEF RetainedWindow
<1>2. CASE PublishStaged
  <2>1. /\ rev \in Nat /\ rev' = rev + 1 /\ phase # "closed"
        /\ retained' = Retain(retained, rev + 1, staged.gen)
        /\ hist' = [k \in 0..rev + 1 |-> IF k = rev + 1 THEN Baseline(staged.gen, reg)
                                                       ELSE hist[k]]
    BY <1>2 DEF TypeOK, PublishStaged
  <2>2. DOMAIN retained = {k \in 0..rev : k + RetainCap > rev}
    BY <2>1 DEF RetainedWindow
  <2>3. PICK lo \in Nat : /\ lo <= rev + 1
                          /\ \A k \in 0..rev : k >= lo <=> k + RetainCap > rev
    <3>1. CASE RetainCap > rev
      <4> WITNESS 0 \in Nat
      <4> QED BY <2>1, <3>1, HeadAssumption
    <3>2. CASE ~(RetainCap > rev)
      <4>1. rev + 1 - RetainCap \in Nat
        BY <2>1, <3>2, HeadAssumption
      <4> WITNESS rev + 1 - RetainCap \in Nat
      <4> QED BY <2>1, <3>2, HeadAssumption
    <3> QED BY <3>1, <3>2
  <2>4. \A k : k \in lo..(rev + 1) <=> k \in DOMAIN retained \/ k = rev + 1
    BY <2>1, <2>2, <2>3
  <2>5. /\ DOMAIN retained' = {k \in lo..(rev + 1) : k + RetainCap > rev + 1}
        /\ \A k \in DOMAIN retained' :
              retained'[k] = IF k = rev + 1 THEN staged.gen ELSE retained[k]
    <3>1. rev + 1 \in Nat
      BY <2>1
    <3> DEFINE R == Retain(retained, rev + 1, staged.gen)
    <3>2. /\ \A k : k \in DOMAIN R <=> k \in lo..(rev + 1) /\ k + RetainCap > rev + 1
          /\ \A k \in DOMAIN R : /\ k = rev + 1 => R[k] = staged.gen
                                 /\ k # rev + 1 => R[k] = retained[k]
      BY <2>3, <2>4, <3>1, RetainWindow
    <3> QED BY <2>1, <3>2
  <2>6. DOMAIN retained' = {k \in 0..rev' : k + RetainCap > rev'}
    <3>1. ASSUME NEW k \in 0..(rev + 1), k + RetainCap > rev + 1
          PROVE  k \in lo..(rev + 1)
      <4>1. RetainCap \in Nat
        BY HeadAssumption
      <4>2. CASE k = rev + 1
        BY <2>1, <2>3, <4>2
      <4>3. CASE k # rev + 1
        <5>1. k \in 0..rev /\ k + RetainCap > rev
          BY <2>1, <3>1, <4>1, <4>3
        <5> QED BY <2>1, <2>3, <5>1
      <4> QED BY <4>2, <4>3
    <3>2. lo..(rev + 1) \subseteq 0..(rev + 1)
      BY <2>1, <2>3
    <3> QED BY <2>1, <2>5, <3>1, <3>2
  <2>7. ASSUME NEW k \in DOMAIN retained' PROVE retained'[k] = hist'[k].gen
    <3>1. CASE k = rev + 1
      BY <2>1, <2>5, <3>1 DEF Baseline
    <3>2. CASE k # rev + 1
      <4>1. k \in DOMAIN retained /\ k \in 0..rev + 1
        BY <2>1, <2>2, <2>6, <3>2, HeadAssumption
      <4>2. retained[k] = hist[k].gen
        BY <2>1, <4>1 DEF RetainedWindow
      <4> QED BY <2>1, <2>5, <3>2, <4>1, <4>2
    <3> QED BY <3>1, <3>2
  <2> QED BY <2>6, <2>7 DEF RetainedWindow
<1>3. CASE ~Open /\ ~PublishStaged
  BY <1>3, StoreMoves, RetainedKept
<1> QED BY <1>1, <1>2, <1>3

(* Every step leaves the snapshots that are held as they were committed. *)
LEMMA SnapshotStep ==
    ASSUME TypeOK, TypeOK', CommitInv, RetainedWindow, SnapshotInv, [Next]_vars
    PROVE  SnapshotInv'
<1>1. CASE Open
  BY <1>1 DEF Open, OpenWith, SnapshotInv
<1>2. CASE PublishStaged
  <2>1. /\ rev \in Nat /\ rev' = rev + 1 /\ snaps' = snaps
        /\ \A k \in 0..rev : k \in 0..rev' /\ hist'[k] = hist[k]
    BY <1>2 DEF TypeOK, PublishStaged
  <2> QED BY <2>1 DEF SnapshotInv
<1>3. CASE Snapshot
  <2>1. /\ snaps' = snaps \cup {[rev |-> rev, gen |-> gen, reg |-> reg,
                                 authored |-> authored, head |-> TRUE]}
        /\ phase = "ready" /\ UNCHANGED <<rev, hist>>
    BY <1>3 DEF Snapshot, Pin, store, ghosts
  <2>2. rev \in 0..rev /\ gen = hist[rev].gen /\ reg = hist[rev].reg
    BY <2>1 DEF TypeOK, CommitInv
  <2> QED BY <2>1, <2>2 DEF SnapshotInv
<1>4. CASE SnapshotAt
  <2>1. PICK r \in DOMAIN retained : Pin(r, retained[r], FALSE)
    BY <1>4 DEF SnapshotAt
  <2>2. /\ snaps' = snaps \cup {[rev |-> r, gen |-> retained[r], reg |-> reg,
                                 authored |-> authored, head |-> FALSE]}
        /\ phase = "ready" /\ UNCHANGED <<rev, hist>>
    BY <2>1 DEF Pin, store, ghosts
  <2>3. r \in 0..rev /\ retained[r] = hist[r].gen
    BY <2>2 DEF TypeOK, RetainedWindow
  <2> QED BY <2>2, <2>3 DEF SnapshotInv
<1>5. CASE ~Open /\ ~PublishStaged /\ ~Snapshot /\ ~SnapshotAt
  <2>1. UNCHANGED <<rev, hist>>
    BY <1>5, StoreMoves
  <2>2. snaps' \subseteq snaps
    <3>1. CASE Edit \/ EditVirtual \/ SyncPath \/ SyncOther \/ SyncAll \/ Author
      BY <3>1 DEF Edit, EditVirtual, SyncPath, SyncOther, SyncAll, Author, Begin
    <3>2. CASE Poll
      BY <3>2 DEF Poll, Begin
    <3>3. CASE FinishOpen \/ FailOpen \/ Close \/ Crash \/ ApplyEngine \/ Persist \/ Rollback
      BY <3>3 DEF FinishOpen, FailOpen, Close, Crash, ApplyEngine, Persist, Rollback
    <3>4. CASE ReleaseSnapshot \/ Reload \/ Watch \/ Unwatch
      BY <3>4 DEF ReleaseSnapshot, Reload, Watch, Unwatch
    <3>5. CASE WatcherDelivers \/ WatcherLosesSync \/ DiskChange
      BY <3>5 DEF WatcherDelivers, WatcherLosesSync, DiskChange
    <3>6. CASE UNCHANGED vars
      BY <3>6 DEF vars
    <3> QED BY <1>5, <3>1, <3>2, <3>3, <3>4, <3>5, <3>6 DEF Next
  <2> QED BY <2>1, <2>2 DEF SnapshotInv
<1> QED BY <1>1, <1>2, <1>3, <1>4, <1>5

(* The invariant holds when nothing has been opened. *)
LEMMA HeadInit == Init => HeadInv
BY TypeInit DEF Init, HeadInv, CommitInv, SnapshotInv, RetainedWindow

(* Every step keeps it. *)
LEMMA HeadStep == HeadInv /\ [Next]_vars => HeadInv'
BY TypeStep, CommitStep, RetainedStep, SnapshotStep DEF HeadInv

(* The inductive invariant holds in every reachable state. *)
THEOREM HeadInvariant == Spec => []HeadInv
BY HeadInit, HeadStep, PTL DEF Spec

(* A commit is all or nothing: between commits the overlay, identity.db and the
   registry are exactly those of the current revision, whatever failed before. *)
THEOREM CommitsAtomic == Spec => []AllOrNothing
<1>1. HeadInv => AllOrNothing
  BY DEF HeadInv, CommitInv, AllOrNothing
<1> QED BY <1>1, HeadInvariant, PTL

(* A pinned snapshot keeps reading the content committed as its revision. *)
THEOREM SnapshotsIsolated == Spec => []SnapshotIsolation
<1>1. HeadInv => SnapshotIsolation
  BY DEF HeadInv, SnapshotInv, SnapshotIsolation
<1> QED BY <1>1, HeadInvariant, PTL

(* Time travel reaches exactly the last RetainCap revisions, as committed. *)
THEOREM WindowRetained == Spec => []RetainedWindow
<1>1. HeadInv => RetainedWindow
  BY DEF HeadInv
<1> QED BY <1>1, HeadInvariant, PTL
-----------------------------------------------------------------------------
(* Head implements Ledger. *)

(* What a commit in progress is about to publish: it leaves the authored records alone,
   or it leaves the generation and the registry alone; and until the engine has
   reconciled the scope the registry is the baseline's. *)
KindInv ==
    /\ Committing => \/ staged.notes = authored
                     \/ staged.gen = gen /\ ~staged.reconcile
    /\ phase = "apply" => reg = base.reg
    /\ phase \in {"persist", "publish"} /\ ~staged.reconcile => reg = base.reg

(* The plan of every write is of one of the two kinds. *)
LEMMA BeginPlan ==
    ASSUME phase = "ready", NEW plan, Begin(plan),
           plan.notes = authored \/ (plan.gen = gen /\ plan.reconcile = FALSE)
    PROVE  KindInv'
BY DEF Begin, KindInv, Committing, Baseline

(* A plan over content keeps the authored records. *)
LEMMA ContentBegins ==
    ASSUME phase = "ready", NEW f, NEW E, NEW S, NEW X, NEW Y,
           Begin(ContentPlan(f, E, S, X, Y))
    PROVE  KindInv'
<1>1. ContentPlan(f, E, S, X, Y).notes = authored
  BY DEF ContentPlan
<1>2. PICK plan : Begin(plan) /\ plan.notes = authored
  BY <1>1
<1> QED BY <1>2, BeginPlan

(* Outside of the transaction's own steps nothing of it moves. *)
LEMMA KindKept ==
    ASSUME KindInv, UNCHANGED <<phase, staged, base, reg, gen, authored>>
    PROVE  KindInv'
BY DEF KindInv, Committing

(* Every step keeps it. *)
LEMMA KindStep == KindInv /\ [Next]_vars => KindInv'
<1> SUFFICES ASSUME KindInv, [Next]_vars PROVE KindInv'
  OBVIOUS
<1>1. CASE Open \/ FinishOpen \/ FailOpen \/ Close \/ Crash
  BY <1>1 DEF Open, OpenWith, FinishOpen, FailOpen, Close, Crash, KindInv, Committing
<1>2. CASE Edit
  BY <1>2, ContentBegins DEF Edit, CanWrite
<1>3. CASE EditVirtual
  BY <1>3, ContentBegins DEF EditVirtual, CanWrite
<1>4. CASE SyncPath
  BY <1>4, ContentBegins DEF SyncPath, CanWrite
<1>15. CASE SyncOther
  BY <1>15, ContentBegins DEF SyncOther, CanWrite
<1>5. CASE SyncAll
  BY <1>5, ContentBegins DEF SyncAll, CanWrite
<1>6. CASE Author
  <2>1. PICK plan : Begin(plan) /\ plan.gen = gen /\ plan.reconcile = FALSE /\ phase = "ready"
    BY <1>6 DEF Author, CanWrite
  <2> QED BY <2>1, BeginPlan
<1>7. CASE Poll
  <2>1. CASE \E f, E, S, X, Y : Begin(ContentPlan(f, E, S, X, Y))
    BY <1>7, <2>1, ContentBegins DEF Poll
  <2>2. CASE UNCHANGED <<phase, disk, sidecar, store, overlay, db, reg, authored,
                         unsaved, staged, base, watching, debounce, snaps, ghosts,
                         counters>>
    BY <2>2, KindKept DEF store
  <2> QED BY <1>7, <2>1, <2>2 DEF Poll
<1>8. CASE ApplyEngine
  BY <1>8 DEF ApplyEngine, KindInv, Committing, store
<1>9. CASE Persist
  BY <1>9 DEF Persist, KindInv, Committing, store
<1>10. CASE Rollback \/ PublishStaged
  BY <1>10 DEF Rollback, PublishStaged, KindInv, Committing
<1>11. CASE Snapshot \/ SnapshotAt \/ ReleaseSnapshot
  BY <1>11, KindKept DEF Snapshot, SnapshotAt, Pin, ReleaseSnapshot, store
<1>12. CASE Reload
  BY <1>12 DEF Reload, KindInv, Committing
<1>13. CASE Watch \/ Unwatch \/ WatcherDelivers \/ WatcherLosesSync \/ DiskChange
  BY <1>13, KindKept DEF Watch, Unwatch, WatcherDelivers, WatcherLosesSync, DiskChange,
                        store
<1>14. CASE UNCHANGED vars
  BY <1>14, KindKept DEF vars, store
<1> QED BY <1>1, <1>2, <1>3, <1>4, <1>5, <1>6, <1>7, <1>8, <1>9, <1>10, <1>11, <1>12,
           <1>13, <1>14, <1>15 DEF Next

-----------------------------------------------------------------------------
(* A step that moves nothing a reader sees is a stutter of the ledger. *)
LEMMA Unseen ==
    ASSUME VisibleStatus' = VisibleStatus, VisibleRevision' = VisibleRevision,
           VisibleCurrent' = VisibleCurrent, VisibleKept' = VisibleKept, snaps' = snaps
    PROVE  UNCHANGED L!ledger
BY DEF L!ledger

(* In particular one that moves nothing of the head. *)
LEMMA HeadKept ==
    ASSUME UNCHANGED <<phase, rev, gen, retained, overlay, base, reg, authored, snaps>>
    PROVE  UNCHANGED L!ledger
<1>1. /\ VisibleStatus' = VisibleStatus /\ VisibleRevision' = VisibleRevision
      /\ VisibleCurrent' = VisibleCurrent /\ VisibleKept' = VisibleKept
  BY DEF VisibleStatus, VisibleRevision, VisibleCurrent, VisibleKept, VisibleContent,
         VisibleIds, Committing
<1> QED BY <1>1, Unseen

(* Starting a transaction: the baseline is what was visible. *)
LEMMA BeginUnseen ==
    ASSUME CommitInv, phase = "ready", NEW plan, Begin(plan)
    PROVE  UNCHANGED L!ledger
<1>1. /\ VisibleStatus' = VisibleStatus /\ VisibleRevision' = VisibleRevision
      /\ VisibleCurrent' = VisibleCurrent /\ VisibleKept' = VisibleKept
      /\ snaps' = snaps
  BY DEF Begin, Baseline, CommitInv, VisibleStatus, VisibleRevision, VisibleCurrent,
         VisibleKept, VisibleContent, VisibleIds, Committing
<1> QED BY <1>1, Unseen

(* The window of the store slides as the ledger's does. *)
LEMMA PublishSlides ==
    ASSUME TypeOK, RetainedWindow, RetainedWindow', phase # "closed", phase' # "closed",
           rev' = rev + 1, NEW g,
           hist' = [k \in 0..rev + 1 |-> IF k = rev + 1 THEN [gen |-> g, reg |-> reg]
                                                        ELSE hist[k]]
    PROVE  /\ DOMAIN retained' = {k \in DOMAIN retained \cup {rev + 1} :
                                     k + RetainCap > rev + 1}
           /\ \A k \in DOMAIN retained' :
                 retained'[k] = IF k = rev + 1 THEN g ELSE retained[k]
<1>1. /\ rev \in Nat /\ RetainCap \in Nat
      /\ DOMAIN retained = {k \in 0..rev : k + RetainCap > rev}
      /\ DOMAIN retained' = {k \in 0..(rev + 1) : k + RetainCap > rev + 1}
  BY HeadAssumption DEF TypeOK, RetainedWindow
<1>2. DOMAIN retained' = {k \in DOMAIN retained \cup {rev + 1} : k + RetainCap > rev + 1}
  BY <1>1
<1>3. ASSUME NEW k \in DOMAIN retained'
      PROVE  retained'[k] = IF k = rev + 1 THEN g ELSE retained[k]
  <2>1. k \in 0..(rev + 1) /\ retained'[k] = hist'[k].gen
    BY <1>1, <1>3 DEF RetainedWindow
  <2>2. CASE k = rev + 1
    BY <2>1, <2>2
  <2>3. CASE k # rev + 1
    <3>1. k \in DOMAIN retained
      BY <1>2, <1>3, <2>3
    <3>2. retained[k] = hist[k].gen
      BY <3>1 DEF RetainedWindow
    <3> QED BY <2>1, <2>3, <3>2
  <2> QED BY <2>2, <2>3
<1> QED BY <1>2, <1>3

(* Opening starts a new ledger. *)
LEMMA OpenStarts ==
    ASSUME TypeOK, TypeOK', RetainedWindow', Open
    PROVE  L!Start
<1> DEFINE W == [k \in {0} |-> EmptyGen]
<1>1. PICK g, r :
         /\ gen' = g /\ overlay' = g /\ reg' = r
         /\ hist' = [k \in 0..1 |-> IF k = 0 THEN Baseline(EmptyGen, r)
                                            ELSE Baseline(g, r)]
  BY DEF Open, OpenWith
<1>2. /\ phase = "closed" /\ phase' = "opening" /\ rev' = 1
      /\ authored' = NoRecords /\ snaps' = {}
  BY DEF Open, OpenWith
<1>3. /\ VisibleStatus = "closed" /\ VisibleStatus' = "opening"
      /\ VisibleRevision' = 1 /\ VisibleKept' = retained'
      /\ VisibleCurrent' = [content |-> gen', ids |-> reg', notes |-> NoRecords]
  BY <1>1, <1>2 DEF VisibleStatus, VisibleRevision, VisibleKept, VisibleCurrent,
                    VisibleContent, VisibleIds, Committing
<1>4. VisibleCurrent' \in L!Revisions /\ VisibleCurrent'.notes = BlankRevision.notes
  BY <1>3, InitialTypes DEF TypeOK, L!Revisions, BlankRevision
<1>5. RetainCap \in Nat /\ DOMAIN retained' = {k \in 0..1 : k + RetainCap > 1}
  BY <1>2, HeadAssumption DEF RetainedWindow
<1>6. DOMAIN retained' = {k \in DOMAIN W \cup {1} : k + RetainCap > 1}
  <2>1. DOMAIN W \cup {1} = 0..1
    OBVIOUS
  <2> QED BY <1>5, <2>1
<1>7. ASSUME NEW k \in DOMAIN retained'
      PROVE  retained'[k] = IF k = 1 THEN gen' ELSE W[k]
  <2>1. k \in 0..1 /\ retained'[k] = hist'[k].gen
    BY <1>2, <1>5, <1>7 DEF RetainedWindow
  <2> QED BY <1>1, <2>1 DEF Baseline
<1>8. W = [k \in {0} |-> BlankRevision.content]
  BY DEF BlankRevision
<1>9. L!Slides(W, 1, VisibleCurrent'.content, VisibleKept')
  <2>1. VisibleCurrent'.content = gen'
    BY <1>3
  <2> HIDE DEF W
  <2> QED BY <1>3, <1>6, <1>7, <2>1 DEF L!Slides
<1> HIDE DEF W
<1> QED BY <1>2, <1>3, <1>4, <1>8, <1>9 DEF L!Start

(* The rest of opening reads the notes back. *)
LEMMA FinishRecovers ==
    ASSUME TypeOK, TypeOK', FinishOpen
    PROVE  L!Recover
<1>1. /\ phase = "opening" /\ phase' = "ready"
      /\ UNCHANGED <<rev, gen, retained, overlay, reg, snaps>>
  BY DEF FinishOpen, store
<1>2. /\ VisibleStatus = "opening" /\ VisibleStatus' = "open"
      /\ VisibleRevision' = VisibleRevision /\ VisibleKept' = VisibleKept
      /\ VisibleCurrent = [content |-> overlay, ids |-> reg, notes |-> authored]
      /\ VisibleCurrent' = [content |-> overlay, ids |-> reg, notes |-> authored']
  BY <1>1 DEF VisibleStatus, VisibleRevision, VisibleKept, VisibleCurrent,
              VisibleContent, VisibleIds, Committing
<1>3. VisibleCurrent' \in L!Revisions
  BY <1>2 DEF TypeOK, L!Revisions
<1> QED BY <1>1, <1>2, <1>3 DEF L!Recover

(* Closing and dying leave nothing but pins. *)
LEMMA EndStops ==
    ASSUME FailOpen \/ Close \/ Crash
    PROVE  L!Stop
<1>1. phase' = "closed" /\ snaps' \subseteq snaps
  BY DEF FailOpen, Close, Crash
<1>2. /\ VisibleStatus' = "closed" /\ VisibleRevision' = 0
      /\ VisibleCurrent' = BlankRevision
      /\ VisibleKept' = [r \in {} |-> EmptyGen]
  BY <1>1 DEF VisibleStatus, VisibleRevision, VisibleCurrent, VisibleKept
<1> QED BY <1>1, <1>2 DEF L!Stop, BlankRevision

(* Publishing is the one step of a transaction that readers see. *)
LEMMA PublishCommits ==
    ASSUME HeadInv, HeadInv', KindInv, PublishStaged
    PROVE  L!Commit
<1>1. /\ phase = "publish" /\ phase' = "ready" /\ rev' = rev + 1
      /\ authored' = staged.notes /\ overlay' = overlay /\ reg' = reg
      /\ snaps' = snaps
      /\ hist' = [k \in 0..rev + 1 |->
                     IF k = rev + 1 THEN [gen |-> staged.gen, reg |-> reg] ELSE hist[k]]
  BY DEF PublishStaged, Baseline
<1>2. overlay = staged.gen
  BY <1>1 DEF HeadInv, CommitInv
<1>3. /\ VisibleStatus = "open" /\ VisibleStatus' = "open"
      /\ VisibleRevision = rev /\ VisibleRevision' = rev + 1
      /\ VisibleKept = retained /\ VisibleKept' = retained'
      /\ VisibleCurrent = [content |-> gen, ids |-> base.reg, notes |-> authored]
      /\ VisibleCurrent' = [content |-> staged.gen, ids |-> reg, notes |-> staged.notes]
  BY <1>1, <1>2 DEF VisibleStatus, VisibleRevision, VisibleKept, VisibleCurrent,
                    VisibleContent, VisibleIds, Committing
<1>4. VisibleCurrent' \in L!Revisions
  BY <1>3 DEF HeadInv, TypeOK, Plans, L!Revisions
<1>5. staged.notes = authored \/ (staged.gen = gen /\ reg = base.reg)
  BY <1>1 DEF KindInv, Committing
<1>6. L!Slides(retained, rev + 1, staged.gen, retained')
  BY <1>1, PublishSlides DEF L!Slides, HeadInv
<1> QED BY <1>1, <1>3, <1>4, <1>5, <1>6 DEF L!Commit

(* A rolled-back transaction was never seen. *)
LEMMA RollbackUnseen ==
    ASSUME HeadInv, Rollback
    PROVE  UNCHANGED L!ledger
<1>1. /\ phase = "persist" /\ phase' = "ready" /\ overlay' = gen /\ reg' = base.reg
      /\ UNCHANGED <<rev, gen, retained, authored, snaps>>
  BY DEF Rollback, RestoredRegistry, HeadInv, CommitInv, store
<1>2. /\ VisibleStatus' = VisibleStatus /\ VisibleRevision' = VisibleRevision
      /\ VisibleCurrent' = VisibleCurrent /\ VisibleKept' = VisibleKept
  BY <1>1 DEF VisibleStatus, VisibleRevision, VisibleCurrent, VisibleKept,
              VisibleContent, VisibleIds, Committing
<1> QED BY <1>1, <1>2, Unseen

(* Before it publishes, a transaction is not seen either: the overlay already serves
   the staged text and the registry is already reconciled, under the mutex. *)
LEMMA TransactionUnseen ==
    ASSUME HeadInv, KindInv, ApplyEngine \/ Persist
    PROVE  UNCHANGED L!ledger
<1>1. /\ Committing /\ Committing' /\ phase # "closed" /\ phase' # "closed"
      /\ UNCHANGED <<rev, gen, retained, authored, snaps, base>>
      /\ phase \notin {"opening"} /\ phase' \notin {"opening"}
  BY DEF ApplyEngine, Persist, Committing, store
<1>2. /\ VisibleStatus' = VisibleStatus /\ VisibleRevision' = VisibleRevision
      /\ VisibleCurrent' = VisibleCurrent /\ VisibleKept' = VisibleKept
  BY <1>1 DEF VisibleStatus, VisibleRevision, VisibleCurrent, VisibleKept,
              VisibleContent, VisibleIds
<1> QED BY <1>1, <1>2, Unseen

(* A snapshot of the head, or of a retained revision, pins what the ledger holds. *)
LEMMA SnapshotPins ==
    ASSUME HeadInv, Snapshot \/ SnapshotAt
    PROVE  L!Pin
<1>1. /\ phase = "ready" /\ overlay = gen
      /\ UNCHANGED <<phase, rev, gen, retained, overlay, base, reg, authored>>
  BY DEF Snapshot, SnapshotAt, Pin, HeadInv, CommitInv, store
<1>2. /\ VisibleStatus = "open" /\ VisibleRevision = rev /\ VisibleKept = retained
      /\ VisibleCurrent = [content |-> gen, ids |-> reg, notes |-> authored]
      /\ UNCHANGED <<VisibleStatus, VisibleRevision, VisibleCurrent, VisibleKept>>
  BY <1>1 DEF VisibleStatus, VisibleRevision, VisibleCurrent, VisibleKept,
              VisibleContent, VisibleIds, Committing
<1>3. \/ snaps' = snaps \cup {[rev |-> rev, gen |-> gen, reg |-> reg,
                                authored |-> authored, head |-> TRUE]}
      \/ \E r \in DOMAIN retained :
            snaps' = snaps \cup {[rev |-> r, gen |-> retained[r], reg |-> reg,
                                 authored |-> authored, head |-> FALSE]}
  BY DEF Snapshot, SnapshotAt, Pin
<1> QED BY <1>2, <1>3 DEF L!Pin, L!Pinned

(* Reload rebuilds the head over the kept store and forgets the notes in memory. *)
LEMMA ReloadForgets ==
    ASSUME HeadInv, Reload
    PROVE  L!Forget
<1>1. /\ phase = "ready" /\ phase' = phase /\ overlay = gen /\ overlay' = gen
      /\ authored' = NoRecords /\ UNCHANGED <<rev, gen, retained, reg, snaps>>
  BY DEF Reload, HeadInv, CommitInv, store
<1>2. /\ VisibleStatus = "open" /\ UNCHANGED <<VisibleStatus, VisibleRevision, VisibleKept>>
      /\ VisibleCurrent = [content |-> gen, ids |-> reg, notes |-> authored]
      /\ VisibleCurrent' = [content |-> gen, ids |-> reg, notes |-> NoRecords]
  BY <1>1 DEF VisibleStatus, VisibleRevision, VisibleCurrent, VisibleKept,
              VisibleContent, VisibleIds, Committing
<1>3. VisibleCurrent' = [VisibleCurrent EXCEPT !.notes = BlankRevision.notes]
  BY <1>2 DEF BlankRevision
<1> QED BY <1>1, <1>2, <1>3 DEF L!Forget

(* Dropping a snapshot changes nothing else. *)
LEMMA DropReleases ==
    ASSUME ReleaseSnapshot
    PROVE  L!Release
<1>1. /\ snaps' \subseteq snaps
      /\ UNCHANGED <<phase, rev, gen, retained, overlay, base, reg, authored>>
  BY DEF ReleaseSnapshot, store
<1>2. UNCHANGED <<VisibleStatus, VisibleRevision, VisibleCurrent, VisibleKept>>
  BY <1>1 DEF VisibleStatus, VisibleRevision, VisibleCurrent, VisibleKept,
              VisibleContent, VisibleIds, Committing
<1> QED BY <1>1, <1>2 DEF L!Release

(* Every step of the head is a step of the ledger or is not seen. *)
LEMMA LedgerStep ==
    ASSUME HeadInv, HeadInv', KindInv, [Next]_vars
    PROVE  [L!Next]_(L!ledger)
<1>1. CASE Open
  BY <1>1, OpenStarts DEF HeadInv, L!Next
<1>2. CASE FinishOpen
  BY <1>2, FinishRecovers DEF HeadInv, L!Next
<1>3. CASE FailOpen \/ Close \/ Crash
  BY <1>3, EndStops DEF L!Next
<1>4. CASE Edit
  BY <1>4, BeginUnseen DEF Edit, CanWrite, HeadInv
<1>5. CASE EditVirtual
  BY <1>5, BeginUnseen DEF EditVirtual, CanWrite, HeadInv
<1>6. CASE SyncPath
  BY <1>6, BeginUnseen DEF SyncPath, CanWrite, HeadInv
<1>7. CASE SyncAll
  BY <1>7, BeginUnseen DEF SyncAll, CanWrite, HeadInv
<1>18. CASE SyncOther
  BY <1>18, BeginUnseen DEF SyncOther, CanWrite, HeadInv
<1>8. CASE Author
  BY <1>8, BeginUnseen DEF Author, CanWrite, HeadInv
<1>9. CASE Poll
  <2>1. CASE \E plan : Begin(plan)
    BY <1>9, <2>1, BeginUnseen DEF Poll, HeadInv
  <2>2. CASE UNCHANGED <<phase, disk, sidecar, store, overlay, db, reg, authored,
                         unsaved, staged, base, watching, debounce, snaps, ghosts,
                         counters>>
    BY <2>2, HeadKept DEF store
  <2> QED BY <1>9, <2>1, <2>2 DEF Poll
<1>10. CASE ApplyEngine \/ Persist
  BY <1>10, TransactionUnseen
<1>11. CASE Rollback
  BY <1>11, RollbackUnseen
<1>12. CASE PublishStaged
  BY <1>12, PublishCommits DEF L!Next
<1>13. CASE Snapshot \/ SnapshotAt
  BY <1>13, SnapshotPins DEF L!Next
<1>14. CASE ReleaseSnapshot
  BY <1>14, DropReleases DEF L!Next
<1>15. CASE Reload
  BY <1>15, ReloadForgets DEF L!Next
<1>16. CASE Watch \/ Unwatch \/ WatcherDelivers \/ WatcherLosesSync \/ DiskChange
  BY <1>16, HeadKept DEF Watch, Unwatch, WatcherDelivers, WatcherLosesSync, DiskChange,
                        store
<1>17. CASE UNCHANGED vars
  BY <1>17, HeadKept DEF vars, store
<1> QED BY <1>1, <1>2, <1>3, <1>4, <1>5, <1>6, <1>7, <1>8, <1>9, <1>10, <1>11, <1>12,
           <1>13, <1>14, <1>15, <1>16, <1>17, <1>18 DEF Next

(* The head implements the ledger: the staged transaction, its failures and its
   rollback, the watcher, eviction and snapshots are, to readers, atomic revisions. *)
THEOREM HeadImplementsLedger == Spec => ImplementsLedger
<1>1. Init => L!Init
  <2> SUFFICES ASSUME Init PROVE L!Init
    OBVIOUS
  <2>1. phase = "closed" /\ snaps = {}
    BY DEF Init
  <2> QED BY <2>1 DEF L!Init, VisibleStatus, VisibleRevision, VisibleCurrent, VisibleKept,
                      BlankRevision
<1>2. Init => KindInv
  BY DEF Init, KindInv, Committing
<1>3. Spec => []KindInv
  BY <1>2, KindStep, PTL DEF Spec
<1>4. HeadInv /\ HeadInv' /\ KindInv /\ [Next]_vars => [L!Next]_(L!ledger)
  BY LedgerStep
<1> QED BY <1>1, <1>3, <1>4, HeadInvariant, PTL DEF Spec, ImplementsLedger, L!Spec
-----------------------------------------------------------------------------
(* What the head serves: which text a version names, the client's unsaved buffers,
   agreement with the disk, and the authored records with their review state.  A theorem
   says which of the operations it leaves out. *)

(* The phases of a commit. *)
InCommit == {"apply", "persist", "publish"}

(* The documents of a path that can meet. *)
DocsOf(p) ==
    {gen[p], overlay[p], db[p]} \cup {retained[k][p] : k \in DOMAIN retained}
        \cup (IF phase \in InCommit THEN {staged.gen[p]} ELSE {})

(* Versions drawn so far name texts. *)
Agree(D, n) ==
    \A c, d \in D : c.ver <= n /\ (c.ver = d.ver /\ c.ver # 0 => c.text = d.text)

(* A path without a document has version 0, any other has drawn one. *)
Drawn(g) == \A p \in Paths : g[p].text = NoDoc <=> g[p].ver = 0

(* In an open project, the versions of every document in sight name its text. *)
VersionInv ==
    phase # "closed" =>
        /\ \A p \in Paths : Agree(DocsOf(p), ver)
        /\ Drawn(gen) /\ (phase \in InCommit => Drawn(staged.gen))

(* What every plan is made of. *)
PlanInv ==
    phase \in InCommit =>
        /\ \A p \in Paths : staged.gen[p] = gen[p] \/ p \in staged.events
        /\ staged.reconcile =>
              /\ staged.events \subseteq staged.scope
              /\ staged.events = staged.scope \/ "other" \in Ops
        /\ ~staged.reconcile => staged.events = {}

(* Anchors of a path that say what it contains: one id is in force, with the text's hash,
   and none if the file is gone. *)
Says(anchors, text) ==
    /\ text \in Texts => \E k \in Numbers : LiveIds(anchors) = {k} /\ anchors[k].hash = text
    /\ text = Gone => LiveIds(anchors) = {}

(* Anchors that say what a generation contains. *)
Anchored(g, saved) == \A p \in Paths : Says(saved[p], g[p].text)

(* An engine that has read a generation. *)
Follows(g, d) == \A p \in Paths : g[p].text # NoDoc => d[p].text = g[p].text

(* The registry says what the generation contains that the engine last applied: the
   committed one between commits, the staged one from then on.  With commits about other
   files, whose reconciliation looks at every file, the engine has to have read it too. *)
RegistryInv ==
    /\ phase \in {"opening", "ready", "apply"} => Anchored(gen, Saved(reg))
    /\ phase \in {"persist", "publish"} => Anchored(staged.gen, Saved(reg))
    /\ phase = "persist" => Anchored(gen, idDisk)
    /\ "other" \in Ops =>
          /\ phase \in {"opening", "ready", "apply"} => Follows(gen, db)
          /\ phase \in {"persist", "publish"} => Follows(staged.gen, db)

(* Every known anchor has a hash. *)
Bodied(anchors) == \A k \in KnownIds(anchors) : anchors[k].hash \in Texts
Hashed(saved) == \A p \in Paths : Bodied(saved[p])

(* Every record is authored against a text. *)
Reviewed(f) == \A i \in Ids : \A j \in DOMAIN f[i] : f[i][j].reviewed \in Texts

(* What the registry and identity.db know has a hash, and what is recorded, in memory,
   staged or on disk, was authored against a text. *)
KnownInv ==
    /\ Hashed(idDisk) /\ Reviewed(recDisk)
    /\ phase # "closed" => Hashed(Saved(reg)) /\ Reviewed(authored)
    /\ phase \in InCommit => Reviewed(staged.notes)

(* The records and their files while nothing is reloaded. *)
Stamped(f, n) == \A i \in Ids : \A j \in DOMAIN f[i] : f[i][j].rev <= n
Extends(s, t) == \A i \in DOMAIN s : i \in DOMAIN t /\ t[i] = s[i]

(* What is in memory is what is on disk, until a persisted record is published; a commit
   touches the records it writes and only extends them if history is kept; in the first
   session no version is of a later revision. *)
NotesInv ==
    /\ phase \in {"ready", "apply", "persist"} => authored = recDisk
    /\ phase \in {"apply", "persist"} =>
          /\ \A i \in Ids \ staged.writes : staged.notes[i] = authored[i]
          /\ KeepHistory => \A i \in Ids : Extends(authored[i], staged.notes[i])
    /\ phase = "publish" => staged.notes = recDisk
    /\ starts = 0 => phase = "closed" /\ recDisk = NoRecords
    /\ starts = 1 =>
          /\ phase = "opening" => recDisk = NoRecords
          /\ phase \in {"ready", "apply", "persist"} => Stamped(authored, rev)
          /\ phase \in InCommit => Stamped(staged.notes, rev + 1)

(* The buffers while nothing is reloaded. *)
BufferInv ==
    /\ phase # "closed" =>
          \A p \in Paths : buffer[p] # NoDoc => p \in unsaved /\ gen[p].text = buffer[p]
    /\ phase \in InCommit =>
          /\ staged.ins \cap staged.rem = {}
          /\ \A p \in Paths \ (staged.ins \cup staged.rem) :
                buffer[p] # NoDoc => staged.gen[p].text = buffer[p]

(* The watcher's events and the disk. *)
Reports(q, p) == \E i \in DOMAIN q : q[i].path = p
IsLast(q, i, p) == i \in DOMAIN q /\ q[i].path = p /\ \A j \in DOMAIN q : j > i => q[j].path # p
FileEvents == [kind : {"created", "changed", "deleted"}, path : Paths]
Queued(q) ==
    /\ q \in Seq(FileEvents)
    /\ \A p \in Paths : Reports(q, p) => \E i \in DOMAIN q : IsLast(q, i, p)

(* The last event of p in q says that the file was deleted only if it is not there. *)
Truthful(q, p, now) == \A i \in DOMAIN q : IsLast(q, i, p) /\ q[i].kind = "deleted" => now = Gone

(* The last event of a file, wherever it waits, is true of the disk, unless a later change
   went unreported. *)
QueueInv ==
    /\ Queued(pending) /\ Queued(debounce)
    /\ ~watching => debounce = <<>>
    /\ \A p \in Paths :
          /\ Truthful(debounce, p, disk[p])
          /\ ~Reports(debounce, p) /\ p \notin unseen => Truthful(pending, p, disk[p])

(* g agrees with the disk on p, or an event says that it may not. *)
Tracks(g, p) == Reports(pending, p) \/ Reports(debounce, p) \/ Content(g, p) = disk[p]

(* The head, or the commit in progress, tracks every file that is neither shadowed by a
   buffer nor out of the watcher's sight. *)
DiskInv ==
    /\ phase \in {"opening", "ready"} =>
          \A p \in Paths \ (unsaved \cup unseen) : Tracks(gen, p)
    /\ phase \in InCommit =>
          \A p \in Paths \ (((unsaved \cup staged.ins) \ staged.rem) \cup unseen) :
              Tracks(staged.gen, p)
-----------------------------------------------------------------------------
(* The steps of the head, by what they do to its content. *)

(* What a plan changes, and the version numbers it draws. *)
Planned(plan) ==
    /\ plan \in Plans /\ ver' \in {ver, ver + 1}
    /\ \A p \in Paths :
          \/ plan.gen[p] = gen[p]
          \/ /\ p \in plan.events /\ ver' = ver + 1
             /\ plan.gen[p].ver = ver + 1 /\ plan.gen[p].text \in Texts \cup {Gone}
    /\ plan.ins \cap plan.rem = {}
    /\ \A p \in Paths \cap unsaved : p \in plan.ins \cup plan.rem \/ plan.gen[p] = gen[p]

(* It is about files, or about one record. *)
OfContent(plan) ==
    /\ plan.reconcile /\ plan.notes = authored /\ plan.writes = {}
    /\ plan.events \subseteq plan.scope
    /\ plan.events = plan.scope \/ "other" \in Ops

(* A plan about one record of a known entity, stamped with the revision to come. *)
OfRecord(plan) ==
    /\ ~plan.reconcile /\ plan.gen = gen /\ plan.events = {}
    /\ \E i \in Ids, note \in Versions :
          /\ AnchorOf(reg, i).status \in Known
          /\ note.rev = rev + 1 /\ note.reviewed = AnchorOf(reg, i).hash
          /\ plan.notes = [authored EXCEPT ![i] = Put(@, note)] /\ plan.writes = {i}

(* A call that starts a commit. *)
Starts(plan) ==
    phase = "ready" /\ Begin(plan) /\ Planned(plan) /\ (OfContent(plan) \/ OfRecord(plan))

(* Nothing of the head moves but the watcher, the snapshots and the disk. *)
Calm ==
    UNCHANGED <<phase, idDisk, recDisk, rev, gen, ver, retained, overlay, db, reg, authored,
                unsaved, staged, base, hist, buffer, starts>>

(* A step that ends the session, an opening that fails after its registry was persisted
   included. *)
Stops ==
    /\ phase' = "closed" /\ UNCHANGED <<recDisk, starts>>
    /\ idDisk' = idDisk \/ (phase = "opening" /\ idDisk' = Saved(reg))

(* A plan over files is a plan. *)
LEMMA ContentPlanned ==
    ASSUME TypeOK, NEW S \in SUBSET Paths, NEW f \in [S -> Texts \cup {Gone}],
           NEW E \in SUBSET Paths, NEW D \in SUBSET Paths,
           NEW X \in SUBSET Paths, NEW Y \in SUBSET Paths,
           S \subseteq E, E \subseteq D, E = D \/ "other" \in Ops, X \cap Y = {},
           S \cap unsaved \subseteq X \cup Y,
           ver' \in {ver, ver + 1}, S # {} => ver' = ver + 1
    PROVE  Planned(ContentPlan(f, E, D, X, Y)) /\ OfContent(ContentPlan(f, E, D, X, Y))
<1>1. ContentPlan(f, E, D, X, Y) \in Plans
  BY ContentPlanType
<1>2. PICK plan : plan = ContentPlan(f, E, D, X, Y)
  OBVIOUS
<1>3. /\ plan.gen = Stage(f) /\ plan.events = E /\ plan.scope = D /\ plan.reconcile
      /\ plan.notes = authored /\ plan.writes = {} /\ plan.ins = X /\ plan.rem = Y
  BY <1>2 DEF ContentPlan
<1>4. \A p \in Paths :
         IF p \in S THEN Stage(f)[p].text = f[p] /\ Stage(f)[p].ver = ver + 1
                    ELSE Stage(f)[p] = gen[p]
  BY DEF Stage
<1>5. Planned(plan)
  BY <1>1, <1>2, <1>3, <1>4 DEF Planned
<1>6. OfContent(plan)
  BY <1>3 DEF OfContent
<1> QED BY <1>2, <1>5, <1>6

(* Every write starts a commit with such a plan. *)
LEMMA WriteStarts ==
    ASSUME TypeOK, Edit \/ EditVirtual \/ SyncPath \/ SyncOther \/ SyncAll
    PROVE  \E plan : Starts(plan)
<1>0. ver' = ver + 1 /\ phase = "ready"
  BY DEF Edit, EditVirtual, SyncPath, SyncOther, SyncAll, CanWrite
<1>1. ASSUME NEW S \in SUBSET Paths, NEW f \in [S -> Texts \cup {Gone}],
             NEW E \in SUBSET Paths, NEW D \in SUBSET Paths,
             NEW X \in SUBSET Paths, NEW Y \in SUBSET Paths,
             S \subseteq E, E \subseteq D, E = D \/ "other" \in Ops, X \cap Y = {},
             S \cap unsaved \subseteq X \cup Y, Begin(ContentPlan(f, E, D, X, Y))
      PROVE  \E plan : Starts(plan)
  <2>1. Planned(ContentPlan(f, E, D, X, Y)) /\ OfContent(ContentPlan(f, E, D, X, Y))
    BY <1>0, <1>1, ContentPlanned
  <2>2. PICK plan : plan = ContentPlan(f, E, D, X, Y)
    OBVIOUS
  <2> QED BY <1>0, <1>1, <2>1, <2>2 DEF Starts
<1>2. CASE Edit
  <2>1. PICK S \in SUBSET Paths : \E f \in [S -> Texts] : Begin(ContentPlan(f, S, S, S, {}))
    BY <1>2 DEF Edit
  <2>2. PICK f \in [S -> Texts] : Begin(ContentPlan(f, S, S, S, {}))
    BY <2>1
  <2>3. f \in [S -> Texts \cup {Gone}]
    OBVIOUS
  <2> QED BY <1>1, <2>2, <2>3
<1>3. CASE EditVirtual
  <2>1. NoChange \in [{} -> Texts \cup {Gone}] /\ "other" \in Ops
    BY <1>3 DEF NoChange, EditVirtual, CanWrite
  <2>2. Begin(ContentPlan(NoChange, {}, Paths, {}, {}))
    BY <1>3 DEF EditVirtual
  <2>3. PICK S : S = {}
    OBVIOUS
  <2>4. /\ S \in SUBSET Paths /\ Paths \in SUBSET Paths
        /\ NoChange \in [S -> Texts \cup {Gone}] /\ Begin(ContentPlan(NoChange, S, Paths, S, S))
        /\ S \subseteq S /\ S \subseteq Paths /\ S \cap S = {} /\ S \cap unsaved \subseteq S \cup S
    BY <2>1, <2>2, <2>3
  <2> HIDE DEF NoChange
  <2> QED BY <1>1, <2>1, <2>4, Zenon
<1>4. CASE SyncPath
  <2>1. PICK p \in Paths : Begin(ContentPlan([q \in {p} |-> disk[q]], {p}, {p}, {}, {p}))
    BY <1>4 DEF SyncPath
  <2>2. [q \in {p} |-> disk[q]] \in [{p} -> Texts \cup {Gone}]
    BY DEF TypeOK
  <2>3. PICK f : f = [q \in {p} |-> disk[q]]
    OBVIOUS
  <2> QED BY <1>1, <2>1, <2>2, <2>3
<1>5. CASE SyncAll
  <2>1. PICK found, f : /\ found = {p \in Paths \ unsaved : disk[p] # Gone}
                        /\ f = [p \in found |-> disk[p]]
    OBVIOUS
  <2>2. Begin(ContentPlan(f, Paths, Paths, {}, {}))
    BY <1>5, <2>1 DEF SyncAll, SyncSkips
  <2>3. found \in SUBSET Paths /\ found \cap unsaved = {} /\ f \in [found -> Texts \cup {Gone}]
    BY <2>1 DEF TypeOK
  <2> QED BY <1>1, <2>2, <2>3
<1>6. CASE SyncOther
  <2>1. NoChange \in [{} -> Texts \cup {Gone}] /\ "other" \in Ops
    BY <1>6 DEF NoChange, SyncOther, CanWrite
  <2>2. PICK reloaded \in {{}, Paths} : Begin(ContentPlan(NoChange, reloaded, Paths, {}, {}))
    BY <1>6 DEF SyncOther
  <2>3. PICK S : S = {}
    OBVIOUS
  <2>4. /\ S \in SUBSET Paths /\ Paths \in SUBSET Paths /\ reloaded \in SUBSET Paths
        /\ NoChange \in [S -> Texts \cup {Gone}]
        /\ Begin(ContentPlan(NoChange, reloaded, Paths, S, S))
        /\ S \subseteq reloaded /\ reloaded \subseteq Paths
        /\ S \cap S = {} /\ S \cap unsaved \subseteq S \cup S
    BY <2>1, <2>2, <2>3
  <2> HIDE DEF NoChange
  <2> QED BY <1>1, <2>1, <2>4, Zenon
<1> QED BY <1>2, <1>3, <1>4, <1>5, <1>6

(* Authoring starts a commit about one record. *)
LEMMA AuthorStarts ==
    ASSUME TypeOK, Author
    PROVE  \E plan : Starts(plan)
<1> DEFINE note(i, v) == [val |-> v, rev |-> rev + 1, reviewed |-> AnchorOf(reg, i).hash]
           notes(i, v) == [authored EXCEPT ![i] = Put(@, note(i, v))]
<1>1. PICK i \in Ids, v \in Vals :
         /\ AnchorOf(reg, i).status \in Known
         /\ Begin([gen |-> gen, events |-> {}, scope |-> {}, reconcile |-> FALSE,
                   notes |-> notes(i, v), writes |-> {i}, ins |-> {}, rem |-> {}])
  BY DEF Author
<1>2. PICK n, f : n = note(i, v) /\ f = [authored EXCEPT ![i] = Put(@, n)]
  OBVIOUS
<1>21. AnchorOf(reg, i) \in Anchors
  <2>1. i[1] \in Paths /\ i[2] \in Numbers
    BY DEF Ids
  <2> QED BY <2>1 DEF AnchorOf, TypeOK, Registries, Entries, AnchorLists
<1>3. n \in Versions /\ n.rev = rev + 1 /\ n.reviewed = AnchorOf(reg, i).hash
  BY <1>2, <1>21 DEF TypeOK, Versions, Anchors
<1>4. f \in Records
  BY <1>2, <1>3, PutType DEF TypeOK
<1>5. PICK plan : plan = [gen |-> gen, events |-> {}, scope |-> {}, reconcile |-> FALSE,
                          notes |-> f, writes |-> {i}, ins |-> {}, rem |-> {}]
  OBVIOUS
<1>6. Begin(plan)
  BY <1>1, <1>2, <1>5
<1>7. plan \in Plans
  BY <1>4, <1>5 DEF TypeOK, Plans
<1>8. /\ plan.gen = gen /\ plan.events = {} /\ ~plan.reconcile /\ plan.notes = f
      /\ plan.writes = {i} /\ plan.ins = {} /\ plan.rem = {}
  BY <1>5
<1>9. OfRecord(plan)
  BY <1>1, <1>2, <1>3, <1>8 DEF OfRecord
<1>10. phase = "ready" /\ ver' = ver
  BY DEF Author, CanWrite
<1>11. Planned(plan)
  BY <1>7, <1>8, <1>10 DEF Planned
<1> QED BY <1>6, <1>9, <1>10, <1>11 DEF Starts

(* A poll starts a commit or publishes nothing. *)
LEMMA PollStarts ==
    ASSUME TypeOK, Poll
    PROVE  Calm \/ \E plan : Starts(plan)
<1> DEFINE kept == {pending[i].path : i \in DOMAIN pending} \ unsaved
           text(p) == IF LastKind(pending, p) = "deleted" THEN Gone ELSE disk[p]
           f == [p \in kept |-> text(p)]
<1>1. CASE /\ Begin(ContentPlan(NoChange, Paths, Paths, {}, {}))
           /\ UNCHANGED ver
  <2>1. NoChange \in [{} -> Texts \cup {Gone}]
    BY DEF NoChange
  <2>2. /\ Planned(ContentPlan(NoChange, Paths, Paths, {}, {}))
        /\ OfContent(ContentPlan(NoChange, Paths, Paths, {}, {}))
    BY <1>1, <2>1, ContentPlanned
  <2> QED BY <1>1, <2>2 DEF Starts, Poll
<1>2. CASE UNCHANGED <<phase, disk, sidecar, store, overlay, db, reg, authored,
                       unsaved, staged, base, watching, debounce, snaps, ghosts, counters>>
  BY <1>2 DEF Calm, sidecar, store, ghosts, counters
<1>3. CASE /\ ~(Rescan \in {pending[i] : i \in DOMAIN pending})
           /\ Begin(ContentPlan(f, kept, kept, {}, {}))
           /\ ver' = ver + 1
  <2>1. kept \in SUBSET Paths /\ kept \cap unsaved = {}
    BY <1>3 DEF TypeOK, Events
  <2>2. f \in [kept -> Texts \cup {Gone}]
    <3>1. \A p \in Paths : text(p) \in Texts \cup {Gone}
      BY DEF TypeOK
    <3> HIDE DEF kept, text
    <3> QED BY <2>1, <3>1
  <2> HIDE DEF f, kept
  <2>3. Planned(ContentPlan(f, kept, kept, {}, {})) /\ OfContent(ContentPlan(f, kept, kept, {}, {}))
    BY <1>3, <2>1, <2>2, ContentPlanned
  <2> QED BY <1>3, <2>3 DEF Starts, Poll
<1> QED BY <1>1, <1>2, <1>3 DEF Poll, PollIgnores

(* The steps of the head. *)
LEMMA Steps ==
    ASSUME TypeOK, [Next]_vars
    PROVE  \/ Open \/ FinishOpen \/ Stops \/ ApplyEngine \/ Persist \/ Rollback
           \/ PublishStaged \/ Reload \/ Calm \/ \E plan : Starts(plan)
<1>1. CASE Close \/ Crash
  BY <1>1 DEF Close, Crash, Stops, sidecar, counters
<1>15. CASE FailOpen
  BY <1>15 DEF FailOpen, Stops, counters
<1>2. CASE Snapshot \/ SnapshotAt \/ ReleaseSnapshot
  BY <1>2 DEF Snapshot, SnapshotAt, Pin, ReleaseSnapshot, Calm, sidecar, store, ghosts, counters
<1>3. CASE Watch \/ Unwatch \/ WatcherDelivers \/ WatcherLosesSync \/ DiskChange
  BY <1>3 DEF Watch, Unwatch, WatcherDelivers, WatcherLosesSync, DiskChange, Calm, sidecar,
              store, ghosts, counters
<1>4. CASE UNCHANGED vars
  BY <1>4 DEF vars, Calm, sidecar, store, ghosts, counters
<1> QED BY <1>1, <1>15, <1>2, <1>3, <1>4, WriteStarts, AuthorStarts, PollStarts DEF Next
-----------------------------------------------------------------------------
(* Versions. *)

(* Documents that were there, that have no version, or that carry the number just drawn. *)
Redrawn(D, E, n, m, f) ==
    /\ n \in Nat /\ m \in {n, n + 1} /\ Agree(D, n)
    /\ \A e \in D : e.ver \in Nat
    /\ \A e \in E : e \in D \/ e.ver = 0 \/ (e = f /\ f.ver = n + 1 /\ m = n + 1)

(* They agree. *)
LEMMA AgreeOn ==
    ASSUME NEW D, NEW E, NEW n, NEW m, NEW f, Redrawn(D, E, n, m, f)
    PROVE  Agree(E, m)
<1> USE DEF Redrawn
<1> SUFFICES ASSUME NEW c \in E, NEW d \in E
             PROVE  c.ver <= m /\ (c.ver = d.ver /\ c.ver # 0 => c.text = d.text)
  BY DEF Agree
<1>1. \A e \in D : e.ver \in Nat /\ e.ver <= n
  BY DEF Agree
<1>2. CASE c \in D /\ d \in D
  BY <1>1, <1>2 DEF Agree
<1>3. CASE ~(c \in D /\ d \in D)
  BY <1>1, <1>3
<1> QED BY <1>2, <1>3

(* Where a document can be. *)
LEMMA DocsAre ==
    ASSUME NEW p, NEW e
    PROVE  /\ e \in DocsOf(p) <=>
                \/ e = gen[p] \/ e = overlay[p] \/ e = db[p]
                \/ \E k \in DOMAIN retained : e = retained[k][p]
                \/ phase \in InCommit /\ e = staged.gen[p]
           /\ e \in DocsOf(p)' <=>
                \/ e = gen'[p] \/ e = overlay'[p] \/ e = db'[p]
                \/ \E k \in DOMAIN retained' : e = retained'[k][p]
                \/ phase' \in InCommit /\ e = staged'.gen[p]
BY DEF DocsOf

(* They are documents. *)
LEMMA DocsTyped ==
    ASSUME TypeOK, NEW p \in Paths, NEW e \in DocsOf(p)
    PROVE  e \in Docs
<1>1. gen[p] \in Docs /\ overlay[p] \in Docs /\ db[p] \in Docs /\ staged.gen[p] \in Docs
  BY DEF TypeOK, Generations, Plans
<1>2. \A k \in DOMAIN retained : retained[k][p] \in Docs
  BY DEF TypeOK, Generations
<1> QED BY <1>1, <1>2, DocsAre

(* Retaining a generation adds no other. *)
LEMMA RetainAdds ==
    ASSUME NEW W, NEW r, NEW g, NEW k \in DOMAIN Retain(W, r, g)
    PROVE  \/ Retain(W, r, g)[k] = g
           \/ k \in DOMAIN W /\ Retain(W, r, g)[k] = W[k]
BY DEF Retain

(* What the engine reads of a document is the document. *)
LEMMA ReadDoc ==
    ASSUME NEW g \in Generations, NEW p \in Paths, Drawn(g)
    PROVE  LET d == [text |-> Read(g, p), ver |-> g[p].ver]
           IN  d = g[p] \/ d.ver = 0
<1>1. g[p] \in Docs
  BY DEF Generations
<1>2. CASE g[p].text = NoDoc
  BY <1>2 DEF Drawn
<1>3. CASE g[p].text # NoDoc
  BY <1>1, <1>3 DEF Read, Docs
<1> QED BY <1>2, <1>3

(* Steps that only move documents that are there. *)
LEMMA VersionKept ==
    ASSUME TypeOK, VersionInv, phase # "closed", ver' = ver,
           \A p \in Paths : \A e \in DocsOf(p)' : e \in DocsOf(p) \/ e.ver = 0,
           Drawn(gen)', phase' \in InCommit => Drawn(staged.gen)'
    PROVE  VersionInv'
<1>1. ASSUME NEW p \in Paths PROVE Agree(DocsOf(p), ver)'
  <2>1. PICK D, E : D = DocsOf(p) /\ E = DocsOf(p)'
    OBVIOUS
  <2>2. Agree(D, ver) /\ (\A e \in D : e.ver \in Nat) /\ ver \in Nat
    BY <2>1, DocsTyped DEF VersionInv, Docs, TypeOK
  <2>3. \A e \in E : e \in D \/ e.ver = 0
    BY <2>1
  <2>4. Redrawn(D, E, ver, ver, 0)
    BY <2>2, <2>3 DEF Redrawn
  <2>5. Agree(E, ver)
    BY <2>4, AgreeOn
  <2> QED BY <2>1, <2>5 DEF Agree
<1> QED BY <1>1 DEF VersionInv

(* Every step of the head, whatever operations there are, keeps versions naming texts. *)
LEMMA VersionStep ==
    ASSUME TypeOK, TypeOK', CommitInv, VersionInv, [Next]_vars
    PROVE  VersionInv'
<1>0. ver \in Nat /\ gen \in Generations /\ staged.gen \in Generations /\ NoDoc \notin Texts /\ NoDoc # Gone
  BY HeadAssumption DEF TypeOK, Plans
<1>1. CASE Stops
  BY <1>1 DEF Stops, VersionInv
<1>2. CASE Open
  <2> DEFINE W == [k \in {0} |-> EmptyGen]
  <2>1. PICK g : g = [p \in Paths |-> IF disk[p] = Gone THEN EmptyGen[p]
                                      ELSE [text |-> disk[p], ver |-> 1]]
    OBVIOUS
  <2>2. /\ gen' = g /\ overlay' = g /\ retained' = Retain(W, 1, g) /\ ver' = 1 /\ phase' = "opening"
        /\ db' = [p \in Paths |-> [text |-> disk[p], ver |-> g[p].ver]]
    BY <1>2, <2>1 DEF Open, OpenWith
  <2>3. ASSUME NEW p \in Paths
        PROVE  /\ disk[p] = Gone => g[p].text = NoDoc /\ g[p].ver = 0 /\ db'[p].ver = 0
               /\ disk[p] # Gone => /\ g[p] = [text |-> disk[p], ver |-> 1]
                                    /\ db'[p] = [text |-> disk[p], ver |-> 1]
               /\ W[0][p].ver = 0 /\ disk[p] # NoDoc
    <3>1. W[0][p].ver = 0 /\ disk[p] # NoDoc
      BY <1>0 DEF EmptyGen, TypeOK
    <3>2. db'[p] = [text |-> disk[p], ver |-> g[p].ver]
      BY <2>2
    <3>3. CASE disk[p] = Gone
      <4>1. g[p] = [text |-> NoDoc, ver |-> 0]
        BY <2>1, <3>3 DEF EmptyGen
      <4> QED BY <3>1, <3>2, <3>3, <4>1
    <3>4. CASE disk[p] # Gone
      <4>1. g[p] = [text |-> disk[p], ver |-> 1]
        BY <2>1, <3>4
      <4> QED BY <3>1, <3>2, <3>4, <4>1
    <3> QED BY <3>3, <3>4
  <2>4. ASSUME NEW p \in Paths PROVE Agree(DocsOf(p), ver)'
    <3>1. PICK E, f : E = DocsOf(p)' /\ f = [text |-> disk[p], ver |-> 1]
      OBVIOUS
    <3>2. \A k \in DOMAIN retained' : retained'[k] = g \/ retained'[k] = W[0]
      BY <2>2, RetainAdds
    <3>3. ASSUME NEW e \in E PROVE e = g[p] \/ e = db'[p] \/ e = W[0][p]
      <4> HIDE DEF W
      <4>0. phase' \notin InCommit /\ e \in DocsOf(p)'
        BY <2>2, <3>1 DEF InCommit
      <4>1. \/ e = gen'[p] \/ e = overlay'[p] \/ e = db'[p]
            \/ \E k \in DOMAIN retained' : e = retained'[k][p]
        BY <4>0, DocsAre
      <4> QED BY <2>2, <3>2, <4>1
    <3>4. \A e \in E : e.ver = 0 \/ (e = f /\ f.ver = 1)
      <4> HIDE DEF W
      <4>1. W[0][p].ver = 0
        BY <2>3
      <4>2. CASE disk[p] = Gone
        <5>1. g[p].ver = 0 /\ db'[p].ver = 0
          BY <2>3, <4>2
        <5> QED BY <3>3, <4>1, <5>1
      <4>3. CASE disk[p] # Gone
        <5>1. g[p] = f /\ db'[p] = f /\ f.ver = 1
          BY <2>3, <3>1, <4>3
        <5> QED BY <3>3, <4>1, <5>1
      <4> QED BY <4>2, <4>3
    <3>5. Redrawn({}, E, 0, 1, f)
      BY <3>4 DEF Redrawn, Agree
    <3>6. Agree(E, 1)
      BY <3>5, AgreeOn
    <3> QED BY <2>2, <3>1, <3>6 DEF Agree
  <2>5. Drawn(g)
    <3> SUFFICES ASSUME NEW p \in Paths PROVE g[p].text = NoDoc <=> g[p].ver = 0
      BY DEF Drawn
    <3> HIDE DEF W
    <3>1. CASE disk[p] = Gone
      BY <2>3, <3>1
    <3>2. CASE disk[p] # Gone
      <4>1. g[p] = [text |-> disk[p], ver |-> 1] /\ disk[p] # NoDoc
        BY <2>3, <3>2
      <4> QED BY <4>1
    <3> QED BY <3>1, <3>2
  <2> QED BY <2>2, <2>4, <2>5 DEF VersionInv, Drawn, InCommit
<1>3. CASE FinishOpen \/ Persist \/ Calm
  <2>1. /\ UNCHANGED <<gen, overlay, db, retained, staged, ver>>
        /\ phase = "closed" => phase' = "closed"
        /\ phase' \in InCommit <=> phase \in InCommit
    BY <1>3 DEF FinishOpen, Persist, Calm, store, InCommit
  <2>2. CASE phase # "closed"
    <3>1. \A p \in Paths : \A e \in DocsOf(p)' : e \in DocsOf(p)
      BY <2>1, DocsAre
    <3> QED BY <2>1, <2>2, <3>1, VersionKept DEF VersionInv, Drawn
  <2> QED BY <2>1, <2>2 DEF VersionInv
<1>4. CASE \E plan : Starts(plan)
  <2>1. PICK plan : Starts(plan)
    BY <1>4
  <2>2. /\ phase = "ready" /\ phase' = "apply" /\ staged' = plan
        /\ UNCHANGED <<gen, overlay, db, retained>> /\ Planned(plan)
    BY <2>1 DEF Starts, Begin
  <2>3. ASSUME NEW p \in Paths PROVE Agree(DocsOf(p), ver)'
    <3>1. PICK D, E, m, f : D = DocsOf(p) /\ E = DocsOf(p)' /\ m = ver' /\ f = plan.gen[p]
      OBVIOUS
    <3>2. Agree(D, ver) /\ (\A e \in D : e.ver \in Nat)
      BY <2>2, <3>1, DocsTyped DEF VersionInv, Docs
    <3>3. m \in {ver, ver + 1}
      BY <2>2, <3>1 DEF Planned
    <3>4. \A e \in E : e \in D \/ e = f
      BY <2>2, <3>1, DocsAre DEF InCommit
    <3>5. f \in D \/ (f.ver = ver + 1 /\ m = ver + 1)
      BY <2>2, <3>1, DocsAre DEF Planned
    <3>6. Redrawn(D, E, ver, m, f)
      BY <1>0, <3>2, <3>3, <3>4, <3>5 DEF Redrawn
    <3>7. Agree(E, m)
      BY <3>6, AgreeOn
    <3> QED BY <3>1, <3>7 DEF Agree
  <2>4. Drawn(gen) /\ Drawn(plan.gen)
    BY <1>0, <2>2 DEF VersionInv, Drawn, Planned
  <2> QED BY <2>2, <2>3, <2>4 DEF VersionInv, Drawn, InCommit
<1>5. CASE ApplyEngine
  <2>1. /\ phase = "apply" /\ phase' = "persist" /\ overlay' = staged.gen /\ ver' = ver
        /\ db' = Refresh(staged.gen, staged.events) /\ UNCHANGED <<gen, retained, staged>>
    BY <1>5 DEF ApplyEngine, store
  <2>2. Drawn(gen) /\ Drawn(staged.gen)
    BY <2>1 DEF VersionInv, InCommit
  <2>3. \A p \in Paths : db'[p] = db[p] \/ db'[p] = staged.gen[p] \/ db'[p].ver = 0
    BY <1>0, <2>1, <2>2, ReadDoc DEF Refresh
  <2>4. \A p \in Paths : \A e \in DocsOf(p)' : e \in DocsOf(p) \/ e.ver = 0
    BY <2>1, <2>3, DocsAre DEF InCommit
  <2> QED BY <2>1, <2>2, <2>4, VersionKept DEF Drawn
<1>6. CASE Rollback
  <2>1. phase = "persist" /\ phase' = "ready" /\ overlay' = gen /\ UNCHANGED <<gen, retained, db, ver>>
    BY <1>6 DEF Rollback, CommitInv, store
  <2>2. \A p \in Paths : \A e \in DocsOf(p)' : e \in DocsOf(p)
    BY <2>1, DocsAre DEF InCommit
  <2> QED BY <2>1, <2>2, VersionKept DEF VersionInv, Drawn, InCommit
<1>7. CASE PublishStaged
  <2>1. /\ phase = "publish" /\ phase' = "ready" /\ gen' = staged.gen /\ UNCHANGED <<overlay, db, ver>>
        /\ retained' = Retain(retained, rev + 1, staged.gen)
    BY <1>7 DEF PublishStaged
  <2>2. \A k \in DOMAIN retained' : \/ retained'[k] = staged.gen
                                    \/ k \in DOMAIN retained /\ retained'[k] = retained[k]
    BY <2>1, RetainAdds
  <2>3. \A p \in Paths : \A e \in DocsOf(p)' : e \in DocsOf(p)
    BY <2>1, <2>2, DocsAre DEF InCommit
  <2> QED BY <2>1, <2>3, VersionKept DEF VersionInv, Drawn, InCommit
<1>8. CASE Reload
  <2>1. /\ phase = "ready" /\ phase' = "ready" /\ overlay' = gen /\ UNCHANGED <<gen, retained, ver>>
        /\ db' = [p \in Paths |-> [text |-> Read(gen, p), ver |-> gen[p].ver]]
    BY <1>8 DEF Reload, store
  <2>2. Drawn(gen)
    BY <2>1 DEF VersionInv
  <2>3. \A p \in Paths : db'[p] = gen[p] \/ db'[p].ver = 0
    BY <1>0, <2>1, <2>2, ReadDoc
  <2>4. \A p \in Paths : \A e \in DocsOf(p)' : e \in DocsOf(p) \/ e.ver = 0
    BY <2>1, <2>3, DocsAre DEF InCommit
  <2> QED BY <2>1, <2>2, <2>4, VersionKept DEF Drawn, InCommit
<1> QED BY <1>1, <1>2, <1>3, <1>4, <1>5, <1>6, <1>7, <1>8, Steps

(* ContentStore.stage: the engine decides by version number alone whether to read a file
   again, and a number never names two texts of a path, those of rolled-back commits
   included. *)
THEOREM VersionsNameTexts == Spec => []VersionNamesText
<1> DEFINE IInv == HeadInv /\ VersionInv
<1>1. Init => IInv
  BY HeadInit DEF Init, VersionInv
<1>2. IInv /\ [Next]_vars => IInv'
  BY HeadStep, VersionStep DEF HeadInv
<1>3. IInv => VersionNamesText
  <2> SUFFICES ASSUME IInv, phase # "closed", NEW p \in Paths,
                      NEW c \in {gen[p], overlay[p], db[p]}
                              \cup {retained[k][p] : k \in DOMAIN retained}
                              \cup (IF phase = "apply" THEN {staged.gen[p]} ELSE {}),
                      NEW d \in {gen[p], overlay[p], db[p]}
                              \cup {retained[k][p] : k \in DOMAIN retained}
                              \cup (IF phase = "apply" THEN {staged.gen[p]} ELSE {})
               PROVE  c.ver = d.ver /\ c.ver # 0 => c.text = d.text
    BY DEF VersionNamesText
  <2>1. c \in DocsOf(p) /\ d \in DocsOf(p)
    BY DocsAre DEF InCommit
  <2> QED BY <2>1 DEF VersionInv, Agree
<1> QED BY <1>1, <1>2, <1>3, PTL DEF Spec
-----------------------------------------------------------------------------
(* Review state. *)

(* The plan of a commit stays what it was. *)
LEMMA PlanStep ==
    ASSUME TypeOK, PlanInv, [Next]_vars
    PROVE  PlanInv'
<1>1. CASE Stops \/ Open \/ FinishOpen \/ Rollback \/ PublishStaged \/ Reload
  <2>1. phase' \notin InCommit
    BY <1>1 DEF Stops, Open, OpenWith, FinishOpen, Rollback, PublishStaged, Reload, InCommit
  <2> QED BY <2>1 DEF PlanInv
<1>2. CASE ApplyEngine \/ Persist \/ Calm
  <2>1. UNCHANGED <<gen, staged>> /\ (phase' \in InCommit => phase \in InCommit)
    BY <1>2 DEF ApplyEngine, Persist, Calm, store, InCommit
  <2> QED BY <2>1 DEF PlanInv
<1>3. CASE \E plan : Starts(plan)
  <2>1. PICK plan : Starts(plan)
    BY <1>3
  <2>2. staged' = plan /\ gen' = gen
    BY <2>1 DEF Starts, Begin
  <2>3. \A p \in Paths : plan.gen[p] = gen[p] \/ p \in plan.events
    BY <2>1 DEF Starts, Planned
  <2>4. /\ plan.reconcile => plan.events \subseteq plan.scope /\ (plan.events = plan.scope \/ "other" \in Ops)
        /\ ~plan.reconcile => plan.events = {}
    BY <2>1 DEF Starts, OfContent, OfRecord
  <2> QED BY <2>2, <2>3, <2>4 DEF PlanInv
<1> QED BY <1>1, <1>2, <1>3, Steps

(* The engine has read what the plan's scope contains. *)
LEMMA EngineReads ==
    ASSUME TypeOK, VersionInv, PlanInv, RegistryInv, ApplyEngine, NEW p \in Paths,
           staged.gen[p].text # NoDoc, p \in staged.events \/ "other" \in Ops
    PROVE  db'[p].text = staged.gen[p].text
<1>1. phase = "apply" /\ db' = Refresh(staged.gen, staged.events)
  BY DEF ApplyEngine
<1>2. staged.gen[p] \in Docs /\ db[p] \in Docs
  BY DEF TypeOK, Plans, Generations
<1>3. CASE p \in staged.events /\ (staged.gen[p].ver # db[p].ver \/ staged.gen[p].text \in {NoDoc, Gone})
  BY <1>1, <1>3 DEF Refresh, Read
<1>4. CASE p \in staged.events /\ ~(staged.gen[p].ver # db[p].ver \/ staged.gen[p].text \in {NoDoc, Gone})
  <2>1. db'[p] = db[p] /\ staged.gen[p].ver = db[p].ver
    BY <1>1, <1>4 DEF Refresh
  <2>2. staged.gen[p] \in DocsOf(p) /\ db[p] \in DocsOf(p)
    BY <1>1, DocsAre DEF InCommit
  <2>3. staged.gen[p].ver # 0 /\ Agree(DocsOf(p), ver)
    BY <1>1 DEF VersionInv, InCommit, Drawn
  <2> QED BY <2>1, <2>2, <2>3 DEF Agree
<1>5. CASE p \notin staged.events
  <2>1. db'[p] = db[p]
    BY <1>1, <1>5 DEF Refresh
  <2>2. staged.gen[p] = gen[p]
    BY <1>1, <1>5 DEF PlanInv, InCommit
  <2>3. Follows(gen, db)
    BY <1>1, <1>5 DEF RegistryInv
  <2> QED BY <2>1, <2>2, <2>3 DEF Follows
<1> QED BY <1>3, <1>4, <1>5

(* What retiring leaves of the other anchors. *)
LEMMA RetiredAnchors ==
    ASSUME NEW e \in Entries, NEW gone, NEW k \in Numbers
    PROVE  /\ k \in gone => /\ Retired(e, gone).anchors[k].status = "orphaned"
                            /\ Retired(e, gone).anchors[k].hash = e.anchors[k].hash
           /\ k \notin gone => Retired(e, gone).anchors[k] = e.anchors[k]
BY DEF Retired

(* Reconciling a path makes its anchors say what the engine has read there, and what it
   knows has a hash. *)
LEMMA BindSays ==
    ASSUME NEW e \in Entries, NEW text, UnusedIds(e.anchors) # {}
    PROVE  /\ Says(Bind(e, text).anchors, text)
           /\ Bodied(e.anchors) => Bodied(Bind(e, text).anchors)
<1>0. Gone \notin Texts
  BY HeadAssumption
<1>1. CASE text \in Texts
  <2>1. PICK id \in Numbers : id = Match(e, text)
    BY MatchType
  <2>2. PICK b, gone : b = Rebound(e, id, text) /\ gone = LiveIds(e.anchors) \ {id}
    OBVIOUS
  <2>3. b \in Entries
    BY <1>1, <2>2, ReboundType
  <2>4. Bind(e, text) = Retired(b, gone)
    BY <1>1, <2>1, <2>2, Zenon DEF Bind
  <2>5. /\ b.anchors[id].hash = text /\ b.anchors[id].status \in Live
        /\ \A k \in Numbers \ {id} : b.anchors[k] = e.anchors[k]
    BY <2>2 DEF Rebound, Entries, AnchorLists, Live
  <2>6. PICK c : c = Bind(e, text).anchors
    OBVIOUS
  <2>7. c[id] = b.anchors[id]
    BY <2>2, <2>3, <2>4, <2>6, RetiredAnchors
  <2>8. \A k \in Numbers \ {id} :
           /\ k \in LiveIds(e.anchors) => c[k].status = "orphaned" /\ c[k].hash = e.anchors[k].hash
           /\ k \notin LiveIds(e.anchors) => c[k] = e.anchors[k]
    <3> SUFFICES ASSUME NEW k \in Numbers \ {id}
                 PROVE  /\ k \in LiveIds(e.anchors) => c[k].status = "orphaned" /\ c[k].hash = e.anchors[k].hash
                        /\ k \notin LiveIds(e.anchors) => c[k] = e.anchors[k]
      OBVIOUS
    <3>1. /\ k \in gone => c[k].status = "orphaned" /\ c[k].hash = b.anchors[k].hash
          /\ k \notin gone => c[k] = b.anchors[k]
      BY <2>3, <2>4, <2>6, RetiredAnchors
    <3> QED BY <2>2, <2>5, <3>1
  <2>9. LiveIds(c) = {id}
    BY <2>5, <2>7, <2>8 DEF LiveIds, Live
  <2>10. Bodied(e.anchors) => Bodied(c)
    BY <1>1, <2>5, <2>7, <2>8 DEF Bodied, KnownIds, LiveIds, Known
  <2> QED BY <1>0, <1>1, <2>5, <2>6, <2>7, <2>9, <2>10 DEF Says
<1>2. CASE text \notin Texts
  <2>1. Bind(e, text) = Retired(e, LiveIds(e.anchors))
    BY <1>2, Zenon DEF Bind
  <2>2. PICK c : c = Bind(e, text).anchors
    OBVIOUS
  <2>3. \A k \in Numbers :
           /\ k \in LiveIds(e.anchors) => c[k].status = "orphaned" /\ c[k].hash = e.anchors[k].hash
           /\ k \notin LiveIds(e.anchors) => c[k] = e.anchors[k]
    BY <2>1, <2>2, RetiredAnchors
  <2>4. LiveIds(c) = {}
    BY <2>3 DEF LiveIds, Live
  <2>5. Bodied(e.anchors) => Bodied(c)
    BY <2>3 DEF Bodied, KnownIds, LiveIds, Known
  <2> QED BY <1>2, <2>2, <2>4, <2>5 DEF Says
<1> QED BY <1>1, <1>2

(* Every step keeps the registry saying what the head contains, unless a failed commit can
   leave the engine ahead of it and a full reconciliation believes the engine. *)
LEMMA RegistryStep ==
    ASSUME "fault" \notin Ops \/ "other" \notin Ops,
           TypeOK, TypeOK', CommitInv, VersionInv, PlanInv, RegistryInv, [Next]_vars
    PROVE  RegistryInv'
<1>0. NoDoc \notin Texts /\ Gone \notin Texts /\ NoDoc # Gone
  BY HeadAssumption
<1>1. CASE Stops
  BY <1>1 DEF Stops, RegistryInv
<1>2. CASE Open
  <2>1. PICK g, read : /\ g = [p \in Paths |-> IF disk[p] = Gone THEN EmptyGen[p]
                                               ELSE [text |-> disk[p], ver |-> 1]]
                       /\ read = [p \in Paths |-> [text |-> disk[p], ver |-> g[p].ver]]
    OBVIOUS
  <2>15. PICK loaded \in Registries : CanMint(Saved(loaded)) /\ OpenWith(loaded)
    BY <1>2, OpensWith
  <2>2. gen' = g /\ db' = read /\ reg' = Reconcile(loaded, read, Paths) /\ phase' = "opening"
    BY <2>1, <2>15 DEF OpenWith
  <2>3. \A p \in Paths : /\ read[p].text = disk[p] /\ disk[p] \in Texts \cup {Gone}
                         /\ g[p].text = IF disk[p] = Gone THEN NoDoc ELSE disk[p]
    BY <2>1 DEF EmptyGen, TypeOK
  <2>4. ASSUME NEW p \in Paths PROVE Says(reg'[p].anchors, g[p].text)
    <3>1. reg'[p] = Bind(loaded[p], disk[p])
      BY <2>2, <2>3 DEF Reconcile
    <3>2. g[p].text # Gone /\ (g[p].text \in Texts => disk[p] = g[p].text)
      BY <1>0, <2>3
    <3>3. loaded[p] \in Entries /\ UnusedIds(loaded[p].anchors) # {}
      BY <2>15 DEF Registries, CanMint, Saved
    <3>4. Says(Bind(loaded[p], disk[p]).anchors, disk[p])
      BY <3>3, BindSays
    <3> QED BY <3>1, <3>2, <3>4 DEF Says
  <2>45. Anchored(gen, Saved(reg))'
    BY <2>2, <2>4 DEF Anchored, Saved
  <2>5. Follows(gen', db')
    BY <2>2, <2>3 DEF Follows
  <2> QED BY <2>2, <2>45, <2>5 DEF RegistryInv, Follows
<1>3. CASE FinishOpen \/ Calm \/ \E plan : Starts(plan)
  <2>1. /\ UNCHANGED <<gen, db, reg>>
        /\ \/ phase \in {"opening", "ready"} /\ phase' \in {"ready", "apply"}
           \/ UNCHANGED <<phase, staged, idDisk>>
    BY <1>3 DEF FinishOpen, Calm, Starts, Begin, store
  <2>2. CASE phase \in {"opening", "ready"} /\ phase' \in {"ready", "apply"}
    BY <2>1, <2>2 DEF RegistryInv, Anchored, Saved, Follows
  <2>3. CASE UNCHANGED <<phase, staged, idDisk>>
    BY <2>1, <2>3 DEF RegistryInv, Anchored, Saved, Follows
  <2> QED BY <2>1, <2>2, <2>3
<1>4. CASE ApplyEngine
  <2>1. /\ phase = "apply" /\ phase' = "persist" /\ UNCHANGED <<gen, staged, idDisk>>
        /\ reg' = IF staged.reconcile THEN Reconcile(reg, db', staged.scope) ELSE reg
    BY <1>4 DEF ApplyEngine, store, sidecar
  <2>2. Anchored(gen, Saved(reg)) /\ Saved(reg) = idDisk /\ reg \in Registries /\ CanMint(Saved(reg))
    BY <1>4, <2>1 DEF RegistryInv, CommitInv, TypeOK, ApplyEngine
  <2>3. \A p \in Paths : staged.gen[p].text # NoDoc /\ (p \in staged.events \/ "other" \in Ops)
                           => db'[p].text = staged.gen[p].text
    BY <1>4, EngineReads
  <2>4. /\ \A p \in Paths : staged.gen[p] = gen[p] \/ p \in staged.events
        /\ staged.reconcile => staged.events \subseteq staged.scope
                               /\ (staged.events = staged.scope \/ "other" \in Ops)
        /\ ~staged.reconcile => staged.events = {}
    BY <2>1 DEF PlanInv, InCommit
  <2>5. ASSUME NEW p \in Paths PROVE Says(reg'[p].anchors, staged.gen[p].text)
    <3>1. reg[p] \in Entries /\ UnusedIds(reg[p].anchors) # {}
      BY <2>2 DEF Registries, CanMint, Saved
    <3>2. CASE staged.reconcile /\ p \in staged.scope
      <4>1. reg'[p] = Bind(reg[p], db'[p].text)
        BY <2>1, <3>2 DEF Reconcile
      <4>2. staged.gen[p].text # NoDoc => db'[p].text = staged.gen[p].text
        BY <2>3, <2>4, <3>2
      <4>3. Says(Bind(reg[p], db'[p].text).anchors, db'[p].text)
        BY <3>1, BindSays
      <4> QED BY <1>0, <4>1, <4>2, <4>3 DEF Says
    <3>3. CASE ~(staged.reconcile /\ p \in staged.scope)
      <4>1. reg'[p] = reg[p]
        BY <2>1, <3>3 DEF Reconcile
      <4>2. staged.gen[p] = gen[p]
        BY <2>4, <3>3
      <4>3. Says(reg[p].anchors, gen[p].text)
        BY <2>2 DEF Anchored, Saved
      <4> QED BY <4>1, <4>2, <4>3
    <3> QED BY <3>2, <3>3
  <2>55. Anchored(staged.gen, Saved(reg))'
    BY <2>1, <2>5 DEF Anchored, Saved
  <2>6. "other" \in Ops => Follows(staged.gen, db')
    BY <2>3 DEF Follows
  <2>7. Anchored(gen, idDisk)'
    BY <2>1, <2>2 DEF Anchored
  <2> QED BY <2>1, <2>55, <2>6, <2>7 DEF RegistryInv, Follows
<1>5. CASE Persist
  <2>1. phase = "persist" /\ phase' = "publish" /\ UNCHANGED <<gen, staged, reg, db>>
    BY <1>5 DEF Persist, store
  <2> QED BY <2>1 DEF RegistryInv, Anchored, Saved, Follows
<1>6. CASE Rollback
  <2>1. phase = "persist" /\ phase' = "ready" /\ gen' = gen /\ Saved(reg)' = idDisk /\ "other" \notin Ops
    BY <1>6 DEF Rollback, RestoredRegistry, CommitInv, store, Saved
  <2> QED BY <2>1 DEF RegistryInv, Anchored
<1>7. CASE PublishStaged
  <2>1. phase = "publish" /\ phase' = "ready" /\ gen' = staged.gen /\ UNCHANGED <<reg, db>>
    BY <1>7 DEF PublishStaged
  <2> QED BY <2>1 DEF RegistryInv, Anchored, Saved, Follows
<1>8. CASE Reload
  <2>1. /\ phase = "ready" /\ phase' = "ready" /\ UNCHANGED <<gen, reg>>
        /\ db' = [p \in Paths |-> [text |-> Read(gen, p), ver |-> gen[p].ver]]
    BY <1>8 DEF Reload, store
  <2>2. Follows(gen, db')
    BY <2>1 DEF Follows, Read
  <2> QED BY <2>1, <2>2 DEF RegistryInv, Anchored, Saved, Follows
<1> QED BY <1>1, <1>2, <1>3, <1>4, <1>5, <1>6, <1>7, <1>8, Steps

(* What reconciling knows has a hash. *)
LEMMA ReconcileKnows ==
    ASSUME NEW r \in Registries, NEW view, NEW scope, Hashed(Saved(r)), CanMint(Saved(r))
    PROVE  Hashed(Saved(Reconcile(r, view, scope)))
<1>1. \A p \in Paths : r[p] \in Entries /\ UnusedIds(r[p].anchors) # {} /\ Bodied(r[p].anchors)
  BY DEF Registries, CanMint, Hashed, Saved
<1>2. \A p \in Paths : \/ Reconcile(r, view, scope)[p] = r[p]
                       \/ Reconcile(r, view, scope)[p] = Bind(r[p], view[p].text)
  BY DEF Reconcile
<1>3. \A p \in Paths : Bodied(Reconcile(r, view, scope)[p].anchors)
  BY <1>1, <1>2, BindSays
<1> QED BY <1>3 DEF Hashed, Saved

(* What a load knows has a hash. *)
LEMMA LoadKnows ==
    ASSUME Hashed(idDisk), NEW loaded \in {Loaded(idDisk), StartedFresh(idDisk)}
    PROVE  Hashed(Saved(loaded))
<1>1. ASSUME NEW p \in Paths PROVE Bodied(Loaded(idDisk)[p].anchors)
  BY DEF Loaded, Hashed
<1>2. ASSUME NEW p \in Paths PROVE Bodied(StartedFresh(idDisk)[p].anchors)
  BY DEF StartedFresh, Bodied, KnownIds, Known, Live
<1> QED BY <1>1, <1>2 DEF Hashed, Saved

(* A version authored against a text. *)
LEMMA PutKnows ==
    ASSUME NEW f \in Records, NEW i \in Ids, NEW note \in Versions, Reviewed(f),
           note.reviewed \in Texts
    PROVE  Reviewed([f EXCEPT ![i] = Put(@, note)])
<1>1. f[i] \in Seq(Versions)
  BY DEF Records
<1>2. PICK s : s = Put(f[i], note)
  OBVIOUS
<1>3. \A j \in DOMAIN s : s[j] = note \/ (j \in DOMAIN f[i] /\ s[j] = f[i][j])
  BY <1>1, <1>2 DEF Put
<1>4. \A q \in Ids : [f EXCEPT ![i] = Put(@, note)][q] = IF q = i THEN s ELSE f[q]
  BY <1>2 DEF Records
<1> QED BY <1>3, <1>4 DEF Reviewed

(* Every step keeps the anchors hashed and the records reviewed. *)
LEMMA KnownStep ==
    ASSUME TypeOK, CommitInv, KnownInv, [Next]_vars
    PROVE  KnownInv'
<1>0. Reviewed(NoRecords)
  BY DEF Reviewed, NoRecords
<1>1. CASE Stops
  <2>1. phase' = "closed" /\ recDisk' = recDisk
    BY <1>1 DEF Stops
  <2>2. Hashed(idDisk')
    BY <1>1 DEF Stops, KnownInv
  <2> QED BY <2>1, <2>2 DEF KnownInv, InCommit, Hashed, Reviewed
<1>2. CASE Open
  <2>1. PICK loaded \in {Loaded(idDisk), StartedFresh(idDisk)} :
           loaded \in Registries /\ CanMint(Saved(loaded)) /\ OpenWith(loaded)
    BY <1>2, OpensWith
  <2>2. phase' = "opening" /\ authored' = NoRecords /\ UNCHANGED <<idDisk, recDisk>>
    BY <2>1 DEF OpenWith, sidecar
  <2>3. PICK read : reg' = Reconcile(loaded, read, Paths)
    BY <2>1 DEF OpenWith
  <2>4. Hashed(Saved(loaded))
    BY <2>1, LoadKnows DEF KnownInv
  <2>5. Hashed(Saved(reg'))
    BY <2>1, <2>3, <2>4, ReconcileKnows
  <2> QED BY <1>0, <2>2, <2>5 DEF KnownInv, InCommit, Hashed, Saved, Reviewed
<1>3. CASE FinishOpen
  <2>1. /\ phase = "opening" /\ phase' = "ready" /\ authored' = recDisk /\ idDisk' = Saved(reg)
        /\ UNCHANGED <<recDisk, reg>>
    BY <1>3 DEF FinishOpen
  <2>2. Hashed(Saved(reg)) /\ Reviewed(recDisk)
    BY <2>1 DEF KnownInv
  <2> QED BY <2>1, <2>2 DEF KnownInv, InCommit, Hashed, Saved, Reviewed
<1>4. CASE Calm
  BY <1>4 DEF Calm, KnownInv, Hashed, Saved, Reviewed
<1>5. CASE \E plan : Starts(plan)
  <2>1. PICK plan : Starts(plan)
    BY <1>5
  <2>2. phase = "ready" /\ staged' = plan /\ UNCHANGED <<recDisk, idDisk, authored, reg>>
    BY <2>1 DEF Starts, Begin, sidecar
  <2>3. Reviewed(authored) /\ Hashed(Saved(reg)) /\ authored \in Records
    BY <2>2 DEF KnownInv, TypeOK
  <2>4. Reviewed(plan.notes)
    <3>1. CASE OfContent(plan)
      BY <2>3, <3>1 DEF OfContent
    <3>2. CASE OfRecord(plan)
      <4>1. PICK i \in Ids, note \in Versions :
               /\ AnchorOf(reg, i).status \in Known /\ note.reviewed = AnchorOf(reg, i).hash
               /\ plan.notes = [authored EXCEPT ![i] = Put(@, note)]
        BY <3>2 DEF OfRecord
      <4>2. note.reviewed \in Texts
        <5>1. i[1] \in Paths /\ i[2] \in Numbers
          BY DEF Ids
        <5>2. i[2] \in KnownIds(reg[i[1]].anchors)
          BY <4>1, <5>1 DEF KnownIds, AnchorOf
        <5> QED BY <2>3, <4>1, <5>1, <5>2 DEF Hashed, Bodied, Saved, AnchorOf
      <4> QED BY <2>3, <4>1, <4>2, PutKnows
    <3> QED BY <2>1, <3>1, <3>2 DEF Starts
  <2> QED BY <2>2, <2>4 DEF KnownInv, Hashed, Saved, Reviewed
<1>6. CASE ApplyEngine
  <2>1. /\ phase = "apply" /\ phase' = "persist" /\ UNCHANGED <<recDisk, idDisk, authored, staged>>
        /\ reg' = reg \/ \E view, scope : reg' = Reconcile(reg, view, scope)
        /\ CanMint(Saved(reg))
    BY <1>6 DEF ApplyEngine, sidecar
  <2>2. Hashed(Saved(reg)) /\ Reviewed(staged.notes) /\ Reviewed(authored) /\ reg \in Registries
    BY <2>1 DEF KnownInv, InCommit, TypeOK
  <2>3. Hashed(Saved(reg'))
    BY <2>1, <2>2, ReconcileKnows
  <2> QED BY <2>1, <2>2, <2>3 DEF KnownInv, InCommit, Hashed, Saved, Reviewed
<1>7. CASE Persist
  <2>1. /\ phase = "persist" /\ phase' = "publish" /\ UNCHANGED <<reg, authored, staged>>
        /\ idDisk' = Saved(reg)
    BY <1>7 DEF Persist, CommitInv
  <2>2. \A i \in Ids : recDisk'[i] = staged.notes[i] \/ recDisk'[i] = recDisk[i]
    BY <1>7 DEF Persist, WrittenRecords
  <2>3. Reviewed(recDisk')
    BY <2>1, <2>2 DEF KnownInv, InCommit, Reviewed
  <2> QED BY <2>1, <2>3 DEF KnownInv, InCommit, Hashed, Saved, Reviewed
<1>8. CASE Rollback
  <2>1. /\ phase = "persist" /\ phase' = "ready" /\ Saved(reg)' = idDisk
        /\ UNCHANGED <<recDisk, idDisk, authored>>
    BY <1>8 DEF Rollback, RestoredRegistry, CommitInv, sidecar, Saved
  <2> QED BY <2>1 DEF KnownInv, InCommit, Hashed, Reviewed
<1>9. CASE PublishStaged
  <2>1. /\ phase = "publish" /\ phase' = "ready" /\ authored' = staged.notes
        /\ UNCHANGED <<recDisk, idDisk, reg>>
    BY <1>9 DEF PublishStaged, sidecar
  <2> QED BY <2>1 DEF KnownInv, InCommit, Hashed, Saved, Reviewed
<1>10. CASE Reload
  <2>1. phase' = "ready" /\ phase = "ready" /\ authored' = NoRecords /\ UNCHANGED <<recDisk, idDisk, reg>>
    BY <1>10 DEF Reload, sidecar
  <2> QED BY <1>0, <2>1 DEF KnownInv, InCommit, Hashed, Saved, Reviewed
<1> QED BY <1>1, <1>2, <1>3, <1>4, <1>5, <1>6, <1>7, <1>8, <1>9, <1>10, Steps

(* The inductive invariant of the review state. *)
ReviewInv == HeadInv /\ VersionInv /\ PlanInv /\ RegistryInv /\ KnownInv

(* It implies that review state is a level. *)
LEMMA ReviewIsLevel == ReviewInv => ReviewFollowsContent
<1> SUFFICES ASSUME ReviewInv, phase = "ready", NEW p \in Paths, gen[p].text # NoDoc
             PROVE  /\ IF gen[p].text = Gone THEN LiveIds(reg[p].anchors) = {}
                       ELSE \E k \in Numbers : LiveIds(reg[p].anchors) = {k}
                    /\ ReviewOnChange => \A k \in KnownIds(reg[p].anchors) :
                          authored[<<p, k>>] # <<>> =>
                            ReviewStatus(<<p, k>>) =
                                IF k \notin LiveIds(reg[p].anchors) THEN "orphaned"
                                ELSE IF authored[<<p, k>>][Len(authored[<<p, k>>])].reviewed = gen[p].text
                                     THEN "present" ELSE "needs_review"
  BY DEF ReviewFollowsContent
<1>0. PICK anchors : anchors = reg[p].anchors
  OBVIOUS
<1>1. gen[p] \in Docs /\ anchors \in AnchorLists
  BY <1>0 DEF ReviewInv, HeadInv, TypeOK, Generations, Registries, Entries
<1>2. gen[p].text \in Texts \cup {Gone} /\ Gone \notin Texts /\ NoDoc \notin Texts
  BY <1>1, HeadAssumption DEF Docs
<1>3. Says(anchors, gen[p].text)
  BY <1>0 DEF ReviewInv, RegistryInv, Anchored, Saved
<1>4. IF gen[p].text = Gone THEN LiveIds(anchors) = {} ELSE \E k \in Numbers : LiveIds(anchors) = {k}
  BY <1>2, <1>3 DEF Says
<1>5. ASSUME ReviewOnChange, NEW k \in KnownIds(anchors), authored[<<p, k>>] # <<>>
      PROVE  ReviewStatus(<<p, k>>) =
                 IF k \notin LiveIds(anchors) THEN "orphaned"
                 ELSE IF authored[<<p, k>>][Len(authored[<<p, k>>])].reviewed = gen[p].text
                      THEN "present" ELSE "needs_review"
  <2>1. PICK i : i = <<p, k>>
    OBVIOUS
  <2>2. k \in Numbers /\ i \in Ids /\ AnchorOf(reg, i) = anchors[k] /\ anchors[k].status \in Known
    BY <1>0, <2>1 DEF KnownIds, Ids, AnchorOf
  <2>3. PICK note : note = authored[i][Len(authored[i])]
    OBVIOUS
  <2>4. note.reviewed \in Texts
    <3>1. authored[i] \in Seq(Versions)
      BY <2>2 DEF ReviewInv, HeadInv, TypeOK, Records
    <3>2. Len(authored[i]) \in DOMAIN authored[i]
      BY <1>5, <2>1, <3>1
    <3> QED BY <2>2, <2>3, <3>2 DEF ReviewInv, KnownInv, Reviewed
  <2>5. CASE k \notin LiveIds(anchors)
    <3>1. AnchorOf(reg, i).status = "orphaned" /\ AnchorOf(reg, i).status \notin Live
      BY <2>2, <2>5 DEF LiveIds, Known
    <3>2. ReviewStatus(i) = "orphaned"
      BY <1>5, <3>1, Zenon DEF ReviewStatus
    <3> QED BY <2>1, <2>5, <3>2
  <2>6. CASE k \in LiveIds(anchors)
    <3>1. anchors[k].hash = gen[p].text
      BY <1>2, <1>3, <2>6 DEF Says
    <3>2. /\ AnchorOf(reg, i).status # "orphaned" /\ AnchorOf(reg, i).status \in Live
          /\ AnchorOf(reg, i).hash = gen[p].text /\ note.reviewed # NoDoc
      BY <1>2, <2>2, <2>4, <2>6, <3>1 DEF LiveIds, Live
    <3>3. CASE note.reviewed = gen[p].text
      <4>1. ReviewStatus(i) = "present"
        BY <1>5, <2>3, <3>2, <3>3, Zenon DEF ReviewStatus
      <4> QED BY <2>1, <2>3, <2>6, <3>3, <4>1
    <3>4. CASE note.reviewed # gen[p].text
      <4>1. ReviewStatus(i) = "needs_review"
        BY <1>5, <2>3, <3>2, <3>4, Zenon DEF ReviewStatus
      <4> QED BY <2>1, <2>3, <2>6, <3>4, <4>1
    <3> QED BY <3>3, <3>4
  <2> QED BY <2>5, <2>6
<1> QED BY <1>0, <1>4, <1>5

(* Initially nothing is known and nothing recorded. *)
LEMMA ReviewInit == Init => ReviewInv
<1> SUFFICES ASSUME Init PROVE ReviewInv
  OBVIOUS
<1>1. phase = "closed" /\ idDisk = Saved(EmptyRegistry) /\ recDisk = NoRecords
  BY DEF Init
<1>2. Hashed(Saved(EmptyRegistry))
  BY DEF Hashed, Bodied, KnownIds, Known, Live, Saved, EmptyRegistry
<1>3. Reviewed(NoRecords)
  BY DEF Reviewed, NoRecords
<1> QED BY <1>1, <1>2, <1>3, HeadInit DEF ReviewInv, VersionInv, PlanInv, RegistryInv, KnownInv, InCommit

(* derive_authored_status: whatever is edited, synced, polled, rolled back, reloaded or
   restarted, with or without identity.db, a file that is there has one id in force and one
   that is gone has none; a note on the id in force needs review exactly when the head's
   text differs from the one it was authored against, and a note on any other id that is
   known is orphaned.  Provided that commits do not fail, or that none reconciles everything
   from the engine, which a failed commit leaves ahead of the store. *)
THEOREM ReviewIsOfContent ==
    ASSUME "fault" \notin Ops \/ "other" \notin Ops
    PROVE  Spec => []ReviewFollowsContent
<1>1. ReviewInv /\ [Next]_vars => ReviewInv'
  BY HeadStep, VersionStep, PlanStep, RegistryStep, KnownStep DEF ReviewInv, HeadInv
<1> QED BY <1>1, ReviewInit, ReviewIsLevel, PTL DEF Spec
-----------------------------------------------------------------------------
(* Ids in force. *)

(* In the first session by_path names the id in force of a path, if there is one. *)
Seated(e) == LiveIds(e.anchors) = IF e.at = 0 THEN {} ELSE {e.at}
Sits(r) == \A p \in Paths : Seated(r[p])

(* Two registries with one id in force wherever both have one. *)
SameId(e, d) == LiveIds(e.anchors) # {} /\ LiveIds(d.anchors) # {} => LiveIds(e.anchors) = LiveIds(d.anchors)
Steady(r, s) == \A p \in Paths : SameId(r[p], s[p])

(* The last commit of a history kept the ids in force. *)
KeptIds(h, n) ==
    n > 1 => /\ Steady(h[n - 1].reg, h[n].reg)
             /\ Anchored(h[n - 1].gen, Saved(h[n - 1].reg))

(* The first session on a sidecar. *)
StayInv ==
    /\ starts = 0 => phase = "closed" /\ idDisk = Saved(EmptyRegistry)
    /\ starts = 1 /\ phase # "closed" =>
          /\ Sits(reg) /\ KeptIds(hist, rev)
          /\ phase \in InCommit =>
                Sits(base.reg) /\ Steady(base.reg, reg) /\ Anchored(gen, Saved(base.reg))

(* Reconciling a path keeps its id in force, and by_path naming it. *)
LEMMA BindStays ==
    ASSUME NEW e \in Entries, NEW text, UnusedIds(e.anchors) # {}, Seated(e)
    PROVE  Seated(Bind(e, text)) /\ SameId(e, Bind(e, text))
<1>0. 0 \notin Numbers
  BY HeadAssumption DEF Numbers
<1>1. CASE text \in Texts
  <2>1. PICK id \in Numbers : id = Match(e, text)
    BY MatchType
  <2>2. PICK b, gone : b = Rebound(e, id, text) /\ gone = LiveIds(e.anchors) \ {id}
    OBVIOUS
  <2>3. b \in Entries
    BY <1>1, <2>2, ReboundType
  <2>4. Bind(e, text) = Retired(b, gone)
    BY <1>1, <2>1, <2>2, Zenon DEF Bind
  <2>5. e.at # 0 => id = e.at
    BY <2>1, Zenon DEF Match
  <2>6. gone = {}
    BY <2>2, <2>5 DEF Seated
  <2>7. /\ b.at = id /\ b.anchors[id].status \in Live
        /\ \A k \in Numbers \ {id} : b.anchors[k] = e.anchors[k]
    BY <2>2 DEF Rebound, Entries, AnchorLists, Live
  <2>8. Bind(e, text).at = id
    BY <2>4, <2>6, <2>7 DEF Retired
  <2>9. \A k \in Numbers : Bind(e, text).anchors[k] = b.anchors[k]
    BY <2>3, <2>4, <2>6, RetiredAnchors
  <2>10. LiveIds(e.anchors) \subseteq {id}
    BY <2>2, <2>6
  <2>11. LiveIds(Bind(e, text).anchors) = {id}
    BY <2>7, <2>9, <2>10 DEF LiveIds
  <2> QED BY <1>0, <2>8, <2>10, <2>11 DEF Seated, SameId
<1>2. CASE text \notin Texts
  <2>1. Bind(e, text) = Retired(e, LiveIds(e.anchors))
    BY <1>2, Zenon DEF Bind
  <2>2. Bind(e, text).at = IF LiveIds(e.anchors) = {} THEN e.at ELSE 0
    BY <2>1 DEF Retired
  <2>3. Bind(e, text).at = 0
    BY <2>2 DEF Seated
  <2>4. \A k \in Numbers : Bind(e, text).anchors[k].status \notin Live
    <3> SUFFICES ASSUME NEW k \in Numbers PROVE Bind(e, text).anchors[k].status \notin Live
      OBVIOUS
    <3>1. CASE k \in LiveIds(e.anchors)
      BY <2>1, <3>1, RetiredAnchors DEF Live
    <3>2. CASE k \notin LiveIds(e.anchors)
      BY <2>1, <3>2, RetiredAnchors DEF LiveIds
    <3> QED BY <3>1, <3>2
  <2>5. LiveIds(Bind(e, text).anchors) = {}
    BY <2>4 DEF LiveIds
  <2> QED BY <2>3, <2>5 DEF Seated, SameId
<1> QED BY <1>1, <1>2

(* So does reconciling a registry. *)
LEMMA ReconcileStays ==
    ASSUME NEW r \in Registries, NEW view, NEW scope, CanMint(Saved(r)), Sits(r)
    PROVE  Sits(Reconcile(r, view, scope)) /\ Steady(r, Reconcile(r, view, scope))
<1>1. \A p \in Paths : r[p] \in Entries /\ UnusedIds(r[p].anchors) # {} /\ Seated(r[p])
  BY DEF Registries, CanMint, Sits, Saved
<1>2. \A p \in Paths : \/ Reconcile(r, view, scope)[p] = r[p]
                       \/ Reconcile(r, view, scope)[p] = Bind(r[p], view[p].text)
  BY DEF Reconcile
<1>3. \A p \in Paths : Seated(Reconcile(r, view, scope)[p]) /\ SameId(r[p], Reconcile(r, view, scope)[p])
  <2> SUFFICES ASSUME NEW p \in Paths
               PROVE  Seated(Reconcile(r, view, scope)[p]) /\ SameId(r[p], Reconcile(r, view, scope)[p])
    OBVIOUS
  <2>1. SameId(r[p], r[p])
    BY DEF SameId
  <2>2. Seated(Bind(r[p], view[p].text)) /\ SameId(r[p], Bind(r[p], view[p].text))
    BY <1>1, BindStays
  <2> QED BY <1>1, <1>2, <2>1, <2>2
<1> QED BY <1>3 DEF Sits, Steady

(* A load of a sidecar that was never used. *)
LEMMA FirstLoad ==
    ASSUME NEW loaded \in {Loaded(Saved(EmptyRegistry)), StartedFresh(Saved(EmptyRegistry))}
    PROVE  Sits(loaded)
<1> SUFFICES ASSUME NEW p \in Paths PROVE Seated(loaded[p])
  BY DEF Sits
<1>1. PICK a : a = Saved(EmptyRegistry)
  OBVIOUS
<1>2. \A k \in Numbers : a[p][k].status = "unused"
  BY <1>1 DEF Saved, EmptyRegistry
<1>3. KnownIds(a[p]) = {} /\ LiveIds(a[p]) = {}
  BY <1>2 DEF KnownIds, LiveIds, Known, Live
<1>4. Max(KnownIds(a[p]) \cup {0}) = 0
  <2>1. {} \in SUBSET Numbers
    OBVIOUS
  <2>2. Max({} \cup {0}) \in {} \cup {0}
    BY <2>1, LargestId
  <2> QED BY <1>3, <2>2
<1>5. CASE loaded = Loaded(a)
  <2>1. loaded[p].anchors = a[p] /\ loaded[p].at = Max(KnownIds(a[p]) \cup {0})
    BY <1>5 DEF Loaded
  <2> QED BY <1>3, <1>4, <2>1 DEF Seated
<1>6. CASE loaded = StartedFresh(a)
  <2>1. loaded[p].at = 0 /\ \A k \in Numbers : loaded[p].anchors[k].status \in {"unused", "lost"}
    BY <1>6 DEF StartedFresh
  <2>2. LiveIds(loaded[p].anchors) = {}
    BY <2>1 DEF LiveIds, Live
  <2> QED BY <2>1, <2>2 DEF Seated
<1> QED BY <1>1, <1>5, <1>6

(* Every step of the first session keeps ids in force. *)
LEMMA StayStep ==
    ASSUME TypeOK, CommitInv, RegistryInv, StayInv, [Next]_vars
    PROVE  StayInv'
<1>0. rev \in Nat /\ starts \in Nat
  BY DEF TypeOK
<1>1. CASE Stops
  BY <1>1 DEF Stops, StayInv
<1>2. CASE Open
  <2>1. PICK loaded \in {Loaded(idDisk), StartedFresh(idDisk)} :
           loaded \in Registries /\ CanMint(Saved(loaded)) /\ OpenWith(loaded)
    BY <1>2, OpensWith
  <2>2. phase' = "opening" /\ rev' = 1 /\ starts' = starts + 1
    BY <2>1 DEF OpenWith
  <2>3. PICK read : reg' = Reconcile(loaded, read, Paths)
    BY <2>1 DEF OpenWith
  <2>4. CASE starts = 0
    <3>1. Sits(loaded)
      BY <2>1, <2>4, FirstLoad DEF StayInv
    <3>2. Sits(reg')
      BY <2>1, <2>3, <3>1, ReconcileStays
    <3> QED BY <2>2, <2>4, <3>2 DEF StayInv, InCommit, KeptIds, Sits
  <2>5. CASE starts # 0
    BY <1>0, <2>2, <2>5 DEF StayInv
  <2> QED BY <2>4, <2>5
<1>3. CASE FinishOpen \/ Reload
  <2>1. /\ phase' = "ready" /\ phase # "closed" /\ UNCHANGED <<reg, rev, hist, starts>>
    BY <1>3 DEF FinishOpen, Reload, store, ghosts, counters
  <2> QED BY <2>1 DEF StayInv, InCommit, Sits, KeptIds
<1>4. CASE Calm \/ Persist
  <2>1. /\ UNCHANGED <<reg, base, gen, rev, hist, starts>>
        /\ (phase' # "closed" => phase # "closed") /\ (phase' \in InCommit => phase \in InCommit)
        /\ phase = "closed" => phase' = "closed" /\ idDisk' = idDisk
    BY <1>4 DEF Calm, Persist, store, ghosts, counters, InCommit
  <2> QED BY <2>1 DEF StayInv
<1>5. CASE \E plan : Starts(plan)
  <2>1. /\ phase = "ready" /\ phase' = "apply" /\ base' = Baseline(gen, reg)
        /\ UNCHANGED <<reg, gen, rev, hist, starts>>
    BY <1>5 DEF Starts, Begin, ghosts, counters
  <2>2. base'.reg = reg /\ base'.gen = gen
    BY <2>1 DEF Baseline
  <2>3. Anchored(gen, Saved(reg)) /\ Steady(reg, reg)
    BY <2>1 DEF RegistryInv, Steady, SameId
  <2>4. starts = 1 => Sits(reg) /\ KeptIds(hist, rev)
    BY <2>1 DEF StayInv
  <2>5. starts # 0
    BY <2>1 DEF StayInv
  <2> QED BY <2>1, <2>2, <2>3, <2>4, <2>5 DEF StayInv
<1>6. CASE ApplyEngine
  <2>1. /\ phase = "apply" /\ phase' = "persist" /\ UNCHANGED <<base, gen, rev, hist, starts>>
        /\ reg' = reg \/ \E view, scope : reg' = Reconcile(reg, view, scope)
        /\ CanMint(Saved(reg))
    BY <1>6 DEF ApplyEngine, store, ghosts, counters
  <2>2. reg = base.reg /\ reg \in Registries
    BY <2>1 DEF CommitInv, TypeOK
  <2>3. starts = 1 => /\ Sits(reg) /\ KeptIds(hist, rev) /\ Sits(base.reg) /\ Steady(base.reg, reg)
                      /\ Anchored(gen, Saved(base.reg))
    BY <2>1 DEF StayInv, InCommit
  <2>4. starts = 1 => Sits(reg') /\ Steady(base.reg, reg')
    BY <2>1, <2>2, <2>3, ReconcileStays
  <2>5. starts # 0
    BY <2>1 DEF StayInv
  <2> QED BY <2>1, <2>3, <2>4, <2>5 DEF StayInv
<1>7. CASE Rollback
  <2>1. phase = "persist" /\ phase' = "ready" /\ reg' = base.reg /\ UNCHANGED <<rev, hist, starts>>
    BY <1>7 DEF Rollback, RestoredRegistry, store, ghosts
  <2>2. starts = 1 => Sits(base.reg) /\ KeptIds(hist, rev)
    BY <2>1 DEF StayInv, InCommit
  <2>3. starts # 0
    BY <2>1 DEF StayInv
  <2> QED BY <2>1, <2>2, <2>3 DEF StayInv, InCommit
<1>8. CASE PublishStaged
  <2>1. /\ phase = "publish" /\ phase' = "ready" /\ UNCHANGED <<reg, starts>> /\ rev' = rev + 1
        /\ hist' = [k \in 0..rev + 1 |-> IF k = rev + 1 THEN Baseline(staged.gen, reg) ELSE hist[k]]
    BY <1>8 DEF PublishStaged, counters
  <2>2. hist'[rev + 1].reg = reg /\ hist'[rev] = hist[rev] /\ rev' - 1 = rev
    BY <1>0, <2>1 DEF Baseline
  <2>3. hist[rev].reg = base.reg /\ hist[rev].gen = gen
    BY <2>1 DEF CommitInv
  <2>4. starts = 1 => Sits(reg) /\ Steady(base.reg, reg) /\ Anchored(gen, Saved(base.reg))
    BY <2>1 DEF StayInv, InCommit
  <2>5. starts = 1 => KeptIds(hist', rev')
    BY <2>1, <2>2, <2>3, <2>4 DEF KeptIds
  <2>6. starts # 0
    BY <2>1 DEF StayInv
  <2> QED BY <2>1, <2>4, <2>5, <2>6 DEF StayInv, InCommit
<1> QED BY <1>1, <1>2, <1>3, <1>4, <1>5, <1>6, <1>7, <1>8, Steps

(* reconcile, pass A and by_path: in the first session on a sidecar, a commit that finds a
   file there and leaves it there leaves its id in force, whatever the text and whatever
   was removed and written again before; provided that commits do not fail, or that none
   reconciles everything from the engine. *)
THEOREM IdsStay ==
    ASSUME "fault" \notin Ops \/ "other" \notin Ops
    PROVE  Spec => []IdsStayInForce
<1> DEFINE IInv == ReviewInv /\ StayInv
<1>1. Init => IInv
  BY ReviewInit DEF Init, StayInv
<1>2. IInv /\ [Next]_vars => IInv'
  BY HeadStep, VersionStep, PlanStep, RegistryStep, KnownStep, StayStep DEF ReviewInv, HeadInv
<1>3. IInv => IdsStayInForce
  <2> SUFFICES ASSUME IInv, phase = "ready", starts = 1, rev > 1, NEW p \in Paths,
                      hist[rev - 1].gen[p].text \in Texts, gen[p].text \in Texts
               PROVE  LiveIds(reg[p].anchors) = LiveIds(hist[rev - 1].reg[p].anchors)
    BY DEF IdsStayInForce
  <2>1. KeptIds(hist, rev) /\ hist[rev].reg = reg
    BY DEF StayInv, ReviewInv, HeadInv, CommitInv
  <2>2. SameId(hist[rev - 1].reg[p], reg[p]) /\ Says(hist[rev - 1].reg[p].anchors, hist[rev - 1].gen[p].text)
    BY <2>1 DEF KeptIds, Steady, Anchored, Saved
  <2>3. Says(reg[p].anchors, gen[p].text)
    BY DEF ReviewInv, RegistryInv, Anchored, Saved
  <2> QED BY <2>2, <2>3 DEF SameId, Says
<1> QED BY <1>1, <1>2, <1>3, PTL DEF Spec
-----------------------------------------------------------------------------
(* The records and their files. *)

(* What authoring one version does to the records. *)
LEMMA PutExtends ==
    ASSUME NEW f \in Records, NEW p \in Ids, NEW note \in Versions, NEW n \in Nat
    PROVE  LET g == [f EXCEPT ![p] = Put(@, note)]
           IN  /\ \A q \in Ids \ {p} : g[q] = f[q]
               /\ KeepHistory => \A q \in Ids : Extends(f[q], g[q])
               /\ Stamped(f, n) /\ note.rev = n + 1 => Stamped(g, n + 1)
<1>1. f[p] \in Seq(Versions) /\ \A q \in Ids : f[q] \in Seq(Versions)
  BY DEF Records
<1>2. PICK s : s = Put(f[p], note)
  OBVIOUS
<1>3. /\ \A i \in DOMAIN s : s[i] = note \/ (i \in DOMAIN f[p] /\ s[i] = f[p][i])
      /\ KeepHistory => Extends(f[p], s)
  BY <1>1, <1>2 DEF Put, Extends
<1>4. \A q \in Ids : [f EXCEPT ![p] = Put(@, note)][q] = IF q = p THEN s ELSE f[q]
  BY <1>2 DEF Records
<1>5. KeepHistory => \A q \in Ids : Extends(f[q], [f EXCEPT ![p] = Put(@, note)][q])
  BY <1>3, <1>4 DEF Extends
<1>6. ASSUME Stamped(f, n), note.rev = n + 1 PROVE Stamped([f EXCEPT ![p] = Put(@, note)], n + 1)
  <2> SUFFICES ASSUME NEW q \in Ids, NEW i \in DOMAIN [f EXCEPT ![p] = Put(@, note)][q]
               PROVE  [f EXCEPT ![p] = Put(@, note)][q][i].rev <= n + 1
    BY DEF Stamped
  <2>1. \A j \in DOMAIN f[q] : f[q][j].rev \in Nat /\ f[q][j].rev <= n
    <3>1. \A j \in DOMAIN f[q] : f[q][j] \in Versions
      BY <1>1
    <3> QED BY <1>6, <3>1 DEF Stamped, Versions
  <2>2. \/ [f EXCEPT ![p] = Put(@, note)][q][i] = note
        \/ i \in DOMAIN f[q] /\ [f EXCEPT ![p] = Put(@, note)][q][i] = f[q][i]
    BY <1>3, <1>4
  <2> QED BY <1>6, <2>1, <2>2
<1> QED BY <1>4, <1>5, <1>6

(* A record is in memory what it is on disk; one that is being written extends it. *)
LEMMA NotesStep ==
    ASSUME "reload" \notin Ops, TypeOK, NotesInv, [Next]_vars
    PROVE  NotesInv'
<1>0. rev \in Nat /\ starts \in Nat /\ authored \in Records /\ recDisk \in Records /\ staged.notes \in Records
  BY DEF TypeOK, Plans
<1>1. CASE Stops
  BY <1>1 DEF Stops, NotesInv, InCommit
<1>2. CASE Open
  <2>1. phase = "closed" /\ phase' = "opening" /\ recDisk' = recDisk /\ starts' = starts + 1
    BY <1>2 DEF Open, OpenWith, sidecar
  <2> QED BY <1>0, <2>1 DEF NotesInv, InCommit
<1>3. CASE FinishOpen
  <2>1. /\ phase = "opening" /\ phase' = "ready" /\ authored' = recDisk
        /\ UNCHANGED <<recDisk, starts, rev>>
    BY <1>3 DEF FinishOpen, store, counters
  <2>2. \A n : Stamped(NoRecords, n)
    BY DEF Stamped, NoRecords
  <2> QED BY <2>1, <2>2 DEF NotesInv, InCommit, Stamped
<1>4. CASE Calm
  BY <1>4 DEF Calm, NotesInv, Stamped, Extends
<1>5. CASE \E plan : Starts(plan)
  <2>1. PICK plan : Starts(plan)
    BY <1>5
  <2>2. /\ phase = "ready" /\ phase' = "apply" /\ staged' = plan
        /\ UNCHANGED <<recDisk, authored, rev, starts>>
    BY <2>1 DEF Starts, Begin, sidecar, counters
  <2>3. /\ \A p \in Ids \ plan.writes : plan.notes[p] = authored[p]
        /\ KeepHistory => \A p \in Ids : Extends(authored[p], plan.notes[p])
        /\ Stamped(authored, rev) => Stamped(plan.notes, rev + 1)
    <3>1. CASE OfContent(plan)
      <4>1. plan.notes = authored
        BY <3>1 DEF OfContent
      <4>2. ASSUME Stamped(authored, rev), NEW p \in Ids, NEW i \in DOMAIN authored[p]
            PROVE  authored[p][i].rev <= rev + 1
        <5>1. authored[p][i] \in Versions
          BY <1>0 DEF Records
        <5>2. authored[p][i].rev \in Nat /\ authored[p][i].rev <= rev
          BY <4>2, <5>1 DEF Versions, Stamped
        <5> QED BY <1>0, <5>2
      <4> QED BY <4>1, <4>2 DEF Extends, Stamped
    <3>2. CASE OfRecord(plan)
      <4>1. PICK p \in Ids, note \in Versions :
               /\ note.rev = rev + 1 /\ plan.writes = {p}
               /\ plan.notes = [authored EXCEPT ![p] = Put(@, note)]
        BY <3>2 DEF OfRecord
      <4> QED BY <1>0, <4>1, PutExtends
    <3> QED BY <2>1, <3>1, <3>2 DEF Starts
  <2> QED BY <2>2, <2>3 DEF NotesInv, Stamped, Extends, InCommit
<1>6. CASE ApplyEngine
  <2>1. phase = "apply" /\ phase' = "persist" /\ UNCHANGED <<recDisk, authored, staged, rev, starts>>
    BY <1>6 DEF ApplyEngine, sidecar, store, counters
  <2> QED BY <2>1 DEF NotesInv, Stamped, Extends, InCommit
<1>7. CASE Persist
  <2>1. phase = "persist" /\ phase' = "publish" /\ UNCHANGED <<authored, staged, rev, starts>>
    BY <1>7 DEF Persist, store, counters
  <2>2. recDisk' = [p \in Ids |-> IF p \in staged.writes THEN staged.notes[p] ELSE recDisk[p]]
    BY <1>7 DEF Persist, WrittenRecords
  <2>3. staged.notes = recDisk'
    BY <1>0, <2>1, <2>2 DEF NotesInv, Records
  <2> QED BY <2>1, <2>3 DEF NotesInv, Stamped, InCommit
<1>8. CASE Rollback
  <2>1. phase = "persist" /\ phase' = "ready" /\ UNCHANGED <<recDisk, authored, rev, starts>>
    BY <1>8 DEF Rollback, sidecar, store
  <2> QED BY <2>1 DEF NotesInv, Stamped, InCommit
<1>9. CASE PublishStaged
  <2>1. /\ phase = "publish" /\ phase' = "ready" /\ authored' = staged.notes /\ rev' = rev + 1
        /\ UNCHANGED <<recDisk, starts>>
    BY <1>9 DEF PublishStaged, sidecar, counters
  <2> QED BY <2>1 DEF NotesInv, Stamped, InCommit
<1>10. CASE Reload
  BY <1>10 DEF Reload
<1> QED BY <1>1, <1>2, <1>3, <1>4, <1>5, <1>6, <1>7, <1>8, <1>9, <1>10, Steps

(* Without a restart every version is from a revision that has been published, so that
   value_at finds the last one. *)
LEMMA LastIsRead ==
    ASSUME NEW s \in Seq(Versions), s # <<>>, NEW r \in Nat, \A i \in DOMAIN s : s[i].rev <= r
    PROVE  /\ UpTo(s, r) # {} /\ Max(UpTo(s, r)) = Len(s)
<1>1. UpTo(s, r) = 1..Len(s) /\ Len(s) \in Nat /\ Len(s) > 0
  BY DEF UpTo
<1>2. Len(s) \in 1..Len(s) /\ \A y \in 1..Len(s) : Len(s) >= y
  BY <1>1
<1>3. \A x \in 1..Len(s) : (\A y \in 1..Len(s) : x >= y) => x = Len(s)
  BY <1>1
<1> QED BY <1>1, <1>2, <1>3 DEF Max

(* Initially there are no records. *)
LEMMA NotesInit == Init => NotesInv
BY DEF Init, NotesInv, InCommit

(* Without a reload, what is in the sidecar is what is served. *)
LEMMA NotesAreRead == TypeOK /\ NotesInv => NotesDurable
<1> SUFFICES ASSUME TypeOK, NotesInv, phase = "ready"
             PROVE  /\ authored = recDisk
                    /\ starts = 1 => \A p \in Ids : authored[p] # <<>> =>
                          AuthoredRead([rev |-> rev, authored |-> authored, head |-> TRUE], p)
                              = authored[p][Len(authored[p])]
  BY DEF NotesDurable
<1>1. authored = recDisk
  BY DEF NotesInv
<1>2. ASSUME starts = 1, NEW p \in Ids, authored[p] # <<>>
      PROVE  AuthoredRead([rev |-> rev, authored |-> authored, head |-> TRUE], p)
                 = authored[p][Len(authored[p])]
  <2>1. PICK s : s = [rev |-> rev, authored |-> authored, head |-> TRUE]
    OBVIOUS
  <2>2. s.rev = rev /\ s.authored = authored
    BY <2>1
  <2>3. authored[p] \in Seq(Versions) /\ rev \in Nat
    BY DEF TypeOK, Records
  <2>4. \A i \in DOMAIN authored[p] : authored[p][i].rev <= rev
    BY <1>2 DEF NotesInv, Stamped
  <2>5. UpTo(s.authored[p], s.rev) # {} /\ Max(UpTo(s.authored[p], s.rev)) = Len(authored[p])
    BY <1>2, <2>2, <2>3, <2>4, LastIsRead
  <2>6. AuthoredRead(s, p) = s.authored[p][Max(UpTo(s.authored[p], s.rev))]
    BY <2>5, Zenon DEF AuthoredRead
  <2> QED BY <2>1, <2>2, <2>5, <2>6
<1> QED BY <1>1, <1>2

(* author(): while nothing is reloaded, records in memory and on disk agree between commits,
   whatever failed, was rolled back or died in between, and until a restart a read of the
   head returns the last version authored. *)
THEOREM NotesAreDurable ==
    ASSUME "reload" \notin Ops
    PROVE  Spec => []NotesDurable
<1>1. NotesInv /\ TypeOK /\ [Next]_vars => NotesInv'
  BY NotesStep
<1>2. Spec => []NotesInv
  BY <1>1, NotesInit, TypeCorrect, PTL DEF Spec
<1> QED BY <1>2, TypeCorrect, NotesAreRead, PTL

(* AuthoredMap.put of a layer that keeps history: while nothing is reloaded, no version ever
   disappears from a record's file. *)
THEOREM HistoryIsKept ==
    ASSUME KeepHistory, "reload" \notin Ops
    PROVE  Spec => HistoryKept
<1> DEFINE Kept == \A id \in Ids : \A i \in DOMAIN recDisk[id] :
                       \E j \in DOMAIN recDisk'[id] : recDisk'[id][j] = recDisk[id][i]
<1>1. NotesInv /\ TypeOK /\ [Next]_vars => NotesInv'
  BY NotesStep
<1>2. NotesInv /\ TypeOK /\ [Next]_vars => [Kept]_vars
  <2> SUFFICES ASSUME NotesInv, TypeOK, [Next]_vars PROVE Kept
    OBVIOUS
  <2>1. CASE Persist
    <3>1. phase = "persist" /\ \A p \in Ids : recDisk'[p] = IF p \in staged.writes THEN staged.notes[p] ELSE recDisk[p]
      BY <2>1 DEF Persist, WrittenRecords
    <3>2. authored = recDisk /\ \A p \in Ids : Extends(authored[p], staged.notes[p])
      BY <3>1 DEF NotesInv
    <3> QED BY <3>1, <3>2 DEF Extends
  <2>2. CASE ~Persist
    <3>1. recDisk' = recDisk
      <4>1. CASE Open \/ FinishOpen \/ Stops \/ ApplyEngine \/ Rollback \/ PublishStaged \/ Reload \/ Calm
        BY <4>1 DEF Open, OpenWith, FinishOpen, Stops, ApplyEngine, Rollback, PublishStaged, Reload, Calm, sidecar
      <4>2. CASE \E plan : Starts(plan)
        BY <4>2 DEF Starts, Begin, sidecar
      <4> QED BY <2>2, <4>1, <4>2, Steps
    <3> QED BY <3>1
  <2> QED BY <2>1, <2>2
<1>3. Spec => [][Kept]_vars
  BY <1>1, <1>2, NotesInit, TypeCorrect, PTL DEF Spec
<1> QED BY <1>3, PTL DEF HistoryKept
-----------------------------------------------------------------------------
(* Unsaved buffers. *)

(* Every step but a reload keeps the buffers that are not discarded. *)
LEMMA BufferStep ==
    ASSUME "reload" \notin Ops, TypeOK, BufferInv, [Next]_vars
    PROVE  BufferInv'
<1>1. CASE Stops
  BY <1>1 DEF Stops, BufferInv, InCommit
<1>2. CASE Open
  <2>1. phase' = "opening" /\ \A p \in Paths : buffer'[p] = NoDoc
    BY <1>2 DEF Open, OpenWith
  <2> QED BY <2>1 DEF BufferInv, InCommit
<1>3. CASE FinishOpen \/ Calm \/ ApplyEngine \/ Persist \/ Rollback
  <2>1. /\ UNCHANGED <<buffer, unsaved, gen>> /\ (phase' # "closed" => phase # "closed")
        /\ phase' \in InCommit => phase \in InCommit /\ staged' = staged
    BY <1>3 DEF FinishOpen, Calm, ApplyEngine, Persist, Rollback, ghosts, store, InCommit
  <2> QED BY <2>1 DEF BufferInv
<1>4. CASE \E plan : Starts(plan)
  <2>1. PICK plan : Starts(plan)
    BY <1>4
  <2>2. phase = "ready" /\ staged' = plan /\ UNCHANGED <<buffer, unsaved, gen>>
    BY <2>1 DEF Starts, Begin, ghosts
  <2>3. /\ plan.ins \cap plan.rem = {}
        /\ \A p \in Paths \cap unsaved : p \in plan.ins \cup plan.rem \/ plan.gen[p] = gen[p]
    BY <2>1 DEF Starts, Planned
  <2> QED BY <2>2, <2>3 DEF BufferInv
<1>5. CASE PublishStaged
  <2>1. /\ phase = "publish" /\ phase' = "ready" /\ gen' = staged.gen
        /\ unsaved' = (unsaved \cup staged.ins) \ staged.rem
        /\ \A p \in Paths : buffer'[p] = IF p \in staged.ins THEN staged.gen[p].text
                                         ELSE IF p \in staged.rem THEN NoDoc ELSE buffer[p]
    BY <1>5 DEF PublishStaged
  <2>2. /\ staged.ins \cap staged.rem = {}
        /\ \A p \in Paths \ (staged.ins \cup staged.rem) :
              buffer[p] # NoDoc => staged.gen[p].text = buffer[p]
        /\ \A p \in Paths : buffer[p] # NoDoc => p \in unsaved
    BY <2>1 DEF BufferInv, InCommit
  <2> QED BY <2>1, <2>2 DEF BufferInv, InCommit
<1>6. CASE Reload
  BY <1>6 DEF Reload
<1> QED BY <1>1, <1>2, <1>3, <1>4, <1>5, <1>6, Steps

(* The buffer-wins rule of polls and sync_all, with every operation but reload: what the
   client typed and has not discarded is what the head serves, also after commits that
   failed and whatever the disk and the watcher do. *)
THEOREM BuffersWin ==
    ASSUME "reload" \notin Ops
    PROVE  Spec => []BufferWins
<1>1. Init => BufferInv
  BY DEF Init, BufferInv, InCommit
<1>2. BufferInv /\ TypeOK /\ [Next]_vars => BufferInv'
  BY BufferStep
<1>3. BufferInv => BufferWins
  BY DEF BufferInv, BufferWins
<1> QED BY <1>1, <1>2, <1>3, TypeCorrect, PTL DEF Spec
-----------------------------------------------------------------------------
(* The head and the disk. *)

(* Two batches of events in a row. *)
LEMMA ConcatEvents ==
    ASSUME NEW q, NEW b, Queued(q), Queued(b)
    PROVE  /\ Queued(q \o b)
           /\ \A p \in Paths : Reports(q \o b, p) <=> Reports(q, p) \/ Reports(b, p)
           /\ \A p \in Paths : \A now :
                 Truthful(b, p, now) /\ (~Reports(b, p) => Truthful(q, p, now))
                     => Truthful(q \o b, p, now)
<1>1. PICK s : s = q \o b
  OBVIOUS
<1>2. /\ q \in Seq(FileEvents) /\ b \in Seq(FileEvents) /\ s \in Seq(FileEvents)
      /\ Len(q) \in Nat /\ Len(b) \in Nat /\ Len(s) = Len(q) + Len(b)
      /\ DOMAIN q = 1..Len(q) /\ DOMAIN b = 1..Len(b) /\ DOMAIN s = 1..Len(s)
  BY <1>1 DEF Queued
<1>3. \A i \in 1..Len(q) : s[i] = q[i]
  BY <1>1, <1>2
<1>4. \A i \in 1..Len(b) : s[Len(q) + i] = b[i]
  BY <1>1, <1>2
<1>5. \A i \in 1..Len(s) : i \in 1..Len(q) \/ (i - Len(q) \in 1..Len(b) /\ s[i] = b[i - Len(q)])
  BY <1>2, <1>4
<1>6. \A p \in Paths : Reports(s, p) <=> Reports(q, p) \/ Reports(b, p)
  <2> SUFFICES ASSUME NEW p \in Paths PROVE Reports(s, p) <=> Reports(q, p) \/ Reports(b, p)
    OBVIOUS
  <2>1. ASSUME NEW i \in 1..Len(s), s[i].path = p PROVE Reports(q, p) \/ Reports(b, p)
    BY <1>2, <1>3, <1>5, <2>1 DEF Reports
  <2>2. ASSUME NEW i \in 1..Len(q), q[i].path = p PROVE Reports(s, p)
    BY <1>2, <1>3, <2>2 DEF Reports
  <2>3. ASSUME NEW i \in 1..Len(b), b[i].path = p PROVE Reports(s, p)
    <3>1. Len(q) + i \in DOMAIN s
      BY <1>2
    <3> QED BY <1>4, <2>3, <3>1 DEF Reports
  <2> QED BY <1>2, <2>1, <2>2, <2>3 DEF Reports
<1>7. ASSUME NEW p, NEW i \in 1..Len(b), IsLast(b, i, p) PROVE IsLast(s, Len(q) + i, p)
  <2>1. Len(q) + i \in 1..Len(s) /\ s[Len(q) + i].path = p
    BY <1>2, <1>4, <1>7 DEF IsLast
  <2>2. ASSUME NEW j \in 1..Len(s), j > Len(q) + i PROVE s[j].path # p
    <3>1. j - Len(q) \in 1..Len(b) /\ s[j] = b[j - Len(q)] /\ j - Len(q) > i
      BY <1>2, <1>5, <2>2
    <3> QED BY <1>2, <1>7, <3>1 DEF IsLast
  <2> QED BY <1>2, <2>1, <2>2 DEF IsLast
<1>8. ASSUME NEW p, NEW i \in 1..Len(q), IsLast(q, i, p), ~Reports(b, p) PROVE IsLast(s, i, p)
  <2>1. i \in 1..Len(s) /\ s[i].path = p
    BY <1>2, <1>3, <1>8 DEF IsLast
  <2>2. ASSUME NEW j \in 1..Len(s), j > i PROVE s[j].path # p
    BY <1>2, <1>3, <1>5, <1>8, <2>2 DEF IsLast, Reports
  <2> QED BY <1>2, <2>1, <2>2 DEF IsLast
<1>9. ASSUME NEW p, NEW i \in 1..Len(s), IsLast(s, i, p)
      PROVE  \/ i - Len(q) \in 1..Len(b) /\ s[i] = b[i - Len(q)] /\ IsLast(b, i - Len(q), p)
             \/ i \in 1..Len(q) /\ s[i] = q[i] /\ IsLast(q, i, p) /\ ~Reports(b, p)
  <2>1. CASE i \in 1..Len(q)
    <3>1. ASSUME NEW j \in 1..Len(b) PROVE b[j].path # p
      <4>1. Len(q) + j \in DOMAIN s /\ Len(q) + j > i
        BY <1>2, <2>1
      <4> QED BY <1>4, <1>9, <4>1 DEF IsLast
    <3>2. ASSUME NEW j \in 1..Len(q), j > i PROVE q[j].path # p
      <4>1. j \in DOMAIN s
        BY <1>2
      <4> QED BY <1>3, <1>9, <3>2, <4>1 DEF IsLast
    <3> QED BY <1>2, <1>3, <1>9, <2>1, <3>1, <3>2 DEF IsLast, Reports
  <2>2. CASE i - Len(q) \in 1..Len(b) /\ s[i] = b[i - Len(q)]
    <3>1. ASSUME NEW j \in 1..Len(b), j > i - Len(q) PROVE b[j].path # p
      <4>1. Len(q) + j \in DOMAIN s /\ Len(q) + j > i
        BY <1>2, <2>2, <3>1
      <4> QED BY <1>4, <1>9, <4>1 DEF IsLast
    <3> QED BY <1>2, <1>9, <2>2, <3>1 DEF IsLast
  <2> QED BY <1>5, <2>1, <2>2
<1>10. Queued(s)
  <2> SUFFICES ASSUME NEW p \in Paths, Reports(s, p) PROVE \E i \in DOMAIN s : IsLast(s, i, p)
    BY <1>2 DEF Queued
  <2>1. CASE Reports(b, p)
    <3>1. PICK i \in 1..Len(b) : IsLast(b, i, p)
      BY <1>2, <2>1 DEF Queued
    <3>2. Len(q) + i \in DOMAIN s
      BY <1>2
    <3> QED BY <1>7, <3>1, <3>2
  <2>2. CASE ~Reports(b, p)
    <3>1. Reports(q, p)
      BY <1>6, <2>2
    <3>2. PICK i \in 1..Len(q) : IsLast(q, i, p)
      BY <1>2, <3>1 DEF Queued
    <3>3. i \in DOMAIN s
      BY <1>2
    <3> QED BY <1>8, <2>2, <3>2, <3>3
  <2> QED BY <2>1, <2>2
<1>11. ASSUME NEW p \in Paths, NEW now, Truthful(b, p, now), ~Reports(b, p) => Truthful(q, p, now)
       PROVE  Truthful(s, p, now)
  BY <1>2, <1>9, <1>11 DEF Truthful
<1> QED BY <1>1, <1>6, <1>10, <1>11

(* One more event. *)
LEMMA AppendEvent ==
    ASSUME NEW q, Queued(q), NEW e \in FileEvents
    PROVE  /\ Queued(Append(q, e))
           /\ \A p \in Paths : Reports(Append(q, e), p) <=> Reports(q, p) \/ p = e.path
           /\ \A p \in Paths : \A now :
                 /\ p # e.path => Truthful(q, p, now)
                 /\ p = e.path /\ e.kind = "deleted" => now = Gone
                 => Truthful(Append(q, e), p, now)
<1>1. PICK b : b = <<e>>
  OBVIOUS
<1>2. b \in Seq(FileEvents) /\ DOMAIN b = {1} /\ b[1] = e /\ Len(b) = 1
  BY <1>1
<1>3. e.path \in Paths
  BY DEF FileEvents
<1>4. \A p \in Paths : Reports(b, p) <=> p = e.path
  BY <1>2 DEF Reports
<1>5. IsLast(b, 1, e.path)
  BY <1>2 DEF IsLast
<1>6. Queued(b)
  BY <1>2, <1>4, <1>5 DEF Queued
<1>7. \A p \in Paths : \A now :
         Truthful(b, p, now) <=> (p = e.path /\ e.kind = "deleted" => now = Gone)
  BY <1>2, <1>5 DEF Truthful, IsLast
<1>8. Append(q, e) = q \o b
  <2>1. q \in Seq(FileEvents)
    BY DEF Queued
  <2> QED BY <1>1, <2>1
<1> QED BY <1>4, <1>6, <1>7, <1>8, ConcatEvents

(* An empty queue reports nothing. *)
LEMMA EmptyQueue ==
    Queued(<<>>) /\ \A p, now : ~Reports(<<>>, p) /\ Truthful(<<>>, p, now)
BY DEF Queued, Reports, Truthful, IsLast

(* The steps that leave the disk, the watcher and what it missed alone. *)
LEMMA Quiet ==
    ASSUME TypeOK,
           \/ FinishOpen \/ Edit \/ EditVirtual \/ SyncPath \/ SyncOther \/ SyncAll \/ Author \/ ApplyEngine
           \/ Persist \/ Rollback \/ Snapshot \/ SnapshotAt \/ ReleaseSnapshot \/ Reload
           \/ UNCHANGED vars
    PROVE  UNCHANGED <<disk, watching, debounce, pending, unseen>>
<1>1. CASE Edit \/ EditVirtual \/ SyncPath \/ SyncOther \/ SyncAll \/ Author
  BY <1>1 DEF Edit, EditVirtual, SyncPath, SyncOther, SyncAll, Author, Begin, ghosts
<1>2. CASE FinishOpen \/ ApplyEngine \/ Persist \/ Rollback \/ Reload \/ UNCHANGED vars
  BY <1>2 DEF FinishOpen, ApplyEngine, Persist, Rollback, Reload, vars, watch, ghosts
<1>3. CASE Snapshot \/ SnapshotAt \/ ReleaseSnapshot
  BY <1>3 DEF Snapshot, SnapshotAt, Pin, ReleaseSnapshot, watch, ghosts
<1> QED BY <1>1, <1>2, <1>3

(* The operations under which the head keeps up with the disk. *)
KeepsUp == Ops \cap {"rescan", "reload", "fault"} = {}

(* What a watcher that goes has not handed over is what its events are about. *)
LEMMA UndeliveredIs ==
    ASSUME Queued(debounce)
    PROVE  \A p \in Paths : Reports(debounce, p) => p \in Undelivered
<1> SUFFICES ASSUME NEW p \in Paths, NEW i \in DOMAIN debounce, debounce[i].path = p
             PROVE  p \in Undelivered
  BY DEF Reports
<1>1. PICK batch : batch = {debounce[j] : j \in DOMAIN debounce}
  OBVIOUS
<1>2. debounce[i] \in batch
  BY <1>1
<1> QED BY <1>1, <1>2 DEF Undelivered

(* A path that no event of the queue is about is not reported. *)
LEMMA ReportedIs ==
    ASSUME Queued(pending), NEW p \in Paths
    PROVE  Reported(p) <=> Reports(pending, p)
<1>1. \A i \in DOMAIN pending : pending[i] \in FileEvents
  BY DEF Queued
<1>2. \A e \in FileEvents : e # Rescan
  BY DEF FileEvents, Rescan
<1> QED BY <1>1, <1>2 DEF Reported, Reports

(* The queue tells the truth about the disk. *)
LEMMA QueueStep ==
    ASSUME KeepsUp, TypeOK, QueueInv, [Next]_vars
    PROVE  QueueInv'
<1> USE DEF KeepsUp
<1>1. CASE Open
  <2>1. watching' = FALSE /\ debounce' = <<>> /\ pending' = <<>> /\ unseen' = {}
    BY <1>1 DEF Open, OpenWith
  <2> QED BY <2>1, EmptyQueue DEF QueueInv
<1>2. CASE Close \/ Crash
  <2>1. watching' = FALSE /\ debounce' = <<>> /\ pending' = <<>> /\ UNCHANGED <<disk, unseen>>
    BY <1>2 DEF Close, Crash, ghosts
  <2> QED BY <2>1, EmptyQueue DEF QueueInv
<1>25. CASE FailOpen
  <2>1. UNCHANGED <<disk, watching, debounce, pending, unseen>>
    BY <1>25 DEF FailOpen, watch, ghosts
  <2> QED BY <2>1 DEF QueueInv
<1>3. CASE Poll
  <2>1. pending' = <<>> /\ UNCHANGED <<disk, watching, debounce, unseen>>
    BY <1>3 DEF Poll, Begin, ghosts
  <2> QED BY <2>1, EmptyQueue DEF QueueInv
<1>4. CASE PublishStaged
  <2>1. /\ UNCHANGED <<disk, watching, debounce, pending>>
        /\ \A p \in Paths : p \in unseen /\ Reported(p) => p \in unseen'
    BY <1>4 DEF PublishStaged, watch
  <2>2. ASSUME NEW p \in Paths, ~Reports(debounce, p), p \notin unseen'
        PROVE  Truthful(pending, p, disk[p])
    <3>1. CASE p \notin unseen
      BY <2>2, <3>1 DEF QueueInv
    <3>2. CASE p \in unseen
      <4>1. ~Reports(pending, p)
        BY <2>1, <2>2, <3>2, ReportedIs DEF QueueInv
      <4> QED BY <4>1 DEF Truthful, Reports, IsLast
    <3> QED BY <3>1, <3>2
  <2> QED BY <2>1, <2>2 DEF QueueInv
<1>5. CASE Watch \/ Unwatch
  <2>1. UNCHANGED <<disk, pending>> /\ debounce' = <<>> /\ unseen' = unseen \cup Undelivered
    BY <1>5 DEF Watch, Unwatch
  <2>2. \A p \in Paths : p \notin unseen' => ~Reports(debounce, p) /\ p \notin unseen
    BY <2>1, UndeliveredIs DEF QueueInv
  <2>3. \A p \in Paths : p \notin unseen' => Truthful(pending, p, disk[p])
    BY <2>2 DEF QueueInv
  <2> QED BY <2>1, <2>3, EmptyQueue DEF QueueInv
<1>6. CASE WatcherDelivers
  <2>1. PICK q : q = pending \o debounce
    OBVIOUS
  <2>2. UNCHANGED <<disk, watching, unseen>> /\ pending' = q /\ debounce' = <<>>
    BY <1>6, <2>1 DEF WatcherDelivers, ExtendQueue, ghosts
  <2>3. watching
    BY <1>6 DEF WatcherDelivers, QueueInv
  <2>4. Queued(q) /\ \A p \in Paths : Reports(q, p) <=> Reports(pending, p) \/ Reports(debounce, p)
    BY <2>1, ConcatEvents DEF QueueInv
  <2>5. \A p \in Paths : p \notin unseen => Truthful(q, p, disk[p])
    BY <2>1, ConcatEvents DEF QueueInv
  <2> QED BY <2>2, <2>3, <2>4, <2>5, EmptyQueue DEF QueueInv
<1>7. CASE DiskChange
  <2>1. PICK p \in Paths, t \in Texts \cup {Gone} :
           /\ t # disk[p] /\ disk' = [disk EXCEPT ![p] = t]
           /\ IF watching
              THEN /\ debounce' = Append(debounce,
                        [kind |-> IF t = Gone THEN "deleted"
                                 ELSE IF disk[p] = Gone THEN "created"
                                 ELSE "changed", path |-> p])
                   /\ unseen' = unseen \ {p}
              ELSE /\ unseen' = unseen \cup {p}
                   /\ UNCHANGED debounce
    BY <1>7 DEF DiskChange
  <2>2. UNCHANGED <<watching, pending>>
    BY <1>7 DEF DiskChange
  <2>3. disk'[p] = t /\ \A r \in Paths \ {p} : disk'[r] = disk[r]
    BY <2>1 DEF TypeOK
  <2>4. CASE ~watching
    <3>1. debounce' = <<>> /\ debounce = <<>> /\ ~watching' /\ unseen' = unseen \cup {p}
      BY <2>1, <2>2, <2>4 DEF QueueInv
    <3>2. \A r \in Paths : r \notin unseen' => Truthful(pending, r, disk'[r])
      BY <2>3, <3>1, EmptyQueue DEF QueueInv
    <3> QED BY <2>2, <3>1, <3>2, EmptyQueue DEF QueueInv
  <2>5. CASE watching
    <3>1. PICK e : e = [kind |-> IF t = Gone THEN "deleted"
                                 ELSE IF disk[p] = Gone THEN "created"
                                 ELSE "changed", path |-> p]
      OBVIOUS
    <3>2. e \in FileEvents /\ e.path = p /\ (e.kind = "deleted" => t = Gone)
      <4>1. e.kind \in {"created", "changed", "deleted"} /\ (e.kind = "deleted" => t = Gone)
        BY <3>1
      <4> QED BY <3>1, <4>1 DEF FileEvents
    <3>3. PICK q : q = Append(debounce, e)
      OBVIOUS
    <3>4. debounce' = q /\ unseen' = unseen \ {p} /\ watching'
      BY <2>1, <2>2, <2>5, <3>1, <3>3
    <3>5. Queued(q) /\ \A r \in Paths : Reports(q, r) <=> Reports(debounce, r) \/ r = p
      BY <3>2, <3>3, AppendEvent DEF QueueInv
    <3>6. \A r \in Paths : Truthful(q, r, disk'[r])
      BY <2>3, <3>2, <3>3, AppendEvent DEF QueueInv
    <3>7. \A r \in Paths : ~Reports(q, r) /\ r \notin unseen' => Truthful(pending', r, disk'[r])
      BY <2>2, <2>3, <3>4, <3>5 DEF QueueInv
    <3> QED BY <2>2, <3>4, <3>5, <3>6, <3>7 DEF QueueInv
  <2> QED BY <2>4, <2>5
<1>8. CASE WatcherLosesSync
  BY <1>8 DEF WatcherLosesSync
<1>9. CASE UNCHANGED <<disk, watching, debounce, pending, unseen>>
  BY <1>9 DEF QueueInv
<1> QED BY <1>1, <1>2, <1>25, <1>3, <1>4, <1>5, <1>6, <1>7, <1>8, <1>9, Quiet DEF Next

(* What a plan over files promises: on the paths it stages, the disk. *)
LEMMA FilePlanTracks ==
    ASSUME TypeOK, DiskInv, phase = "ready",
           NEW S \in SUBSET Paths, NEW f \in [S -> Texts \cup {Gone}],
           NEW E \in SUBSET Paths, NEW D \in SUBSET Paths,
           NEW X \in SUBSET Paths, NEW Y \in SUBSET Paths, Y \subseteq S, X \cap Y = {},
           \A p \in S \ X : p \in unseen \/ Reports(debounce, p) \/ f[p] = disk[p],
           \A p \in Paths \ S : Reports(pending, p) => Reports(pending', p) \/ p \in unsaved,
           Begin(ContentPlan(f, E, D, X, Y))
    PROVE  DiskInv'
<1>1. PICK g : g = Stage(f)
  OBVIOUS
<1>2. phase' = "apply" /\ staged' = ContentPlan(f, E, D, X, Y)
      /\ UNCHANGED <<disk, unsaved, debounce, unseen>>
  BY DEF Begin, ghosts
<1>3. staged'.gen = g /\ staged'.ins = X /\ staged'.rem = Y
  BY <1>1, <1>2 DEF ContentPlan
<1>4. \A p \in S : g[p].text = f[p] /\ f[p] # NoDoc
  BY <1>1, HeadAssumption DEF Stage
<1>5. \A p \in Paths \ S : g[p] = gen[p]
  BY <1>1 DEF Stage
<1>6. ASSUME NEW p \in Paths, p \notin (unsaved \cup X) \ Y, p \notin unseen
      PROVE  Reports(pending', p) \/ Reports(debounce, p) \/ Content(g, p) = disk[p]
  <2>1. CASE p \in S
    BY <1>4, <1>6, <2>1 DEF Content
  <2>2. CASE p \notin S
    <3>1. p \notin unsaved
      BY <1>6, <2>2
    <3>2. Tracks(gen, p)
      BY <1>6, <3>1 DEF DiskInv
    <3>3. Content(g, p) = Content(gen, p)
      BY <1>5, <2>2 DEF Content
    <3> QED BY <2>2, <3>1, <3>2, <3>3 DEF Tracks
  <2> QED BY <2>1, <2>2
<1> QED BY <1>2, <1>3, <1>6 DEF DiskInv, Tracks, InCommit

(* The last event of a path is the one a poll folds. *)
LEMMA LastKindIs ==
    ASSUME NEW q, Queued(q), NEW p \in Paths, NEW i, IsLast(q, i, p)
    PROVE  LastKind(q, p) = q[i].kind
<1>1. PICK I : I = {j \in DOMAIN q : q[j].path = p}
  OBVIOUS
<1>2. q \in Seq(FileEvents) /\ DOMAIN q \subseteq Nat /\ i \in I /\ \A j \in I : i >= j
  BY <1>1 DEF Queued, IsLast
<1>3. \A j \in I : (\A k \in I : j >= k) <=> j = i
  BY <1>1, <1>2
<1>4. Max(I) = i
  BY <1>2, <1>3 DEF Max
<1> QED BY <1>1, <1>4 DEF LastKind

(* A poll folds what the disk holds, unless another event is on its way. *)
LEMMA PollTracks ==
    ASSUME TypeOK, QueueInv, DiskInv, Poll
    PROVE  DiskInv'
<1>1. PICK reported, kept : /\ reported = {pending[i].path : i \in DOMAIN pending}
                            /\ kept = reported \ unsaved
  OBVIOUS
<1>2. pending \in Seq(FileEvents)
  BY DEF QueueInv, Queued
<1>3. reported \in SUBSET Paths /\ kept \in SUBSET Paths
  <2>1. \A i \in DOMAIN pending : pending[i].path \in Paths
    <3>1. \A i \in DOMAIN pending : pending[i] \in FileEvents
      BY <1>2
    <3>2. \A e \in FileEvents : e.path \in Paths
      BY DEF FileEvents
    <3> QED BY <3>1, <3>2
  <2> QED BY <1>1, <2>1
<1>4. \A p \in Paths : Reports(pending, p) <=> p \in reported
  BY <1>1 DEF Reports
<1>5. ~(Rescan \in {pending[i] : i \in DOMAIN pending})
  BY <1>2 DEF FileEvents, Rescan
<1> DEFINE text(p) == IF LastKind(pending, p) = "deleted" THEN Gone ELSE disk[p]
<1>6. PICK f : f = [p \in kept |-> text(p)]
  OBVIOUS
<1>7. phase = "ready" /\ pending' = <<>>
  BY DEF Poll
<1>8. \/ /\ kept = {}
         /\ UNCHANGED <<phase, disk, sidecar, store, overlay, db, reg, authored, unsaved,
                        staged, base, watching, debounce, snaps, ghosts, counters>>
      \/ Begin(ContentPlan(f, kept, kept, {}, {}))
  BY <1>1, <1>5, <1>6 DEF Poll, PollIgnores
<1>9. CASE /\ kept = {}
           /\ UNCHANGED <<phase, disk, sidecar, store, overlay, db, reg, authored, unsaved,
                          staged, base, watching, debounce, snaps, ghosts, counters>>
  <2>1. UNCHANGED <<phase, disk, gen, unsaved, debounce, unseen>>
    BY <1>9 DEF store, ghosts
  <2>2. \A p \in Paths : Reports(pending, p) => p \in unsaved
    BY <1>1, <1>4, <1>9
  <2> QED BY <1>7, <2>1, <2>2 DEF DiskInv, Tracks, InCommit
<1>10. CASE Begin(ContentPlan(f, kept, kept, {}, {}))
  <2>1. f \in [kept -> Texts \cup {Gone}]
    <3>1. \A p \in Paths : text(p) \in Texts \cup {Gone}
      BY DEF TypeOK
    <3> HIDE DEF text
    <3> QED BY <1>3, <1>6, <3>1
  <2>2. ASSUME NEW p \in kept, ~Reports(debounce, p), p \notin unseen
        PROVE  f[p] = disk[p]
    <3>1. p \in Paths /\ Reports(pending, p) /\ Truthful(pending, p, disk[p])
      BY <1>1, <1>3, <1>4, <2>2 DEF QueueInv
    <3>2. PICK i \in DOMAIN pending : IsLast(pending, i, p)
      BY <3>1 DEF QueueInv, Queued
    <3>3. LastKind(pending, p) = pending[i].kind
      BY <3>1, <3>2, LastKindIs DEF QueueInv
    <3>4. pending[i].kind = "deleted" => disk[p] = Gone
      BY <3>1, <3>2 DEF Truthful
    <3> QED BY <1>6, <2>2, <3>3, <3>4
  <2>3. \A p \in Paths \ kept : Reports(pending, p) => p \in unsaved
    BY <1>1, <1>4
  <2>4. PICK none : none = {}
    OBVIOUS
  <2>5. none \in SUBSET Paths /\ none \subseteq kept /\ none \cap none = {}
        /\ (\A p \in kept \ none : p \in unseen \/ Reports(debounce, p) \/ f[p] = disk[p])
        /\ Begin(ContentPlan(f, kept, kept, none, none))
    BY <1>10, <2>2, <2>4
  <2> QED BY <1>3, <1>7, <2>1, <2>3, <2>5, FilePlanTracks
<1> QED BY <1>8, <1>9, <1>10

(* Every write over files but a poll folds what the disk holds. *)
LEMMA WriteTracks ==
    ASSUME TypeOK, DiskInv, Edit \/ EditVirtual \/ SyncPath \/ SyncOther \/ SyncAll
    PROVE  DiskInv'
<1>0. phase = "ready" /\ pending' = pending
  BY DEF Edit, EditVirtual, SyncPath, SyncOther, SyncAll, CanWrite
<1>1. ASSUME NEW S \in SUBSET Paths, NEW f \in [S -> Texts \cup {Gone}],
             NEW E \in SUBSET Paths, NEW D \in SUBSET Paths,
             NEW X \in SUBSET Paths, NEW Y \in SUBSET Paths, Y \subseteq S, X \cap Y = {},
             \A p \in S \ X : f[p] = disk[p], Begin(ContentPlan(f, E, D, X, Y))
      PROVE  DiskInv'
  BY <1>0, <1>1, FilePlanTracks
<1>2. PICK none : none = {}
  OBVIOUS
<1>3. none \in SUBSET Paths /\ Paths \in SUBSET Paths
  BY <1>2
<1>4. CASE Edit
  <2>1. PICK S \in SUBSET Paths : \E f \in [S -> Texts] : Begin(ContentPlan(f, S, S, S, {}))
    BY <1>4 DEF Edit
  <2>2. PICK f \in [S -> Texts] : Begin(ContentPlan(f, S, S, S, none))
    BY <1>2, <2>1
  <2>3. f \in [S -> Texts \cup {Gone}] /\ none \subseteq S /\ S \cap none = {} /\ S \ S = {}
    BY <1>2
  <2> QED BY <1>1, <1>3, <2>2, <2>3
<1>5. CASE EditVirtual
  <2>1. NoChange \in [none -> Texts \cup {Gone}]
    BY <1>2 DEF NoChange
  <2>2. Begin(ContentPlan(NoChange, none, Paths, none, none))
    BY <1>2, <1>5 DEF EditVirtual
  <2>3. none \subseteq none /\ none \cap none = {} /\ \A p \in none \ none : NoChange[p] = disk[p]
    BY <1>2
  <2> HIDE DEF NoChange
  <2> QED BY <1>1, <1>3, <2>1, <2>2, <2>3
<1>6. CASE SyncPath
  <2>1. PICK p \in Paths : Begin(ContentPlan([q \in {p} |-> disk[q]], {p}, {p}, {}, {p}))
    BY <1>6 DEF SyncPath
  <2>2. PICK S, f : S = {p} /\ f = [q \in S |-> disk[q]]
    OBVIOUS
  <2>3. S \in SUBSET Paths /\ f \in [S -> Texts \cup {Gone}] /\ \A q \in S \ none : f[q] = disk[q]
    BY <2>2 DEF TypeOK
  <2>4. Begin(ContentPlan(f, S, S, none, S)) /\ S \subseteq S /\ none \cap S = {}
    BY <1>2, <2>1, <2>2
  <2> QED BY <1>1, <1>3, <2>3, <2>4
<1>7. CASE SyncAll
  <2>1. PICK found, f : /\ found = {p \in Paths \ unsaved : disk[p] # Gone}
                        /\ f = [p \in found |-> disk[p]]
    OBVIOUS
  <2>2. Begin(ContentPlan(f, Paths, Paths, none, none))
    BY <1>2, <1>7, <2>1 DEF SyncAll, SyncSkips
  <2>3. found \in SUBSET Paths /\ f \in [found -> Texts \cup {Gone}]
        /\ \A p \in found \ none : f[p] = disk[p]
    BY <2>1 DEF TypeOK
  <2>4. none \subseteq found /\ none \cap none = {}
    BY <1>2
  <2> QED BY <1>1, <1>3, <2>2, <2>3, <2>4
<1>8. CASE SyncOther
  <2>1. NoChange \in [none -> Texts \cup {Gone}]
    BY <1>2 DEF NoChange
  <2>2. PICK reloaded \in {{}, Paths} : Begin(ContentPlan(NoChange, reloaded, Paths, none, none))
    BY <1>2, <1>8 DEF SyncOther
  <2>3. /\ none \subseteq none /\ none \cap none = {} /\ \A p \in none \ none : NoChange[p] = disk[p]
        /\ reloaded \in SUBSET Paths
    BY <1>2
  <2> HIDE DEF NoChange
  <2> QED BY <1>1, <1>3, <2>1, <2>2, <2>3
<1> QED BY <1>4, <1>5, <1>6, <1>7, <1>8

(* Every step keeps the head level with the disk, up to events on their way. *)
LEMMA DiskStep ==
    ASSUME KeepsUp, TypeOK, QueueInv, DiskInv, [Next]_vars
    PROVE  DiskInv'
<1> USE DEF KeepsUp
<1>1. CASE Open
  <2>1. PICK g : g = [p \in Paths |-> IF disk[p] = Gone THEN EmptyGen[p]
                                      ELSE [text |-> disk[p], ver |-> 1]]
    OBVIOUS
  <2>2. phase' = "opening" /\ gen' = g /\ disk' = disk
    BY <1>1, <2>1 DEF Open, OpenWith
  <2>3. ASSUME NEW p \in Paths PROVE Content(g, p) = disk[p]
    <3>1. CASE disk[p] = Gone
      BY <2>1, <3>1 DEF Content, EmptyGen
    <3>2. CASE disk[p] # Gone
      BY <2>1, <3>2, HeadAssumption DEF Content, TypeOK
    <3> QED BY <3>1, <3>2
  <2> QED BY <2>2, <2>3 DEF DiskInv, Tracks, InCommit
<1>2. CASE Close \/ Crash \/ FailOpen
  BY <1>2 DEF Close, Crash, FailOpen, DiskInv, InCommit
<1>3. CASE Poll
  BY <1>3, PollTracks
<1>4. CASE Edit \/ EditVirtual \/ SyncPath \/ SyncOther \/ SyncAll
  BY <1>4, WriteTracks
<1>5. CASE Author
  <2>1. /\ phase = "ready" /\ phase' = "apply" /\ UNCHANGED <<disk, unsaved, pending, debounce, unseen>>
        /\ staged'.gen = gen /\ staged'.ins = {} /\ staged'.rem = {}
    BY <1>5 DEF Author, Begin, CanWrite, ghosts
  <2> QED BY <2>1 DEF DiskInv, Tracks, InCommit
<1>6. CASE FinishOpen
  <2>1. phase = "opening" /\ phase' = "ready" /\ UNCHANGED <<gen, disk, unsaved, pending, debounce, unseen>>
    BY <1>6 DEF FinishOpen, store, watch, ghosts
  <2> QED BY <2>1 DEF DiskInv, Tracks, InCommit
<1>7. CASE ApplyEngine \/ Persist
  <2>1. /\ phase \in InCommit /\ phase' \in {"persist", "publish"}
        /\ UNCHANGED <<disk, unsaved, pending, debounce, unseen, staged>>
    BY <1>7 DEF ApplyEngine, Persist, InCommit, watch, ghosts
  <2> QED BY <2>1 DEF DiskInv, Tracks, InCommit
<1>8. CASE PublishStaged
  <2>1. /\ phase \in InCommit /\ phase' = "ready" /\ gen' = staged.gen
        /\ unsaved' = (unsaved \cup staged.ins) \ staged.rem
        /\ \A p \in unseen : p \in unseen' \/ Content(staged.gen, p) = disk[p]
        /\ UNCHANGED <<disk, pending, debounce>>
    BY <1>8 DEF PublishStaged, InCommit, watch
  <2>2. \A p \in Paths \ unsaved' : p \notin unseen' => Tracks(staged.gen, p)
    BY <2>1 DEF DiskInv, Tracks
  <2> QED BY <2>1, <2>2 DEF DiskInv, Tracks, InCommit
<1>85. CASE Watch \/ Unwatch
  <2>1. /\ UNCHANGED <<phase, gen, staged, disk, unsaved, pending>>
        /\ debounce' = <<>> /\ unseen' = unseen \cup Undelivered
    BY <1>85 DEF Watch, Unwatch, store
  <2>2. \A p \in Paths : p \notin unseen' => ~Reports(debounce, p) /\ p \notin unseen
    BY <2>1, UndeliveredIs DEF QueueInv
  <2> QED BY <2>1, <2>2 DEF DiskInv, Tracks
<1>9. CASE Snapshot \/ SnapshotAt \/ ReleaseSnapshot \/ UNCHANGED vars
  <2>1. UNCHANGED <<phase, gen, staged, disk, unsaved, pending, debounce, unseen>>
    BY <1>9 DEF Snapshot, SnapshotAt, Pin, ReleaseSnapshot, vars, store, watch, ghosts
  <2> QED BY <2>1 DEF DiskInv, Tracks
<1>10. CASE WatcherDelivers
  <2>1. UNCHANGED <<phase, gen, staged, disk, unsaved, unseen>> /\ pending' = pending \o debounce
    BY <1>10 DEF WatcherDelivers, ExtendQueue, store, ghosts
  <2>2. \A p \in Paths : Reports(pending, p) \/ Reports(debounce, p) => Reports(pending', p)
    BY <2>1, ConcatEvents DEF QueueInv
  <2> QED BY <2>1, <2>2 DEF DiskInv, Tracks
<1>11. CASE DiskChange
  <2>1. PICK p \in Paths, t \in Texts \cup {Gone}, e \in FileEvents :
           /\ disk' = [disk EXCEPT ![p] = t] /\ e.path = p
           /\ IF watching THEN debounce' = Append(debounce, e) /\ unseen' = unseen \ {p}
                          ELSE unseen' = unseen \cup {p} /\ UNCHANGED debounce
    <3>1. PICK p \in Paths, t \in Texts \cup {Gone} :
           /\ t # disk[p] /\ disk' = [disk EXCEPT ![p] = t]
           /\ IF watching
              THEN /\ debounce' = Append(debounce,
                        [kind |-> IF t = Gone THEN "deleted"
                                 ELSE IF disk[p] = Gone THEN "created"
                                 ELSE "changed", path |-> p])
                   /\ unseen' = unseen \ {p}
              ELSE /\ unseen' = unseen \cup {p}
                   /\ UNCHANGED debounce
      BY <1>11 DEF DiskChange
    <3>2. PICK e : e = [kind |-> IF t = Gone THEN "deleted"
                                 ELSE IF disk[p] = Gone THEN "created"
                                 ELSE "changed", path |-> p]
      OBVIOUS
    <3>3. e \in FileEvents /\ e.path = p
      <4>1. e.kind \in {"created", "changed", "deleted"}
        BY <3>2
      <4> QED BY <3>2, <4>1 DEF FileEvents
    <3> QED BY <3>1, <3>2, <3>3
  <2>2. UNCHANGED <<phase, gen, staged, unsaved, pending>>
    BY <1>11 DEF DiskChange, store
  <2>3. PICK q : q = Append(debounce, e)
    OBVIOUS
  <2>4. \A r \in Paths : Reports(q, r) <=> Reports(debounce, r) \/ r = p
    BY <2>1, <2>3, AppendEvent DEF QueueInv
  <2>5. \A r \in Paths : Reports(debounce, r) => Reports(debounce', r)
    BY <2>1, <2>3, <2>4
  <2>6. p \in unseen' \/ Reports(debounce', p)
    BY <2>1, <2>3, <2>4
  <2>7. \A r \in Paths \ {p} : disk'[r] = disk[r] /\ (r \in unseen' <=> r \in unseen)
    BY <2>1 DEF TypeOK
  <2> QED BY <2>2, <2>5, <2>6, <2>7 DEF DiskInv, Tracks
<1>12. CASE Rollback \/ Reload \/ WatcherLosesSync
  BY <1>12 DEF Rollback, Reload, WatcherLosesSync
<1> QED BY <1>1, <1>2, <1>3, <1>4, <1>5, <1>6, <1>7, <1>8, <1>85, <1>9, <1>10, <1>11, <1>12 DEF Next

(* What the watcher, the queue and the polls are for: once every reported change has been
   folded, the head agrees with the disk on every file without an unsaved buffer, whatever
   the order of disk changes, batches, polls and commits, and however often the watcher is
   stopped or replaced and the project is closed, dies and is opened again.  Left out are a
   watcher that loses sync (a rescan stages the store's own documents), reload (which
   forgets the buffers) and a commit that fails (its batch is lost). *)
THEOREM PolledHeadIsDisk ==
    ASSUME KeepsUp
    PROVE  Spec => []Coherent
<1>1. Init => QueueInv /\ DiskInv
  <2>1. Init => QueueInv
    BY EmptyQueue DEF Init, QueueInv
  <2>2. Init => DiskInv
    BY DEF Init, DiskInv, InCommit
  <2> QED BY <2>1, <2>2
<1>2. TypeOK /\ QueueInv /\ DiskInv /\ [Next]_vars => QueueInv' /\ DiskInv'
  BY QueueStep, DiskStep
<1>3. QueueInv /\ DiskInv => Coherent
  BY EmptyQueue DEF DiskInv, Tracks, Coherent
<1> QED BY <1>1, <1>2, <1>3, TypeCorrect, PTL DEF Spec
=============================================================================
