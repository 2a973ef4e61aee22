---------------------------- MODULE DeriveProofs ----------------------------
(* Proofs about module Derive, for every set of entities, texts, readers and layers, and
   every value of the bounds. *)
EXTENDS Derive, FiniteSetTheorems, TLAPS

(* What the producer of an entity reads, the layer as a parameter. *)
InputsFor(l, c, i) ==
    CASE l.locality = "local" -> {}
      [] l.locality = "semantic" -> Closure(c, i)
      [] OTHER -> Dependents(c, i)

(* What is read for an entity and its key, likewise. *)
ReadSetFor(l, c, i) == {i} \cup InputsFor(l, c, i)
KeyFor(l, c, i) ==
    IF l.locality = "traced" THEN Fingerprint(c, i, ReadSetFor(l, c, i))
    ELSE <<Hash(c[i]), Contents(c, InputsFor(l, c, i))>>

(* An artifact made of what these hashes are of, D being the keys with a drifted one. *)
ExactFor(D, l, x, c, i) ==
    /\ x.others = Contents(c, InputsFor(l, c, i))
    /\ KeyFor(l, c, i) \in D \/ Hash(x.own) = Hash(c[i])

(* The fields of a thread, and a revision. *)
Fields == {"pc", "at", "id", "key", "art", "todo", "deleted"}
Content == [Ids -> Texts \cup {Gone}]

(* The types of what the other invariants speak of, and where a thread can be. *)
Types ==
    /\ layer \in Layers /\ hist \in Seq(Content) /\ Rev > 0
    /\ queue \in Seq(Ids \X Nat)
    /\ DOMAIN th = Threads /\ \A t \in Threads : DOMAIN th[t] = Fields
    /\ DOMAIN bindings = Ids
    /\ \A t \in Readers : th[t].pc \in
          {"idle", "fresh", "stale", "failed", "absent", "error", "lookup", "check",
           "recheck", "serve", "produce", "bind", "bindset"}
    /\ \A t \in Writers : th[t].pc \in {"idle", "invalidate", "list", "process", "produce", "bind"}
    /\ th[Worker].pc \in {"idle", "check", "recheck", "produce", "bind", "bindset",
                          "publish", "settle"}
    /\ th[Collector].pc \in {"idle", "prune"}

(* A collection has pinned the window of the revision it began at. *)
CollectInv ==
    /\ th[Collector].at \in 0..Rev
    /\ th[Collector].pc = "prune" =>
          /\ ~Traced
          /\ \A r \in 1..th[Collector].at :
                r + RetainCap > th[Collector].at => r \in th[Collector].todo

(* An artifact of a keyed layer is what its key says, its source unless it drifted. *)
Says(D, k, x) == x.others = k[2] /\ (k \in D \/ Hash(x.own) = k[1])
CacheInv == ~Traced => \A k \in DOMAIN cache : Says(drifted, k, cache[k])

(* k is a key of i at some revision, and its artifact was made of that revision. *)
Bound(k, i) ==
    /\ k \in DOMAIN cache
    /\ \E r \in 1..Rev : /\ k = KeyFor(layer, hist[r], i)
                         /\ ExactFor(drifted, layer, cache[k], hist[r], i)

(* The bound hash of an entity of a traced layer is such a key. *)
BindingInv == Traced => \A i \in Ids : bindings[i] = None \/ Bound(bindings[i], i)

(* What a thread has in hand is of the revision it has pinned. *)
ThreadInv(t) ==
    LET r == th[t]
        c == hist[r.at]
    IN  /\ r.pc \in {"lookup", "check", "recheck", "serve", "produce", "bind", "bindset", "fresh"} =>
              r.at \in 1..Rev /\ r.id \in Ids
        /\ r.pc = "lookup" => ~Traced
        /\ r.pc \in {"check", "recheck", "bindset"} => Traced
        /\ r.pc = "recheck" => r.key = None \/ Bound(r.key, r.id)
        /\ r.pc \in {"produce", "bind", "bindset"} => r.key = KeyFor(layer, c, r.id)
        /\ r.pc \in {"bind", "bindset"} => ExactFor(drifted, layer, r.art, c, r.id)
        /\ r.pc \in {"bind", "bindset"} /\ Traced => r.key \in DOMAIN cache /\ cache[r.key] = r.art
        /\ r.pc = "fresh" /\ ~Traced => ExactFor(drifted, layer, r.art, c, r.id)
        /\ r.pc = "fresh" /\ Traced =>
              \E n \in 1..Rev :
                  /\ ExactFor(drifted, layer, r.art, hist[n], r.id)
                  /\ \A j \in ReadSetFor(layer, hist[n], r.id) : Hash(hist[n][j]) = Hash(c[j])

(* The only writer's items are keyed at the revision its hook has pinned, and nothing is
   pending between two hooks. *)
WriterInv(t) ==
    /\ th[t].pc \in {"idle", "invalidate"} => pending = {}
    /\ th[t].pc = "list" =>
          /\ th[t].at \in 1..Rev /\ (Traced => pending = {})
          /\ \A x \in pending : x.id \in Ids /\ x.key = KeyFor(layer, hist[th[t].at], x.id)
    /\ th[t].pc \in {"process", "produce", "bind"} =>
          /\ th[t].at \in 1..Rev /\ (Traced => th[t].todo = {})
          /\ \A x \in th[t].todo : x.id \in Ids /\ x.key = KeyFor(layer, hist[th[t].at], x.id)
    /\ Traced => th[t].pc \notin {"produce", "bind"}

(* The inductive invariant, for one writer. *)
DeriveInv ==
    /\ Types /\ CollectInv /\ CacheInv /\ BindingInv
    /\ \A t \in Readers \cup Writers \cup {Worker} : ThreadInv(t)
    /\ \A t \in Writers : WriterInv(t)
-----------------------------------------------------------------------------
(* The definitions of the module, with the layer as a parameter. *)
LEMMA Parametric ==
    ASSUME NEW c, NEW i
    PROVE  /\ KeyOf(c, i) = KeyFor(layer, c, i)
           /\ ReadSet(c, i) = ReadSetFor(layer, c, i)
           /\ Make(c, i).own = disk[i] /\ Make(c, i).others = Contents(c, InputsFor(layer, c, i))
           /\ \A x : Exact(x, c, i) <=> ExactFor(drifted, layer, x, c, i)
<1>1. Inputs(c, i) = InputsFor(layer, c, i)
  BY DEF Inputs, InputsFor
<1>2. KeyOf(c, i) = KeyFor(layer, c, i)
  BY <1>1 DEF KeyOf, KeyFor, ReadSet, ReadSetFor, Traced
<1>3. \A x : Exact(x, c, i) <=> ExactFor(drifted, layer, x, c, i)
  BY <1>1, <1>2 DEF Exact, ExactFor
<1> QED BY <1>1, <1>2, <1>3 DEF Make, ReadSet, ReadSetFor

(* More keys with a drifted artifact promise no more. *)
LEMMA ExactKept ==
    ASSUME NEW D, NEW E, D \subseteq E, NEW l, NEW x, NEW c, NEW i, ExactFor(D, l, x, c, i)
    PROVE  ExactFor(E, l, x, c, i)
BY DEF ExactFor

(* Deleting artifacts leaves the others. *)
LEMMA RestrictFacts ==
    ASSUME NEW S
    PROVE  LET new == Restrict(cache, DOMAIN cache \cap S)
           IN  /\ DOMAIN new = DOMAIN cache \cap S
               /\ \A j \in DOMAIN new : new[j] = cache[j]
BY DEF Restrict
-----------------------------------------------------------------------------
(* Where the threads of each kind can be. *)
Placed(t, pc) ==
    /\ t \in Readers => pc \in {"idle", "fresh", "stale", "failed", "absent", "error", "lookup",
                                "check", "recheck", "serve", "produce", "bind", "bindset"}
    /\ t \in Writers => pc \in {"idle", "invalidate", "list", "process", "produce", "bind"}
    /\ t = Worker => pc \in {"idle", "check", "recheck", "produce", "bind", "bindset",
                             "publish", "settle"}
    /\ t = Collector => pc \in {"idle", "prune"}

(* Revisions and drifted keys are only added, and a traced layer's artifacts are never
   removed. *)
Grown ==
    /\ drifted \subseteq drifted' /\ layer' = layer /\ hist' \in Seq(Content) /\ Rev' >= Rev
    /\ \A r \in 1..Rev : hist'[r] = hist[r]
    /\ Traced => \A k \in DOMAIN cache : k \in DOMAIN cache' /\ cache'[k] = cache[k]

(* A step of thread t. *)
Moves(t) ==
    /\ DOMAIN th' = Threads /\ DOMAIN th'[t] = Fields
    /\ \A u \in Threads \ {t} : th'[u] = th[u]
    /\ Placed(t, th'[t].pc)

(* A step of thread t that keeps the invariant of what it touches. *)
Keeps(t) ==
    /\ Grown /\ Moves(t)
    /\ queue' \in Seq(Ids \X Nat) /\ DOMAIN bindings' = Ids
    /\ CacheInv' /\ BindingInv'
    /\ t # Collector => ThreadInv(t)'
    /\ t = Collector => CollectInv'
    /\ t \in Writers => WriterInv(t)'
    /\ t \notin Writers => pending' = pending

(* A key that is bound stays so. *)
LEMMA BoundKept ==
    ASSUME Types, Traced, Grown, NEW k, NEW i, Bound(k, i)
    PROVE  Bound(k, i)'
<1>1. PICK r \in 1..Rev : k = KeyFor(layer, hist[r], i) /\ ExactFor(drifted, layer, cache[k], hist[r], i)
  BY DEF Bound
<1>2. hist'[r] = hist[r] /\ layer' = layer /\ cache'[k] = cache[k] /\ k \in DOMAIN cache'
  BY DEF Grown, Bound
<1>3. r \in 1..Rev' /\ drifted \subseteq drifted'
  BY DEF Grown, Types, Rev
<1>4. ExactFor(drifted', layer, cache[k], hist[r], i)
  BY <1>1, <1>3, ExactKept
<1> QED BY <1>1, <1>2, <1>3, <1>4 DEF Bound

(* The threads that do not move keep what they have in hand. *)
LEMMA ThreadKept ==
    ASSUME Types, Grown, NEW u \in Threads, th'[u] = th[u], ThreadInv(u)
    PROVE  ThreadInv(u)'
<1> DEFINE r == th[u]
<1>0. Traced' <=> Traced
  BY DEF Grown, Traced
<1>1. CASE r.pc \notin {"lookup", "check", "recheck", "serve", "produce", "bind", "bindset", "fresh"}
  BY <1>1 DEF ThreadInv
<1>2. CASE r.pc \in {"lookup", "check", "recheck", "serve", "produce", "bind", "bindset", "fresh"}
  <2>1. r.at \in 1..Rev /\ r.id \in Ids
    BY <1>2 DEF ThreadInv
  <2>2. r.at \in 1..Rev' /\ hist'[r.at] = hist[r.at] /\ layer' = layer
    BY <2>1 DEF Grown, Types, Rev
  <2>3. CASE r.pc = "recheck"
    <3>1. Traced
      BY <2>3 DEF ThreadInv
    <3>2. PICK k, i : k = r.key /\ i = r.id
      OBVIOUS
    <3>3. k = None \/ Bound(k, i)
      BY <2>3, <3>2 DEF ThreadInv
    <3>4. k = None \/ Bound(k, i)'
      BY <3>1, <3>3, BoundKept
    <3> QED BY <1>0, <2>1, <2>2, <2>3, <3>1, <3>2, <3>4 DEF ThreadInv, Bound
  <2>4. CASE r.pc = "fresh" /\ Traced
    <3>1. PICK n \in 1..Rev :
             /\ ExactFor(drifted, layer, r.art, hist[n], r.id)
             /\ \A j \in ReadSetFor(layer, hist[n], r.id) : Hash(hist[n][j]) = Hash(hist[r.at][j])
      BY <2>4 DEF ThreadInv
    <3>2. n \in 1..Rev' /\ hist'[n] = hist[n]
      BY DEF Grown, Types, Rev
    <3>3. ExactFor(drifted', layer, r.art, hist[n], r.id)
      BY <3>1, ExactKept DEF Grown
    <3> QED BY <1>0, <2>1, <2>2, <2>4, <3>1, <3>2, <3>3 DEF ThreadInv
  <2>5. CASE r.pc \in {"bind", "bindset"} \/ (r.pc = "fresh" /\ ~Traced)
    <3>1. ExactFor(drifted, layer, r.art, hist[r.at], r.id)
      BY <2>5 DEF ThreadInv
    <3>2. ExactFor(drifted', layer, r.art, hist[r.at], r.id)
      BY <3>1, ExactKept DEF Grown
    <3> QED BY <1>0, <2>1, <2>2, <2>5, <3>2 DEF ThreadInv, Grown
  <2> QED BY <1>0, <1>2, <2>1, <2>2, <2>3, <2>4, <2>5 DEF ThreadInv
<1> QED BY <1>1, <1>2

(* A step that moves one thread and keeps what the invariant says of it keeps the rest. *)
LEMMA KeepsInv ==
    ASSUME DeriveInv, NEW w, Writers = {w}, NEW t \in Threads, Keeps(t)
    PROVE  DeriveInv'
<1>0. /\ Types /\ Grown /\ Moves(t) /\ Rev \in Nat /\ Rev > 0 /\ Rev' \in Nat /\ Rev' >= Rev
      /\ Worker \in Threads /\ Collector \in Threads
      /\ \A u \in Readers \cup Writers : u \in Threads /\ u # Worker /\ u # Collector
      /\ Worker # Collector /\ Readers \cap Writers = {}
  BY DeriveAssumption DEF DeriveInv, Keeps, Types, Rev, Grown, Threads
<1>1. Traced' <=> Traced
  BY <1>0 DEF Grown, Traced
<1>2. \A u \in Threads : Placed(u, th'[u].pc) /\ DOMAIN th'[u] = Fields
  BY <1>0 DEF Moves, Types, Placed
<1>3. Types'
  <2>1. layer' \in Layers /\ hist' \in Seq(Content) /\ Rev' > 0 /\ DOMAIN th' = Threads
    BY <1>0 DEF Types, Grown, Moves
  <2> QED BY <1>0, <1>2, <2>1 DEF Types, Placed, Keeps
<1>4. CollectInv'
  <2>1. CASE t = Collector
    BY <2>1 DEF Keeps
  <2>2. CASE t # Collector
    <3>1. th'[Collector] = th[Collector]
      BY <1>0, <2>2 DEF Moves
    <3> QED BY <1>0, <1>1, <3>1 DEF DeriveInv, CollectInv
  <2> QED BY <2>1, <2>2
<1>5. \A u \in Readers \cup Writers \cup {Worker} : ThreadInv(u)'
  <2> TAKE u \in Readers \cup Writers \cup {Worker}
  <2>1. CASE u = t
    BY <1>0, <2>1 DEF Keeps
  <2>2. CASE u # t
    BY <1>0, <2>2, ThreadKept DEF DeriveInv, Moves
  <2> QED BY <2>1, <2>2
<1>6. \A u \in Writers : WriterInv(u)'
  <2> SUFFICES ASSUME t # w PROVE WriterInv(w)'
    BY DEF Keeps
  <2>1. pending' = pending /\ th'[w] = th[w] /\ WriterInv(w)
    BY <1>0 DEF Keeps, Moves, DeriveInv
  <2>2. th[w].at \in 1..Rev => th[w].at \in 1..Rev' /\ hist'[th[w].at] = hist[th[w].at]
    BY <1>0 DEF Grown
  <2>3. layer' = layer
    BY <1>0 DEF Grown
  <2> QED BY <1>1, <2>1, <2>2, <2>3 DEF WriterInv
<1> QED BY <1>3, <1>4, <1>5, <1>6 DEF DeriveInv, Keeps
-----------------------------------------------------------------------------
(* Steps that leave history, cache and bindings alone. *)
LEMMA CalmFacts ==
    ASSUME DeriveInv, UNCHANGED <<layer, hist, cache, bindings>>, drifted \subseteq drifted'
    PROVE  /\ Grown /\ CacheInv' /\ BindingInv' /\ DOMAIN bindings' = Ids
           /\ Rev' = Rev /\ (Traced' <=> Traced)
<1>1. Rev' = Rev /\ (Traced' <=> Traced) /\ Rev \in Nat /\ Types
  BY DEF Rev, Traced, DeriveInv, Types
<1>2. Grown
  BY <1>1 DEF Grown, Types
<1>3. CacheInv'
  BY <1>1 DEF DeriveInv, CacheInv, Says
<1>4. BindingInv'
  <2> SUFFICES ASSUME Traced, NEW i \in Ids, bindings[i] # None PROVE Bound(bindings[i], i)'
    BY <1>1 DEF BindingInv
  <2>1. PICK b : b = bindings[i]
    OBVIOUS
  <2>2. Bound(b, i)'
    BY <1>1, <1>2, <2>1, BoundKept DEF DeriveInv, BindingInv
  <2> QED BY <2>1, <2>2 DEF Bound
<1> QED BY <1>1, <1>2, <1>3, <1>4 DEF Types

(* The threads and the fields of their records. *)
Shaped == DOMAIN th = Threads /\ \A t \in Threads : DOMAIN th[t] = Fields

(* Types say as much. *)
LEMMA TypesShaped == Types => Shaped
BY DEF Types, Shaped

(* The record a call ends with. *)
LEMMA ServedFacts ==
    ASSUME Shaped, NEW t \in Threads, NEW status, NEW art, Served(t, status, art)
    PROVE  /\ DOMAIN th' = Threads /\ DOMAIN th'[t] = Fields
           /\ \A u \in Threads \ {t} : th'[u] = th[u]
           /\ th'[t].pc = status /\ th'[t].art = art
           /\ status = "fresh" => th'[t].at = th[t].at /\ th'[t].id = th[t].id
BY DEF Shaped, Served, Idle, Fields

(* A thread that goes on. *)
LEMMA GotoFacts ==
    ASSUME Shaped, NEW t \in Threads, NEW pc, Goto(t, pc)
    PROVE  /\ DOMAIN th' = Threads /\ DOMAIN th'[t] = Fields
           /\ \A u \in Threads \ {t} : th'[u] = th[u]
           /\ th'[t].pc = pc /\ th'[t].at = th[t].at /\ th'[t].id = th[t].id
           /\ th'[t].key = th[t].key /\ th'[t].art = th[t].art /\ th'[t].todo = th[t].todo
BY DEF Shaped, Goto, Fields

(* A thread that goes on with a key. *)
GotoKeyed(t, pc, k) == th' = [th EXCEPT ![t].pc = pc, ![t].key = k]

(* The same for a thread that takes a key along. *)
LEMMA KeyedFacts ==
    ASSUME Shaped, NEW t \in Threads, NEW pc, NEW k, GotoKeyed(t, pc, k)
    PROVE  /\ DOMAIN th' = Threads /\ DOMAIN th'[t] = Fields
           /\ \A u \in Threads \ {t} : th'[u] = th[u]
           /\ th'[t].pc = pc /\ th'[t].at = th[t].at /\ th'[t].id = th[t].id
           /\ th'[t].key = k /\ th'[t].art = th[t].art /\ th'[t].todo = th[t].todo
BY DEF Shaped, Fields, GotoKeyed

(* What is handed to the worker is an entity and a revision. *)
LEMMA EnqueueTyped ==
    ASSUME Types, NEW i \in Ids, NEW r \in Nat, Enqueue(i, r)
    PROVE  queue' \in Seq(Ids \X Nat)
<1>1. <<i, r>> \in Ids \X Nat /\ queue \in Seq(Ids \X Nat)
  BY DEF Types
<1>2. queue' = queue \/ queue' = Append(queue, <<i, r>>)
  BY DEF Enqueue, work
<1>3. ASSUME NEW S, NEW q \in Seq(S), NEW x \in S PROVE Append(q, x) \in Seq(S)
  OBVIOUS
<1> QED BY <1>1, <1>2, <1>3

(* The threads and their kinds. *)
LEMMA Kinds ==
    /\ Worker \in Threads /\ Collector \in Threads /\ Worker # Collector
    /\ \A u \in Readers \cup Writers : u \in Threads /\ u # Worker /\ u # Collector
    /\ \A u \in Readers : u \notin Writers
    /\ Worker \notin Readers \cup Writers /\ Collector \notin Readers \cup Writers
BY DeriveAssumption DEF Threads

(* A read ends with last-good or with nothing. *)
LEMMA ServeKeeps ==
    ASSUME DeriveInv, NEW t \in Readers \cup Writers \cup {Worker}, ServeLastGood(t)
    PROVE  Keeps(t)
<1>1. t \in Readers /\ t \in Threads /\ Types /\ t \notin Writers /\ t # Collector /\ t # Worker
  BY Kinds DEF DeriveInv, Types, ServeLastGood
<1>2. UNCHANGED <<drifted, layer, hist, cache, bindings, pending>>
  BY DEF ghosts, ServeLastGood, bound, sched
<1>3. th[t].at \in 1..Rev /\ th[t].id \in Ids
  BY <1>1 DEF DeriveInv, ThreadInv, ServeLastGood
<1>4. queue' \in Seq(Ids \X Nat)
  <2>1. Enqueue(th[t].id, th[t].at) \/ UNCHANGED work
    BY DEF ServeLastGood
  <2> QED BY <1>1, <1>3, <2>1, EnqueueTyped DEF Types, work
<1>5. PICK status \in {"failed", "stale", "absent"} : \E art : Served(t, status, art)
  BY Zenon DEF ServeLastGood
<1>6. Moves(t) /\ th'[t].pc = status
  BY <1>1, <1>5, ServedFacts, TypesShaped DEF Moves, Placed
<1>7. ThreadInv(t)'
  BY <1>6 DEF ThreadInv
<1> QED BY <1>1, <1>2, <1>4, <1>6, <1>7, CalmFacts DEF Keeps

(* A reader's call begins. *)
LEMMA ReadKeeps ==
    ASSUME DeriveInv, NEW t \in Readers, NEW i \in Ids, NEW r \in 1..MaxRev, Read(t, i, r)
    PROVE  Keeps(t)
<1>1. t \in Threads /\ Types /\ t \notin Writers /\ t # Collector /\ t # Worker
  BY Kinds DEF DeriveInv
<1>2. UNCHANGED <<drifted, layer, hist, cache, bindings, pending, queue>> /\ r \in 1..Rev
  BY DEF ghosts, Read, bound, sched, work, Window
<1>3. PICK pc : pc = IF Traced THEN "check" ELSE "lookup"
  OBVIOUS
<1>4. th' = [th EXCEPT ![t] = [Idle EXCEPT !.pc = pc, !.at = r, !.id = i]]
  BY <1>3 DEF Read
<1>5. th'[t].pc = pc /\ th'[t].at = r /\ th'[t].id = i /\ DOMAIN th'[t] = Fields
  BY <1>1, <1>4 DEF Types, Idle, Fields
<1>6. Moves(t)
  BY <1>1, <1>3, <1>4, <1>5 DEF Moves, Placed, Types
<1>7. ThreadInv(t)'
  BY <1>2, <1>3, <1>5, CalmFacts DEF ThreadInv
<1> QED BY <1>1, <1>2, <1>6, <1>7, CalmFacts DEF Keeps, DeriveInv, Types

(* The artifact a keyed layer has under the key of an entity is one of that entity. *)
LEMMA KeyedExact ==
    ASSUME CacheInv, ~Traced, NEW c, NEW i, KeyFor(layer, c, i) \in DOMAIN cache
    PROVE  ExactFor(drifted, layer, cache[KeyFor(layer, c, i)], c, i)
<1> DEFINE k == KeyFor(layer, c, i)
<1>1. k[1] = Hash(c[i]) /\ k[2] = Contents(c, InputsFor(layer, c, i))
  BY DEF Traced, KeyFor
<1>2. Says(drifted, k, cache[k])
  BY DEF CacheInv
<1> QED BY <1>1, <1>2 DEF ExactFor, Says

(* The key is looked up. *)
LEMMA LookupKeeps ==
    ASSUME DeriveInv, NEW t \in Readers \cup Writers \cup {Worker}, Lookup(t)
    PROVE  Keeps(t)
<1>1. t \in Readers /\ t \in Threads /\ Types /\ t \notin Writers /\ t # Collector /\ t # Worker
  BY Kinds DEF DeriveInv, Types, Lookup
<1>2. UNCHANGED <<drifted, layer, hist, cache, bindings, pending>>
  BY DEF ghosts, Lookup, bound, sched
<1>3. th[t].at \in 1..Rev /\ th[t].id \in Ids /\ ~Traced
  BY <1>1 DEF DeriveInv, ThreadInv, Lookup
<1> DEFINE i == th[t].id
           c == hist[th[t].at]
           k == KeyFor(layer, c, i)
<1>4. KeyOf(Pinned(t), th[t].id) = k
  BY Parametric DEF Pinned
<1>5. \/ k \in DOMAIN cache /\ Served(t, "fresh", cache[k]) /\ UNCHANGED work
      \/ Enqueue(i, th[t].at) /\ Goto(t, "serve")
      \/ GotoKeyed(t, "produce", k) /\ UNCHANGED work
  BY <1>4, Zenon DEF Lookup, GotoKeyed
<1>6. Rev' = Rev /\ (Traced' <=> Traced) /\ queue' \in Seq(Ids \X Nat)
  BY <1>1, <1>2, <1>3, <1>5, CalmFacts, EnqueueTyped DEF Types, work
<1>7. CASE k \in DOMAIN cache /\ Served(t, "fresh", cache[k])
  <2>1. /\ Moves(t) /\ th'[t].pc = "fresh" /\ th'[t].art = cache[k] /\ th'[t].at = th[t].at
        /\ th'[t].id = i
    BY <1>1, <1>7, ServedFacts, TypesShaped DEF Moves, Placed
  <2>2. ExactFor(drifted, layer, cache[k], c, i)
    BY <1>3, <1>7, KeyedExact DEF DeriveInv
  <2>3. ThreadInv(t)'
    BY <1>2, <1>3, <1>6, <2>1, <2>2 DEF ThreadInv
  <2> QED BY <1>1, <1>2, <1>6, <2>1, <2>3, CalmFacts DEF Keeps
<1>8. CASE Goto(t, "serve")
  <2>1. Moves(t) /\ th'[t].pc = "serve" /\ th'[t].at = th[t].at /\ th'[t].id = i
    BY <1>1, <1>8, GotoFacts, TypesShaped DEF Moves, Placed
  <2>2. ThreadInv(t)'
    BY <1>2, <1>3, <1>6, <2>1 DEF ThreadInv
  <2> QED BY <1>1, <1>2, <1>6, <2>1, <2>2, CalmFacts DEF Keeps
<1>9. CASE GotoKeyed(t, "produce", k)
  <2>1. /\ Moves(t) /\ th'[t].pc = "produce" /\ th'[t].key = k /\ th'[t].at = th[t].at
        /\ th'[t].id = i
    <3> HIDE DEF k
    <3> QED BY <1>1, <1>9, KeyedFacts, TypesShaped DEF Moves, Placed
  <2>2. ThreadInv(t)'
    BY <1>2, <1>3, <1>6, <2>1 DEF ThreadInv
  <2> QED BY <1>1, <1>2, <1>6, <2>1, <2>2, CalmFacts DEF Keeps
<1> QED BY <1>5, <1>7, <1>8, <1>9

(* The cheap check takes the bound hash. *)
LEMMA CheckKeeps ==
    ASSUME DeriveInv, NEW t \in Readers \cup Writers \cup {Worker}, Check(t)
    PROVE  Keeps(t)
<1>1. t \notin Writers /\ t \in Threads /\ Types /\ t # Collector
  BY Kinds DEF DeriveInv, Types, Check
<1>2. UNCHANGED <<drifted, layer, hist, cache, bindings, pending, queue>>
  BY DEF ghosts, Check, bound, sched, work
<1>3. th[t].at \in 1..Rev /\ th[t].id \in Ids /\ Traced
  BY DEF DeriveInv, ThreadInv, Check
<1>4. Rev' = Rev /\ (Traced' <=> Traced)
  BY <1>2, CalmFacts
<1>5. GotoKeyed(t, "recheck", bindings[th[t].id])
  BY DEF Check, GotoKeyed
<1>6. /\ th'[t].pc = "recheck" /\ th'[t].key = bindings[th[t].id] /\ th'[t].at = th[t].at
      /\ th'[t].id = th[t].id /\ Moves(t)
  BY <1>1, <1>5, KeyedFacts, TypesShaped DEF Moves, Placed
<1>7. bindings[th[t].id] = None \/ Bound(bindings[th[t].id], th[t].id)
  BY <1>3 DEF DeriveInv, BindingInv
<1>8. ThreadInv(t)'
  BY <1>2, <1>3, <1>4, <1>6, <1>7 DEF ThreadInv, Bound
<1> QED BY <1>1, <1>2, <1>6, <1>8, CalmFacts DEF Keeps, DeriveInv, Types

(* The hash of an entity is no missing value. *)
LEMMA HashIsThere ==
    ASSUME NEW c \in Content, NEW i \in Ids
    PROVE  Hash(c[i]) \in Texts \cup {Gone} /\ Hash(c[i]) # None
<1>1. c[i] \in Texts \cup {Gone}
  BY DEF Content
<1>2. Hash(c[i]) \in Texts \cup {Gone}
  BY <1>1, DeriveAssumption DEF Hash
<1> QED BY <1>2, DeriveAssumption

(* Equal fingerprints are of equal hashes: c and d agree on what is read at c. *)
LEMMA FingerprintInjective ==
    ASSUME NEW c \in Content, NEW d \in Content, NEW i \in Ids, NEW R, NEW S,
           i \in R, Fingerprint(c, i, R) = Fingerprint(d, i, S)
    PROVE  \A j \in R : Hash(c[j]) = Hash(d[j])
<1>1. Hash(c[i]) # None /\ Hash(d[i]) # None
  BY HashIsThere
<1>2. CASE R = {i} /\ S = {i}
  BY <1>2 DEF Fingerprint
<1>3. CASE R = {i} /\ S # {i}
  BY <1>1, <1>3 DEF Fingerprint
<1>4. CASE R # {i} /\ S = {i}
  BY <1>1, <1>4 DEF Fingerprint
<1>5. CASE R # {i} /\ S # {i}
  <2>1. Contents(c, R) = Contents(d, S)
    BY <1>5 DEF Fingerprint
  <2>2. DOMAIN Contents(c, R) = R /\ DOMAIN Contents(d, S) = S
    BY DEF Contents
  <2>3. \A j \in R : Contents(c, R)[j] = Hash(c[j]) /\ Contents(d, S)[j] = Hash(d[j])
    BY <2>1, <2>2 DEF Contents
  <2> QED BY <2>1, <2>3
<1> QED BY <1>2, <1>3, <1>4, <1>5

(* A hit of the cheap check: whatever read set the binding was compared over, the
   artifact was made of a revision that agrees with the pinned one on all it read. *)
LEMMA HitExact ==
    ASSUME DeriveInv, NEW t \in Readers \cup Writers \cup {Worker}, th[t].pc = "recheck", Hit(t)
    PROVE  \E n \in 1..Rev :
              /\ ExactFor(drifted, layer, cache[th[t].key], hist[n], th[t].id)
              /\ \A j \in ReadSetFor(layer, hist[n], th[t].id) :
                    Hash(hist[n][j]) = Hash(hist[th[t].at][j])
<1> DEFINE i == th[t].id
           k == th[t].key
<1>1. /\ th[t].at \in 1..Rev /\ i \in Ids /\ Traced /\ (k = None \/ Bound(k, i))
  BY DEF DeriveInv, ThreadInv
<1>2. Bound(k, i) /\ k = Fingerprint(hist[th[t].at], i, readSets[i])
  BY <1>1 DEF Hit, Pinned
<1>3. PICK n \in 1..Rev : k = KeyFor(layer, hist[n], i) /\ ExactFor(drifted, layer, cache[k], hist[n], i)
  BY <1>2 DEF Bound
<1>4. hist[n] \in Content /\ hist[th[t].at] \in Content
  BY <1>1 DEF DeriveInv, Types, Rev
<1>5. k = Fingerprint(hist[n], i, ReadSetFor(layer, hist[n], i)) /\ i \in ReadSetFor(layer, hist[n], i)
  BY <1>1, <1>3 DEF KeyFor, Traced, ReadSetFor
<1>6. \A j \in ReadSetFor(layer, hist[n], i) : Hash(hist[n][j]) = Hash(hist[th[t].at][j])
  <2> DEFINE R == ReadSetFor(layer, hist[n], i)
             S == readSets[i]
             c == hist[n]
             d == hist[th[t].at]
  <2>1. /\ c \in Content /\ d \in Content /\ i \in Ids /\ i \in R
        /\ Fingerprint(c, i, R) = Fingerprint(d, i, S)
    BY <1>1, <1>2, <1>4, <1>5
  <2>2. \A j \in R : Hash(c[j]) = Hash(d[j])
    <3> HIDE DEF i, R, S, c, d
    <3> QED BY <2>1, FingerprintInjective
  <2> QED BY <2>2
<1> QED BY <1>3, <1>6

(* The cheap check compares. *)
LEMMA RecheckKeeps ==
    ASSUME DeriveInv, NEW t \in Readers \cup Writers \cup {Worker}, Recheck(t)
    PROVE  Keeps(t)
<1>1. t \notin Writers /\ t \in Threads /\ Types /\ t # Collector /\ th[t].pc = "recheck"
  BY Kinds DEF DeriveInv, Types, Recheck
<1>2. UNCHANGED <<drifted, layer, hist, cache, bindings, pending, queue>>
  BY DEF ghosts, Recheck, bound, sched, work
<1>3. th[t].at \in 1..Rev /\ th[t].id \in Ids /\ Traced
  BY DEF DeriveInv, ThreadInv, Recheck
<1>4. Rev' = Rev /\ (Traced' <=> Traced)
  BY <1>2, CalmFacts
<1> SUFFICES Moves(t) /\ ThreadInv(t)'
  BY <1>1, <1>2, CalmFacts DEF Keeps, DeriveInv, Types
<1> DEFINE k == KeyFor(layer, hist[th[t].at], th[t].id)
<1>5. KeyOf(Pinned(t), th[t].id) = k
  BY Parametric DEF Pinned
<1>6. \/ t = Worker /\ Goto(t, "publish")
      \/ Hit(t) /\ t # Worker /\ Served(t, "fresh", cache[th[t].key])
      \/ t # Worker /\ Goto(t, "serve")
      \/ GotoKeyed(t, "produce", k)
  BY <1>5, Zenon DEF Recheck, GotoKeyed
<1>7. CASE t = Worker /\ Goto(t, "publish")
  <2>1. th'[t].pc = "publish" /\ Moves(t)
    BY <1>1, <1>7, GotoFacts, TypesShaped, Kinds DEF Moves, Placed
  <2> QED BY <2>1 DEF ThreadInv
<1>8. CASE Hit(t) /\ t # Worker /\ Served(t, "fresh", cache[th[t].key])
  <2>1. /\ Moves(t) /\ th'[t].pc = "fresh" /\ th'[t].art = cache[th[t].key]
        /\ th'[t].at = th[t].at /\ th'[t].id = th[t].id
    BY <1>1, <1>8, ServedFacts, TypesShaped DEF Moves, Placed
  <2>2. PICK n \in 1..Rev :
           /\ ExactFor(drifted, layer, cache[th[t].key], hist[n], th[t].id)
           /\ \A j \in ReadSetFor(layer, hist[n], th[t].id) :
                 Hash(hist[n][j]) = Hash(hist[th[t].at][j])
    BY <1>1, <1>8, HitExact
  <2> QED BY <1>2, <1>3, <1>4, <2>1, <2>2 DEF ThreadInv
<1>9. CASE t # Worker /\ Goto(t, "serve")
  <2>1. th'[t].pc = "serve" /\ Moves(t) /\ th'[t].at = th[t].at /\ th'[t].id = th[t].id
    BY <1>1, <1>9, GotoFacts, TypesShaped, Kinds DEF Moves, Placed
  <2> QED BY <1>2, <1>3, <1>4, <2>1 DEF ThreadInv
<1>10. CASE GotoKeyed(t, "produce", k)
  <2>1. /\ Moves(t) /\ th'[t].pc = "produce" /\ th'[t].key = k /\ th'[t].at = th[t].at
        /\ th'[t].id = th[t].id
    <3> HIDE DEF k
    <3> QED BY <1>1, <1>10, KeyedFacts, TypesShaped DEF Moves, Placed
  <2> QED BY <1>2, <1>3, <1>4, <2>1 DEF ThreadInv
<1> QED BY <1>6, <1>7, <1>8, <1>9, <1>10

(* The steps after a produce keep the writer's items. *)
LEMMA WriterOn ==
    ASSUME DeriveInv, Grown, NEW t \in Writers, th[t].pc \in {"produce", "bind"},
           th'[t].pc \in {"process", "produce", "bind"}, th'[t].at = th[t].at,
           th'[t].todo \subseteq th[t].todo
    PROVE  WriterInv(t)'
<1>1. WriterInv(t) /\ ~Traced /\ (Traced' <=> Traced) /\ layer' = layer
  BY DEF DeriveInv, WriterInv, Grown, Traced
<1>2. th[t].at \in 1..Rev /\ th[t].at \in 1..Rev' /\ hist'[th[t].at] = hist[th[t].at]
  BY <1>1 DEF DeriveInv, WriterInv, Grown, Types, Rev
<1> QED BY <1>1, <1>2 DEF WriterInv

(* Where each kind of thread goes on after a produce. *)
LEMMA AfterProduceIs ==
    /\ AfterProduce(Worker) = "publish"
    /\ \A t \in Writers : AfterProduce(t) = "process"
    /\ \A t \in Readers : AfterProduce(t) = "serve"
BY Kinds, Zenon DEF AfterProduce

(* A produce that came to nothing. *)
Gives(t, pc) ==
    \/ th' = [th EXCEPT ![t].key = None, ![t].pc = pc]
    \/ th' = [th EXCEPT ![t].pc = pc, ![t].key = None]

(* It keeps what it works on. *)
LEMMA GivesFacts ==
    ASSUME Shaped, NEW t \in Threads, NEW pc, Gives(t, pc)
    PROVE  /\ DOMAIN th' = Threads /\ DOMAIN th'[t] = Fields
           /\ \A u \in Threads \ {t} : th'[u] = th[u]
           /\ th'[t].pc = pc /\ th'[t].at = th[t].at /\ th'[t].id = th[t].id
           /\ th'[t].todo = th[t].todo
BY DEF Shaped, Fields, Gives

(* The artifact is put in the cache; its source has the hash of the key, or has drifted. *)
Stored(t) ==
    LET k == th[t].key
        art == Make(Pinned(t), th[t].id)
    IN  /\ drifted' = IF Hash(disk[th[t].id]) = Hash(Pinned(t)[th[t].id]) THEN drifted
                     ELSE drifted \cup {k}
        /\ k \in DOMAIN cache => cache[k] = art
        /\ cache' = [j \in DOMAIN cache \cup {k} |-> IF j = k THEN art ELSE cache[j]]
        /\ th' = [th EXCEPT ![t].pc = "bind", ![t].art = art]

(* A produce stores its artifact, or leaves the cache alone and gives up. *)
LEMMA ProduceOutcome ==
    ASSUME NEW t, Produce(t)
    PROVE  /\ th[t].pc = "produce" /\ UNCHANGED <<layer, hist, bindings, pending, queue>>
           /\ drifted \subseteq drifted'
           /\ \/ Stored(t)
              \/ cache' = cache /\ Gives(t, AfterProduce(t))
              \/ cache' = cache /\ Traced /\ t = Worker /\ Gives(t, "settle")
              \/ cache' = cache /\ Traced /\ t # Worker /\ Gives(t, "error")
<1>1. th[t].pc = "produce" /\ UNCHANGED <<layer, hist, bindings, pending, queue>>
  BY DEF Produce, work
<1>0. drifted \subseteq drifted'
  BY DEF Produce
<1>2. CASE /\ Put(t, Make(Pinned(t), th[t].id))
           /\ drifted' = IF Hash(disk[th[t].id]) = Hash(Pinned(t)[th[t].id]) THEN drifted
                         ELSE drifted \cup {th[t].key}
  <2>1. Stored(t) \/ (/\ cache' = cache
                      /\ th' = [th EXCEPT ![t].key = None,
                                    ![t].pc = IF ~Traced THEN AfterProduce(t)
                                              ELSE IF t = Worker THEN "settle" ELSE "error"])
    BY <1>2, Zenon DEF Put, Stored
  <2>2. CASE ~Traced
    BY <1>0, <1>1, <2>1, <2>2, Zenon DEF Gives
  <2>3. CASE Traced /\ t = Worker
    BY <1>0, <1>1, <2>1, <2>3, Zenon DEF Gives
  <2>4. CASE Traced /\ t # Worker
    BY <1>0, <1>1, <2>1, <2>4, Zenon DEF Gives
  <2> QED BY <2>2, <2>3, <2>4
<1>3. CASE cache' = cache /\ Gives(t, AfterProduce(t))
  BY <1>0, <1>1, <1>3
<1> QED BY <1>2, <1>3, Zenon DEF Produce, Gives

(* The generator runs. *)
LEMMA ProduceKeeps ==
    ASSUME DeriveInv, NEW t \in Readers \cup Writers \cup {Worker}, Produce(t)
    PROVE  Keeps(t)
<1>1. t \in Threads /\ Types /\ t # Collector /\ th[t].pc = "produce" /\ (t \in Writers => ~Traced)
  BY Kinds, ProduceOutcome DEF DeriveInv, WriterInv
<1>2. UNCHANGED <<layer, hist, bindings, pending, queue>> /\ drifted \subseteq drifted'
  BY ProduceOutcome
<1>3. th[t].at \in 1..Rev /\ th[t].id \in Ids /\ th[t].key = KeyFor(layer, hist[th[t].at], th[t].id)
  BY <1>1 DEF DeriveInv, ThreadInv
<1>4. /\ Rev' = Rev /\ (Traced' <=> Traced) /\ queue' \in Seq(Ids \X Nat)
      /\ DOMAIN bindings' = Ids /\ Rev \in Nat
  BY <1>1, <1>2 DEF Rev, Traced, Types
<1>5. CASE Stored(t)
  <2> DEFINE k == th[t].key
             art == Make(Pinned(t), th[t].id)
  <2>1. /\ k \in DOMAIN cache => cache[k] = art
        /\ cache' = [j \in DOMAIN cache \cup {k} |-> IF j = k THEN art ELSE cache[j]]
        /\ th' = [th EXCEPT ![t].pc = "bind", ![t].art = art]
    BY <1>5 DEF Stored
  <2>0. ExactFor(drifted', layer, art, hist[th[t].at], th[t].id) /\ drifted \subseteq drifted'
    <3>1. \/ Hash(disk[th[t].id]) = Hash(hist[th[t].at][th[t].id])
          \/ k \in drifted'
      BY <1>5 DEF Stored, Pinned
    <3>2. /\ art.own = disk[th[t].id]
          /\ art.others = Contents(hist[th[t].at], InputsFor(layer, hist[th[t].at], th[t].id))
      BY Parametric DEF Pinned
    <3> HIDE DEF art
    <3> QED BY <1>3, <3>1, <3>2, ProduceOutcome DEF ExactFor
  <2>2. /\ DOMAIN th' = Threads /\ DOMAIN th'[t] = Fields
        /\ \A u \in Threads \ {t} : th'[u] = th[u]
        /\ th'[t].pc = "bind" /\ th'[t].art = art /\ th'[t].at = th[t].at
        /\ th'[t].id = th[t].id /\ th'[t].key = k /\ th'[t].todo = th[t].todo
    <3> HIDE DEF art
    <3> QED BY <1>1, <2>1 DEF Types, Fields
  <2>3. Moves(t)
    BY <1>1, <2>2 DEF Moves, Placed
  <2>4. /\ k \in DOMAIN cache' /\ cache'[k] = art /\ DOMAIN cache' = DOMAIN cache \cup {k}
        /\ \A j \in DOMAIN cache : cache'[j] = cache[j]
    <3> HIDE DEF k, art
    <3> QED BY <2>1
  <2>5. Grown
    <3> HIDE DEF k, art
    <3> QED BY <1>1, <1>2, <1>4, <2>0, <2>4 DEF Grown, Types
  <2>6. CacheInv'
    <3>1. ~Traced => /\ k[1] = Hash(hist[th[t].at][th[t].id])
                     /\ k[2] = Contents(hist[th[t].at], InputsFor(layer, hist[th[t].at], th[t].id))
      BY <1>3 DEF KeyFor, Traced
    <3>2. ~Traced => Says(drifted', k, art)
      <4> HIDE DEF art
      <4> QED BY <1>3, <2>0, <3>1 DEF ExactFor, Says
    <3>3. ~Traced => \A j \in DOMAIN cache : Says(drifted', j, cache[j])
      BY <2>0 DEF DeriveInv, CacheInv, Says
    <3> HIDE DEF k, art
    <3> QED BY <1>4, <2>4, <3>2, <3>3 DEF CacheInv
  <2>7. BindingInv'
    <3> SUFFICES ASSUME Traced, NEW i \in Ids, bindings[i] # None PROVE Bound(bindings[i], i)'
      BY <1>2, <1>4 DEF BindingInv
    <3>1. PICK b : b = bindings[i]
      OBVIOUS
    <3>2. Bound(b, i)'
      BY <1>1, <2>5, <3>1, BoundKept DEF DeriveInv, BindingInv
    <3> QED BY <1>2, <3>1, <3>2 DEF Bound
  <2>8. ThreadInv(t)'
    <3> HIDE DEF art
    <3> QED BY <1>2, <1>3, <1>4, <2>0, <2>2, <2>4 DEF ThreadInv
  <2>9. t \in Writers => WriterInv(t)'
    BY <1>1, <2>2, <2>5, WriterOn
  <2> QED BY <1>1, <1>2, <1>4, <2>3, <2>5, <2>6, <2>7, <2>8, <2>9 DEF Keeps
<1>6. ASSUME cache' = cache, NEW pc, Gives(t, pc), Placed(t, pc),
             pc \in {"publish", "process", "serve", "settle", "error"},
             t \in Writers => pc = "process"
      PROVE  Keeps(t)
  <2>1. /\ Moves(t) /\ th'[t].pc = pc /\ th'[t].at = th[t].at /\ th'[t].id = th[t].id
        /\ th'[t].todo = th[t].todo
    BY <1>1, <1>6, GivesFacts, TypesShaped DEF Moves
  <2>2. Grown /\ CacheInv' /\ BindingInv'
    BY <1>2, <1>6, CalmFacts
  <2>3. ThreadInv(t)'
    BY <1>2, <1>3, <1>4, <1>6, <2>1 DEF ThreadInv
  <2>4. t \in Writers => WriterInv(t)'
    BY <1>1, <1>6, <2>1, <2>2, WriterOn
  <2> QED BY <1>1, <1>2, <1>4, <2>1, <2>2, <2>3, <2>4 DEF Keeps
<1>7. CASE cache' = cache /\ Gives(t, AfterProduce(t))
  <2>1. /\ Placed(t, AfterProduce(t)) /\ AfterProduce(t) \in {"publish", "process", "serve"}
        /\ t \in Writers => AfterProduce(t) = "process"
    BY Kinds, AfterProduceIs DEF Placed
  <2> QED BY <1>6, <1>7, <2>1
<1>8. CASE cache' = cache /\ Traced /\ t = Worker /\ Gives(t, "settle")
  BY <1>6, <1>8, Kinds DEF Placed
<1>9. CASE cache' = cache /\ Traced /\ t # Worker /\ Gives(t, "error")
  <2>1. Placed(t, "error")
    BY <1>1, <1>9 DEF Placed
  <2> QED BY <1>1, <1>6, <1>9, <2>1
<1> QED BY <1>5, <1>7, <1>8, <1>9, ProduceOutcome

(* The end of a produce whose artifact is the pinned revision's. *)
LEMMA ReturnMoves ==
    ASSUME DeriveInv, NEW t \in Readers \cup Writers \cup {Worker}, Return(t),
           th[t].pc \in {"bind", "bindset"}, UNCHANGED <<drifted, layer, hist, cache>>
    PROVE  /\ Moves(t) /\ ThreadInv(t)'
           /\ t \in Writers => WriterInv(t)'
<1>1. t \in Threads /\ Types /\ t # Collector
  BY Kinds DEF DeriveInv
<1>2. /\ th[t].at \in 1..Rev /\ th[t].id \in Ids
      /\ ExactFor(drifted, layer, th[t].art, hist[th[t].at], th[t].id)
      /\ Rev' = Rev /\ (Traced' <=> Traced) /\ Rev \in Nat
  BY <1>1 DEF DeriveInv, ThreadInv, Rev, Traced, Types
<1>3. Grown
  BY <1>1, <1>2 DEF Grown, Types
<1>4. CASE t \in Readers
  <2>1. Served(t, "fresh", th[t].art)
    BY <1>4 DEF Return
  <2>2. /\ Moves(t) /\ th'[t].pc = "fresh" /\ th'[t].art = th[t].art /\ th'[t].at = th[t].at
        /\ th'[t].id = th[t].id
    BY <1>1, <1>4, <2>1, ServedFacts, TypesShaped, Kinds DEF Moves, Placed
  <2>3. ThreadInv(t)'
    <3>1. /\ th'[t].at \in 1..Rev' /\ hist'[th'[t].at] = hist[th[t].at] /\ th'[t].id \in Ids
          /\ ExactFor(drifted', layer', th'[t].art, hist'[th'[t].at], th'[t].id)
      BY <1>2, <2>2
    <3>2. \A j \in ReadSetFor(layer', hist'[th'[t].at], th'[t].id) :
             Hash(hist'[th'[t].at][j]) = Hash(hist'[th'[t].at][j])
      OBVIOUS
    <3> QED BY <2>2, <3>1, <3>2, Zenon DEF ThreadInv
  <2> QED BY <1>4, <2>2, <2>3, Kinds
<1>5. CASE t \notin Readers
  <2>1. PICK pc : pc = AfterProduce(t)
    OBVIOUS
  <2>2. Goto(t, pc) /\ (t = Worker => pc = "publish") /\ (t \in Writers => pc = "process")
    BY <1>5, <2>1, AfterProduceIs DEF Return
  <2>3. /\ Moves(t) /\ th'[t].pc = pc /\ th'[t].at = th[t].at /\ th'[t].todo = th[t].todo
    BY <1>1, <1>5, <2>2, GotoFacts, TypesShaped, Kinds DEF Moves, Placed
  <2>4. ThreadInv(t)'
    BY <1>5, <2>2, <2>3 DEF ThreadInv
  <2>5. t \in Writers => WriterInv(t)'
    <3> SUFFICES ASSUME t \in Writers PROVE WriterInv(t)'
      OBVIOUS
    <3>1. th[t].pc = "bind"
      BY <1>1 DEF Types
    <3> QED BY <1>3, <2>2, <2>3, <3>1, WriterOn
  <2> QED BY <2>3, <2>4, <2>5
<1> QED BY <1>4, <1>5

(* The entity is bound to the key its artifact is stored under. *)
LEMMA BindKeeps ==
    ASSUME DeriveInv, NEW t \in Readers \cup Writers \cup {Worker}, Bind(t)
    PROVE  Keeps(t)
<1>1. t \in Threads /\ Types /\ t # Collector /\ th[t].pc = "bind" /\ (t \in Writers => ~Traced)
  BY Kinds DEF DeriveInv, WriterInv, Bind
<1>2. UNCHANGED <<drifted, layer, hist, cache, pending, queue>>
  BY DEF ghosts, Bind, work
<1>3. /\ th[t].at \in 1..Rev /\ th[t].id \in Ids /\ th[t].key = KeyFor(layer, hist[th[t].at], th[t].id)
      /\ ExactFor(drifted, layer, th[t].art, hist[th[t].at], th[t].id)
      /\ Traced => th[t].key \in DOMAIN cache /\ cache[th[t].key] = th[t].art
  BY <1>1 DEF DeriveInv, ThreadInv
<1>4. /\ Rev' = Rev /\ (Traced' <=> Traced) /\ queue' \in Seq(Ids \X Nat) /\ Rev \in Nat
  BY <1>1, <1>2 DEF Rev, Traced, Types
<1>5. Grown /\ CacheInv'
  BY <1>1, <1>2, <1>4 DEF Grown, Types, DeriveInv, CacheInv
<1>6. bindings' = [bindings EXCEPT ![th[t].id] = th[t].key]
  BY DEF Bind
<1>7. DOMAIN bindings' = Ids
  BY <1>1, <1>6 DEF Types
<1>8. BindingInv'
  <2> SUFFICES ASSUME Traced, NEW i \in Ids, bindings'[i] # None PROVE Bound(bindings[i], i)'
    BY <1>4 DEF BindingInv
  <2>1. Bound(th[t].key, th[t].id)
    BY <1>3 DEF Bound
  <2>2. bindings'[i] = IF i = th[t].id THEN th[t].key ELSE bindings[i]
    BY <1>1, <1>6 DEF Types
  <2>3. PICK b : b = bindings'[i]
    OBVIOUS
  <2>4. Bound(b, i)
    BY <2>1, <2>2, <2>3 DEF DeriveInv, BindingInv
  <2> QED BY <1>2, <1>4, <2>3, <2>4 DEF Bound
<1>9. Moves(t) /\ ThreadInv(t)' /\ (t \in Writers => WriterInv(t)')
  <2>1. CASE Traced /\ Goto(t, "bindset")
    <3>1. /\ Moves(t) /\ th'[t].pc = "bindset" /\ th'[t].at = th[t].at /\ th'[t].id = th[t].id
          /\ th'[t].key = th[t].key /\ th'[t].art = th[t].art
      BY <1>1, <2>1, GotoFacts, TypesShaped DEF Moves, Placed
    <3>2. ThreadInv(t)'
      BY <1>2, <1>3, <1>4, <2>1, <3>1 DEF ThreadInv
    <3> QED BY <1>1, <2>1, <3>1, <3>2
  <2>2. CASE Return(t)
    BY <1>1, <1>2, <2>2, ReturnMoves
  <2> QED BY <2>1, <2>2, Zenon DEF Bind
<1> QED BY <1>1, <1>2, <1>4, <1>5, <1>7, <1>8, <1>9 DEF Keeps

(* The read set is recorded. *)
LEMMA BindReadSetKeeps ==
    ASSUME DeriveInv, NEW t \in Readers \cup Writers \cup {Worker}, BindReadSet(t)
    PROVE  Keeps(t)
<1>1. t \in Threads /\ Types /\ t # Collector /\ th[t].pc = "bindset" /\ t \notin Writers
  BY Kinds DEF DeriveInv, Types, BindReadSet
<1>2. UNCHANGED <<drifted, layer, hist, cache, bindings, pending, queue>> /\ Return(t)
  BY DEF ghosts, BindReadSet, work, sched
<1>3. Moves(t) /\ ThreadInv(t)'
  BY <1>1, <1>2, ReturnMoves
<1> QED BY <1>1, <1>2, <1>3, CalmFacts DEF Keeps, Types
-----------------------------------------------------------------------------
(* A thread that begins a call, or ends one. *)
Begins(t, r) == th' = [th EXCEPT ![t] = r]

(* Only its record moves. *)
LEMMA BeginsFacts ==
    ASSUME Shaped, NEW t \in Threads, NEW r, DOMAIN r = Fields, Begins(t, r)
    PROVE  /\ DOMAIN th' = Threads /\ DOMAIN th'[t] = Fields
           /\ \A u \in Threads \ {t} : th'[u] = th[u]
           /\ th'[t] = r
BY DEF Shaped, Begins

(* The worker takes an item. *)
LEMMA TakeKeeps ==
    ASSUME DeriveInv, Take
    PROVE  Keeps(Worker)
<1>1. Types /\ Worker \in Threads /\ Worker # Collector /\ Worker \notin Writers /\ Worker \notin Readers
  BY Kinds DEF DeriveInv
<1>2. UNCHANGED <<drifted, layer, hist, cache, bindings, pending>> /\ queue # <<>> /\ queue' = Tail(queue)
  BY DEF ghosts, Take, bound, sched
<1>3. PICK item : item = Head(queue)
  OBVIOUS
<1>4. item \in Ids \X Nat /\ queue' \in Seq(Ids \X Nat)
  <2>1. ASSUME NEW S, NEW q \in Seq(S), q # <<>> PROVE Head(q) \in S /\ Tail(q) \in Seq(S)
    BY <2>1
  <2> QED BY <1>1, <1>2, <1>3, <2>1 DEF Types
<1>5. PICK i \in Ids, n \in Nat : item[1] = i /\ item[2] = n
  BY <1>4
<1>6. PICK pc : pc = CASE n \notin Window -> "settle"
                       [] n \in Window /\ Traced -> "check"
                       [] OTHER -> "produce"
  OBVIOUS
<1>7. /\ pc = "settle" \/ (pc = "check" /\ n \in Window /\ Traced)
         \/ (pc = "produce" /\ n \in Window /\ ~Traced)
  <2>1. CASE n \notin Window
    BY <1>6, <2>1, Zenon
  <2>2. CASE n \in Window /\ Traced
    BY <1>6, <2>2, Zenon
  <2>3. CASE n \in Window /\ ~Traced
    BY <1>6, <2>3, Zenon
  <2> QED BY <2>1, <2>2, <2>3
<1>8. PICK k : k = IF Traced THEN None ELSE KeyOf(hist[n], i)
  OBVIOUS
<1>9. Begins(Worker, [Idle EXCEPT !.id = i, !.at = n, !.pc = pc, !.key = k])
  BY <1>3, <1>5, <1>6, <1>8, Zenon DEF Take, Begins
<1>10. PICK r : r = [Idle EXCEPT !.id = i, !.at = n, !.pc = pc, !.key = k]
  OBVIOUS
<1>11. DOMAIN r = Fields /\ r.id = i /\ r.at = n /\ r.pc = pc /\ r.key = k
  BY <1>10 DEF Idle, Fields
<1>12. Moves(Worker) /\ th'[Worker] = r
  BY <1>1, <1>7, <1>9, <1>10, <1>11, BeginsFacts, TypesShaped DEF Moves, Placed
<1>13. ThreadInv(Worker)'
  <2>1. Rev' = Rev /\ (Traced' <=> Traced)
    BY <1>2, CalmFacts
  <2>2. n \in Window => n \in 1..Rev
    BY DEF Window
  <2>3. pc = "produce" => k = KeyFor(layer, hist[n], i)
    BY <1>7, <1>8, Parametric
  <2> QED BY <1>2, <1>7, <1>11, <1>12, <2>1, <2>2, <2>3 DEF ThreadInv
<1> QED BY <1>1, <1>2, <1>4, <1>12, <1>13, CalmFacts DEF Keeps

(* The worker is done with its item. *)
LEMMA SettleKeeps ==
    ASSUME DeriveInv, Settle
    PROVE  Keeps(Worker)
<1>1. Types /\ Worker \in Threads /\ Worker # Collector /\ Worker \notin Writers /\ Worker \notin Readers
  BY Kinds DEF DeriveInv
<1>2. UNCHANGED <<drifted, layer, hist, cache, bindings, pending, queue>> /\ Begins(Worker, Idle)
  BY DEF ghosts, Settle, bound, sched, Begins
<1>3. DOMAIN Idle = Fields /\ Idle.pc = "idle"
  BY DEF Idle, Fields
<1>4. Moves(Worker) /\ th'[Worker] = Idle
  BY <1>1, <1>2, <1>3, BeginsFacts, TypesShaped DEF Moves, Placed
<1>5. ThreadInv(Worker)'
  BY <1>3, <1>4 DEF ThreadInv
<1> QED BY <1>1, <1>2, <1>4, <1>5, CalmFacts DEF Keeps, Types

(* A collection pins the window. *)
LEMMA GcPinKeeps ==
    ASSUME DeriveInv, GcPin
    PROVE  Keeps(Collector)
<1>1. Types /\ Collector \in Threads /\ Worker # Collector /\ Collector \notin Writers /\ Collector \notin Readers
  BY Kinds DEF DeriveInv
<1>2. UNCHANGED <<drifted, layer, hist, cache, bindings, pending, queue>> /\ ~Traced
  BY DEF ghosts, GcPin, bound, sched, work
<1>3. PICK n, W, r : n = Rev /\ W = Window /\ r = [Idle EXCEPT !.pc = "prune", !.at = n, !.todo = W]
  OBVIOUS
<1>4. Begins(Collector, r)
  BY <1>3 DEF GcPin, Begins
<1>5. DOMAIN r = Fields /\ r.pc = "prune" /\ r.at = n /\ r.todo = W
  BY <1>3 DEF Idle, Fields
<1>6. Moves(Collector) /\ th'[Collector] = r
  BY <1>1, <1>4, <1>5, BeginsFacts, TypesShaped DEF Moves, Placed
<1>7. CollectInv'
  <2>1. Rev' = Rev /\ (Traced' <=> Traced) /\ Rev \in Nat
    BY <1>1, <1>2, CalmFacts DEF Types, Rev
  <2>2. \A m \in 1..Rev : m + RetainCap > Rev => m \in W
    BY <1>3 DEF Window
  <2> QED BY <1>2, <1>3, <1>5, <1>6, <2>1, <2>2 DEF CollectInv
<1> QED BY <1>1, <1>2, <1>6, <1>7, CalmFacts DEF Keeps, Types

(* A collection deletes only from a keyed layer's cache. *)
LEMMA GcPruneKeeps ==
    ASSUME DeriveInv, GcPrune
    PROVE  Keeps(Collector)
<1>1. Types /\ Collector \in Threads /\ Worker # Collector /\ Collector \notin Writers /\ Collector \notin Readers
  BY Kinds DEF DeriveInv
<1>2. UNCHANGED <<drifted, layer, hist, bindings, pending, queue>> /\ Begins(Collector, Idle) /\ ~Traced
  BY DEF ghosts, GcPrune, bound, sched, work, Begins, DeriveInv, CollectInv
<1>3. DOMAIN cache' \subseteq DOMAIN cache /\ \A j \in DOMAIN cache' : cache'[j] = cache[j]
  <2>1. PICK S : cache' = cache \/ cache' = Restrict(cache, DOMAIN cache \cap S)
    BY Zenon DEF GcPrune
  <2> QED BY <2>1, RestrictFacts
<1>4. Rev' = Rev /\ (Traced' <=> Traced) /\ Rev \in Nat
  BY <1>1, <1>2 DEF Rev, Traced, Types
<1>5. Grown /\ CacheInv' /\ BindingInv'
  BY <1>1, <1>2, <1>3, <1>4 DEF Grown, Types, DeriveInv, CacheInv, BindingInv
<1>6. DOMAIN Idle = Fields /\ Idle.pc = "idle" /\ Idle.at = 0
  BY DEF Idle, Fields
<1>7. Moves(Collector) /\ th'[Collector] = Idle
  BY <1>1, <1>2, <1>6, BeginsFacts, TypesShaped DEF Moves, Placed
<1>8. CollectInv'
  BY <1>4, <1>6, <1>7 DEF CollectInv
<1> QED BY <1>1, <1>2, <1>5, <1>7, <1>8 DEF Keeps, Types
-----------------------------------------------------------------------------
(* A write adds a revision; nothing is pending when its hook begins. *)
LEMMA CommitKeeps ==
    ASSUME DeriveInv, NEW t \in Writers, NEW e \in Edits, Commit(t, e[1], e[2])
    PROVE  Keeps(t)
<1>1. Types /\ t \in Threads /\ t # Worker /\ t # Collector /\ t \notin Readers /\ th[t].pc = "idle"
  BY Kinds DEF DeriveInv, Commit
<1>2. UNCHANGED <<drifted, layer, cache, bindings, pending, queue>> /\ pending = {}
  BY <1>1 DEF ghosts, Commit, bound, sched, work, DeriveInv, WriterInv
<1>3. PICK i \in Ids, text \in Texts \cup {Gone} : e[1] = i /\ e[2] = text
  BY DeriveAssumption
<1>4. PICK d : d = [hist[Rev] EXCEPT ![i] = text]
  OBVIOUS
<1>5. d \in Content /\ hist' = Append(hist, d) /\ Rev \in Nat /\ Rev > 0
  <2>1. hist[Rev] \in Content /\ Rev \in Nat /\ Rev > 0
    BY <1>1 DEF Types, Rev
  <2>2. hist' = Append(hist, d)
    BY <1>3, <1>4 DEF Commit
  <2> QED BY <1>4, <2>1, <2>2 DEF Content
<1>6. Grown
  <2>1. ASSUME NEW S, NEW q \in Seq(S), NEW x \in S
        PROVE  /\ Append(q, x) \in Seq(S) /\ Len(Append(q, x)) = Len(q) + 1
               /\ \A r \in 1..Len(q) : Append(q, x)[r] = q[r]
    OBVIOUS
  <2>2. hist' \in Seq(Content) /\ Rev' = Rev + 1 /\ \A r \in 1..Rev : hist'[r] = hist[r]
    BY <1>1, <1>5, <2>1 DEF Types, Rev
  <2>3. Rev' >= Rev
    BY <1>5, <2>2
  <2>4. \A k \in DOMAIN cache : k \in DOMAIN cache' /\ cache'[k] = cache[k]
    BY <1>2
  <2> QED BY <1>2, <2>2, <2>3, <2>4, Zenon DEF Grown
<1>7. Traced' <=> Traced
  BY <1>2 DEF Traced
<1>8. BindingInv'
  <2> SUFFICES ASSUME Traced, NEW j \in Ids, bindings[j] # None PROVE Bound(bindings[j], j)'
    BY <1>2, <1>7 DEF BindingInv
  <2>1. PICK b : b = bindings[j]
    OBVIOUS
  <2>2. Bound(b, j)'
    BY <1>1, <1>6, <2>1, BoundKept DEF DeriveInv, BindingInv
  <2> QED BY <1>2, <2>1, <2>2 DEF Bound
<1>9. PICK ids, gone, r :
         r = [Idle EXCEPT !.pc = "invalidate", !.todo = ids, !.deleted = gone] /\ Begins(t, r)
  BY DEF Commit, Begins
<1>10. DOMAIN r = Fields /\ r.pc = "invalidate"
  BY <1>9 DEF Idle, Fields
<1>11. Moves(t) /\ th'[t] = r
  BY <1>1, <1>9, <1>10, BeginsFacts, TypesShaped DEF Moves, Placed
<1>12. ThreadInv(t)' /\ WriterInv(t)'
  BY <1>2, <1>10, <1>11 DEF ThreadInv, WriterInv
<1>13. CacheInv'
  BY <1>2, <1>7 DEF DeriveInv, CacheInv
<1> QED BY <1>1, <1>2, <1>6, <1>8, <1>11, <1>12, <1>13 DEF Keeps, Types

(* What the hook queues is keyed at the head it has pinned. *)
LEMMA MovedKeyed ==
    ASSUME NEW ids, NEW x \in Moved(ids)
    PROVE  x.id \in Ids /\ x.key = KeyFor(layer, hist[Rev], x.id)
<1>1. PICK i \in Ids : x = [id |-> i, key |-> KeyOf(hist[Rev], i)]
  BY DEF Moved, Live
<1> QED BY <1>1, Parametric

(* The hook pins the head and drops what was deleted. *)
LEMMA InvalidateKeeps ==
    ASSUME DeriveInv, NEW t \in Readers \cup Writers \cup {Worker}, Invalidate(t)
    PROVE  Keeps(t)
<1>1. /\ Types /\ t \in Threads /\ t # Worker /\ t # Collector /\ t \notin Readers /\ t \in Writers
      /\ th[t].pc = "invalidate"
  BY Kinds DEF DeriveInv, Types, Invalidate
<1>2. UNCHANGED <<drifted, layer, hist, cache, queue>> /\ pending = {}
  BY <1>1 DEF ghosts, Invalidate, work, DeriveInv, WriterInv
<1>3. Rev' = Rev /\ (Traced' <=> Traced) /\ Rev \in Nat /\ Rev > 0
  BY <1>1, <1>2 DEF Rev, Traced, Types
<1>4. Grown /\ CacheInv'
  BY <1>1, <1>2, <1>3 DEF Grown, Types, DeriveInv, CacheInv
<1>5. /\ DOMAIN bindings' = Ids
      /\ \A i \in Ids : bindings'[i] = None \/ bindings'[i] = bindings[i]
  BY DEF Invalidate, Dropped
<1>6. BindingInv'
  <2> SUFFICES ASSUME Traced, NEW i \in Ids, bindings'[i] # None PROVE Bound(bindings[i], i)'
    BY <1>3 DEF BindingInv
  <2>1. PICK b : b = bindings'[i]
    OBVIOUS
  <2>2. Bound(b, i)
    BY <1>5, <2>1 DEF DeriveInv, BindingInv
  <2> QED BY <1>2, <1>3, <2>1, <2>2 DEF Bound
<1>7. PICK items : items = IF ~Traced /\ layer.recompute = "eager" THEN Moved(th[t].todo) ELSE {}
  OBVIOUS
<1>8. PICK S \in Enqueued(items) : pending' = pending \cup S
  BY <1>7, Zenon DEF Invalidate
<1>9. S \subseteq items
  BY DEF Enqueued
<1>10. /\ Traced => S = {}
       /\ \A x \in S : x.id \in Ids /\ x.key = KeyFor(layer, hist[Rev], x.id)
  BY <1>7, <1>9, MovedKeyed
<1>11. PICK n, r : n = Rev /\ r = [Idle EXCEPT !.pc = "list", !.at = n] /\ Begins(t, r)
  BY Zenon DEF Invalidate, Begins
<1>12. DOMAIN r = Fields /\ r.pc = "list" /\ r.at = n
  BY <1>11 DEF Idle, Fields
<1>13. Moves(t) /\ th'[t] = r
  BY <1>1, <1>11, <1>12, BeginsFacts, TypesShaped DEF Moves, Placed
<1>14. pending' = S /\ n \in 1..Rev
  BY <1>2, <1>3, <1>8, <1>11
<1>15. ThreadInv(t)' /\ WriterInv(t)'
  BY <1>2, <1>3, <1>10, <1>11, <1>12, <1>13, <1>14 DEF ThreadInv, WriterInv
<1> QED BY <1>1, <1>2, <1>4, <1>5, <1>6, <1>13, <1>15 DEF Keeps, Types

(* The record of a hook that has listed its items. *)
LEMMA ListFacts ==
    ASSUME Shaped, NEW t \in Threads, ListItems(t)
    PROVE  /\ DOMAIN th' = Threads /\ DOMAIN th'[t] = Fields
           /\ \A u \in Threads \ {t} : th'[u] = th[u]
           /\ th[t].pc = "list" /\ th'[t].pc = "process" /\ th'[t].todo = pending
           /\ th'[t].at = th[t].at
           /\ UNCHANGED <<drifted, layer, hist, cache, bindings, done, pending, queue, faults, gcs>>
<1>1. /\ UNCHANGED <<drifted, layer, hist, cache, bindings, done, pending, queue, faults, gcs>>
      /\ th[t].pc = "list"
  BY DEF ghosts, ListItems, bound, sched, work, counters
<1>2. PICK W : W = pending /\ th' = [th EXCEPT ![t].pc = "process", ![t].todo = W]
  BY DEF ListItems
<1>3. /\ DOMAIN th' = Threads /\ DOMAIN th'[t] = Fields
      /\ \A u \in Threads \ {t} : th'[u] = th[u]
      /\ th'[t].pc = "process" /\ th'[t].todo = W /\ th'[t].at = th[t].at
  BY <1>2 DEF Shaped, Fields
<1> QED BY <1>1, <1>2, <1>3

(* The hook lists what it has queued. *)
LEMMA ListKeeps ==
    ASSUME DeriveInv, NEW t \in Readers \cup Writers \cup {Worker}, ListItems(t)
    PROVE  Keeps(t)
<1>1. /\ Types /\ t \in Threads /\ t # Worker /\ t # Collector /\ t \notin Readers /\ t \in Writers
      /\ th[t].pc = "list"
  BY Kinds DEF DeriveInv, Types, ListItems
<1>2. /\ DOMAIN th' = Threads /\ DOMAIN th'[t] = Fields
      /\ \A u \in Threads \ {t} : th'[u] = th[u]
      /\ th'[t].pc = "process" /\ th'[t].todo = pending /\ th'[t].at = th[t].at
      /\ UNCHANGED <<drifted, layer, hist, cache, bindings, pending, queue>>
  BY <1>1, ListFacts, TypesShaped
<1>3. Rev' = Rev /\ (Traced' <=> Traced)
  BY <1>2, CalmFacts
<1>4. Moves(t)
  BY <1>1, <1>2 DEF Moves, Placed
<1>5. ThreadInv(t)' /\ WriterInv(t)'
  BY <1>1, <1>2, <1>3 DEF ThreadInv, WriterInv, DeriveInv
<1> QED BY <1>1, <1>2, <1>4, <1>5, CalmFacts DEF Keeps, Types

(* The hook takes its next item, or ends. *)
LEMMA ProcessKeeps ==
    ASSUME DeriveInv, NEW t \in Readers \cup Writers \cup {Worker}, Process(t)
    PROVE  Keeps(t)
<1>1. /\ Types /\ t \in Threads /\ t # Worker /\ t # Collector /\ t \notin Readers /\ t \in Writers
      /\ th[t].pc = "process"
  BY Kinds DEF DeriveInv, Types, Process
<1>2. UNCHANGED <<drifted, layer, hist, cache, bindings, queue>>
  BY DEF ghosts, Process, work, bound
<1>3. Rev' = Rev /\ (Traced' <=> Traced)
  BY <1>2, CalmFacts
<1>4. /\ th[t].at \in 1..Rev /\ (Traced => th[t].todo = {})
      /\ \A x \in th[t].todo : x.id \in Ids /\ x.key = KeyFor(layer, hist[th[t].at], x.id)
  BY <1>1 DEF DeriveInv, WriterInv
<1> SUFFICES Moves(t) /\ ThreadInv(t)' /\ WriterInv(t)'
  BY <1>1, <1>2, CalmFacts DEF Keeps, Types
<1>5. CASE pending' = {} /\ Begins(t, Idle)
  <2>1. DOMAIN Idle = Fields /\ Idle.pc = "idle"
    BY DEF Idle, Fields
  <2>2. Moves(t) /\ th'[t] = Idle
    BY <1>1, <1>5, <2>1, BeginsFacts, TypesShaped DEF Moves, Placed
  <2> QED BY <1>5, <2>1, <2>2 DEF ThreadInv, WriterInv
<1>6. CASE \E x \in th[t].todo :
              th' = [th EXCEPT ![t].todo = @ \ {x}, ![t].id = x.id, ![t].key = x.key,
                               ![t].art = None,
                               ![t].pc = IF x.key \in done THEN "process" ELSE "produce"]
  <2>1. PICK x \in th[t].todo, pc \in {"process", "produce"} :
           th' = [th EXCEPT ![t].todo = @ \ {x}, ![t].id = x.id, ![t].key = x.key,
                            ![t].art = None, ![t].pc = pc]
    BY <1>6
  <2>2. /\ DOMAIN th' = Threads /\ DOMAIN th'[t] = Fields
        /\ \A u \in Threads \ {t} : th'[u] = th[u]
        /\ th'[t].pc = pc /\ th'[t].at = th[t].at /\ th'[t].id = x.id /\ th'[t].key = x.key
        /\ th'[t].todo = th[t].todo \ {x}
    BY <1>1, <2>1 DEF Types, Fields
  <2>3. Moves(t)
    BY <1>1, <2>2 DEF Moves, Placed
  <2>4. ~Traced
    BY <1>4
  <2> QED BY <1>2, <1>3, <1>4, <2>2, <2>3, <2>4 DEF ThreadInv, WriterInv
<1> QED BY <1>5, <1>6, Zenon DEF Process, Begins
-----------------------------------------------------------------------------
(* The session opens. *)
LEMMA DeriveInit == Init => DeriveInv
<1> SUFFICES ASSUME Init PROVE DeriveInv
  OBVIOUS
<1>1. /\ layer \in Layers /\ queue = <<>> /\ cache = <<>> /\ bindings = [i \in Ids |-> None]
      /\ pending = {} /\ th = [t \in Threads |-> Idle] /\ hist = <<[i \in Ids |-> FirstText]>>
  BY DEF Init
<1>2. hist \in Seq(Content) /\ Rev = 1
  <2>1. [i \in Ids |-> FirstText] \in Content
    BY DeriveAssumption DEF Content
  <2>2. ASSUME NEW S, NEW x \in S PROVE <<x>> \in Seq(S) /\ Len(<<x>>) = 1
    OBVIOUS
  <2> QED BY <1>1, <2>1, <2>2 DEF Rev
<1>3. DOMAIN cache = {}
  BY <1>1
<1>4. /\ DOMAIN Idle = Fields /\ Idle.pc = "idle" /\ Idle.at = 0
      /\ \A t \in Threads : th[t] = Idle
  BY <1>1 DEF Idle, Fields
<1>5. queue \in Seq(Ids \X Nat) /\ DOMAIN bindings = Ids /\ DOMAIN th = Threads
  BY <1>1
<1>6. Types
  BY <1>1, <1>2, <1>4, <1>5, Kinds DEF Types
<1>7. CollectInv /\ CacheInv /\ BindingInv
  BY <1>1, <1>2, <1>3, <1>4, Kinds DEF CollectInv, CacheInv, BindingInv
<1>8. \A t \in Readers \cup Writers \cup {Worker} : ThreadInv(t)
  BY <1>4, Kinds DEF ThreadInv
<1>9. \A t \in Writers : WriterInv(t)
  BY <1>1, <1>4, Kinds DEF WriterInv
<1> QED BY <1>6, <1>7, <1>8, <1>9 DEF DeriveInv

(* A step of a call that has begun. *)
LEMMA StepKeeps ==
    ASSUME DeriveInv, NEW t \in Readers \cup Writers \cup {Worker}, Step(t)
    PROVE  Keeps(t)
BY ServeKeeps, LookupKeeps, CheckKeeps, RecheckKeeps, ProduceKeeps, BindKeeps, BindReadSetKeeps,
   InvalidateKeeps, ListKeeps, ProcessKeeps DEF Step

(* A step that leaves all of this alone. *)
LEMMA StillKeeps ==
    ASSUME DeriveInv, UNCHANGED <<drifted, layer, hist, cache, bindings, pending, queue, th>>
    PROVE  DeriveInv'
<1>1. Rev' = Rev /\ (Traced' <=> Traced) /\ CacheInv' /\ BindingInv' /\ Grown
  BY CalmFacts
<1>2. Types' /\ CollectInv'
  BY <1>1 DEF DeriveInv, Types, CollectInv
<1>3. \A t \in Readers \cup Writers \cup {Worker} : ThreadInv(t)'
  BY <1>1, Kinds, ThreadKept DEF DeriveInv
<1>4. \A t \in Writers : WriterInv(t)'
  BY <1>1 DEF DeriveInv, WriterInv
<1> QED BY <1>1, <1>2, <1>3, <1>4 DEF DeriveInv

(* Every step, with one writer. *)
LEMMA DeriveNext ==
    ASSUME DeriveInv, NEW w, Writers = {w}, [Next]_vars
    PROVE  DeriveInv'
<1>1. CASE UNCHANGED vars
  <2>1. UNCHANGED <<drifted, layer, hist, cache, bindings, pending, queue, th>>
    BY <1>1 DEF ghosts, vars, bound, sched, work
  <2> QED BY <2>1, StillKeeps
<1>2. CASE \E t \in Readers, i \in Ids, r \in 1..MaxRev : Read(t, i, r)
  BY <1>2, ReadKeeps, KeepsInv, Kinds
<1>3. CASE \E t \in Writers, e \in Edits : Commit(t, e[1], e[2])
  BY <1>3, CommitKeeps, KeepsInv, Kinds
<1>7. CASE \E e \in Edits : Save(e[1], e[2])
  <2>1. UNCHANGED <<drifted, layer, hist, cache, bindings, pending, queue, th>>
    BY <1>7 DEF ghosts, Save, bound, sched, work
  <2> QED BY <2>1, StillKeeps
<1>4. CASE \E t \in Readers \cup Writers \cup {Worker} : Step(t)
  BY <1>4, StepKeeps, KeepsInv, Kinds
<1>5. CASE Take \/ Settle
  BY <1>5, TakeKeeps, SettleKeeps, KeepsInv, Kinds
<1>6. CASE GcPin \/ GcPrune
  BY <1>6, GcPinKeeps, GcPruneKeeps, KeepsInv, Kinds
<1> QED BY <1>1, <1>2, <1>3, <1>4, <1>5, <1>6, <1>7 DEF Next, WorkerStep

(* What a reader has in hand is what it was promised. *)
LEMMA InvIsExact == DeriveInv => FreshIsExact
<1> SUFFICES ASSUME DeriveInv, NEW t \in Readers, th[t].pc = "fresh"
             PROVE  LET i == th[t].id
                    IN  IF ~Traced THEN Exact(th[t].art, Pinned(t), i)
                        ELSE \E c \in Range(hist) :
                                /\ Exact(th[t].art, c, i)
                                /\ \A j \in ReadSet(c, i) : Hash(c[j]) = Hash(Pinned(t)[j])
  BY DEF FreshIsExact
<1>1. ThreadInv(t)
  BY DEF DeriveInv
<1>2. CASE ~Traced
  BY <1>1, <1>2, Parametric DEF ThreadInv, Pinned
<1>3. CASE Traced
  <2>1. PICK n \in 1..Rev :
           /\ ExactFor(drifted, layer, th[t].art, hist[n], th[t].id)
           /\ \A j \in ReadSetFor(layer, hist[n], th[t].id) :
                 Hash(hist[n][j]) = Hash(hist[th[t].at][j])
    BY <1>1, <1>3 DEF ThreadInv
  <2>2. hist[n] \in Range(hist)
    BY DEF Range, Rev, DeriveInv, Types
  <2>3. /\ Exact(th[t].art, hist[n], th[t].id)
        /\ \A j \in ReadSet(hist[n], th[t].id) : Hash(hist[n][j]) = Hash(Pinned(t)[j])
    BY <2>1, Parametric DEF Pinned
  <2> QED BY <1>3, <2>2, <2>3
<1> QED BY <1>2, <1>3

(* With one writer: the invariant of the layer, its threads and their cache. *)
THEOREM DeriveInvariant ==
    ASSUME Cardinality(Writers) = 1
    PROVE  Spec => []DeriveInv
<1>1. PICK w : Writers = {w}
  BY DeriveAssumption, FS_Singleton
<1>2. DeriveInv /\ [Next]_vars => DeriveInv'
  BY <1>1, DeriveNext
<1> QED BY <1>2, DeriveInit, PTL DEF Spec

(* Snapshot.derived with one writer: the nodes an artifact served as fresh was made of have
   the hashes they have in the snapshot that is read, and so has its source unless some
   artifact was stored under that key while the file on disk had another text, whatever
   other thread produced it and at whatever revision; of a traced layer it was made of a
   revision that agrees on all it read, also when the read meets the two halves of
   bind_traced. *)
THEOREM FreshArtifactsAreExact ==
    ASSUME Cardinality(Writers) = 1
    PROVE  Spec => []FreshIsExact
BY DeriveInvariant, InvIsExact, PTL
-----------------------------------------------------------------------------
(* Collection, with any number of writers. *)

(* What a collection has pinned is retained by no more than it was then. *)
PinInv == hist \in Seq(Content) /\ Rev > 0 /\ DOMAIN th = Threads /\ CollectInv

(* The other threads leave the collector alone and only add artifacts. *)
Apart ==
    /\ layer' = layer /\ DOMAIN th' = Threads /\ th'[Collector] = th[Collector]
    /\ DOMAIN cache \subseteq DOMAIN cache'

(* A step of a call that has begun is apart from the collector. *)
LEMMA StepApart ==
    ASSUME DOMAIN th = Threads, NEW t \in Readers \cup Writers \cup {Worker}, Step(t)
    PROVE  Apart /\ hist' = hist
<1>0. t # Collector /\ Collector \in Threads
  BY Kinds
<1>1. ASSUME NEW status, NEW art, Served(t, status, art)
      PROVE  DOMAIN th' = Threads /\ th'[Collector] = th[Collector]
  BY <1>0, <1>1 DEF Served
<1>2. ASSUME NEW pc, Goto(t, pc)
      PROVE  DOMAIN th' = Threads /\ th'[Collector] = th[Collector]
  BY <1>0, <1>2 DEF Goto
<1>3. ASSUME NEW pc, NEW k, GotoKeyed(t, pc, k)
      PROVE  DOMAIN th' = Threads /\ th'[Collector] = th[Collector]
  BY <1>0, <1>3 DEF GotoKeyed
<1>4. ASSUME NEW pc, Gives(t, pc)
      PROVE  DOMAIN th' = Threads /\ th'[Collector] = th[Collector]
  BY <1>0, <1>4 DEF Gives
<1>5. ASSUME NEW r, Begins(t, r)
      PROVE  DOMAIN th' = Threads /\ th'[Collector] = th[Collector]
  BY <1>0, <1>5 DEF Begins
<1>6. ASSUME ServeLastGood(t) PROVE Apart /\ hist' = hist
  <2>1. UNCHANGED <<layer, hist, cache>> /\ \E status, art : Served(t, status, art)
    BY <1>6, Zenon DEF ServeLastGood
  <2> QED BY <1>1, <2>1 DEF Apart
<1>7. ASSUME Lookup(t) PROVE Apart /\ hist' = hist
  <2>1. /\ UNCHANGED <<layer, hist, cache>>
        /\ \/ \E status, art : Served(t, status, art)
           \/ \E pc : Goto(t, pc)
           \/ \E pc, k : GotoKeyed(t, pc, k)
    BY <1>7, Zenon DEF Lookup, GotoKeyed
  <2> QED BY <1>1, <1>2, <1>3, <2>1 DEF Apart
<1>8. ASSUME Check(t) \/ Recheck(t) PROVE Apart /\ hist' = hist
  <2>1. /\ UNCHANGED <<layer, hist, cache>>
        /\ \/ \E status, art : Served(t, status, art)
           \/ \E pc : Goto(t, pc)
           \/ \E pc, k : GotoKeyed(t, pc, k)
    BY <1>8, Zenon DEF Check, Recheck, GotoKeyed
  <2> QED BY <1>1, <1>2, <1>3, <2>1 DEF Apart
<1>9. ASSUME Produce(t) PROVE Apart /\ hist' = hist
  <2>1. CASE Stored(t)
    <3>1. PICK k, art : /\ cache' = [j \in DOMAIN cache \cup {k} |-> IF j = k THEN art ELSE cache[j]]
                        /\ th' = [th EXCEPT ![t].pc = "bind", ![t].art = art]
      BY <2>1 DEF Stored
    <3>2. DOMAIN th' = Threads /\ th'[Collector] = th[Collector]
      BY <1>0, <3>1
    <3> QED BY <1>9, <3>1, <3>2, ProduceOutcome DEF Apart
  <2>2. CASE cache' = cache /\ \E pc : Gives(t, pc)
    BY <1>4, <1>9, <2>2, ProduceOutcome DEF Apart
  <2> QED BY <1>9, <2>1, <2>2, ProduceOutcome, Zenon
<1>10. ASSUME Bind(t) \/ BindReadSet(t) PROVE Apart /\ hist' = hist
  <2>1. /\ UNCHANGED <<layer, hist, cache>>
        /\ \/ \E status, art : Served(t, status, art)
           \/ \E pc : Goto(t, pc)
    BY <1>10, Zenon DEF Bind, BindReadSet, Return
  <2> QED BY <1>1, <1>2, <2>1 DEF Apart
<1>11. ASSUME Invalidate(t) PROVE Apart /\ hist' = hist
  <2>1. UNCHANGED <<layer, hist, cache>> /\ \E r : Begins(t, r)
    BY <1>11, Zenon DEF Invalidate, Begins
  <2> QED BY <1>5, <2>1 DEF Apart
<1>12. ASSUME Process(t) PROVE Apart /\ hist' = hist
  <2>1. UNCHANGED <<layer, hist, cache>>
    BY <1>12 DEF Process
  <2>2. CASE Begins(t, Idle)
    BY <1>5, <2>1, <2>2 DEF Apart
  <2>3. CASE \E x \in th[t].todo : \E pc :
                th' = [th EXCEPT ![t].todo = @ \ {x}, ![t].id = x.id, ![t].key = x.key,
                                 ![t].art = None, ![t].pc = pc]
    BY <1>0, <2>1, <2>3 DEF Apart
  <2> QED BY <1>12, <2>2, <2>3, Zenon DEF Process, Begins
<1>13. ASSUME ListItems(t) PROVE Apart /\ hist' = hist
  <2>1. UNCHANGED <<layer, hist, cache>> /\ \E W : th' = [th EXCEPT ![t].pc = "process", ![t].todo = W]
    BY <1>13 DEF ListItems
  <2> QED BY <1>0, <2>1 DEF Apart
<1> QED BY <1>6, <1>7, <1>8, <1>9, <1>10, <1>11, <1>12, <1>13 DEF Step

(* A write adds a revision. *)
LEMMA CommitApart ==
    ASSUME PinInv, NEW t \in Writers, NEW e \in Edits, Commit(t, e[1], e[2])
    PROVE  Apart /\ hist' \in Seq(Content) /\ Rev' >= Rev
<1>1. PICK i \in Ids, text \in Texts \cup {Gone} : e[1] = i /\ e[2] = text
  BY DeriveAssumption
<1>2. PICK d : d = [hist[Rev] EXCEPT ![i] = text]
  OBVIOUS
<1>3. d \in Content
  BY <1>2 DEF Content, PinInv, Rev
<1>4. hist' = Append(hist, d) /\ UNCHANGED <<layer, cache>>
  BY <1>1, <1>2 DEF Commit
<1>5. ASSUME NEW S, NEW q \in Seq(S), NEW x \in S
      PROVE  Append(q, x) \in Seq(S) /\ Len(Append(q, x)) >= Len(q)
  OBVIOUS
<1>6. hist' \in Seq(Content) /\ Rev' >= Rev
  BY <1>3, <1>4, <1>5 DEF PinInv, Rev
<1>7. PICK r : Begins(t, r)
  BY DEF Commit, Begins
<1>8. DOMAIN th' = Threads /\ th'[Collector] = th[Collector]
  BY <1>7, Kinds DEF Begins, PinInv
<1> QED BY <1>4, <1>6, <1>8 DEF Apart

(* What has been pinned stays pinned. *)
LEMMA ApartPins ==
    ASSUME PinInv, Apart, hist' \in Seq(Content), Rev' >= Rev
    PROVE  PinInv'
<1>1. Traced' <=> Traced
  BY DEF Apart, Traced
<1>2. Rev \in Nat /\ Rev' \in Nat
  BY DEF PinInv, Rev
<1> QED BY <1>1, <1>2 DEF PinInv, Apart, CollectInv

(* A step of a thread other than the collector. *)
LEMMA OthersApart ==
    ASSUME PinInv, [Next]_vars, ~GcPin, ~GcPrune
    PROVE  Apart /\ hist' \in Seq(Content) /\ Rev' >= Rev
<1>0. DOMAIN th = Threads /\ hist \in Seq(Content) /\ Rev \in Nat /\ (hist' = hist => Rev' = Rev)
  BY DEF PinInv, Rev
<1>1. CASE UNCHANGED vars \/ \E e \in Edits : Save(e[1], e[2])
  <2>1. UNCHANGED <<layer, hist, cache, th>>
    BY <1>1 DEF vars, Save
  <2> QED BY <1>0, <2>1 DEF Apart
<1>2. CASE \E t \in Readers, i \in Ids, r \in 1..MaxRev : Read(t, i, r)
  <2>1. PICK t, r : t \in Readers /\ UNCHANGED <<layer, hist, cache>> /\ Begins(t, r)
    BY <1>2, Zenon DEF Read, Begins
  <2> QED BY <1>0, <2>1, Kinds DEF Apart, Begins
<1>3. CASE \E t \in Writers, e \in Edits : Commit(t, e[1], e[2])
  BY <1>3, CommitApart
<1>4. CASE \E t \in Readers \cup Writers \cup {Worker} : Step(t)
  BY <1>0, <1>4, StepApart
<1>5. CASE Take \/ Settle
  <2>1. PICK r : UNCHANGED <<layer, hist, cache>> /\ Begins(Worker, r)
    BY <1>5, Zenon DEF Take, Settle, Begins
  <2> QED BY <1>0, <2>1, Kinds DEF Apart, Begins
<1> QED BY <1>1, <1>2, <1>3, <1>4, <1>5 DEF Next, WorkerStep

(* The collector's steps keep its invariant. *)
LEMMA CollectorPins ==
    ASSUME PinInv, GcPin \/ GcPrune
    PROVE  PinInv'
<1>1. UNCHANGED <<layer, hist>> /\ DOMAIN th = Threads /\ Collector \in Threads
  BY Kinds DEF GcPin, GcPrune, PinInv
<1>2. Rev' = Rev /\ (Traced' <=> Traced) /\ Rev \in Nat /\ Rev > 0
  BY <1>1 DEF Rev, Traced, PinInv
<1>3. CASE GcPin
  <2>1. PICK n, W, r : n = Rev /\ W = Window /\ r = [Idle EXCEPT !.pc = "prune", !.at = n, !.todo = W]
    OBVIOUS
  <2>2. Begins(Collector, r) /\ ~Traced
    BY <1>3, <2>1 DEF GcPin, Begins
  <2>3. r.pc = "prune" /\ r.at = n /\ r.todo = W
    BY <2>1 DEF Idle
  <2>4. th'[Collector] = r /\ DOMAIN th' = Threads
    BY <1>1, <2>2 DEF Begins
  <2>5. \A m \in 1..Rev : m + RetainCap > Rev => m \in W
    BY <2>1 DEF Window
  <2>6. CollectInv'
    BY <1>2, <2>1, <2>2, <2>3, <2>4, <2>5 DEF CollectInv
  <2> QED BY <1>1, <1>2, <2>4, <2>6 DEF PinInv
<1>4. CASE GcPrune
  <2>1. th'[Collector] = Idle /\ DOMAIN th' = Threads /\ Idle.pc = "idle" /\ Idle.at = 0
    BY <1>1, <1>4 DEF GcPrune, Idle
  <2>2. CollectInv'
    BY <1>2, <2>1 DEF CollectInv
  <2> QED BY <1>1, <1>2, <2>1, <2>2 DEF PinInv
<1> QED BY <1>3, <1>4

(* A collection keeps what the window it pinned refers to. *)
LEMMA PruneKeepsWindow ==
    ASSUME PinInv, GcPrune, NEW r \in (Window \cap 1..th[Collector].at) \ unbuilt', NEW i \in Ids,
           i \in Live(hist[r]), KeyOf(hist[r], i) \in DOMAIN cache
    PROVE  KeyOf(hist[r], i) \in DOMAIN cache'
<1>1. PICK k : k = KeyOf(hist[r], i)
  OBVIOUS
<1>2. r \in th[Collector].todo
  <2>1. Rev \in Nat /\ RetainCap \in Nat
    BY DeriveAssumption DEF PinInv, Rev
  <2> QED BY <2>1 DEF PinInv, CollectInv, Window, GcPrune
<1>3. PICK lost, keep :
         /\ unbuilt' = unbuilt \cup lost
         /\ keep = Reachable(th[Collector].todo \ lost) \cup (Range(lastGood) \ {None})
         /\ cache' = IF keep = {} THEN cache ELSE Restrict(cache, DOMAIN cache \cap keep)
  BY Zenon DEF GcPrune
<1>4. k \in keep
  <2>1. r \in th[Collector].todo \ lost
    BY <1>2, <1>3
  <2> QED BY <1>1, <1>3, <2>1 DEF Reachable
<1>5. cache' = Restrict(cache, DOMAIN cache \cap keep)
  BY <1>3, <1>4
<1>6. DOMAIN cache' = DOMAIN cache \cap keep
  BY <1>5, RestrictFacts
<1> QED BY <1>1, <1>4, <1>6

(* gc_orphans: whatever commits and produces run between pinning the window and deleting,
   nothing readable at a revision retained when the collection began, and whose graph it
   could build, is deleted, with any number of writers. *)
THEOREM CollectionKeepsWindow == Spec => WindowKept
<1> DEFINE Kept == \A r \in (Window \cap 1..th[Collector].at) \ unbuilt', i \in Ids :
                       /\ i \in Live(hist[r])
                       /\ KeyOf(hist[r], i) \in DOMAIN cache
                       => KeyOf(hist[r], i) \in DOMAIN cache'
<1>1. Init => PinInv
  <2> SUFFICES ASSUME Init PROVE PinInv
    OBVIOUS
  <2> QED BY DeriveInit DEF PinInv, DeriveInv, Types
<1>2. PinInv /\ [Next]_vars => PinInv'
  BY OthersApart, ApartPins, CollectorPins
<1>3. PinInv /\ [Next]_vars => [Kept]_vars
  <2> SUFFICES ASSUME PinInv, [Next]_vars PROVE Kept
    OBVIOUS
  <2>1. CASE GcPrune
    BY <2>1, PruneKeepsWindow
  <2>2. CASE GcPin
    BY <2>2 DEF GcPin
  <2>3. CASE ~GcPin /\ ~GcPrune
    BY <2>3, OthersApart DEF Apart
  <2> QED BY <2>1, <2>2, <2>3
<1>4. Spec => [][Kept]_vars
  BY <1>1, <1>2, <1>3, PTL DEF Spec
<1> QED BY <1>4 DEF WindowKept
-----------------------------------------------------------------------------
(* Eager layers, with one writer. *)

(* An entity and what it reaches are closed under references, and least so. *)
LEMMA ClosureIs ==
    ASSUME NEW c, NEW i \in Live(c)
    PROVE  /\ Closure(c, i) \cup {i} \subseteq Live(c)
           /\ \A j \in Closure(c, i) \cup {i} : Dependencies(c, j) \subseteq Closure(c, i) \cup {i}
           /\ \A S \in SUBSET Live(c) :
                 i \in S /\ (\A j \in S : Dependencies(c, j) \subseteq S) =>
                     Closure(c, i) \cup {i} \subseteq S
<1>1. PICK closed : closed = {S \in SUBSET Live(c) :
                                 i \in S /\ \A j \in S : Dependencies(c, j) \subseteq S}
  OBVIOUS
<1>2. Closure(c, i) = {j \in Live(c) : \A S \in closed : j \in S} \ {i}
  BY <1>1 DEF Closure
<1>3. \A j : j \in Closure(c, i) \cup {i} <=> j \in Live(c) /\ \A S \in closed : j \in S
  BY <1>1, <1>2
<1>4. \A j : Dependencies(c, j) \subseteq Live(c)
  BY DEF Dependencies
<1>5. ASSUME NEW j \in Closure(c, i) \cup {i}, NEW k \in Dependencies(c, j)
      PROVE  k \in Closure(c, i) \cup {i}
  <2>1. k \in Live(c) /\ \A S \in closed : j \in S
    BY <1>3, <1>4
  <2>2. \A S \in closed : k \in S
    BY <1>1, <2>1
  <2> QED BY <1>3, <2>1, <2>2
<1>6. ASSUME NEW S \in SUBSET Live(c), i \in S, \A j \in S : Dependencies(c, j) \subseteq S
      PROVE  Closure(c, i) \cup {i} \subseteq S
  <2>1. S \in closed
    BY <1>1, <1>6
  <2> QED BY <1>3, <2>1
<1> QED BY <1>3, <1>5, <1>6

(* An entity whose key a commit moves is told to the hook, unless it reaches a created one:
   where nothing that is reached changed, or lost what it referenced, the reached entities
   and their contents are the same. *)
LEMMA MovedIsDirty ==
    ASSUME NEW c \in Content, NEW d \in Content, NEW i \in Live(d), i \notin Created(c, d),
           NEW l, l.locality \in {"local", "semantic"}, KeyFor(l, c, i) # KeyFor(l, d, i),
           Closure(d, i) \cap Created(c, d) = {}
    PROVE  i \in DirtyIds(c, d)
<1> SUFFICES ASSUME i \notin DirtyIds(c, d) PROVE FALSE
  OBVIOUS
<1>1. i \in Live(c) /\ i \in Ids /\ Hash(c[i]) = Hash(d[i])
  BY DEF DirtyIds, Changed, Created, Live
<1>2. PICK K, orphaned : /\ K = Closure(d, i) \cup {i}
                         /\ orphaned = {j \in Live(c) : Dependencies(c, j) \cap Deleted(c, d) # {}}
  OBVIOUS
<1>3. K \cap (Changed(c, d) \cup orphaned) = {}
  BY <1>2 DEF DirtyIds, Affected
<1>4. K \subseteq Live(d) /\ K \subseteq Live(c)
  BY <1>1, <1>2, ClosureIs DEF Created
<1>5. \A k \in K : Hash(c[k]) = Hash(d[k]) /\ Calls[c[k]] = Calls[d[k]]
  <2>1. \A k \in K : k \in Ids /\ c[k] \in Texts /\ d[k] \in Texts /\ c[k] # Gone /\ d[k] # Gone
    BY <1>4 DEF Live, Content
  <2>2. \A k \in K : Hash(c[k]) = Hash(d[k])
    BY <1>3, <1>4, <2>1 DEF Changed
  <2>3. \A k \in K : Normal[c[k]] = Normal[d[k]]
    BY <2>1, <2>2 DEF Hash
  <2> QED BY <2>1, <2>2, <2>3, DeriveAssumption
<1>6. ASSUME NEW k \in K PROVE Dependencies(c, k) = Dependencies(d, k)
  <2>1. Dependencies(c, k) \subseteq Live(d)
    BY <1>2, <1>3, <1>4 DEF Deleted, Dependencies
  <2>2. Dependencies(d, k) \subseteq Live(c)
    BY <1>2, <1>4, ClosureIs
  <2> QED BY <1>5, <2>1, <2>2 DEF Dependencies
<1>7. Closure(c, i) \cup {i} = K
  <2>1. Closure(c, i) \cup {i} \subseteq K
    <3>1. i \in K /\ \A k \in K : Dependencies(c, k) \subseteq K
      BY <1>2, <1>6, ClosureIs
    <3> QED BY <1>1, <1>4, <3>1, ClosureIs
  <2>2. PICK C : C = Closure(c, i) \cup {i}
    OBVIOUS
  <2>3. C \subseteq Live(d) /\ i \in C /\ \A k \in C : Dependencies(d, k) \subseteq C
    BY <1>1, <1>4, <1>6, <2>1, <2>2, ClosureIs
  <2>4. K \subseteq C
    BY <1>2, <2>3, ClosureIs
  <2> QED BY <2>1, <2>2, <2>4
<1>8. Closure(c, i) = Closure(d, i)
  <2>1. i \notin Closure(c, i) /\ i \notin Closure(d, i)
    BY DEF Closure
  <2> QED BY <1>2, <1>7, <2>1
<1>9. Contents(c, Closure(c, i)) = Contents(d, Closure(d, i)) /\ Contents(c, {}) = Contents(d, {})
  BY <1>2, <1>5, <1>8 DEF Contents
<1>10. KeyFor(l, c, i) = KeyFor(l, d, i)
  <2>1. CASE l.locality = "local"
    BY <1>1, <1>9, <2>1 DEF KeyFor, InputsFor
  <2>2. CASE l.locality = "semantic"
    BY <1>1, <1>9, <2>2 DEF KeyFor, InputsFor
  <2> QED BY <2>1, <2>2
<1> QED BY <1>10

(* The runs that EagerArrives speaks of. *)
Eager ==
    /\ layer.recompute = "eager" /\ layer.locality \in {"local", "semantic"}
    /\ faults = 0 /\ gcs = 0

(* The types this needs. *)
Formed ==
    /\ Shaped /\ hist \in Seq(Content) /\ Rev > 0 /\ DOMAIN bindings = Ids
    /\ faults \in Nat /\ gcs \in Nat /\ (th[Collector].pc = "prune" => gcs > 0)

(* What is done, bound or about to be bound is in the cache. *)
StoreInv ==
    /\ done \subseteq DOMAIN cache
    /\ \A i \in Ids : bindings[i] = None \/ bindings[i] \in DOMAIN cache
    /\ \A t \in Threads : th[t].pc = "bind" => th[t].key \in DOMAIN cache

(* The entities whose artifacts the last commit makes due. *)
Due(l, c, d) ==
    {i \in Live(d) :
        \/ i \in Created(c, d)
        \/ KeyFor(l, c, i) # KeyFor(l, d, i) /\ Closure(d, i) \cap Created(c, d) = {}}

(* Their artifacts are there, or the hook of the commit t has still to queue them, or has
   each of those that are missing in the queue, on its list or in hand. *)
Arrived == \A i \in Due(layer, hist[Rev - 1], hist[Rev]) : KeyFor(layer, hist[Rev], i) \in DOMAIN cache
Items(t) == IF th[t].pc = "list" THEN pending ELSE th[t].todo
Waiting(t, k) ==
    \/ k \in DOMAIN cache
    \/ \E x \in Items(t) : x.key = k
    \/ th[t].pc = "produce" /\ th[t].key = k
Covers(t) ==
    \/ th[t].pc = "invalidate" /\ th[t].todo = DirtyIds(hist[Rev - 1], hist[Rev])
    \/ /\ th[t].pc \in {"list", "process", "produce", "bind"}
       /\ \A i \in Due(layer, hist[Rev - 1], hist[Rev]) : Waiting(t, KeyFor(layer, hist[Rev], i))
HookInv == Rev > 1 => Arrived \/ \E t \in Writers : Covers(t)

EagerInv == Formed /\ (Eager => StoreInv /\ HookInv)

(* A step of thread t, as far as they are concerned. *)
Advances(t) ==
    /\ layer' = layer /\ hist' = hist /\ gcs' = gcs /\ DOMAIN cache \subseteq DOMAIN cache'
    /\ DOMAIN th' = Threads /\ DOMAIN th'[t] = Fields
    /\ \A u \in Threads \ {t} : th'[u] = th[u]
    /\ DOMAIN bindings' = Ids /\ (faults' = faults \/ faults' = faults + 1)
    /\ Eager /\ faults' = faults /\ StoreInv =>
          /\ done' \subseteq done \cup DOMAIN cache'
          /\ \A i \in Ids : bindings'[i] \in {None, bindings[i]} \cup DOMAIN cache'
          /\ th'[t].pc = "bind" => th'[t].key \in DOMAIN cache'

(* A step that leaves what is done and bound alone and does not end in a bind. *)
LEMMA PlainAdvances ==
    ASSUME Formed, NEW t \in Threads,
           UNCHANGED <<layer, hist, gcs, faults, bindings, done>>, DOMAIN cache \subseteq DOMAIN cache',
           DOMAIN th' = Threads, DOMAIN th'[t] = Fields, \A u \in Threads \ {t} : th'[u] = th[u],
           th'[t].pc = "bind" => th'[t].key \in DOMAIN cache'
    PROVE  Advances(t)
BY DEF Advances, Formed

(* The steps of a read. *)
LEMMA ReadAdvances ==
    ASSUME Formed, NEW t \in Threads, ServeLastGood(t) \/ Lookup(t) \/ Check(t) \/ Recheck(t)
    PROVE  Advances(t)
<1>1. UNCHANGED <<layer, hist, gcs, faults, bindings, done, cache>> /\ Shaped
  BY Zenon DEF ServeLastGood, Lookup, Check, Recheck, bound, sched, counters, Formed
<1>2. \/ \E status \in {"failed", "stale", "absent", "fresh"} : \E art : Served(t, status, art)
      \/ \E pc \in {"serve", "publish"} : Goto(t, pc)
      \/ \E pc \in {"produce", "recheck"} : \E k : GotoKeyed(t, pc, k)
  <2>1. CASE ServeLastGood(t)
    <3>1. PICK status, art : /\ Served(t, status, art)
                             /\ status = IF th[t].id \in failed THEN "failed"
                                         ELSE IF lastGood[th[t].id] # None /\ lastGood[th[t].id] \in DOMAIN cache
                                              THEN "stale" ELSE "absent"
      BY <2>1, Zenon DEF ServeLastGood
    <3> QED BY <3>1
  <2>2. CASE Lookup(t)
    BY <2>2, Zenon DEF Lookup, GotoKeyed
  <2>3. CASE Check(t) \/ Recheck(t)
    BY <2>3, Zenon DEF Check, Recheck, GotoKeyed
  <2> QED BY <2>1, <2>2, <2>3
<1>3. CASE \E status \in {"failed", "stale", "absent", "fresh"} : \E art : Served(t, status, art)
  BY <1>1, <1>3, ServedFacts, PlainAdvances
<1>4. CASE \E pc \in {"serve", "publish"} : Goto(t, pc)
  BY <1>1, <1>4, GotoFacts, PlainAdvances
<1>5. CASE \E pc \in {"produce", "recheck"} : \E k : GotoKeyed(t, pc, k)
  BY <1>1, <1>5, KeyedFacts, PlainAdvances
<1> QED BY <1>2, <1>3, <1>4, <1>5

(* A produce stores under its key, finds another artifact there, or fails. *)
LEMMA ProduceEnds ==
    ASSUME NEW t, Produce(t)
    PROVE  /\ UNCHANGED <<layer, hist, bindings, gcs>> /\ th[t].pc = "produce"
           /\ \/ Stored(t) /\ UNCHANGED <<done, faults>>
              \/ /\ th[t].key \in DOMAIN cache /\ UNCHANGED <<cache, faults>> /\ ItemDone(t, FALSE)
                 /\ ~Traced => Gives(t, AfterProduce(t))
                 /\ Traced => Gives(t, IF t = Worker THEN "settle" ELSE "error")
              \/ /\ faults' = faults + 1 /\ UNCHANGED cache
                 /\ Gives(t, AfterProduce(t))
<1>1. UNCHANGED <<layer, hist, bindings, gcs>> /\ th[t].pc = "produce"
  BY DEF Produce
<1>2. CASE /\ Put(t, Make(Pinned(t), th[t].id)) /\ UNCHANGED faults
           /\ drifted' = IF Hash(disk[th[t].id]) = Hash(Pinned(t)[th[t].id]) THEN drifted
                         ELSE drifted \cup {th[t].key}
  <2>1. CASE ~(th[t].key \in DOMAIN cache /\ cache[th[t].key] # Make(Pinned(t), th[t].id))
    BY <1>1, <1>2, <2>1, Zenon DEF Put, Stored
  <2>2. CASE th[t].key \in DOMAIN cache /\ cache[th[t].key] # Make(Pinned(t), th[t].id)
    <3>1. /\ UNCHANGED cache /\ ItemDone(t, FALSE)
          /\ th' = [th EXCEPT ![t].key = None,
                        ![t].pc = IF ~Traced THEN AfterProduce(t)
                                  ELSE IF t = Worker THEN "settle" ELSE "error"]
      BY <1>2, <2>2, Zenon DEF Put
    <3>2. CASE ~Traced
      BY <1>1, <1>2, <2>2, <3>1, <3>2, Zenon DEF Gives
    <3>3. CASE Traced
      <4>1. Gives(t, IF t = Worker THEN "settle" ELSE "error")
        BY <3>1, <3>3, Zenon DEF Gives
      <4> QED BY <1>1, <1>2, <2>2, <3>1, <3>3, <4>1
    <3> QED BY <3>2, <3>3
  <2> QED BY <2>1, <2>2
<1>3. CASE faults' = faults + 1 /\ UNCHANGED cache /\ Gives(t, AfterProduce(t))
  BY <1>1, <1>3
<1> QED BY <1>2, <1>3, Zenon DEF Produce, Gives

(* The key of a produce. *)
LEMMA StoredFacts ==
    ASSUME Shaped, NEW t \in Threads, Stored(t)
    PROVE  /\ DOMAIN cache' = DOMAIN cache \cup {th[t].key}
           /\ DOMAIN th' = Threads /\ DOMAIN th'[t] = Fields
           /\ \A u \in Threads \ {t} : th'[u] = th[u]
           /\ th'[t].pc = "bind" /\ th'[t].key = th[t].key /\ th'[t].todo = th[t].todo
<1>1. PICK k, art : /\ k = th[t].key
                    /\ cache' = [j \in DOMAIN cache \cup {k} |-> IF j = k THEN art ELSE cache[j]]
                    /\ th' = [th EXCEPT ![t].pc = "bind", ![t].art = art]
  BY DEF Stored
<1> QED BY <1>1 DEF Shaped, Fields

(* What a produce marks done it has stored, or found stored. *)
LEMMA ProduceAdvances ==
    ASSUME Formed, NEW t \in Readers \cup Writers \cup {Worker}, Produce(t)
    PROVE  Advances(t)
<1>1. /\ UNCHANGED <<layer, hist, bindings, gcs>> /\ t \in Threads /\ Shaped
      /\ DOMAIN bindings' = Ids
  BY ProduceEnds, Kinds DEF Formed
<1>2. AfterProduce(t) # "bind"
  BY AfterProduceIs
<1>3. CASE Stored(t) /\ UNCHANGED <<done, faults>>
  BY <1>1, <1>3, StoredFacts DEF Advances
<1>4. CASE /\ th[t].key \in DOMAIN cache /\ UNCHANGED <<cache, faults>> /\ ItemDone(t, FALSE)
           /\ \E pc : pc # "bind" /\ Gives(t, pc)
  <2>1. done' \subseteq done \cup {th[t].key}
    BY <1>4 DEF ItemDone
  <2> QED BY <1>1, <1>4, <2>1, GivesFacts DEF Advances
<1>5. CASE faults' = faults + 1 /\ UNCHANGED cache /\ Gives(t, AfterProduce(t))
  <2>1. faults' # faults
    BY <1>5 DEF Formed
  <2> QED BY <1>1, <1>5, <2>1, GivesFacts DEF Advances
<1>6. (IF t = Worker THEN "settle" ELSE "error") # "bind"
  OBVIOUS
<1> QED BY <1>2, <1>3, <1>4, <1>5, <1>6, ProduceEnds

(* The end of a produce. *)
LEMMA ReturnEnds ==
    ASSUME Shaped, NEW t \in Readers \cup Writers \cup {Worker}, Return(t)
    PROVE  /\ DOMAIN th' = Threads /\ DOMAIN th'[t] = Fields
           /\ \A u \in Threads \ {t} : th'[u] = th[u]
           /\ th'[t].pc # "bind"
           /\ t \in Writers => th'[t].pc = "process" /\ th'[t].todo = th[t].todo
<1>1. t \in Threads
  BY Kinds
<1>2. CASE t \in Readers
  BY <1>1, <1>2, Kinds, ServedFacts DEF Return
<1>3. CASE t \notin Readers
  BY <1>1, <1>3, AfterProduceIs, GotoFacts DEF Return
<1> QED BY <1>2, <1>3

(* What a bind binds was stored. *)
LEMMA BindAdvances ==
    ASSUME Formed, NEW t \in Readers \cup Writers \cup {Worker}, Bind(t) \/ BindReadSet(t)
    PROVE  Advances(t)
<1>1. UNCHANGED <<layer, hist, cache, gcs, faults>> /\ t \in Threads /\ Shaped
  BY Kinds DEF Bind, BindReadSet, counters, Formed
<1>2. CASE BindReadSet(t)
  <2>1. UNCHANGED <<bindings, done>> /\ Return(t)
    BY <1>2 DEF BindReadSet, sched
  <2> QED BY <1>1, <2>1, ReturnEnds, PlainAdvances
<1>3. CASE Bind(t)
  <2>1. th[t].pc = "bind" /\ bindings' = [bindings EXCEPT ![th[t].id] = th[t].key]
    BY <1>3 DEF Bind
  <2>2. /\ DOMAIN bindings' = Ids
        /\ \A i \in Ids : bindings'[i] = bindings[i] \/ bindings'[i] = th[t].key
    BY <2>1 DEF Formed
  <2>3. done' \subseteq done \cup {th[t].key}
    BY <1>3 DEF Bind, ItemDone
  <2>4. /\ DOMAIN th' = Threads /\ DOMAIN th'[t] = Fields
        /\ \A u \in Threads \ {t} : th'[u] = th[u]
        /\ th'[t].pc # "bind"
    <3>1. Goto(t, "bindset") \/ Return(t)
      BY <1>3 DEF Bind
    <3> QED BY <1>1, <3>1, GotoFacts, ReturnEnds
  <2>5. StoreInv => th[t].key \in DOMAIN cache
    BY <1>1, <2>1 DEF StoreInv
  <2> QED BY <1>1, <2>2, <2>3, <2>4, <2>5 DEF Advances
<1> QED BY <1>2, <1>3

(* The hook: what it pins and what it lists. *)
LEMMA InvalidateIs ==
    ASSUME Shaped, NEW t \in Threads, Invalidate(t)
    PROVE  /\ UNCHANGED <<layer, hist, cache, done, faults, gcs>> /\ th[t].pc = "invalidate"
           /\ DOMAIN th' = Threads /\ DOMAIN th'[t] = Fields
           /\ \A u \in Threads \ {t} : th'[u] = th[u]
           /\ th'[t].pc = "list"
           /\ DOMAIN bindings' = Ids /\ \A i \in Ids : bindings'[i] \in {None, bindings[i]}
           /\ ~Traced /\ layer.recompute = "eager" =>
                 \A x \in Moved(th[t].todo) : x.key \in done \/ \E y \in pending' : y.key = x.key
<1>1. UNCHANGED <<layer, hist, cache, done, faults, gcs>> /\ th[t].pc = "invalidate"
  BY DEF Invalidate, counters
<1>2. DOMAIN bindings' = Ids /\ \A i \in Ids : bindings'[i] \in {None, bindings[i]}
  BY DEF Invalidate, Dropped
<1>3. PICK items : items = IF ~Traced /\ layer.recompute = "eager" THEN Moved(th[t].todo) ELSE {}
  OBVIOUS
<1>4. PICK S \in Enqueued(items) : pending' = pending \cup S
  BY <1>3, Zenon DEF Invalidate
<1>5. PICK n, r : r = [Idle EXCEPT !.pc = "list", !.at = n] /\ Begins(t, r)
  BY Zenon DEF Invalidate, Begins
<1>6. DOMAIN r = Fields /\ r.pc = "list"
  BY <1>5 DEF Idle, Fields
<1>7. /\ DOMAIN th' = Threads /\ DOMAIN th'[t] = Fields
      /\ \A u \in Threads \ {t} : th'[u] = th[u]
      /\ th'[t] = r
  BY <1>5, <1>6, BeginsFacts
<1>8. \A x \in items : x.key \in done \/ \E y \in pending' : y.key = x.key
  BY <1>4 DEF Enqueued
<1> QED BY <1>1, <1>2, <1>3, <1>6, <1>7, <1>8

(* The hook takes an item, or ends. *)
LEMMA ProcessIs ==
    ASSUME Shaped, NEW t \in Threads, Process(t)
    PROVE  /\ UNCHANGED <<layer, hist, cache, bindings, done, faults, gcs>> /\ th[t].pc = "process"
           /\ DOMAIN th' = Threads /\ DOMAIN th'[t] = Fields
           /\ \A u \in Threads \ {t} : th'[u] = th[u]
           /\ \/ th[t].todo = {} /\ th'[t].pc = "idle"
              \/ \E x \in th[t].todo :
                    /\ th'[t].todo = th[t].todo \ {x}
                    /\ \/ x.key \in done /\ th'[t].pc = "process"
                       \/ th'[t].pc = "produce" /\ th'[t].key = x.key
<1>1. UNCHANGED <<layer, hist, cache, bindings, done, faults, gcs>> /\ th[t].pc = "process"
  BY DEF Process, bound, counters
<1>2. CASE th[t].todo = {} /\ Begins(t, Idle)
  <2>1. DOMAIN Idle = Fields /\ Idle.pc = "idle"
    BY DEF Idle, Fields
  <2> QED BY <1>1, <1>2, <2>1, BeginsFacts
<1>3. CASE \E x \in th[t].todo :
              th' = [th EXCEPT ![t].todo = @ \ {x}, ![t].id = x.id, ![t].key = x.key,
                               ![t].art = None,
                               ![t].pc = IF x.key \in done THEN "process" ELSE "produce"]
  <2>1. PICK x \in th[t].todo, pc \in {"process", "produce"} :
           /\ pc = IF x.key \in done THEN "process" ELSE "produce"
           /\ th' = [th EXCEPT ![t].todo = @ \ {x}, ![t].id = x.id, ![t].key = x.key,
                               ![t].art = None, ![t].pc = pc]
    BY <1>3
  <2>2. /\ DOMAIN th' = Threads /\ DOMAIN th'[t] = Fields
        /\ \A u \in Threads \ {t} : th'[u] = th[u]
        /\ th'[t].pc = pc /\ th'[t].key = x.key /\ th'[t].todo = th[t].todo \ {x}
    BY <2>1 DEF Shaped, Fields
  <2> QED BY <1>1, <2>1, <2>2
<1> QED BY <1>2, <1>3, Zenon DEF Process, Begins

(* Every step of a call, and of the worker. *)
LEMMA StepAdvances ==
    ASSUME Formed, NEW t \in Readers \cup Writers \cup {Worker}, Step(t)
    PROVE  Advances(t)
<1>1. t \in Threads /\ Shaped
  BY Kinds DEF Formed
<1>2. CASE Invalidate(t)
  <2>1. /\ UNCHANGED <<layer, hist, cache, done, faults, gcs>>
        /\ DOMAIN th' = Threads /\ DOMAIN th'[t] = Fields
        /\ \A u \in Threads \ {t} : th'[u] = th[u]
        /\ th'[t].pc = "list"
        /\ DOMAIN bindings' = Ids /\ \A i \in Ids : bindings'[i] \in {None, bindings[i]}
    BY <1>1, <1>2, InvalidateIs
  <2> QED BY <2>1 DEF Advances
<1>3. CASE Process(t)
  <2>1. /\ UNCHANGED <<layer, hist, cache, bindings, done, faults, gcs>>
        /\ DOMAIN th' = Threads /\ DOMAIN th'[t] = Fields
        /\ \A u \in Threads \ {t} : th'[u] = th[u]
        /\ th'[t].pc # "bind"
    BY <1>1, <1>3, ProcessIs
  <2> QED BY <1>1, <2>1, PlainAdvances
<1>4. CASE ListItems(t)
  BY <1>1, <1>4, ListFacts, PlainAdvances
<1> QED BY <1>1, <1>2, <1>3, <1>4, ReadAdvances, ProduceAdvances, BindAdvances DEF Step

(* A thread that begins anew. *)
LEMMA BeginAdvances ==
    ASSUME Formed, NEW t \in Threads, NEW r, Begins(t, r), DOMAIN r = Fields, r.pc # "bind",
           UNCHANGED <<layer, hist, gcs, faults, bindings, done, cache>>
    PROVE  Advances(t)
BY BeginsFacts, PlainAdvances DEF Formed

(* The worker takes an item, or settles it. *)
LEMMA WorkerAdvances ==
    ASSUME Formed, Take \/ Settle
    PROVE  Advances(Worker)
<1>1. UNCHANGED <<layer, hist, gcs, faults, bindings, done, cache>>
  BY DEF Take, Settle, bound, sched, counters
<1>2. PICK r : Begins(Worker, r) /\ DOMAIN r = Fields /\ r.pc # "bind"
  <2>1. CASE Settle
    <3>1. Begins(Worker, Idle) /\ DOMAIN Idle = Fields /\ Idle.pc # "bind"
      BY <2>1 DEF Settle, Begins, Idle, Fields
    <3> QED BY <3>1
  <2>2. CASE Take
    <3>1. PICK i, n, pc, k :
             /\ pc = CASE n \notin Window -> "settle"
                       [] n \in Window /\ Traced -> "check"
                       [] OTHER -> "produce"
             /\ Begins(Worker, [Idle EXCEPT !.id = i, !.at = n, !.pc = pc, !.key = k])
      BY <2>2, Zenon DEF Take, Begins
    <3>2. pc # "bind"
      BY <3>1
    <3>3. PICK r : r = [Idle EXCEPT !.id = i, !.at = n, !.pc = pc, !.key = k]
      OBVIOUS
    <3>4. DOMAIN r = Fields /\ r.pc = pc
      BY <3>3 DEF Idle, Fields
    <3> QED BY <3>1, <3>2, <3>3, <3>4
  <2> QED BY <2>1, <2>2
<1> QED BY <1>1, <1>2, Kinds, BeginAdvances

(* A read begins. *)
LEMMA ReaderAdvances ==
    ASSUME Formed, NEW t \in Readers, NEW i, NEW n, Read(t, i, n)
    PROVE  Advances(t)
<1>1. UNCHANGED <<layer, hist, gcs, faults, bindings, done, cache>>
  BY DEF Read, bound, sched
<1>2. PICK pc \in {"check", "lookup"} : Begins(t, [Idle EXCEPT !.pc = pc, !.at = n, !.id = i])
  BY Zenon DEF Read, Begins
<1>3. PICK r : r = [Idle EXCEPT !.pc = pc, !.at = n, !.id = i]
  OBVIOUS
<1>4. DOMAIN r = Fields /\ r.pc = pc
  BY <1>3 DEF Idle, Fields
<1> QED BY <1>1, <1>2, <1>3, <1>4, Kinds, BeginAdvances

(* The keys the last commit makes due, in a step that does not commit: when they have
   arrived and when a writer covers them, before and after. *)
LEMMA DueKeys ==
    ASSUME layer' = layer, hist' = hist
    PROVE  \E K, D :
              /\ D = DirtyIds(hist[Rev - 1], hist[Rev])
              /\ K = {KeyFor(layer, hist[Rev], i) : i \in Due(layer, hist[Rev - 1], hist[Rev])}
              /\ Arrived <=> K \subseteq DOMAIN cache
              /\ Arrived' <=> K \subseteq DOMAIN cache'
              /\ \A u : Covers(u) <=>
                    \/ th[u].pc = "invalidate" /\ th[u].todo = D
                    \/ th[u].pc \in {"list", "process", "produce", "bind"} /\ \A k \in K : Waiting(u, k)
              /\ \A u : Covers(u)' <=>
                    \/ th'[u].pc = "invalidate" /\ th'[u].todo = D
                    \/ th'[u].pc \in {"list", "process", "produce", "bind"} /\ \A k \in K : Waiting(u, k)'
<1> DEFINE D == DirtyIds(hist[Rev - 1], hist[Rev])
           d == hist[Rev]
           I == Due(layer, hist[Rev - 1], hist[Rev])
           K == {KeyFor(layer, d, i) : i \in I}
<1>1. K = {KeyFor(layer, hist[Rev], i) : i \in Due(layer, hist[Rev - 1], hist[Rev])}
  OBVIOUS
<1>2. /\ D = DirtyIds(hist'[Rev' - 1], hist'[Rev']) /\ d = hist'[Rev']
      /\ I = Due(layer', hist'[Rev' - 1], hist'[Rev'])
  BY <1>1 DEF Rev
<1>3. Arrived <=> K \subseteq DOMAIN cache
  BY Zenon DEF Arrived
<1>4. Arrived' <=> K \subseteq DOMAIN cache'
  <2>1. Arrived' <=> \A i \in I : KeyFor(layer, d, i) \in DOMAIN cache'
    BY <1>2 DEF Arrived
  <2> QED BY <2>1, Zenon
<1>5. ASSUME NEW u
      PROVE  Covers(u) <=>
                \/ th[u].pc = "invalidate" /\ th[u].todo = D
                \/ th[u].pc \in {"list", "process", "produce", "bind"} /\ \A k \in K : Waiting(u, k)
  BY Zenon DEF Covers
<1>6. ASSUME NEW u
      PROVE  Covers(u)' <=>
                \/ th'[u].pc = "invalidate" /\ th'[u].todo = D
                \/ th'[u].pc \in {"list", "process", "produce", "bind"} /\ \A k \in K : Waiting(u, k)'
  <2>1. Covers(u)' <=>
           \/ th'[u].pc = "invalidate" /\ th'[u].todo = D
           \/ /\ th'[u].pc \in {"list", "process", "produce", "bind"}
              /\ \A i \in I : \A k : k = KeyFor(layer, d, i) => Waiting(u, k)'
    BY <1>2 DEF Covers
  <2> QED BY <2>1, Zenon
<1> HIDE DEF D, I, d, K
<1>7. D = DirtyIds(hist[Rev - 1], hist[Rev])
  BY DEF D
<1> QED BY <1>1, <1>3, <1>4, <1>5, <1>6, <1>7, Zenon

(* A step of a thread that leaves the queue alone leaves the hooks of the others. *)
LEMMA OthersCover ==
    ASSUME NEW t \in Threads, Advances(t)
    PROVE  /\ Arrived => Arrived'
           /\ pending' = pending => \A u \in Threads \ {t} : Covers(u) => Covers(u)'
<1>1. /\ layer' = layer /\ hist' = hist /\ DOMAIN cache \subseteq DOMAIN cache'
      /\ \A u \in Threads \ {t} : th'[u] = th[u]
  BY DEF Advances
<1>2. PICK K, D :
              /\ Arrived <=> K \subseteq DOMAIN cache
              /\ Arrived' <=> K \subseteq DOMAIN cache'
              /\ \A u : Covers(u) <=>
                    \/ th[u].pc = "invalidate" /\ th[u].todo = D
                    \/ th[u].pc \in {"list", "process", "produce", "bind"} /\ \A k \in K : Waiting(u, k)
              /\ \A u : Covers(u)' <=>
                    \/ th'[u].pc = "invalidate" /\ th'[u].todo = D
                    \/ th'[u].pc \in {"list", "process", "produce", "bind"} /\ \A k \in K : Waiting(u, k)'
  BY <1>1, DueKeys, Zenon
<1>3. pending' = pending => \A u \in Threads \ {t} : \A k : Waiting(u, k) => Waiting(u, k)'
  BY <1>1 DEF Waiting, Items
<1> QED BY <1>1, <1>2, <1>3

(* A key of a keyed layer is not the absent one. *)
LEMMA KeyIsNoNone ==
    ASSUME ~Traced, NEW c \in Content, NEW i \in Ids
    PROVE  KeyFor(layer, c, i) # None
<1>1. PICK S, f : f = Contents(c, S) /\ S = InputsFor(layer, c, i)
  OBVIOUS
<1>2. KeyFor(layer, c, i) = <<Hash(c[i]), f>>
  BY <1>1 DEF KeyFor, Traced
<1>3. S \in SUBSET Ids
  BY <1>1 DEF InputsFor, Closure, Dependents, Live
<1>4. f \in [S -> Texts \cup {Gone}] /\ Hash(c[i]) \in Texts \cup {Gone}
  <2>1. \A j \in S : Hash(c[j]) \in Texts \cup {Gone}
    BY <1>3, HashIsThere
  <2> QED BY <1>1, <2>1, HashIsThere DEF Contents
<1>5. f \in UNION {[W -> Texts \cup {Gone}] : W \in SUBSET Ids}
  BY <1>3, <1>4
<1>6. <<Hash(c[i]), f>> \in (Texts \cup {Gone}) \X (UNION {[W -> Texts \cup {Gone}] : W \in SUBSET Ids})
  BY <1>4, <1>5
<1>7. None \notin (Texts \cup {Gone}) \X (UNION {[W -> Texts \cup {Gone}] : W \in SUBSET Ids})
  BY DeriveAssumption
<1> QED BY <1>2, <1>6, <1>7

(* The hook queues what is due and not yet stored: an id that is due is one the hook was told
   of, and one that is bound to its key has its artifact. *)
LEMMA InvalidateCovers ==
    ASSUME Formed, Eager, StoreInv, Rev > 1, NEW t \in Writers, Covers(t), Invalidate(t)
    PROVE  Covers(t)'
<1>1. t \in Threads /\ Shaped /\ ~Traced /\ layer.recompute = "eager"
  BY Kinds DEF Formed, Eager, Traced
<1>2. /\ UNCHANGED <<layer, hist, cache, done>> /\ th[t].pc = "invalidate" /\ th'[t].pc = "list"
      /\ \A x \in Moved(th[t].todo) : x.key \in done \/ \E y \in pending' : y.key = x.key
  BY <1>1, InvalidateIs
<1>3. PICK K, D :
              /\ D = DirtyIds(hist[Rev - 1], hist[Rev])
              /\ K = {KeyFor(layer, hist[Rev], i) : i \in Due(layer, hist[Rev - 1], hist[Rev])}
              /\ \A u : Covers(u) <=>
                    \/ th[u].pc = "invalidate" /\ th[u].todo = D
                    \/ th[u].pc \in {"list", "process", "produce", "bind"} /\ \A k \in K : Waiting(u, k)
              /\ \A u : Covers(u)' <=>
                    \/ th'[u].pc = "invalidate" /\ th'[u].todo = D
                    \/ th'[u].pc \in {"list", "process", "produce", "bind"} /\ \A k \in K : Waiting(u, k)'
  BY <1>2, DueKeys, Zenon
<1>4. th[t].todo = D
  BY <1>2, <1>3
<1>5. hist[Rev - 1] \in Content /\ hist[Rev] \in Content
  BY DEF Formed, Rev
<1>6. ASSUME NEW i \in Due(layer, hist[Rev - 1], hist[Rev]), NEW k, k = KeyFor(layer, hist[Rev], i)
      PROVE  Waiting(t, k)'
  <2>1. i \in Live(hist[Rev]) /\ i \in Ids /\ i \in D
    <3>1. i \in Live(hist[Rev]) /\ i \in Ids
      BY DEF Due, Live
    <3>2. CASE i \in Created(hist[Rev - 1], hist[Rev])
      BY <1>3, <3>1, <3>2 DEF DirtyIds
    <3>3. CASE i \notin Created(hist[Rev - 1], hist[Rev])
      <4>1. /\ KeyFor(layer, hist[Rev - 1], i) # KeyFor(layer, hist[Rev], i)
            /\ Closure(hist[Rev], i) \cap Created(hist[Rev - 1], hist[Rev]) = {}
        BY <3>3 DEF Due
      <4>2. layer.locality \in {"local", "semantic"}
        BY DEF Eager
      <4> QED BY <1>3, <1>5, <3>1, <3>3, <4>1, <4>2, MovedIsDirty
    <3> QED BY <3>1, <3>2, <3>3
  <2>2. k = KeyOf(hist[Rev], i) /\ k # None
    <3>1. KeyFor(layer, hist[Rev], i) = KeyOf(hist[Rev], i)
      BY Parametric
    <3>2. KeyFor(layer, hist[Rev], i) # None
      BY <1>1, <1>5, <2>1, KeyIsNoNone
    <3> QED BY <1>6, <3>1, <3>2
  <2>3. CASE bindings[i] = k
    BY <1>2, <2>1, <2>2, <2>3 DEF StoreInv, Waiting
  <2>4. CASE bindings[i] # k
    <3>1. [id |-> i, key |-> k] \in Moved(th[t].todo)
      BY <1>4, <2>1, <2>2, <2>4 DEF Moved
    <3>2. k \in done \/ \E y \in pending' : y.key = k
      BY <1>2, <3>1
    <3> QED BY <1>2, <2>2, <3>2 DEF StoreInv, Waiting, Items
  <2> QED BY <2>3, <2>4
<1>7. \A k \in K : Waiting(t, k)'
  BY <1>3, <1>6
<1> QED BY <1>2, <1>3, <1>7

(* The steps of the hook of the last commit: an item leaves its list for the store, and the
   list ends empty. *)
LEMMA HookCovers ==
    ASSUME Formed, Eager, StoreInv, Rev > 1, NEW t \in Writers, Covers(t), Step(t), faults' = faults
    PROVE  Covers(t)' \/ Arrived'
<1>1. t \in Threads /\ Shaped /\ ~Traced /\ t \in Readers \cup Writers \cup {Worker} /\ faults # faults + 1
  BY Kinds DEF Formed, Eager, Traced
<1>2. th[t].pc \in {"invalidate", "list", "process", "produce", "bind"}
  BY DEF Covers
<1>3. Invalidate(t) \/ ListItems(t) \/ Process(t) \/ Produce(t) \/ Bind(t)
  BY <1>2 DEF Step, ServeLastGood, Lookup, Check, Recheck, BindReadSet
<1>4. Advances(t)
  BY <1>1, StepAdvances
<1>5. layer' = layer /\ hist' = hist /\ DOMAIN cache \subseteq DOMAIN cache'
  BY <1>4 DEF Advances
<1>6. PICK K, D :
              /\ Arrived' <=> K \subseteq DOMAIN cache'
              /\ \A u : Covers(u) <=>
                    \/ th[u].pc = "invalidate" /\ th[u].todo = D
                    \/ th[u].pc \in {"list", "process", "produce", "bind"} /\ \A k \in K : Waiting(u, k)
              /\ \A u : Covers(u)' <=>
                    \/ th'[u].pc = "invalidate" /\ th'[u].todo = D
                    \/ th'[u].pc \in {"list", "process", "produce", "bind"} /\ \A k \in K : Waiting(u, k)'
  BY <1>5, DueKeys, Zenon
<1>7. CASE Invalidate(t)
  BY <1>7, InvalidateCovers
<1>8. CASE Process(t)
  <2>1. /\ th[t].pc = "process"
        /\ \/ th[t].todo = {} /\ th'[t].pc = "idle"
           \/ \E x \in th[t].todo :
                 /\ th'[t].todo = th[t].todo \ {x}
                 /\ \/ x.key \in done /\ th'[t].pc = "process"
                    \/ th'[t].pc = "produce" /\ th'[t].key = x.key
    BY <1>1, <1>8, ProcessIs
  <2>2. \A k \in K : k \in DOMAIN cache \/ \E x \in th[t].todo : x.key = k
    BY <1>6, <2>1 DEF Waiting, Items
  <2>3. CASE th[t].todo = {}
    BY <1>5, <1>6, <2>2, <2>3
  <2>4. CASE \E x \in th[t].todo :
                 /\ th'[t].todo = th[t].todo \ {x}
                 /\ \/ x.key \in done /\ th'[t].pc = "process"
                    \/ th'[t].pc = "produce" /\ th'[t].key = x.key
    <3>1. PICK x \in th[t].todo :
                 /\ th'[t].todo = th[t].todo \ {x}
                 /\ \/ x.key \in done /\ th'[t].pc = "process"
                    \/ th'[t].pc = "produce" /\ th'[t].key = x.key
      BY <2>4
    <3>2. x.key \in done => x.key \in DOMAIN cache
      BY DEF StoreInv
    <3>3. \A k \in K : Waiting(t, k)'
      BY <1>5, <2>2, <3>1, <3>2 DEF Waiting, Items
    <3> QED BY <1>6, <3>1, <3>3
  <2> QED BY <2>1, <2>3, <2>4
<1>9. CASE Produce(t)
  <2>1. th[t].pc = "produce" /\ (Stored(t) \/ (th[t].key \in DOMAIN cache /\ Gives(t, AfterProduce(t))))
    <3>1. /\ th[t].pc = "produce"
          /\ \/ Stored(t)
             \/ th[t].key \in DOMAIN cache /\ (~Traced => Gives(t, AfterProduce(t)))
             \/ faults' = faults + 1
      BY <1>9, ProduceEnds, Zenon
    <3>2. faults' # faults + 1
      BY <1>1
    <3> QED BY <1>1, <3>1, <3>2, Zenon
  <2>2. /\ th[t].key \in DOMAIN cache' /\ th'[t].todo = th[t].todo
        /\ th'[t].pc \in {"process", "bind"}
    <3>1. CASE Stored(t)
      BY <1>1, <3>1, StoredFacts
    <3>2. CASE th[t].key \in DOMAIN cache /\ Gives(t, AfterProduce(t))
      BY <1>1, <1>5, <3>2, GivesFacts, AfterProduceIs
    <3> QED BY <2>1, <3>1, <3>2
  <2>3. \A k \in K : Waiting(t, k)
    BY <1>6, <2>1
  <2>4. \A k \in K : Waiting(t, k)'
    BY <1>5, <2>1, <2>2, <2>3 DEF Waiting, Items
  <2> QED BY <1>6, <2>2, <2>4
<1>10. CASE Bind(t)
  <2>1. th[t].pc = "bind" /\ Return(t)
    BY <1>1, <1>10 DEF Bind
  <2>2. th'[t].pc = "process" /\ th'[t].todo = th[t].todo
    BY <1>1, <2>1, ReturnEnds
  <2>3. \A k \in K : Waiting(t, k)
    BY <1>6, <2>1
  <2>4. \A k \in K : Waiting(t, k)'
    BY <1>5, <2>1, <2>2, <2>3 DEF Waiting, Items
  <2> QED BY <1>6, <2>2, <2>4
<1>11. CASE ListItems(t)
  <2>1. th[t].pc = "list" /\ th'[t].pc = "process" /\ th'[t].todo = pending
    BY <1>1, <1>11, ListFacts
  <2>2. \A k \in K : Waiting(t, k)
    BY <1>6, <2>1
  <2>3. \A k \in K : Waiting(t, k)'
    BY <1>5, <2>1, <2>2 DEF Waiting, Items
  <2> QED BY <1>6, <2>1, <2>3
<1> QED BY <1>3, <1>7, <1>8, <1>9, <1>10, <1>11

(* A step of a call, or of the worker, keeps the invariant. *)
LEMMA AdvancesKeeps ==
    ASSUME EagerInv, NEW w, Writers = {w}, NEW t \in Readers \cup Writers \cup {Worker},
           Advances(t), Keeps(t), t \in Writers => Step(t)
    PROVE  EagerInv'
<1>1. t \in Threads /\ t # Collector /\ Formed /\ Collector \in Threads
  BY Kinds DEF EagerInv
<1>2. /\ layer' = layer /\ hist' = hist /\ gcs' = gcs /\ DOMAIN cache \subseteq DOMAIN cache'
      /\ DOMAIN th' = Threads /\ DOMAIN th'[t] = Fields
      /\ \A u \in Threads \ {t} : th'[u] = th[u]
      /\ DOMAIN bindings' = Ids /\ (faults' = faults \/ faults' = faults + 1)
  BY DEF Advances
<1>3. Rev' = Rev
  BY <1>2 DEF Rev
<1>4. Formed'
  <2>1. Shaped'
    BY <1>1, <1>2 DEF Formed, Shaped
  <2>2. hist' \in Seq(Content) /\ Rev' > 0 /\ faults' \in Nat /\ gcs' \in Nat
    BY <1>1, <1>2, <1>3 DEF Formed
  <2>3. th'[Collector] = th[Collector]
    BY <1>1, <1>2
  <2> QED BY <1>1, <1>2, <2>1, <2>2, <2>3 DEF Formed
<1>5. ASSUME Eager' PROVE StoreInv' /\ HookInv'
  <2>1. faults' = faults /\ Eager /\ StoreInv /\ HookInv
    <3>1. faults' = faults
      BY <1>1, <1>2, <1>5 DEF Eager, Formed
    <3> QED BY <1>2, <1>5, <3>1 DEF Eager, EagerInv
  <2>2. /\ done' \subseteq done \cup DOMAIN cache'
        /\ \A i \in Ids : bindings'[i] \in {None, bindings[i]} \cup DOMAIN cache'
        /\ th'[t].pc = "bind" => th'[t].key \in DOMAIN cache'
    BY <2>1 DEF Advances
  <2>3. StoreInv'
    BY <1>2, <2>1, <2>2 DEF StoreInv
  <2>4. HookInv'
    <3>1. CASE ~(Rev > 1)
      BY <1>3, <3>1 DEF HookInv
    <3>2. CASE Rev > 1 /\ Arrived
      BY <1>1, <3>2, OthersCover DEF HookInv
    <3>3. CASE Rev > 1 /\ \E u \in Writers : Covers(u)
      <4>1. PICK u \in Writers : Covers(u)
        BY <3>3
      <4>2. CASE u = t
        BY <1>1, <2>1, <3>3, <4>1, <4>2, HookCovers DEF HookInv
      <4>3. CASE u # t
        <5>1. pending' = pending
          BY <4>1, <4>3 DEF Keeps
        <5> QED BY <1>1, <4>1, <4>3, <5>1, Kinds, OthersCover DEF HookInv
      <4> QED BY <4>2, <4>3
    <3> QED BY <2>1, <3>1, <3>2, <3>3 DEF HookInv
  <2> QED BY <2>3, <2>4
<1> QED BY <1>4, <1>5 DEF EagerInv

(* A commit makes its own hook cover what it makes due. *)
LEMMA CommitCovers ==
    ASSUME EagerInv, NEW t \in Writers, NEW e \in Edits, Commit(t, e[1], e[2])
    PROVE  EagerInv'
<1>1. t \in Threads /\ t # Collector /\ Collector \in Threads /\ Formed /\ Shaped
  BY Kinds DEF EagerInv, Formed
<1>2. PICK i \in Ids, text \in Texts \cup {Gone} : e[1] = i /\ e[2] = text
  BY DeriveAssumption
<1>3. PICK c, d : c = hist[Rev] /\ d = [c EXCEPT ![i] = text]
  OBVIOUS
<1>4. c \in Content /\ d \in Content
  BY <1>1, <1>3 DEF Content, Formed, Rev
<1>5. /\ hist' = Append(hist, d) /\ UNCHANGED <<layer, cache, bindings, done, faults, gcs>>
      /\ Begins(t, [Idle EXCEPT !.pc = "invalidate", !.todo = DirtyIds(c, d), !.deleted = Deleted(c, d)])
  BY <1>2, <1>3, Zenon DEF Commit, Begins, bound, sched, counters
<1>6. PICK r, D, E : /\ D = DirtyIds(c, d) /\ E = Deleted(c, d)
                     /\ r = [Idle EXCEPT !.pc = "invalidate", !.todo = D, !.deleted = E]
  OBVIOUS
<1>7. DOMAIN r = Fields /\ r.pc = "invalidate" /\ r.todo = D
  BY <1>6 DEF Idle, Fields
<1>8. /\ DOMAIN th' = Threads /\ DOMAIN th'[t] = Fields
      /\ \A u \in Threads \ {t} : th'[u] = th[u]
      /\ th'[t] = r
  BY <1>1, <1>5, <1>6, <1>7, BeginsFacts
<1>9. /\ hist' \in Seq(Content) /\ Rev' > 0 /\ hist'[Rev' - 1] = c /\ hist'[Rev'] = d
  <2>1. ASSUME NEW S, NEW q \in Seq(S), NEW x \in S, Len(q) > 0
        PROVE  /\ Append(q, x) \in Seq(S) /\ Len(Append(q, x)) = Len(q) + 1
               /\ Append(q, x)[Len(q)] = q[Len(q)] /\ Append(q, x)[Len(q) + 1] = x
    <3>1. Append(q, x) \in Seq(S) /\ Len(Append(q, x)) = Len(q) + 1
      OBVIOUS
    <3>2. Len(q) \in 1..Len(q) /\ Len(q) \in Nat
      BY <2>1
    <3>3. Append(q, x)[Len(q)] = q[Len(q)]
      BY <3>2
    <3>4. Append(q, x)[Len(q) + 1] = x
      BY <3>2
    <3> QED BY <3>1, <3>3, <3>4
  <2>2. hist \in Seq(Content) /\ Len(hist) > 0 /\ Len(hist) \in Nat
    BY <1>1 DEF Formed, Rev
  <2>3. /\ hist' \in Seq(Content) /\ Len(hist') = Len(hist) + 1
        /\ hist'[Len(hist)] = hist[Len(hist)] /\ hist'[Len(hist) + 1] = d
    BY <1>4, <1>5, <2>1, <2>2
  <2> QED BY <1>3, <2>2, <2>3 DEF Rev
<1>10. Formed'
  <2>1. Shaped'
    BY <1>1, <1>8 DEF Shaped
  <2>2. th'[Collector] = th[Collector]
    BY <1>1, <1>8
  <2> QED BY <1>1, <1>5, <1>9, <2>1, <2>2 DEF Formed
<1>11. ASSUME Eager' PROVE StoreInv' /\ HookInv'
  <2>1. StoreInv
    BY <1>5, <1>11 DEF Eager, EagerInv
  <2>2. StoreInv'
    BY <1>5, <1>7, <1>8, <2>1 DEF StoreInv
  <2>3. Covers(t)'
    BY <1>6, <1>7, <1>8, <1>9 DEF Covers
  <2> QED BY <2>2, <2>3 DEF HookInv
<1> QED BY <1>10, <1>11 DEF EagerInv

(* After a collection nothing is promised. *)
LEMMA CollectEnds ==
    ASSUME EagerInv, GcPin \/ GcPrune
    PROVE  EagerInv'
<1>1. Formed /\ Shaped /\ Collector \in Threads
  BY Kinds DEF EagerInv, Formed
<1>2. UNCHANGED <<hist, bindings, faults>>
  BY DEF GcPin, GcPrune, bound, counters
<1>3. PICK r : Begins(Collector, r) /\ DOMAIN r = Fields /\ gcs' \in Nat /\ gcs' > 0
  <2>1. CASE GcPin
    <3>1. PICK n, W : Begins(Collector, [Idle EXCEPT !.pc = "prune", !.at = n, !.todo = W])
      BY <2>1, Zenon DEF GcPin, Begins
    <3>2. PICK r : r = [Idle EXCEPT !.pc = "prune", !.at = n, !.todo = W]
      OBVIOUS
    <3>3. DOMAIN r = Fields
      BY <3>2 DEF Idle, Fields
    <3>4. Begins(Collector, r)
      BY <3>1, <3>2, Zenon
    <3>5. gcs' \in Nat /\ gcs' > 0
      BY <1>1, <2>1 DEF GcPin, Formed
    <3> QED BY <3>3, <3>4, <3>5
  <2>2. CASE GcPrune
    <3>1. Begins(Collector, Idle) /\ th[Collector].pc = "prune" /\ gcs' = gcs
      BY <2>2 DEF GcPrune, Begins, counters
    <3>2. DOMAIN Idle = Fields
      BY DEF Idle, Fields
    <3> QED BY <1>1, <3>1, <3>2 DEF Formed
  <2> QED BY <2>1, <2>2
<1>4. Shaped'
  BY <1>1, <1>3, BeginsFacts DEF Shaped
<1>5. Rev' = Rev
  BY <1>2 DEF Rev
<1>6. Formed'
  BY <1>1, <1>2, <1>3, <1>4, <1>5 DEF Formed
<1>7. ~Eager'
  BY <1>3 DEF Eager
<1> QED BY <1>6, <1>7 DEF EagerInv

(* The session opens with nothing done, bound or due. *)
LEMMA EagerInit == Init => EagerInv
<1> SUFFICES ASSUME Init PROVE EagerInv
  OBVIOUS
<1>1. /\ hist = <<[i \in Ids |-> FirstText]>> /\ bindings = [i \in Ids |-> None] /\ done = {}
      /\ th = [t \in Threads |-> Idle] /\ faults = 0 /\ gcs = 0
  BY DEF Init
<1>2. Types /\ Shaped
  BY DeriveInit, TypesShaped DEF DeriveInv
<1>3. /\ Idle.pc = "idle" /\ \A t \in Threads : th[t] = Idle
  BY <1>1 DEF Idle
<1>4. Formed
  BY <1>1, <1>2, <1>3, Kinds DEF Formed, Types
<1>5. StoreInv
  BY <1>1, <1>3 DEF StoreInv
<1>6. HookInv
  BY <1>1 DEF HookInv, Rev
<1> QED BY <1>4, <1>5, <1>6 DEF EagerInv

(* Every step keeps it. *)
LEMMA EagerNext ==
    ASSUME DeriveInv, EagerInv, NEW w, Writers = {w}, [Next]_vars
    PROVE  EagerInv'
<1>1. Formed
  BY DEF EagerInv
<1>2. CASE UNCHANGED vars \/ \E e \in Edits : Save(e[1], e[2])
  <2>1. UNCHANGED <<layer, hist, cache, bindings, done, pending, th, faults, gcs>>
    BY <1>2 DEF vars, bound, sched, counters, Save
  <2>2. Formed'
    BY <1>1, <2>1 DEF Formed, Shaped, Rev
  <2>3. StoreInv => StoreInv'
    BY <2>1 DEF StoreInv
  <2>4. HookInv => HookInv'
    BY <2>1 DEF HookInv, Arrived, Covers, Waiting, Items, Rev
  <2>5. Eager' => Eager
    BY <2>1 DEF Eager
  <2> QED BY <2>2, <2>3, <2>4, <2>5 DEF EagerInv
<1>3. CASE \E t \in Readers, i \in Ids, r \in 1..MaxRev : Read(t, i, r)
  BY <1>1, <1>3, Kinds, ReaderAdvances, ReadKeeps, AdvancesKeeps
<1>4. CASE \E t \in Writers, e \in Edits : Commit(t, e[1], e[2])
  BY <1>4, CommitCovers
<1>5. CASE \E t \in Readers \cup Writers : Step(t)
  BY <1>1, <1>5, StepAdvances, StepKeeps, AdvancesKeeps
<1>6. CASE WorkerStep
  <2>1. CASE Step(Worker)
    BY <1>1, <2>1, Kinds, StepAdvances, StepKeeps, AdvancesKeeps
  <2>2. CASE Take \/ Settle
    BY <1>1, <2>2, Kinds, WorkerAdvances, TakeKeeps, SettleKeeps, AdvancesKeeps
  <2> QED BY <1>6, <2>1, <2>2 DEF WorkerStep
<1>7. CASE GcPin \/ GcPrune
  BY <1>7, CollectEnds
<1> QED BY <1>2, <1>3, <1>4, <1>5, <1>6, <1>7 DEF Next

(* With every hook at its end, no writer covers what is due: it has arrived. *)
LEMMA InvArrives == EagerInv => EagerArrives
<1> SUFFICES ASSUME EagerInv, Eager, Rev > 1, \A t \in Writers : th[t].pc = "idle",
                    NEW i \in Live(hist[Rev]),
                    \/ i \in Created(hist[Rev - 1], hist[Rev])
                    \/ /\ KeyOf(hist[Rev - 1], i) # KeyOf(hist[Rev], i)
                       /\ Closure(hist[Rev], i) \cap Created(hist[Rev - 1], hist[Rev]) = {}
             PROVE  KeyOf(hist[Rev], i) \in DOMAIN cache
  BY DEF EagerArrives, Eager
<1>1. \A t \in Writers : ~Covers(t)
  BY DEF Covers
<1>2. Arrived
  BY <1>1 DEF EagerInv, HookInv
<1>3. i \in Due(layer, hist[Rev - 1], hist[Rev])
  BY Parametric DEF Due
<1> QED BY <1>2, <1>3, Parametric DEF Arrived

(* An eager layer whose generators do not fail and that is not collected has, once the
   commit's hook (_invalidate_derived, process_all) has ended, the artifact of every entity
   the last commit created and of every one whose key it moved, whatever readers and the
   worker produce, bind and mark done meanwhile. *)
THEOREM EagerArtifactsArrive ==
    ASSUME Cardinality(Writers) = 1
    PROVE  Spec => []EagerArrives
<1>1. PICK w : Writers = {w}
  BY DeriveAssumption, FS_Singleton
<1>2. DeriveInv /\ EagerInv /\ [Next]_vars => EagerInv'
  BY <1>1, EagerNext
<1>3. Spec => []DeriveInv
  BY DeriveInvariant
<1>4. EagerInv => EagerArrives
  BY InvArrives
<1> QED BY <1>2, <1>3, <1>4, EagerInit, PTL DEF Spec
=============================================================================
