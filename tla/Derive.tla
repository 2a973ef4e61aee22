-------------------------------- MODULE Derive --------------------------------
(***************************************************************************)
(* One code-derived layer of a session (derive/dag.py, layer.py, cache.py, *)
(* scheduler.py, async_recompute.py; Snapshot.derived in session/views.py): *)
(* a cache of artifacts keyed by the content they are made from, read      *)
(* through pinned snapshots, filled by whoever misses it: a blocking read, *)
(* the hook of a commit (eager layers) or the worker thread that stale     *)
(* reads hand their misses to.                                             *)
(*                                                                         *)
(* An entity's content hash is of the normal form of its text: docstrings  *)
(* and layout do not move it.  A text names the entities it references.    *)
(* The producer reads the nodes its layer's locality declares, over the    *)
(* pinned snapshot, and the entity's source text, from the file on disk;   *)
(* its artifact is a function of what it read.  A traced producer reads    *)
(* the callers.  Putting an artifact in the store is one step.             *)
(***************************************************************************)
EXTENDS Naturals, Sequences, FiniteSets, FiniteSetsExt, Functions

CONSTANTS
    Ids,          \* the entities
    Texts,        \* what an entity may contain
    Normal,       \* text -> its normal form
    Calls,        \* text -> the entities it references
    FirstText,    \* the text of every entity when the session opens
    Gone,         \* the entity is not present at a revision
    None,         \* no value
    Writers, Readers, Worker, Collector,   \* the threads
    Layers,       \* the configurations of the layer
    Edits,        \* what is written or saved: an entity and its text or Gone
    RetainCap,    \* spine.retain_cap
    MaxRev, MaxReads, MaxUpsets   \* bounds; an upset is a failure, a collection or a save

ASSUME DeriveAssumption ==
    /\ Normal \in [Texts -> Texts] /\ Calls \in [Texts -> SUBSET Ids]
    /\ \A x, y \in Texts : Normal[x] = Normal[y] => Calls[x] = Calls[y]
    /\ FirstText \in Texts /\ Gone \notin Texts
    /\ Layers \subseteq [locality : {"local", "semantic", "reverse-semantic", "traced"},
                         serving : {"stale", "block"}, recompute : {"lazy", "eager"}]
    /\ Edits \subseteq Ids \X (Texts \cup {Gone})
    /\ {RetainCap, MaxRev, MaxReads, MaxUpsets} \subseteq Nat
    /\ None \notin Texts \cup {Gone}
    /\ None \notin (Texts \cup {Gone}) \X (UNION {[S -> Texts \cup {Gone}] : S \in SUBSET Ids})
    /\ IsFiniteSet(Writers) /\ Readers \cap Writers = {}
    /\ {Worker, Collector} \cap (Readers \cup Writers) = {} /\ Worker # Collector

VARIABLES
    layer,       \* the layer's configuration
    hist,        \* the committed revisions: what every entity contains
    disk,        \* what the files contain at each entity's place
    cache,       \* ArtifactCache: key -> artifact
    bindings,    \* DerivedLayer._bindings: id -> input hash
    lastGood,    \* DerivedLayer._last_good: id -> store key
    readSets,    \* DerivedLayer._read_sets: id -> what its producer read
    failed,      \* DerivedLayer._failed
    done,        \* RecomputeScheduler._done
    pending,     \* RecomputeScheduler._pending
    queue,       \* DerivedRecomputeWorker._queue
    inflight,    \* DerivedRecomputeWorker._inflight
    th,          \* thread -> where it is in its call
    drifted,     \* history: keys with an artifact made from a source of another hash
    unbuilt,     \* history: revisions whose graph a collection could not build
    reads, faults, gcs, saves    \* counters for the bounds

bound == <<bindings, lastGood, readSets, failed>>
sched == <<done, pending>>
work == <<queue, inflight>>
ghosts == <<drifted, unbuilt>>
counters == <<reads, faults, gcs, saves>>
vars == <<layer, hist, disk, cache, bound, sched, work, th, ghosts, counters>>

Threads == Writers \cup Readers \cup {Worker, Collector}
Rev == Len(hist)
Window == {r \in 1..Rev : r + RetainCap > Rev}
Upsets == faults + gcs + saves
Traced == layer.locality = "traced"

Idle == [pc |-> "idle", at |-> 0, id |-> None, key |-> None, art |-> None,
         todo |-> {}, deleted |-> {}]
-----------------------------------------------------------------------------
(* What a key is made of.  c is the content of a revision. *)

(* The content hash of an entity; what is not there has the empty one. *)
Hash(text) == IF text = Gone THEN Gone ELSE Normal[text]

Live(c) == {i \in Ids : c[i] # Gone}

(* CodeGraph.dependencies and dependents. *)
Dependencies(c, i) == (Calls[c[i]] \cap Live(c)) \ {i}
Dependents(c, i) == {j \in Live(c) : i \in Dependencies(c, j)}

(* The forward closure that _dependency_fingerprint walks. *)
Closure(c, i) ==
    LET closed == {S \in SUBSET Live(c) :
                        i \in S /\ \A j \in S : Dependencies(c, j) \subseteq S}
    IN  {j \in Live(c) : \A S \in closed : j \in S} \ {i}

(* What the producer reads besides the entity itself. *)
Inputs(c, i) ==
    CASE layer.locality = "local" -> {}
      [] layer.locality = "semantic" -> Closure(c, i)
      [] OTHER -> Dependents(c, i)

ReadSet(c, i) == {i} \cup Inputs(c, i)

(* The hashes of these entities. *)
Contents(c, S) == [j \in S |-> Hash(c[j])]

(* _traced_fingerprint: a read set of the entity alone keys as a local layer
   does; any other folds id and hash of everything read, the entity's own among
   them. *)
Fingerprint(c, i, S) ==
    IF S = {i} THEN <<Hash(c[i]), Contents(c, {})>> ELSE <<None, Contents(c, S)>>

(* Mistaken: the fingerprint leaves the callers out. *)
KeyOfEntity(c, i) == <<Hash(c[i]), Contents(c, {})>>

(* resolve_input: the key of an entity at a revision. *)
KeyOf(c, i) ==
    IF Traced THEN Fingerprint(c, i, ReadSet(c, i))
    ELSE <<Hash(c[i]), Contents(c, Inputs(c, i))>>

(* What the producer makes of the snapshot it is given and of the entity's source,
   which _entity_source cuts out of the file as it is on disk.  Where there is no
   file it takes the entity's name for its source. *)
Make(c, i) == [own |-> disk[i], others |-> Contents(c, Inputs(c, i))]

(* The content of the snapshot a thread has pinned. *)
Pinned(t) == hist[th[t].at]
-----------------------------------------------------------------------------
(* Ending a call.  A reader's record keeps the value it was served, and for a fresh
   one what it was asked for. *)
Served(t, status, art) ==
    th' = [th EXCEPT ![t] = [Idle EXCEPT !.pc = status, !.art = art,
                                !.at = IF status = "fresh" THEN th[t].at ELSE 0,
                                !.id = IF status = "fresh" THEN th[t].id ELSE None]]

Goto(t, pc) == th' = [th EXCEPT ![t].pc = pc]

(* DerivedRecomputeWorker.enqueue: once per (id, revision) in flight. *)
Enqueue(i, r) ==
    IF <<i, r>> \in inflight THEN UNCHANGED work
    ELSE /\ inflight' = inflight \cup {<<i, r>>}
         /\ queue' = Append(queue, <<i, r>>)

(* Last-good, or the reason there is none.  A stale traced layer hands the miss to
   the worker after this, a keyed one before. *)
ServeLastGood(t) ==
    LET i == th[t].id
        has == lastGood[i] # None /\ lastGood[i] \in DOMAIN cache
    IN  /\ th[t].pc = "serve"
        /\ Served(t, IF i \in failed THEN "failed" ELSE IF has THEN "stale" ELSE "absent",
                     IF has THEN cache[lastGood[i]] ELSE None)
        /\ IF Traced /\ layer.serving = "stale" THEN Enqueue(i, th[t].at) ELSE UNCHANGED work
        /\ UNCHANGED <<layer, hist, disk, cache, bound, sched, ghosts, counters>>

(* Snapshot.derived of a live entity over a snapshot pinned at r. *)
Read(t, i, r) ==
    /\ t \in Readers /\ th[t].pc \in {"idle", "fresh", "stale", "failed", "absent", "error"}
    /\ reads < MaxReads /\ r \in Window /\ i \in Live(hist[r])
    /\ th' = [th EXCEPT ![t] = [Idle EXCEPT !.pc = IF Traced THEN "check" ELSE "lookup",
                                            !.at = r, !.id = i]]
    /\ reads' = reads + 1
    /\ UNCHANGED <<layer, hist, disk, cache, bound, sched, work, ghosts, faults, gcs, saves>>

(* Key, then fetch.  A stale layer hands the miss to the worker, a blocking one
   produces here. *)
Lookup(t) ==
    LET i == th[t].id
        k == KeyOf(Pinned(t), i)
    IN  /\ th[t].pc = "lookup"
        /\ \/ /\ k \in DOMAIN cache
              /\ Served(t, "fresh", cache[k]) /\ UNCHANGED work
           \/ /\ k \notin DOMAIN cache /\ layer.serving = "stale"
              /\ Enqueue(i, th[t].at) /\ Goto(t, "serve")
           \/ /\ k \notin DOMAIN cache /\ layer.serving = "block"
              /\ th' = [th EXCEPT ![t].pc = "produce", ![t].key = k]
              /\ UNCHANGED work
        /\ UNCHANGED <<layer, hist, disk, cache, bound, sched, ghosts, counters>>

(* derived_traced, the cheap check in two reads: the bound hash, then the read
   set it is compared over. *)
Check(t) ==
    /\ th[t].pc = "check"
    /\ th' = [th EXCEPT ![t].pc = "recheck", ![t].key = bindings[th[t].id]]
    /\ UNCHANGED <<layer, hist, disk, cache, bound, sched, work, ghosts, counters>>

(* The previously read ids have, in this snapshot, the hashes that were bound. *)
Hit(t) ==
    LET i == th[t].id  S == readSets[i]
    IN  /\ th[t].key # None /\ S # None
        /\ th[t].key = Fingerprint(Pinned(t), i, S)
        /\ th[t].key \in DOMAIN cache

Recheck(t) ==
    /\ th[t].pc = "recheck"
    /\ \/ Hit(t) /\ t = Worker /\ Goto(t, "publish")
       \/ Hit(t) /\ t # Worker /\ Served(t, "fresh", cache[th[t].key])
       \/ ~Hit(t) /\ t # Worker /\ layer.serving = "stale" /\ Goto(t, "serve")
       \/ /\ ~Hit(t) /\ (t = Worker \/ layer.serving = "block")
          /\ th' = [th EXCEPT ![t].pc = "produce", ![t].key = KeyOf(Pinned(t), th[t].id)]
    /\ UNCHANGED <<layer, hist, disk, cache, bound, sched, work, ghosts, counters>>
-----------------------------------------------------------------------------
(* Producing: the generator runs, the artifact is stored, the entity is bound. *)

(* Where a thread goes on after its produce; a reader has nothing to serve but
   last-good. *)
AfterProduce(t) ==
    CASE t = Worker -> "publish"
      [] t \in Writers -> "process"
      [] OTHER -> "serve"

(* The end of a produce: a reader has its value, the others go on. *)
Return(t) ==
    IF t \in Readers THEN Served(t, "fresh", th[t].art) ELSE Goto(t, AfterProduce(t))

(* process_all marks an item done whether it was produced or not; recompute_now
   only when it was. *)
ItemDone(t, ok) ==
    done' = IF ~Traced /\ (ok \/ t \in Writers) THEN done \cup {th[t].key} ELSE done

(* ArtifactCache.put: equal bytes are a no-op, others raise.  The scheduler
   counts the exception as a failure; in derived_traced it leaves the call, and
   the worker's loop swallows it. *)
Put(t, art) ==
    LET k == th[t].key
        conflict == k \in DOMAIN cache /\ cache[k] # art
    IN  \/ /\ ~conflict
           /\ cache' = [j \in DOMAIN cache \cup {k} |-> IF j = k THEN art ELSE cache[j]]
           /\ th' = [th EXCEPT ![t].pc = "bind", ![t].art = art]
           /\ UNCHANGED <<failed, done>>
        \/ /\ conflict
           /\ failed' = IF Traced THEN failed ELSE failed \cup {th[t].id}
           /\ ItemDone(t, FALSE)
           /\ th' = [th EXCEPT ![t].key = None,
                         ![t].pc = IF ~Traced THEN AfterProduce(t)
                                   ELSE IF t = Worker THEN "settle" ELSE "error"]
           /\ UNCHANGED cache

(* The generator runs over the pinned snapshot and its artifact is put in the cache,
   or it fails, or returns nothing: then the entity is not marked. *)
Produce(t) ==
    LET i == th[t].id
    IN  /\ th[t].pc = "produce"
        /\ \/ /\ Put(t, Make(Pinned(t), i))
              /\ drifted' = IF Hash(disk[i]) = Hash(Pinned(t)[i]) THEN drifted
                                                               ELSE drifted \cup {th[t].key}
              /\ UNCHANGED faults
           \/ /\ Upsets < MaxUpsets
              /\ faults' = faults + 1
              /\ failed' \in {failed, failed \cup {i}}
              /\ ItemDone(t, FALSE)
              /\ th' = [th EXCEPT ![t].pc = AfterProduce(t), ![t].key = None]
              /\ UNCHANGED <<cache, drifted>>
        /\ UNCHANGED <<layer, hist, disk, bindings, lastGood, readSets, pending, work,
                       unbuilt, reads, gcs, saves>>

(* bind, and the first assignment of bind_traced. *)
Bind(t) ==
    LET i == th[t].id
    IN  /\ th[t].pc = "bind"
        /\ bindings' = [bindings EXCEPT ![i] = th[t].key]
        /\ \/ /\ Traced /\ Goto(t, "bindset")
              /\ UNCHANGED <<lastGood, failed, done>>
           \/ /\ ~Traced
              /\ lastGood' = [lastGood EXCEPT ![i] = th[t].key]
              /\ failed' = failed \ {i}
              /\ ItemDone(t, TRUE)
              /\ Return(t)
        /\ UNCHANGED <<layer, hist, disk, cache, readSets, pending, work, ghosts, counters>>

(* The rest of bind_traced. *)
BindReadSet(t) ==
    LET i == th[t].id
    IN  /\ th[t].pc = "bindset"
        /\ readSets' = [readSets EXCEPT ![i] = ReadSet(Pinned(t), i)]
        /\ lastGood' = [lastGood EXCEPT ![i] = th[t].key]
        /\ failed' = failed \ {i}
        /\ Return(t)
        /\ UNCHANGED <<layer, hist, disk, cache, bindings, sched, work, ghosts, counters>>
-----------------------------------------------------------------------------
(* The worker thread. *)

(* _run and _recompute_one up to the produce: an evicted revision is skipped. *)
Take ==
    LET item == Head(queue)
    IN  /\ th[Worker].pc = "idle" /\ queue # <<>>
        /\ queue' = Tail(queue)
        /\ th' = [th EXCEPT ![Worker] =
                    [Idle EXCEPT !.id = item[1], !.at = item[2],
                        !.pc = CASE item[2] \notin Window -> "settle"
                                 [] item[2] \in Window /\ Traced -> "check"
                                 [] OTHER -> "produce",
                        !.key = IF Traced THEN None ELSE KeyOf(hist[item[2]], item[1])]]
        /\ UNCHANGED <<layer, hist, disk, cache, bound, sched, inflight, ghosts, counters>>

(* Mistaken: an item whose produce failed stays in flight. *)
SettledIfWarm == IF th[Worker].key = None THEN inflight
                 ELSE inflight \ {<<th[Worker].id, th[Worker].at>>}

(* The finally clause of _run. *)
Settled == inflight \ {<<th[Worker].id, th[Worker].at>>}

(* _publish_fresh, whether the produce succeeded or not, unless it was skipped or
   raised; then the item is no longer in flight. *)
Settle ==
    /\ th[Worker].pc \in {"publish", "settle"}
    /\ inflight' = Settled
    /\ th' = [th EXCEPT ![Worker] = Idle]
    /\ UNCHANGED <<layer, hist, disk, cache, bound, sched, queue, ghosts, counters>>
-----------------------------------------------------------------------------
(* The writer's hook. *)

Changed(c, d) == {i \in Live(d) : c[i] # Gone /\ Hash(c[i]) # Hash(d[i])}
Created(c, d) == Live(d) \ Live(c)
Deleted(c, d) == Live(c) \ Live(d)

(* The affected closure of the commit's delta (module CodeLayer): everything that
   reaches a changed entity or one that referenced a deleted entity. *)
Affected(c, d) ==
    LET orphaned == {j \in Live(c) : Dependencies(c, j) \cap Deleted(c, d) # {}}
    IN  {i \in Live(d) : (Closure(d, i) \cup {i}) \cap (Changed(c, d) \cup orphaned) # {}}

(* Mistaken: the hook is told what changed, not what it affects. *)
DirtyChanged(c, d) == Changed(c, d) \cup Created(c, d)

(* _invalidate_derived: the ids the hook is told of. *)
DirtyIds(c, d) == Affected(c, d) \cup Changed(c, d) \cup Created(c, d)

(* A file is saved; nothing is committed yet. *)
Save(i, text) ==
    /\ Upsets < MaxUpsets /\ disk[i] # text
    /\ disk' = [disk EXCEPT ![i] = text]
    /\ saves' = saves + 1
    /\ UNCHANGED <<layer, hist, cache, bound, sched, work, th, ghosts, reads, faults, gcs>>

(* A commit that changes one entity, an edit in a buffer or a sync of what is on disk,
   and its hook's start. *)
Commit(t, i, text) ==
    LET c == hist[Rev]
        d == [c EXCEPT ![i] = text]
    IN  /\ t \in Writers /\ th[t].pc = "idle"
        /\ Rev < MaxRev /\ c[i] # text
        /\ hist' = Append(hist, d)
        /\ th' = [th EXCEPT ![t] = [Idle EXCEPT !.pc = "invalidate", !.todo = DirtyIds(c, d),
                                                !.deleted = Deleted(c, d)]]
        /\ UNCHANGED <<layer, disk, cache, bound, sched, work, ghosts, counters>>

(* DerivationDAG.invalidate over one snapshot of the head as it is by now: ids
   whose key moved are queued when the layer is eager, deleted ids are dropped.  A
   traced layer only drops. *)
Moved(ids) ==
    {[id |-> i, key |-> KeyOf(hist[Rev], i)] :
        i \in {j \in ids \cap Live(hist[Rev]) : bindings[j] # KeyOf(hist[Rev], j)}}

(* RecomputeScheduler.enqueue of several items: one per key, none that is done. *)
Enqueued(items) ==
    {S \in SUBSET {x \in items : x.key \notin done /\ \A y \in pending : y.key # x.key} :
        /\ \A x, y \in S : x.key = y.key => x = y
        /\ \A x \in items : x.key \in done \/ \E y \in S \cup pending : y.key = x.key}

Dropped(f, ids) == [i \in Ids |-> IF i \in ids THEN None ELSE f[i]]

Invalidate(t) ==
    /\ th[t].pc = "invalidate"
    /\ \E S \in Enqueued(IF ~Traced /\ layer.recompute = "eager" THEN Moved(th[t].todo) ELSE {}) :
            pending' = pending \cup S
    /\ th' = [th EXCEPT ![t] = [Idle EXCEPT !.pc = "list", !.at = Rev]]
    /\ bindings' = Dropped(bindings, th[t].deleted)
    /\ lastGood' = Dropped(lastGood, th[t].deleted)
    /\ readSets' = Dropped(readSets, th[t].deleted)
    /\ failed' = failed \ th[t].deleted
    /\ UNCHANGED <<layer, hist, disk, cache, done, work, ghosts, counters>>

(* process_all begins with what is pending by now: also the items of other writers, and
   not those that another has cleared. *)
ListItems(t) ==
    /\ th[t].pc = "list"
    /\ th' = [th EXCEPT ![t].pc = "process", ![t].todo = pending]
    /\ UNCHANGED <<layer, hist, disk, cache, bound, sched, work, ghosts, counters>>

(* The items in turn, then the queue is cleared. *)
Process(t) ==
    /\ th[t].pc = "process"
    /\ \/ \E x \in th[t].todo :
            /\ th' = [th EXCEPT ![t].todo = @ \ {x}, ![t].id = x.id, ![t].key = x.key,
                                ![t].art = None,
                                ![t].pc = IF x.key \in done THEN "process" ELSE "produce"]
            /\ UNCHANGED pending
       \/ /\ th[t].todo = {}
          /\ pending' = {}
          /\ th' = [th EXCEPT ![t] = Idle]
    /\ UNCHANGED <<layer, hist, disk, cache, bound, done, work, ghosts, counters>>
-----------------------------------------------------------------------------
(* Collection. *)

(* gc_orphans pins the retained window. *)
GcPin ==
    /\ th[Collector].pc = "idle" /\ Upsets < MaxUpsets /\ ~Traced
    /\ gcs' = gcs + 1
    /\ th' = [th EXCEPT ![Collector] = [Idle EXCEPT !.pc = "prune", !.at = Rev, !.todo = Window]]
    /\ UNCHANGED <<layer, hist, disk, cache, bound, sched, work, ghosts, reads, faults, saves>>

(* Mistaken: only what the head refers to is kept. *)
ReachableAtHead(window) == {KeyOf(hist[Max(window)], i) : i \in Live(hist[Max(window)])}

(* The keys of every entity at these revisions. *)
Reachable(window) == UNION {{KeyOf(hist[r], i) : i \in Live(hist[r])} : r \in window}

(* The rest is deleted, except what some entity would be served as last-good.  A
   pinned revision other than the head whose graph cannot be built is passed over, and
   its keys with it.  An empty set collects nothing. *)
GcPrune ==
    /\ th[Collector].pc = "prune"
    /\ \E lost \in SUBSET (th[Collector].todo \ {th[Collector].at}) :
          LET keep == Reachable(th[Collector].todo \ lost) \cup (Range(lastGood) \ {None})
          IN  /\ cache' = IF keep = {} THEN cache ELSE Restrict(cache, DOMAIN cache \cap keep)
              /\ unbuilt' = unbuilt \cup lost
    /\ th' = [th EXCEPT ![Collector] = Idle]
    /\ UNCHANGED <<layer, hist, disk, bound, sched, work, drifted, counters>>
-----------------------------------------------------------------------------
Init ==
    /\ layer \in Layers
    /\ hist = <<[i \in Ids |-> FirstText]>> /\ disk = [i \in Ids |-> FirstText]
    /\ cache = <<>>
    /\ bindings = [i \in Ids |-> None]
    /\ lastGood = [i \in Ids |-> None]
    /\ readSets = [i \in Ids |-> None]
    /\ failed = {} /\ done = {} /\ pending = {}
    /\ queue = <<>> /\ inflight = {}
    /\ th = [t \in Threads |-> Idle]
    /\ drifted = {} /\ unbuilt = {}
    /\ reads = 0 /\ faults = 0 /\ gcs = 0 /\ saves = 0

(* A step of a call that has begun. *)
Step(t) ==
    \/ ServeLastGood(t) \/ Lookup(t) \/ Check(t) \/ Recheck(t)
    \/ Produce(t) \/ Bind(t) \/ BindReadSet(t)
    \/ Invalidate(t) \/ ListItems(t) \/ Process(t)

WorkerStep == Take \/ Step(Worker) \/ Settle

Next ==
    \/ \E t \in Readers, i \in Ids, r \in 1..MaxRev : Read(t, i, r)
    \/ \E t \in Writers, e \in Edits : Commit(t, e[1], e[2])
    \/ \E e \in Edits : Save(e[1], e[2])
    \/ \E t \in Readers \cup Writers : Step(t)
    \/ WorkerStep
    \/ GcPin \/ GcPrune

(* The worker is a thread of its own, and generators end. *)
Spec == Init /\ [][Next]_vars /\ WF_vars(WorkerStep)
-----------------------------------------------------------------------------
(* An artifact that the producer makes of this content: the nodes it read have the
   hashes they have there, and so has its source, unless an artifact was stored under
   this key while the file on disk had another text. *)
Exact(art, c, i) ==
    /\ art.others = Contents(c, Inputs(c, i))
    /\ KeyOf(c, i) \in drifted \/ Hash(art.own) = Hash(c[i])

(* Whoever produced it, at whatever revision, an artifact served as fresh by a keyed
   layer is one of the snapshot that is read.  A traced layer serves only what was made
   of a revision that agrees with the one read on everything the producer read there,
   also when a read meets a half-written binding.  (A caller that is new since then was
   not read.) *)
FreshIsExact ==
    \A t \in Readers : th[t].pc = "fresh" =>
        LET i == th[t].id
        IN  IF ~Traced THEN Exact(th[t].art, Pinned(t), i)
            ELSE \E c \in Range(hist) :
                    /\ Exact(th[t].art, c, i)
                    /\ \A j \in ReadSet(c, i) : Hash(c[j]) = Hash(Pinned(t)[j])

(* What the code says of it: "fresh means the artifact matches the entity's content
   hash at this revision" (DerivedValue), the source being "lazily read off the frozen
   snapshot" (_RecordingContext.source). *)
FreshMatchesHash ==
    \A t \in Readers : th[t].pc = "fresh" => Hash(th[t].art.own) = Hash(Pinned(t)[th[t].id])

(* Once the hook of a commit has ended, an eager layer holds the artifacts of the
   entities the commit created and of those whose key it moved, unless a generator
   failed or returned nothing or a collection ran, or a second writer's hook cleared the queue.  (A key moved
   by a new callee, or a new caller, is left to the next read: the hook is not told.) *)
EagerArrives ==
    /\ layer.recompute = "eager" /\ layer.locality \in {"local", "semantic"}
    /\ faults = 0 /\ gcs = 0 /\ Rev > 1
    /\ \A t \in Writers : th[t].pc = "idle"
    => LET c == hist[Rev - 1]  d == hist[Rev]  new == Created(c, d)
       IN  \A i \in Live(d) :
                \/ i \in new
                \/ KeyOf(c, i) # KeyOf(d, i) /\ Closure(d, i) \cap new = {}
                => KeyOf(d, i) \in DOMAIN cache

(* Collection "keeps a cached artifact addressable by a time-travel snapshot until
   that revision is evicted": whatever commits and produces run meanwhile, nothing
   readable at a revision that was retained when the collection began, and whose graph
   it could build, disappears. *)
WindowKept ==
    [][\A r \in (Window \cap 1..th[Collector].at) \ unbuilt', i \in Ids :
            /\ i \in Live(hist[r])
            /\ KeyOf(hist[r], i) \in DOMAIN cache
            => KeyOf(hist[r], i) \in DOMAIN cache']_vars

(* "A failed recompute is never a miss": what stale reads hand to the worker is
   settled once they stop, whatever fails, so that a later read may hand it over
   again. *)
ItemsSettle == []<>(inflight = {})
=============================================================================
