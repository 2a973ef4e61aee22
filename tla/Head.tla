-------------------------------- MODULE Head --------------------------------
(***************************************************************************)
(* The native head of a TyO3 session (rust/src/project, rust/src/content): *)
(* the content store and its revisions, the live overlay, the analysis     *)
(* engine's view of it, the identity registry and the authored records     *)
(* with their files in the sidecar, pinned snapshots, and the one commit   *)
(* funnel every write goes through.                                        *)
(*                                                                         *)
(* A commit holds the head mutex from its plan to its publish, so no other *)
(* client call interleaves with it; what does interleave is the outside    *)
(* world: editors writing the disk, the file watcher queueing events, a    *)
(* sidecar write that fails, and the process dying between two steps.      *)
(*                                                                         *)
(* Data: a file is a path with a text and defines one top-level entity.    *)
(* Its durable ids are <<path, 1>>, <<path, 2>>, ... in the order they     *)
(* were minted: a file that is removed and written again may get another   *)
(* one.  Entities of different files have different names, so no anchor    *)
(* moves between paths (moves and renames belong to module Identity).  The *)
(* engine is external: it reads a file through the overlay when an event   *)
(* tells it to, and keeps what it read.                                    *)
(***************************************************************************)
EXTENDS Naturals, Sequences, FiniteSets, FiniteSetsExt

CONSTANTS
    Paths,        \* the project files
    Texts,        \* file contents
    Vals,         \* authored values
    NoDoc,        \* no document for this path in a generation
    Gone,         \* a tombstone, and a file that is absent on disk
    RetainCap,    \* [spine] retain_cap of the configuration
    KeepHistory,  \* the authored layer's "history" setting
    ReviewOnChange, \* ... and its "review_on_change"
    Ops,          \* the operations the environment performs in this instance
    MaxRev,       \* bound: client writes start only below this revision
    MaxDisk,      \* bound: changes other programs make to the disk
    MaxFaults,    \* bound: commits that fail
    MaxStarts,    \* bound: times the project is opened
    MaxSnaps,     \* bound: snapshots held at a time
    MaxIds        \* bound: durable ids minted for one path

ASSUME HeadAssumption ==
    /\ NoDoc \notin Texts /\ Gone \notin Texts /\ NoDoc # Gone
    /\ RetainCap \in Nat
    /\ KeepHistory \in BOOLEAN /\ ReviewOnChange \in BOOLEAN
    /\ MaxRev \in Nat /\ MaxDisk \in Nat /\ MaxFaults \in Nat
    /\ MaxStarts \in Nat /\ MaxSnaps \in Nat /\ MaxIds \in Nat

VARIABLES
    phase,     \* where the holder of the head mutex is
    disk,      \* the project files on disk
    idDisk,    \* the anchors in .tyo3/identity.db
    recDisk,   \* the authored records under .tyo3/authored
    rev,       \* ContentStore.revision
    gen,       \* ContentStore.generation
    ver,       \* ContentStore.version_counter
    retained,  \* ContentStore.retained: revision -> generation
    overlay,   \* the generation the live OverlaySystem serves
    db,        \* per path, the document the engine last read
    reg,       \* HeadState.registry
    authored,  \* HeadState.authored: id -> versions, the current one last
    unsaved,   \* HeadState.unsaved_overlays
    staged,    \* the StagedCommit while a commit runs
    base,      \* its Baseline
    watching,  \* a ProjectWatcher is installed
    debounce,  \* events the watcher has seen and not yet handed over
    pending,   \* PyTyProject.pending
    snaps,     \* pinned snapshots
    hist,      \* history: revision -> what was committed as that revision
    buffer,    \* history: path -> text of the client's unsaved buffer
    unseen,    \* history: paths whose last disk change no event reported
    disks, faults, starts   \* counters for the bounds

store == <<rev, gen, ver, retained>>
watch == <<watching, debounce, pending>>
sidecar == <<idDisk, recDisk>>
ghosts == <<hist, buffer, unseen>>
counters == <<disks, faults, starts>>
vars == <<phase, disk, sidecar, store, overlay, db, reg, authored, unsaved,
          staged, base, watch, snaps, ghosts, counters>>

-----------------------------------------------------------------------------
(* Documents, generations, anchors, authored versions. *)

Docs == [text : Texts \cup {NoDoc, Gone}, ver : Nat]
Generations == [Paths -> Docs]
EmptyGen == [p \in Paths |-> [text |-> NoDoc, ver |-> 0]]

(* The ids of a path.  "unused": not minted yet; "lost": minted, but a registry that
   was given up held its anchor. *)
Numbers == 1..MaxIds
Ids == Paths \X Numbers

Live == {"active", "review"}
Known == Live \cup {"orphaned"}
Anchors == [hash : Texts \cup {NoDoc}, status : Known \cup {"unused", "lost"}]
AnchorLists == [Numbers -> Anchors]

(* IdentityRegistry: per path its anchors, and which of them by_path names (0: none). *)
Entries == [anchors : AnchorLists, at : Numbers \cup {0}]
Registries == [Paths -> Entries]
EmptyRegistry ==
    [p \in Paths |-> [anchors |-> [k \in Numbers |-> [hash |-> NoDoc, status |-> "unused"]],
                      at |-> 0]]

KnownIds(anchors) == {k \in Numbers : anchors[k].status \in Known}
LiveIds(anchors) == {k \in Numbers : anchors[k].status \in Live}
UnusedIds(anchors) == {k \in Numbers : anchors[k].status = "unused"}
WithBody(anchors, text) == {k \in KnownIds(anchors) : anchors[k].hash = text}
AnchorOf(r, i) == r[i[1]].anchors[i[2]]

Versions == [val : Vals, rev : Nat, reviewed : Texts \cup {NoDoc}]
Records == [Ids -> Seq(Versions)]
NoRecords == [i \in Ids |-> <<>>]

Rescan == [kind |-> "rescan"]
Events == [kind : {"created", "changed", "deleted"}, path : Paths] \cup {Rescan}

(* OverlaySystem.read_to_string of a live overlay: the document, else the disk. *)
Read(g, p) ==
    IF g[p].text = NoDoc THEN disk[p] ELSE g[p].text

(* The same read through a frozen overlay, which has no disk to fall back on. *)
Content(g, p) ==
    IF g[p].text = NoDoc THEN Gone ELSE g[p].text

(* Mistaken: the version is the revision to be, so a rolled-back commit's number is
   drawn again. *)
StageByRevision(f) ==
    [p \in Paths |-> IF p \in DOMAIN f THEN [text |-> f[p], ver |-> rev + 1]
                                       ELSE gen[p]]

(* ContentStore.stage: the paths of f get their new text and a version drawn
   from the counter; a batch draws one number where the code draws one per path,
   which keeps versions distinct per path and that is all they are compared for. *)
Stage(f) ==
    [p \in Paths |-> IF p \in DOMAIN f THEN [text |-> f[p], ver |-> ver + 1]
                                       ELSE gen[p]]

(* Mistaken: evicts once the window is full, not once it is too large. *)
RetainOneLess(window, r, g) ==
    LET all == DOMAIN window \cup {r}
    IN  [k \in {k \in all : Cardinality({j \in all : j >= k}) < RetainCap} |->
            IF k = r THEN g ELSE window[k]]

(* Mistaken: files the generation under the revision after the one it makes. *)
RetainNext(window, r, g) ==
    LET all == DOMAIN window \cup {r + 1}
    IN  [k \in {k \in all : Cardinality({j \in all : j >= k}) <= RetainCap} |->
            IF k = r + 1 THEN g ELSE window[k]]

(* ContentStore.record_retained: insert the revision, evict the oldest ones. *)
Retain(window, r, g) ==
    LET all == DOMAIN window \cup {r}
    IN  [k \in {k \in all : Cardinality({j \in all : j >= k}) <= RetainCap} |->
            IF k = r THEN g ELSE window[k]]

(* db.apply_changes over the event paths: a file whose overlay revision differs
   from the one it was read at is read again, any other keeps its memo. *)
Refresh(g, changed) ==
    [p \in Paths |->
        IF p \in changed /\ (g[p].ver # db[p].ver \/ g[p].text \in {NoDoc, Gone})
        THEN [text |-> Read(g, p), ver |-> g[p].ver]
        ELSE db[p]]

(* Mistaken: a path's entry in by_path is not looked at. *)
MatchBody(e, text) ==
    IF WithBody(e.anchors, text) # {} THEN Min(WithBody(e.anchors, text))
                                     ELSE Min(UnusedIds(e.anchors))

(* The passes of reconcile for one top-level entity: the id by_path names (A), else the
   smallest id whose last body was this one (B), else a minted one (D). *)
Match(e, text) ==
    CASE e.at # 0 -> e.at
      [] e.at = 0 /\ WithBody(e.anchors, text) # {} -> Min(WithBody(e.anchors, text))
      [] OTHER -> Min(UnusedIds(e.anchors))

(* Mistaken: leaves the anchor's hash as it was. *)
ReboundPath(e, id, text) ==
    LET old == e.anchors[id]
        status == IF e.at # 0 /\ old.hash # text THEN "review" ELSE "active"
        hash == IF old.hash = NoDoc THEN text ELSE old.hash
    IN  [anchors |-> [e.anchors EXCEPT ![id] = [hash |-> hash, status |-> status]],
         at      |-> id]

(* rebind or insert, and the status: a body that differs from the one of an anchor
   found by its path is flagged for review. *)
Rebound(e, id, text) ==
    LET status == IF e.at # 0 /\ e.anchors[id].hash # text THEN "review" ELSE "active"
    IN  [anchors |-> [e.anchors EXCEPT ![id] = [hash |-> text, status |-> status]],
         at      |-> id]

(* retire: the anchor stays and is orphaned; the path goes out of by_path, whichever
   id it names there. *)
Retired(e, gone) ==
    [anchors |-> [k \in Numbers |->
                    IF k \in gone THEN [hash |-> e.anchors[k].hash, status |-> "orphaned"]
                                  ELSE e.anchors[k]],
     at      |-> IF gone = {} THEN e.at ELSE 0]

(* reconcile for one path: bind its entity, retire every other anchor it has. *)
Bind(e, text) ==
    IF text \in Texts
    THEN LET id == Match(e, text)
         IN  Retired(Rebound(e, id, text), LiveIds(e.anchors) \ {id})
    ELSE Retired(e, LiveIds(e.anchors))

(* run_identity_reconciliation: extract the scope's entities from the engine and
   reconcile their anchors. *)
Reconcile(r, view, scope) ==
    [p \in Paths |-> IF p \in scope THEN Bind(r[p], view[p].text) ELSE r[p]]

(* The bound on minting: every path has an id left. *)
CanMint(saved) == \A p \in Paths : UnusedIds(saved[p]) # {}

(* to_json: the anchors; by_path is not written. *)
Saved(r) == [p \in Paths |-> r[p].anchors]

(* from_json inserts every anchor, orphans too, in the order of the ids: the largest
   one is what by_path names. *)
Loaded(saved) ==
    [p \in Paths |-> [anchors |-> saved[p], at |-> Max(KnownIds(saved[p]) \cup {0})]]

(* A file that cannot be read or parsed: an empty registry, though the ids were used. *)
StartedFresh(saved) ==
    [p \in Paths |->
        [anchors |-> [k \in Numbers |->
                        [hash   |-> NoDoc,
                         status |-> IF saved[p][k].status = "unused" THEN "unused"
                                                                     ELSE "lost"]],
         at      |-> 0]]

(* Mistaken: keeps the current version only, whatever the configuration says. *)
PutCurrent(versions, v) == <<v>>

(* AuthoredMap.put *)
Put(versions, v) == IF KeepHistory THEN Append(versions, v) ELSE <<v>>

(* AuthoredMap.value_at: the newest stored version whose revision is at most r. *)
UpTo(versions, r) == {i \in DOMAIN versions : versions[i].rev <= r}

-----------------------------------------------------------------------------
(* Opening, closing and crashing. *)

Idle ==
    [gen |-> EmptyGen, events |-> {}, scope |-> {}, reconcile |-> FALSE,
     notes |-> NoRecords, writes |-> {}, ins |-> {}, rem |-> {}]
Baseline(g, r) == [gen |-> g, reg |-> r]

Init ==
    /\ phase = "closed"
    /\ disk \in [Paths -> Texts \cup {Gone}]
    /\ idDisk = Saved(EmptyRegistry) /\ recDisk = NoRecords
    /\ rev = 0 /\ gen = EmptyGen /\ ver = 0 /\ retained = [k \in {0} |-> EmptyGen]
    /\ overlay = EmptyGen /\ db = EmptyGen
    /\ reg = EmptyRegistry /\ authored = NoRecords /\ unsaved = {}
    /\ staged = Idle /\ base = Baseline(EmptyGen, EmptyRegistry)
    /\ watching = FALSE /\ debounce = <<>> /\ pending = <<>>
    /\ snaps = {}
    /\ hist = [k \in {0} |-> Baseline(EmptyGen, EmptyRegistry)]
    /\ buffer = [p \in Paths |-> NoDoc] /\ unseen = {}
    /\ disks = 0 /\ faults = 0 /\ starts = 0

(* PyTyProject.open up to the reconciled registry: ingest every file on disk as
   revision 1, build the engine over it, reconcile against identity.db, or against an
   empty registry if that file is damaged.  (An identity.db of a newer version makes
   open raise before anything changed.) *)
OpenWith(loaded) ==
    /\ phase = "closed" /\ starts < MaxStarts
    /\ CanMint(idDisk)
    /\ LET g == [p \in Paths |-> IF disk[p] = Gone THEN EmptyGen[p]
                                 ELSE [text |-> disk[p], ver |-> 1]]
           read == [p \in Paths |-> [text |-> disk[p], ver |-> g[p].ver]]
           r == Reconcile(loaded, read, Paths)
       IN  /\ gen' = g /\ overlay' = g /\ db' = read /\ reg' = r
           /\ retained' = Retain([k \in {0} |-> EmptyGen], 1, g)
           /\ hist' = [k \in 0..1 |-> IF k = 0 THEN Baseline(EmptyGen, r)
                                              ELSE Baseline(g, r)]
    /\ phase' = "opening"
    /\ rev' = 1 /\ ver' = 1
    /\ authored' = NoRecords /\ unsaved' = {}
    /\ staged' = Idle /\ base' = Baseline(EmptyGen, EmptyRegistry)
    /\ watching' = FALSE /\ debounce' = <<>> /\ pending' = <<>> /\ snaps' = {}
    /\ buffer' = [p \in Paths |-> NoDoc] /\ unseen' = {}
    /\ starts' = starts + 1
    /\ UNCHANGED <<disk, sidecar, disks, faults>>

Open ==
    \/ OpenWith(Loaded(idDisk))
    \/ "damage" \in Ops /\ OpenWith(StartedFresh(idDisk))

(* The rest of open: persist the registry, load the authored records. *)
FinishOpen ==
    /\ phase = "opening"
    /\ phase' = "ready"
    /\ idDisk' = Saved(reg) /\ authored' = recDisk
    /\ UNCHANGED <<disk, recDisk, store, overlay, db, reg, unsaved, staged, base,
                   watch, snaps, ghosts, counters>>

(* A damaged authored record: open raises once the registry has been persisted. *)
FailOpen ==
    /\ phase = "opening" /\ "damage" \in Ops
    /\ phase' = "closed"
    /\ idDisk' = Saved(reg)
    /\ UNCHANGED <<disk, recDisk, store, overlay, db, reg, authored, unsaved, staged,
                   base, watch, snaps, ghosts, counters>>

(* PyTyProject.close: the watcher is stopped, the head state dropped. *)
Close ==
    /\ phase = "ready" /\ "stop" \in Ops
    /\ phase' = "closed"
    /\ watching' = FALSE /\ debounce' = <<>> /\ pending' = <<>>
    /\ UNCHANGED <<disk, sidecar, store, overlay, db, reg, authored, unsaved,
                   staged, base, snaps, ghosts, counters>>

(* The process dies: memory is gone, the disk and the sidecar stay. *)
Crash ==
    /\ phase # "closed" /\ "stop" \in Ops
    /\ phase' = "closed"
    /\ watching' = FALSE /\ debounce' = <<>> /\ pending' = <<>> /\ snaps' = {}
    /\ UNCHANGED <<disk, sidecar, store, overlay, db, reg, authored, unsaved,
                   staged, base, ghosts, counters>>

-----------------------------------------------------------------------------
(* The writes.  Each one builds its plan (build_plan) and takes the baseline. *)

Begin(plan) ==
    /\ phase' = "apply"
    /\ staged' = plan /\ base' = Baseline(gen, reg)
    /\ UNCHANGED <<disk, sidecar, rev, gen, retained, overlay, db, reg, authored,
                   unsaved, watching, debounce, snaps, ghosts, counters>>

(* A plan that changes files: f maps the touched paths to their new text. *)
ContentPlan(f, changed, scope, ins, rem) ==
    [gen |-> Stage(f), events |-> changed, scope |-> scope, reconcile |-> TRUE,
     notes |-> authored, writes |-> {}, ins |-> ins, rem |-> rem]

NoChange == [p \in {} |-> Gone]

CanWrite(op) == phase = "ready" /\ op \in Ops /\ rev < MaxRev

(* edit and edit_many: overlay buffers, one revision for all of them. *)
Edit ==
    /\ CanWrite("edit")
    /\ \E S \in (SUBSET Paths) \ {{}} : \E f \in [S -> Texts] :
          Begin(ContentPlan(f, S, S, S, {}))
    /\ ver' = ver + 1
    /\ UNCHANGED pending

(* edit_virtual: no system path is touched, so the identity scope is empty and
   the reconciliation is a full one. *)
EditVirtual ==
    /\ CanWrite("other")
    /\ Begin(ContentPlan(NoChange, {}, Paths, {}, {}))
    /\ ver' = ver + 1
    /\ UNCHANGED pending

(* sync_path and discard: re-read one path, a file that is gone is a tombstone. *)
SyncPath ==
    /\ CanWrite("sync")
    /\ \E p \in Paths :
          Begin(ContentPlan([q \in {p} |-> disk[q]], {p}, {p}, {}, {p}))
    /\ ver' = ver + 1
    /\ UNCHANGED pending

(* sync_path and discard of a path that is no Python file: it has no identity scope, so
   the reconciliation is a full one; if it is a configuration file, the engine reloads
   the project. *)
SyncOther ==
    /\ CanWrite("other")
    /\ \E reloaded \in {{}, Paths} :
          Begin(ContentPlan(NoChange, reloaded, Paths, {}, {}))
    /\ ver' = ver + 1
    /\ UNCHANGED pending

(* Mistaken: sync_all overwrites the unsaved buffers. *)
SyncNothingSkipped == {}

(* read_disk_changes leaves the unsaved buffers out. *)
SyncSkips == unsaved

(* sync_all: re-read every file the walk finds, except unsaved buffers. *)
SyncAll ==
    /\ CanWrite("syncall")
    /\ LET found == {p \in Paths \ SyncSkips : disk[p] # Gone}
       IN  Begin(ContentPlan([p \in found |-> disk[p]], Paths, Paths, {}, {}))
    /\ ver' = ver + 1
    /\ UNCHANGED pending

(* author: an authored value for a known id, stamped with the revision this
   commit will publish and the entity's current hash. *)
Author ==
    /\ CanWrite("author")
    /\ \E i \in Ids, v \in Vals :
          /\ AnchorOf(reg, i).status \in Known
          /\ LET note == [val |-> v, rev |-> rev + 1,
                          reviewed |-> AnchorOf(reg, i).hash]
             IN  Begin([gen |-> gen, events |-> {}, scope |-> {},
                        reconcile |-> FALSE,
                        notes |-> [authored EXCEPT ![i] = Put(@, note)],
                        writes |-> {i}, ins |-> {}, rem |-> {}])
    /\ UNCHANGED <<ver, pending>>

(* Mistaken: takes every document the store holds for a buffer. *)
PollIgnoresInterned == {p \in Paths : gen[p].text # NoDoc}

(* The buffer-wins filter of build_poll_plan. *)
PollIgnores == unsaved

(* poll_changes: drain the queue, then fold what survives the buffer-wins filter.
   A batch with a rescan is folded as an unchanged generation and a full rescan;
   a batch with nothing left publishes nothing. *)
LastKind(q, p) == q[Max({i \in DOMAIN q : q[i].path = p})].kind

Poll ==
    /\ phase = "ready" /\ pending # <<>>
    /\ pending' = <<>>
    /\ IF Rescan \in {pending[i] : i \in DOMAIN pending}
       THEN /\ Begin(ContentPlan(NoChange, Paths, Paths, {}, {}))
            /\ UNCHANGED ver
       ELSE LET kept == {pending[i].path : i \in DOMAIN pending} \ PollIgnores
                text(p) == IF LastKind(pending, p) = "deleted" THEN Gone ELSE disk[p]
            IN  IF kept = {}
                THEN UNCHANGED <<phase, disk, sidecar, store, overlay, db, reg,
                                 authored, unsaved, staged, base, watching, debounce,
                                 snaps, ghosts, counters>>
                ELSE /\ Begin(ContentPlan([p \in kept |-> text(p)],
                                          kept, kept, {}, {}))
                     /\ ver' = ver + 1

-----------------------------------------------------------------------------
(* The staged transaction (run_staged, rollback). *)

(* Publish the staged generation to the live overlay, let the engine apply the
   events, reconcile the registry in place. *)
ApplyEngine ==
    /\ phase = "apply" /\ CanMint(Saved(reg))
    /\ phase' = "persist"
    /\ overlay' = staged.gen
    /\ db' = Refresh(staged.gen, staged.events)
    /\ reg' = IF staged.reconcile THEN Reconcile(reg, db', staged.scope) ELSE reg
    /\ UNCHANGED <<disk, sidecar, store, authored, unsaved, staged, base, watch, snaps,
                   ghosts, counters>>

(* Mistaken: the record is written after the commit, by nobody. *)
NothingWritten == recDisk

(* The record files after write_atomic: the authored id's file is replaced. *)
WrittenRecords ==
    [i \in Ids |-> IF i \in staged.writes THEN staged.notes[i] ELSE recDisk[i]]

(* persist_identity, or the authored record's write_atomic: the file is replaced
   by rename, so it holds either what it held or all of the new bytes. *)
Persist ==
    /\ phase = "persist"
    /\ phase' = "publish"
    /\ idDisk' = IF staged.reconcile THEN Saved(reg) ELSE idDisk
    /\ recDisk' = WrittenRecords
    /\ UNCHANGED <<disk, store, overlay, db, reg, authored, unsaved, staged, base, watch,
                   snaps, ghosts, counters>>

(* Mistaken: the registry keeps what the failed commit reconciled. *)
KeptRegistry == reg

(* rollback puts the registry of the baseline back. *)
RestoredRegistry == base.reg

(* A fallible step of the transaction fails: rollback restores the baseline. *)
Rollback ==
    /\ phase = "persist" /\ "fault" \in Ops /\ faults < MaxFaults
    /\ phase' = "ready"
    /\ overlay' = base.gen
    /\ reg' = RestoredRegistry
    /\ staged' = Idle /\ base' = Baseline(EmptyGen, EmptyRegistry)
    /\ faults' = faults + 1
    /\ UNCHANGED <<disk, sidecar, store, db, authored, unsaved, watch, snaps,
                   ghosts, disks, starts>>

(* An event that the queue holds, of this change or of an earlier one. *)
Reported(p) == \E i \in DOMAIN pending : pending[i] # Rescan /\ pending[i].path = p

(* ContentStore.publish_staged and the bookkeeping after it. *)
PublishStaged ==
    /\ phase = "publish"
    /\ phase' = "ready"
    /\ rev' = rev + 1
    /\ gen' = staged.gen
    /\ retained' = Retain(retained, rev + 1, staged.gen)
    /\ authored' = staged.notes
    /\ unsaved' = (unsaved \cup staged.ins) \ staged.rem
    /\ staged' = Idle /\ base' = Baseline(EmptyGen, EmptyRegistry)
    /\ hist' = [k \in 0..rev + 1 |-> IF k = rev + 1 THEN Baseline(staged.gen, reg)
                                                   ELSE hist[k]]
    /\ buffer' = [p \in Paths |-> IF p \in staged.ins THEN staged.gen[p].text
                                  ELSE IF p \in staged.rem THEN NoDoc
                                  ELSE buffer[p]]
    /\ unseen' = {p \in unseen : Content(staged.gen, p) # disk[p] \/ Reported(p)}
    /\ UNCHANGED <<disk, sidecar, ver, overlay, db, reg, watch, snaps, counters>>

-----------------------------------------------------------------------------
(* Snapshots. *)

Pin(r, g, head) ==
    /\ phase = "ready" /\ "snapshot" \in Ops /\ Cardinality(snaps) < MaxSnaps
    /\ snaps' = snaps \cup {[rev |-> r, gen |-> g, reg |-> reg,
                             authored |-> authored, head |-> head]}
    /\ UNCHANGED <<phase, disk, sidecar, store, overlay, db, reg, authored, unsaved,
                   staged, base, watch, ghosts, counters>>

(* snapshot() *)
Snapshot == Pin(rev, gen, TRUE)

(* Mistaken: checks that the revision is retained, then pins the head's content. *)
SnapshotAtHead == \E r \in DOMAIN retained : Pin(r, gen, FALSE)

(* snapshot(at=r) of a revision still retained; any other r is an error. *)
SnapshotAt == \E r \in DOMAIN retained : Pin(r, retained[r], FALSE)

(* PySnapshot.close *)
ReleaseSnapshot ==
    /\ \E s \in snaps : snaps' = snaps \ {s}
    /\ UNCHANGED <<phase, disk, sidecar, store, overlay, db, reg, authored, unsaved,
                   staged, base, watch, ghosts, counters>>

(* reload: the head is rebuilt over the kept store, registry and configuration;
   everything else of HeadState starts empty. *)
Reload ==
    /\ phase = "ready" /\ "reload" \in Ops
    /\ overlay' = gen
    /\ db' = [p \in Paths |-> [text |-> Read(gen, p), ver |-> gen[p].ver]]
    /\ authored' = NoRecords /\ unsaved' = {}
    /\ UNCHANGED <<phase, disk, sidecar, store, reg, staged, base, watch, snaps, ghosts,
                   counters>>

-----------------------------------------------------------------------------
(* The file watcher and the outside world. *)

(* The paths whose last change is lost with what the watcher has not handed over. *)
Undelivered ==
    LET batch == {debounce[i] : i \in DOMAIN debounce}
    IN  IF Rescan \in batch THEN Paths ELSE {e.path : e \in batch}

(* watch: a second call replaces the watcher, whose threads stop. *)
Watch ==
    /\ phase = "ready" /\ "watch" \in Ops
    /\ watching' = TRUE /\ debounce' = <<>>
    /\ unseen' = unseen \cup Undelivered
    /\ UNCHANGED <<phase, disk, sidecar, store, overlay, db, reg, authored, unsaved,
                   staged, base, pending, snaps, hist, buffer, counters>>

(* unwatch: the watcher and what it has not handed over go, the queue stays. *)
Unwatch ==
    /\ phase = "ready" /\ "unwatch" \in Ops /\ watching
    /\ watching' = FALSE /\ debounce' = <<>>
    /\ unseen' = unseen \cup Undelivered
    /\ UNCHANGED <<phase, disk, sidecar, store, overlay, db, reg, authored, unsaved,
                   staged, base, pending, snaps, hist, buffer, counters>>

(* Mistaken: a batch that finds one not yet polled is dropped. *)
KeepQueue(q, batch) == IF q = <<>> THEN batch ELSE q

(* pending.extend(events) *)
ExtendQueue(q, batch) == q \o batch

(* The handler of watch(): the debounced batch joins the queue. *)
WatcherDelivers ==
    /\ debounce # <<>>
    /\ pending' = ExtendQueue(pending, debounce) /\ debounce' = <<>>
    /\ UNCHANGED <<phase, disk, sidecar, store, overlay, db, reg, authored, unsaved,
                   staged, base, watching, snaps, ghosts, counters>>

(* The watcher loses sync with the file system and says so with one rescan. *)
WatcherLosesSync ==
    /\ "rescan" \in Ops /\ debounce \notin {<<>>, <<Rescan>>}
    /\ debounce' = <<Rescan>>
    /\ UNCHANGED <<phase, disk, sidecar, store, overlay, db, reg, authored, unsaved,
                   staged, base, watching, pending, snaps, ghosts, counters>>

(* Another program writes or removes a file. *)
DiskChange ==
    /\ disks < MaxDisk
    /\ \E p \in Paths, t \in Texts \cup {Gone} :
          /\ t # disk[p]
          /\ disk' = [disk EXCEPT ![p] = t]
          /\ IF watching
             THEN /\ debounce' = Append(debounce,
                        [kind |-> IF t = Gone THEN "deleted"
                                 ELSE IF disk[p] = Gone THEN "created"
                                 ELSE "changed", path |-> p])
                  /\ unseen' = unseen \ {p}
             ELSE /\ unseen' = unseen \cup {p}
                  /\ UNCHANGED debounce
    /\ disks' = disks + 1
    /\ UNCHANGED <<phase, sidecar, store, overlay, db, reg, authored, unsaved,
                   staged, base, watching, pending, snaps, hist, buffer, faults, starts>>

-----------------------------------------------------------------------------
Next ==
    \/ Open \/ FinishOpen \/ FailOpen \/ Close \/ Crash
    \/ Edit \/ EditVirtual \/ SyncPath \/ SyncOther \/ SyncAll \/ Author \/ Poll
    \/ ApplyEngine \/ Persist \/ Rollback \/ PublishStaged
    \/ Snapshot \/ SnapshotAt \/ ReleaseSnapshot \/ Reload
    \/ Watch \/ Unwatch \/ WatcherDelivers \/ WatcherLosesSync \/ DiskChange

Spec == Init /\ [][Next]_vars

(* A commit runs to its end on the thread that holds the mutex, the watcher thread
   hands its batch over, and the auto-poll thread polls again every tick. *)
FairSpec ==
    /\ Spec
    /\ WF_vars(FinishOpen) /\ WF_vars(ApplyEngine) /\ WF_vars(Persist)
    /\ WF_vars(PublishStaged) /\ WF_vars(WatcherDelivers) /\ WF_vars(Poll)
-----------------------------------------------------------------------------
(* Properties. *)

Plans ==
    [gen : Generations, events : SUBSET Paths, scope : SUBSET Paths,
     reconcile : BOOLEAN, notes : Records, writes : SUBSET Ids,
     ins : SUBSET Paths, rem : SUBSET Paths]
Baselines == [gen : Generations, reg : Registries]
Snapshots == [rev : Nat, gen : Generations, reg : Registries, authored : Records,
              head : BOOLEAN]

(* Every variable of the head keeps its type. *)
TypeOK ==
    /\ phase \in {"closed", "opening", "ready", "apply", "persist", "publish"}
    /\ disk \in [Paths -> Texts \cup {Gone}]
    /\ idDisk \in [Paths -> AnchorLists] /\ recDisk \in Records
    /\ rev \in Nat /\ gen \in Generations /\ ver \in Nat
    /\ DOMAIN retained \subseteq 0..rev
    /\ retained \in [DOMAIN retained -> Generations]
    /\ overlay \in Generations /\ db \in Generations
    /\ reg \in Registries /\ authored \in Records /\ unsaved \subseteq Paths
    /\ staged \in Plans /\ base \in Baselines
    /\ watching \in BOOLEAN /\ debounce \in Seq(Events) /\ pending \in Seq(Events)
    /\ snaps \subseteq Snapshots
    /\ hist \in [0..rev -> Baselines]
    /\ buffer \in [Paths -> Texts \cup {NoDoc, Gone}] /\ unseen \subseteq Paths
    /\ disks \in Nat /\ faults \in Nat /\ starts \in Nat

(* A commit is all or nothing (run_staged publishes last, rollback restores the
   rest): whenever the head mutex is free, the live overlay serves exactly the
   store's generation, identity.db holds exactly the registry in memory, and both
   are what was committed as the current revision; and until the publish step the
   store still holds the previous revision. *)
AllOrNothing ==
    /\ phase = "ready" => /\ overlay = gen
                          /\ idDisk = Saved(reg)
                          /\ hist[rev].reg = reg
    /\ phase # "closed" => hist[rev].gen = gen

(* A pinned snapshot reads the content committed as its revision for as long as it
   is held, whatever is committed, rolled back, evicted or reloaded meanwhile, and
   a snapshot taken at the head also pins that revision's registry. *)
SnapshotIsolation ==
    \A s \in snaps : /\ s.gen = hist[s.rev].gen
                     /\ s.head => s.reg = hist[s.rev].reg

(* snapshot(at=r) can time-travel to exactly the last retain_cap revisions, each
   with the content that was committed as that revision. *)
RetainedWindow ==
    phase # "closed" =>
        /\ DOMAIN retained = {k \in 0..rev : k + RetainCap > rev}
        /\ \A k \in DOMAIN retained : retained[k] = hist[k].gen

(* The engine decides by version number alone whether a file must be read again,
   so two documents of one path with one version must have one text, the ones of
   commits that were rolled back included. *)
VersionNamesText ==
    LET docs(p) == {gen[p], overlay[p], db[p]}
                     \cup {retained[k][p] : k \in DOMAIN retained}
                     \cup (IF phase = "apply" THEN {staged.gen[p]} ELSE {})
    IN  phase # "closed" =>
            \A p \in Paths : \A c, d \in docs(p) :
                c.ver = d.ver /\ c.ver # 0 => c.text = d.text

(* derive_authored_status of a record's current version. *)
ReviewStatus(i) ==
    LET note == authored[i][Len(authored[i])]
        anchor == AnchorOf(reg, i)
    IN  CASE ~ReviewOnChange -> "present"
          [] ReviewOnChange /\ anchor.status = "orphaned" -> "orphaned"
          [] ReviewOnChange /\ anchor.status \in Live /\ note.reviewed # NoDoc
                /\ note.reviewed # anchor.hash -> "needs_review"
          [] OTHER -> "present"

(* Review state is a level, not an edge.  At the head a file that is gone has only
   orphaned ids, and one that is there has exactly one that is not; a note on that one
   needs review exactly when the file's text differs from the text it was authored
   against, and a note on any other id the registry knows is orphaned: after any number
   of edits, reverts, deletions, restarts and losses of identity.db.  (A file without a
   document is read from the disk as it is at that moment, so nothing is claimed about
   it.  Commits that fail are left out together with those that reconcile everything
   from the engine: see AheadIsBenign.) *)
ReviewFollowsContent ==
    phase = "ready" =>
        \A p \in Paths : gen[p].text # NoDoc =>
            LET anchors == reg[p].anchors
            IN  /\ IF gen[p].text = Gone THEN LiveIds(anchors) = {}
                   ELSE \E k \in Numbers : LiveIds(anchors) = {k}
                /\ ReviewOnChange => \A k \in KnownIds(anchors) :
                      LET versions == authored[<<p, k>>]
                      IN  versions # <<>> =>
                            ReviewStatus(<<p, k>>) =
                                IF k \notin LiveIds(anchors) THEN "orphaned"
                                ELSE IF versions[Len(versions)].reviewed = gen[p].text
                                     THEN "present" ELSE "needs_review"

(* The engine, left ahead by a commit that was rolled back, does no harm: whatever is
   committed next, the id in force of a file has the hash of the head's text. *)
AheadIsBenign ==
    phase = "ready" =>
        \A p \in Paths : gen[p].text \in Texts =>
            \A k \in LiveIds(reg[p].anchors) : reg[p].anchors[k].hash = gen[p].text

(* A note stays with its file: in the first session on a sidecar a commit that finds a
   file there and leaves it there, with whatever text, leaves its id in force.  (A later
   session may take an orphaned id for it: by_path is rebuilt with orphans in it.) *)
IdsStayInForce ==
    phase = "ready" /\ starts = 1 /\ rev > 1 =>
        \A p \in Paths :
            {hist[rev - 1].gen[p].text, gen[p].text} \subseteq Texts =>
                LiveIds(reg[p].anchors) = LiveIds(hist[rev - 1].reg[p].anchors)

(* Whatever the client typed into a buffer and has not discarded is what the head
   serves: neither the watcher nor sync_all replaces it with the disk. *)
BufferWins ==
    phase = "ready" =>
        \A p \in Paths : buffer[p] # NoDoc => gen[p].text = buffer[p]

(* Once every reported disk change has been polled, the head agrees with the disk
   on every file that has no unsaved buffer. *)
Coherent ==
    phase = "ready" /\ debounce = <<>> /\ pending = <<>> =>
        \A p \in Paths \ (unsaved \cup unseen) :
            Content(gen, p) = disk[p]

(* PySnapshot.authored: value_at for a time-travel snapshot; for a head snapshot
   value_at with the current value as the fallback. *)
AuthoredRead(s, i) ==
    LET past == UpTo(s.authored[i], s.rev)
    IN  CASE past # {} -> s.authored[i][Max(past)]
          [] past = {} /\ s.head /\ s.authored[i] # <<>> ->
                s.authored[i][Len(s.authored[i])]
          [] OTHER -> NoDoc

(* What author() acknowledged is in the sidecar, and nothing else is: the records
   in memory and on disk agree whenever the mutex is free, whatever failed, was rolled
   back or died in between.  A read through a snapshot of the head returns the last
   version authored, until the project is opened a second time.  (That session counts
   its revisions from 1 again, and value_at compares them with the stored ones.) *)
NotesDurable ==
    phase = "ready" =>
        /\ authored = recDisk
        /\ starts = 1 => \A i \in Ids : authored[i] # <<>> =>
              AuthoredRead([rev |-> rev, authored |-> authored, head |-> TRUE], i)
                  = authored[i][Len(authored[i])]

(* A record of a layer that keeps history never loses a version from disk. *)
HistoryKept ==
    [][\A id \in Ids : \A i \in DOMAIN recDisk[id] :
          \E j \in DOMAIN recDisk'[id] : recDisk'[id][j] = recDisk[id][i]]_vars

(* Every disk change the watcher observes reaches the head, or is overruled by an
   unsaved buffer, unless the watcher is replaced before it hands the change over: the
   auto-poll thread keeps draining the queue. *)
WatchedChangesArrive ==
    \A p \in Paths :
        watching /\ p \notin unseen
            ~> \/ p \in unseen
               \/ phase = "ready" /\ (p \in unsaved \/ Content(gen, p) = disk[p])
=============================================================================
