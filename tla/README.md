# TLA+ models of TyO3

TyO3 keeps a Python project analysed while people, editors, file watchers and
agents change it. Every write becomes a numbered *revision*; readers pin a
revision; entities of the source keep *durable ids* while they are edited and
moved; notes are authored on those ids; subscribers are told what changed; a
daemon serves one project to many clients. The native part is Rust
(`rust/src`), the session, bus and daemon are Python (`src/tyo3`).

This directory holds TLA+ models of the parts that carry this logic, the TLC
configurations that check them on small instances, and proofs of the central
invariants that TLAPS checks for every value of the constants. `PROJECT.json`
maps every definition to the lines it models and lists runs, mutants, hazards
and theorems. Paths below are relative to the repository root.

To repeat the results: `tlc -config MCHead_head.cfg MCHead` (one configuration
per run, named `<MC module>_<run>.cfg`) and `tlapm HeadProofs.tla`, likewise for
`HeadViewProofs`, `IdentityProofs`, `CodeLayerProofs`, `ConfigProofs`,
`DeriveProofs`, `BusProofs` and `DaemonProofs`.

## 1. Inventory

| Component | State | Operations | What is hard | What makes it correct |
|---|---|---|---|---|
| Content store, overlay (`content.rs`, `overlay.rs`) | revision, generation (path to document), version counter, retained window | stage, publish_staged, capture, generation_at, reingest | eviction at the limit; version numbers drawn by commits that fail | the window is exact; one version of a path means one text |
| Commit transaction (`project/commit.rs`) | the staged commit and its baseline, under the head mutex | plan, apply to the engine, reconcile, persist, rollback, publish | a step fails, or the process dies, between two others | all or nothing |
| Project lifecycle, snapshots (`project/methods.rs`, `open.rs`, `snapshot.rs`) | head state, watcher, pending events | open, close, reload, watch, unwatch, poll, snapshot, snapshot(at) | reads built after the mutex is released; events drained before the commit that uses them; buffers against disk | isolation; the head follows the disk; buffers win |
| Identity registry (`identity.rs`, `entity.rs`) | anchors by id, the path index | reconcile (four passes), rebind, retire, persist, load | moves, swaps, equal bodies, partial scopes, restarts | one live id per entity; ids survive edits and moves; nothing forgotten |
| Authored records (`authored.rs`, `sidecar.rs`) | versions per id, in memory and in the sidecar | author, read, history, load | crash around the atomic replacement; revisions that restart at 1 | durable; review state follows content |
| Session write path (`session/session.py`) | bus, head-snapshot cache | write methods, after-commit hook, subscribe, close | two writing threads; a cache filled late | every commit is published, in order |
| Delta bus (`bus/*.py`) | subscribers, last published revision; per subscription a bounded queue, closed and lagged flags | subscribe, publish, offer, next, close | fan-out outside the lock; three-section close; overflow policies; waiting consumers | nothing hidden, reordered, leaked or slept through |
| Daemon (`daemon/server.py`, `session_actor.py`, `bus_pump.py`) | root lock, socket file, actor thread and queue, pool | start, bind, serve, submit, shutdown, kill | processes racing over one root; submit against stop; join time-outs | one session per root; the socket stands; requests and shutdowns end |
| Floating head view (`project/head_view.rs`) | handles on the head's database | clone, compute, retry, give up | a writer that waits for readers with GIL and mutex held; text staged under a running read | calls end; what texts a read may combine |
| Code layer (`code_layer.rs`, `hash.rs`) | nodes, edges, order per file, reverse dependencies | full and scoped build, evict, affected closure, diff | carried files; the index kept edge by edge; deleted ids | equal to a full build; nothing affected is missed |
| Configuration (`config.rs`, `open.rs`) | configuration, layer order | load, validate, topo_order, register_authored_layer | four sources of values; repeated, missing, circular dependencies; layers that come and go | a sound order; a configuration that stays valid; notes follow their layer |
| Derived layers (`derive/*.py`, `session/views.py`) | artifact cache, bindings, read sets, pending and in-flight items | read, invalidate, recompute, bind, collect | reader, writer's hook, worker and collector without a common lock | fresh means exact; eager means warm; collection keeps the window |
| RPC handlers, tracker (`daemon/handlers.py`, `tracking.py`) | read snapshot, tracked entities | one closure per method | not modelled |  |
| Refiner (`precision/refiner.py`) | feed of deltas | narrow, publish | not modelled |  |
| Analysis reads, graph, adapters, CLI, editor plug-in | none of their own | | pure functions and clients |  |

How they interact: a session write calls the native commit (under the head
mutex), then, with no lock, the after-commit hook publishes a delta on the bus.
Consumers iterate their subscription on their own threads. The watcher's thread
fills `pending`; the session's auto-poll thread drains it with `poll_changes`,
which is a commit like any other. Inside a commit the code layer is carried
forward and tells which ids are affected; the after-commit hook hands them to the
derived layers before it publishes. Reads pin a snapshot, or float on the head's
own database. The daemon owns its session on one actor
thread; pool threads submit closures to it and wait.

`PROJECT.json` lists under "hazards" what each of these is exposed to, at the
line where it bites.

## 2. Modules

### Head (`Head.tla`, `HeadProofs.tla`, `MCHead.tla`)

The native head: `rev`, `gen`, `ver`, `retained` are the `ContentStore`;
`overlay` is what the live `OverlaySystem` serves; `db` is, per path, the
document the engine last read; `reg`, `authored`, `unsaved` are fields of
`HeadState`; `idDisk` and `recDisk` are the sidecar; `watching`, `debounce`,
`pending` the watcher; `snaps` the pinned snapshots. `hist`, `buffer` and
`unseen` are history variables that no action reads for its control.

A write is one action that builds its plan (`Edit`, `EditVirtual`, `SyncPath`,
`SyncOther`, `SyncAll`, `Author`, `Poll`) and then three steps of the transaction:
`ApplyEngine` (publish to the overlay, apply to the engine, reconcile the
registry in place), `Persist` (replace `identity.db` or the record file) or
`Rollback`, and `PublishStaged`. Client calls wait for the mutex
(`phase = "ready"`); disk changes, the watcher and crashes do not. `Open` is cut
at the persist of the registry, so that a crash may fall between; a damaged
`identity.db` makes it start with an empty registry, a damaged record file makes it
raise after the registry has been persisted (`FailOpen`). `Watch` also replaces a
watcher, whose undelivered events are lost with it (`unseen` remembers their paths).

The registry has, per path, the anchors of every id ever minted for it, numbered in
the order of minting (ULIDs sort by time), and `at`, the one `by_path` names. `Bind`
is reconcile for a path: pass A takes the id `by_path` names, pass B the smallest
one whose last body was this text, pass D mints; `Retired` orphans the others and
takes the path out of the index. A file removed and written again with another text
therefore gets a new id, and the old one, with its notes, stays orphaned. A
configuration file, or one that is not Python, has no entities, and the commit about
it reconciles everything (`SyncOther`).

Abstractions. A file defines one top-level entity, and entities of different files
have different names, so that no anchor moves between paths (module Identity has
moves, renames and members). The engine is external: told that a path changed, it
reads it again if its version differs, and keeps what it had otherwise. Rollback
does not undo the engine's read, as in the code. The class of steps that fail
is the persist step, where the code's own errors are; the code-layer stage just
before it would be rolled back from the same state. The batch draws one version
number, not one per path. Layers other than one authored layer (module Config has
several), virtual documents' texts, and the code layer (module CodeLayer) are left
out.

### Ledger (`Ledger.tla`, `HeadLedger.tla`, proof in `HeadProofs.tla`)

What the head promises its readers, without the machinery: a numbered sequence of
revisions, each a content, identities and notes that change together, of which the
last `Cap` contents stay readable and any may be pinned. `HeadLedger` maps the
state of Head to it: while a transaction is in progress a reader cannot hold the
mutex, so the visible content is the store's and the visible identities the
baseline's; otherwise they are the live ones. `ImplementsLedger` is the ledger's
specification under that mapping. The ledger lets the notes be forgotten (reload)
and read back (open), because the code does both outside a revision.

### HeadView (`HeadView.tla`, `HeadViewProofs.tla`, `MCHeadView.tla`)

The threads around the native head. `gil` and `lock` are the two locks, `dbs` the
engine databases with their overlay, the version each file was read at and what is
memoised of it, `clone` the handles. A write is `WritePublish` (the overlay serves
the staged text), `WriteCancel`, `WriteApply` (waits until every other handle is
dropped), then `WriteCommit` or `WriteFail`; a floating read is `Detach`,
`CloneHead`, any number of `Compute` steps, one file each, then `Finish` or
`Unwind`, and `Attach`. The other calls of a session (`Lookup`, `Snapshot`,
`ReadPinned`, `Release`, `Author`, `Reload`, `Close`) differ in which lock and which
database they take. Texts are named by versions, which Head's `VersionNamesText`
justifies. The engine's cancellation protocol (set the flag, wait for the handles)
is external. `tainted`, `applied`, `since`, `from` (the revision at which a read took
its clone) and `dirtied` (the files a read has of a commit in flight or rolled back)
are history variables.

### CodeLayer (`CodeLayer.tla`, `CodeLayerProofs.tla`, `MCCodeLayer.tla`)

`text` is what the engine reads from each file: its symbols, name occurrences, base
classes, re-exports and uses through inferred results; `layer` is
`HeadState.code_layer` (nodes, edges, order per file, reverse index). `Full` is
`Builder::build`, the `Passes` over all files from an empty layer: `Materialized`,
`ContainmentPass`, `ReferencesPass`, `InheritsPass`, `OverridesPass`. `Produce` is the
choice between it and `build_scoped` (`Scoped`): `Dirty` (seeds and their one-hop
importers), `Evict`, the passes over the dirty files, and the collection of idle
stubs. `Affected` is `affected_closure_with_deleted`. `diff_from` is left out: a commit
drops the delta it yields (`commit.rs:909`), and `full_code_delta` compares with an empty
layer, so it is the whole of `Served`. A node has its hash without docstrings (`Hash`)
and, for the profiles that include them, `DocHash`, and the line of its name. A commit may replace the text of any files it seeds.

`settled` is a history variable: since the last full build the layer was `OneHop`,
that is, each file had an imports edge to every file its derivation reads
(`ReadsOf`). That is the case the scoped build is made for, and what a derivation
reads is more than the files it names: a re-exported name is looked up in the file it
comes from, and a method's override along the base classes, re-exported ones
included, of every class above its own. `WellFormed` says what the engine reports of
a file; texts, files and packages are finitely many, so that the affected closure
ends. Tables are built with `Over` and `Kept`, which the provers can expand.

### Config (`Config.tla`, `ConfigProofs.tla`, `MCConfig.tla`)

`Load` merges defaults, `config.toml` and `config.local.toml` (`Over` is the shallow
merge) and expands the variable, once, from the environment or `secrets.toml`;
`WellFormed` is what the parser lets through; `Validate` is the sequence of checks in
the code's order, each an error of its own; `Kahn` is Kahn's algorithm, `KahnStart`
with the in-degrees that `Entries` counts and `KahnStep` one round of its loop, ties
settled by name. `Open`, `Register`
(a plug-in's authored layer, after the project is open), `Start`, `Author`,
`Reload`, `Close` and `EditConfig` follow one installation through sessions. Opening
may meet record files that cannot be read, which it passes over (`skipped`), and one
that does not parse or is of a newer format, which ends it. A
document is the set of tables it has; only values that some rule reads are kept, and
a generator's endpoint stands for every string.

### Derive (`Derive.tla`, `DeriveProofs.tla`, `MCDerive.tla`)

One code-derived layer, `layer` its configuration, over the revisions `hist`.
Threads: readers (`Read`, then `Lookup` or `Check` and `Recheck`, and `Produce`,
`Bind` when they block, `ServeLastGood` when they do not), writers with their hook
(`Commit`, `Invalidate`, `ListItems`, `Process`), the worker (`Take`, `Settle`), the collector
(`GcPin`, `GcPrune`). A step reads or writes one shared structure, except that a
put in the store is one step. A text has a normal form, which its content hash is of
(`Hash`): a docstring does not move it. A key is the hashes it folds (`KeyOf`,
`Fingerprint`), so two keys are equal exactly when these are. The artifact (`Make`) is
a function of the nodes the layer's locality lets the producer read, over the pinned
snapshot, and of the entity's source, which the code reads from the file: `disk` is
what the files contain, changed by `Save` and not by a commit, since an edit need not be
saved and a sync reads what is there. `drifted` (keys under which an artifact was stored
whose source had another hash) and `unbuilt` (revisions a collection had no graph of)
are history variables. Layers derived from other layers are left out.

### Identity (`Identity.tla`, `IdentityProofs.tla`, `MCIdentity.tla`)

`code` is the source (slot to body hash), `anchors` is `by_id`, `byPath` the
path index. `Reconcile` is `reconcile_impl`: `Exact`, `Moved`, `Struct`,
`Minted` are its passes A to D in order, `Rebound`, `Reindexed`, `Retired` the
apply loop and the retirements. Pass B and the apply loop depend on the order
of the entities and are recursive functions over the slots, whose steps are `Take`
and `Rebind`. `Commit` chooses any
new source for any non-empty set of files, `Restart` loads what was persisted.
Two entities with one qualified path (redefinitions in one file) are left out.

### Bus (`Bus.tla`, `BusProofs.tla`, `MCBus.tla`)

Writers, the session's closing thread, and per subscription an owner and a
consumer. A section under one lock is one step: `Publish` collects the
subscribers under `Bus._lock`, `FanOut` offers to one of them under that
subscription's lock, and `Subscription.close` is the three sections `CloseFlag`,
`CloseUnregister`, `CloseClear`, whoever calls it (owner, session, or a writer
whose offer overflowed under `error_and_close`). A delta keeps its revision, its
ids, the affected ones, its files, its layers and the rescan flag. `Wanted` is
`Interest.matches`, `Scoped` is `scoped_to`, `Offered` what `publish` makes of the two;
`AskedFor` is the reference they are compared with, an interest read as the union of
its parts. `ScheduleRaises` is an exception of the derived-layer hook, which ends a
write between its commit and its publish. `missing` and `seen` are history variables.

### Daemon (`Daemon.tla`, `DaemonProofs.tla`, `MCDaemon.tla`)

Processes competing for one root; per process the main thread
(`serve_forever`, `shutdown`), the actor thread (`_run`), and the pool threads
of its requests (`submit` is `Check` and, later, `Submit`). flock, the socket
file and process exit are the operating system's and modelled from their use.
The signal handlers are live from before `_acquire_lock` (`__main__.py:69`) and
run `shutdown` on top of whatever the main thread is doing: `main` is its place in
`serve_forever`, `down` its place in the `shutdown` above it, and when that returns
`serve_forever` goes on where it was, with a lock it no longer has. `_bind` is three
steps (`Unlink`, `Bind`, `Listen`), because a signal between them matters, and so is
the pump's own `submit`. `early` is a history variable: the processes that a signal
found outside their accept loop. The lines that open `shutdown` (`server.py:413-418`)
are one step, and the two lines of the accept loop under `_clients_lock` are left out
(section 5).

## 3. Runs

Bounds: every run is exhaustive within its constants. Two texts distinguish
"changed" from "unchanged" and from "back to the first"; one path suffices where
paths do not interact, two where a batch matters. CHECK_DEADLOCK is off because
clients may stop calling: the bounded instances end.

| Run | Instance | Shows |
|---|---|---|
| `head` | 2 paths, 2 texts, retain_cap 2, 3 revisions (so that eviction happens), 1 failure, 1 disk change, 1 snapshot | `TypeOK`, `AllOrNothing`, `SnapshotIsolation`, `RetainedWindow`, `VersionNamesText`, `ImplementsLedger` |
| `notes` | 1 path with 3 ids, 4 revisions, 1 failure, 1 disk change, crashes, 2 openings, damage to the sidecar | `ReviewFollowsContent`, `IdsStayInForce`, `NotesDurable`, `HistoryKept` |
| `watch` | 1 path, 3 disk changes, 3 revisions, watchers replaced and stopped, fairness | `Coherent`, `BufferWins`, `WatchedChangesArrive` |
| `registry` | 3 slots (one in a class) in 2 files, 2 bodies, 3 ids | `OneToOne`, `EditKeepsId`, `MoveKeepsId`, `NothingForgotten` |
| `bus` | 1 writer, 1 subscription (to everything, an id, or a file and a layer), capacity 2, 3 revisions (so that the queue overflows), all policies, fairness | `RevisionOrder`, `NothingHidden`, `ClosedIsReleased`, `DeltasConsumed`, `IterationsEnd` |
| `daemon` | 2 processes, 1 request, 2 starts, 1 kill, signals at any point, fairness | `OneSession`, `SocketStands`, `RequestsSettle`, `ShutdownCompletes` |
| `layer` | 3 files (a class, a subclass or re-export, a second subclass or a user through a function's result), each with 3 to 5 texts or absent; any files committed together, any text to any other | `IndexExact`, `CarriedExact`, `NoMiss` |
| `threads` | 3 threads, 3 calls of 9 kinds, 2 files, 1 failing commit, MAX_HEAD_RETRIES 2 (so that a read gives up), fairness | `MemoFresh`, `OneRevision`, `CancelledByWrites`, `CallsEnd` |
| `config` | 3 layers besides "code" over 7 dependency lists, values of the variable that are plain, a credential, a reference or undefined, 1 document per other flaw, 2 notes, unreadable and rejected record files, 1 edit of config.toml, plug-ins | `OrderSound`, `StaysValid`, `NotesFollowLayers` |
| `derive` | 2 entities, 3 texts (two that differ in a docstring, one that references both), 3 revisions with retain_cap 2 (so that one is evicted), 2 reads, 1 upset (a failure, a collection or an uncommitted save), 5 configurations of the layer, fairness | `FreshIsExact`, `EagerArrives`, `WindowKept`, `ItemsSettle` |

What the properties leave out, each because the code does not provide it (section
5): `Coherent`, `BufferWins` and `WatchedChangesArrive` are claimed without reload,
failing commits and rescans, which is how `watch` chooses its operations, and the
first and the last for changes that were not lost with a watcher; `ReviewFollowsContent`
and `IdsStayInForce` when commits do not fail or none reconciles everything (see
`MCHead_ahead.cfg`), the latter until a second open (run `restart`); what `NotesDurable` says of
head reads until a second open; the edges in
`CarriedExact`, and `NoMiss`, while the layer is settled; `MemoFresh`
except for files of a rolled-back commit, `OneRevision` also for files read while a
commit in flight staged another text for them;
`StaysValid` unless the reserved name is registered or a variable's value is itself a
reference; `NotesFollowLayers` for
declared layers whose file could be read, until a reload; `FreshIsExact` says nothing
of the source of an artifact whose key is in `drifted`; `EagerArrives` except for keys
that a created entity moved; `WindowKept` except for revisions whose graph could not be
built; the properties of Derive, `WindowKept` apart, for one writing thread.

Bounds. Subscriptions do not share state except the bus's set, so one subscription
with every policy and interest stands for several. With three ids an entity may be
minted, orphaned and minted again, and two ids may compete for one path. `MaxIds`
ends an instance of Head that would mint more (`CanMint`); a first id, one for a text
written after a removal and one for after a lost `identity.db` fit into three. Three
threads let a writer wait for one reader while another starts over. Three files are
the shortest inheritance chain in which one-hop importers are not all importers.
Two entities that reference each other are the smallest cycle of the dependency
fingerprint.

Runs that TLC must refute, each a disagreement between the code and a statement
in the repository:

| Run | Statement | What the counterexample does |
|---|---|---|
| `restart` | `tests/test_gate2_identity.py:210`: same ids after reload | `from_json` indexes an orphan with a larger id over the live anchor; pass A rebinds the orphan |
| `order` | `bus.py:90`: each commit publishes once, in order | client and auto-poll threads commit 1, 2 and publish 2, 1: the second assertion raises |

Other statements of the repository that the code does not keep, each with the
configuration under which TLC finds the counterexample. They are not among the runs:
the properties that are checked and proved except exactly these cases, and section 5
says where.

| Configuration | Property | Statement | What the counterexample does |
|---|---|---|---|
| `MCBus_compound.cfg` | `CompoundsAreUnions` | `interest.py:20`: compound interests are unions | a subscriber to "b" or the authored layer; a note on "a" matches by its layer, `scoped_to` keeps only "b", the empty slice is not offered |
| `MCDaemon_bind.cfg` | `BindHoldsLock` | `server.py:285`: we hold the lock, so removing the socket is safe | a signal during the start releases the lock; the process goes on to `_bind` and unlinks the socket of another |
| `MCHeadView_float.cfg` | `WholeRevision` | `head_view.rs:57`: reflects the newest head revision | a read has p1 of revision 1, the commit publishes p1 and p2 to the overlay, the read takes p2 of it and returns before it is cancelled |
| `MCHeadView_retries.cfg` | `CompletedWrites` | `head_view.rs:10`: each cancellation corresponds to a completed write | the commit that cancelled the read is rolled back afterwards |
| `MCConfig_secrets.cfg` | `SecretsByReference` | `CONFIG_SCHEMA.md:225`: generators get credentials through references, inline ones are rejected | the endpoint is a reference, `secrets.toml` has the credential, the lint after expansion refuses it as inline |
| `MCDerive_source.cfg` | `FreshMatchesHash` | `models/derived.py:13`: fresh means the artifact matches the content hash at this revision | a read pins its snapshot, the file is saved with another text, the read stores the artifact of the saved text under the snapshot's key and serves it as fresh |
| `MCHead_ahead.cfg` | `AheadIsBenign` | `commit.rs:459`: after a rollback the engine is benignly ahead | an edit fails after the engine applied it; `edit_virtual` then reconciles every file from the engine and commits the failed text's hash, while the head serves the text before |
| `MCDaemon_signal.cfg` | `SignalsStop` | `__main__.py:8`: signals trigger a clean shutdown | a signal before the actor runs; `shutdown` waits for a closure nobody will run, with the lock held |

### Fairness

- Head: weak fairness of the steps of a commit (its thread holds the mutex and
  runs to the end), of the watcher's delivery (its own thread) and of `Poll`
  (the auto-poll thread ticks for as long as the session is open). No client
  call is fair.
- Bus: a thread inside a call goes on with it; a consumer goes on iterating;
  the session's close, once begun, goes on. Nobody has to commit, subscribe or
  close.
- Daemon: threads that can go on do, closures submitted to the actor terminate.
  Nobody has to start or shut down a process. The time-out of the join may fire
  at any time while the actor is busy.
- HeadView: every thread that can go on does; nobody has to call. An analysis
  ends, because it reads each file once.
- Derive: the worker's loop goes on and its generators end or fail. No reader,
  writer or collector is fair, and nothing is claimed of them.

### Mutants

Every property of a passing run has a mutant, an operator marked "Mistaken" next
to the one it replaces: a plausible slip in that code (an eviction that is off
by one, a rollback that forgets the registry, an append that wakes nobody, a
lock released before the socket is removed, a clone kept while the GIL is asked
for, a fingerprint that leaves the callers out). TLC finds the property violated
under each.

## 4. Proofs

Every theorem is for all values of the constants that the module's assumption
admits: any sets of paths, texts, threads, subscriptions, entities or layer names,
any capacity and any bound. The assumptions say what the constants are (markers are
not values, bounds are naturals, a document is one that parses, a project's files and
the texts it may have hold finitely many ids and names). A theorem that
needs more says so in its own statement; section 5 has the behaviour of the code
that makes the restriction necessary. The properties themselves
are checked by TLC in the runs of section 3.

### Commit transaction (`HeadProofs`, first part)

- `TypeCorrect`: `Spec => []TypeOK`.
- `HeadInvariant`: `Spec => []HeadInv`, with
  `HeadInv == TypeOK /\ CommitInv /\ SnapshotInv /\ RetainedWindow`.
  `AllOrNothing` speaks of a free mutex only and is not inductive: what rollback
  restores is the baseline, so `CommitInv` says, per step of the transaction, how
  overlay, registry, `identity.db` and baseline relate to the last committed
  revision (until the persist step the baseline's registry *is* `identity.db`;
  an authored write reconciles nothing, so its registry still is). `SnapshotInv`
  adds that a snapshot's revision exists, so that publishing a later one leaves
  what it is compared with alone.
- `CommitsAtomic`, `SnapshotsIsolated`, `WindowRetained`: the three invariants
  of the run. `WindowRetained` rests on a lemma about `Retain` and cardinalities of
  intervals, which also covers `RetainCap = 0`.
- `HeadImplementsLedger`: `Spec => ImplementsLedger`. Every step of Head maps to a
  step of the ledger or to none: the plan, the engine, the persist and the rollback
  are invisible, `PublishStaged` is the ledger's commit. Two facts are needed
  beside `HeadInv`: rollback restores what was visible (from `CommitInv`), and, in
  `KindInv`, that a plan changes either content and identities or the notes, never
  both, and that an authored write leaves the registry the baseline's. The window
  of the ledger is stated by its domain, so `Retain` is shown to slide it.

### What the head serves (`HeadProofs`, second part)

- `VersionsNameTexts`, without restriction. `VersionInv`: of all documents of a path
  in sight (store, window, overlay, engine, staged), none is newer than the counter
  and two of one version have one text. The engine has to be among them: after a
  rollback it holds a version that was never committed, and it is the counter, which
  rollback does not put back, that keeps this number from being drawn again.
- `ReviewIsOfContent`, when commits do not fail or none reconciles everything (op
  "other"). `PlanInv` (a plan touches what it announces), `RegistryInv` (in the
  registry every file of the generation last applied has one id in force, with the
  text's hash, and a file that is gone has none; with op "other" the engine has read
  that generation) and `KnownInv` (a known anchor has a hash, a record was authored
  against a text).
- `IdsStay`, under the same condition. `StayInv`, for the first session: `by_path`
  names the id in force of every path, and the registry that a commit has reconciled
  agrees with its baseline wherever both have an id in force. A second session rebuilds
  `by_path` with orphans in it, which is what run `restart` shows of module Identity.
- `NotesAreDurable` and the action property `HistoryIsKept` (for a layer that keeps
  history), without reload. `NotesInv`: memory and disk agree until a persisted
  record is published; a commit touches only the records it writes and extends them;
  in the first session no version is of a later revision, which is why `value_at`
  finds the last one.
- `BuffersWin`, without reload. `BufferInv` carries the buffer through the commit: a
  plan that neither inserts nor removes a buffer stages its text.
- `PolledHeadIsDisk`, without rescan, reload and failing commits (`KeepsUp`).
  `QueueInv`: the *last* event of a file, wherever it waits, is true of the disk
  unless a later change went unreported, which is what lets a poll coalesce a batch; `DiskInv`: the head, or the
  commit in progress, agrees with the disk or an event says that it may not.

### Threads around the head (`HeadViewProofs`)

- `HeadViewInvariant`, with `HeadViewInv` the conjunction of `Types`; `LockInv` (the
  mutex is held exactly inside a commit); `HandleInv` (once changes are applied nobody
  holds a handle on the head's database); `CancelInv`; `VersionInv`; `MemoInv` (how a
  file's text, the version it was read at and its memo relate, before and after the
  apply step, and for files a failed commit left behind); `RetryInv`.
- `MemosAreFresh` and `CancellationsAreWrites` follow. The window between publishing to
  the overlay and the cancellation is why `MemoInv` admits the staged version; the wait
  for the handles is why it is gone when the commit ends.
- `ReadsOfOneRevision` needs `ReadInv` on top, which says for each read which revision
  its database is of (`OfRevision`): the head's as long as its texts are the newest, an
  old database, left behind by a reload, in its overlay and its memos. Only a publish
  could break it, and then nobody holds a handle on the head's database.

### Identities (`IdentityProofs`)

- `IdentityInvariant`, with `IdentityInv`: ids are 1..k, the index leads to anchors
  of its paths, the live anchors mirror the source one to one, and an indexed entity
  is indexed under its live anchor. The passes are shown one by one to bind entities
  to anchors, no anchor twice (`Binds`), each keeping what the earlier ones bound;
  then the apply loop and the retirements are shown to establish `Mirrors` for the
  new source.
- `RegistryIsOneToOne`, and the action properties `NothingIsForgotten`,
  `EditsKeepIds`, `MovesKeepIds`.

Pass B, the apply loop and the rounds of `topo_order` are recursive functions over
an interval. The library's induction rules take an operator, which no installed
prover instantiates; `WFMin` (every non-empty set of naturals has a least element)
takes a set. So the module proves induction for a *set* of numbers and applies it to
the numbers after which the loop's invariant holds.

### Code layer (`CodeLayerProofs`)

For any finite project and any history of commits, rescans among them.

- `IndexIsExact`. `Indexed` says that the index is the inverse of the dependency
  edges, for any layer, and every operation of the builder is shown to keep it:
  `RemoveEdges` drops an entry with its last edge only, which is what an eviction of
  one of two edges between the same nodes rests on.
- `CarriedInvariant`: `Carried` is `text \in Projects /\ Tracks(layer, text, ...)`: the
  nodes are those of the texts and stubs under their own ids, and each file's list is
  its module and its entities in document order. `Evict` gives a layer that tracks the
  files left, and the passes one that tracks the project again. An entity may move to
  another file in a commit; that its id is free when it arrives needs both files to be
  dirty, which they are because both changed.
- `CarriedIsExact`, with `CarriedInv == Carried /\ Anchored(layer) /\ Settled`.
  `Anchored`: edges join nodes that exist; `Settled`: while `settled`, the edges are the
  full build's. The argument: `PassesEdges`, the passes add exactly the edges each file
  derives (`try_add_edge` drops none); `DerivedKept` and `OverridesKept`, a file that
  reads no seed derives the same edges before and after the commit, the second along
  the whole chain of base classes; so by `OneHop` a file whose edges may differ is
  dirty, and what is evicted and derived again is what differs. `SameCollected`: with
  equal edges the collected nodes are equal, since a stub is kept for its edges.
- `NoDependentMissed`: the affected ids of a commit contain the changed and the deleted
  ones and, while the layer is settled, are closed under the dependencies of a full
  build and contain what depended on a deleted id. `LayerInv` adds to `CarriedInv` the
  index, that edges start at nodes of the project, and that nodes are among finitely
  many ids. `RoundsClose`: a search that adds something each round has run out of ids
  when as many rounds are done as there are ids, so the last round is closed.

### Configuration (`ConfigProofs`)

- `ConfigInvariant`, with `ConfigInv == Types /\ SessionInv /\ CycleInv /\
  NotesFollowLayers`. Kahn's loop has the invariant `Round`: what is listed is listed
  once and after what it depends on, each count is of the entries not listed yet
  (entries, so that a repeated dependency is counted and released as often), and
  what is ready is what waits for nothing. When the loop stops early the rest wait
  for each other, so a reported cycle is one; an order means there is none.
- `OrdersAreSound`, `ConfigurationsStayValid` (a registered layer's name was free,
  so nobody depends on it and appending it keeps the order sound and every check
  passing), `DeclaredNotesAreLoaded`.

### Derived layers (`DeriveProofs`)

- `DeriveInvariant` and `FreshArtifactsAreExact`, for one writer. `CacheInv`: an artifact
  says what its key says, of the nodes always and of its source unless the key is in
  `drifted`, which only grows; `BindingInv` and `ThreadInv`: what
  a thread holds is the key of the revision it pinned, and a bound read set is of some
  revision whose artifact is in the cache; `WriterInv`: nothing is pending between two
  hooks, which is what a second writer breaks.
- `CollectionKeepsWindow`, for any number of writers, from the weaker `PinInv`: what a
  collection pinned is at least the window of the revision it began at.
- `EagerArtifactsArrive`, for one writer. `EagerInv` says of an eager layer without
  failures and collections: what is done, bound or about to be bound is in the cache
  (`StoreInv`), and what the last commit made due is there, or the hook of that commit
  has still to queue it, or has it in the queue, on its list or in hand (`HookInv`).
  `MovedIsDirty` is the part about the graph: an entity whose key moved is told to the
  hook unless it reaches a created one, because where nothing that is reached changed,
  or lost a reference, the closure and its contents are the same.

### Delta bus (`BusProofs`)

- `BusInvariant`, with `BusInv == Types /\ ReleaseInv /\ OrderInv /\ HiddenInv`, for any
  number of writers; the last two speak of the case of one.
- `ClosedSubscriptionsReleased`: `ReleaseInv` says that a closed subscription which is
  still registered, or still has a queue, has a thread about to unregister or to clear
  it, so the three sections of two closes may interleave with each other and with
  offers.
- `RevisionsInOrder`, `NothingIsHidden`: what the writer has in hand is the newest
  revision, those it has yet to reach have nothing of it, and what a subscriber misses
  is queued or on its way, through coalescing and dropping. `AskedIsOffered`: what an
  interest asks for is in the slice that is offered, if it is `Plain`, that is, does not
  combine ids with files or layers.
- `OneWriterPublishes`: the assertion that the run `order` refutes with two writers
  never fires with one.

### Daemon (`DaemonProofs`)

- `OwnershipInvariant`: `Spec => []DaemonInv`, with
  `DaemonInv == TypeOK /\ Holding /\ Ownership`, for any number of processes and
  requests and signals at any point. `Holding` says who may have a session: the
  process with the lock, one that failed to start, one that gave up waiting for its
  actor. It needs that a shutdown begun during the open waits for it (its closure
  runs on the actor only then) and that a stopped actor has been waited for or given
  up on. `Ownership` is conditional on `early = {}`: then the lock is held exactly
  from `_acquire_lock` to the end of `shutdown` and only its holder touches the
  socket path. Without the condition it is false, which `MCDaemon_bind.cfg` shows.
- `OneSessionPerRoot`, `ServingSocketStands`: `OneSession`, with no condition on the
  signals, and `SocketStands`.

### Only model-checked

- The liveness properties (`WatchedChangesArrive`, `DeltasConsumed`, `IterationsEnd`,
  `RequestsSettle`, `ShutdownCompletes`, `CallsEnd`, `ItemsSettle`): fairness and
  ENABLED are beyond the prover.
- `NoMiss` in the half that `NoDependentMissed` does not state: uses of a member through
  an inferred result, which no edge records and whose cover by the container's hash
  depends on what the engine infers.

## 5. Observed, without a run

- Rollback does not undo the engine's `apply_changes` (`commit.rs:571`): until
  the next event for that path the engine's memo is of the failed text.
  `VersionNamesText` is why the next commit repairs it: its version differs.
  What a commit that reconciles every file makes of it is `MCHead_ahead.cfg`; it is why
  `ReviewIsOfContent` has its hypothesis.
- `unwatch` says pending events are discarded (`methods.rs:478`); the queue is
  kept and a later poll folds it in. A "deleted" event that waits there while the
  file is written again and synced tombstones a file that exists. (`unseen` keeps
  such a path until the queue is drained, so `Coherent` does not speak of it.)
- `reload` starts with no authored records (`open.rs:154`); authoring afterwards
  replaces the stored history.
- `snapshot(at)` takes the current registry (`methods.rs:606`), while
  `snapshot.rs:471` says identity travels in time. `SnapshotIsolation` claims the
  registry for head snapshots only.
- `rebind` removes the old path from the index whoever is there
  (`identity.rs:164`), so chained moves can leave a live anchor unindexed, where
  `identity.rs:75` says the indexes always agree. `EditKeepsId` therefore speaks
  of indexed entities.
- A head read of a note asks `value_at` first (`snapshot.rs:547`), where
  `authored.rs:192` says HEAD reads take the latest version unconditionally. After
  a restart revisions start at 1 again and an old version, stored under a small
  revision, wins.
- `reload` empties the set of unsaved buffers (`open.rs:154`), where
  `methods.rs:129` and `:418` say overlay edits survive it and `sync_all`: the next
  sync replaces the buffer with the disk.
- A poll drains the queue before its commit (`methods.rs:518`); when the commit
  fails the batch is gone, where `session.py:315` logs "will retry next tick".
- A rescan stages the store's own documents, which shadow the disk
  (`commit.rs:762`), where `:760` and `methods.rs:456` say it re-syncs.
- `sync_all` does not tombstone a document whose file is gone.
- `Bus.subscribe` on a closed bus closes the new subscription with the bus lock
  held and waits for itself (`bus.py:62`, action `SubscribeLate`);
  `IterationsEnd` excepts it. After the session set its bus to none, subscribe
  builds a new bus that nothing closes.
- `scoped_to` filters by the ids of an interest whichever part of it matched
  (`delta.py:65`, `MCBus_compound.cfg`); `NothingHidden` excepts the interests that combine ids
  with files or layers (`Plain`).
- A reader may fill the head-snapshot cache of the session (`session.py:397`) with a
  snapshot it took before a commit, after that commit has cleared the cache; reads are
  then one revision behind until the next write.
- An exception of the derived-layer hook (`session.py:654`), for instance of the
  snapshot it pins, leaves a committed revision unpublished, where `session.py:645` says
  every committed revision publishes (`ScheduleRaises`).
- With two writers a subscriber may receive revisions out of order even when both
  publishes pass the assertion, because the fan-out is outside the lock;
  `RevisionOrder` and `NothingHidden` are claimed for one writer.
- `submit` may queue behind the drain (`session_actor.py:133`); the request's
  thread, and with it the exit, wait for ever. `Stranded` names the case.
- A signal during the start releases the lock of a process that then goes on to
  `_bind` (`MCDaemon_bind.cfg`), or leaves it waiting for an actor that is not there, with the
  lock held (`MCDaemon_signal.cfg`). `SocketStands` and `ShutdownCompletes` except exactly
  these: `early`, `Abandoned`. `OneSession` holds all the same.
- The daemon's signal handler runs shutdown on the main thread, which may hold
  `_clients_lock` at that moment (`server.py:315`) and then waits for itself.
- A reader that took a head snapshot before a commit may put it in the session's
  cache after the commit's hook cleared it (`session.py:397`): later reads are one
  revision behind until the next write.
- `rescan_from` (`subscription.py:360`) has no caller; it falls back to a revision
  that has just been evicted and then reports an empty diff.

Head view:

- A floating read in flight may compute from the staged text between the publish
  to the overlay and the cancellation (`commit.rs:891`). Its answer is discarded
  when it is cancelled in time; when it ends first it may be a mix of two revisions
  (`MCHeadView_float.cfg`). Nothing of it is remembered (`MemoFresh`).
- A commit that is rolled back has cancelled the readers like one that is published
  (`MCHeadView_retries.cfg`); `CancelledByWrites` counts both.
- `full_code_delta` (`methods.rs:671`) does not catch a cancellation.

Code layer:

- `code_layer.rs` says a scoped build is byte-identical to a full one, and
  `project.rs` that a miss costs speed, never correctness. Outside the settled case
  it is not: the third class of an inheritance chain keeps stale override edges when
  the first changes; an importer of a file that is created later, or a file that
  reaches a name through a re-export, is not re-derived; the stub of an unused
  `from lib import x` is made by a full build and collected by a scoped one.
- An imports edge to the file where a name is defined is not enough either: the file
  that re-exports it may take it from elsewhere, or define it, in a commit that does
  not seed the defining file, and likewise for the re-exported base class of a class
  further up the chain. `ReadsOf` counts these files among those read; the proof of
  `CarriedIsExact` does not go through without.
- `diff_from` compares nodes by name, qualified name, kind, `content_hash` and `external`
  only (`code_layer.rs:198`), so deltas composed one after another would drift when a
  docstring changes. Nobody composes them: commits drop them.

Configuration:

- The secret lint (`config.rs:500`) runs after variables are expanded, so a credential
  that comes from the environment or `secrets.toml`, where the schema wants it, is
  refused as inline: `MCConfig_secrets.cfg`.
- A directory or a record file that cannot be read is passed over without a word
  (`open.rs:34`, `open.rs:50`); the next note in its place replaces the file, history
  included. `NotesFollowLayers` excepts it (`skipped`).
- Expansion is a single pass (`config.rs:659`): a reference in a variable's own value
  stays in the configuration as it is, and `StaysValid` excepts it.
- A layer that only a plug-in registers is not loaded at the next open, and the
  first note authored then replaces its record file.
- `register_authored_layer` accepts the reserved name "code"
  (`methods.rs:354`); registering a layer again with other flags keeps the first.
- `config.local.toml` is ignored when `config.toml` is absent. The cycle error
  lists layers that only depend on a cycle.
- `dag.py:34` says "code" is at position 0 of the order; a layer without
  dependencies whose name sorts before it is earlier.

Derived layers:

- The items of `RecomputeScheduler` belong to all writers (`scheduler.py:83`). With
  two threads writing, one hook may process the other's item over its own snapshot
  and store an artifact under the key of other content, or, when it ends, clear an item
  that the other has queued and not listed yet. TLC refutes `FreshIsExact` and
  `EagerArrives` with two writers.
- A traced value is checked over the ids it read before, so a new caller is not
  noticed and the old value is served as fresh (`dag.py:541`); hence the second
  half of `FreshIsExact`. A traced key has no id of its own: two entities that read the
  same set share a key with different artifacts, and the put raises.
- The source a generator is given is read from the disk, not from the snapshot
  (`dag.py:688`), so the artifact of another text may be stored under the key of the
  snapshot and stay there (`MCDerive_source.cfg`). Where the file is gone the entity's name
  stands for its source.
- A generator that returns nothing leaves no mark: a stale read hands the miss over
  again each time, a blocking one produces again. The hook counts it as done.
- A layer whose hash profile includes docstrings is keyed by them (`dag.py:320`), but
  the hook is told of what the code layer's diff reports, which ignores them: the key
  moves and the hook does not know. The model has one hash for both.
- A collection passes over a retained revision whose graph cannot be built
  (`dag.py:279`), and deletes what only that revision refers to.
- `DerivedFresh` is also published when the produce failed. An item that failed in
  the hook is marked done and not tried again eagerly, and neither is one whose
  artifact was collected.
- The hook is not told of callers of a created entity, so their keys move
  unnoticed until the next read. A late bind of the worker may bring back a
  dropped id.
- Collection keeps the revisions retained when it began, not those committed since.
- Two puts of one key write one temporary file (`stores/fs.py:43`).
- An eager layer derived from another layer is not enqueued while the upstream
  artifact is missing.

## 6. Not modelled

- The session's head-snapshot cache, `rescan_from`, and the refinement and
  derived-fresh channels with the refiner: advisory, or without a caller.
- The daemon's RPC handlers, tracker and pump: sequences of session calls on one
  actor thread, which the other modules model one by one.
- Layers derived from layers, the worker's start and stop, garbage collection of
  authored records.
- Analysis reads, coordinates, graph queries beyond the two that Derive uses, and
  adapters are pure functions of a pinned snapshot. The command line, demos and the
  editor plug-in are clients.
- The salsa engine, flock, sockets, the file system and Python's threading
  primitives are external and modelled from their use. Poisoned mutexes and signals
  that interrupt a locked section are below the grain of the models.

## 7. Plan

Done: Head, Identity, Bus, Daemon, Ledger, HeadView, CodeLayer, Config, Derive, with
proofs for all of them; every safety property of a passing run, the flows of `NoMiss`
apart, is also a theorem.

Next, in this order:

1. The session's head-snapshot cache over Bus; the derived-fresh channel over
   Derive and Bus.
2. Derive: layers derived from layers, the worker's start and stop.
3. The daemon's pump and tracker on top of Daemon.
4. Proofs: what remains true of Derive with several writers, per key; the refinement of
   the bus to a log that subscribers read.
