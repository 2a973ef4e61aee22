------------------------------ MODULE HeadView ------------------------------
(***************************************************************************)
(* The threads of a session against the native head                        *)
(* (rust/src/project/head_view.rs, and the read methods of methods.rs and  *)
(* snapshot.rs).  A write keeps the GIL and the head mutex from end to     *)
(* end; inside, applying its changes cancels every other handle on the     *)
(* engine's database and waits until they are dropped.  A floating read    *)
(* clones that database under the mutex, computes with neither mutex nor   *)
(* GIL, and on cancellation drops its clone and tries again.  A snapshot   *)
(* has a database of its own.                                              *)
(*                                                                         *)
(* A text is named by the version the store drew for it (module Head shows *)
(* that versions name texts).  What a read computes is, per file, the text *)
(* it was computed from; files are read one by one, in any order.          *)
(***************************************************************************)
EXTENDS Naturals, Sequences, FiniteSets

CONSTANTS
    Threads,      \* Python threads
    Paths,        \* the project files
    None,         \* no thread, no memo, not read yet
    MaxRetries,   \* MAX_HEAD_RETRIES
    Ops,          \* the calls the threads make in this instance
    MaxCalls,     \* bound: calls of all the threads
    MaxFaults     \* bound: commits that fail

ASSUME HeadViewAssumption ==
    /\ MaxRetries \in Nat \ {0} /\ MaxCalls \in Nat /\ MaxFaults \in Nat
    /\ None \notin Threads /\ None \notin Nat
    /\ Ops \subseteq {"write", "author", "float", "lookup", "snapshot", "pinned", "release",
                      "reload", "close"}

VARIABLES
    gil,       \* the thread that holds the GIL
    lock,      \* the thread that holds the mutex of PyTyProject.inner
    pc,        \* where each thread is in its call
    open,      \* inner is Some
    store,     \* the committed generations, the head's last
    ver,       \* ContentStore.version_counter
    dbs,       \* the engine databases with their overlay cells, the head's last
    clone,     \* thread -> the head's database it holds a handle of, or 0
    got,       \* thread -> what its read has computed so far
    tries,     \* thread -> attempts
    pinned,    \* the database of the snapshot the threads share
    calls, faults,   \* counters for the bounds
    tainted,   \* history: database -> files of a rolled-back commit not committed since
    applied,   \* history: changes applied to the engine
    since,     \* history: thread -> applied and revision when its call began
    from,      \* history: thread -> the revision when its read took its clone
    dirtied    \* history: thread -> files its read has of a commit in flight or rolled back

state == <<open, store, ver, dbs>>
threads == <<gil, lock, pc, clone, got, tries, pinned, calls>>
history == <<tainted, applied, since, from, dirtied>>
vars == <<state, threads, faults, history>>

Live == Len(dbs)
Rev == Len(store)
Gen == store[Rev]

NotRead == [p \in Paths |-> None]
NotCalled == [applied |-> 0, rev |-> 1]
Database(g) == [overlay |-> g, input |-> g, memo |-> NotRead, cancel |-> FALSE]

Clones(d) == {t \in Threads : clone[t] = d \/ pinned = d}

Init ==
    /\ gil = None /\ lock = None /\ pc = [t \in Threads |-> "idle"]
    /\ open = TRUE /\ store = <<[p \in Paths |-> 0]>> /\ ver = 0
    /\ dbs = <<Database([p \in Paths |-> 0])>>
    /\ clone = [t \in Threads |-> 0] /\ got = [t \in Threads |-> NotRead]
    /\ tries = [t \in Threads |-> 0] /\ pinned = None
    /\ calls = 0
    /\ faults = 0 /\ tainted = <<{}>> /\ applied = 0
    /\ since = [t \in Threads |-> NotCalled]
    /\ from = [t \in Threads |-> 1] /\ dirtied = [t \in Threads |-> {}]

-----------------------------------------------------------------------------
Goto(t, at) == pc' = [pc EXCEPT ![t] = at]

(* The call returns to Python; the thread lets another one run. *)
Return(t) ==
    /\ Goto(t, "idle") /\ gil' = None
    /\ got' = [got EXCEPT ![t] = NotRead] /\ tries' = [tries EXCEPT ![t] = 0]
    /\ since' = [since EXCEPT ![t] = NotCalled]
    /\ from' = [from EXCEPT ![t] = 1] /\ dirtied' = [dirtied EXCEPT ![t] = {}]

(* Python calls a native method, with the GIL. *)
Enter(t, op) ==
    /\ pc[t] = "idle" /\ gil = None /\ calls < MaxCalls
    /\ gil' = t /\ Goto(t, op)
    /\ calls' = calls + 1
    /\ since' = [since EXCEPT ![t] = [applied |-> applied, rev |-> Rev]]
    /\ UNCHANGED <<state, lock, clone, got, tries, pinned, faults, tainted, applied, from, dirtied>>

(* lock_state: the mutex is taken, or found free and the project closed. *)
Locked(t, op) == pc[t] = op /\ gil = t /\ lock = None
LockState(t, op) == Locked(t, op) /\ open

(* lock_state of any method once close() has run. *)
FindClosed(t) ==
    /\ pc[t] \in {"write", "author", "lookup", "snapshot", "reload"} /\ gil = t /\ lock = None /\ ~open
    /\ Return(t)
    /\ UNCHANGED <<state, lock, clone, pinned, calls, faults, tainted, applied>>

-----------------------------------------------------------------------------
(* A write: edit, sync_path, sync_all, poll_changes. *)

(* lock_state and build_plan; run_staged publishes the staged generation to the live
   overlay, which every handle on the head's database reads through. *)
WritePublish(t) ==
    /\ LockState(t, "write") /\ lock' = t
    /\ \E S \in (SUBSET Paths) \ {{}} :
          dbs' = [dbs EXCEPT ![Live].overlay = [p \in Paths |-> IF p \in S THEN ver + 1 ELSE @[p]]]
    /\ ver' = ver + 1
    /\ Goto(t, "apply")
    /\ UNCHANGED <<open, store, gil, clone, got, tries, pinned, calls, faults, history>>

(* apply_changes asks for the database alone: the other handles are cancelled. *)
WriteCancel(t) ==
    /\ pc[t] = "apply" /\ Goto(t, "drain")
    /\ dbs' = [dbs EXCEPT ![Live].cancel = TRUE]
    /\ UNCHANGED <<open, store, ver, gil, lock, clone, got, tries, pinned, calls, faults,
                   history>>

(* Mistaken: a file that has been read keeps what was read. *)
AppliedKeeping(d, events) ==
    [d EXCEPT !.cancel = FALSE,
              !.input = [p \in Paths |-> IF p \in events THEN d.overlay[p] ELSE @[p]]]

(* apply_changes: a file of the events whose version differs from the one it was read
   at is read again; the flag is lowered. *)
Applied(d, events) ==
    [d EXCEPT !.cancel = FALSE,
              !.input = [p \in Paths |-> IF p \in events THEN d.overlay[p] ELSE @[p]],
              !.memo = [p \in Paths |-> IF p \in events /\ d.input[p] # d.overlay[p]
                                        THEN None ELSE @[p]]]

(* The wait for the other handles is over. *)
Drained == Clones(Live) = {}

(* The files the running commit stages another text for. *)
Staged == {p \in Paths : dbs[Live].overlay[p] # Gen[p]}

(* The events are the staged files, or every file for a rescan. *)
WriteApply(t) ==
    /\ pc[t] = "drain" /\ Drained
    /\ Goto(t, "derive")
    /\ \E events \in {Staged, Paths} :
          /\ dbs' = [dbs EXCEPT ![Live] = Applied(@, events)]
          /\ tainted' = [tainted EXCEPT ![Live] = @ \ events]
    /\ applied' = applied + 1
    /\ UNCHANGED <<open, store, ver, gil, lock, clone, got, tries, pinned, calls, faults,
                   since, from, dirtied>>

(* What one query computes from a file: the memo, else the overlay, then a memo. *)
Computed(d, p) == IF dbs[d].memo[p] = None THEN dbs[d].overlay[p] ELSE dbs[d].memo[p]
Memoized(d, S) ==
    [dbs EXCEPT ![d].memo = [p \in Paths |-> IF p \in S THEN Computed(d, p) ELSE @[p]]]

(* Identity reconciliation and the code layer read the staged files and those they lead
   to; then the revision is published, which is the last step, and the mutex released. *)
WriteCommit(t) ==
    /\ pc[t] = "derive"
    /\ \E read \in SUBSET Paths : Staged \subseteq read /\ dbs' = Memoized(Live, read)
    /\ store' = Append(store, dbs[Live].overlay)
    /\ lock' = None /\ Return(t)
    /\ UNCHANGED <<open, ver, clone, pinned, calls, faults, tainted, applied>>

(* A step of the commit fails after them: rollback publishes the generation before to
   the overlay and tells the engine nothing. *)
WriteFail(t) ==
    /\ pc[t] = "derive" /\ faults < MaxFaults
    /\ \E read \in SUBSET Paths :
          Staged \subseteq read /\ dbs' = [Memoized(Live, read) EXCEPT ![Live].overlay = Gen]
    /\ tainted' = [tainted EXCEPT ![Live] = @ \cup Staged]
    /\ faults' = faults + 1
    /\ lock' = None /\ Return(t)
    /\ UNCHANGED <<open, store, ver, clone, pinned, calls, applied>>

(* author: no event, so the engine is left alone and no read is cancelled. *)
Author(t) ==
    /\ LockState(t, "author")
    /\ store' = Append(store, Gen)
    /\ Return(t)
    /\ UNCHANGED <<open, ver, dbs, lock, clone, pinned, calls, faults, tainted, applied>>

-----------------------------------------------------------------------------
(* A floating read: read_head_with_retry. *)

(* py.detach *)
Detach(t) ==
    /\ pc[t] = "float" /\ gil = t
    /\ gil' = None /\ Goto(t, "clone")
    /\ UNCHANGED <<state, lock, clone, got, tries, pinned, calls, faults, history>>

(* clone_locked_state: a handle on the head's database, or an error. *)
CloneHead(t) ==
    /\ pc[t] = "clone" /\ lock = None
    /\ IF open
       THEN clone' = [clone EXCEPT ![t] = Live] /\ Goto(t, "compute")
       ELSE UNCHANGED clone /\ Goto(t, "attach")
    /\ from' = [from EXCEPT ![t] = Rev] /\ dirtied' = [dirtied EXCEPT ![t] = {}]
    /\ UNCHANGED <<state, gil, lock, got, tries, pinned, calls, faults, tainted, applied, since>>

(* The files whose text on a database is not known to be that of a revision: staged by
   the commit in flight, or left behind by one that was rolled back. *)
Unsure(d) == tainted[d] \cup (IF d = Live THEN Staged ELSE {})

(* One query of the analysis, which first looks whether it is cancelled. *)
Compute(t) ==
    /\ pc[t] = "compute" /\ ~dbs[clone[t]].cancel
    /\ \E p \in Paths :
          /\ got[t][p] = None
          /\ got' = [got EXCEPT ![t][p] = Computed(clone[t], p)]
          /\ dbs' = Memoized(clone[t], {p})
          /\ dirtied' = [dirtied EXCEPT ![t] = @ \cup ({p} \cap Unsure(clone[t]))]
    /\ UNCHANGED <<open, store, ver, gil, lock, pc, clone, tries, pinned, calls, faults,
                   tainted, applied, since, from>>

(* Mistaken: the clone lives until the call returns. *)
FinishHolding(t) ==
    /\ pc[t] = "compute" /\ \A p \in Paths : got[t][p] # None
    /\ Goto(t, "attach")
    /\ UNCHANGED <<state, gil, lock, clone, got, tries, pinned, calls, faults, history>>

(* The value is returned and the clone dropped before the GIL is asked for again. *)
Finish(t) ==
    /\ pc[t] = "compute" /\ \A p \in Paths : got[t][p] # None
    /\ clone' = [clone EXCEPT ![t] = 0]
    /\ Goto(t, "attach")
    /\ UNCHANGED <<state, gil, lock, got, tries, pinned, calls, faults, history>>

(* Mistaken: the read starts over on the clone it has. *)
UnwindInPlace(t) ==
    /\ pc[t] = "compute" /\ dbs[clone[t]].cancel
    /\ got' = [got EXCEPT ![t] = NotRead] /\ tries' = [tries EXCEPT ![t] = @ + 1]
    /\ Goto(t, IF tries[t] + 1 >= MaxRetries THEN "attach" ELSE "compute")
    /\ UNCHANGED <<state, gil, lock, clone, pinned, calls, faults, history>>

(* Mistaken: what the cancelled attempt has computed is kept for the next one. *)
UnwindKeeping(t) ==
    /\ pc[t] = "compute" /\ dbs[clone[t]].cancel
    /\ clone' = [clone EXCEPT ![t] = 0] /\ tries' = [tries EXCEPT ![t] = @ + 1]
    /\ Goto(t, IF tries[t] + 1 >= MaxRetries THEN "attach" ELSE "clone")
    /\ UNCHANGED <<state, gil, lock, got, pinned, calls, faults, history>>

(* The analysis unwinds with Cancelled: the clone is dropped, and the read starts over
   or gives up. *)
Unwind(t) ==
    /\ pc[t] = "compute" /\ dbs[clone[t]].cancel
    /\ clone' = [clone EXCEPT ![t] = 0] /\ got' = [got EXCEPT ![t] = NotRead]
    /\ tries' = [tries EXCEPT ![t] = @ + 1]
    /\ Goto(t, IF tries[t] + 1 >= MaxRetries THEN "attach" ELSE "clone")
    /\ UNCHANGED <<state, gil, lock, pinned, calls, faults, history>>

(* The detached call takes the GIL again and returns. *)
Attach(t) ==
    /\ pc[t] = "attach" /\ gil = None
    /\ clone' = [clone EXCEPT ![t] = 0]
    /\ Return(t)
    /\ UNCHANGED <<state, lock, pinned, calls, faults, tainted, applied>>

-----------------------------------------------------------------------------
(* The other calls. *)

(* PyTyProject.id_for, locate, needs_review, orphaned: with the GIL and the mutex. *)
Lookup(t) ==
    /\ LockState(t, "lookup")
    /\ dbs' = Memoized(Live, Paths)
    /\ Return(t)
    /\ UNCHANGED <<open, store, ver, lock, clone, pinned, calls, faults, tainted, applied>>

(* build_frozen: a database of its own. *)
OwnDatabase == 0

(* snapshot(): what it reads is captured under the mutex (module Head). *)
Snapshot(t) ==
    /\ LockState(t, "snapshot")
    /\ pinned' = OwnDatabase
    /\ Return(t)
    /\ UNCHANGED <<state, lock, clone, calls, faults, tainted, applied>>

(* A read of a snapshot that is not closed: detach, compute on a clone of its database. *)
ReadPinned(t) ==
    /\ pc[t] = "pinned" /\ gil = t
    /\ gil' = None /\ Goto(t, "attach")
    /\ clone' = [clone EXCEPT ![t] = IF pinned = None THEN 0 ELSE pinned]
    /\ UNCHANGED <<state, lock, got, tries, pinned, calls, faults, history>>

(* PySnapshot.close *)
Release(t) ==
    /\ pc[t] = "release" /\ gil = t
    /\ pinned' = None
    /\ Return(t)
    /\ UNCHANGED <<state, lock, clone, calls, faults, tainted, applied>>

(* reload: a new database over the kept store; handles on the old one go on. *)
Reload(t) ==
    /\ LockState(t, "reload")
    /\ dbs' = Append(dbs, Database(Gen)) /\ tainted' = Append(tainted, {})
    /\ Return(t)
    /\ UNCHANGED <<open, store, ver, lock, clone, pinned, calls, faults, applied>>

(* PyTyProject.close: the head state is dropped, handles on its database are not. *)
Close(t) ==
    /\ Locked(t, "close")
    /\ open' = FALSE
    /\ Return(t)
    /\ UNCHANGED <<store, ver, dbs, lock, clone, pinned, calls, faults, tainted, applied>>

-----------------------------------------------------------------------------
Step(t) ==
    \/ FindClosed(t)
    \/ WritePublish(t) \/ WriteCancel(t) \/ WriteApply(t) \/ WriteCommit(t) \/ WriteFail(t)
    \/ Author(t)
    \/ Detach(t) \/ CloneHead(t) \/ Compute(t) \/ Finish(t) \/ Unwind(t) \/ Attach(t)
    \/ Lookup(t) \/ Snapshot(t) \/ ReadPinned(t) \/ Release(t) \/ Reload(t) \/ Close(t)

Next == \E t \in Threads : Step(t) \/ \E op \in Ops : Enter(t, op)

(* The system runs every thread that can run; nobody is made to call. *)
Spec == Init /\ [][Next]_vars /\ \A t \in Threads : WF_vars(Step(t))

-----------------------------------------------------------------------------
(* Properties. *)

(* No floating read leaves behind what it read of a commit in flight: whenever the
   mutex is free, what the engine remembers of a file is the committed text.  The
   exception is a file of a rolled-back commit, until it is committed again. *)
MemoFresh ==
    lock = None =>
        \A p \in Paths \ tainted[Live] : dbs[Live].memo[p] \in {None, Gen[p]}

(* What a floating read has, and what it returns when it is not cancelled, is of one
   revision, the newest when the read took its clone, however many commits, reloads and
   other reads ran beside it: the files it read while a commit in flight or rolled back
   had another text for them are the only exception (WholeRevision). *)
OneRevision ==
    \A t \in Threads :
        pc[t] \in {"compute", "attach"} =>
            \A p \in Paths \ dirtied[t] : got[t][p] \in {None, store[from[t]][p]}

(* "Reflects the newest HEAD revision": what a floating read returns is some revision.
   The code publishes the staged texts to the overlay before it cancels the readers, so
   a read may end between the two with texts of both. *)
WholeRevision ==
    \A t \in Threads :
        lock = None /\ pc[t] = "attach" /\ (\A p \in Paths : got[t][p] # None) =>
            \E r \in 1..Rev : got[t] = store[r]

(* A read is started over at most once for every change applied since it was called, the
   one being applied included, whether the commit is then published or rolled back: a
   read that gives up was interrupted by MaxRetries commits, never by itself. *)
CancelledByWrites ==
    \A t \in Threads :
        pc[t] \in {"clone", "compute", "attach"} =>
            tries[t] <= applied - since[t].applied + (IF dbs[Live].cancel THEN 1 ELSE 0)

(* "Each cancellation corresponds to a completed write": between commits, a read has been
   started over at most once per revision since it was called.  The changes of a commit
   that is rolled back have cancelled the readers too. *)
CompletedWrites ==
    \A t \in Threads :
        lock = None /\ pc[t] \in {"clone", "compute", "attach"} =>
            tries[t] <= Rev - since[t].rev

(* Every call returns: the writer that waits for clones while it has the GIL and the
   mutex, the reader that needs the GIL to return and the mutex to start over, and a
   snapshot held meanwhile do not block one another. *)
CallsEnd == \A t \in Threads : pc[t] # "idle" ~> pc[t] = "idle"
=============================================================================
