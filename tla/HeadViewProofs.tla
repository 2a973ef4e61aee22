--------------------------- MODULE HeadViewProofs ---------------------------
(* Proofs about module HeadView, for every set of threads and files, every number of
   retries and every value of the bounds. *)
EXTENDS HeadView, SequenceTheorems, TLAPS

(* Where a thread may be: before a call, in a commit, in a floating read. *)
Entries == {"write", "author", "float", "lookup", "snapshot", "pinned", "release",
            "reload", "close"}
Writing == {"apply", "drain", "derive"}
Reading == {"clone", "compute", "attach"}

(* Texts are named by versions. *)
Versions == [Paths -> Nat]
Memos == [Paths -> Nat \cup {None}]
Databases == [overlay : Versions, input : Versions, memo : Memos, cancel : BOOLEAN]

(* The types of what the other invariants speak of. *)
Types ==
    /\ lock \in Threads \cup {None}
    /\ pc \in [Threads -> {"idle"} \cup Entries \cup Writing \cup Reading]
    /\ store \in Seq(Versions) /\ Rev > 0 /\ ver \in Nat
    /\ dbs \in Seq(Databases) /\ Live > 0
    /\ clone \in [Threads -> 0..Live] /\ got \in [Threads -> Memos]
    /\ tries \in [Threads -> Nat] /\ pinned \in {0, None}
    /\ tainted \in Seq(SUBSET Paths) /\ Len(tainted) = Live
    /\ applied \in Nat /\ since \in [Threads -> [applied : Nat, rev : Nat]]

(* The mutex is held by the thread that is inside a commit, and by no other. *)
LockInv == \A t \in Threads : pc[t] \in Writing <=> lock = t

(* Where the commit in progress is; with a free mutex there is none. *)
Staging == \E t \in Threads : pc[t] \in {"apply", "drain"}
Deriving == \E t \in Threads : pc[t] = "derive"

(* A running read has a database, and once the changes are applied nobody has a handle
   on the head's. *)
HandleInv ==
    /\ \A t \in Threads : pc[t] = "compute" => clone[t] \in 1..Live
    /\ Deriving => \A t \in Threads : clone[t] # Live

(* Only the head's database is cancelled, and only while a writer waits. *)
CancelInv ==
    \A d \in 1..Live : dbs[d].cancel => d = Live /\ \E t \in Threads : pc[t] = "drain"

(* No version is newer than the counter. *)
VersionInv ==
    \A p \in Paths : Gen[p] <= ver /\ dbs[Live].overlay[p] <= ver /\ dbs[Live].input[p] <= ver

(* What a file's text, the version it was read at and its memo have to do with each
   other, before and after the changes of a commit are applied.  A tainted file was read
   at the version of the commit that failed. *)
MemoInv ==
    LET d == dbs[Live]
    IN  /\ ~Staging /\ ~Deriving => d.overlay = Gen
        /\ \A p \in Paths \ tainted[Live] :
              /\ ~Deriving => d.input[p] = Gen[p] /\ d.memo[p] \in {None, Gen[p], d.overlay[p]}
              /\ Deriving => d.input[p] = d.overlay[p] /\ d.memo[p] \in {None, d.overlay[p]}
        /\ \A p \in tainted[Live] :
              /\ d.input[p] # Gen[p]
              /\ ~Deriving => d.input[p] # d.overlay[p]
              /\ Deriving => d.overlay[p] = Gen[p]

(* A read has started over at most once per change applied since it was called; one that
   was cancelled by the change being applied has no handle any more. *)
RetryInv ==
    \A t \in Threads :
        /\ since[t].applied <= applied
        /\ pc[t] \notin Reading => tries[t] = 0
        /\ pc[t] = "compute" => tries[t] <= applied - since[t].applied
        /\ pc[t] \in Reading =>
              tries[t] <= applied - since[t].applied + (IF dbs[Live].cancel THEN 1 ELSE 0)

(* The inductive invariant of the head and its databases. *)
HeadViewInv ==
    /\ Types /\ LockInv /\ HandleInv /\ CancelInv /\ VersionInv /\ MemoInv /\ RetryInv
-----------------------------------------------------------------------------
(* The initial state satisfies the invariant. *)
LEMMA InitInv == Init => HeadViewInv
<1> SUFFICES ASSUME Init PROVE HeadViewInv
  OBVIOUS
<1> DEFINE zero == [p \in Paths |-> 0]
<1>1. zero \in Versions /\ NotRead \in Memos /\ Database(zero) \in Databases
  BY DEF Versions, Memos, Database, Databases, NotRead
<1>2. /\ store \in Seq(Versions) /\ Len(store) = 1 /\ store[1] = zero
      /\ dbs \in Seq(Databases) /\ Len(dbs) = 1 /\ dbs[1] = Database(zero)
  BY <1>1 DEF Init
<1>3. Types
  BY <1>1, <1>2 DEF Init, Types, Live, Rev, NotCalled
<1>4. LockInv /\ ~Staging /\ ~Deriving
  BY HeadViewAssumption DEF Init, LockInv, Staging, Deriving, Writing
<1>5. HandleInv /\ CancelInv /\ VersionInv /\ MemoInv /\ RetryInv
  BY <1>2, <1>4 DEF Init, HandleInv, CancelInv, VersionInv, MemoInv, RetryInv,
      Live, Rev, Gen, Database, NotRead, NotCalled, Reading
<1> QED BY <1>3, <1>4, <1>5 DEF HeadViewInv

(* A step of one thread's call that leaves the store, the databases and the mutex alone. *)
OwnStep(t) ==
    /\ UNCHANGED <<lock, dbs, store, ver, tainted, applied>>
    /\ Types'
    /\ \A u \in Threads \ {t} :
          /\ pc'[u] = pc[u] /\ clone'[u] = clone[u] /\ got'[u] = got[u]
          /\ tries'[u] = tries[u] /\ since'[u] = since[u]
    /\ pc[t] \notin Writing /\ pc'[t] \notin Writing
    /\ clone'[t] \in {0, clone[t]} \/ lock = None
    /\ pc'[t] = "compute" => clone'[t] \in 1..Live
    /\ since'[t].applied <= applied
    /\ pc'[t] \notin Reading => tries'[t] = 0
    /\ pc'[t] = "compute" => tries'[t] <= applied - since'[t].applied
    /\ pc'[t] \in Reading =>
          tries'[t] <= applied - since'[t].applied + (IF dbs[Live].cancel THEN 1 ELSE 0)

(* Such a step keeps the invariant. *)
LEMMA OwnStepInv ==
    ASSUME HeadViewInv, NEW t \in Threads, OwnStep(t)
    PROVE  HeadViewInv'
<1>1. Types' /\ UNCHANGED <<lock, dbs, store, ver, tainted, applied>>
  BY DEF OwnStep
<1>2. LockInv' /\ (Staging' <=> Staging) /\ (Deriving' <=> Deriving)
  BY DEF HeadViewInv, Types, LockInv, Staging, Deriving, Writing, OwnStep
<1>3. ~Deriving \/ lock # None
  BY HeadViewAssumption DEF HeadViewInv, LockInv, Deriving, Writing
<1>4. HandleInv'
  <2>1. Live \in Nat /\ Live > 0 /\ Live' = Live
    BY <1>1 DEF HeadViewInv, Types, Live
  <2>2. \A u \in Threads : pc'[u] = "compute" => clone'[u] \in 1..Live
    BY DEF HeadViewInv, HandleInv, OwnStep
  <2>3. Deriving => \A u \in Threads : clone'[u] # Live
    BY <1>3, <2>1 DEF HeadViewInv, HandleInv, OwnStep
  <2> QED BY <1>2, <2>1, <2>2, <2>3 DEF HandleInv
<1>5. CancelInv'
  BY <1>1 DEF HeadViewInv, CancelInv, Live, Writing, OwnStep
<1>6. VersionInv' /\ MemoInv'
  BY <1>1, <1>2 DEF HeadViewInv, VersionInv, MemoInv, Live, Rev, Gen
<1>8. RetryInv'
  BY <1>1 DEF HeadViewInv, RetryInv, Live, OwnStep
<1> QED BY <1>1, <1>2, <1>4, <1>5, <1>6, <1>8 DEF HeadViewInv

(* Nothing is cancelled while the mutex is free. *)
LEMMA FreeNotCancelled ==
    ASSUME HeadViewInv, lock = None
    PROVE  ~dbs[Live].cancel /\ ~Staging /\ ~Deriving
<1>1. \A u \in Threads : pc[u] \notin Writing
  BY HeadViewAssumption DEF HeadViewInv, LockInv
<1>2. Live \in 1..Live
  BY DEF HeadViewInv, Types, Live
<1> QED BY <1>1, <1>2 DEF HeadViewInv, CancelInv, Writing, Staging, Deriving

(* Calls, and steps of calls, that neither touch the head's database nor the store. *)
LEMMA QuietStep ==
    ASSUME HeadViewInv, NEW t \in Threads,
           \/ \E op \in Entries : Enter(t, op)
           \/ FindClosed(t) \/ Snapshot(t) \/ ReadPinned(t) \/ Release(t) \/ Close(t)
           \/ Detach(t) \/ CloneHead(t) \/ Finish(t) \/ Unwind(t) \/ Attach(t)
    PROVE  HeadViewInv'
<1> SUFFICES OwnStep(t)
  BY OwnStepInv
<1>0. NotRead \in Memos
  BY DEF NotRead, Memos
<1>f. lock = None => ~dbs[Live].cancel
  BY FreeNotCancelled
<1>l. Live \in Nat /\ Live > 0
  BY DEF HeadViewInv, Types, Live
<1> USE <1>0 DEF HeadViewInv, Types, RetryInv, OwnStep, Goto, Return, NotCalled, Entries, Reading, Writing, Live, Rev, state, history
<1>1. CASE \E op \in Entries : Enter(t, op)
  <2>1. PICK op \in Entries : Enter(t, op)
    BY <1>1
  <2>2. op \notin Writing /\ op \notin Reading /\ op # "compute"
    OBVIOUS
  <2>3. Types'
    BY <2>1 DEF Enter
  <2>4. pc[t] = "idle" /\ pc'[t] = op /\ since'[t].applied = applied /\ tries'[t] = 0
    BY <2>1 DEF Enter
  <2> HIDE DEF Entries, Reading, Writing
  <2>5. pc[t] \notin Writing
    BY <2>4 DEF Writing
  <2> QED BY <2>1, <2>2, <2>3, <2>4, <2>5 DEF Enter
<1>2. CASE FindClosed(t)
  BY <1>2 DEF FindClosed
<1>3. CASE Snapshot(t)
  BY <1>3 DEF Snapshot, LockState, Locked, OwnDatabase
<1>4. CASE ReadPinned(t)
  <2>1. /\ pc[t] = "pinned" /\ pc' = [pc EXCEPT ![t] = "attach"]
        /\ clone' = [clone EXCEPT ![t] = 0]
        /\ UNCHANGED <<store, ver, dbs, lock, got, tries, pinned, tainted, applied, since>>
    BY <1>4, HeadViewAssumption DEF ReadPinned
  <2> QED BY <1>l, <2>1
<1>5. CASE Release(t)
  BY <1>5 DEF Release
<1>6. CASE Close(t)
  BY <1>6 DEF Close, Locked
<1>7. CASE Detach(t)
  <2>1. /\ pc[t] = "float" /\ pc' = [pc EXCEPT ![t] = "clone"]
        /\ UNCHANGED <<store, ver, dbs, lock, clone, got, tries, pinned, tainted, applied, since>>
    BY <1>7 DEF Detach
  <2> QED BY <2>1
<1>8. CASE CloneHead(t)
  <2>1. /\ pc[t] = "clone" /\ lock = None /\ got' = got
        /\ UNCHANGED <<store, ver, dbs, lock, tries, pinned, tainted, applied, since>>
    BY <1>8 DEF CloneHead
  <2>2. tries[t] <= applied - since[t].applied
    BY <1>f, <2>1
  <2>3. CASE clone' = [clone EXCEPT ![t] = Live] /\ pc' = [pc EXCEPT ![t] = "compute"]
    BY <1>l, <2>1, <2>2, <2>3
  <2>4. CASE clone' = clone /\ pc' = [pc EXCEPT ![t] = "attach"]
    BY <1>l, <2>1, <2>2, <2>4
  <2> QED BY <1>8, <2>3, <2>4, Zenon DEF CloneHead
<1>9. CASE Finish(t)
  BY <1>9 DEF Finish
<1>10. CASE Unwind(t)
  <2>1. clone[t] = Live
    BY <1>10 DEF Unwind, HandleInv, CancelInv
  <2>2. /\ pc[t] = "compute" /\ dbs[Live].cancel /\ clone' = [clone EXCEPT ![t] = 0]
        /\ got' = [got EXCEPT ![t] = NotRead] /\ tries' = [tries EXCEPT ![t] = @ + 1]
        /\ UNCHANGED <<store, ver, dbs, lock, pinned, tainted, applied, since>>
    BY <1>10, <2>1 DEF Unwind
  <2>3. PICK at \in {"attach", "clone"} : pc' = [pc EXCEPT ![t] = at]
    BY <1>10 DEF Unwind
  <2> QED BY <1>l, <2>2, <2>3
<1>11. CASE Attach(t)
  BY <1>11 DEF Attach
<1> QED BY <1>1, <1>2, <1>3, <1>4, <1>5, <1>6, <1>7, <1>8, <1>9, <1>10, <1>11
-----------------------------------------------------------------------------
(* Replacing one database leaves the others alone. *)
LEMMA Replaced ==
    ASSUME Types, NEW d \in 1..Live, NEW x \in Databases
    PROVE  /\ [dbs EXCEPT ![d] = x] \in Seq(Databases)
           /\ Len([dbs EXCEPT ![d] = x]) = Live
           /\ \A e \in 1..Live : [dbs EXCEPT ![d] = x][e] = IF e = d THEN x ELSE dbs[e]
BY DEF Types, Live

(* What a query leaves behind: a memo of what it computed, and nothing else. *)
LEMMA Queried ==
    ASSUME Types, NEW d \in 1..Live, NEW S \in SUBSET Paths
    PROVE  /\ Memoized(d, S) \in Seq(Databases) /\ Len(Memoized(d, S)) = Live
           /\ \A e \in 1..Live \ {d} : Memoized(d, S)[e] = dbs[e]
           /\ Memoized(d, S)[d].overlay = dbs[d].overlay
           /\ Memoized(d, S)[d].input = dbs[d].input
           /\ Memoized(d, S)[d].cancel = dbs[d].cancel
           /\ \A p \in Paths :
                 Memoized(d, S)[d].memo[p] = IF p \in S THEN Computed(d, p) ELSE dbs[d].memo[p]
<1> DEFINE f == [p \in Paths |-> IF p \in S THEN Computed(d, p) ELSE dbs[d].memo[p]]
           x == [dbs[d] EXCEPT !.memo = f]
<1>1. dbs[d] \in Databases
  BY DEF Types, Live
<1>2. \A p \in Paths : Computed(d, p) \in Nat \cup {None}
  BY <1>1 DEF Computed, Databases, Versions, Memos
<1>3. f \in Memos
  BY <1>1, <1>2 DEF Memos, Databases
<1>4. Memoized(d, S) = [dbs EXCEPT ![d] = x]
  BY DEF Memoized, Types, Live
<1> HIDE DEF f
<1>5. /\ x \in Databases /\ x.overlay = dbs[d].overlay /\ x.input = dbs[d].input
      /\ x.cancel = dbs[d].cancel /\ x.memo = f
  BY <1>1, <1>3 DEF Databases
<1> HIDE DEF x
<1>6. \A p \in Paths : f[p] = IF p \in S THEN Computed(d, p) ELSE dbs[d].memo[p]
  BY DEF f
<1> QED BY <1>4, <1>5, <1>6, Replaced

(* Where the threads are does not change when one of them goes on in a call that is not
   a commit. *)
LEMMA PhaseKept ==
    ASSUME HeadViewInv, NEW t \in Threads, lock' = lock,
           pc[t] \notin Writing, pc' = pc \/ pc' = [pc EXCEPT ![t] = "idle"]
    PROVE  LockInv' /\ (Staging' <=> Staging) /\ (Deriving' <=> Deriving)
BY DEF HeadViewInv, Types, LockInv, Staging, Deriving, Writing

(* A query of a floating read. *)
LEMMA ComputeStep ==
    ASSUME HeadViewInv, NEW t \in Threads, Compute(t)
    PROVE  HeadViewInv'
<1> DEFINE d == clone[t]
<1>1. PICK p \in Paths : /\ got[t][p] = None
                         /\ got' = [got EXCEPT ![t][p] = Computed(d, p)]
                         /\ dbs' = Memoized(d, {p})
  BY DEF Compute
<1>2. /\ pc[t] = "compute" /\ Types /\ d \in 1..Live
      /\ UNCHANGED <<store, ver, lock, pc, clone, tries, pinned, tainted, applied, since>>
  BY DEF Compute, HeadViewInv, HandleInv
<1>3. /\ dbs' \in Seq(Databases) /\ Live' = Live
      /\ \A e \in 1..Live \ {d} : dbs'[e] = dbs[e]
      /\ dbs'[d].overlay = dbs[d].overlay /\ dbs'[d].input = dbs[d].input
      /\ dbs'[d].cancel = dbs[d].cancel
      /\ \A q \in Paths : dbs'[d].memo[q] = IF q = p THEN Computed(d, q) ELSE dbs[d].memo[q]
  BY <1>1, <1>2, Queried DEF Live
<1>4. dbs[d] \in Databases /\ Computed(d, p) \in Nat \cup {None}
  <2>1. dbs[d] \in Databases
    BY <1>2 DEF Types, Live
  <2> QED BY <2>1 DEF Computed, Databases, Versions, Memos
<1>5. got' \in [Threads -> Memos]
  BY <1>1, <1>2, <1>4 DEF Types, Memos
<1>6. Types'
  BY <1>2, <1>3, <1>5 DEF Types, Rev, Live
<1>7. LockInv' /\ (Staging' <=> Staging) /\ (Deriving' <=> Deriving)
  BY <1>2 DEF HeadViewInv, LockInv, Staging, Deriving
<1>8. /\ Live \in 1..Live /\ dbs'[Live].overlay = dbs[Live].overlay
      /\ dbs'[Live].input = dbs[Live].input /\ dbs'[Live].cancel = dbs[Live].cancel
      /\ \A e \in 1..Live : dbs'[e].cancel = dbs[e].cancel
      /\ Gen' = Gen
  <2>1. Live \in 1..Live
    BY <1>2 DEF Types, Live
  <2>2. Gen' = Gen
    BY <1>2 DEF Gen, Rev
  <2> HIDE DEF d
  <2> QED BY <1>3, <2>1, <2>2
<1>9. HandleInv' /\ CancelInv' /\ RetryInv' /\ VersionInv'
  BY <1>2, <1>3, <1>7, <1>8 DEF HeadViewInv, HandleInv, CancelInv, RetryInv, VersionInv
<1>10. \A q \in Paths : dbs'[Live].memo[q] \in {dbs[Live].memo[q], dbs[Live].overlay[q]}
  BY <1>3, <1>8 DEF Computed
<1>11. ~Deriving \/ d # Live
  BY <1>2 DEF HeadViewInv, HandleInv
<1>12. Deriving => dbs'[Live] = dbs[Live]
  BY <1>3, <1>8, <1>11
<1>13. MemoInv'
  BY <1>2, <1>3, <1>7, <1>8, <1>10, <1>12 DEF HeadViewInv, MemoInv
<1> QED BY <1>6, <1>7, <1>9, <1>13 DEF HeadViewInv

(* A lookup fills the memos under the mutex. *)
LEMMA LookupStep ==
    ASSUME HeadViewInv, NEW t \in Threads, Lookup(t)
    PROVE  HeadViewInv'
<1>1. /\ pc[t] = "lookup" /\ lock = None /\ dbs' = Memoized(Live, Paths)
      /\ pc' = [pc EXCEPT ![t] = "idle"] /\ got' = [got EXCEPT ![t] = NotRead]
      /\ tries' = [tries EXCEPT ![t] = 0] /\ since' = [since EXCEPT ![t] = NotCalled]
      /\ UNCHANGED <<store, ver, lock, clone, pinned, tainted, applied>>
  BY DEF Lookup, LockState, Locked, Return, Goto
<1>2. Types /\ Live \in 1..Live /\ ~Staging /\ ~Deriving
  BY <1>1, FreeNotCancelled DEF HeadViewInv, Types, Live
<1>3. /\ dbs' \in Seq(Databases) /\ Live' = Live
      /\ \A e \in 1..Live \ {Live} : dbs'[e] = dbs[e]
      /\ dbs'[Live].overlay = dbs[Live].overlay /\ dbs'[Live].input = dbs[Live].input
      /\ dbs'[Live].cancel = dbs[Live].cancel
      /\ \A q \in Paths : dbs'[Live].memo[q] = Computed(Live, q)
  BY <1>1, <1>2, Queried DEF Live
<1>4. Types'
  <2>1. NotRead \in Memos
    BY DEF NotRead, Memos
  <2> QED BY <1>1, <1>2, <1>3, <2>1 DEF Types, Rev, Live, Entries, NotCalled
<1>5. LockInv' /\ (Staging' <=> Staging) /\ (Deriving' <=> Deriving)
  BY <1>1, PhaseKept DEF Writing
<1>6. Gen' = Gen /\ \A e \in 1..Live : dbs'[e].cancel = dbs[e].cancel
  BY <1>1, <1>3 DEF Gen, Rev
<1>7. HandleInv' /\ CancelInv' /\ RetryInv' /\ VersionInv'
  <2>1. HandleInv'
    BY <1>1, <1>2, <1>3, <1>5 DEF HeadViewInv, Types, HandleInv
  <2>2. CancelInv'
    BY <1>1, <1>2, <1>3, <1>6 DEF HeadViewInv, Types, CancelInv
  <2>3. VersionInv'
    BY <1>1, <1>3, <1>6 DEF HeadViewInv, VersionInv
  <2>4. RetryInv'
    BY <1>1, <1>2, <1>3 DEF HeadViewInv, Types, RetryInv, Reading, NotCalled
  <2> QED BY <2>1, <2>2, <2>3, <2>4
<1>8. MemoInv'
  BY <1>1, <1>2, <1>3, <1>5, <1>6 DEF HeadViewInv, MemoInv, Computed
<1> QED BY <1>4, <1>5, <1>7, <1>8 DEF HeadViewInv

(* author appends the head's generation once more. *)
LEMMA AuthorStep ==
    ASSUME HeadViewInv, NEW t \in Threads, Author(t)
    PROVE  HeadViewInv'
<1>1. /\ pc[t] = "author" /\ lock = None /\ store' = Append(store, Gen)
      /\ pc' = [pc EXCEPT ![t] = "idle"] /\ got' = [got EXCEPT ![t] = NotRead]
      /\ tries' = [tries EXCEPT ![t] = 0] /\ since' = [since EXCEPT ![t] = NotCalled]
      /\ UNCHANGED <<dbs, ver, lock, clone, pinned, tainted, applied>>
  BY DEF Author, LockState, Locked, Return, Goto
<1>2. Types /\ Live' = Live /\ NotRead \in Memos
  BY <1>1 DEF HeadViewInv, Live, NotRead, Memos
<1>3. store' \in Seq(Versions) /\ Rev' > 0 /\ Gen' = Gen
  BY <1>1, <1>2 DEF Types, Gen, Rev
<1>4. Types'
  BY <1>1, <1>2, <1>3 DEF Types, NotCalled
<1>5. LockInv' /\ (Staging' <=> Staging) /\ (Deriving' <=> Deriving)
  BY <1>1, PhaseKept DEF Writing
<1>6. HandleInv'
  BY <1>1, <1>2, <1>5 DEF HeadViewInv, Types, HandleInv
<1>7. CancelInv'
  BY <1>1, <1>2 DEF HeadViewInv, Types, CancelInv
<1>8. VersionInv' /\ MemoInv'
  BY <1>1, <1>2, <1>3, <1>5 DEF HeadViewInv, VersionInv, MemoInv
<1>10. RetryInv'
  BY <1>1, <1>2 DEF HeadViewInv, Types, RetryInv, Reading, NotCalled
<1> QED BY <1>4, <1>5, <1>6, <1>7, <1>8, <1>10 DEF HeadViewInv

(* reload: nobody has a handle on the new database, and nothing has been read in it. *)
LEMMA ReloadStep ==
    ASSUME HeadViewInv, NEW t \in Threads, Reload(t)
    PROVE  HeadViewInv'
<1>1. /\ pc[t] = "reload" /\ lock = None /\ dbs' = Append(dbs, Database(Gen))
      /\ tainted' = Append(tainted, {})
      /\ pc' = [pc EXCEPT ![t] = "idle"] /\ got' = [got EXCEPT ![t] = NotRead]
      /\ tries' = [tries EXCEPT ![t] = 0] /\ since' = [since EXCEPT ![t] = NotCalled]
      /\ UNCHANGED <<store, ver, lock, clone, pinned, applied>>
  BY DEF Reload, LockState, Locked, Return, Goto
<1>2. Types /\ ~Staging /\ ~Deriving /\ ~dbs[Live].cancel /\ NotRead \in Memos
  BY <1>1, FreeNotCancelled DEF HeadViewInv, NotRead, Memos
<1>3. Gen' = Gen /\ Gen \in Versions
  BY <1>1, <1>2 DEF Types, Gen, Rev
<1>4. Database(Gen) \in Databases
  BY <1>2, <1>3 DEF Database, Databases
<1>5. Live \in Nat /\ Live > 0
  BY <1>2 DEF Types, Live
<1>6. /\ dbs' \in Seq(Databases) /\ Live' = Live + 1
      /\ dbs'[Live'] = Database(Gen) /\ \A e \in 1..Live : dbs'[e] = dbs[e]
  BY <1>1, <1>2, <1>4 DEF Types, Live
<1>7. /\ dbs'[Live'].overlay = Gen /\ dbs'[Live'].input = Gen
      /\ dbs'[Live'].memo = NotRead /\ dbs'[Live'].cancel = FALSE
  BY <1>6 DEF Database
<1>t. tainted' \in Seq(SUBSET Paths) /\ Len(tainted') = Live' /\ tainted'[Live'] = {}
  BY <1>1, <1>2, <1>5, <1>6 DEF Types
<1>8. Types'
  BY <1>1, <1>2, <1>5, <1>6, <1>t DEF Types, Rev, NotCalled
<1>9. LockInv' /\ ~Staging' /\ ~Deriving'
  BY <1>1, <1>2, PhaseKept DEF Writing
<1>10. \A u \in Threads : clone'[u] \in 0..Live
  BY <1>1, <1>2 DEF Types
<1>11. HandleInv'
  BY <1>1, <1>2, <1>5, <1>6, <1>9 DEF HeadViewInv, Types, HandleInv
<1>12. CancelInv'
  <2>1. \A e \in 1..Live : ~dbs[e].cancel
    BY <1>2 DEF HeadViewInv, CancelInv
  <2> QED BY <1>5, <1>6, <1>7, <2>1 DEF CancelInv
<1>13. VersionInv' /\ MemoInv'
  BY <1>1, <1>3, <1>7, <1>9, <1>t DEF HeadViewInv, VersionInv, MemoInv, NotRead
<1>15. RetryInv'
  BY <1>1, <1>2, <1>7 DEF HeadViewInv, Types, RetryInv, Reading, NotCalled
<1> QED BY <1>8, <1>9, <1>11, <1>12, <1>13, <1>15 DEF HeadViewInv
-----------------------------------------------------------------------------
(* The thread inside a commit is the only one, and says how far the commit is. *)
LEMMA OneWriter ==
    ASSUME HeadViewInv, NEW t \in Threads, pc[t] \in Writing
    PROVE  /\ lock = t /\ \A u \in Threads \ {t} : pc[u] \notin Writing
           /\ Staging <=> pc[t] \in {"apply", "drain"}
           /\ Deriving <=> pc[t] = "derive"
<1>1. lock = t /\ \A u \in Threads \ {t} : pc[u] \notin Writing
  BY DEF HeadViewInv, LockInv
<1> QED BY <1>1 DEF Staging, Deriving, Writing

(* The head's database and generation, typed. *)
LEMMA LiveTyped ==
    ASSUME Types
    PROVE  /\ Live \in Nat /\ Live > 0 /\ Live \in 1..Live /\ Gen \in Versions
           /\ dbs[Live] \in Databases
<1>1. Live \in Nat /\ Live > 0 /\ Rev \in Nat /\ Rev > 0
  BY DEF Types, Live, Rev
<1>2. Gen \in Versions
  BY <1>1 DEF Types, Gen, Rev
<1>3. dbs[Live] \in Databases
  BY <1>1 DEF Types, Live
<1> QED BY <1>1, <1>2, <1>3

(* The staged texts go to the overlay under versions nothing has been read at. *)
LEMMA PublishStep ==
    ASSUME HeadViewInv, NEW t \in Threads, WritePublish(t)
    PROVE  HeadViewInv'
<1> DEFINE over(S) == [p \in Paths |-> IF p \in S THEN ver + 1 ELSE dbs[Live].overlay[p]]
           new(S) == [dbs[Live] EXCEPT !.overlay = over(S)]
<1>1. /\ pc[t] = "write" /\ lock = None /\ lock' = t /\ ver' = ver + 1
      /\ pc' = [pc EXCEPT ![t] = "apply"]
      /\ UNCHANGED <<store, clone, got, tries, pinned, tainted, applied, since>>
  BY DEF WritePublish, LockState, Locked, Goto, history
<1>2. Types /\ ~Staging /\ ~Deriving /\ ~dbs[Live].cancel
  BY <1>1, FreeNotCancelled DEF HeadViewInv
<1>3. /\ Live \in Nat /\ Live > 0 /\ Live \in 1..Live /\ Gen \in Versions
      /\ dbs[Live] \in Databases
  BY <1>2, LiveTyped
<1>4. PICK S \in (SUBSET Paths) \ {{}} : dbs' = [dbs EXCEPT ![Live] = new(S)]
  BY <1>2, <1>3 DEF WritePublish, Types, Live
<1>5. over(S) \in Versions
  BY <1>2, <1>3 DEF Types, Databases, Versions
<1>6. /\ new(S) \in Databases /\ new(S).overlay = over(S) /\ new(S).input = dbs[Live].input
      /\ new(S).memo = dbs[Live].memo /\ new(S).cancel = dbs[Live].cancel
  <2> HIDE DEF over
  <2> QED BY <1>3, <1>5 DEF Databases
<1>7. \A p \in Paths : over(S)[p] = IF p \in S THEN ver + 1 ELSE dbs[Live].overlay[p]
  OBVIOUS
<1> HIDE DEF over, new
<1>8. /\ dbs' \in Seq(Databases) /\ Live' = Live /\ dbs'[Live] = new(S)
      /\ \A e \in 1..Live \ {Live} : dbs'[e] = dbs[e]
  BY <1>2, <1>3, <1>4, <1>6, Replaced DEF Live
<1>9. Gen' = Gen
  BY <1>1 DEF Gen, Rev
<1>10. Types'
  BY <1>1, <1>2, <1>8 DEF Types, Rev, Writing
<1>11. \A u \in Threads : pc[u] \notin Writing
  BY <1>1, HeadViewAssumption DEF HeadViewInv, LockInv
<1>12. LockInv' /\ Staging' /\ ~Deriving'
  BY <1>1, <1>2, <1>11 DEF Types, LockInv, Staging, Deriving, Writing
<1>13. HandleInv'
  BY <1>1, <1>2, <1>8, <1>12 DEF HeadViewInv, Types, HandleInv
<1>14. CancelInv'
  <2>1. \A e \in 1..Live : ~dbs[e].cancel
    BY <1>2 DEF HeadViewInv, CancelInv
  <2> QED BY <1>2, <1>6, <1>8, <2>1 DEF CancelInv
<1>15. \A p \in Paths : dbs[Live].overlay[p] = Gen[p] /\ Gen[p] \in Nat /\ dbs[Live].input[p] \in Nat
  BY <1>2, <1>3 DEF HeadViewInv, MemoInv, Databases, Versions
<1>16. VersionInv'
  <2>1. ver \in Nat /\ \A p \in Paths : Gen[p] <= ver /\ dbs[Live].input[p] <= ver
    BY <1>2 DEF HeadViewInv, Types, VersionInv
  <2>2. \A p \in Paths : over(S)[p] <= ver + 1
    BY <1>7, <1>15, <2>1
  <2>3. \A p \in Paths : Gen[p] <= ver + 1 /\ dbs[Live].input[p] <= ver + 1
    BY <1>15, <2>1
  <2> QED BY <1>1, <1>6, <1>8, <1>9, <2>2, <2>3 DEF VersionInv
<1>17. MemoInv'
  <2>1. \A p \in Paths \ tainted[Live] :
           /\ dbs[Live].input[p] = Gen[p]
           /\ dbs[Live].memo[p] \in {None, Gen[p]}
    BY <1>2, <1>15 DEF HeadViewInv, MemoInv
  <2>2. \A p \in tainted[Live] : dbs[Live].input[p] # Gen[p] /\ dbs[Live].input[p] # over(S)[p]
    BY <1>2, <1>3, <1>7, <1>15 DEF HeadViewInv, Types, VersionInv, MemoInv
  <2> QED BY <1>1, <1>6, <1>8, <1>9, <1>12, <2>1, <2>2 DEF MemoInv
<1>19. RetryInv'
  BY <1>1, <1>2, <1>6, <1>8 DEF HeadViewInv, Types, RetryInv, Reading, NotCalled
<1> QED BY <1>10, <1>12, <1>13, <1>14, <1>16, <1>17, <1>19 DEF HeadViewInv

(* The flag goes up. *)
LEMMA CancelStep ==
    ASSUME HeadViewInv, NEW t \in Threads, WriteCancel(t)
    PROVE  HeadViewInv'
<1> DEFINE new == [dbs[Live] EXCEPT !.cancel = TRUE]
<1>1. /\ pc[t] = "apply" /\ pc' = [pc EXCEPT ![t] = "drain"]
      /\ UNCHANGED <<store, ver, lock, clone, got, tries, pinned, tainted, applied, since>>
  BY DEF WriteCancel, Goto, history
<1>2. Types /\ Staging /\ ~Deriving /\ lock = t /\ \A u \in Threads \ {t} : pc[u] \notin Writing
  BY <1>1, OneWriter DEF HeadViewInv, Writing
<1>3. /\ Live \in Nat /\ Live > 0 /\ Live \in 1..Live /\ Gen \in Versions
      /\ dbs[Live] \in Databases
  BY <1>2, LiveTyped
<1>4. dbs' = [dbs EXCEPT ![Live] = new]
  BY <1>2, <1>3 DEF WriteCancel, Types, Live
<1>5. /\ new \in Databases /\ new.overlay = dbs[Live].overlay /\ new.input = dbs[Live].input
      /\ new.memo = dbs[Live].memo /\ new.cancel = TRUE
  BY <1>3 DEF Databases
<1> HIDE DEF new
<1>6. /\ dbs' \in Seq(Databases) /\ Live' = Live /\ dbs'[Live] = new
      /\ \A e \in 1..Live \ {Live} : dbs'[e] = dbs[e]
  BY <1>2, <1>3, <1>4, <1>5, Replaced DEF Live
<1>7. Gen' = Gen
  BY <1>1 DEF Gen, Rev
<1>8. Types'
  BY <1>1, <1>2, <1>6 DEF Types, Rev, Writing
<1>9. LockInv' /\ Staging' /\ ~Deriving'
  BY <1>1, <1>2 DEF HeadViewInv, Types, LockInv, Staging, Deriving, Writing
<1>10. HandleInv'
  BY <1>1, <1>2, <1>6, <1>9 DEF HeadViewInv, Types, HandleInv
<1>11. CancelInv'
  <2>1. pc'[t] = "drain"
    BY <1>1, <1>2 DEF Types
  <2>2. \A e \in 1..Live \ {Live} : ~dbs[e].cancel
    BY DEF HeadViewInv, CancelInv
  <2> QED BY <1>6, <2>1, <2>2 DEF CancelInv
<1>12. VersionInv' /\ MemoInv'
  BY <1>1, <1>2, <1>5, <1>6, <1>7, <1>9 DEF HeadViewInv, VersionInv, MemoInv
<1>14. RetryInv'
  <2>1. ~dbs[Live].cancel
    BY <1>1, <1>2, <1>3 DEF HeadViewInv, CancelInv, Writing
  <2>2. \A u \in Threads :
           /\ since[u].applied <= applied
           /\ pc'[u] \notin Reading => tries[u] = 0
           /\ pc'[u] \in Reading => tries[u] <= applied - since[u].applied
    BY <1>1, <1>2, <2>1 DEF HeadViewInv, Types, RetryInv, Reading, NotCalled
  <2>3. \A u \in Threads : applied - since[u].applied <= applied - since[u].applied + 1
    BY <1>2 DEF Types
  <2> HIDE DEF Reading
  <2>4. dbs'[Live'].cancel = TRUE
    BY <1>5, <1>6
  <2>5. \A u \in Threads : tries[u] \in Nat /\ applied - since[u].applied \in Int
    BY <1>2 DEF Types
  <2> QED BY <1>1, <2>2, <2>3, <2>4, <2>5 DEF RetryInv, Reading, NotCalled
<1> QED BY <1>8, <1>9, <1>10, <1>11, <1>12, <1>14 DEF HeadViewInv

(* The changes are applied once nobody has a handle: every file the engine read at
   another version than the overlay's loses its memo. *)
LEMMA ApplyStep ==
    ASSUME HeadViewInv, NEW t \in Threads, WriteApply(t)
    PROVE  HeadViewInv'
<1> DEFINE o == dbs[Live].overlay
           i == dbs[Live].input
           m == dbs[Live].memo
<1>1. /\ pc[t] = "drain" /\ pc' = [pc EXCEPT ![t] = "derive"] /\ applied' = applied + 1
      /\ \A u \in Threads : clone[u] # Live
      /\ UNCHANGED <<store, ver, lock, clone, got, tries, pinned, since>>
  BY DEF WriteApply, Goto, Drained, Clones
<1>2. Types /\ Staging /\ ~Deriving /\ lock = t /\ \A u \in Threads \ {t} : pc[u] \notin Writing
  BY <1>1, OneWriter DEF HeadViewInv, Writing
<1>3. /\ Live \in Nat /\ Live > 0 /\ Live \in 1..Live /\ Gen \in Versions
      /\ dbs[Live] \in Databases
  BY <1>2, LiveTyped
<1>4. PICK events \in {Staged, Paths} : /\ dbs' = [dbs EXCEPT ![Live] = Applied(@, events)]
                                        /\ tainted' = [tainted EXCEPT ![Live] = @ \ events]
  BY DEF WriteApply
<1>t. /\ tainted' \in Seq(SUBSET Paths) /\ Len(tainted') = Live
      /\ tainted'[Live] = tainted[Live] \ events /\ tainted[Live] \subseteq Paths
  BY <1>2, <1>3, <1>4 DEF Types
<1> DEFINE i2 == [p \in Paths |-> IF p \in events THEN o[p] ELSE i[p]]
           m2 == [p \in Paths |-> IF p \in events /\ i[p] # o[p] THEN None ELSE m[p]]
           new == [dbs[Live] EXCEPT !.cancel = FALSE, !.input = i2, !.memo = m2]
<1>5. dbs' = [dbs EXCEPT ![Live] = new]
  <2>1. Applied(dbs[Live], events) = new
    BY <1>3 DEF Applied, Databases
  <2> QED BY <1>2, <1>3, <1>4, <2>1 DEF Types, Live
<1>6. i2 \in Versions /\ m2 \in Memos
  BY <1>3 DEF Databases, Versions, Memos
<1>7. \A p \in Paths : /\ i2[p] = IF p \in events THEN o[p] ELSE i[p]
                       /\ m2[p] = IF p \in events /\ i[p] # o[p] THEN None ELSE m[p]
  OBVIOUS
<1> HIDE DEF i2, m2
<1>8. new \in Databases /\ new.overlay = o /\ new.input = i2 /\ new.memo = m2 /\ new.cancel = FALSE
  BY <1>3, <1>6 DEF Databases
<1> HIDE DEF new
<1>9. /\ dbs' \in Seq(Databases) /\ Live' = Live /\ dbs'[Live] = new
      /\ \A e \in 1..Live \ {Live} : dbs'[e] = dbs[e]
  BY <1>2, <1>3, <1>5, <1>8, Replaced DEF Live
<1>10. Gen' = Gen
  BY <1>1 DEF Gen, Rev
<1>11. Types'
  BY <1>1, <1>2, <1>9, <1>t DEF Types, Rev, Writing
<1>12. LockInv' /\ ~Staging' /\ Deriving'
  BY <1>1, <1>2 DEF HeadViewInv, Types, LockInv, Staging, Deriving, Writing
<1>13. HandleInv'
  BY <1>1, <1>2, <1>9 DEF HeadViewInv, Types, HandleInv
<1>14. CancelInv'
  <2>1. \A e \in 1..Live \ {Live} : ~dbs[e].cancel
    BY DEF HeadViewInv, CancelInv
  <2> QED BY <1>8, <1>9, <2>1 DEF CancelInv
<1>15. \A p \in Paths : Gen[p] \in Nat /\ o[p] \in Nat /\ i[p] \in Nat
  BY <1>3 DEF Databases, Versions
<1>16. VersionInv'
  BY <1>1, <1>7, <1>8, <1>9, <1>10 DEF HeadViewInv, VersionInv
<1>17. MemoInv'
  <2>1. \A p \in Paths \ events : o[p] = Gen[p]
    BY <1>4 DEF Staged
  <2>2. \A p \in Paths \ tainted'[Live] : i2[p] = o[p] /\ m2[p] \in {None, o[p]}
    <3> SUFFICES ASSUME NEW p \in Paths, p \notin tainted[Live] \/ p \in events
                 PROVE  i2[p] = o[p] /\ m2[p] \in {None, o[p]}
      BY <1>t
    <3>1. CASE p \in tainted[Live]
      BY <1>2, <1>7, <3>1 DEF HeadViewInv, MemoInv
    <3>2. CASE p \notin tainted[Live]
      <4>1. i[p] = Gen[p] /\ m[p] \in {None, Gen[p], o[p]}
        BY <1>2, <3>2 DEF HeadViewInv, MemoInv
      <4> QED BY <1>7, <2>1, <4>1
    <3> QED BY <3>1, <3>2
  <2>3. \A p \in tainted'[Live] : p \in Paths /\ i2[p] # Gen[p] /\ o[p] = Gen[p]
    BY <1>2, <1>t, <1>7, <2>1 DEF HeadViewInv, Types, MemoInv
  <2> QED BY <1>8, <1>9, <1>10, <1>12, <2>2, <2>3 DEF MemoInv
<1>19. RetryInv'
  <2>1. \A u \in Threads :
           /\ since[u].applied <= applied
           /\ pc'[u] \notin Reading => tries[u] = 0
           /\ pc'[u] \in Reading => tries[u] <= applied - since[u].applied + 1
    <3>1. CASE dbs[Live].cancel
      BY <1>1, <1>2, <3>1 DEF HeadViewInv, Types, RetryInv, Reading, NotCalled
    <3>2. CASE ~dbs[Live].cancel
      BY <1>1, <1>2, <3>2 DEF HeadViewInv, Types, RetryInv, Reading, NotCalled
    <3> QED BY <3>1, <3>2
  <2>2. applied \in Nat /\ \A u \in Threads : tries[u] \in Nat /\ since[u].applied \in Nat
    BY <1>2 DEF Types
  <2>3. ~dbs'[Live'].cancel
    BY <1>8, <1>9
  <2> QED BY <1>1, <2>1, <2>2, <2>3 DEF RetryInv, Reading, NotCalled
<1> QED BY <1>11, <1>12, <1>13, <1>14, <1>16, <1>17, <1>19 DEF HeadViewInv

(* A commit returns, published or rolled back: what the two have in common. *)
Returned(t) ==
    /\ pc' = [pc EXCEPT ![t] = "idle"] /\ got' = [got EXCEPT ![t] = NotRead]
    /\ tries' = [tries EXCEPT ![t] = 0] /\ since' = [since EXCEPT ![t] = NotCalled]
    /\ lock' = None /\ UNCHANGED <<ver, clone, pinned, applied>>
    /\ dbs' \in Seq(Databases) /\ Live' = Live
    /\ dbs'[Live].cancel = dbs[Live].cancel
    /\ \A e \in 1..Live \ {Live} : dbs'[e] = dbs[e]
    /\ store' \in Seq(Versions) /\ Rev' > 0
    /\ tainted' \in Seq(SUBSET Paths) /\ Len(tainted') = Live

(* What a commit that returns leaves behind: no handle or retry is disturbed. *)
LEMMA ReturnedInv ==
    ASSUME HeadViewInv, NEW t \in Threads, pc[t] = "derive", Returned(t)
    PROVE  /\ Types' /\ LockInv' /\ HandleInv' /\ CancelInv' /\ RetryInv'
           /\ ~Staging' /\ ~Deriving'
<1>1. Types /\ Deriving /\ lock = t /\ \A u \in Threads \ {t} : pc[u] \notin Writing
  BY OneWriter DEF HeadViewInv, Writing
<1>2. Live \in Nat /\ Live > 0 /\ Live \in 1..Live
  BY <1>1, LiveTyped
<1>3. NotRead \in Memos
  BY DEF NotRead, Memos
<1>4. Types'
  BY <1>1, <1>2, <1>3 DEF Types, Returned, NotCalled
<1>5. LockInv' /\ ~Staging' /\ ~Deriving'
  BY <1>1, HeadViewAssumption DEF Types, LockInv, Staging, Deriving, Writing, Returned
<1>6. \A u \in Threads : clone[u] # Live
  BY <1>1 DEF HeadViewInv, HandleInv
<1>7. HandleInv'
  BY <1>1, <1>5 DEF HeadViewInv, Types, HandleInv, Returned
<1>8. \A e \in 1..Live : ~dbs[e].cancel
  BY <1>1 DEF HeadViewInv, CancelInv, Writing
<1>9. CancelInv'
  BY <1>2, <1>8 DEF CancelInv, Returned
<1>11. RetryInv'
  BY <1>1, <1>2, <1>8 DEF HeadViewInv, Types, RetryInv, Reading, Returned, NotCalled
<1> QED BY <1>4, <1>5, <1>7, <1>9, <1>11

(* Publishing the revision makes the overlay the head's generation. *)
LEMMA CommitStep ==
    ASSUME HeadViewInv, NEW t \in Threads, WriteCommit(t)
    PROVE  HeadViewInv'
<1>1. /\ pc[t] = "derive" /\ store' = Append(store, dbs[Live].overlay)
      /\ tainted' = tainted /\ ver' = ver
  BY DEF WriteCommit
<1>2. Types /\ Deriving /\ ~Staging
  BY <1>1, OneWriter DEF HeadViewInv, Writing
<1>3. Live \in 1..Live /\ dbs[Live] \in Databases
  BY <1>2, LiveTyped
<1>4. PICK read \in SUBSET Paths : dbs' = Memoized(Live, read)
  BY DEF WriteCommit
<1>5. /\ dbs' \in Seq(Databases) /\ Live' = Live
      /\ \A e \in 1..Live \ {Live} : dbs'[e] = dbs[e]
      /\ dbs'[Live].overlay = dbs[Live].overlay /\ dbs'[Live].input = dbs[Live].input
      /\ dbs'[Live].cancel = dbs[Live].cancel
      /\ \A q \in Paths : dbs'[Live].memo[q] \in {dbs[Live].memo[q], Computed(Live, q)}
  BY <1>2, <1>3, <1>4, Queried DEF Live
<1>6. dbs[Live].overlay \in Versions
  BY <1>3 DEF Databases
<1>7. store' \in Seq(Versions) /\ Rev' > 0 /\ Gen' = dbs[Live].overlay
  BY <1>1, <1>2, <1>6 DEF Types, Gen, Rev
<1>8. Returned(t)
  BY <1>1, <1>2, <1>5, <1>7 DEF Returned, WriteCommit, Return, Goto, Types
<1>9. VersionInv'
  BY <1>1, <1>5, <1>7 DEF HeadViewInv, VersionInv
<1>10. ~Staging' /\ ~Deriving'
  BY <1>1, <1>8, ReturnedInv
<1>11. MemoInv'
  <2>1. \A p \in Paths \ tainted[Live] : /\ dbs[Live].input[p] = dbs[Live].overlay[p]
                                   /\ dbs[Live].memo[p] \in {None, dbs[Live].overlay[p]}
    BY <1>2 DEF HeadViewInv, MemoInv
  <2>2. \A p \in Paths \ tainted[Live] : dbs'[Live].memo[p] \in {None, dbs[Live].overlay[p]}
    BY <1>5, <2>1 DEF Computed
  <2>3. \A p \in tainted[Live] : dbs[Live].input[p] # dbs[Live].overlay[p]
    BY <1>2 DEF HeadViewInv, MemoInv
  <2> QED BY <1>1, <1>5, <1>7, <1>10, <2>1, <2>2, <2>3 DEF MemoInv
<1> QED BY <1>1, <1>8, <1>9, <1>11, ReturnedInv DEF HeadViewInv

(* The rollback puts the generation before back under the engine, which keeps what it
   read of the staged files: they are tainted. *)
LEMMA FailStep ==
    ASSUME HeadViewInv, NEW t \in Threads, WriteFail(t)
    PROVE  HeadViewInv'
<1>1. /\ pc[t] = "derive" /\ UNCHANGED <<store, ver>> 
      /\ tainted' = [tainted EXCEPT ![Live] = @ \cup Staged]
  BY DEF WriteFail
<1>2. Types /\ Deriving /\ ~Staging
  BY <1>1, OneWriter DEF HeadViewInv, Writing
<1>3. Live \in 1..Live /\ dbs[Live] \in Databases /\ Gen \in Versions
  BY <1>2, LiveTyped
<1>4. PICK read \in SUBSET Paths : dbs' = [Memoized(Live, read) EXCEPT ![Live].overlay = Gen]
  BY DEF WriteFail
<1> DEFINE mid == Memoized(Live, read)
<1>5. /\ mid \in Seq(Databases) /\ Len(mid) = Live
      /\ \A e \in 1..Live \ {Live} : mid[e] = dbs[e]
      /\ mid[Live].input = dbs[Live].input
      /\ mid[Live].cancel = dbs[Live].cancel
      /\ \A q \in Paths : mid[Live].memo[q] \in {dbs[Live].memo[q], Computed(Live, q)}
  BY <1>2, <1>3, Queried
<1> HIDE DEF mid
<1>6. mid[Live] \in Databases
  BY <1>3, <1>5
<1> DEFINE new == [mid[Live] EXCEPT !.overlay = Gen]
<1>7. /\ new \in Databases /\ new.overlay = Gen /\ new.input = dbs[Live].input
      /\ new.memo = mid[Live].memo /\ new.cancel = dbs[Live].cancel
  BY <1>3, <1>5, <1>6 DEF Databases
<1>8. dbs' = [mid EXCEPT ![Live] = new]
  BY <1>3, <1>4, <1>5 DEF mid
<1> HIDE DEF new
<1>9. /\ dbs' \in Seq(Databases) /\ Live' = Live /\ dbs'[Live] = new
      /\ \A e \in 1..Live \ {Live} : dbs'[e] = dbs[e]
  BY <1>3, <1>5, <1>7, <1>8 DEF Live
<1>10. Gen' = Gen /\ Rev' = Rev
  BY <1>1 DEF Gen, Rev
<1>11. /\ tainted' \in Seq(SUBSET Paths) /\ Len(tainted') = Live
       /\ tainted'[Live] = tainted[Live] \cup Staged
  BY <1>1, <1>2, <1>3 DEF Types, Staged
<1>12. Returned(t)
  BY <1>1, <1>2, <1>7, <1>9, <1>10, <1>11 DEF Returned, WriteFail, Return, Goto, Types
<1>13. ~Staging' /\ ~Deriving'
  BY <1>1, <1>12, ReturnedInv
<1>14. VersionInv'
  BY <1>1, <1>7, <1>9, <1>10 DEF HeadViewInv, VersionInv
<1>15. MemoInv'
  <2>1. \A p \in Paths \ tainted[Live] : /\ dbs[Live].input[p] = dbs[Live].overlay[p]
                                   /\ dbs[Live].memo[p] \in {None, dbs[Live].overlay[p]}
    BY <1>2 DEF HeadViewInv, MemoInv
  <2>2. \A p \in Paths \ tainted'[Live] : /\ new.input[p] = Gen[p]
                                    /\ new.memo[p] \in {None, Gen[p]}
    BY <1>5, <1>7, <1>11, <2>1 DEF Staged, Computed
  <2>3. \A p \in tainted[Live] : dbs[Live].input[p] # Gen[p]
    BY DEF HeadViewInv, MemoInv
  <2>4. \A p \in Staged : dbs[Live].input[p] # Gen[p]
    BY <2>1, <2>3 DEF Staged
  <2> QED BY <1>7, <1>9, <1>10, <1>11, <1>13, <2>2, <2>3, <2>4 DEF MemoInv
<1> QED BY <1>1, <1>12, <1>14, <1>15, ReturnedInv DEF HeadViewInv
-----------------------------------------------------------------------------
(* Every step of every thread keeps the invariant. *)
LEMMA NextInv == HeadViewInv /\ [Next]_vars => HeadViewInv'
<1> SUFFICES ASSUME HeadViewInv, [Next]_vars PROVE HeadViewInv'
  OBVIOUS
<1>1. CASE Next
  <2>1. PICK t \in Threads : Step(t) \/ \E op \in Ops : Enter(t, op)
    BY <1>1 DEF Next
  <2>2. CASE \E op \in Ops : Enter(t, op)
    BY <2>2, HeadViewAssumption, QuietStep DEF Entries
  <2>3. CASE Step(t)
    BY <2>3, QuietStep, ComputeStep, LookupStep, AuthorStep, ReloadStep, PublishStep,
       CancelStep, ApplyStep, CommitStep, FailStep DEF Step
  <2> QED BY <2>1, <2>2, <2>3
<1>2. CASE UNCHANGED vars
  BY <1>2 DEF vars, state, threads, history, HeadViewInv, Types, LockInv, HandleInv, CancelInv,
     VersionInv, MemoInv, RetryInv, Staging, Deriving, Live, Rev, Gen
<1> QED BY <1>1, <1>2

-----------------------------------------------------------------------------
(* What the floating reads have. *)

(* A database is of a revision: the head's while it is the newest one's texts, an old
   one, which nobody writes to, in its overlay and in what is remembered of it, save for
   the files a rolled-back commit left behind. *)
OfRevision(d, r) ==
    IF d = Live THEN store[r] = Gen
    ELSE \A p \in Paths :
            /\ dbs[d].overlay[p] = store[r][p]
            /\ p \notin tainted[d] => dbs[d].memo[p] \in {None, store[r][p]}

(* A read computes on a database of the revision it cloned at, and has texts of it. *)
Reads(u) ==
    /\ from[u] \in 1..Rev
    /\ pc[u] \notin {"compute", "attach"} => got[u] = NotRead
    /\ \A p \in Paths \ dirtied[u] : got[u][p] \in {None, store[from[u]][p]}
    /\ pc[u] = "compute" => OfRevision(clone[u], from[u])

ReadInv ==
    /\ from \in [Threads -> Nat] /\ dirtied \in [Threads -> SUBSET Paths]
    /\ \A u \in Threads : Reads(u)

(* What a step must keep for the reads of the other threads. *)
DbStep ==
    /\ Rev' >= Rev /\ \A r \in 1..Rev : store'[r] = store[r]
    /\ \A u \in Threads, d \in 1..Live, r \in 1..Rev :
          pc[u] = "compute" /\ clone[u] = d /\ OfRevision(d, r) => OfRevision(d, r)'

(* A step that adds at most a revision, and memos of what the overlay serves to the old
   databases. *)
LEMMA DbStepFrom ==
    ASSUME Types, Live' = Live, Rev' >= Rev, \A r \in 1..Rev : store'[r] = store[r],
           \/ Gen' = Gen
           \/ \A u \in Threads : clone[u] # Live,
           \A e \in 1..Live : e # Live =>
              /\ tainted'[e] = tainted[e]
              /\ \A p \in Paths :
                    /\ dbs'[e].overlay[p] = dbs[e].overlay[p]
                    /\ dbs'[e].memo[p] \in {dbs[e].memo[p], dbs[e].overlay[p]}
    PROVE  DbStep
<1> SUFFICES ASSUME NEW u \in Threads, NEW d \in 1..Live, NEW r \in 1..Rev,
                    pc[u] = "compute", clone[u] = d, OfRevision(d, r)
             PROVE  OfRevision(d, r)'
  BY DEF DbStep
<1>1. CASE d = Live
  <2>1. store'[r] = Gen'
    BY <1>1 DEF OfRevision
  <2> QED BY <1>1, <2>1 DEF OfRevision
<1>2. CASE d # Live
  <2>1. \A p \in Paths :
           /\ dbs[d].overlay[p] = store[r][p]
           /\ p \notin tainted[d] => dbs[d].memo[p] \in {None, store[r][p]}
    BY <1>2 DEF OfRevision
  <2>2. /\ tainted'[d] = tainted[d]
        /\ \A p \in Paths :
                    /\ dbs'[d].overlay[p] = dbs[d].overlay[p]
                    /\ dbs'[d].memo[p] \in {dbs[d].memo[p], dbs[d].overlay[p]}
    BY <1>2
  <2>3. store'[r] = store[r]
    OBVIOUS
  <2>4. \A p \in Paths :
           /\ dbs'[d].overlay[p] = store'[r][p]
           /\ p \notin tainted'[d] => dbs'[d].memo[p] \in {None, store'[r][p]}
    BY <2>1, <2>2, <2>3
  <2> QED BY <1>2, <2>4 DEF OfRevision
<1> QED BY <1>1, <1>2

(* The reads of the threads that do not step are kept. *)
LEMMA OthersRead ==
    ASSUME HeadViewInv, ReadInv, DbStep, NEW t \in Threads,
           from' \in [Threads -> Nat], dirtied' \in [Threads -> SUBSET Paths], Rev' \in Nat,
           \A u \in Threads \ {t} :
              /\ pc'[u] = pc[u] /\ clone'[u] = clone[u] /\ got'[u] = got[u]
              /\ from'[u] = from[u] /\ dirtied'[u] = dirtied[u],
           Reads(t)'
    PROVE  ReadInv'
<1> SUFFICES ASSUME NEW u \in Threads \ {t} PROVE Reads(u)'
  BY DEF ReadInv
<1>0. Reads(u)
  BY DEF ReadInv
<1>1. Rev \in Nat /\ from[u] \in 1..Rev
  BY <1>0 DEF Reads, HeadViewInv, Types, Rev
<1>2. /\ pc'[u] = pc[u] /\ clone'[u] = clone[u] /\ got'[u] = got[u]
      /\ from'[u] = from[u] /\ dirtied'[u] = dirtied[u]
  OBVIOUS
<1>3. from[u] \in 1..Rev' /\ store'[from[u]] = store[from[u]]
  BY <1>1 DEF DbStep
<1>4. NotRead' = NotRead
  BY DEF NotRead
<1>5. pc[u] = "compute" => OfRevision(clone[u], from[u])'
  <2> SUFFICES ASSUME pc[u] = "compute" PROVE OfRevision(clone[u], from[u])'
    OBVIOUS
  <2>1. clone[u] \in 1..Live /\ OfRevision(clone[u], from[u])
    BY <1>0 DEF HeadViewInv, HandleInv, Reads
  <2>2. PICK d \in 1..Live : d = clone[u]
    BY <2>1
  <2>3. PICK r \in 1..Rev : r = from[u]
    BY <1>1
  <2>4. OfRevision(d, r)'
    BY <2>1, <2>2, <2>3 DEF DbStep
  <2> QED BY <1>2, <2>2, <2>3, <2>4 DEF OfRevision
<1> QED BY <1>0, <1>1, <1>2, <1>3, <1>4, <1>5 DEF Reads

(* A call that returns leaves nothing. *)
LEMMA Ended ==
    ASSUME HeadViewInv, NEW t \in Threads, Rev' \in Nat, Rev' >= Rev, Return(t),
           ReadInv
    PROVE  /\ from' \in [Threads -> Nat] /\ dirtied' \in [Threads -> SUBSET Paths]
           /\ \A u \in Threads \ {t} :
                 /\ pc'[u] = pc[u] /\ got'[u] = got[u]
                 /\ from'[u] = from[u] /\ dirtied'[u] = dirtied[u]
           /\ Reads(t)'
<1>1. /\ pc' = [pc EXCEPT ![t] = "idle"] /\ got' = [got EXCEPT ![t] = NotRead]
      /\ from' = [from EXCEPT ![t] = 1] /\ dirtied' = [dirtied EXCEPT ![t] = {}]
  BY DEF Return, Goto
<1>2. Types /\ Rev \in Nat /\ Rev > 0
  BY DEF HeadViewInv, Types, Rev
<1>3. pc'[t] = "idle" /\ got'[t] = NotRead /\ from'[t] = 1 /\ dirtied'[t] = {}
  BY <1>1, <1>2 DEF Types, ReadInv
<1>4. NotRead' = NotRead /\ \A p \in Paths : NotRead[p] = None
  BY DEF NotRead
<1>5. Reads(t)'
  BY <1>2, <1>3, <1>4 DEF Reads
<1> QED BY <1>1, <1>2, <1>5 DEF Types, ReadInv

(* A step of a thread that has computed nothing, into a place where it may have. *)
LEMMA NothingRead ==
    ASSUME HeadViewInv, ReadInv, NEW t \in Threads, Rev' = Rev,
           pc[t] \notin {"compute", "attach"}, pc'[t] # "compute", got' = got,
           UNCHANGED <<from, dirtied>>
    PROVE  Reads(t)'
<1>1. Reads(t)
  BY DEF ReadInv
<1>2. NotRead' = NotRead /\ \A p \in Paths : NotRead[p] = None
  BY DEF NotRead
<1> QED BY <1>1, <1>2 DEF Reads

(* The steps of calls that leave the head and its databases alone. *)
LEMMA QuietReads ==
    ASSUME HeadViewInv, ReadInv, NEW t \in Threads,
           \/ \E op \in Entries : Enter(t, op)
           \/ FindClosed(t) \/ Snapshot(t) \/ ReadPinned(t) \/ Release(t) \/ Close(t)
           \/ Detach(t) \/ CloneHead(t) \/ Finish(t) \/ Unwind(t) \/ Attach(t)
    PROVE  ReadInv'
<1>1. UNCHANGED <<store, dbs, tainted>>
  BY Zenon DEF Enter, FindClosed, Snapshot, ReadPinned, Release, Close, Detach, CloneHead,
     Finish, Unwind, Attach, state, history
<1>2. Types /\ Rev' = Rev /\ Rev \in Nat /\ Rev > 0 /\ Live' = Live /\ Gen' = Gen
  BY <1>1 DEF HeadViewInv, Types, Rev, Live, Gen
<1>3. DbStep
  BY <1>1, <1>2 DEF DbStep, OfRevision
<1>4. \A p \in Paths : NotRead[p] = None
  BY DEF NotRead
<1>5. CASE FindClosed(t) \/ Snapshot(t) \/ Release(t) \/ Close(t) \/ Attach(t)
  <2>1. Return(t)
    BY <1>5 DEF FindClosed, Snapshot, Release, Close, Attach
  <2>2. \A u \in Threads \ {t} : clone'[u] = clone[u]
    BY <1>2, <1>5 DEF FindClosed, Snapshot, Release, Close, Attach, Types
  <2> QED BY <1>2, <1>3, <2>1, <2>2, Ended, OthersRead
<1>6. CASE (\E op \in Entries : Enter(t, op)) \/ ReadPinned(t) \/ Detach(t)
  <2>1. /\ got' = got /\ UNCHANGED <<from, dirtied>>
        /\ pc[t] \notin {"compute", "attach"} /\ pc'[t] # "compute"
        /\ \A u \in Threads \ {t} : pc'[u] = pc[u] /\ clone'[u] = clone[u]
    <3>1. CASE \E op \in Entries : Enter(t, op)
      BY <1>2, <3>1 DEF Enter, Goto, Types, Entries
    <3>2. CASE ReadPinned(t)
      BY <1>2, <3>2 DEF ReadPinned, Goto, Types, history
    <3>3. CASE Detach(t)
      BY <1>2, <3>3 DEF Detach, Goto, Types, history
    <3> QED BY <1>6, <3>1, <3>2, <3>3
  <2> QED BY <1>2, <1>3, <2>1, NothingRead, OthersRead DEF ReadInv
<1>7. CASE CloneHead(t)
  <2>1. /\ pc[t] = "clone" /\ got' = got /\ from' = [from EXCEPT ![t] = Rev]
        /\ dirtied' = [dirtied EXCEPT ![t] = {}]
    BY <1>7 DEF CloneHead
  <2>2. /\ \/ clone' = [clone EXCEPT ![t] = Live] /\ pc' = [pc EXCEPT ![t] = "compute"]
           \/ clone' = clone /\ pc' = [pc EXCEPT ![t] = "attach"]
    BY <1>7 DEF CloneHead, Goto
  <2>3. got[t] = NotRead
    BY <2>1 DEF ReadInv, Reads
  <2>4. pc'[t] = "compute" => clone'[t] = Live
    BY <1>2, <2>2 DEF Types
  <2>5. pc'[t] \in {"compute", "attach"} /\ from'[t] = Rev
    BY <1>2, <2>1, <2>2 DEF Types, ReadInv
  <2>6. pc'[t] = "compute" => OfRevision(clone[t], from[t])'
    BY <1>1, <1>2, <2>4, <2>5 DEF OfRevision, Gen
  <2>7. Reads(t)'
    BY <1>2, <1>4, <2>1, <2>3, <2>5, <2>6 DEF Reads
  <2>8. \A u \in Threads \ {t} :
              /\ pc'[u] = pc[u] /\ clone'[u] = clone[u] /\ got'[u] = got[u]
              /\ from'[u] = from[u] /\ dirtied'[u] = dirtied[u]
    BY <1>2, <2>1, <2>2 DEF Types, ReadInv
  <2>9. from' \in [Threads -> Nat] /\ dirtied' \in [Threads -> SUBSET Paths]
    BY <1>2, <2>1 DEF ReadInv
  <2> QED BY <1>2, <1>3, <2>7, <2>8, <2>9, OthersRead
<1>8. CASE Finish(t)
  <2>1. /\ pc[t] = "compute" /\ got' = got /\ UNCHANGED <<from, dirtied>>
        /\ clone' = [clone EXCEPT ![t] = 0] /\ pc' = [pc EXCEPT ![t] = "attach"]
    BY <1>8 DEF Finish, Goto, history
  <2>2. Reads(t) /\ pc'[t] = "attach"
    BY <1>2, <2>1 DEF ReadInv, Types
  <2>3. Reads(t)'
    BY <1>1, <1>2, <2>1, <2>2 DEF Reads
  <2> QED BY <1>2, <1>3, <2>1, <2>3, OthersRead DEF ReadInv, Types
<1>9. CASE Unwind(t)
  <2>1. /\ got' = [got EXCEPT ![t] = NotRead] /\ UNCHANGED <<from, dirtied>>
        /\ clone' = [clone EXCEPT ![t] = 0]
    BY <1>9 DEF Unwind, history
  <2>2. PICK at \in {"attach", "clone"} : pc' = [pc EXCEPT ![t] = at]
    BY <1>9 DEF Unwind, Goto
  <2>3. Reads(t) /\ pc'[t] # "compute" /\ got'[t] = NotRead
    BY <1>2, <2>1, <2>2 DEF ReadInv, Types
  <2>4. NotRead' = NotRead
    BY DEF NotRead
  <2>5. Reads(t)'
    BY <1>1, <1>2, <1>4, <2>1, <2>3, <2>4 DEF Reads
  <2> QED BY <1>2, <1>3, <2>1, <2>2, <2>5, OthersRead DEF ReadInv, Types
<1> QED BY <1>5, <1>6, <1>7, <1>8, <1>9

(* A query: off the files that are unsure, the database serves the revision's text. *)
LEMMA ComputeReads ==
    ASSUME HeadViewInv, ReadInv, NEW t \in Threads, Compute(t)
    PROVE  ReadInv'
<1> DEFINE d == clone[t]
           r == from[t]
<1>1. PICK p \in Paths : /\ got' = [got EXCEPT ![t][p] = Computed(d, p)]
                         /\ dbs' = Memoized(d, {p})
                         /\ dirtied' = [dirtied EXCEPT ![t] = @ \cup ({p} \cap Unsure(d))]
  BY DEF Compute
<1>2. /\ pc[t] = "compute" /\ Types /\ d \in 1..Live
      /\ UNCHANGED <<store, pc, clone, tainted, from>>
  BY DEF Compute, HeadViewInv, HandleInv
<1>3. /\ Live' = Live /\ Rev' = Rev /\ Gen' = Gen /\ Rev \in Nat
      /\ \A e \in 1..Live \ {d} : dbs'[e] = dbs[e]
      /\ dbs'[d].overlay = dbs[d].overlay
      /\ \A q \in Paths : dbs'[d].memo[q] = IF q = p THEN Computed(d, q) ELSE dbs[d].memo[q]
  <2>1. Rev' = Rev /\ Gen' = Gen /\ Rev \in Nat
    BY <1>2 DEF Gen, Rev, Types
  <2>2. /\ Live' = Live
        /\ \A e \in 1..Live \ {d} : dbs'[e] = dbs[e]
        /\ dbs'[d].overlay = dbs[d].overlay
        /\ \A q \in Paths : dbs'[d].memo[q] = IF q = p THEN Computed(d, q) ELSE dbs[d].memo[q]
    BY <1>1, <1>2, Queried DEF Live
  <2> QED BY <2>1, <2>2
<1>4. \A q \in Paths : Computed(d, q) \in {dbs[d].memo[q], dbs[d].overlay[q]}
  BY DEF Computed
<1>5. \A e \in 1..Live : \A q \in Paths :
         /\ dbs'[e].overlay[q] = dbs[e].overlay[q]
         /\ dbs'[e].memo[q] \in {dbs[e].memo[q], dbs[e].overlay[q]}
  <2> HIDE DEF d
  <2> QED BY <1>3, <1>4
<1>6. DbStep
  BY <1>2, <1>3, <1>5, DbStepFrom
<1>7. Reads(t) /\ r \in 1..Rev /\ OfRevision(d, r)
  BY <1>2 DEF ReadInv, Reads
<1>8. p \notin Unsure(d) => Computed(d, p) = store[r][p]
  <2> SUFFICES ASSUME p \notin Unsure(d) PROVE Computed(d, p) = store[r][p]
    OBVIOUS
  <2>1. CASE d = Live
    <3>1. p \notin tainted[Live] /\ dbs[Live].overlay[p] = Gen[p] /\ store[r] = Gen
      BY <1>7, <2>1 DEF Unsure, Staged, OfRevision
    <3>2. ~Deriving
      BY <1>2, <2>1 DEF HeadViewInv, HandleInv
    <3>3. dbs[Live].memo[p] \in {None, Gen[p]}
      BY <3>1, <3>2 DEF HeadViewInv, MemoInv
    <3> QED BY <2>1, <3>1, <3>3 DEF Computed
  <2>2. CASE d # Live
    <3>1. p \notin tainted[d]
      BY DEF Unsure
    <3>2. dbs[d].overlay[p] = store[r][p] /\ dbs[d].memo[p] \in {None, store[r][p]}
      BY <1>7, <2>2, <3>1 DEF OfRevision
    <3> QED BY <3>2 DEF Computed
  <2> QED BY <2>1, <2>2
<1>9. /\ dirtied' \in [Threads -> SUBSET Paths]
      /\ dirtied'[t] = dirtied[t] \cup ({p} \cap Unsure(d))
      /\ \A u \in Threads \ {t} : dirtied'[u] = dirtied[u]
  BY <1>1 DEF ReadInv
<1>10. /\ \A q \in Paths : got'[t][q] = IF q = p THEN Computed(d, p) ELSE got[t][q]
       /\ \A u \in Threads \ {t} : got'[u] = got[u]
  BY <1>1, <1>2 DEF Types, Memos
<1>11. OfRevision(clone[t], from[t])'
  <2>1. PICK dd \in 1..Live : dd = d
    BY <1>2
  <2>2. PICK rr \in 1..Rev : rr = r
    BY <1>7
  <2>3. OfRevision(dd, rr)'
    BY <1>2, <1>6, <1>7, <2>1, <2>2 DEF DbStep
  <2> QED BY <1>2, <2>1, <2>2, <2>3 DEF OfRevision
<1>12. \A q \in Paths \ dirtied'[t] : got'[t][q] \in {None, store[r][q]}
  <2> SUFFICES ASSUME NEW q \in Paths \ dirtied'[t] PROVE got'[t][q] \in {None, store[r][q]}
    OBVIOUS
  <2>1. CASE q = p
    BY <1>8, <1>9, <1>10, <2>1
  <2>2. CASE q # p
    <3>1. q \in Paths \ dirtied[t]
      BY <1>9
    <3>2. got[t][q] \in {None, store[r][q]}
      BY <1>7, <3>1 DEF Reads
    <3> QED BY <1>10, <2>2, <3>2
  <2> QED BY <2>1, <2>2
<1>13. Reads(t)'
  BY <1>2, <1>3, <1>7, <1>11, <1>12 DEF Reads
<1> QED BY <1>2, <1>3, <1>6, <1>9, <1>10, <1>13, OthersRead DEF ReadInv

(* The calls that take the mutex and return, and the steps of a commit: only the head's
   database changes, and a revision is published when nobody has a handle on it. *)
LEMMA HeadReads ==
    ASSUME HeadViewInv, ReadInv, NEW t \in Threads,
           \/ Lookup(t) \/ Author(t) \/ WriteCommit(t) \/ WriteFail(t)
           \/ WritePublish(t) \/ WriteCancel(t) \/ WriteApply(t)
    PROVE  ReadInv'
<1>1. Types /\ Live \in 1..Live /\ Rev \in Nat /\ Rev > 0 /\ dbs[Live] \in Databases /\ Gen \in Versions
  BY LiveTyped DEF HeadViewInv, Types, Rev
<1>2. \A S \in SUBSET Paths :
         /\ Memoized(Live, S) \in Seq(Databases) /\ Len(Memoized(Live, S)) = Live
         /\ \A e \in 1..Live \ {Live} : Memoized(Live, S)[e] = dbs[e]
  BY <1>1, Queried
<1> DEFINE Kept == /\ Live' = Live
                   /\ \A e \in 1..Live : e # Live => tainted'[e] = tainted[e] /\ dbs'[e] = dbs[e]
<1>3. Kept
  <2>1. CASE Lookup(t)
    BY <1>1, <1>2, <2>1 DEF Lookup, Live
  <2>2. CASE Author(t)
    BY <2>2 DEF Author, Live
  <2>3. CASE WriteCommit(t)
    BY <1>1, <1>2, <2>3 DEF WriteCommit, Live
  <2>4. CASE WriteFail(t)
    <3>1. PICK S \in SUBSET Paths : dbs' = [Memoized(Live, S) EXCEPT ![Live].overlay = Gen]
      BY <2>4 DEF WriteFail
    <3>2. tainted' = [tainted EXCEPT ![Live] = @ \cup Staged]
      BY <2>4 DEF WriteFail
    <3>3. /\ Memoized(Live, S) \in Seq(Databases) /\ Len(Memoized(Live, S)) = Live
          /\ \A e \in 1..Live \ {Live} : Memoized(Live, S)[e] = dbs[e]
      BY <1>2
    <3>4. Len(dbs') = Live /\ \A e \in 1..Live : e # Live => dbs'[e] = dbs[e]
      BY <3>1, <3>3
    <3>5. \A e \in 1..Live : e # Live => tainted'[e] = tainted[e]
      BY <1>1, <3>2 DEF Types
    <3> QED BY <3>4, <3>5 DEF Live
  <2>5. CASE WritePublish(t)
    <3>1. PICK x : dbs' = [dbs EXCEPT ![Live] = x]
      BY <1>1, <2>5 DEF WritePublish, Types, Live
    <3>2. tainted' = tainted
      BY <2>5 DEF WritePublish, history
    <3> QED BY <1>1, <3>1, <3>2 DEF Types, Live
  <2>6. CASE WriteCancel(t)
    BY <1>1, <2>6 DEF WriteCancel, Types, Live, history
  <2>7. CASE WriteApply(t)
    <3>1. PICK ev : /\ dbs' = [dbs EXCEPT ![Live] = Applied(@, ev)]
                    /\ tainted' = [tainted EXCEPT ![Live] = @ \ ev]
      BY <2>7 DEF WriteApply
    <3> QED BY <1>1, <3>1 DEF Types, Live
  <2> QED BY <2>1, <2>2, <2>3, <2>4, <2>5, <2>6, <2>7
<1>4. \A e \in 1..Live : e # Live =>
              /\ tainted'[e] = tainted[e]
              /\ \A p \in Paths :
                    /\ dbs'[e].overlay[p] = dbs[e].overlay[p]
                    /\ dbs'[e].memo[p] \in {dbs[e].memo[p], dbs[e].overlay[p]}
  BY <1>3
<1>5. CASE Lookup(t) \/ Author(t) \/ WriteCommit(t) \/ WriteFail(t)
  <2>1. Return(t) /\ clone' = clone
    BY <1>5 DEF Lookup, Author, WriteCommit, WriteFail
  <2>2. /\ Rev' \in Nat /\ Rev' >= Rev /\ \A r \in 1..Rev : store'[r] = store[r]
        /\ Gen' = Gen \/ \A u \in Threads : clone[u] # Live
    <3>1. CASE Lookup(t) \/ WriteFail(t)
      BY <1>1, <3>1 DEF Lookup, WriteFail, Rev, Gen
    <3>2. CASE Author(t)
      <4>1. store' = Append(store, Gen)
        BY <3>2 DEF Author
      <4> QED BY <1>1, <4>1 DEF Types, Rev, Gen
    <3>3. CASE WriteCommit(t)
      <4>1. store' = Append(store, dbs[Live].overlay) /\ pc[t] = "derive"
        BY <3>3 DEF WriteCommit
      <4>2. dbs[Live].overlay \in Versions
        BY <1>1 DEF Databases
      <4>3. \A u \in Threads : clone[u] # Live
        BY <4>1 DEF HeadViewInv, HandleInv, Deriving
      <4> QED BY <1>1, <4>1, <4>2, <4>3 DEF Types, Rev
    <3> QED BY <1>5, <3>1, <3>2, <3>3
  <2>3. DbStep
    BY <1>1, <1>3, <1>4, <2>2, DbStepFrom
  <2> QED BY <2>1, <2>2, <2>3, Ended, OthersRead
<1>6. CASE WritePublish(t) \/ WriteCancel(t) \/ WriteApply(t)
  <2>1. /\ UNCHANGED <<store, clone, got, from, dirtied>>
        /\ pc[t] \notin {"compute", "attach"}
        /\ \/ pc' = [pc EXCEPT ![t] = "apply"]
           \/ pc' = [pc EXCEPT ![t] = "drain"]
           \/ pc' = [pc EXCEPT ![t] = "derive"]
    <3>1. CASE WritePublish(t)
      BY <3>1 DEF WritePublish, LockState, Locked, Goto, history
    <3>2. CASE WriteCancel(t)
      BY <3>2 DEF WriteCancel, Goto, history
    <3>3. CASE WriteApply(t)
      BY <3>3 DEF WriteApply, Goto
    <3> QED BY <1>6, <3>1, <3>2, <3>3
  <2>2. Rev' = Rev /\ Gen' = Gen
    BY <2>1 DEF Rev, Gen
  <2>3. DbStep
    BY <1>1, <1>3, <1>4, <2>1, <2>2, DbStepFrom
  <2>4. pc'[t] # "compute" /\ \A u \in Threads \ {t} : pc'[u] = pc[u]
    BY <1>1, <2>1 DEF Types
  <2>5. Reads(t)'
    BY <2>1, <2>2, <2>4, NothingRead
  <2> QED BY <1>1, <2>1, <2>2, <2>3, <2>4, <2>5, OthersRead DEF ReadInv
<1> QED BY <1>5, <1>6

(* reload: the database the reads hold becomes an old one, of the revision it served. *)
LEMMA ReloadReads ==
    ASSUME HeadViewInv, ReadInv, NEW t \in Threads, Reload(t)
    PROVE  ReadInv'
<1>1. /\ lock = None /\ dbs' = Append(dbs, Database(Gen)) /\ tainted' = Append(tainted, {})
      /\ Return(t) /\ UNCHANGED <<store, clone>>
  BY DEF Reload, LockState, Locked
<1>2. Types /\ ~Staging /\ ~Deriving
  BY <1>1, FreeNotCancelled DEF HeadViewInv
<1>3. /\ Live \in Nat /\ Live > 0 /\ Live' = Live + 1 /\ Rev' = Rev /\ Rev \in Nat /\ Gen' = Gen
      /\ \A e \in 1..Live : dbs'[e] = dbs[e] /\ tainted'[e] = tainted[e]
  <2>1. Live \in Nat /\ Live > 0 /\ Rev \in Nat /\ Rev' = Rev /\ Gen' = Gen
    BY <1>1, <1>2 DEF Types, Live, Rev, Gen
  <2>2. Live' = Live + 1 /\ \A e \in 1..Live : dbs'[e] = dbs[e]
    BY <1>1, <1>2 DEF Types, Live
  <2>3. \A e \in 1..Live : tainted'[e] = tainted[e]
    BY <1>1, <1>2, <2>1 DEF Types
  <2> QED BY <2>1, <2>2, <2>3
<1>4. \A p \in Paths :
         /\ dbs[Live].overlay[p] = Gen[p]
         /\ p \notin tainted[Live] => dbs[Live].memo[p] \in {None, Gen[p]}
  BY <1>2 DEF HeadViewInv, MemoInv
<1>5. DbStep
  <2> SUFFICES ASSUME NEW d \in 1..Live, NEW r \in 1..Rev, OfRevision(d, r)
               PROVE  OfRevision(d, r)'
    BY <1>1, <1>3 DEF DbStep
  <2>1. d # Live'
    BY <1>3
  <2>2. \A p \in Paths :
           /\ dbs[d].overlay[p] = store[r][p]
           /\ p \notin tainted[d] => dbs[d].memo[p] \in {None, store[r][p]}
    BY <1>4 DEF OfRevision
  <2> QED BY <1>1, <1>3, <2>1, <2>2 DEF OfRevision
<1> QED BY <1>1, <1>3, <1>5, Ended, OthersRead

(* Every step keeps what the reads have. *)
LEMMA ReadNext == HeadViewInv /\ ReadInv /\ [Next]_vars => ReadInv'
<1> SUFFICES ASSUME HeadViewInv, ReadInv, [Next]_vars PROVE ReadInv'
  OBVIOUS
<1>1. CASE Next
  <2>1. PICK t \in Threads : Step(t) \/ \E op \in Ops : Enter(t, op)
    BY <1>1 DEF Next
  <2>2. CASE \E op \in Ops : Enter(t, op)
    BY <2>2, HeadViewAssumption, QuietReads DEF Entries
  <2>3. CASE Step(t)
    BY <2>3, QuietReads, ComputeReads, HeadReads, ReloadReads DEF Step
  <2> QED BY <2>1, <2>2, <2>3
<1>2. CASE UNCHANGED vars
  BY <1>2 DEF vars, state, threads, history, ReadInv, Reads, OfRevision, Live, Rev, Gen, NotRead
<1> QED BY <1>1, <1>2

(* The reads have nothing at the start. *)
LEMMA ReadInit == Init => ReadInv
BY DEF Init, ReadInv, Reads, Rev, NotRead

(* The inductive invariant, of every reachable state. *)
THEOREM HeadViewInvariant == Spec => []HeadViewInv
BY InitInv, NextInv, PTL DEF Spec

(* MemoFresh, for any number of threads and files: with the mutex free, the engine
   remembers of a file the committed text or nothing, whatever floating reads ran while
   a commit was in flight, unless the file is one of a rolled-back commit. *)
THEOREM MemosAreFresh == Spec => []MemoFresh
<1>1. HeadViewInv => MemoFresh
  <2> SUFFICES ASSUME HeadViewInv, lock = None, NEW p \in Paths \ tainted[Live]
               PROVE  dbs[Live].memo[p] \in {None, Gen[p]}
    BY DEF MemoFresh
  <2> QED BY FreeNotCancelled DEF HeadViewInv, MemoInv
<1> QED BY <1>1, HeadViewInvariant, PTL

(* OneRevision, for any number of threads, files, commits and reloads: the answer of a
   floating read is of the revision that was the newest when it took its clone, save for
   the files it read while a commit in flight or rolled back had another text for them. *)
THEOREM ReadsOfOneRevision == Spec => []OneRevision
<1>1. Init => HeadViewInv /\ ReadInv
  BY InitInv, ReadInit
<1>2. HeadViewInv /\ ReadInv /\ [Next]_vars => (HeadViewInv /\ ReadInv)'
  BY NextInv, ReadNext
<1>3. ReadInv => OneRevision
  BY DEF ReadInv, Reads, OneRevision
<1> QED BY <1>1, <1>2, <1>3, PTL DEF Spec

(* CancelledByWrites, for any retry limit: every cancellation of a read is accounted for
   by a change applied since the read was called, or by the one being applied, whether
   its commit is published or rolled back. *)
THEOREM CancellationsAreWrites == Spec => []CancelledByWrites
<1>1. HeadViewInv => CancelledByWrites
  BY DEF HeadViewInv, RetryInv, CancelledByWrites, Reading
<1> QED BY <1>1, HeadViewInvariant, PTL
=============================================================================
