-------------------------------- MODULE Bus --------------------------------
(***************************************************************************)
(* The delta bus of a session (src/tyo3/bus) and the part of the session's *)
(* write path that feeds it (_after_commit in src/tyo3/session).           *)
(*                                                                         *)
(* Writers are the threads that call write methods of one session: the     *)
(* client's thread, and the watcher's auto-poll thread if it is enabled.   *)
(* The native commit serialises them and numbers their revisions; what     *)
(* follows it does not hold any lock common to the two.  Every             *)
(* subscription has a consumer thread iterating over it and an owner who   *)
(* may close it at any time.                                               *)
(*                                                                         *)
(* Data: a delta carries a set of ids and, within it, the affected ones,   *)
(* the files and the layers it touches.  A section of code under one lock  *)
(* is one step.                                                            *)
(***************************************************************************)
EXTENDS Naturals, Sequences, FiniteSets

CONSTANTS
    Writers,    \* threads that write through the session
    Subs,       \* subscriptions
    Session,    \* the thread that closes the session
    Ids,        \* durable ids
    Files,      \* project-relative paths
    Layers,     \* layer names
    Interests,  \* the interests a subscriber may register
    Changes,    \* what a commit may have changed
    Capacity,   \* [coordination.bus] capacity
    MaxRev      \* bound: commits

Policies == {"coalesce", "drop_and_mark_lagged", "error_and_close"}

ASSUME BusAssumption ==
    /\ Capacity \in Nat /\ MaxRev \in Nat
    /\ Interests \subseteq [all : BOOLEAN, ids : SUBSET Ids, files : SUBSET Files,
                           layers : SUBSET Layers]
    /\ \A c \in Changes : /\ c.affected \subseteq c.ids /\ c.ids \subseteq Ids
                          /\ c.files \subseteq Files /\ c.layers \subseteq Layers
                          /\ c.rescan \in BOOLEAN
    /\ Session \notin Writers \cup Subs /\ Writers \cap Subs = {}
    /\ IsFiniteSet(Writers)

Threads == Writers \cup Subs \cup {Session}

VARIABLES
    rev,        \* the native head revision
    overflow,   \* the configured overflow policy
    wpc,        \* where a writer is after its native commit
    delta,      \* the delta a writer has in hand
    todo,       \* the subscribers it has yet to reach
    registry,   \* Bus._subs
    last,       \* Bus._last_published_revision
    refused,    \* history: revisions whose publish raised
    wedged,     \* a thread holds Bus._lock and waits for it
    spc,        \* how far TyO3Session.close is
    toClose,    \* the subscriptions Bus.close has yet to close
    created,    \* subscriptions handed out
    interest,   \* Subscription.interest
    closed,     \* Subscription._closed
    lagged,     \* Subscription._lagged
    queue,      \* Subscription._queue
    consumer,   \* the thread iterating over the subscription
    call,       \* per thread, the Subscription.close it is executing
    missing,    \* history: <<revision, id>> committed and not yet received
    seen        \* history: the last revision its consumer received

writers == <<wpc, delta, todo>>
bus == <<registry, last, refused, wedged>>
session == <<spc, toClose>>
sub == <<interest, closed, lagged, queue, consumer>>
vars == <<rev, overflow, writers, bus, session, sub, created, call, missing, seen>>

NoDelta == [rev |-> 0, ids |-> {}, affected |-> {}, files |-> {}, layers |-> {},
            rescan |-> FALSE]
NoInterest == [all |-> FALSE, ids |-> {}, files |-> {}, layers |-> {}]
AnyId == "any"
NoCall == [at |-> "none"]

-----------------------------------------------------------------------------
(* Matching, scoping and merging deltas. *)

(* Interest.matches, and the test of publish around it. *)
Wanted(i, d) ==
    \/ i.all \/ d.rescan
    \/ i.ids \cap d.affected # {}
    \/ i.files \cap d.files # {}
    \/ i.layers \cap d.layers # {}

(* An empty filter lets everything through. *)
Filtered(x, filter) == IF filter = {} THEN x ELSE x \cap filter

(* Delta.scoped_to *)
Scoped(i, d) ==
    IF i.all \/ d.rescan THEN d
    ELSE [rev |-> d.rev, ids |-> Filtered(d.ids, i.ids),
          affected |-> Filtered(d.affected, i.ids), files |-> Filtered(d.files, i.files),
          layers |-> Filtered(d.layers, i.layers), rescan |-> d.rescan]

(* What publish offers to a subscriber: never an empty slice of a scoped interest. *)
Offered(i, d) == Wanted(i, d) /\ (i.all \/ d.rescan \/ Scoped(i, d).ids # {})

(* Mistaken: the newest delta stands for the ones before it. *)
NewestOnly(q, d) == [q EXCEPT ![Len(q)] = d]

(* Mistaken: merges into the delta to be read next. *)
IntoHead(q, d) ==
    [q EXCEPT ![1] = [rev |-> IF @.rev < d.rev THEN d.rev ELSE @.rev,
                      ids |-> @.ids \cup d.ids, affected |-> @.affected \cup d.affected,
                      files |-> @.files \cup d.files, layers |-> @.layers \cup d.layers,
                      rescan |-> @.rescan \/ d.rescan]]

(* _coalesce_into_tail *)
IntoTail(q, d) ==
    [q EXCEPT ![Len(q)] =
        [rev |-> IF @.rev < d.rev THEN d.rev ELSE @.rev,
         ids |-> @.ids \cup d.ids, affected |-> @.affected \cup d.affected,
         files |-> @.files \cup d.files, layers |-> @.layers \cup d.layers,
         rescan |-> @.rescan \/ d.rescan]]

(* The news in a delta, one part per id and one for the revision itself. *)
Parts(d) == {<<d.rev, i>> : i \in d.ids \cup {AnyId}}

(* The parts of m that a reader of d has then heard of. *)
Covered(m, d) == {x \in m : x[1] <= d.rev /\ x[2] \in d.ids \cup {AnyId}}

(* What an interest asks for, read as the union of its parts: every delta that touches one
   of its files or layers and is not empty, and of every delta that affects one of its
   ids, its ids. *)
AskedFor(i, d) ==
    LET touched == i.files \cap d.files # {} \/ i.layers \cap d.layers # {}
    IN  IF i.all \/ d.rescan \/ (touched /\ d.ids # {}) THEN Parts(d)
        ELSE IF i.ids \cap d.affected # {} THEN Parts([d EXCEPT !.ids = @ \cap i.ids])
        ELSE {}

(* There is room below the capacity, which is at least 1. *)
Room(s) == Len(queue[s]) < IF Capacity = 0 THEN 1 ELSE Capacity

(* Condition.notify_all *)
Notify(s) == consumer' = [consumer EXCEPT ![s] = IF @ = "waiting" THEN "running" ELSE @]

-----------------------------------------------------------------------------
Init ==
    /\ rev = 0
    /\ overflow \in Policies
    /\ wpc = [w \in Writers |-> "idle"]
    /\ delta = [w \in Writers |-> NoDelta] /\ todo = [w \in Writers |-> {}]
    /\ registry = {} /\ last = 0 /\ refused = {} /\ wedged = FALSE
    /\ spc = "open" /\ toClose = {}
    /\ created = {}
    /\ interest = [s \in Subs |-> NoInterest]
    /\ closed = [s \in Subs |-> FALSE] /\ lagged = [s \in Subs |-> FALSE]
    /\ queue = [s \in Subs |-> <<>>]
    /\ consumer = [s \in Subs |-> "none"]
    /\ call = [t \in Threads |-> NoCall]
    /\ missing = [s \in Subs |-> {}] /\ seen = [s \in Subs |-> 0]

(* Bus.subscribe on an open bus. *)
Subscribe(s) ==
    /\ s \notin created /\ spc = "open" /\ ~wedged
    /\ created' = created \cup {s} /\ registry' = registry \cup {s}
    /\ \E i \in Interests : interest' = [interest EXCEPT ![s] = i]
    /\ consumer' = [consumer EXCEPT ![s] = "running"]
    /\ UNCHANGED <<rev, overflow, writers, last, refused, wedged, session, closed,
                   lagged, queue, call, missing, seen>>

(* Bus.subscribe on a bus that is closing: it closes the new subscription with the
   bus lock held, and that close takes the bus lock to unregister. *)
SubscribeLate(s) ==
    /\ s \notin created /\ spc = "closing" /\ ~wedged
    /\ created' = created \cup {s}
    /\ closed' = [closed EXCEPT ![s] = TRUE]
    /\ wedged' = TRUE
    /\ UNCHANGED <<rev, overflow, writers, registry, last, refused, session,
                   interest, lagged, queue, consumer, call, missing, seen>>

-----------------------------------------------------------------------------
(* The write path. *)

(* The delta of a commit that made the change c. *)
DeltaOf(c) ==
    [rev |-> rev + 1, ids |-> c.ids, affected |-> c.affected, files |-> c.files,
     layers |-> c.layers, rescan |-> c.rescan]

(* A write method up to the return of its native commit. *)
Commit(w) ==
    /\ wpc[w] = "idle" /\ spc # "closed" /\ rev < MaxRev
    /\ rev' = rev + 1
    /\ \E c \in Changes :
          LET d == DeltaOf(c)
          IN  /\ delta' = [delta EXCEPT ![w] = d]
              /\ missing' = [s \in Subs |->
                    IF s \in registry /\ ~closed[s]
                    THEN missing[s] \cup AskedFor(interest[s], d) ELSE missing[s]]
    /\ wpc' = [wpc EXCEPT ![w] = "committed"]
    /\ UNCHANGED <<overflow, todo, bus, session, sub, created, call, seen>>

(* _schedule_derived raises: the write method raises too, and nobody is told of its
   revision. *)
ScheduleRaises(w) ==
    /\ wpc[w] = "committed"
    /\ wpc' = [wpc EXCEPT ![w] = "idle"]
    /\ missing' = [s \in Subs |-> {x \in missing[s] : x[1] # delta[w].rev}]
    /\ UNCHANGED <<rev, overflow, delta, todo, bus, session, sub, created, call, seen>>

(* _publish_delta: nothing to do without a bus or without a subscriber. *)
PublishDelta(w) ==
    /\ wpc[w] = "committed" /\ ~wedged
    /\ wpc' = [wpc EXCEPT ![w] =
                 IF spc = "closed" \/ registry = {} THEN "idle" ELSE "publish"]
    /\ UNCHANGED <<rev, overflow, delta, todo, bus, session, sub, created, call,
                   missing, seen>>

(* Bus.publish up to the release of its lock: a closed or empty bus returns, a
   revision out of order raises, and otherwise the subscribers are collected. *)
Publish(w) ==
    /\ wpc[w] = "publish" /\ ~wedged
    /\ IF registry = {}
       THEN /\ wpc' = [wpc EXCEPT ![w] = "idle"]
            /\ UNCHANGED <<todo, last, refused>>
       ELSE IF delta[w].rev <= last
       THEN /\ wpc' = [wpc EXCEPT ![w] = "idle"]
            /\ refused' = refused \cup {delta[w].rev}
            /\ UNCHANGED <<todo, last>>
       ELSE /\ wpc' = [wpc EXCEPT ![w] = "fanout"]
            /\ last' = delta[w].rev
            /\ todo' = [todo EXCEPT ![w] = registry]
            /\ UNCHANGED refused
    /\ UNCHANGED <<rev, overflow, delta, registry, wedged, session, sub, created,
                   call, missing, seen>>

(* Mistaken: appends without looking at the closed flag. *)
DeafOffer(s, d) ==
    IF Room(s)
    THEN queue' = [queue EXCEPT ![s] = Append(@, d)] /\ Notify(s) /\ UNCHANGED lagged
    ELSE UNCHANGED <<queue, consumer, lagged>>

(* Mistaken: appends without waking the consumer. *)
SilentOffer(s, d) ==
    IF ~closed[s] /\ Room(s)
    THEN queue' = [queue EXCEPT ![s] = Append(@, d)] /\ UNCHANGED <<consumer, lagged>>
    ELSE UNCHANGED <<queue, consumer, lagged>>

(* Subscription._offer up to the release of its lock. *)
Offer(s, d) ==
    IF closed[s]
    THEN UNCHANGED <<queue, consumer, lagged>>
    ELSE IF Room(s)
    THEN queue' = [queue EXCEPT ![s] = Append(@, d)] /\ Notify(s) /\ UNCHANGED lagged
    ELSE IF overflow = "coalesce"
    THEN queue' = [queue EXCEPT ![s] = IntoTail(@, d)] /\ Notify(s) /\ UNCHANGED lagged
    ELSE lagged' = [lagged EXCEPT ![s] = TRUE] /\ UNCHANGED <<queue, consumer>>

(* The fan-out loop of publish, one subscriber: under error_and_close a full queue
   makes the writer close the subscription before it goes on. *)
FanOut(w) ==
    /\ wpc[w] = "fanout" /\ call[w] = NoCall
    /\ \E s \in todo[w] :
          LET d == delta[w]
              offered == Offered(interest[s], d)
          IN  /\ todo' = [todo EXCEPT ![w] = @ \ {s}]
              /\ IF offered THEN Offer(s, Scoped(interest[s], d))
                            ELSE UNCHANGED <<queue, consumer, lagged>>
              /\ call' = IF offered /\ ~closed[s] /\ ~Room(s)
                               /\ overflow = "error_and_close"
                         THEN [call EXCEPT ![w] = [at |-> "flag", sub |-> s]]
                         ELSE call
    /\ UNCHANGED <<rev, overflow, wpc, delta, bus, session, interest, closed, created, missing,
                   seen>>

(* The write method returns to its caller. *)
Return(w) ==
    /\ wpc[w] = "fanout" /\ todo[w] = {} /\ call[w] = NoCall
    /\ wpc' = [wpc EXCEPT ![w] = "idle"]
    /\ UNCHANGED <<rev, overflow, delta, todo, bus, session, sub, created, call,
                   missing, seen>>

-----------------------------------------------------------------------------
(* Closing.  Subscription.close has three sections: set the flag and wake the
   consumer, unregister from the bus, clear the queue. *)

(* The owner of a subscription closes it. *)
OwnerCloses(s) ==
    /\ s \in created /\ ~closed[s] /\ call[s] = NoCall
    /\ call' = [call EXCEPT ![s] = [at |-> "flag", sub |-> s]]
    /\ UNCHANGED <<rev, overflow, writers, bus, session, sub, created, missing, seen>>

(* Mistaken: sets the flag and wakes nobody. *)
SilentFlag(t) ==
    /\ call[t].at = "flag"
    /\ LET s == call[t].sub
       IN  /\ call' = [call EXCEPT ![t] = IF closed[s] THEN NoCall
                                          ELSE [at |-> "unregister", sub |-> s]]
           /\ closed' = [closed EXCEPT ![s] = TRUE]
           /\ UNCHANGED consumer
    /\ UNCHANGED <<rev, overflow, writers, bus, session, interest, lagged, queue, created,
                   missing, seen>>

CloseFlag(t) ==
    /\ call[t].at = "flag"
    /\ LET s == call[t].sub
       IN  IF closed[s]
           THEN call' = [call EXCEPT ![t] = NoCall] /\ UNCHANGED <<closed, consumer>>
           ELSE /\ call' = [call EXCEPT ![t] = [at |-> "unregister", sub |-> s]]
                /\ closed' = [closed EXCEPT ![s] = TRUE]
                /\ Notify(s)
    /\ UNCHANGED <<rev, overflow, writers, bus, session, interest, lagged, queue, created,
                   missing, seen>>

(* Bus._unsubscribe *)
CloseUnregister(t) ==
    /\ call[t].at = "unregister" /\ ~wedged
    /\ registry' = registry \ {call[t].sub}
    /\ call' = [call EXCEPT ![t] = [at |-> "clear", sub |-> call[t].sub]]
    /\ UNCHANGED <<rev, overflow, writers, last, refused, wedged, session, sub,
                   created, missing, seen>>

CloseClear(t) ==
    /\ call[t].at = "clear"
    /\ queue' = [queue EXCEPT ![call[t].sub] = <<>>]
    /\ call' = [call EXCEPT ![t] = NoCall]
    /\ UNCHANGED <<rev, overflow, writers, bus, session, interest, closed, lagged, consumer,
                   created, missing, seen>>

(* TyO3Session.close reaches Bus.close: the bus is closed and emptied, then the
   subscriptions it had are closed one by one. *)
SessionClose ==
    /\ spc = "open" /\ ~wedged
    /\ spc' = "closing"
    /\ toClose' = registry /\ registry' = {}
    /\ UNCHANGED <<rev, overflow, writers, last, refused, wedged, sub, created, call,
                   missing, seen>>

SessionClosesOne ==
    /\ spc = "closing" /\ call[Session] = NoCall
    /\ \E s \in toClose :
          /\ toClose' = toClose \ {s}
          /\ call' = [call EXCEPT ![Session] = [at |-> "flag", sub |-> s]]
    /\ UNCHANGED <<rev, overflow, writers, bus, spc, sub, created, missing, seen>>

SessionClosed ==
    /\ spc = "closing" /\ toClose = {} /\ call[Session] = NoCall
    /\ spc' = "closed"
    /\ UNCHANGED <<rev, overflow, writers, bus, toClose, sub, created, call, missing,
                   seen>>

-----------------------------------------------------------------------------
(* Subscription.__next__, which poll(None) equals: take the first delta, stop when
   closed and empty, or wait to be notified. *)
Take(s) ==
    /\ consumer[s] = "running"
    /\ IF queue[s] # <<>>
       THEN /\ seen' = [seen EXCEPT ![s] = Head(queue[s]).rev]
            /\ missing' = [missing EXCEPT ![s] = @ \ Covered(@, Head(queue[s]))]
            /\ queue' = [queue EXCEPT ![s] = Tail(@)]
            /\ UNCHANGED consumer
       ELSE /\ consumer' = [consumer EXCEPT ![s] = IF closed[s] THEN "stopped"
                                                                ELSE "waiting"]
            /\ UNCHANGED <<queue, missing, seen>>
    /\ UNCHANGED <<rev, overflow, writers, bus, session, interest, closed, lagged, created,
                   call>>

Next ==
    \/ \E s \in Subs : Subscribe(s) \/ SubscribeLate(s) \/ OwnerCloses(s) \/ Take(s)
    \/ \E w \in Writers : \/ Commit(w) \/ ScheduleRaises(w) \/ PublishDelta(w) \/ Publish(w)
                             \/ FanOut(w) \/ Return(w)
    \/ \E t \in Threads : CloseFlag(t) \/ CloseUnregister(t) \/ CloseClear(t)
    \/ SessionClose \/ SessionClosesOne \/ SessionClosed

Spec == Init /\ [][Next]_vars

(* Every thread that is inside a call goes on with it, and a consumer goes on
   iterating; nobody has to commit, subscribe or close. *)
FairSpec ==
    /\ Spec
    /\ \A w \in Writers : WF_vars(PublishDelta(w) \/ Publish(w) \/ FanOut(w) \/ Return(w))
    /\ \A t \in Threads : WF_vars(CloseFlag(t) \/ CloseUnregister(t) \/ CloseClear(t))
    /\ \A s \in Subs : WF_vars(Take(s))
    /\ WF_vars(SessionClosesOne \/ SessionClosed)

-----------------------------------------------------------------------------
(* Properties. *)

(* With one writer a subscriber sees revisions in increasing order, each at most
   once, however queues overflow and whatever is closed meanwhile. *)
RevisionOrder ==
    Cardinality(Writers) = 1 =>
        \A s \in Subs : \A i \in DOMAIN queue[s] :
            (IF i = 1 THEN seen[s] ELSE queue[s][i - 1].rev) < queue[s][i].rev

(* Everything a live subscriber asked for is in a delta of that revision or a later one
   that it has received or that is queued for it. *)
Told(s) == missing[s] = UNION {Covered(missing[s], queue[s][i]) : i \in DOMAIN queue[s]}

(* Interests whose slice is the union of what its parts ask for: scoped_to filters by
   ids whichever part matched. *)
Plain(i) == i.all \/ i.ids = {} \/ (i.files = {} /\ i.layers = {})

(* Non-hiding: once a write has returned, everything a live subscriber asked for has
   reached it or its queue, through matching, scoping, merging and dropping, unless the
   subscription says it lagged, for every interest that does not combine ids with files
   or layers.  A write that raised in _schedule_derived tells nobody. *)
NothingHidden ==
    Cardinality(Writers) = 1 /\ spc = "open" /\ (\A w \in Writers : wpc[w] = "idle") =>
        \A s \in registry : ~closed[s] /\ ~lagged[s] /\ Plain(interest[s]) => Told(s)

(* "Compound interests are built with | (union)": the same for every interest. *)
CompoundsAreUnions ==
    Cardinality(Writers) = 1 /\ spc = "open" /\ (\A w \in Writers : wpc[w] = "idle") =>
        \A s \in registry : ~closed[s] /\ ~lagged[s] => Told(s)

(* What a subscription holds is bounded: never more deltas than its capacity, whatever
   the policy, and once its close has returned, the bus does not hold it and its queue
   is empty for good, also if a fan-out that began before is still going to reach
   it. *)
ClosedIsReleased ==
    /\ \A s \in Subs : Len(queue[s]) <= IF Capacity = 0 THEN 1 ELSE Capacity
    /\ \A s \in created :
          closed[s] /\ (\A t \in Threads : call[t] # NoCall => call[t].sub # s) =>
              s \notin registry /\ queue[s] = <<>>

(* Every queued delta is consumed or released: no consumer sleeps through one. *)
DeltasConsumed == \A s \in Subs : queue[s] # <<>> ~> queue[s] = <<>>

(* Closing the session ends every iteration over its bus, unless someone subscribes
   while it closes, which wedges the bus. *)
IterationsEnd ==
    \A s \in Subs : spc = "closing" /\ s \in created ~> consumer[s] = "stopped" \/ wedged

(* "each commit publishes once, in order": no publish is refused. *)
EveryCommitPublishes == refused = {}
=============================================================================
