----------------------------- MODULE BusProofs -----------------------------
(* Proofs about module Bus, for every set of subscriptions, writers, interests and
   changes, every capacity and every overflow policy. *)
EXTENDS Bus, FiniteSetTheorems, TLAPS

(* The values that deltas, calls to close and the queue bound take. *)
Deltas == [rev : Nat, ids : SUBSET Ids, affected : SUBSET Ids, files : SUBSET Files,
           layers : SUBSET Layers, rescan : BOOLEAN]
Filters == [all : BOOLEAN, ids : SUBSET Ids, files : SUBSET Files, layers : SUBSET Layers]
Closing == [at : {"flag", "unregister", "clear"}, sub : Subs]
Cap == IF Capacity = 0 THEN 1 ELSE Capacity

(* The types of what the other invariants speak of. *)
Types ==
    /\ rev \in Nat /\ last \in Nat
    /\ wpc \in [Writers -> {"idle", "committed", "publish", "fanout"}]
    /\ delta \in [Writers -> Deltas] /\ todo \in [Writers -> SUBSET created]
    /\ registry \subseteq created /\ created \subseteq Subs /\ toClose \subseteq created
    /\ interest \in [Subs -> Filters]
    /\ closed \in [Subs -> BOOLEAN] /\ lagged \in [Subs -> BOOLEAN]
    /\ queue \in [Subs -> Seq(Deltas)]
    /\ call \in [Threads -> {NoCall} \cup Closing]
    /\ missing \in [Subs -> SUBSET (Nat \X (Ids \cup {AnyId}))] /\ seen \in [Subs -> Nat]
    /\ consumer \in [Subs -> {"none", "running", "waiting", "stopped"}]

(* t is closing s and has not come to the end of it. *)
Unregisters(t, s) == call[t] = [at |-> "unregister", sub |-> s]
Clears(t, s) == call[t] = [at |-> "clear", sub |-> s]

(* A closed subscription the bus still holds, or whose queue is not empty, has a thread
   that is about to unregister or to clear it.  One that was never handed out holds
   nothing. *)
ReleaseInv ==
    /\ \A s \in Subs : Len(queue[s]) <= Cap
    /\ \A s \in Subs : closed[s] /\ s \in registry => \E t \in Threads : Unregisters(t, s)
    /\ \A s \in Subs : closed[s] /\ queue[s] # <<>> =>
          \E t \in Threads : Unregisters(t, s) \/ Clears(t, s)
    /\ \A s \in Subs \ created : queue[s] = <<>> /\ ~closed[s]
    /\ \A t \in Threads : call[t] # NoCall => call[t].sub \in created
    /\ \A t \in Threads, s \in Subs : Unregisters(t, s) \/ Clears(t, s) => closed[s]

(* s receives revisions in order: what is queued for it is increasing, newer than what it
   received, and not newer than what was last published. *)
Ordered(s) ==
    /\ seen[s] <= last
    /\ \A i \in 1..Len(queue[s]) : seen[s] < queue[s][i].rev /\ queue[s][i].rev <= last
    /\ \A i, j \in 1..Len(queue[s]) : i < j => queue[s][i].rev < queue[s][j].rev

(* s has nothing yet of what was last published. *)
Waits(s) == seen[s] < last /\ \A i \in 1..Len(queue[s]) : queue[s][i].rev < last

(* What the only writer has in hand is the newest revision, which it publishes once, and
   the subscribers it has yet to reach have nothing of it. *)
OneOrder(w) ==
    /\ last <= rev /\ refused = {}
    /\ wpc[w] # "idle" => delta[w].rev = rev
    /\ wpc[w] \in {"committed", "publish"} => last < rev
    /\ wpc[w] = "fanout" => last = rev
    /\ \A s \in Subs : Ordered(s)
    /\ wpc[w] = "fanout" => \A s \in todo[w] : Waits(s)

(* With one writer, its order holds. *)
OrderInv == \A w \in Writers : Writers = {w} => OneOrder(w)

(* The delta w has in hand will bring x to s. *)
OnItsWay(w, s, x) ==
    /\ wpc[w] \in {"committed", "publish"} \/ (wpc[w] = "fanout" /\ s \in todo[w])
    /\ Offered(interest[s], delta[w]) /\ x \in Parts(Scoped(interest[s], delta[w]))

(* A delta queued for s brings it x. *)
Queued(s, x) ==
    \E i \in 1..Len(queue[s]) :
        x[1] <= queue[s][i].rev /\ x[2] \in queue[s][i].ids \cup {AnyId}

(* A live subscriber that has not lagged is going to receive what it misses. *)
Heard(w, s) ==
    ~closed[s] /\ ~lagged[s] /\ Plain(interest[s]) =>
        \A x \in missing[s] : OnItsWay(w, s, x) \/ Queued(s, x)

(* What a live subscriber has not received is queued for it or on its way. *)
OneHidden(w) ==
    /\ \A s \in Subs \ created : missing[s] = {}
    /\ spc = "open" => \A s \in registry : Heard(w, s)

(* With one writer, nothing is hidden. *)
HiddenInv == \A w \in Writers : Writers = {w} => OneHidden(w)
-----------------------------------------------------------------------------
(* Operators. *)

(* The capacity used is never zero, and room means one more delta fits. *)
LEMMA CapFacts ==
    /\ Cap \in Nat /\ Cap > 0
    /\ \A s \in Subs : Room(s) <=> Len(queue[s]) < Cap
BY BusAssumption DEF Cap, Room

(* What a filter lets through is part of what there was. *)
LEMMA FilteredPart ==
    ASSUME NEW x, NEW f
    PROVE  Filtered(x, f) \subseteq x
BY DEF Filtered

(* Scoping a delta to an interest keeps its type and its revision. *)
LEMMA ScopedTyped ==
    ASSUME NEW i, NEW d \in Deltas
    PROVE  Scoped(i, d) \in Deltas /\ Scoped(i, d).rev = d.rev
<1>1. CASE i.all \/ d.rescan
  BY <1>1 DEF Scoped
<1>2. CASE ~(i.all \/ d.rescan)
  <2>1. Scoped(i, d) = [rev |-> d.rev, ids |-> Filtered(d.ids, i.ids),
                        affected |-> Filtered(d.affected, i.ids),
                        files |-> Filtered(d.files, i.files),
                        layers |-> Filtered(d.layers, i.layers), rescan |-> d.rescan]
    BY <1>2, Zenon DEF Scoped
  <2>2. /\ d.rev \in Nat /\ d.ids \subseteq Ids /\ d.affected \subseteq Ids
        /\ d.files \subseteq Files /\ d.layers \subseteq Layers /\ d.rescan \in BOOLEAN
    BY DEF Deltas
  <2>3. /\ Filtered(d.ids, i.ids) \subseteq Ids /\ Filtered(d.affected, i.ids) \subseteq Ids
        /\ Filtered(d.files, i.files) \subseteq Files
        /\ Filtered(d.layers, i.layers) \subseteq Layers
    BY <2>2, FilteredPart
  <2> QED BY <2>1, <2>2, <2>3 DEF Deltas
<1> QED BY <1>1, <1>2

(* Queued deltas have revisions. *)
LEMMA RevTyped ==
    ASSUME NEW q \in Seq(Deltas)
    PROVE  Len(q) \in Nat /\ \A i \in 1..Len(q) : q[i] \in Deltas /\ q[i].rev \in Nat
<1>1. Len(q) \in Nat /\ \A i \in 1..Len(q) : q[i] \in Deltas
  OBVIOUS
<1> QED BY <1>1 DEF Deltas

(* The parts of a delta. *)
LEMMA PartsTyped ==
    ASSUME NEW d \in Deltas
    PROVE  /\ Parts(d) \subseteq Nat \X (Ids \cup {AnyId})
           /\ \A x \in Parts(d) : x[1] = d.rev /\ x[2] \in d.ids \cup {AnyId}
BY DEF Parts, Deltas

(* What an interest asks for is of the type of what is missing. *)
LEMMA AskedTyped ==
    ASSUME NEW i, NEW d \in Deltas
    PROVE  AskedFor(i, d) \subseteq Nat \X (Ids \cup {AnyId})
<1> DEFINE e == [d EXCEPT !.ids = @ \cap i.ids]
<1>1. e \in Deltas
  BY DEF Deltas
<1>2. /\ Parts(d) \subseteq Nat \X (Ids \cup {AnyId})
      /\ Parts(e) \subseteq Nat \X (Ids \cup {AnyId})
  BY <1>1, PartsTyped
<1>3. AskedFor(i, d) = Parts(d) \/ AskedFor(i, d) = Parts(e) \/ AskedFor(i, d) = {}
  BY Zenon DEF AskedFor
<1> QED BY <1>2, <1>3

(* What merging into the tail of a queue makes of it. *)
LEMMA MergedTail ==
    ASSUME NEW q \in Seq(Deltas), Len(q) > 0, NEW d \in Deltas
    PROVE  LET r == IntoTail(q, d)
               n == Len(q)
           IN  /\ r \in Seq(Deltas) /\ Len(r) = n
               /\ \A i \in 1..n : i # n => r[i] = q[i]
               /\ r[n].rev = (IF q[n].rev < d.rev THEN d.rev ELSE q[n].rev)
               /\ r[n].ids = q[n].ids \cup d.ids
<1> DEFINE n == Len(q)
           x == [rev |-> IF q[n].rev < d.rev THEN d.rev ELSE q[n].rev,
                 ids |-> q[n].ids \cup d.ids, affected |-> q[n].affected \cup d.affected,
                 files |-> q[n].files \cup d.files, layers |-> q[n].layers \cup d.layers,
                 rescan |-> q[n].rescan \/ d.rescan]
<1>1. n \in 1..n /\ q[n] \in Deltas
  OBVIOUS
<1>2. (q[n].rescan \/ d.rescan) \in BOOLEAN
  BY Zenon
<1>3. /\ x \in Deltas /\ x.ids = q[n].ids \cup d.ids
      /\ x.rev = IF q[n].rev < d.rev THEN d.rev ELSE q[n].rev
  <2> DEFINE b == q[n].rescan \/ d.rescan
  <2>1. b \in BOOLEAN
    BY <1>2
  <2> HIDE DEF b
  <2> QED BY <1>1, <2>1 DEF Deltas
<1>4. IntoTail(q, d) = [q EXCEPT ![n] = x]
  BY Zenon DEF IntoTail
<1> HIDE DEF x
<1> QED BY <1>1, <1>3, <1>4
-----------------------------------------------------------------------------
(* Types. *)

(* The initial state has the types. *)
LEMMA InitTypes == Init => Types
<1> SUFFICES ASSUME Init PROVE Types
  OBVIOUS
<1>1. NoDelta \in Deltas /\ NoInterest \in Filters
  BY DEF NoDelta, NoInterest, Deltas, Filters
<1> QED BY <1>1 DEF Init, Types

(* An offer appends when there is room, and otherwise merges into the tail or marks the
   subscription; a closed subscription is left alone. *)
LEMMA OfferOutcome ==
    ASSUME Types, NEW s \in Subs, NEW d, Offer(s, d)
    PROVE  /\ \/ closed[s] /\ UNCHANGED <<queue, lagged>>
              \/ /\ ~closed[s] /\ Room(s) /\ lagged' = lagged
                 /\ queue' = [queue EXCEPT ![s] = Append(queue[s], d)]
              \/ /\ ~closed[s] /\ ~Room(s) /\ lagged' = lagged
                 /\ queue' = [queue EXCEPT ![s] = IntoTail(queue[s], d)]
              \/ queue' = queue /\ lagged' = [lagged EXCEPT ![s] = TRUE]
           /\ consumer' = consumer \/ Notify(s)
BY Zenon DEF Offer

(* Waking a consumer keeps the type. *)
LEMMA NotifyTyped ==
    ASSUME Types, NEW s \in Subs, Notify(s)
    PROVE  consumer' \in [Subs -> {"none", "running", "waiting", "stopped"}]
BY DEF Types, Notify

(* Whatever an offer does, the queues keep their type and their bound. *)
LEMMA OfferTyped ==
    ASSUME Types, NEW s \in Subs, NEW d \in Deltas, Offer(s, d)
    PROVE  /\ queue' \in [Subs -> Seq(Deltas)]
           /\ lagged' \in [Subs -> BOOLEAN]
           /\ consumer' \in [Subs -> {"none", "running", "waiting", "stopped"}]
           /\ \A r \in Subs \ {s} : queue'[r] = queue[r] /\ lagged'[r] = lagged[r]
           /\ closed[s] => queue'[s] = queue[s]
           /\ Len(queue[s]) <= Cap => Len(queue'[s]) <= Cap
<1>1. queue[s] \in Seq(Deltas) /\ lagged \in [Subs -> BOOLEAN] /\ queue \in [Subs -> Seq(Deltas)]
  BY DEF Types
<1>2. consumer' \in [Subs -> {"none", "running", "waiting", "stopped"}]
  BY OfferOutcome, NotifyTyped DEF Types
<1>3. CASE UNCHANGED <<queue, lagged>>
  BY <1>1, <1>2, <1>3
<1>4. CASE queue' = queue /\ lagged' = [lagged EXCEPT ![s] = TRUE]
  BY <1>1, <1>2, <1>4
<1>5. CASE ~closed[s] /\ Room(s) /\ lagged' = lagged /\ queue' = [queue EXCEPT ![s] = Append(queue[s], d)]
  BY <1>1, <1>2, <1>5, CapFacts
<1>6. CASE ~closed[s] /\ ~Room(s) /\ lagged' = lagged /\ queue' = [queue EXCEPT ![s] = IntoTail(queue[s], d)]
  <2>1. Len(queue[s]) > 0
    BY <1>1, <1>6, CapFacts
  <2>2. IntoTail(queue[s], d) \in Seq(Deltas) /\ Len(IntoTail(queue[s], d)) = Len(queue[s])
    BY <1>1, <2>1, MergedTail
  <2> QED BY <1>1, <1>2, <1>6, <2>2
<1> QED BY <1>3, <1>4, <1>5, <1>6, OfferOutcome

(* One subscriber of a fan-out: the delta in hand is offered to it, or it is passed by;
   under error_and_close a full queue makes the writer close it. *)
LEMMA FanOutOutcome ==
    ASSUME Types, NEW w \in Writers, FanOut(w)
    PROVE  /\ wpc[w] = "fanout" /\ call[w] = NoCall
           /\ \E s \in todo[w] :
                 /\ todo' = [todo EXCEPT ![w] = @ \ {s}]
                 /\ \/ Offer(s, Scoped(interest[s], delta[w]))
                    \/ /\ UNCHANGED <<queue, consumer, lagged>>
                       /\ ~Offered(interest[s], delta[w])
                 /\ call' = call \/ call' = [call EXCEPT ![w] = [at |-> "flag", sub |-> s]]
           /\ UNCHANGED <<rev, overflow, wpc, delta, bus, session, interest, closed, created,
                          missing, seen>>
BY Zenon DEF FanOut

(* Every step keeps the types. *)
LEMMA NextTypes == Types /\ [Next]_vars => Types'
<1> SUFFICES ASSUME Types, [Next]_vars PROVE Types'
  OBVIOUS
<1> USE DEF writers, bus, session, sub
<1>1. ASSUME NEW s \in Subs, Subscribe(s) PROVE Types'
  <2>1. PICK i \in Interests : interest' = [interest EXCEPT ![s] = i]
    BY <1>1 DEF Subscribe
  <2>2. CASE interest' \in [Subs -> Filters]
    BY <1>1, <2>2 DEF Subscribe, Types
  <2> QED BY <2>1, <2>2, BusAssumption DEF Types, Filters
<1>2. ASSUME NEW s \in Subs, SubscribeLate(s) PROVE Types'
  BY <1>2 DEF SubscribeLate, Types
<1>3. ASSUME NEW s \in Subs, OwnerCloses(s) PROVE Types'
  BY <1>3 DEF OwnerCloses, Types, Closing, Threads
<1>4. ASSUME NEW s \in Subs, Take(s) PROVE Types'
  <2>1. CASE queue[s] # <<>>
    <3>1. queue[s] \in Seq(Deltas)
      BY DEF Types
    <3>2. Head(queue[s]) \in Deltas /\ Tail(queue[s]) \in Seq(Deltas)
      BY <2>1, <3>1
    <3>3. Head(queue[s]).rev \in Nat
      BY <3>2 DEF Deltas
    <3>4. missing' \in [Subs -> SUBSET (Nat \X (Ids \cup {AnyId}))]
      <4>1. missing' = [missing EXCEPT ![s] = @ \ Covered(@, Head(queue[s]))]
        BY <1>4, <2>1 DEF Take
      <4>2. missing[s] \ Covered(missing[s], Head(queue[s])) \in SUBSET (Nat \X (Ids \cup {AnyId}))
        BY DEF Types
      <4> QED BY <4>1, <4>2 DEF Types
    <3>5. seen' \in [Subs -> Nat] /\ queue' \in [Subs -> Seq(Deltas)]
      BY <1>4, <2>1, <3>2, <3>3 DEF Take, Types
    <3> QED BY <1>4, <2>1, <3>4, <3>5 DEF Take, Types
  <2>2. CASE queue[s] = <<>>
    BY <1>4, <2>2 DEF Take, Types
  <2> QED BY <2>1, <2>2
<1>5. ASSUME NEW w \in Writers, Commit(w) PROVE Types'
  <2>1. PICK c \in Changes :
           LET d == DeltaOf(c)
           IN  /\ delta' = [delta EXCEPT ![w] = d]
               /\ missing' = [s \in Subs |->
                     IF s \in registry /\ ~closed[s]
                     THEN missing[s] \cup AskedFor(interest[s], d) ELSE missing[s]]
    BY <1>5 DEF Commit
  <2> DEFINE d == DeltaOf(c)
  <2>2. d \in Deltas
    BY BusAssumption DEF DeltaOf, Deltas, Types
  <2> HIDE DEF d
  <2>4. missing' \in [Subs -> SUBSET (Nat \X (Ids \cup {AnyId}))]
    <3>1. \A s \in Subs : AskedFor(interest[s], d) \subseteq Nat \X (Ids \cup {AnyId})
      BY <2>2, AskedTyped
    <3> QED BY <2>1, <3>1 DEF Types, d
  <2>3. delta' \in [Writers -> Deltas]
    BY <2>1, <2>2 DEF Types, d
  <2> QED BY <1>5, <2>3, <2>4 DEF Commit, Types
<1>6. ASSUME NEW w \in Writers, PublishDelta(w) \/ ScheduleRaises(w) PROVE Types'
  <2>1. CASE PublishDelta(w)
    BY <2>1 DEF PublishDelta, Types
  <2>2. CASE ScheduleRaises(w)
    BY <2>2 DEF ScheduleRaises, Types
  <2> QED BY <1>6, <2>1, <2>2
<1>7. ASSUME NEW w \in Writers, Publish(w) PROVE Types'
  <2>1. delta[w].rev \in Nat
    BY DEF Types, Deltas
  <2>2. wpc' \in [Writers -> {"idle", "committed", "publish", "fanout"}]
    BY <1>7, Zenon DEF Publish, Types
  <2>3. last' \in Nat /\ todo' \in [Writers -> SUBSET created]
    BY <1>7, <2>1 DEF Publish, Types
  <2> QED BY <1>7, <2>2, <2>3 DEF Publish, Types
<1>8. ASSUME NEW w \in Writers, FanOut(w) PROVE Types'
  <2>1. PICK s \in todo[w] :
           /\ todo' = [todo EXCEPT ![w] = @ \ {s}]
           /\ Offer(s, Scoped(interest[s], delta[w])) \/ UNCHANGED <<queue, consumer, lagged>>
           /\ call' = call \/ call' = [call EXCEPT ![w] = [at |-> "flag", sub |-> s]]
    BY <1>8, FanOutOutcome
  <2>2. s \in Subs /\ delta[w] \in Deltas
    BY DEF Types
  <2>3. /\ queue' \in [Subs -> Seq(Deltas)] /\ lagged' \in [Subs -> BOOLEAN]
        /\ consumer' \in [Subs -> {"none", "running", "waiting", "stopped"}]
    <3>1. CASE Offer(s, Scoped(interest[s], delta[w]))
      BY <2>2, <3>1, OfferTyped, ScopedTyped
    <3>2. CASE UNCHANGED <<queue, consumer, lagged>>
      BY <3>2 DEF Types
    <3> QED BY <2>1, <3>1, <3>2
  <2>4. call' \in [Threads -> {NoCall} \cup Closing]
    <3>1. [at |-> "flag", sub |-> s] \in Closing /\ call \in [Threads -> {NoCall} \cup Closing]
      BY <2>2 DEF Types, Closing
    <3> QED BY <2>1, <3>1
  <2>5. todo' \in [Writers -> SUBSET created]
    BY <2>1 DEF Types
  <2>6. UNCHANGED <<rev, overflow, wpc, delta, bus, session, interest, closed, created, missing, seen>>
    BY <1>8, FanOutOutcome
  <2> QED BY <2>3, <2>4, <2>5, <2>6 DEF Types
<1>9. ASSUME NEW w \in Writers, Return(w) PROVE Types'
  BY <1>9 DEF Return, Types
<1>10. ASSUME NEW t \in Threads, CloseFlag(t) PROVE Types'
  <2>1. call[t].sub \in Subs
    BY <1>10 DEF CloseFlag, Types, NoCall, Closing
  <2>2. CASE closed[call[t].sub]
    BY <1>10, <2>1, <2>2 DEF CloseFlag, Types
  <2>3. CASE ~closed[call[t].sub]
    <3>1. [at |-> "unregister", sub |-> call[t].sub] \in Closing
      BY <2>1 DEF Closing
    <3>2. consumer' \in [Subs -> {"none", "running", "waiting", "stopped"}]
      BY <1>10, <2>1, <2>3, NotifyTyped DEF CloseFlag
    <3> QED BY <1>10, <2>1, <2>3, <3>1, <3>2 DEF CloseFlag, Types
  <2> QED BY <2>2, <2>3
<1>11. ASSUME NEW t \in Threads, CloseUnregister(t) PROVE Types'
  <2>1. call[t].sub \in Subs
    BY <1>11 DEF CloseUnregister, Types, NoCall, Closing
  <2> QED BY <1>11, <2>1 DEF CloseUnregister, Types, Closing
<1>12. ASSUME NEW t \in Threads, CloseClear(t) PROVE Types'
  <2>1. call[t].sub \in Subs
    BY <1>12 DEF CloseClear, Types, NoCall, Closing
  <2> QED BY <1>12, <2>1 DEF CloseClear, Types, Closing
<1>13. ASSUME SessionClose PROVE Types'
  BY <1>13 DEF SessionClose, Types
<1>14. ASSUME SessionClosesOne PROVE Types'
  BY <1>14 DEF SessionClosesOne, Types, Closing, Threads
<1>15. ASSUME SessionClosed PROVE Types'
  BY <1>15 DEF SessionClosed, Types
<1>16. CASE UNCHANGED vars
  BY <1>16 DEF vars, Types
<1> QED BY <1>1, <1>2, <1>3, <1>4, <1>5, <1>6, <1>7, <1>8, <1>9, <1>10, <1>11, <1>12,
           <1>13, <1>14, <1>15, <1>16 DEF Next
-----------------------------------------------------------------------------
(* Release. *)

(* A step that leaves queues, flags and the registry alone keeps ReleaseInv when the
   threads inside the last two sections of a close stay there. *)
LEMMA ReleaseKept ==
    ASSUME Types, ReleaseInv, UNCHANGED <<queue, closed>>, created' = created,
           registry' \subseteq registry,
           \A t \in Threads : \/ call'[t] = call[t]
                              \/ /\ call[t].at \in {"none", "flag"}
                                 /\ call'[t].at \in {"none", "flag"}
                                 /\ call'[t] # NoCall => call'[t].sub \in created
    PROVE  ReleaseInv'
<1>1. \A t \in Threads, s \in Subs : /\ Unregisters(t, s) => Unregisters(t, s)'
                                     /\ Clears(t, s) => Clears(t, s)'
  BY DEF Unregisters, Clears
<1>2. \A s \in Subs : closed[s] /\ s \in registry' => \E t \in Threads : Unregisters(t, s)'
  BY <1>1 DEF ReleaseInv
<1>3. \A s \in Subs : closed[s] /\ queue[s] # <<>> =>
          \E t \in Threads : Unregisters(t, s)' \/ Clears(t, s)'
  BY <1>1 DEF ReleaseInv
<1>4. \A t \in Threads : call'[t] # NoCall => call'[t].sub \in created'
  BY DEF ReleaseInv
<1>5. \A t \in Threads, s \in Subs : Unregisters(t, s)' \/ Clears(t, s)' => closed[s]
  BY DEF ReleaseInv, Unregisters, Clears
<1> QED BY <1>2, <1>3, <1>4, <1>5 DEF ReleaseInv

(* Every step keeps ReleaseInv. *)
LEMMA NextRelease == Types /\ ReleaseInv /\ [Next]_vars => ReleaseInv'
<1> SUFFICES ASSUME Types, ReleaseInv, [Next]_vars PROVE ReleaseInv'
  OBVIOUS
<1> USE DEF writers, bus, session, sub
<1>0. NoCall.at = "none" /\ \A t \in Writers \cup Subs \cup {Session} : t \in Threads
  BY DEF NoCall, Threads
<1>1. ASSUME NEW s \in Subs, Subscribe(s) PROVE ReleaseInv'
  <2>1. /\ s \notin created /\ created' = created \cup {s} /\ registry' = registry \cup {s}
        /\ UNCHANGED <<closed, queue, call>>
    BY <1>1 DEF Subscribe
  <2>2. ~closed[s]
    BY <2>1 DEF ReleaseInv
  <2> QED BY <2>1, <2>2 DEF ReleaseInv, Unregisters, Clears
<1>2. ASSUME NEW s \in Subs, SubscribeLate(s) PROVE ReleaseInv'
  <2>1. /\ s \notin created /\ created' = created \cup {s} /\ closed' = [closed EXCEPT ![s] = TRUE]
        /\ UNCHANGED <<registry, queue, call>>
    BY <1>2 DEF SubscribeLate
  <2>2. queue[s] = <<>> /\ s \notin registry /\ \A r \in Subs \ {s} : closed'[r] = closed[r]
    BY <2>1 DEF ReleaseInv, Types
  <2> QED BY <2>1, <2>2 DEF ReleaseInv, Unregisters, Clears
<1>3. ASSUME NEW s \in Subs, OwnerCloses(s) PROVE ReleaseInv'
  <2>1. \A t \in Threads : call'[t] = IF t = s THEN [at |-> "flag", sub |-> s] ELSE call[t]
    BY <1>3 DEF OwnerCloses, Types
  <2> QED BY <1>0, <1>3, <2>1, ReleaseKept DEF OwnerCloses
<1>4. ASSUME NEW s \in Subs, Take(s) PROVE ReleaseInv'
  <2>1. UNCHANGED <<closed, created, call, registry>>
    BY <1>4 DEF Take
  <2>2. CASE queue[s] = <<>>
    BY <1>4, <2>1, <2>2, ReleaseKept DEF Take
  <2>3. CASE queue[s] # <<>>
    <3>1. queue' = [queue EXCEPT ![s] = Tail(queue[s])]
      BY <1>4, <2>3 DEF Take
    <3>2. queue[s] \in Seq(Deltas)
      BY DEF Types
    <3>3. Len(Tail(queue[s])) <= Len(queue[s]) /\ Len(Tail(queue[s])) \in Nat /\ Len(queue[s]) \in Nat
      BY <2>3, <3>2
    <3>4. \A r \in Subs : /\ queue'[r] # <<>> => queue[r] # <<>>
                          /\ r \notin created => queue'[r] = <<>>
                          /\ Len(queue'[r]) <= Cap
      BY <2>3, <3>1, <3>3, CapFacts DEF ReleaseInv, Types
    <3> QED BY <2>1, <3>4 DEF ReleaseInv, Unregisters, Clears
  <2> QED BY <2>2, <2>3
<1>5. ASSUME NEW w \in Writers, \/ Commit(w) \/ ScheduleRaises(w) \/ PublishDelta(w)
                                \/ Publish(w) \/ Return(w)
      PROVE  ReleaseInv'
  BY <1>5, ReleaseKept DEF Commit, ScheduleRaises, PublishDelta, Publish, Return
<1>6. ASSUME NEW w \in Writers, FanOut(w) PROVE ReleaseInv'
  <2>1. PICK s \in todo[w] :
           /\ Offer(s, Scoped(interest[s], delta[w])) \/ UNCHANGED <<queue, consumer, lagged>>
           /\ call' = call \/ call' = [call EXCEPT ![w] = [at |-> "flag", sub |-> s]]
    BY <1>6, FanOutOutcome
  <2>2. s \in created /\ s \in Subs /\ delta[w] \in Deltas
    BY DEF Types
  <2>3. call[w] = NoCall /\ UNCHANGED <<registry, closed, created>>
    BY <1>6, FanOutOutcome
  <2>4. \A r \in Subs : /\ closed[r] => queue'[r] = queue[r]
                        /\ r \notin created => queue'[r] = queue[r]
                        /\ Len(queue'[r]) <= Cap
    <3>1. CASE Offer(s, Scoped(interest[s], delta[w]))
      BY <2>2, <3>1, OfferTyped, ScopedTyped DEF ReleaseInv
    <3>2. CASE queue' = queue
      BY <3>2 DEF ReleaseInv
    <3> QED BY <2>1, <3>1, <3>2
  <2>5. \A t \in Threads : \/ call'[t] = call[t]
                           \/ /\ call[t] = NoCall /\ call'[t].at = "flag"
                              /\ call'[t].sub \in created
    BY <2>1, <2>2, <2>3 DEF Types
  <2>6. \A t \in Threads, r \in Subs : /\ Unregisters(t, r) => Unregisters(t, r)'
                                       /\ Clears(t, r) => Clears(t, r)'
    BY <1>0, <2>5 DEF Unregisters, Clears
  <2>7. \A r \in Subs : closed[r] /\ r \in registry => \E t \in Threads : Unregisters(t, r)'
    BY <2>6 DEF ReleaseInv
  <2>8. \A r \in Subs : closed[r] /\ queue'[r] # <<>> =>
           \E t \in Threads : Unregisters(t, r)' \/ Clears(t, r)'
    BY <2>4, <2>6 DEF ReleaseInv
  <2>9. \A t \in Threads : call'[t] # NoCall => call'[t].sub \in created
    BY <2>5 DEF ReleaseInv
  <2>10. \A t \in Threads, r \in Subs : Unregisters(t, r)' \/ Clears(t, r)' => closed[r]
    BY <2>5 DEF ReleaseInv, Unregisters, Clears
  <2> QED BY <2>3, <2>4, <2>7, <2>8, <2>9, <2>10 DEF ReleaseInv
<1>7. ASSUME NEW t \in Threads, CloseFlag(t) PROVE ReleaseInv'
  <2>1. PICK s \in Subs : call[t] = [at |-> "flag", sub |-> s] /\ s \in created
    BY <1>0, <1>7 DEF CloseFlag, Types, Closing, ReleaseInv
  <2>2. UNCHANGED <<queue, created, registry>>
    BY <1>7 DEF CloseFlag
  <2>3. CASE closed[s]
    <3>1. UNCHANGED closed /\ \A u \in Threads : call'[u] = IF u = t THEN NoCall ELSE call[u]
      BY <1>7, <2>1, <2>3 DEF CloseFlag, Types
    <3> QED BY <1>0, <2>1, <2>2, <3>1, ReleaseKept
  <2>4. CASE ~closed[s]
    <3>1. /\ closed' = [closed EXCEPT ![s] = TRUE]
          /\ call' = [call EXCEPT ![t] = [at |-> "unregister", sub |-> s]]
      BY <1>7, <2>1, <2>4 DEF CloseFlag
    <3>2. Unregisters(t, s)' /\ \A u \in Threads \ {t} : call'[u] = call[u]
      BY <3>1 DEF Unregisters, Types
    <3>3. \A r \in Subs \ {s} : closed'[r] = closed[r]
      BY <3>1 DEF Types
    <3>4. \A u \in Threads, r \in Subs : /\ Unregisters(u, r) => Unregisters(u, r)'
                                         /\ Clears(u, r) => Clears(u, r)'
      BY <2>1, <3>2 DEF Unregisters, Clears
    <3>5. \A r \in Subs : closed'[r] /\ r \in registry => \E u \in Threads : Unregisters(u, r)'
      <4> SUFFICES ASSUME NEW r \in Subs, closed'[r], r \in registry
                   PROVE  \E u \in Threads : Unregisters(u, r)'
        OBVIOUS
      <4>1. CASE r = s
        BY <3>2, <4>1 DEF Unregisters
      <4>2. CASE r # s
        BY <3>3, <3>4, <4>2 DEF ReleaseInv
      <4> QED BY <4>1, <4>2
    <3>6. \A r \in Subs : closed'[r] /\ queue[r] # <<>> =>
             \E u \in Threads : Unregisters(u, r)' \/ Clears(u, r)'
      <4> SUFFICES ASSUME NEW r \in Subs, closed'[r], queue[r] # <<>>
                   PROVE  \E u \in Threads : Unregisters(u, r)' \/ Clears(u, r)'
        OBVIOUS
      <4>1. CASE r = s
        BY <3>2, <4>1 DEF Unregisters
      <4>2. CASE r # s
        BY <3>3, <3>4, <4>2 DEF ReleaseInv
      <4> QED BY <4>1, <4>2
    <3>7. \A u \in Threads : call'[u] # NoCall => call'[u].sub \in created
      BY <2>1, <3>1 DEF ReleaseInv, Types
    <3>8. \A r \in Subs \ created : ~closed'[r]
      BY <2>1, <3>3 DEF ReleaseInv
    <3>9. \A u \in Threads, r \in Subs : Unregisters(u, r)' \/ Clears(u, r)' => closed'[r]
      <4> SUFFICES ASSUME NEW u \in Threads, NEW r \in Subs \ {s},
                          Unregisters(u, r)' \/ Clears(u, r)'
                   PROVE  closed[r]
        BY <3>1, <3>3 DEF Types
      <4>1. u # t
        BY <3>2 DEF Unregisters, Clears
      <4> QED BY <3>2, <4>1 DEF ReleaseInv, Unregisters, Clears
    <3> QED BY <2>2, <3>5, <3>6, <3>7, <3>8, <3>9 DEF ReleaseInv
  <2> QED BY <2>3, <2>4
<1>8. ASSUME NEW t \in Threads, CloseUnregister(t) PROVE ReleaseInv'
  <2>1. PICK s \in Subs : call[t] = [at |-> "unregister", sub |-> s] /\ s \in created
    BY <1>0, <1>8 DEF CloseUnregister, Types, Closing, ReleaseInv
  <2>2. /\ UNCHANGED <<queue, created, closed>> /\ registry' = registry \ {s}
        /\ call' = [call EXCEPT ![t] = [at |-> "clear", sub |-> s]]
    BY <1>8, <2>1 DEF CloseUnregister
  <2>3. Clears(t, s)' /\ \A u \in Threads \ {t} : call'[u] = call[u]
    BY <2>2 DEF Clears, Types
  <2>4. \A r \in Subs : ~Clears(t, r) /\ (Unregisters(t, r) => r = s)
    BY <2>1 DEF Clears, Unregisters
  <2>5. \A r \in Subs : closed[r] /\ r \in registry' => \E u \in Threads : Unregisters(u, r)'
    BY <2>2, <2>3, <2>4 DEF ReleaseInv, Unregisters
  <2>6. \A r \in Subs : closed[r] /\ queue[r] # <<>> =>
           \E u \in Threads : Unregisters(u, r)' \/ Clears(u, r)'
    <3> SUFFICES ASSUME NEW r \in Subs, closed[r], queue[r] # <<>>
                 PROVE  \E u \in Threads : Unregisters(u, r)' \/ Clears(u, r)'
      OBVIOUS
    <3>1. PICK u \in Threads : Unregisters(u, r) \/ Clears(u, r)
      BY DEF ReleaseInv
    <3>2. CASE u = t
      BY <2>3, <2>4, <3>1, <3>2 DEF Clears
    <3>3. CASE u # t
      BY <2>3, <3>1, <3>3 DEF Unregisters, Clears
    <3> QED BY <3>2, <3>3
  <2>7. \A u \in Threads : call'[u] # NoCall => call'[u].sub \in created
    BY <2>1, <2>2 DEF ReleaseInv, Types
  <2>8. \A u \in Threads, r \in Subs : Unregisters(u, r)' \/ Clears(u, r)' => closed[r]
    BY <2>1, <2>3 DEF ReleaseInv, Unregisters, Clears
  <2> QED BY <2>2, <2>5, <2>6, <2>7, <2>8 DEF ReleaseInv
<1>9. ASSUME NEW t \in Threads, CloseClear(t) PROVE ReleaseInv'
  <2>1. PICK s \in Subs : call[t] = [at |-> "clear", sub |-> s] /\ s \in created
    BY <1>0, <1>9 DEF CloseClear, Types, Closing, ReleaseInv
  <2>2. /\ UNCHANGED <<registry, created, closed>> /\ queue' = [queue EXCEPT ![s] = <<>>]
        /\ call' = [call EXCEPT ![t] = NoCall]
    BY <1>9, <2>1 DEF CloseClear
  <2>3. /\ queue'[s] = <<>> /\ \A r \in Subs \ {s} : queue'[r] = queue[r]
        /\ \A u \in Threads \ {t} : call'[u] = call[u]
    BY <2>1, <2>2 DEF Types
  <2>4. \A r \in Subs : ~Unregisters(t, r) /\ (Clears(t, r) => r = s)
    BY <2>1 DEF Clears, Unregisters
  <2>5. \A r \in Subs : closed[r] /\ r \in registry => \E u \in Threads : Unregisters(u, r)'
    BY <2>3, <2>4 DEF ReleaseInv, Unregisters
  <2>6. \A r \in Subs : closed[r] /\ queue'[r] # <<>> =>
           \E u \in Threads : Unregisters(u, r)' \/ Clears(u, r)'
    <3> SUFFICES ASSUME NEW r \in Subs \ {s}, closed[r], queue[r] # <<>>
                 PROVE  \E u \in Threads : Unregisters(u, r)' \/ Clears(u, r)'
      BY <2>3
    <3>1. PICK u \in Threads : Unregisters(u, r) \/ Clears(u, r)
      BY DEF ReleaseInv
    <3> QED BY <2>3, <2>4, <3>1 DEF Unregisters, Clears
  <2>7. \A u \in Threads : call'[u] # NoCall => call'[u].sub \in created
    BY <2>2 DEF ReleaseInv, Types
  <2>8. \A r \in Subs : Len(queue'[r]) <= Cap
    BY <2>3, CapFacts DEF ReleaseInv
  <2>9. call'[t] = NoCall
    BY <2>2 DEF Types
  <2>10. \A u \in Threads, r \in Subs : Unregisters(u, r)' \/ Clears(u, r)' => closed[r]
    BY <1>0, <2>3, <2>9 DEF ReleaseInv, Unregisters, Clears
  <2> QED BY <2>2, <2>3, <2>5, <2>6, <2>7, <2>8, <2>10 DEF ReleaseInv
<1>10. ASSUME SessionClose \/ SessionClosed PROVE ReleaseInv'
  BY <1>10, ReleaseKept DEF SessionClose, SessionClosed
<1>11. ASSUME SessionClosesOne PROVE ReleaseInv'
  <2>1. PICK s \in toClose : call' = [call EXCEPT ![Session] = [at |-> "flag", sub |-> s]]
    BY <1>11 DEF SessionClosesOne
  <2>2. \A t \in Threads : call'[t] = IF t = Session THEN [at |-> "flag", sub |-> s] ELSE call[t]
    BY <2>1 DEF Types
  <2>3. s \in created
    BY DEF Types
  <2> QED BY <1>0, <1>11, <2>2, <2>3, ReleaseKept DEF SessionClosesOne
<1>12. CASE UNCHANGED vars
  BY <1>12, ReleaseKept DEF vars
<1> QED BY <1>1, <1>2, <1>3, <1>4, <1>5, <1>6, <1>7, <1>8, <1>9, <1>10, <1>11, <1>12 DEF Next
-----------------------------------------------------------------------------
(* Order. *)

(* A step of the only writer, or of nobody who publishes or takes, keeps the order of
   what subscribers have when it leaves queues alone and publishes nothing. *)
LEMMA OrderedKept ==
    ASSUME NEW s \in Subs, Ordered(s), UNCHANGED <<queue, seen>>, last' = last
    PROVE  Ordered(s)' /\ (Waits(s) => Waits(s)')
BY DEF Ordered, Waits

(* Appending a newer delta keeps the order. *)
LEMMA AppendOrdered ==
    ASSUME Types, NEW s \in Subs, Ordered(s), Waits(s), NEW d \in Deltas, d.rev = last,
           last' = last, seen' = seen, queue'[s] = Append(queue[s], d)
    PROVE  Ordered(s)'
<1> DEFINE q == queue[s]
           r == Append(q, d)
<1>1. q \in Seq(Deltas) /\ seen[s] \in Nat /\ last \in Nat
  BY DEF Types
<1>2. /\ Len(r) = Len(q) + 1 /\ r[Len(q) + 1] = d /\ Len(q) \in Nat
      /\ \A i \in 1..Len(q) : r[i] = q[i] /\ q[i].rev \in Nat
  BY <1>1, RevTyped
<1>3. \A i \in 1..Len(r) : seen[s] < r[i].rev /\ r[i].rev <= last
  BY <1>1, <1>2 DEF Ordered, Waits
<1>4. \A i, j \in 1..Len(r) : i < j => r[i].rev < r[j].rev
  <2> SUFFICES ASSUME NEW i \in 1..Len(r), NEW j \in 1..Len(r), i < j
               PROVE  r[i].rev < r[j].rev
    OBVIOUS
  <2> HIDE DEF r, q
  <2>1. i \in 1..Len(q) /\ (j = Len(q) + 1 \/ j \in 1..Len(q))
    BY <1>2
  <2>2. CASE j = Len(q) + 1
    BY <1>1, <1>2, <2>1, <2>2 DEF Waits, q
  <2>3. CASE j \in 1..Len(q)
    BY <1>2, <2>1, <2>3 DEF Ordered, q
  <2> QED BY <2>1, <2>2, <2>3
<1> QED BY <1>3, <1>4 DEF Ordered

(* So does merging it into the tail, which takes its revision. *)
LEMMA MergeOrdered ==
    ASSUME Types, NEW s \in Subs, Ordered(s), Waits(s), NEW d \in Deltas, d.rev = last,
           Len(queue[s]) > 0,
           last' = last, seen' = seen, queue'[s] = IntoTail(queue[s], d)
    PROVE  Ordered(s)'
<1> DEFINE q == queue[s]
           r == IntoTail(q, d)
           n == Len(q)
<1>1. q \in Seq(Deltas) /\ seen[s] \in Nat /\ last \in Nat
  BY DEF Types
<1>2. n \in 1..n /\ n \in Nat /\ \A i \in 1..n : q[i].rev \in Nat
  BY <1>1, RevTyped
<1>3. /\ Len(r) = n /\ \A i \in 1..n : i # n => r[i] = q[i]
      /\ r[n].rev = (IF q[n].rev < d.rev THEN d.rev ELSE q[n].rev)
  BY <1>1, MergedTail
<1> HIDE DEF r, q, n
<1>4. r[n].rev = last
  BY <1>2, <1>3 DEF Waits, q, n
<1>5. \A i \in 1..n : seen[s] < r[i].rev /\ r[i].rev <= last
  BY <1>1, <1>2, <1>3, <1>4 DEF Ordered, Waits, q, n
<1>6. \A i, j \in 1..n : i < j => r[i].rev < r[j].rev
  <2> SUFFICES ASSUME NEW i \in 1..n, NEW j \in 1..n, i < j
               PROVE  r[i].rev < r[j].rev
    OBVIOUS
  <2>1. i # n /\ r[i] = q[i]
    BY <1>2, <1>3
  <2>2. CASE j = n
    BY <1>4, <2>1, <2>2 DEF Waits, q, n
  <2>3. CASE j # n
    BY <1>3, <2>1, <2>3 DEF Ordered, q, n
  <2> QED BY <2>2, <2>3
<1>7. queue'[s] = r /\ Len(queue'[s]) = n
  BY <1>3 DEF r, q
<1> QED BY <1>5, <1>6, <1>7 DEF Ordered

(* Taking the first delta keeps the order. *)
LEMMA TakeOrdered ==
    ASSUME Types, NEW s \in Subs, Ordered(s), queue[s] # <<>>, last' = last,
           seen'[s] = Head(queue[s]).rev, queue'[s] = Tail(queue[s])
    PROVE  Ordered(s)' /\ (Waits(s) => Waits(s)')
<1> DEFINE q == queue[s]
           r == Tail(q)
<1>1. q \in Seq(Deltas) /\ last \in Nat
  BY DEF Types
<1>2. /\ Len(q) \in Nat /\ Len(q) > 0 /\ Len(r) = Len(q) - 1 /\ Head(q) = q[1]
      /\ \A i \in 1..Len(r) : r[i] = q[i + 1]
  BY <1>1
<1>3. \A i \in 1..Len(q) : q[i].rev \in Nat
  BY <1>1, RevTyped
<1> HIDE DEF q, r
<1>4. \A i \in 1..Len(r) : i + 1 \in 1..Len(q) /\ 1 \in 1..Len(q) /\ 1 < i + 1
  BY <1>2
<1>5. \A i \in 1..Len(r) : seen'[s] < r[i].rev /\ r[i].rev <= last
  BY <1>2, <1>4 DEF Ordered, q
<1>6. \A i, j \in 1..Len(r) : i < j => r[i].rev < r[j].rev
  BY <1>2, <1>4 DEF Ordered, q
<1>7. seen'[s] <= last /\ (Waits(s) => seen'[s] < last)
  BY <1>2 DEF Ordered, Waits, q
<1>8. Waits(s) => \A i \in 1..Len(r) : r[i].rev < last
  BY <1>2, <1>4 DEF Waits, q
<1> QED BY <1>5, <1>6, <1>7, <1>8 DEF Ordered, Waits, r, q

(* Offering what was last published to a subscriber that waits for it keeps the order. *)
LEMMA OfferOrdered ==
    ASSUME Types, ReleaseInv, NEW s \in Subs, Ordered(s), Waits(s), NEW d \in Deltas,
           d.rev = last, Offer(s, d), last' = last, seen' = seen
    PROVE  Ordered(s)'
<1>1. queue \in [Subs -> Seq(Deltas)]
  BY DEF Types
<1>2. CASE queue' = queue
  BY <1>2, OrderedKept
<1>3. CASE queue' = [queue EXCEPT ![s] = Append(queue[s], d)]
  BY <1>1, <1>3, AppendOrdered
<1>4. CASE ~Room(s) /\ queue' = [queue EXCEPT ![s] = IntoTail(queue[s], d)]
  <2>1. Len(queue[s]) > 0
    BY <1>1, <1>4, CapFacts
  <2> QED BY <1>1, <1>4, <2>1, MergeOrdered
<1> QED BY <1>2, <1>3, <1>4, OfferOutcome

(* Steps that are none of the writer's and that leave queues alone. *)
Aside == UNCHANGED <<rev, last, refused, wpc, delta, todo, queue, seen>>

(* Every step keeps OneOrder. *)
LEMMA NextOrder == Types /\ ReleaseInv /\ OrderInv /\ [Next]_vars => OrderInv'
<1> SUFFICES ASSUME Types, ReleaseInv, [Next]_vars, NEW w \in Writers, Writers = {w},
                    OneOrder(w)
             PROVE  OneOrder(w)'
  BY DEF OrderInv
<1> USE DEF writers, bus, session, sub
<1>0. /\ rev \in Nat /\ last \in Nat /\ delta[w] \in Deltas /\ delta[w].rev \in Nat
      /\ wpc[w] \in {"idle", "committed", "publish", "fanout"}
      /\ \A s \in todo[w] : s \in Subs
  <2>1. delta[w] \in Deltas
    BY DEF Types
  <2> QED BY <2>1 DEF Types, Deltas
<1>1. ASSUME Aside PROVE OneOrder(w)'
  <2>1. \A s \in Subs : Ordered(s)' /\ (Waits(s) => Waits(s)')
    BY <1>1 DEF OneOrder, Ordered, Waits, Aside
  <2> QED BY <1>0, <1>1, <2>1 DEF OneOrder, Aside
<1>2. ASSUME NEW s \in Subs, Take(s) PROVE OneOrder(w)'
  <2>1. CASE queue[s] = <<>>
    <3>1. Aside
      BY <1>2, <2>1 DEF Take, Aside
    <3> QED BY <1>1, <3>1
  <2>2. CASE queue[s] # <<>>
    <3>1. /\ seen' = [seen EXCEPT ![s] = Head(queue[s]).rev]
          /\ queue' = [queue EXCEPT ![s] = Tail(queue[s])]
          /\ UNCHANGED <<rev, last, refused, wpc, delta, todo>>
      BY <1>2, <2>2 DEF Take
    <3>2. seen'[s] = Head(queue[s]).rev /\ queue'[s] = Tail(queue[s])
      BY <3>1 DEF Types
    <3>3. Ordered(s)' /\ (Waits(s) => Waits(s)')
      BY <2>2, <3>1, <3>2, TakeOrdered DEF OneOrder
    <3>4. \A r \in Subs \ {s} : Ordered(r)' /\ (Waits(r) => Waits(r)')
      BY <3>1 DEF Types, OneOrder, Ordered, Waits
    <3>5. \A r \in Subs : Ordered(r)' /\ (Waits(r) => Waits(r)')
      <4> TAKE r \in Subs
      <4>1. CASE r = s
        BY <3>3, <4>1 DEF Ordered, Waits
      <4>2. CASE r # s
        BY <3>4, <4>2
      <4> QED BY <4>1, <4>2
    <3> QED BY <1>0, <3>1, <3>5 DEF OneOrder
  <2> QED BY <2>1, <2>2
<1>3. ASSUME Commit(w) PROVE OneOrder(w)'
  <2>1. /\ wpc[w] = "idle" /\ rev' = rev + 1
        /\ UNCHANGED <<last, refused, queue, seen>>
    BY <1>3 DEF Commit
  <2>2. PICK c \in Changes :
           delta' = [delta EXCEPT ![w] = DeltaOf(c)]
    BY <1>3 DEF Commit
  <2>3. delta'[w].rev = rev + 1 /\ wpc'[w] = "committed"
    BY <1>3, <2>2 DEF Types, Commit, DeltaOf
  <2>4. \A s \in Subs : Ordered(s)'
    BY <2>1, OrderedKept DEF OneOrder
  <2> QED BY <1>0, <2>1, <2>3, <2>4 DEF OneOrder
<1>4. ASSUME PublishDelta(w) \/ ScheduleRaises(w) PROVE OneOrder(w)'
  <2>1. /\ wpc[w] = "committed" /\ wpc'[w] \in {"idle", "publish"}
        /\ UNCHANGED <<rev, delta, last, refused, queue, seen>>
    BY <1>4 DEF PublishDelta, ScheduleRaises, Types
  <2>2. \A s \in Subs : Ordered(s)'
    BY <2>1, OrderedKept DEF OneOrder
  <2> QED BY <1>0, <2>1, <2>2 DEF OneOrder
<1>5. ASSUME Publish(w) PROVE OneOrder(w)'
  <2>1. wpc[w] = "publish" /\ UNCHANGED <<rev, delta, queue, seen>>
    BY <1>5 DEF Publish
  <2>2. last < rev /\ delta[w].rev = rev
    BY <2>1 DEF OneOrder
  <2>3. CASE wpc' = [wpc EXCEPT ![w] = "idle"] /\ UNCHANGED <<last, refused>>
    <3>1. \A s \in Subs : Ordered(s)'
      BY <2>1, <2>3, OrderedKept DEF OneOrder
    <3> QED BY <1>0, <2>1, <2>3, <3>1 DEF OneOrder, Types
  <2>4. CASE /\ wpc' = [wpc EXCEPT ![w] = "fanout"] /\ last' = delta[w].rev
             /\ refused' = refused
    <3>1. \A s \in Subs : Ordered(s)' /\ Waits(s)'
      <4> TAKE s \in Subs
      <4>1. /\ seen[s] \in Nat /\ seen[s] <= last
            /\ \A i \in 1..Len(queue[s]) : queue[s][i].rev \in Nat /\ queue[s][i].rev <= last
        BY RevTyped DEF OneOrder, Ordered, Types
      <4>2. /\ last' = rev /\ seen[s] < rev /\ seen[s] <= rev
            /\ \A i \in 1..Len(queue[s]) : queue[s][i].rev < rev /\ queue[s][i].rev <= rev
        BY <1>0, <2>2, <2>4, <4>1
      <4>3. Ordered(s)
        BY DEF OneOrder
      <4> QED BY <2>1, <4>2, <4>3 DEF Ordered, Waits
    <3>2. todo'[w] \subseteq Subs
      BY <1>5, <2>4 DEF Publish, Types
    <3> QED BY <1>0, <2>1, <2>2, <2>4, <3>1, <3>2 DEF OneOrder, Types
  <2>5. ~(delta[w].rev <= last)
    BY <1>0, <2>2
  <2> QED BY <1>5, <2>3, <2>4, <2>5 DEF Publish
<1>6. ASSUME FanOut(w) PROVE OneOrder(w)'
  <2>1. PICK s \in todo[w] :
           /\ todo' = [todo EXCEPT ![w] = @ \ {s}]
           /\ Offer(s, Scoped(interest[s], delta[w])) \/ queue' = queue
    BY <1>6, FanOutOutcome
  <2>2. wpc[w] = "fanout" /\ UNCHANGED <<rev, wpc, delta, last, refused, seen>>
    BY <1>6, FanOutOutcome
  <2>3. s \in Subs /\ Ordered(s) /\ Waits(s) /\ last = rev /\ delta[w].rev = rev
    BY <1>0, <2>2 DEF OneOrder
  <2>4. Ordered(s)' /\ \A r \in Subs \ {s} : queue'[r] = queue[r]
    <3>1. CASE queue' = queue
      BY <2>2, <2>3, <3>1, OrderedKept
    <3>2. CASE Offer(s, Scoped(interest[s], delta[w]))
      <4>1. Scoped(interest[s], delta[w]) \in Deltas /\ Scoped(interest[s], delta[w]).rev = last
        BY <1>0, <2>3, ScopedTyped
      <4> QED BY <2>2, <2>3, <3>2, <4>1, OfferOrdered, OfferTyped
    <3> QED BY <2>1, <3>1, <3>2
  <2>5. \A r \in Subs \ {s} : Ordered(r)' /\ (Waits(r) => Waits(r)')
    BY <2>2, <2>4 DEF OneOrder, Ordered, Waits
  <2>6. todo'[w] = todo[w] \ {s}
    BY <2>1 DEF Types
  <2>7. \A r \in Subs : Ordered(r)'
    <3> TAKE r \in Subs
    <3>1. CASE r = s
      BY <2>4, <3>1 DEF Ordered
    <3>2. CASE r # s
      BY <2>5, <3>2
    <3> QED BY <3>1, <3>2
  <2> QED BY <1>0, <2>2, <2>5, <2>6, <2>7 DEF OneOrder
<1>7. ASSUME Return(w) PROVE OneOrder(w)'
  <2>1. wpc'[w] = "idle" /\ UNCHANGED <<rev, delta, last, refused, queue, seen>>
    BY <1>7 DEF Return, Types
  <2>2. \A s \in Subs : Ordered(s)'
    BY <2>1, OrderedKept DEF OneOrder
  <2> QED BY <1>0, <2>1, <2>2 DEF OneOrder
<1>8. ASSUME NEW t \in Threads, CloseClear(t) PROVE OneOrder(w)'
  <2>1. PICK s \in Subs : call[t].sub = s
    <3>1. call[t] \in Closing
      BY <1>8 DEF CloseClear, Types, NoCall
    <3> QED BY <3>1 DEF Closing
  <2>2. queue' = [queue EXCEPT ![s] = <<>>] /\ UNCHANGED <<rev, last, refused, wpc, delta, todo, seen>>
    BY <1>8, <2>1 DEF CloseClear
  <2>3. queue'[s] = <<>> /\ \A r \in Subs \ {s} : queue'[r] = queue[r]
    BY <2>2 DEF Types
  <2>4. \A r \in Subs : Ordered(r)' /\ (Waits(r) => Waits(r)')
    <3> TAKE r \in Subs
    <3>1. CASE r = s
      BY <2>2, <2>3, <3>1 DEF OneOrder, Ordered, Waits
    <3>2. CASE r # s
      BY <2>2, <2>3, <3>2 DEF OneOrder, Ordered, Waits
    <3> QED BY <3>1, <3>2
  <2> QED BY <1>0, <2>2, <2>4 DEF OneOrder
<1>9. ASSUME NEW s \in Subs, Subscribe(s) \/ SubscribeLate(s) \/ OwnerCloses(s) PROVE OneOrder(w)'
  <2>1. Aside
    BY <1>9 DEF Subscribe, SubscribeLate, OwnerCloses, Aside
  <2> QED BY <1>1, <2>1
<1>10. ASSUME NEW t \in Threads, CloseFlag(t) \/ CloseUnregister(t) PROVE OneOrder(w)'
  <2>1. Aside
    BY <1>10 DEF CloseFlag, CloseUnregister, Aside
  <2> QED BY <1>1, <2>1
<1>11. ASSUME SessionClose \/ SessionClosesOne \/ SessionClosed PROVE OneOrder(w)'
  <2>1. Aside
    BY <1>11 DEF SessionClose, SessionClosesOne, SessionClosed, Aside
  <2> QED BY <1>1, <2>1
<1>12. CASE UNCHANGED vars
  BY <1>1, <1>12 DEF vars, Aside
<1> QED BY <1>2, <1>3, <1>4, <1>5, <1>6, <1>7, <1>8, <1>9, <1>10, <1>11, <1>12 DEF Next
-----------------------------------------------------------------------------
(* Nothing hidden. *)

(* The slice of a delta that passes the filters of an interest. *)
LEMMA SliceFacts ==
    ASSUME NEW i, NEW d, ~(i.all \/ d.rescan)
    PROVE  Scoped(i, d).rev = d.rev /\ Scoped(i, d).ids = Filtered(d.ids, i.ids)
<1>1. Scoped(i, d) = [rev |-> d.rev, ids |-> Filtered(d.ids, i.ids),
                      affected |-> Filtered(d.affected, i.ids),
                      files |-> Filtered(d.files, i.files),
                      layers |-> Filtered(d.layers, i.layers), rescan |-> d.rescan]
  BY Zenon DEF Scoped
<1> QED BY <1>1

(* What an interest that does not combine ids with files or layers asks for is in the
   slice that publish offers. *)
LEMMA AskedIsOffered ==
    ASSUME NEW i, NEW d \in Deltas, Plain(i), d.affected \subseteq d.ids, NEW x \in AskedFor(i, d)
    PROVE  Offered(i, d) /\ x \in Parts(Scoped(i, d))
<1> DEFINE touched == i.files \cap d.files # {} \/ i.layers \cap d.layers # {}
           e == [d EXCEPT !.ids = @ \cap i.ids]
<1>1. CASE i.all \/ d.rescan
  <2>1. AskedFor(i, d) = Parts(d) /\ Scoped(i, d) = d
    BY <1>1, Zenon DEF AskedFor, Scoped
  <2> QED BY <1>1, <2>1 DEF Offered, Wanted
<1>2. CASE ~(i.all \/ d.rescan) /\ touched /\ d.ids # {}
  <2>1. AskedFor(i, d) = Parts(d)
    BY <1>2, Zenon DEF AskedFor
  <2>2. i.ids = {}
    BY <1>2 DEF Plain
  <2>3. Scoped(i, d).ids = d.ids /\ Scoped(i, d).rev = d.rev
    BY <1>2, <2>2, SliceFacts DEF Filtered
  <2>4. Wanted(i, d) /\ Parts(Scoped(i, d)) = Parts(d)
    BY <1>2, <2>3 DEF Wanted, Parts
  <2> QED BY <1>2, <2>1, <2>3, <2>4 DEF Offered
<1>3. CASE ~(i.all \/ d.rescan) /\ ~(touched /\ d.ids # {})
  <2>1. i.ids \cap d.affected # {} /\ AskedFor(i, d) = Parts(e)
    <3>1. CASE i.ids \cap d.affected # {}
      BY <1>3, <3>1, Zenon DEF AskedFor
    <3>2. CASE ~(i.ids \cap d.affected # {})
      BY <1>3, <3>2, Zenon DEF AskedFor
    <3> QED BY <3>1, <3>2
  <2>2. Scoped(i, d).ids = d.ids \cap i.ids /\ Scoped(i, d).rev = d.rev
    BY <1>3, <2>1, SliceFacts DEF Filtered
  <2>3. e.rev = d.rev /\ e.ids = d.ids \cap i.ids
    BY DEF Deltas
  <2>4. Wanted(i, d) /\ Parts(Scoped(i, d)) = Parts(e)
    BY <2>1, <2>2, <2>3 DEF Wanted, Parts
  <2> QED BY <2>1, <2>2, <2>4 DEF Offered
<1> QED BY <1>1, <1>2, <1>3

(* Appending to a queue, or merging into its tail, hides nothing that was queued, and
   brings the parts of the delta. *)
LEMMA OfferBrings ==
    ASSUME Types, NEW s \in Subs, NEW d \in Deltas, Offer(s, d), ~closed[s], ~lagged'[s],
           NEW x \in Nat \X (Ids \cup {AnyId}), Queued(s, x) \/ x \in Parts(d)
    PROVE  Queued(s, x)'
<1> DEFINE q == queue[s]
<1>1. q \in Seq(Deltas) /\ queue \in [Subs -> Seq(Deltas)] /\ lagged \in [Subs -> BOOLEAN]
  BY DEF Types
<1>2. Len(q) \in Nat /\ \A i \in 1..Len(q) : q[i] \in Deltas /\ q[i].rev \in Nat
  BY <1>1, RevTyped
<1>3. x[1] \in Nat /\ d.rev \in Nat
  BY DEF Deltas
<1>4. x \in Parts(d) => x[1] <= d.rev /\ x[2] \in d.ids \cup {AnyId}
  BY <1>3, PartsTyped
<1>5. CASE ~Room(s) /\ queue' = [queue EXCEPT ![s] = IntoTail(queue[s], d)]
  <2> DEFINE n == Len(q)
             r == IntoTail(q, d)
  <2>1. n > 0
    BY <1>1, <1>5, CapFacts
  <2>2. /\ Len(r) = n /\ \A i \in 1..n : i # n => r[i] = q[i]
        /\ r[n].rev = (IF q[n].rev < d.rev THEN d.rev ELSE q[n].rev)
        /\ r[n].ids = q[n].ids \cup d.ids
    BY <1>1, <2>1, MergedTail
  <2>3. queue'[s] = r
    BY <1>1, <1>5
  <2> HIDE DEF r, q
  <2>4. n \in 1..n /\ q[n].rev \in Nat
    BY <1>2, <2>1
  <2>5. r[n].rev >= q[n].rev /\ r[n].rev >= d.rev /\ r[n].rev \in Nat
    BY <1>3, <2>2, <2>4
  <2>6. CASE x \in Parts(d)
    <3>1. x[1] <= r[n].rev /\ x[2] \in r[n].ids \cup {AnyId}
      BY <1>3, <1>4, <2>2, <2>5, <2>6
    <3> QED BY <2>2, <2>3, <2>4, <3>1 DEF Queued
  <2>7. ASSUME NEW i \in 1..n, x[1] <= q[i].rev, x[2] \in q[i].ids \cup {AnyId}
        PROVE  Queued(s, x)'
    <3>1. x[1] <= r[i].rev /\ x[2] \in r[i].ids \cup {AnyId}
      BY <1>2, <1>3, <2>2, <2>5, <2>7
    <3> QED BY <2>2, <2>3, <3>1 DEF Queued
  <2> QED BY <2>6, <2>7 DEF Queued, q
<1>6. CASE queue' = [queue EXCEPT ![s] = Append(queue[s], d)]
  <2> DEFINE r == Append(q, d)
  <2>1. /\ Len(r) = Len(q) + 1 /\ r[Len(q) + 1] = d /\ \A i \in 1..Len(q) : r[i] = q[i]
        /\ queue'[s] = r
    BY <1>1, <1>6
  <2> HIDE DEF r, q
  <2>2. CASE x \in Parts(d)
    <3>1. Len(q) + 1 \in 1..Len(r)
      BY <1>2, <2>1
    <3> QED BY <1>4, <2>1, <2>2, <3>1 DEF Queued
  <2>3. ASSUME NEW i \in 1..Len(q), x[1] <= q[i].rev, x[2] \in q[i].ids \cup {AnyId}
        PROVE  Queued(s, x)'
    <3>1. i \in 1..Len(r)
      BY <1>2, <2>1
    <3> QED BY <2>1, <2>3, <3>1 DEF Queued
  <2> QED BY <2>2, <2>3 DEF Queued, q
<1>7. ~(lagged' = [lagged EXCEPT ![s] = TRUE])
  BY <1>1
<1> QED BY <1>5, <1>6, <1>7, OfferOutcome

(* What a subscriber wants of a delta depends on its interest and on the delta. *)
LEMMA ScopeKept ==
    ASSUME NEW s, NEW w, interest'[s] = interest[s], delta'[w] = delta[w]
    PROVE  /\ Offered(interest[s], delta[w])' <=> Offered(interest[s], delta[w])
           /\ Parts(Scoped(interest[s], delta[w]))' = Parts(Scoped(interest[s], delta[w]))
<1>1. /\ Offered(interest[s], delta[w])' <=> Offered(interest'[s], delta'[w])
      /\ Parts(Scoped(interest[s], delta[w]))' = Parts(Scoped(interest'[s], delta'[w]))
  BY Zenon DEF Offered, Wanted, Scoped, Filtered, Parts
<1> QED BY <1>1

(* What is on its way stays so until the writer reaches the subscriber. *)
LEMMA WayKept ==
    ASSUME NEW s, NEW w, NEW x, OnItsWay(w, s, x), interest'[s] = interest[s],
           delta'[w] = delta[w],
           wpc'[w] \in {"committed", "publish"} \/ (wpc'[w] = "fanout" /\ s \in todo'[w])
    PROVE  OnItsWay(w, s, x)'
BY ScopeKept DEF OnItsWay

(* A step that is not about s, or only closes it or marks it. *)
LEMMA HeardKept ==
    ASSUME NEW w, NEW s, Heard(w, s), interest'[s] = interest[s], queue'[s] = queue[s],
           missing'[s] = missing[s], closed[s] => closed'[s], lagged[s] => lagged'[s],
           delta'[w] = delta[w],
           wpc[w] \in {"committed", "publish"} \/ (wpc[w] = "fanout" /\ s \in todo[w]) =>
               wpc'[w] \in {"committed", "publish"} \/ (wpc'[w] = "fanout" /\ s \in todo'[w])
    PROVE  Heard(w, s)'
<1> SUFFICES ASSUME ~closed[s], ~lagged[s], Plain(interest[s]), NEW x \in missing[s]
             PROVE  OnItsWay(w, s, x)' \/ Queued(s, x)'
  BY DEF Heard
<1>1. CASE Queued(s, x)
  BY <1>1 DEF Queued
<1>2. CASE OnItsWay(w, s, x)
  BY <1>2, WayKept DEF OnItsWay
<1> QED BY <1>1, <1>2 DEF Heard

(* Every step keeps OneHidden. *)
LEMMA NextHidden ==
    Types /\ ReleaseInv /\ OrderInv /\ HiddenInv /\ [Next]_vars => HiddenInv'
<1> SUFFICES ASSUME Types, ReleaseInv, [Next]_vars, NEW w \in Writers, Writers = {w},
                    OneOrder(w), OneHidden(w)
             PROVE  OneHidden(w)'
  BY DEF OrderInv, HiddenInv
<1> USE DEF writers, bus, session, sub
<1>0. delta[w] \in Deltas /\ registry \subseteq Subs /\ registry \subseteq created
  BY DEF Types
<1>1. ASSUME UNCHANGED <<wpc, delta, todo, queue, interest, missing, lagged>>,
             \A s \in Subs : closed[s] => closed'[s],
             created \subseteq created', registry' \subseteq registry,
             spc' = "open" => spc = "open"
      PROVE  OneHidden(w)'
  <2>1. spc' = "open" => \A s \in registry' : Heard(w, s)'
    <3> SUFFICES ASSUME spc = "open", NEW s \in registry PROVE Heard(w, s)'
      BY <1>1
    <3> QED BY <1>0, <1>1, HeardKept DEF OneHidden
  <2> QED BY <1>1, <2>1 DEF OneHidden
<1>2. ASSUME NEW s \in Subs, Subscribe(s) PROVE OneHidden(w)'
  <2>1. PICK i \in Interests : interest' = [interest EXCEPT ![s] = i]
    BY <1>2 DEF Subscribe
  <2>2. /\ s \notin created /\ spc = "open" /\ registry' = registry \cup {s}
        /\ created' = created \cup {s}
        /\ UNCHANGED <<wpc, delta, todo, queue, missing, lagged, closed>>
    BY <1>2 DEF Subscribe
  <2>3. \A r \in registry : Heard(w, r)'
    <3> TAKE r \in registry
    <3>1. interest'[r] = interest[r]
      BY <1>0, <2>1, <2>2 DEF Types
    <3> QED BY <2>2, <3>1, HeardKept DEF OneHidden
  <2>4. Heard(w, s)'
    BY <2>2 DEF Heard, OneHidden
  <2>5. \A r \in registry' : Heard(w, r)'
    <3> TAKE r \in registry'
    <3>1. CASE r = s
      BY <2>2, <3>1 DEF Heard, OneHidden
    <3> QED BY <2>2, <2>3, <3>1
  <2> QED BY <2>2, <2>5 DEF OneHidden
<1>3. ASSUME NEW s \in Subs, Take(s) PROVE OneHidden(w)'
  <2>1. UNCHANGED <<wpc, delta, todo, interest, lagged, closed, created, registry, spc>>
    BY <1>3 DEF Take
  <2>2. CASE queue[s] = <<>>
    BY <1>1, <1>3, <2>1, <2>2 DEF Take
  <2>3. CASE queue[s] # <<>>
    <3> DEFINE q == queue[s]
    <3>1. /\ missing' = [missing EXCEPT ![s] = missing[s] \ Covered(missing[s], Head(q))]
          /\ queue' = [queue EXCEPT ![s] = Tail(q)]
      BY <1>3, <2>3 DEF Take
    <3>2. /\ missing'[s] = missing[s] \ Covered(missing[s], Head(q)) /\ queue'[s] = Tail(q)
          /\ \A r \in Subs \ {s} : missing'[r] = missing[r] /\ queue'[r] = queue[r]
      BY <3>1 DEF Types
    <3>3. q \in Seq(Deltas)
      BY DEF Types
    <3>4. /\ Len(q) \in Nat /\ Len(q) > 0 /\ Len(Tail(q)) = Len(q) - 1 /\ Head(q) = q[1]
          /\ \A i \in 1..Len(Tail(q)) : Tail(q)[i] = q[i + 1]
      BY <2>3, <3>3
    <3> HIDE DEF q
    <3>5. spc = "open" => \A r \in registry : Heard(w, r)'
      <4> SUFFICES ASSUME spc = "open", NEW r \in registry PROVE Heard(w, r)'
        OBVIOUS
      <4>1. r \in Subs /\ Heard(w, r)
        BY <1>0 DEF OneHidden
      <4>2. CASE r # s
        BY <2>1, <3>2, <4>1, <4>2, HeardKept
      <4>3. CASE r = s
        <5> SUFFICES ASSUME ~closed[s], ~lagged[s], Plain(interest[s]), NEW x \in missing'[s]
                     PROVE  OnItsWay(w, s, x)' \/ Queued(s, x)'
          BY <2>1, <4>3 DEF Heard
        <5>1. x \in missing[s] /\ x \notin Covered(missing[s], Head(q))
          BY <3>2
        <5>2. CASE OnItsWay(w, s, x)
          BY <2>1, <5>2, WayKept DEF OnItsWay
        <5>3. CASE Queued(s, x)
          <6>1. PICK i \in 1..Len(q) : x[1] <= q[i].rev /\ x[2] \in q[i].ids \cup {AnyId}
            BY <5>3 DEF Queued, q
          <6>2. i # 1
            BY <3>4, <5>1, <6>1 DEF Covered
          <6>3. i - 1 \in 1..Len(Tail(q)) /\ Tail(q)[i - 1] = q[i]
            BY <3>4, <6>2
          <6> QED BY <3>2, <6>1, <6>3 DEF Queued
        <5> QED BY <4>1, <4>3, <5>1, <5>2, <5>3 DEF Heard
      <4> QED BY <4>2, <4>3
    <3>6. \A r \in Subs \ created : missing'[r] = {}
      BY <3>2 DEF OneHidden
    <3> QED BY <2>1, <3>5, <3>6 DEF OneHidden
  <2> QED BY <2>2, <2>3
<1>4. ASSUME Commit(w) PROVE OneHidden(w)'
  <2>1. /\ wpc[w] = "idle"
        /\ UNCHANGED <<todo, queue, interest, lagged, closed, created, registry, spc>>
    BY <1>4 DEF Commit
  <2>2. PICK c \in Changes :
           LET d == DeltaOf(c)
           IN  /\ delta' = [delta EXCEPT ![w] = d]
               /\ missing' = [s \in Subs |->
                     IF s \in registry /\ ~closed[s]
                     THEN missing[s] \cup AskedFor(interest[s], d) ELSE missing[s]]
    BY <1>4 DEF Commit
  <2> DEFINE d == DeltaOf(c)
  <2>3. d.affected \subseteq d.ids /\ d \in Deltas
    BY BusAssumption DEF DeltaOf, Deltas, Types
  <2>4. delta'[w] = d /\ wpc'[w] = "committed"
    BY <1>4, <2>2 DEF Types, Commit
  <2> HIDE DEF d
  <2>5. \A s \in Subs : missing'[s] = IF s \in registry /\ ~closed[s]
                                      THEN missing[s] \cup AskedFor(interest[s], d) ELSE missing[s]
    BY <2>2 DEF d
  <2>6. \A s \in Subs \ created : missing'[s] = {}
    <3> TAKE s \in Subs \ created
    <3>1. s \notin registry
      BY <1>0
    <3> QED BY <2>5, <3>1 DEF OneHidden
  <2>7. spc = "open" => \A s \in registry : Heard(w, s)'
    <3> SUFFICES ASSUME spc = "open", NEW s \in registry, ~closed[s], ~lagged[s],
                        Plain(interest[s]), NEW x \in missing'[s]
                 PROVE  OnItsWay(w, s, x)' \/ Queued(s, x)'
      BY <2>1 DEF Heard
    <3>1. CASE x \in missing[s]
      <4>1. Queued(s, x)
        BY <2>1, <3>1 DEF OneHidden, Heard, OnItsWay
      <4> QED BY <2>1, <4>1 DEF Queued
    <3>2. CASE x \in AskedFor(interest[s], d)
      <4>1. Offered(interest[s], d) /\ x \in Parts(Scoped(interest[s], d))
        BY <2>3, <3>2, AskedIsOffered
      <4>2. interest'[s] = interest[s]
        BY <2>1
      <4>3. /\ Offered(interest[s], delta[w])' <=> Offered(interest'[s], delta'[w])
            /\ Parts(Scoped(interest[s], delta[w]))' = Parts(Scoped(interest'[s], delta'[w]))
        BY Zenon DEF Offered, Wanted, Scoped, Filtered, Parts
      <4> QED BY <2>4, <4>1, <4>2, <4>3 DEF OnItsWay
    <3> QED BY <1>0, <2>5, <3>1, <3>2
  <2> QED BY <2>1, <2>3, <2>4, <2>6, <2>7 DEF OneHidden
<1>5. ASSUME PublishDelta(w) PROVE OneHidden(w)'
  <2>1. /\ wpc[w] = "committed"
        /\ spc # "closed" /\ registry # {} => wpc'[w] = "publish"
        /\ UNCHANGED <<delta, todo, queue, interest, missing, lagged, closed, created, registry, spc>>
    BY <1>5 DEF PublishDelta, Types
  <2>2. spc = "open" => \A s \in registry : Heard(w, s)'
    <3> SUFFICES ASSUME spc = "open", NEW s \in registry PROVE Heard(w, s)'
      OBVIOUS
    <3> QED BY <2>1, HeardKept DEF OneHidden
  <2> QED BY <2>1, <2>2 DEF OneHidden
<1>6. ASSUME Publish(w) PROVE OneHidden(w)'
  <2>1. /\ wpc[w] = "publish"
        /\ UNCHANGED <<delta, queue, interest, missing, lagged, closed, created, registry, spc>>
    BY <1>6 DEF Publish
  <2>2. ~(delta[w].rev <= last)
    <3>1. last < rev /\ delta[w].rev = rev /\ last \in Nat /\ rev \in Nat
      BY <2>1 DEF OneOrder, Types
    <3> QED BY <3>1
  <2>3. registry # {} => wpc'[w] = "fanout" /\ todo'[w] = registry
    BY <1>6, <2>2 DEF Publish, Types
  <2>4. spc = "open" => \A s \in registry : Heard(w, s)'
    <3> SUFFICES ASSUME spc = "open", NEW s \in registry PROVE Heard(w, s)'
      OBVIOUS
    <3> QED BY <2>1, <2>3, HeardKept DEF OneHidden
  <2> QED BY <2>1, <2>4 DEF OneHidden
<1>7. ASSUME FanOut(w) PROVE OneHidden(w)'
  <2>1. PICK s \in todo[w] :
           /\ todo' = [todo EXCEPT ![w] = @ \ {s}]
           /\ \/ Offer(s, Scoped(interest[s], delta[w]))
              \/ /\ UNCHANGED <<queue, consumer, lagged>>
                 /\ ~Offered(interest[s], delta[w])
    BY <1>7, FanOutOutcome
  <2>2. /\ wpc[w] = "fanout" /\ s \in Subs
        /\ UNCHANGED <<wpc, delta, interest, missing, closed, created, registry, spc>>
    BY <1>7, FanOutOutcome DEF Types
  <2>3. todo'[w] = todo[w] \ {s}
    BY <2>1 DEF Types
  <2>4. CASE Offer(s, Scoped(interest[s], delta[w]))
    <3>1. Scoped(interest[s], delta[w]) \in Deltas
      BY <1>0, <2>2, ScopedTyped
    <3>2. \A r \in Subs \ {s} : queue'[r] = queue[r] /\ lagged'[r] = lagged[r]
      BY <2>2, <2>4, <3>1, OfferTyped
    <3>3. spc = "open" => \A r \in registry : Heard(w, r)'
      <4> SUFFICES ASSUME spc = "open", NEW r \in registry PROVE Heard(w, r)'
        OBVIOUS
      <4>1. Heard(w, r) /\ r \in Subs
        BY <1>0 DEF OneHidden
      <4>2. CASE r # s
        BY <2>2, <2>3, <3>2, <4>1, <4>2, HeardKept
      <4>3. CASE r = s
        <5> SUFFICES ASSUME ~closed[s], ~lagged'[s], Plain(interest[s]), NEW x \in missing[s]
                     PROVE  Queued(s, x)'
          BY <2>2, <4>3 DEF Heard
        <5>1. ~lagged[s]
          BY <2>2, <2>4, OfferOutcome DEF Types
        <5>2. Queued(s, x) \/ x \in Parts(Scoped(interest[s], delta[w]))
          BY <4>1, <4>3, <5>1 DEF Heard, OnItsWay
        <5>3. x \in Nat \X (Ids \cup {AnyId})
          BY <2>2 DEF Types
        <5> QED BY <2>2, <2>4, <3>1, <5>2, <5>3, OfferBrings
      <4> QED BY <4>2, <4>3
    <3> QED BY <2>2, <3>3 DEF OneHidden
  <2>5. CASE /\ UNCHANGED <<queue, lagged>>
             /\ ~Offered(interest[s], delta[w])
    <3>2. spc = "open" => \A r \in registry : Heard(w, r)'
      <4> SUFFICES ASSUME spc = "open", NEW r \in registry PROVE Heard(w, r)'
        OBVIOUS
      <4>1. Heard(w, r) /\ r \in Subs
        BY <1>0 DEF OneHidden
      <4>2. CASE r # s
        BY <2>2, <2>3, <2>5, <4>1, <4>2, HeardKept
      <4>3. CASE r = s
        <5> SUFFICES ASSUME ~closed[s], ~lagged[s], Plain(interest[s]), NEW x \in missing[s]
                     PROVE  Queued(s, x)'
          BY <2>2, <2>5, <4>3 DEF Heard
        <5>1. Queued(s, x)
          BY <2>5, <4>1, <4>3 DEF Heard, OnItsWay
        <5> QED BY <2>5, <5>1 DEF Queued
      <4> QED BY <4>2, <4>3
    <3> QED BY <2>2, <3>2 DEF OneHidden
  <2> QED BY <2>1, <2>4, <2>5
<1>8. ASSUME Return(w) PROVE OneHidden(w)'
  <2>1. /\ wpc[w] = "fanout" /\ todo[w] = {}
        /\ UNCHANGED <<delta, todo, queue, interest, missing, lagged, closed, created, registry, spc>>
    BY <1>8 DEF Return
  <2>2. spc = "open" => \A s \in registry : Heard(w, s)'
    <3> SUFFICES ASSUME spc = "open", NEW s \in registry PROVE Heard(w, s)'
      OBVIOUS
    <3> QED BY <2>1, HeardKept DEF OneHidden
  <2> QED BY <2>1, <2>2 DEF OneHidden
<1>9. ASSUME NEW t \in Threads, CloseClear(t) PROVE OneHidden(w)'
  <2>1. PICK s \in Subs : call[t] = [at |-> "clear", sub |-> s]
    <3>1. call[t] \in Closing
      BY <1>9 DEF CloseClear, Types, NoCall
    <3> QED BY <1>9, <3>1 DEF Closing, CloseClear
  <2>2. closed[s]
    BY <2>1 DEF ReleaseInv, Clears
  <2>3. /\ queue' = [queue EXCEPT ![s] = <<>>]
        /\ UNCHANGED <<wpc, delta, todo, interest, missing, lagged, closed, created, registry, spc>>
    BY <1>9, <2>1 DEF CloseClear
  <2>4. \A r \in Subs \ {s} : queue'[r] = queue[r]
    BY <2>3 DEF Types
  <2>5. spc = "open" => \A r \in registry : Heard(w, r)'
    <3> SUFFICES ASSUME spc = "open", NEW r \in registry PROVE Heard(w, r)'
      OBVIOUS
    <3>1. CASE r = s
      BY <2>2, <2>3, <3>1 DEF Heard
    <3>2. CASE r # s
      BY <1>0, <2>3, <2>4, <3>2, HeardKept DEF OneHidden
    <3> QED BY <3>1, <3>2
  <2> QED BY <2>3, <2>5 DEF OneHidden
<1>10. ASSUME NEW s \in Subs, SubscribeLate(s) PROVE OneHidden(w)'
  <2>1. \A r \in Subs : closed[r] => closed'[r]
    BY <1>10 DEF SubscribeLate, Types
  <2> QED BY <1>1, <1>10, <2>1 DEF SubscribeLate
<1>11. ASSUME NEW s \in Subs, OwnerCloses(s) PROVE OneHidden(w)'
  BY <1>1, <1>11 DEF OwnerCloses
<1>12. ASSUME NEW t \in Threads, CloseFlag(t) PROVE OneHidden(w)'
  <2>1. \A r \in Subs : closed[r] => closed'[r]
    BY <1>12 DEF CloseFlag, Types
  <2> QED BY <1>1, <1>12, <2>1 DEF CloseFlag
<1>13. ASSUME NEW t \in Threads, CloseUnregister(t) PROVE OneHidden(w)'
  BY <1>1, <1>13 DEF CloseUnregister
<1>14. ASSUME SessionClose \/ SessionClosesOne \/ SessionClosed PROVE OneHidden(w)'
  BY <1>1, <1>14 DEF SessionClose, SessionClosesOne, SessionClosed
<1>15. CASE UNCHANGED vars
  BY <1>1, <1>15 DEF vars
<1>16. ASSUME ScheduleRaises(w) PROVE OneHidden(w)'
  <2>1. /\ wpc[w] = "committed"
        /\ UNCHANGED <<delta, todo, queue, interest, lagged, closed, created, registry, spc>>
    BY <1>16 DEF ScheduleRaises
  <2>2. \A s \in Subs : missing'[s] = {x \in missing[s] : x[1] # delta[w].rev}
    BY <1>16 DEF ScheduleRaises
  <2>3. spc = "open" => \A s \in registry : Heard(w, s)'
    <3> SUFFICES ASSUME spc = "open", NEW s \in registry, ~closed[s], ~lagged[s],
                        Plain(interest[s]), NEW x \in missing'[s]
                 PROVE  Queued(s, x)'
      BY <2>1 DEF Heard
    <3>1. x \in missing[s] /\ x[1] # delta[w].rev
      BY <1>0, <2>2
    <3>2. \A y \in Parts(Scoped(interest[s], delta[w])) : y[1] = delta[w].rev
      BY <1>0, ScopedTyped, PartsTyped
    <3>3. Queued(s, x)
      BY <3>1, <3>2 DEF OneHidden, Heard, OnItsWay
    <3> QED BY <2>1, <3>3 DEF Queued
  <2>4. \A s \in Subs \ created : missing'[s] = {}
    BY <2>1, <2>2 DEF OneHidden
  <2> QED BY <2>1, <2>3, <2>4 DEF OneHidden
<1> QED BY <1>2, <1>3, <1>4, <1>5, <1>6, <1>7, <1>8, <1>9, <1>10, <1>11, <1>12, <1>13,
           <1>14, <1>15, <1>16 DEF Next
-----------------------------------------------------------------------------
(* The initial state satisfies the invariants. *)
LEMMA InitBusInv == Init => Types /\ ReleaseInv /\ OrderInv /\ HiddenInv
<1> SUFFICES ASSUME Init PROVE ReleaseInv /\ OrderInv /\ HiddenInv
  BY InitTypes
<1>1. ReleaseInv
  BY CapFacts DEF Init, ReleaseInv, NoCall, Unregisters, Clears
<1>2. OrderInv
  BY DEF Init, OrderInv, OneOrder, Ordered
<1>3. HiddenInv
  BY DEF Init, HiddenInv, OneHidden
<1> QED BY <1>1, <1>2, <1>3

(* The inductive invariant. *)
BusInv == Types /\ ReleaseInv /\ OrderInv /\ HiddenInv

(* The inductive invariant, of every reachable state. *)
THEOREM BusInvariant == Spec => []BusInv
<1>1. Init => BusInv
  BY InitBusInv DEF BusInv
<1>2. BusInv /\ [Next]_vars => BusInv'
  BY NextTypes, NextRelease, NextOrder, NextHidden DEF BusInv
<1> QED BY <1>1, <1>2, PTL DEF Spec

(* ClosedIsReleased, for any number of threads, any capacity and policy: a queue never
   exceeds its capacity, and a subscription whose close has returned is out of the
   registry with an empty queue, whoever else was closing it or about to offer to it. *)
THEOREM ClosedSubscriptionsReleased == Spec => []ClosedIsReleased
<1>1. BusInv => ClosedIsReleased
  <2> SUFFICES ASSUME BusInv PROVE ClosedIsReleased
    OBVIOUS
  <2>1. \A s \in Subs : Len(queue[s]) <= IF Capacity = 0 THEN 1 ELSE Capacity
    BY DEF BusInv, ReleaseInv, Cap
  <2>2. ASSUME NEW s \in created, closed[s],
               \A t \in Threads : call[t] # NoCall => call[t].sub # s
        PROVE  s \notin registry /\ queue[s] = <<>>
    <3>1. s \in Subs
      BY DEF BusInv, Types
    <3>2. \A t \in Threads : ~Unregisters(t, s) /\ ~Clears(t, s)
      BY <2>2 DEF Unregisters, Clears, NoCall
    <3> QED BY <2>2, <3>1, <3>2 DEF BusInv, ReleaseInv
  <2> QED BY <2>1, <2>2 DEF ClosedIsReleased
<1> QED BY <1>1, BusInvariant, PTL

(* RevisionOrder, for any number of subscriptions: with one writer every subscriber's
   queue is strictly increasing and newer than what it received. *)
THEOREM RevisionsInOrder == Spec => []RevisionOrder
<1>1. BusInv => RevisionOrder
  <2> SUFFICES ASSUME BusInv, Cardinality(Writers) = 1, NEW s \in Subs,
                      NEW i \in DOMAIN queue[s]
               PROVE  (IF i = 1 THEN seen[s] ELSE queue[s][i - 1].rev) < queue[s][i].rev
    BY DEF RevisionOrder
  <2>1. PICK w : Writers = {w}
    BY BusAssumption, FS_Singleton
  <2>2. Ordered(s)
    BY <2>1 DEF BusInv, OrderInv, OneOrder
  <2>3. queue[s] \in Seq(Deltas)
    BY DEF BusInv, Types
  <2>4. i \in 1..Len(queue[s]) /\ (i # 1 => i - 1 \in 1..Len(queue[s]) /\ i - 1 < i)
    BY <2>3
  <2> QED BY <2>2, <2>4 DEF Ordered
<1> QED BY <1>1, BusInvariant, PTL

(* NothingHidden, for any number of subscriptions, any interests and capacity: with one
   writer, once its write has returned, what a live subscriber has not received is in a
   delta queued for it, unless it is told that it lagged. *)
THEOREM NothingIsHidden == Spec => []NothingHidden
<1>1. BusInv => NothingHidden
  <2> SUFFICES ASSUME BusInv, Cardinality(Writers) = 1, spc = "open",
                      \A w \in Writers : wpc[w] = "idle",
                      NEW s \in registry, ~closed[s], ~lagged[s], Plain(interest[s])
               PROVE  missing[s] = UNION {Covered(missing[s], queue[s][i]) : i \in DOMAIN queue[s]}
    BY DEF NothingHidden, Told
  <2>1. PICK w : Writers = {w}
    BY BusAssumption, FS_Singleton
  <2>2. \A x \in missing[s] : Queued(s, x)
    BY <2>1 DEF BusInv, HiddenInv, OneHidden, Heard, OnItsWay
  <2>3. s \in Subs /\ queue[s] \in Seq(Deltas)
    BY DEF BusInv, Types
  <2>4. DOMAIN queue[s] = 1..Len(queue[s])
    BY <2>3
  <2> QED BY <2>2, <2>4 DEF Queued, Covered
<1> QED BY <1>1, BusInvariant, PTL

(* "each commit publishes once, in order" (bus.py) holds of a session with one writer:
   no publish is refused.  (With the auto-poll thread as a second writer it does not,
   which the run `order` shows.) *)
THEOREM OneWriterPublishes ==
    ASSUME Cardinality(Writers) = 1
    PROVE  Spec => []EveryCommitPublishes
<1>1. BusInv => EveryCommitPublishes
  <2> SUFFICES ASSUME BusInv PROVE refused = {}
    BY DEF EveryCommitPublishes
  <2>1. PICK w : Writers = {w}
    BY BusAssumption, FS_Singleton
  <2> QED BY <2>1 DEF BusInv, OrderInv, OneOrder
<1> QED BY <1>1, BusInvariant, PTL
=============================================================================
