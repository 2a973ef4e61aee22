---------------------------- MODULE DaemonProofs ----------------------------
(***************************************************************************)
(* Proofs about Daemon, for any number of processes and requests and a     *)
(* signal at any point: the type invariant, that a root has one writable   *)
(* session, and that the socket file of a serving daemon stays in place as *)
(* long as no process is signalled outside its accept loop.                *)
(***************************************************************************)
EXTENDS Daemon, TLAPS

(* The actor thread has opened its session. *)
Opened == {"idle", "draining", "closing", "done"}

(* Who may have a session.  A session is open in the process that holds the lock, in
   one that has failed to start or in one that gave up waiting for its actor.  For
   that, the shutdown a signal begins during the open must wait for it (its closure
   runs on the actor only then), and a process whose actor was stopped has either
   waited for its end or given up. *)
Holding ==
    \A d \in Daemons :
        /\ session[d] => lock = d \/ main[d] = "failed" \/ gaveUp[d]
        /\ lock = d => main[d] \in Owning
        /\ actor[d] = "opening" => ~session[d] /\ main[d] = "opening" /\ lock = d
        /\ actor[d] \in {"none", "done"} => ~session[d]
        /\ main[d] \in {"off", "ready", "locked"} => actor[d] = "none"
        /\ main[d] = "locked" => lock = d
        /\ main[d] = "serving" /\ down[d] = "none" /\ ~listening[d] => lock # d
        /\ down[d] # "none" => shut[d] /\ ~listening[d]
        /\ main[d] = "off" => down[d] = "none"
        /\ down[d] \in {"closed", "joining", "joined", "removed"} => actor[d] \in Opened
        /\ stopped[d] /\ main[d] # "off" =>
               actor[d] \in Opened /\ (down[d] = "joining" \/ actor[d] = "done" \/ gaveUp[d])
        /\ down[d] \in {"joining", "joined", "removed"} => stopped[d]

(* Who owns the socket path, as long as signals strike in the accept loop only.  The
   lock is held exactly between _acquire_lock and the end of the shutdown, and a
   process that accepts clients owns the socket file, because only the holder of the
   lock ever touches it. *)
Ownership ==
    early = {} =>
        \A d \in Daemons :
            /\ lock = d <=> main[d] \in Owning /\ ~(down[d] = "none" /\ shut[d])
            /\ down[d] # "none" => shut[d] /\ main[d] \in {"serving", "finally"}
            /\ main[d] = "finally" => down[d] # "none"
            /\ shut[d] => ~listening[d]
            /\ shut[d] => main[d] \in {"serving", "finally", "returned", "off"}
            /\ main[d] = "bound" => socket = d
            /\ main[d] = "serving" /\ ~shut[d] => socket = d

(* The inductive invariant. *)
DaemonInv == TypeOK /\ Holding /\ Ownership

(* What a queue holds after an item is appended or taken off its front. *)
LEMMA QueueType ==
    ASSUME NEW S, NEW q \in Seq(S)
    PROVE  /\ \A x \in S : Append(q, x) \in Seq(S)
           /\ q # <<>> => Head(q) \in S /\ Tail(q) \in Seq(S)
           /\ <<>> \in Seq(S)
OBVIOUS

(* The closures and the sentinel of the main thread are items. *)
LEMMA MainItems == {Subscribe, CloseHandlers, STOP} \subseteq Items /\ Requests \subseteq Items
BY DEF Items

(* Initially no process runs: the inductive invariant holds before any serve_forever. *)
LEMMA DaemonInit == Init => DaemonInv
<1> SUFFICES ASSUME Init PROVE DaemonInv
  OBVIOUS
<1>1. TypeOK
  BY DaemonAssumption DEF Init, TypeOK, Owning, Settled, Items
<1>2. Holding
  BY DaemonAssumption DEF Init, Holding, Owning, Opened
<1>3. Ownership
  BY DaemonAssumption DEF Init, Ownership, Owning
<1> QED BY <1>1, <1>2, <1>3 DEF DaemonInv

(* The steps of serve_forever preserve the inductive invariant. *)
LEMMA StartSteps ==
    ASSUME DaemonInv, NEW d \in Daemons,
           Start(d) \/ AcquireLock(d) \/ AlreadyRunning(d) \/ StartActor(d) \/
           OpenFailed(d) \/ PumpStart(d) \/ PumpSubmit(d) \/ Unlink(d) \/ Bind(d) \/
           Listen(d) \/ BindFailed(d)
    PROVE  DaemonInv'
<1> USE DaemonAssumption DEF Goto, DownGoto, ActorGoto, Put, flags, os, requests, counters,
        ReleasedLock, EnterShutdown, AlreadyDown, Owning, Opened, Settled
<1>1. CASE Start(d)
  <2>1. queue' \in [Daemons -> Seq(Items)]
    BY <1>1, QueueType, MainItems DEF Start, DaemonInv, TypeOK
  <2>2. starts' \in 0..MaxStarts
    <3>1. starts \in 0..MaxStarts
      BY DEF DaemonInv, TypeOK
    <3>2. starts < MaxStarts /\ starts' = starts + 1
      BY <1>1 DEF Start
    <3> QED BY <3>1, <3>2
  <2>3. TypeOK'
    BY <1>1, <2>1, <2>2 DEF Start, DaemonInv, TypeOK, Holding
  <2>4. Holding'
    BY <1>1 DEF Start, DaemonInv, TypeOK, Holding
  <2>5. Ownership'
    BY <1>1 DEF Start, DaemonInv, TypeOK, Holding, Ownership
  <2> QED BY <2>3, <2>4, <2>5 DEF DaemonInv
<1>2. CASE AcquireLock(d)
  <2>1. TypeOK'
    BY <1>2 DEF AcquireLock, DaemonInv, TypeOK, Holding
  <2>2. Holding'
    BY <1>2 DEF AcquireLock, DaemonInv, TypeOK, Holding
  <2>3. Ownership'
    BY <1>2 DEF AcquireLock, DaemonInv, TypeOK, Holding, Ownership
  <2> QED BY <2>1, <2>2, <2>3 DEF DaemonInv
<1>3. CASE AlreadyRunning(d)
  <2>1. TypeOK'
    BY <1>3 DEF AlreadyRunning, DaemonInv, TypeOK, Holding
  <2>2. Holding'
    BY <1>3 DEF AlreadyRunning, DaemonInv, TypeOK, Holding
  <2>3. Ownership'
    BY <1>3 DEF AlreadyRunning, DaemonInv, TypeOK, Holding, Ownership
  <2> QED BY <2>1, <2>2, <2>3 DEF DaemonInv
<1>4. CASE StartActor(d)
  <2>1. TypeOK'
    BY <1>4 DEF StartActor, DaemonInv, TypeOK, Holding
  <2>2. Holding'
    BY <1>4 DEF StartActor, DaemonInv, TypeOK, Holding
  <2>3. Ownership'
    BY <1>4 DEF StartActor, DaemonInv, TypeOK, Holding, Ownership
  <2> QED BY <2>1, <2>2, <2>3 DEF DaemonInv
<1>5. CASE OpenFailed(d)
  <2>1. TypeOK'
    BY <1>5 DEF OpenFailed, DaemonInv, TypeOK, Holding
  <2>2. Holding'
    BY <1>5 DEF OpenFailed, DaemonInv, TypeOK, Holding
  <2>3. Ownership'
    BY <1>5 DEF OpenFailed, DaemonInv, TypeOK, Holding, Ownership
  <2> QED BY <2>1, <2>2, <2>3 DEF DaemonInv
<1>6. CASE PumpStart(d)
  <2>1. TypeOK'
    BY <1>6 DEF PumpStart, DaemonInv, TypeOK, Holding
  <2>2. Holding'
    BY <1>6 DEF PumpStart, DaemonInv, TypeOK, Holding
  <2>3. Ownership'
    BY <1>6 DEF PumpStart, DaemonInv, TypeOK, Holding, Ownership
  <2> QED BY <2>1, <2>2, <2>3 DEF DaemonInv
<1>7. CASE PumpSubmit(d)
  <2>1. queue' \in [Daemons -> Seq(Items)]
    BY <1>7, QueueType, MainItems DEF PumpSubmit, DaemonInv, TypeOK
  <2>2. TypeOK'
    BY <1>7, <2>1 DEF PumpSubmit, DaemonInv, TypeOK, Holding
  <2>3. Holding'
    BY <1>7 DEF PumpSubmit, DaemonInv, TypeOK, Holding
  <2>4. Ownership'
    BY <1>7 DEF PumpSubmit, DaemonInv, TypeOK, Holding, Ownership
  <2> QED BY <2>2, <2>3, <2>4 DEF DaemonInv
<1>8. CASE Unlink(d)
  <2>1. TypeOK'
    BY <1>8 DEF Unlink, DaemonInv, TypeOK, Holding
  <2>2. Holding'
    BY <1>8 DEF Unlink, DaemonInv, TypeOK, Holding
  <2>3. Ownership'
    BY <1>8 DEF Unlink, DaemonInv, TypeOK, Holding, Ownership
  <2> QED BY <2>1, <2>2, <2>3 DEF DaemonInv
<1>9. CASE Bind(d)
  <2>1. TypeOK'
    BY <1>9 DEF Bind, DaemonInv, TypeOK, Holding
  <2>2. Holding'
    BY <1>9 DEF Bind, DaemonInv, TypeOK, Holding
  <2>3. Ownership'
    BY <1>9 DEF Bind, DaemonInv, TypeOK, Holding, Ownership
  <2> QED BY <2>1, <2>2, <2>3 DEF DaemonInv
<1>10. CASE Listen(d)
  <2>1. TypeOK'
    BY <1>10 DEF Listen, DaemonInv, TypeOK, Holding
  <2>2. Holding'
    BY <1>10 DEF Listen, DaemonInv, TypeOK, Holding
  <2>3. Ownership'
    BY <1>10 DEF Listen, DaemonInv, TypeOK, Holding, Ownership
  <2> QED BY <2>1, <2>2, <2>3 DEF DaemonInv
<1>11. CASE BindFailed(d)
  <2>1. TypeOK'
    BY <1>11 DEF BindFailed, DaemonInv, TypeOK, Holding
  <2>2. Holding'
    BY <1>11 DEF BindFailed, DaemonInv, TypeOK, Holding
  <2>3. Ownership'
    BY <1>11 DEF BindFailed, DaemonInv, TypeOK, Holding, Ownership
  <2> QED BY <2>1, <2>2, <2>3 DEF DaemonInv
<1> QED BY <1>1, <1>2, <1>3, <1>4, <1>5, <1>6, <1>7, <1>8, <1>9, <1>10, <1>11

(* A signal, the steps of shutdown, the exit of a process and its being killed preserve the inductive invariant. *)
LEMMA StopSteps ==
    ASSUME DaemonInv, NEW d \in Daemons,
           Signal(d) \/ LeaveAccept(d) \/ SubmitClose(d) \/ Stop(d) \/ Joined(d) \/
           JoinTimesOut(d) \/ RemoveSocket(d) \/ ReleaseLock(d) \/ Exit(d) \/ Crash(d)
    PROVE  DaemonInv'
<1> USE DaemonAssumption DEF Goto, DownGoto, ActorGoto, Put, flags, os, requests, counters,
        ReleasedLock, EnterShutdown, AlreadyDown, Owning, Opened, Settled
<1>1. CASE Signal(d)
  <2>1. /\ main' = main /\ down' = [down EXCEPT ![d] = "shutdown"] /\ main[d] # "off"
        /\ shut' = [shut EXCEPT ![d] = TRUE] /\ listening' = [listening EXCEPT ![d] = FALSE]
        /\ UNCHANGED <<stopped, gaveUp, actor, session, queue, lock, socket, at, starts, crashes>>
    BY <1>1 DEF Signal
  <2>2. req' \in [Requests -> {"new", "pooled", "checked", "waiting"} \cup Settled]
    BY <1>1 DEF Signal, OnPool, DaemonInv, TypeOK
  <2>3. early' \subseteq Daemons /\ (early' = {} => early = {} /\ main[d] = "serving")
    BY <1>1 DEF Signal, DaemonInv, TypeOK
  <2>4. ~(shut[d] /\ ~listening[d])
    BY <1>1 DEF Signal
  <2>5. TypeOK'
    BY <2>1, <2>2, <2>3 DEF DaemonInv, TypeOK
  <2>6. Holding'
    <3>1. down[d] = "none"
      BY <2>4 DEF DaemonInv, Holding
    <3> QED BY <2>1, <3>1 DEF DaemonInv, TypeOK, Holding
  <2>7. Ownership'
    BY <2>1, <2>3, <2>4 DEF DaemonInv, TypeOK, Ownership
  <2> QED BY <2>5, <2>6, <2>7 DEF DaemonInv
<1>2. CASE LeaveAccept(d)
  <2>1. CASE EnterShutdown(d) /\ main' = [main EXCEPT ![d] = "finally"]
    <3>1. /\ main[d] = "serving" /\ down[d] = "none" /\ early' = early
          /\ ~(shut[d] /\ ~listening[d])
          /\ main' = [main EXCEPT ![d] = "finally"] /\ down' = [down EXCEPT ![d] = "shutdown"]
          /\ shut' = [shut EXCEPT ![d] = TRUE] /\ listening' = [listening EXCEPT ![d] = FALSE]
          /\ UNCHANGED <<stopped, gaveUp, actor, session, queue, lock, socket, at, starts, crashes>>
      BY <1>2, <2>1 DEF LeaveAccept
    <3>2. req' \in [Requests -> {"new", "pooled", "checked", "waiting"} \cup Settled]
      BY <2>1 DEF OnPool, DaemonInv, TypeOK
    <3>3. TypeOK'
      BY <3>1, <3>2 DEF DaemonInv, TypeOK
    <3>4. Holding'
      BY <3>1 DEF DaemonInv, TypeOK, Holding
    <3>5. Ownership'
      BY <3>1 DEF DaemonInv, TypeOK, Ownership
    <3> QED BY <3>3, <3>4, <3>5 DEF DaemonInv
  <2>2. CASE AlreadyDown(d) /\ main' = [main EXCEPT ![d] = "returned"]
    <3>1. /\ main[d] = "serving" /\ down[d] = "none" /\ shut[d] /\ ~listening[d]
          /\ main' = [main EXCEPT ![d] = "returned"]
          /\ UNCHANGED <<down, flags, actor, session, queue, os, requests, early, counters>>
      BY <1>2, <2>2 DEF LeaveAccept
    <3>2. TypeOK'
      BY <3>1 DEF DaemonInv, TypeOK
    <3>3. Holding'
      BY <3>1 DEF DaemonInv, TypeOK, Holding
    <3>4. Ownership'
      BY <3>1 DEF DaemonInv, TypeOK, Ownership
    <3> QED BY <3>2, <3>3, <3>4 DEF DaemonInv
  <2> QED BY <1>2, <2>1, <2>2 DEF LeaveAccept
<1>3. CASE SubmitClose(d)
  <2>1. /\ main' = main /\ down[d] = "shutdown"
        /\ UNCHANGED <<flags, actor, session, os, requests, early, counters>>
    BY <1>3 DEF SubmitClose
  <2>2. \/ /\ ~stopped[d]
           /\ down' = [down EXCEPT ![d] = "closing"]
           /\ queue' = [queue EXCEPT ![d] = Append(queue[d], CloseHandlers)]
        \/ /\ stopped[d]
           /\ down' = [down EXCEPT ![d] = "closed"]
           /\ queue' = queue
    <3>1. CASE ~stopped[d]
      BY <1>3, <3>1 DEF SubmitClose
    <3>2. CASE stopped[d]
      BY <1>3, <3>2 DEF SubmitClose
    <3> QED BY <3>1, <3>2
  <2>3. queue' \in [Daemons -> Seq(Items)]
    <3>1. queue \in [Daemons -> Seq(Items)]
      BY DEF DaemonInv, TypeOK
    <3>2. queue[d] \in Seq(Items) /\ CloseHandlers \in Items
      BY <3>1, MainItems
    <3>3. Append(queue[d], CloseHandlers) \in Seq(Items)
      BY <3>2, QueueType
    <3> QED BY <2>2, <3>1, <3>3
  <2>4. TypeOK'
    BY <2>1, <2>2, <2>3 DEF DaemonInv, TypeOK
  <2>5. Holding'
    <3>1. main[d] # "off"
      BY <2>1 DEF DaemonInv, Holding
    <3> QED BY <2>1, <2>2, <3>1 DEF DaemonInv, TypeOK, Holding
  <2>6. Ownership'
    BY <2>1, <2>2 DEF DaemonInv, TypeOK, Ownership
  <2> QED BY <2>4, <2>5, <2>6 DEF DaemonInv
<1>4. CASE Stop(d)
  <2>1. /\ main' = main /\ down[d] = "closed" /\ main[d] # "off"
        /\ UNCHANGED <<shut, listening, gaveUp, actor, session, os, requests, early, counters>>
    BY <1>4 DEF Stop, DaemonInv, Holding
  <2>2. \/ /\ ~stopped[d]
           /\ down' = [down EXCEPT ![d] = "joining"]
           /\ stopped' = [stopped EXCEPT ![d] = TRUE]
           /\ queue' = [queue EXCEPT ![d] = Append(queue[d], STOP)]
        \/ /\ stopped[d]
           /\ down' = [down EXCEPT ![d] = "joined"]
           /\ stopped' = stopped
           /\ queue' = queue
    <3>1. CASE ~stopped[d]
      BY <1>4, <3>1 DEF Stop
    <3>2. CASE stopped[d]
      BY <1>4, <3>2 DEF Stop
    <3> QED BY <3>1, <3>2
  <2>3. queue' \in [Daemons -> Seq(Items)]
    <3>1. queue \in [Daemons -> Seq(Items)]
      BY DEF DaemonInv, TypeOK
    <3>2. queue[d] \in Seq(Items) /\ STOP \in Items
      BY <3>1, MainItems
    <3>3. Append(queue[d], STOP) \in Seq(Items)
      BY <3>2, QueueType
    <3> QED BY <2>2, <3>1, <3>3
  <2>4. TypeOK'
    BY <2>1, <2>2, <2>3 DEF DaemonInv, TypeOK
  <2>5. Holding'
    BY <2>1, <2>2 DEF DaemonInv, TypeOK, Holding
  <2>6. Ownership'
    BY <2>1, <2>2 DEF DaemonInv, TypeOK, Ownership
  <2> QED BY <2>4, <2>5, <2>6 DEF DaemonInv
<1>5. CASE Joined(d)
  <2>1. TypeOK'
    BY <1>5 DEF Joined, DaemonInv, TypeOK, Holding
  <2>2. Holding'
    BY <1>5 DEF Joined, DaemonInv, TypeOK, Holding
  <2>3. Ownership'
    BY <1>5 DEF Joined, DaemonInv, TypeOK, Holding, Ownership
  <2> QED BY <2>1, <2>2, <2>3 DEF DaemonInv
<1>6. CASE JoinTimesOut(d)
  <2>1. TypeOK'
    BY <1>6 DEF JoinTimesOut, DaemonInv, TypeOK, Holding
  <2>2. Holding'
    BY <1>6 DEF JoinTimesOut, DaemonInv, TypeOK, Holding
  <2>3. Ownership'
    BY <1>6 DEF JoinTimesOut, DaemonInv, TypeOK, Holding, Ownership
  <2> QED BY <2>1, <2>2, <2>3 DEF DaemonInv
<1>7. CASE RemoveSocket(d)
  <2>1. TypeOK'
    BY <1>7 DEF RemoveSocket, DaemonInv, TypeOK, Holding
  <2>2. Holding'
    BY <1>7 DEF RemoveSocket, DaemonInv, TypeOK, Holding
  <2>3. Ownership'
    BY <1>7 DEF RemoveSocket, DaemonInv, TypeOK, Holding, Ownership
  <2> QED BY <2>1, <2>2, <2>3 DEF DaemonInv
<1>8. CASE ReleaseLock(d)
  <2>1. TypeOK'
    BY <1>8 DEF ReleaseLock, DaemonInv, TypeOK, Holding
  <2>2. Holding'
    BY <1>8 DEF ReleaseLock, DaemonInv, TypeOK, Holding
  <2>3. Ownership'
    BY <1>8 DEF ReleaseLock, DaemonInv, TypeOK, Holding, Ownership
  <2> QED BY <2>1, <2>2, <2>3 DEF DaemonInv
<1>9. CASE Exit(d)
  <2>1. TypeOK'
    BY <1>9 DEF Exit, DaemonInv, TypeOK, Holding
  <2>2. Holding'
    BY <1>9 DEF Exit, DaemonInv, TypeOK, Holding
  <2>3. Ownership'
    BY <1>9 DEF Exit, DaemonInv, TypeOK, Holding, Ownership
  <2> QED BY <2>1, <2>2, <2>3 DEF DaemonInv
<1>10. CASE Crash(d)
  <2>1. req' \in [Requests -> {"new", "pooled", "checked", "waiting"} \cup Settled]
    BY <1>10 DEF Crash, OnPool, DaemonInv, TypeOK
  <2>2. crashes' \in 0..MaxCrashes
    <3>1. crashes \in 0..MaxCrashes
      BY DEF DaemonInv, TypeOK
    <3>2. crashes < MaxCrashes /\ crashes' = crashes + 1
      BY <1>10 DEF Crash
    <3> QED BY <3>1, <3>2
  <2>3. TypeOK'
    BY <1>10, <2>1, <2>2 DEF Crash, DaemonInv, TypeOK, Holding
  <2>4. Holding'
    BY <1>10 DEF Crash, DaemonInv, TypeOK, Holding
  <2>5. Ownership'
    BY <1>10 DEF Crash, DaemonInv, TypeOK, Holding, Ownership
  <2> QED BY <2>3, <2>4, <2>5 DEF DaemonInv
<1> QED BY <1>1, <1>2, <1>3, <1>4, <1>5, <1>6, <1>7, <1>8, <1>9, <1>10

(* The actor thread's steps (_run) preserve the inductive invariant. *)
LEMMA ActorSteps ==
    ASSUME DaemonInv, NEW d \in Daemons,
           OpenSession(d) \/ RunItem(d) \/ StopItem(d) \/ Drain(d) \/ Drained(d) \/
           CloseSession(d)
    PROVE  DaemonInv'
<1> USE DaemonAssumption DEF Goto, DownGoto, ActorGoto, Put, flags, os, requests, counters,
        ReleasedLock, EnterShutdown, AlreadyDown, Owning, Opened, Settled
<1>1. CASE OpenSession(d)
  <2>1. /\ actor[d] = "opening" /\ ~session[d] /\ lock = d /\ main[d] = "opening"
        /\ UNCHANGED <<main, down, flags, queue, os, requests, early, counters>>
    BY <1>1 DEF OpenSession, DaemonInv, Holding
  <2>2. /\ \E a \in {"idle", "failed"} : actor' = [actor EXCEPT ![d] = a]
        /\ \E b \in BOOLEAN : session' = [session EXCEPT ![d] = b]
    <3>1. session = [session EXCEPT ![d] = FALSE]
      BY <2>1 DEF DaemonInv, TypeOK
    <3> QED BY <1>1, <3>1 DEF OpenSession
  <2>3. PICK a \in {"idle", "failed"}, b \in BOOLEAN :
            actor' = [actor EXCEPT ![d] = a] /\ session' = [session EXCEPT ![d] = b]
    BY <2>2
  <2>4. TypeOK'
    BY <2>1, <2>3 DEF DaemonInv, TypeOK
  <2>5. Holding'
    BY <2>1, <2>3 DEF DaemonInv, TypeOK, Holding
  <2>6. Ownership'
    BY <2>1 DEF DaemonInv, TypeOK, Ownership
  <2> QED BY <2>4, <2>5, <2>6 DEF DaemonInv
<1>2. CASE RunItem(d)
  <2>1. queue' \in [Daemons -> Seq(Items)]
    BY <1>2, QueueType, MainItems DEF RunItem, DaemonInv, TypeOK
  <2>2. req' \in [Requests -> {"new", "pooled", "checked", "waiting"} \cup Settled]
    BY <1>2 DEF RunItem, OnPool, DaemonInv, TypeOK
  <2>3. TypeOK'
    BY <1>2, <2>1, <2>2 DEF RunItem, DaemonInv, TypeOK, Holding
  <2>4. Holding'
    BY <1>2 DEF RunItem, DaemonInv, TypeOK, Holding
  <2>5. Ownership'
    BY <1>2 DEF RunItem, DaemonInv, TypeOK, Holding, Ownership
  <2> QED BY <2>3, <2>4, <2>5 DEF DaemonInv
<1>3. CASE StopItem(d)
  <2>1. queue' \in [Daemons -> Seq(Items)]
    BY <1>3, QueueType, MainItems DEF StopItem, DaemonInv, TypeOK
  <2>2. TypeOK'
    BY <1>3, <2>1 DEF StopItem, DaemonInv, TypeOK, Holding
  <2>3. Holding'
    BY <1>3 DEF StopItem, DaemonInv, TypeOK, Holding
  <2>4. Ownership'
    BY <1>3 DEF StopItem, DaemonInv, TypeOK, Holding, Ownership
  <2> QED BY <2>2, <2>3, <2>4 DEF DaemonInv
<1>4. CASE Drain(d)
  <2>1. queue' \in [Daemons -> Seq(Items)]
    BY <1>4, QueueType, MainItems DEF Drain, DaemonInv, TypeOK
  <2>2. req' \in [Requests -> {"new", "pooled", "checked", "waiting"} \cup Settled]
    BY <1>4 DEF Drain, OnPool, DaemonInv, TypeOK
  <2>3. TypeOK'
    BY <1>4, <2>1, <2>2 DEF Drain, DaemonInv, TypeOK, Holding
  <2>4. Holding'
    BY <1>4 DEF Drain, DaemonInv, TypeOK, Holding
  <2>5. Ownership'
    BY <1>4 DEF Drain, DaemonInv, TypeOK, Holding, Ownership
  <2> QED BY <2>3, <2>4, <2>5 DEF DaemonInv
<1>5. CASE Drained(d)
  <2>1. TypeOK'
    BY <1>5 DEF Drained, DaemonInv, TypeOK, Holding
  <2>2. Holding'
    BY <1>5 DEF Drained, DaemonInv, TypeOK, Holding
  <2>3. Ownership'
    BY <1>5 DEF Drained, DaemonInv, TypeOK, Holding, Ownership
  <2> QED BY <2>1, <2>2, <2>3 DEF DaemonInv
<1>6. CASE CloseSession(d)
  <2>1. TypeOK'
    BY <1>6 DEF CloseSession, DaemonInv, TypeOK, Holding
  <2>2. Holding'
    BY <1>6 DEF CloseSession, DaemonInv, TypeOK, Holding
  <2>3. Ownership'
    BY <1>6 DEF CloseSession, DaemonInv, TypeOK, Holding, Ownership
  <2> QED BY <2>1, <2>2, <2>3 DEF DaemonInv
<1> QED BY <1>1, <1>2, <1>3, <1>4, <1>5, <1>6

(* A request's steps (_handle_line, submit) preserve the inductive invariant. *)
LEMMA RequestSteps ==
    ASSUME DaemonInv, NEW r \in Requests,
           Receive(r) \/ Check(r) \/ Submit(r)
    PROVE  DaemonInv'
<1> USE DaemonAssumption DEF Goto, DownGoto, ActorGoto, Put, flags, os, requests, counters,
        ReleasedLock, EnterShutdown, AlreadyDown, Owning, Opened, Settled
<1>1. CASE Receive(r)
  <2>1. req' \in [Requests -> {"new", "pooled", "checked", "waiting"} \cup Settled]
    BY <1>1 DEF Receive, OnPool, DaemonInv, TypeOK
  <2>2. TypeOK'
    BY <1>1, <2>1 DEF Receive, DaemonInv, TypeOK, Holding
  <2>3. Holding'
    BY <1>1 DEF Receive, DaemonInv, TypeOK, Holding
  <2>4. Ownership'
    BY <1>1 DEF Receive, DaemonInv, TypeOK, Holding, Ownership
  <2> QED BY <2>2, <2>3, <2>4 DEF DaemonInv
<1>2. CASE Check(r)
  <2>1. req' \in [Requests -> {"new", "pooled", "checked", "waiting"} \cup Settled]
    BY <1>2 DEF Check, OnPool, DaemonInv, TypeOK
  <2>2. TypeOK'
    BY <1>2, <2>1 DEF Check, DaemonInv, TypeOK, Holding
  <2>3. Holding'
    BY <1>2 DEF Check, DaemonInv, TypeOK, Holding
  <2>4. Ownership'
    BY <1>2 DEF Check, DaemonInv, TypeOK, Holding, Ownership
  <2> QED BY <2>2, <2>3, <2>4 DEF DaemonInv
<1>3. CASE Submit(r)
  <2>1. queue' \in [Daemons -> Seq(Items)]
    BY <1>3, QueueType, MainItems DEF Submit, DaemonInv, TypeOK
  <2>2. req' \in [Requests -> {"new", "pooled", "checked", "waiting"} \cup Settled]
    BY <1>3 DEF Submit, OnPool, DaemonInv, TypeOK
  <2>3. TypeOK'
    BY <1>3, <2>1, <2>2 DEF Submit, DaemonInv, TypeOK, Holding
  <2>4. Holding'
    BY <1>3 DEF Submit, DaemonInv, TypeOK, Holding
  <2>5. Ownership'
    BY <1>3 DEF Submit, DaemonInv, TypeOK, Holding, Ownership
  <2> QED BY <2>3, <2>4, <2>5 DEF DaemonInv
<1> QED BY <1>1, <1>2, <1>3

(* Every step of the daemons preserves the inductive invariant. *)
LEMMA DaemonStep == DaemonInv /\ [Next]_vars => DaemonInv'
<1> SUFFICES ASSUME DaemonInv, [Next]_vars PROVE DaemonInv'
  OBVIOUS
<1>1. CASE UNCHANGED vars
  BY <1>1 DEF vars, flags, os, requests, counters, DaemonInv, TypeOK, Holding, Ownership
<1>2. CASE Next
  BY <1>2, StartSteps, StopSteps, ActorSteps, RequestSteps, Zenon DEF Next
<1> QED BY <1>1, <1>2

(* Who may have a session and who owns the socket path (_acquire_lock, _bind, shutdown)
   in every reachable state, with signals at any point. *)
THEOREM OwnershipInvariant == Spec => []DaemonInv
<1>1. Init => DaemonInv
  BY DaemonInit
<1>2. DaemonInv /\ [Next]_vars => DaemonInv'
  BY DaemonStep
<1> QED BY <1>1, <1>2, PTL DEF Spec

(* Whatever processes start, stop, fail, are signalled anywhere or are killed, in any
   number, a root has one writable session, up to a process that failed to start or
   gave up waiting for its actor (_acquire_lock, shutdown). *)
THEOREM OneSessionPerRoot == Spec => []OneSession
<1>1. DaemonInv => OneSession
  BY DEF DaemonInv, Holding, OneSession
<1> QED BY <1>1, OwnershipInvariant, PTL

(* The socket file of a daemon that accepts clients stays in place, as long as no
   process was signalled outside its accept loop (_bind, shutdown). *)
THEOREM ServingSocketStands == Spec => []SocketStands
<1>1. DaemonInv => SocketStands
  BY DEF DaemonInv, Ownership, SocketStands
<1> QED BY <1>1, OwnershipInvariant, PTL
=============================================================================
