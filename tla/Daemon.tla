------------------------------- MODULE Daemon -------------------------------
(***************************************************************************)
(* The daemon (src/tyo3/daemon): processes that compete for one root, each *)
(* with a main thread (serve_forever, shutdown), the actor thread that     *)
(* owns its session, and pool threads that run requests on the actor       *)
(* through submit.                                                         *)
(*                                                                         *)
(* The signal handlers are live before serve_forever begins and run        *)
(* shutdown on top of whatever the main thread is doing, which then goes   *)
(* on where it was: main is the place in serve_forever, down the place in  *)
(* the shutdown above it.  The few lines that open shutdown (server.py     *)
(* 413-418) are one step.                                                  *)
(*                                                                         *)
(* A request is one submit; what it computes is the handlers' business.    *)
(* The operating system's part is external: flock is exclusive and falls   *)
(* free when its holder dies, a socket file outlives the process that      *)
(* bound it, and a process whose main thread has returned exits when its   *)
(* pool threads have ended, taking the actor thread with it.               *)
(***************************************************************************)
EXTENDS Naturals, Sequences, FiniteSets

CONSTANTS
    Daemons,     \* processes that serve, or try to serve, the root
    Requests,    \* client requests
    Nobody,      \* no process
    MaxStarts,   \* bound: process starts
    MaxCrashes   \* bound: processes killed

ASSUME DaemonAssumption ==
    /\ Nobody \notin Daemons
    /\ MaxStarts \in Nat /\ MaxCrashes \in Nat

VARIABLES
    main,       \* where the main thread of a process is in serve_forever
    down,       \* where it is in shutdown, "none" when not in it
    shut,       \* DaemonServer._shutdown is set
    listening,  \* DaemonServer._server_sock is there
    actor,      \* where its SessionActor thread is
    session,    \* its TyO3Session is open
    stopped,    \* SessionActor._stopped
    gaveUp,     \* the join of the actor timed out
    queue,      \* SessionActor._queue
    lock,       \* the holder of .tyo3/daemon.lock
    socket,     \* the process whose socket file is at the socket path
    req,        \* where a request is
    at,         \* the process it was sent to
    early,      \* history: the processes that got a signal outside the accept loop
    starts, crashes   \* counters for the bounds

flags == <<shut, listening, stopped, gaveUp>>
os == <<lock, socket>>
requests == <<req, at>>
counters == <<starts, crashes>>
vars == <<main, down, flags, actor, session, queue, os, requests, early, counters>>

(* The closures the main thread submits, and the sentinel of stop. *)
Subscribe == "subscribe"
CloseHandlers == "close_handlers"
STOP == "STOP"

Settled == {"answered", "cancelled", "refused", "dropped"}
OnPool(d) ==
    {r \in Requests : at[r] = d /\ req[r] \in {"pooled", "checked", "waiting"}}

Init ==
    /\ main = [d \in Daemons |-> "off"] /\ down = [d \in Daemons |-> "none"]
    /\ shut = [d \in Daemons |-> FALSE] /\ listening = [d \in Daemons |-> FALSE]
    /\ actor = [d \in Daemons |-> "none"]
    /\ session = [d \in Daemons |-> FALSE] /\ stopped = [d \in Daemons |-> FALSE]
    /\ gaveUp = [d \in Daemons |-> FALSE]
    /\ queue = [d \in Daemons |-> <<>>]
    /\ lock = Nobody /\ socket = Nobody
    /\ req = [r \in Requests |-> "new"] /\ at = [r \in Requests |-> Nobody]
    /\ early = {} /\ starts = 0 /\ crashes = 0

(* A step of serve_forever: the main thread is not in a shutdown above it. *)
Goto(d, from, to) ==
    /\ main[d] = from /\ down[d] = "none"
    /\ main' = [main EXCEPT ![d] = to] /\ UNCHANGED down

(* A step of shutdown. *)
DownGoto(d, from, to) ==
    /\ down[d] = from
    /\ down' = [down EXCEPT ![d] = to] /\ UNCHANGED main

Put(d, item) == queue' = [queue EXCEPT ![d] = Append(@, item)]

-----------------------------------------------------------------------------
(* main and serve_forever. *)

(* A process starts: a new DaemonServer, with the signal handlers installed. *)
Start(d) ==
    /\ Goto(d, "off", "ready") /\ starts < MaxStarts
    /\ shut' = [shut EXCEPT ![d] = FALSE] /\ listening' = [listening EXCEPT ![d] = FALSE]
    /\ stopped' = [stopped EXCEPT ![d] = FALSE] /\ gaveUp' = [gaveUp EXCEPT ![d] = FALSE]
    /\ queue' = [queue EXCEPT ![d] = <<>>]
    /\ starts' = starts + 1
    /\ UNCHANGED <<actor, session, os, requests, early, crashes>>

(* _acquire_lock. *)
AcquireLock(d) ==
    /\ Goto(d, "ready", "locked") /\ lock = Nobody
    /\ lock' = d
    /\ UNCHANGED <<flags, actor, session, queue, socket, requests, early, counters>>

(* The lock is another's: the process exits with status 3. *)
AlreadyRunning(d) ==
    /\ Goto(d, "ready", "off") /\ lock # Nobody
    /\ UNCHANGED <<flags, actor, session, queue, os, requests, early, counters>>

(* SessionActor.start *)
StartActor(d) ==
    /\ Goto(d, "locked", "opening")
    /\ actor' = [actor EXCEPT ![d] = "opening"]
    /\ UNCHANGED <<flags, session, queue, os, requests, early, counters>>

(* _release_lock: does nothing in a process that has no lock. *)
ReleasedLock(d) == IF lock = d THEN Nobody ELSE lock

(* start raises the error of the open: the lock is released and the process exits. *)
OpenFailed(d) ==
    /\ Goto(d, "opening", "failed") /\ actor[d] = "failed"
    /\ lock' = ReleasedLock(d)
    /\ UNCHANGED <<flags, actor, session, queue, socket, requests, early, counters>>

(* BusPump.start subscribes through the actor: submit looks at _stopped ... *)
PumpStart(d) ==
    /\ Goto(d, "opening", IF stopped[d] THEN "failed" ELSE "checked")
    /\ actor[d] \in {"idle", "draining", "closing", "done"}
    /\ lock' = IF stopped[d] THEN ReleasedLock(d) ELSE lock
    /\ UNCHANGED <<flags, actor, session, queue, socket, requests, early, counters>>

(* ... and later queues the closure. *)
PumpSubmit(d) ==
    /\ Goto(d, "checked", "subscribing")
    /\ Put(d, Subscribe)
    /\ UNCHANGED <<flags, actor, session, os, requests, early, counters>>

(* _bind: whatever socket file is there is removed ... *)
Unlink(d) ==
    /\ Goto(d, "subscribed", "unlinked")
    /\ socket' = Nobody
    /\ UNCHANGED <<flags, actor, session, queue, lock, requests, early, counters>>

(* ... ours is put in its place ... *)
Bind(d) ==
    /\ Goto(d, "unlinked", "bound") /\ socket = Nobody
    /\ socket' = d
    /\ UNCHANGED <<flags, actor, session, queue, lock, requests, early, counters>>

(* ... and kept in _server_sock; the accept loop follows. *)
Listen(d) ==
    /\ Goto(d, "bound", "serving")
    /\ listening' = [listening EXCEPT ![d] = TRUE]
    /\ UNCHANGED <<shut, stopped, gaveUp, actor, session, queue, os, requests, early, counters>>

(* bind raises, as it does when there is a socket file again: the lock is released
   with the actor still running, then the process exits. *)
BindFailed(d) ==
    /\ Goto(d, "unlinked", "failed")
    /\ lock' = ReleasedLock(d)
    /\ UNCHANGED <<flags, actor, session, queue, socket, requests, early, counters>>

-----------------------------------------------------------------------------
(* shutdown. *)

(* A second shutdown returns at once, unless there is a socket to close. *)
AlreadyDown(d) == shut[d] /\ ~listening[d]

(* The server socket and the clients are closed and the pool is shut down: requests
   that no pool thread has begun are cancelled.  The pump is stopped. *)
EnterShutdown(d) ==
    /\ ~AlreadyDown(d)
    /\ down' = [down EXCEPT ![d] = "shutdown"]
    /\ shut' = [shut EXCEPT ![d] = TRUE] /\ listening' = [listening EXCEPT ![d] = FALSE]
    /\ \E S \in SUBSET {r \in OnPool(d) : req[r] = "pooled"} :
          req' = [r \in Requests |-> IF r \in S THEN "dropped" ELSE req[r]]
    /\ UNCHANGED <<stopped, gaveUp, actor, session, queue, os, at, counters>>

(* SIGINT or SIGTERM, wherever the main thread is. *)
Signal(d) ==
    /\ main[d] # "off" /\ EnterShutdown(d)
    /\ early' = IF main[d] = "serving" THEN early ELSE early \cup {d}
    /\ UNCHANGED main

(* The accept loop ends: after a shutdown, with --autostop when the last client has
   gone, or because accept raised.  Its finally clause shuts down. *)
LeaveAccept(d) ==
    /\ main[d] = "serving" /\ down[d] = "none"
    /\ \/ /\ EnterShutdown(d)
          /\ main' = [main EXCEPT ![d] = "finally"]
       \/ /\ AlreadyDown(d)
          /\ main' = [main EXCEPT ![d] = "returned"]
          /\ UNCHANGED <<down, flags, actor, session, queue, os, requests, counters>>
    /\ UNCHANGED early

(* Mistaken: submit does not look at _stopped. *)
SubmitCloseAlways(d) ==
    /\ DownGoto(d, "shutdown", "closing")
    /\ Put(d, CloseHandlers)
    /\ UNCHANGED <<flags, actor, session, os, requests, early, counters>>

(* The handlers' read snapshot is released on the actor; a stopped actor refuses, and
   shutdown goes on. *)
SubmitClose(d) ==
    /\ \/ /\ ~stopped[d]
          /\ DownGoto(d, "shutdown", "closing")
          /\ Put(d, CloseHandlers)
       \/ /\ stopped[d]
          /\ DownGoto(d, "shutdown", "closed")
          /\ UNCHANGED queue
    /\ UNCHANGED <<flags, actor, session, os, requests, early, counters>>

(* Mistaken: the lock is released as soon as the actor has been told to stop. *)
StopAndRelease(d) ==
    /\ DownGoto(d, "closed", "joining")
    /\ stopped' = [stopped EXCEPT ![d] = TRUE]
    /\ Put(d, STOP)
    /\ lock' = ReleasedLock(d)
    /\ UNCHANGED <<shut, listening, gaveUp, actor, session, socket, requests, early, counters>>

(* SessionActor.stop: refuse new work, queue the sentinel, join the thread; nothing
   the second time. *)
Stop(d) ==
    /\ \/ /\ ~stopped[d]
          /\ DownGoto(d, "closed", "joining")
          /\ stopped' = [stopped EXCEPT ![d] = TRUE]
          /\ Put(d, STOP)
       \/ /\ stopped[d]
          /\ DownGoto(d, "closed", "joined")
          /\ UNCHANGED <<stopped, queue>>
    /\ UNCHANGED <<shut, listening, gaveUp, actor, session, os, requests, early, counters>>

(* Mistaken: the lock is dropped before the socket file is removed. *)
JoinedAndReleased(d) ==
    /\ DownGoto(d, "joining", "joined") /\ actor[d] \in {"failed", "done"}
    /\ lock' = ReleasedLock(d)
    /\ UNCHANGED <<flags, actor, session, queue, socket, requests, early, counters>>

Joined(d) ==
    /\ DownGoto(d, "joining", "joined") /\ actor[d] \in {"failed", "done"}
    /\ UNCHANGED <<flags, actor, session, queue, os, requests, early, counters>>

(* The join times out with the actor still at work, and shutdown goes on. *)
JoinTimesOut(d) ==
    /\ DownGoto(d, "joining", "joined") /\ actor[d] \notin {"failed", "done"}
    /\ gaveUp' = [gaveUp EXCEPT ![d] = TRUE]
    /\ UNCHANGED <<shut, listening, stopped, actor, session, queue, os, requests, early, counters>>

(* The socket file is removed: by its name, whoever bound it. *)
RemoveSocket(d) ==
    /\ DownGoto(d, "joined", "removed")
    /\ socket' = Nobody
    /\ UNCHANGED <<flags, actor, session, queue, lock, requests, early, counters>>

(* The lock is dropped after the socket file; the main thread returns, or goes on where
   the signal found it. *)
ReleaseLock(d) ==
    /\ down[d] = "removed"
    /\ down' = [down EXCEPT ![d] = "none"]
    /\ main' = [main EXCEPT ![d] = IF @ = "finally" THEN "returned" ELSE @]
    /\ lock' = ReleasedLock(d)
    /\ UNCHANGED <<flags, actor, session, queue, socket, requests, early, counters>>

(* The process exits once its pool threads have ended. *)
Exit(d) ==
    /\ main[d] \in {"returned", "failed"} /\ down[d] = "none" /\ OnPool(d) = {}
    /\ main' = [main EXCEPT ![d] = "off"]
    /\ actor' = [actor EXCEPT ![d] = "none"]
    /\ session' = [session EXCEPT ![d] = FALSE]
    /\ UNCHANGED <<down, flags, queue, os, requests, early, counters>>

(* The process is killed. *)
Crash(d) ==
    /\ main[d] # "off" /\ crashes < MaxCrashes
    /\ main' = [main EXCEPT ![d] = "off"] /\ down' = [down EXCEPT ![d] = "none"]
    /\ actor' = [actor EXCEPT ![d] = "none"]
    /\ session' = [session EXCEPT ![d] = FALSE]
    /\ lock' = ReleasedLock(d)
    /\ req' = [r \in Requests |-> IF at[r] = d /\ req[r] \notin Settled THEN "dropped"
                                                                      ELSE req[r]]
    /\ crashes' = crashes + 1
    /\ UNCHANGED <<flags, queue, socket, at, early, starts>>

-----------------------------------------------------------------------------
(* Requests: _handle_line, _dispatch_and_reply and SessionActor.submit. *)

(* A client reaches the process that listens and its request enters the pool. *)
Receive(r) ==
    /\ req[r] = "new" /\ socket # Nobody /\ main[socket] = "serving" /\ ~shut[socket]
    /\ req' = [req EXCEPT ![r] = "pooled"] /\ at' = [at EXCEPT ![r] = socket]
    /\ UNCHANGED <<main, down, flags, actor, session, queue, os, early, counters>>

(* submit looks at _stopped ... *)
Check(r) ==
    /\ req[r] = "pooled"
    /\ req' = [req EXCEPT ![r] = IF stopped[at[r]] THEN "refused" ELSE "checked"]
    /\ UNCHANGED <<main, down, flags, actor, session, queue, os, at, early, counters>>

(* ... and later queues the closure and blocks on its future. *)
Submit(r) ==
    /\ req[r] = "checked"
    /\ req' = [req EXCEPT ![r] = "waiting"]
    /\ Put(at[r], r)
    /\ UNCHANGED <<main, down, flags, actor, session, os, at, early, counters>>

-----------------------------------------------------------------------------
(* The actor thread (_run). *)

ActorGoto(d, from, to) == actor[d] = from /\ actor' = [actor EXCEPT ![d] = to]

(* The session is opened and indexed, or start is told the error and the thread ends:
   a session whose sync_all raised is left open. *)
OpenSession(d) ==
    /\ \/ ActorGoto(d, "opening", "idle") /\ session' = [session EXCEPT ![d] = TRUE]
       \/ ActorGoto(d, "opening", "failed") /\ session' \in {session, [session EXCEPT ![d] = TRUE]}
    /\ UNCHANGED <<main, down, flags, queue, os, requests, early, counters>>

(* One item of the loop: the closure runs on the session and its waiter goes on. *)
RunItem(d) ==
    /\ actor[d] = "idle" /\ queue[d] # <<>> /\ Head(queue[d]) # STOP
    /\ queue' = [queue EXCEPT ![d] = Tail(@)]
    /\ LET item == Head(queue[d])
       IN  /\ main' = [main EXCEPT ![d] =
                         IF item = Subscribe /\ @ = "subscribing" THEN "subscribed" ELSE @]
           /\ down' = [down EXCEPT ![d] =
                         IF item = CloseHandlers /\ @ = "closing" THEN "closed" ELSE @]
           /\ req' = [r \in Requests |-> IF r = item THEN "answered" ELSE req[r]]
    /\ UNCHANGED <<flags, actor, session, os, at, early, counters>>

StopItem(d) ==
    /\ ActorGoto(d, "idle", "draining")
    /\ queue[d] # <<>> /\ Head(queue[d]) = STOP
    /\ queue' = [queue EXCEPT ![d] = Tail(@)]
    /\ UNCHANGED <<main, down, flags, session, os, requests, early, counters>>

(* Mistaken: drops the queue without cancelling the futures in it. *)
DiscardRest(d) ==
    /\ actor[d] = "draining" /\ queue[d] # <<>>
    /\ queue' = [queue EXCEPT ![d] = <<>>]
    /\ UNCHANGED <<main, down, flags, actor, session, os, requests, early, counters>>

(* What is left in the queue is cancelled, one item at a time; a cancelled subscribe
   raises in the main thread. *)
Drain(d) ==
    /\ actor[d] = "draining" /\ queue[d] # <<>>
    /\ queue' = [queue EXCEPT ![d] = Tail(@)]
    /\ main' = [main EXCEPT ![d] =
                  IF Head(queue[d]) = Subscribe /\ @ = "subscribing" THEN "failed" ELSE @]
    /\ lock' = IF main'[d] # main[d] THEN ReleasedLock(d) ELSE lock
    /\ req' = [r \in Requests |-> IF r = Head(queue[d]) THEN "cancelled" ELSE req[r]]
    /\ UNCHANGED <<down, flags, actor, session, socket, at, early, counters>>

Drained(d) ==
    /\ ActorGoto(d, "draining", "closing") /\ queue[d] = <<>>
    /\ UNCHANGED <<main, down, flags, session, queue, os, requests, early, counters>>

CloseSession(d) ==
    /\ ActorGoto(d, "closing", "done")
    /\ session' = [session EXCEPT ![d] = FALSE]
    /\ UNCHANGED <<main, down, flags, queue, os, requests, early, counters>>

Next ==
    \/ \E d \in Daemons :
          \/ Start(d) \/ AcquireLock(d) \/ AlreadyRunning(d) \/ StartActor(d)
          \/ OpenFailed(d) \/ PumpStart(d) \/ PumpSubmit(d)
          \/ Unlink(d) \/ Bind(d) \/ Listen(d) \/ BindFailed(d)
          \/ Signal(d) \/ LeaveAccept(d) \/ SubmitClose(d) \/ Stop(d) \/ Joined(d)
          \/ JoinTimesOut(d) \/ RemoveSocket(d) \/ ReleaseLock(d) \/ Exit(d) \/ Crash(d)
          \/ OpenSession(d) \/ RunItem(d) \/ StopItem(d) \/ Drain(d) \/ Drained(d)
          \/ CloseSession(d)
    \/ \E r \in Requests : Receive(r) \/ Check(r) \/ Submit(r)

Spec == Init /\ [][Next]_vars

(* Threads that can go on do: the closures of the handlers terminate, and a process
   serves until somebody shuts it down. *)
FairSpec ==
    /\ Spec
    /\ \A d \in Daemons :
          /\ WF_vars(AcquireLock(d) \/ AlreadyRunning(d) \/ StartActor(d) \/ OpenFailed(d)
                       \/ PumpStart(d) \/ PumpSubmit(d) \/ Unlink(d) \/ Bind(d) \/ Listen(d)
                       \/ BindFailed(d) \/ (shut[d] /\ LeaveAccept(d)))
          /\ WF_vars(SubmitClose(d) \/ Stop(d) \/ Joined(d) \/ JoinTimesOut(d)
                       \/ RemoveSocket(d) \/ ReleaseLock(d) \/ Exit(d))
          /\ WF_vars(OpenSession(d) \/ RunItem(d) \/ StopItem(d) \/ Drain(d)
                       \/ Drained(d) \/ CloseSession(d))
    /\ \A r \in Requests : WF_vars(Check(r) \/ Submit(r))

-----------------------------------------------------------------------------
(* Properties. *)

(* Where a main thread is in serve_forever after it took the lock. *)
Owning == {"locked", "opening", "checked", "subscribing", "subscribed", "unlinked",
           "bound", "serving", "finally"}

Items == Requests \cup {Subscribe, CloseHandlers, STOP}

(* Every variable of the daemons keeps its type, and the lock is held by a process
   that is alive. *)
TypeOK ==
    /\ main \in [Daemons -> Owning \cup {"off", "ready", "returned", "failed"}]
    /\ down \in [Daemons -> {"none", "shutdown", "closing", "closed", "joining", "joined",
                             "removed"}]
    /\ shut \in [Daemons -> BOOLEAN] /\ listening \in [Daemons -> BOOLEAN]
    /\ actor \in [Daemons -> {"none", "opening", "failed", "idle", "draining",
                              "closing", "done"}]
    /\ session \in [Daemons -> BOOLEAN] /\ stopped \in [Daemons -> BOOLEAN]
    /\ gaveUp \in [Daemons -> BOOLEAN]
    /\ queue \in [Daemons -> Seq(Items)]
    /\ lock \in Daemons \cup {Nobody} /\ socket \in Daemons \cup {Nobody}
    /\ lock # Nobody => main[lock] # "off"
    /\ req \in [Requests -> {"new", "pooled", "checked", "waiting"} \cup Settled]
    /\ at \in [Requests -> Daemons \cup {Nobody}]
    /\ early \subseteq Daemons
    /\ starts \in 0..MaxStarts /\ crashes \in 0..MaxCrashes

(* One writable session per root, wherever signals and kills strike: two processes have
   a session open at once only while one of them leaves it behind that could not open
   or bind, or whose shutdown gave up waiting for the actor. *)
OneSession ==
    \A d, e \in Daemons :
        d # e /\ session[d] /\ session[e] =>
            \E x \in {d, e} : main[x] = "failed" \/ gaveUp[x]

(* The socket file of a daemon that accepts clients stays in place: no other process,
   starting up, shutting down late or killed, removes or replaces it, as long as
   signals reach processes in their accept loop only. *)
SocketStands ==
    early = {} =>
        \A d \in Daemons : main[d] = "serving" /\ ~shut[d] => socket = d

(* _bind takes the socket path of whoever has it because it holds the lock: "We hold
   the exclusive lock ... Removing it is safe now, and only now". *)
BindHoldsLock ==
    \A d \in Daemons : main[d] \in {"unlinked", "bound"} /\ down[d] = "none" => lock = d

(* A request that reaches the queue while the actor still reads it is answered or
   cancelled: its client thread never waits for ever. *)
RequestsSettle ==
    \A r \in Requests :
        req[r] = "waiting" /\ actor[at[r]] \in {"idle", "draining"}
            ~> req[r] \in Settled

(* A request is stranded when submit saw the actor running and queued its closure
   after the drain: the closure stays in the queue for good. *)
Stranded(d) ==
    /\ actor[d] \in {"closing", "done"}
    /\ \E i \in DOMAIN queue[d] : queue[d][i] \in OnPool(d)

(* The main thread waits for a closure that no actor thread is there to run: a signal
   found it before the actor was started or while the open failed, or between the two
   halves of its own submit. *)
Abandoned(d) ==
    \/ down[d] = "closing" /\ actor[d] \in {"none", "failed"}
    \/ down[d] = "none" /\ main[d] = "subscribing" /\ actor[d] \in {"closing", "done"}

(* A shutdown that has begun ends with the process gone, also one that a signal began
   in the middle of the start and one that follows another, unless a request is
   stranded or the main thread abandoned. *)
ShutdownCompletes ==
    \A d \in Daemons :
        down[d] = "shutdown" ~> main[d] = "off" \/ Stranded(d) \/ Abandoned(d)

(* "SIGINT / SIGTERM trigger a clean shutdown": a process that was signalled ends. *)
SignalsStop ==
    \A d \in Daemons : down[d] = "shutdown" ~> main[d] = "off" \/ Stranded(d)
=============================================================================
