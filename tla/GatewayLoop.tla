------------------------------ MODULE GatewayLoop ------------------------------
(***************************************************************************)
(* The run loop of the gateway process,                                    *)
(* src/src/cli/gateway-cli/run-loop.ts: it starts the server, takes        *)
(* requests to stop or restart, drains and closes the server, and hands    *)
(* over to a new process or starts the server again in this one.           *)
(*                                                                         *)
(* The gateway lock is a file, src/src/infra/gateway-lock.ts: what this    *)
(* process has of it, the handle, is kept apart from whose the file is,    *)
(* which others may change while this process has the handle.              *)
(*                                                                         *)
(* The awaits that only load modules in memory are not steps.  The command *)
(* queue is here only as its draining flag, the agent runs only as a drain *)
(* that ends or does not.                                                  *)
(***************************************************************************)
EXTENDS Integers

VARIABLES
    loop,          \* where the main loop is
    first,         \* isFirstStart
    server,        \* is the server's close handle there?
    shuttingDown,  \* a request was taken
    resolver,      \* restartResolver is set: the loop waits for a restart
    parked,        \* reason of pendingStartupRequest
    failedStart,   \* startupFailedWithoutServerHandle
    marked,        \* restartDrainingMarkPromise is set
    draining,      \* the command queue refuses new work
    held,          \* lock: has this process a handle of the gateway lock?
    lockFile,      \* whose the lock file is, if there is one
    lockless,      \* history: the loop goes on without the lock, after a child
                   \* that stayed unhealthy (run-loop.ts:212)
    task           \* runs of runAcceptedRequest

lock     == <<held, lockFile, lockless>>
loopVars == <<loop, first, server, shuttingDown, resolver, parked, failedStart,
              marked, draining, lock, task>>

\* One request is carried out at a time; the second place is there to see it.
Tasks == {1, 2}

Loops   == {"iterating", "starting", "failed", "resting", "exited"}
Owners  == {"none", "gateway", "other"}
Task    == [at : {"idle", "draining", "closing", "respawning", "reacquiring", "stopping"},
            reason : {"none", "update", "other"}, capped : BOOLEAN, hadLock : BOOLEAN]
NoTask  == [at |-> "idle", reason |-> "none", capped |-> FALSE, hadLock |-> FALSE]

LockTypeOK == held \in BOOLEAN /\ lockFile \in Owners /\ lockless \in BOOLEAN

LoopTypeOK ==
    /\ loop \in Loops
    /\ first \in BOOLEAN /\ server \in BOOLEAN /\ shuttingDown \in BOOLEAN
    /\ resolver \in BOOLEAN /\ failedStart \in BOOLEAN
    /\ marked \in BOOLEAN /\ draining \in BOOLEAN
    /\ parked \in {"none", "update", "other"}
    /\ LockTypeOK
    /\ task \in [Tasks -> Task]

LoopInit ==
    /\ loop = "starting" /\ first = TRUE
    /\ server = FALSE /\ shuttingDown = FALSE
    /\ resolver = FALSE /\ failedStart = FALSE
    /\ marked = FALSE /\ draining = FALSE
    /\ parked = "none"
    /\ held = TRUE /\ lockFile = "gateway" /\ lockless = FALSE
    /\ task = [t \in Tasks |-> NoTask]

-----------------------------------------------------------------------------
\* releaseLockIfHeld.  The file goes, even if it is another's by now.
Release ==
    /\ held' = FALSE
    /\ lockFile' = IF held THEN "none" ELSE lockFile
    /\ UNCHANGED lockless

\* exitProcess: nothing of this process happens any more.
Exit ==
    /\ loop' = "exited"
    /\ UNCHANGED <<first, server, shuttingDown, resolver, parked, failedStart,
                   marked, draining, lock, task>>

\* The tasks, with new under way.
Launched(new) ==
    {[task EXCEPT ![t] = new] : t \in {u \in Tasks : task[u].at = "idle" /\
                                          \A v \in Tasks : v < u => task[v].at # "idle"}}

\* markRestartDraining: marks once until the promise is forgotten.
MarkDraining ==
    /\ marked' = TRUE
    /\ draining' = (draining \/ ~marked)

\* runAcceptedRequest up to the wait for active work, or to server.close.
RunRestart(reason, capped) ==
    /\ task' \in Launched([NoTask EXCEPT !.at = "draining", !.reason = reason, !.capped = capped])
    /\ MarkDraining

RunStop ==
    /\ task' \in Launched([NoTask EXCEPT !.at = "stopping"])
    /\ UNCHANGED <<marked, draining>>

\* Faulty: a stop is ignored like any other request.
StopTakesNoPlace == FALSE

\* Does a stop take the place of a restart that still waits for the server?
StopTakesPlace == parked # "none" /\ ~server

\* Faulty: the restart that waited is not forgotten.
StopInsteadKeepingParked ==
    /\ failedStart' = FALSE
    /\ RunStop
    /\ UNCHANGED <<loop, first, server, shuttingDown, resolver, parked, lock>>

\* The stop is carried out, the restart that waited is forgotten.
StopInstead ==
    /\ parked' = "none"
    /\ failedStart' = FALSE
    /\ RunStop
    /\ UNCHANGED <<loop, first, server, shuttingDown, resolver, lock>>

\* request("stop"): during a shutdown it is ignored, with one exception.
RequestStop ==
    \/ /\ ~shuttingDown
       /\ shuttingDown' = TRUE
       /\ RunStop
       /\ UNCHANGED <<loop, first, server, resolver, parked, failedStart, lock>>
    \/ shuttingDown /\ StopTakesPlace /\ StopInstead
    \/ shuttingDown /\ ~StopTakesPlace /\ UNCHANGED loopVars

\* The server's handle is there, or its start has failed for good.
CanRestart == resolver /\ (server \/ failedStart)

\* request("restart"): without a server to close it waits for the start.
RequestRestart(reason) ==
    \/ shuttingDown /\ UNCHANGED loopVars
    \/ /\ ~shuttingDown /\ CanRestart
       /\ shuttingDown' = TRUE
       /\ failedStart' = (failedStart /\ server)
       /\ \E capped \in BOOLEAN : RunRestart(reason, capped)
       /\ UNCHANGED <<loop, first, server, resolver, parked, lock>>
    \/ /\ ~shuttingDown /\ ~CanRestart
       /\ shuttingDown' = TRUE
       /\ parked' = reason
       /\ MarkDraining
       /\ UNCHANGED <<loop, first, server, resolver, failedStart, lock, task>>

-----------------------------------------------------------------------------
(* The main loop.                                                          *)

\* Faulty: without a server the request goes on waiting.
FlushOnlyWithServer(failed) ==
    IF parked = "none" \/ failed
    THEN failedStart' = failed /\ UNCHANGED <<parked, task, marked, draining>>
    ELSE /\ parked' = "none"
         /\ failedStart' = FALSE
         /\ \E capped \in BOOLEAN : RunRestart(parked, capped)

\* flushPendingStartupRequest, with the request that waited if there is one.
Flush(failed) ==
    IF parked = "none"
    THEN failedStart' = failed /\ UNCHANGED <<parked, task, marked, draining>>
    ELSE /\ parked' = "none"
         /\ failedStart' = FALSE
         /\ \E capped \in BOOLEAN : RunRestart(parked, capped)

\* params.start returns the server; the loop waits for a restart.
StartSucceeds ==
    /\ loop = "starting"
    /\ loop' = "resting" /\ resolver' = TRUE
    /\ server' = TRUE /\ first' = FALSE
    /\ Flush(FALSE)
    /\ UNCHANGED <<shuttingDown, lock>>

\* params.start throws.  The first time the process ends; later it stays, and
\* gives the lock back unless a restart waits already.
StartFails ==
    /\ loop = "starting"
    /\ IF first
       THEN loop' = "exited" /\ Release /\ UNCHANGED failedStart
       ELSE /\ loop' = "failed" /\ failedStart' = TRUE
            /\ IF parked = "none" THEN Release ELSE UNCHANGED lock
    /\ UNCHANGED <<first, server, shuttingDown, resolver, parked, marked, draining, task>>

\* The failure is reported; the loop waits for a restart.
FailureReported ==
    /\ loop = "failed"
    /\ loop' = "resting" /\ resolver' = TRUE
    /\ Flush(failedStart)
    /\ UNCHANGED <<first, server, shuttingDown, lock>>

\* The timer armed for a request that waits for the start.
ParkedTooLong == parked # "none" /\ Exit

\* Faulty: the lanes are not reset.
ResetNothing ==
    /\ loop = "iterating"
    /\ loop' = "starting"
    /\ marked' = FALSE
    /\ UNCHANGED <<first, server, shuttingDown, resolver, parked, failedStart, draining, lock, task>>

\* Faulty: the promise of the last drain is kept.
ResetKeepingMark ==
    /\ loop = "iterating"
    /\ loop' = "starting"
    /\ draining' = FALSE
    /\ UNCHANGED <<first, server, shuttingDown, resolver, parked, failedStart, marked, lock, task>>

\* onIteration for a restart in this process, as far as the loop is concerned.
ResetForNextStart ==
    /\ loop = "iterating"
    /\ loop' = "starting"
    /\ draining' = FALSE
    /\ marked' = FALSE
    /\ UNCHANGED <<first, server, shuttingDown, resolver, parked, failedStart, lock, task>>

-----------------------------------------------------------------------------
(* runAcceptedRequest.                                                     *)

\* The active work has ended, was aborted, or is not waited for any longer.
DrainEnds(t) ==
    /\ task[t].at = "draining"
    /\ task' = [task EXCEPT ![t].at = "closing"]
    /\ UNCHANGED <<loop, first, server, shuttingDown, resolver, parked, failedStart,
                   marked, draining, lock>>

\* The force-exit timer; a drain without a limit has none until it closes.
ForceExit(t) ==
    /\ \/ task[t].at \in {"closing", "stopping"}
       \/ task[t].at = "draining" /\ task[t].capped
    /\ Exit

\* The server is closed, or could not be: a restart gives the lock back.
Closed(t) ==
    /\ task[t].at = "closing"
    /\ server' = FALSE
    /\ Release
    /\ task' = [task EXCEPT ![t].at = "respawning", ![t].hadLock = held]
    /\ UNCHANGED <<loop, first, shuttingDown, resolver, parked, failedStart, marked, draining>>

\* The same for a stop, which ends the process.
Stopped(t) ==
    /\ task[t].at = "stopping"
    /\ server' = FALSE
    /\ Release
    /\ loop' = "exited"
    /\ UNCHANGED <<first, shuttingDown, resolver, parked, failedStart, marked, draining, task>>

\* The loop goes on: shuttingDown ends, restartResolver is called.
GoOn(t) ==
    /\ shuttingDown' = FALSE
    /\ resolver' = FALSE
    /\ loop' = IF resolver THEN "iterating" ELSE loop
    /\ task' = [task EXCEPT ![t] = NoTask]

\* Faulty: every restart in the process takes the lock again only if it had it.
RespawnedRemembering(t) ==
    /\ task[t].at = "respawning"
    /\ \/ Exit
       \/ /\ task[t].hadLock
          /\ task' = [task EXCEPT ![t].at = "reacquiring"]
          /\ UNCHANGED <<loop, first, server, shuttingDown, resolver, parked, failedStart,
                         marked, draining, lock>>
       \/ /\ ~task[t].hadLock
          /\ GoOn(t)
          /\ lockless' = (task[t].reason = "update")
          /\ UNCHANGED <<first, server, parked, failedStart, marked, draining, held, lockFile>>

\* handleRestartAfterServerClose hands over to a new process and exits, or
\* stays and takes the lock again.  Only when the child of an update stayed
\* unhealthy and was killed is the lock not taken by those who had none.
Respawned(t) ==
    /\ task[t].at = "respawning"
    /\ \/ Exit
       \/ /\ task' = [task EXCEPT ![t].at = "reacquiring"]
          /\ UNCHANGED <<loop, first, server, shuttingDown, resolver, parked, failedStart,
                         marked, draining, lock>>
       \/ /\ task[t].reason = "update" /\ ~task[t].hadLock
          /\ GoOn(t)
          /\ lockless' = TRUE
          /\ UNCHANGED <<first, server, parked, failedStart, marked, draining, held, lockFile>>

-----------------------------------------------------------------------------
(* The lock file between processes.                                        *)

\* reacquireLockForInProcessRestart: the file is created where there is none;
\* an owner that stays for 5 s, or an error, ends this process.
Reacquired(t) ==
    /\ task[t].at = "reacquiring"
    /\ \/ /\ lockFile = "none"
          /\ held' = TRUE /\ lockFile' = "gateway" /\ lockless' = FALSE
          /\ GoOn(t)
          /\ UNCHANGED <<first, server, parked, failedStart, marked, draining>>
       \/ Exit

\* An owner that counts as dead, or a stale file: it is removed, to try again.
OwnerRemoved(t) ==
    /\ task[t].at = "reacquiring"
    /\ lockFile = "other"
    /\ lockFile' = "none"
    /\ UNCHANGED <<loop, first, server, shuttingDown, resolver, parked, failedStart,
                   marked, draining, held, lockless, task>>

\* Another process creates the file where there is none.  It removes one to
\* give it back, or because its owner counts as dead: also this process, while
\* its port is silent or the other one asks another port, and whoever created
\* the file after the other one had read it.
OtherProcess ==
    /\ lockFile' = IF lockFile = "none" THEN "other" ELSE "none"
    /\ UNCHANGED <<loop, first, server, shuttingDown, resolver, parked, failedStart,
                   marked, draining, held, lockless, task>>

LoopStep ==
    \/ StartSucceeds \/ StartFails \/ FailureReported \/ ParkedTooLong
    \/ OtherProcess
    \/ \E t \in Tasks : \/ DrainEnds(t) \/ ForceExit(t) \/ Closed(t) \/ Stopped(t)
                        \/ Respawned(t) \/ Reacquired(t) \/ OwnerRemoved(t)

=============================================================================
