---------------------------- MODULE GatewayRestart ----------------------------
(***************************************************************************)
(* A gateway process from the requests for a restart to the next start:    *)
(* RestartScheduler and GatewayLoop with what joins them, the signals, the *)
(* restart intent that a command line leaves in a file before it sends     *)
(* one, and the config watcher of src/src/gateway/server-reload-handlers.ts*)
(***************************************************************************)
EXTENDS RestartScheduler, GatewayLoop

CONSTANTS
    AllowExternal,  \* does the config allow a SIGUSR1 from outside?
    MaxCalls        \* bound: requests and signals

ASSUME CallsAssumption == AllowExternal \in BOOLEAN /\ MaxCalls \in Nat

VARIABLES
    intent,    \* the restart intent file
    external,  \* SIGUSR1s from outside, their handlers not yet run
    watching,  \* restartPending: the config watcher has deferred a restart
    calls,     \* requests and signals so far
    restartDue,  \* history: a restart was asked for and none began since
    stopDue      \* history: a stop came when no request was carried out

outerVars == <<intent, external, watching, calls, restartDue, stopDue>>
vars      == <<schedulerVars, loopVars, outerVars>>

TypeOK ==
    /\ SchedulerTypeOK
    /\ LoopTypeOK
    /\ intent \in Reason
    /\ external \in 0..MaxCalls
    /\ calls \in 0..MaxCalls
    /\ watching \in BOOLEAN /\ restartDue \in BOOLEAN /\ stopDue \in BOOLEAN

Init ==
    /\ SchedulerInit
    /\ LoopInit
    /\ intent = "none"
    /\ external = 0
    /\ watching = FALSE
    /\ calls = 0
    /\ restartDue = FALSE
    /\ stopDue = FALSE

-----------------------------------------------------------------------------
(* Requests and signals.                                                   *)

Call == calls < MaxCalls /\ calls' = calls + 1

\* The gateway tool, /restart, update.run or a config write asks for a restart.
ScheduleRestart(reason, skip, hooks, earlier) ==
    /\ Call
    /\ Schedule(reason, skip, hooks, earlier)
    /\ restartDue' = TRUE
    /\ UNCHANGED <<loopVars, intent, external, watching, stopDue>>

\* requestGatewayRestart of the config watcher, which lives with the server.
WatcherRestart(busy) ==
    /\ Call
    /\ server
    /\ restartDue' = TRUE
    /\ \/ ~busy /\ Emit("other", attempt) /\ UNCHANGED watching
       \/ busy /\ watching /\ UNCHANGED <<schedulerVars, watching>>
       \/ busy /\ ~watching /\ watching' = TRUE
          /\ Poll("other", TRUE) /\ UNCHANGED pending
    /\ UNCHANGED <<loopVars, intent, external, stopDue>>

\* A command line leaves its intent, to send a signal next.
LeaveIntent(reason) ==
    /\ Call
    /\ intent' = reason
    /\ UNCHANGED <<schedulerVars, loopVars, external, watching, restartDue, stopDue>>

\* For the history and the properties: a request is carried out.
Busy == \E t \in Tasks : task[t].at # "idle"

\* SIGINT
Interrupt ==
    /\ Call
    /\ RequestStop
    /\ stopDue' = (stopDue \/ ~Busy)
    /\ UNCHANGED <<schedulerVars, intent, external, watching, restartDue>>

\* SIGTERM asks for a stop, or for a restart when an intent was left.
Terminate ==
    /\ Call
    /\ IF intent = "none"
       THEN /\ RequestStop
            /\ stopDue' = (stopDue \/ ~Busy)
            /\ UNCHANGED restartDue
       ELSE /\ RequestRestart(intent)
            /\ restartDue' = TRUE
            /\ UNCHANGED stopDue
    /\ intent' = "none"
    /\ UNCHANGED <<schedulerVars, external, watching>>

\* SIGUSR1 from outside.
ExternalSignal ==
    /\ Call
    /\ external' = external + 1
    /\ UNCHANGED <<schedulerVars, loopVars, intent, watching, restartDue, stopDue>>

\* onSigusr1, when an intent was left: any handler may find it.
HandleWithIntent ==
    /\ intent # "none"
    /\ IF authorized > 0
       THEN TakeSignal /\ UNCHANGED external
       ELSE external > 0 /\ external' = external - 1 /\ UNCHANGED schedulerVars
    /\ RequestRestart(intent)
    /\ intent' = "none"
    /\ restartDue' = TRUE
    /\ UNCHANGED <<watching, calls, stopDue>>

\* onSigusr1 of a signal the scheduler emitted.
HandleAuthorized ==
    /\ intent = "none"
    /\ RequestRestart(inFlight)
    /\ TakeSignal
    /\ UNCHANGED outerVars

\* onSigusr1 of a signal from outside.  Nothing is in flight here, so there is
\* nothing to mark handled.
HandleExternal(earlier) ==
    /\ intent = "none"
    /\ authorized = 0
    /\ external > 0
    /\ external' = external - 1
    /\ IF AllowExternal /\ ~shuttingDown
       THEN Schedule("other", FALSE, FALSE, earlier) /\ restartDue' = TRUE
       ELSE UNCHANGED <<schedulerVars, restartDue>>
    /\ UNCHANGED <<loopVars, intent, watching, calls, stopDue>>

-----------------------------------------------------------------------------
(* What the event loop delivers.                                           *)

DeferralTimer(busy) == TimerFires(busy) /\ UNCHANGED <<loopVars, outerVars>>

DeferralEnds(i) ==
    /\ PollEnds(i)
    /\ watching' = (watching /\ ~attempt[i].own)
    /\ UNCHANGED <<loopVars, intent, external, calls, restartDue, stopDue>>

HooksDone(i) == Prepared(i) /\ UNCHANGED <<loopVars, outerVars>>

\* onIteration: the next lifecycle begins, with its own config watcher.
Iterate ==
    /\ ResetForNextStart
    /\ ResetScheduler
    /\ watching' = FALSE
    /\ restartDue' = FALSE
    /\ UNCHANGED <<intent, external, calls, stopDue>>

\* A step of the run loop alone.
InLoop(step) == step /\ UNCHANGED <<schedulerVars, outerVars>>

-----------------------------------------------------------------------------
Calls ==
    \/ \E reason \in Reasons, skip, hooks, earlier \in BOOLEAN :
          ScheduleRestart(reason, skip, hooks, earlier)
    \/ \E busy \in BOOLEAN : WatcherRestart(busy)
    \/ \E reason \in Reasons : LeaveIntent(reason)
    \/ Interrupt \/ Terminate \/ ExternalSignal

EventLoop ==
    \/ HandleWithIntent \/ HandleAuthorized
    \/ \E earlier \in BOOLEAN : HandleExternal(earlier)
    \/ \E busy \in BOOLEAN : DeferralTimer(busy)
    \/ \E i \in Attempts : DeferralEnds(i) \/ HooksDone(i)
    \/ Iterate
    \/ InLoop(LoopStep)

Alive == loop # "exited"

Next == Alive /\ (Calls \/ EventLoop)

Spec == Init /\ [][Next]_vars

\* Handlers and timers run, hooks settle, a poll ends by its limit (300 s
\* unless configured), the server's start comes to an end, and so does a drain:
\* one without a limit was asked to wait for work that ends.  A close may hang;
\* its timer does not.
Fairness ==
    /\ WF_vars(Alive /\ (HandleWithIntent \/ HandleAuthorized))
    /\ WF_vars(Alive /\ \E busy \in BOOLEAN : DeferralTimer(busy))
    /\ \A i \in Attempts : WF_vars(Alive /\ DeferralEnds(i)) /\ WF_vars(Alive /\ HooksDone(i))
    /\ WF_vars(Alive /\ Iterate)
    /\ WF_vars(Alive /\ InLoop(StartSucceeds \/ StartFails))
    /\ WF_vars(Alive /\ InLoop(FailureReported))
    /\ \A t \in Tasks :
          /\ WF_vars(Alive /\ InLoop(DrainEnds(t)))
          /\ WF_vars(Alive /\ InLoop(Closed(t) \/ ForceExit(t)))
          /\ WF_vars(Alive /\ InLoop(Stopped(t) \/ ForceExit(t)))
          /\ WF_vars(Alive /\ InLoop(Respawned(t) \/ Reacquired(t)))

FairSpec == Spec /\ Fairness

-----------------------------------------------------------------------------
(* What a restart has to get right.                                        *)

\* No two requests are carried out at a time, whatever signals come and
\* whenever the server's handle comes (run-loop.ts:649-697): a second run would
\* close the server under the first, and take or give the lock twice.
OneShutdown == \A t, u \in Tasks : task[t].at # "idle" /\ task[u].at # "idle" => t = u

\* From the begin of its drain to the next start a restart refuses new work,
\* the second restart of a process as well as the first (run-loop.ts:366-376):
\* work taken in would be lost with the lifecycle.
DrainRefusesWork ==
    \A t \in Tasks : task[t].at \in {"draining", "closing", "respawning"} => draining

\* A server that nobody is about to close takes work (run-loop.ts:798-806): no
\* mark of an earlier drain, nor of a request that never came to its drain,
\* outlives the lifecycle it belongs to.
LifecycleTakesWork == server /\ ~shuttingDown => ~draining

\* What this process has of the gateway lock agrees with what it is doing.  A
\* server runs only with the handle, but for one way: the lock was given back
\* after a failed start, and every restart since then stayed in the process beside
\* an unhealthy child (run-loop.ts:212).  A loop that waits for somebody to mend
\* a failed start has no handle (827-833).  And no lock file of this process
\* outlives its handle: as long as it listens nobody else would remove it.  The
\* file itself is not protected: a starter may remove it under the handle.
LockAccounted ==
    /\ server => held \/ lockless
    /\ loop = "resting" /\ ~server /\ ~Busy => ~held
    /\ lockFile = "gateway" => held

\* A process whose loop rests without a server is carrying out a request, or
\* has reported a failed start and is free to take one: no request is left
\* waiting for a start that is over (run-loop.ts:636-648).
NoLimbo ==
    loop = "resting" /\ ~server => Busy \/ (failedStart /\ parked = "none" /\ ~shuttingDown)

\* Whatever is merged, bypassed, deferred or cleared on the way, a request for
\* a restart is followed by a new start or the end of the process: no signal
\* stays in flight and swallows the later ones (run-loop.ts:110-121).
RestartHappens == restartDue ~> (~restartDue \/ loop = "exited")

\* A stop that comes while no request is carried out ends the process, even
\* when a restart is waiting for the server's start (run-loop.ts:656-664).
StopHonoured == stopDue ~> loop = "exited"

=============================================================================
