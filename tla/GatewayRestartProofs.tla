------------------------ MODULE GatewayRestartProofs ------------------------
(***************************************************************************)
(* Proofs of the safety properties of GatewayRestart, for every number of  *)
(* requests, deferrals and preparations.                                   *)
(***************************************************************************)
EXTENDS GatewayRestart, TLAPS

\* The three variables of the lock and their types are seen in every step.
USE DEF lock, LockTypeOK

-----------------------------------------------------------------------------
(* The inductive invariant of the run loop.                                *)

\* Requests are carried out one at a time, each after shuttingDown was set; a
\* request that waits for the server's start is the only one.
Serial ==
    /\ OneShutdown
    /\ shuttingDown <=> Busy \/ parked # "none"
    /\ parked # "none" => ~Busy

\* Where the main loop is tells what is there: restartResolver, the server, and
\* tasks that close the server or hand over, only while it rests.
Whereabouts ==
    loop # "exited" =>
        /\ resolver <=> loop = "resting"
        /\ server => resolver
        /\ ~resolver => \A t \in Tasks : task[t].at \in {"idle", "stopping"}
        /\ resolver => parked = "none"
        /\ \A t \in Tasks : task[t].at \in {"respawning", "reacquiring"} => ~server
        /\ loop = "failed" => failedStart \/ Busy

\* The mark of a drain is made with it, and ends before the next start.
Marks ==
    /\ marked => draining
    /\ loop # "exited" /\ draining => shuttingDown \/ loop = "iterating"

\* None of the conjuncts is inductive alone.
LoopInv ==
    /\ LoopTypeOK
    /\ Serial
    /\ Whereabouts
    /\ Marks
    /\ DrainRefusesWork
    /\ LifecycleTakesWork
    /\ NoLimbo

-----------------------------------------------------------------------------
\* A request that is taken when none is carried out is carried out alone.
LEMMA LaunchedAlone ==
    ASSUME LoopTypeOK, ~Busy, NEW new \in Task, new.at # "idle", task' \in Launched(new)
    PROVE  /\ task' \in [Tasks -> Task]
           /\ Busy' /\ OneShutdown'
           /\ \A t \in Tasks : task'[t] = new \/ task'[t].at = "idle"
<1>1. PICK t \in Tasks : task' = [task EXCEPT ![t] = new]
  BY DEF Launched
<1>2. task \in [Tasks -> Task] /\ \A u \in Tasks : task[u].at = "idle"
  BY DEF LoopTypeOK, Busy
<1>3. task'[t] = new /\ \A u \in Tasks : u # t => task'[u].at = "idle"
  BY <1>1, <1>2
<1>4. task' \in [Tasks -> Task]
  BY <1>1, <1>2
<1>5. QED
  BY <1>3, <1>4 DEF Busy, OneShutdown

\* The same for a stop and for a restart, whose drain is marked.
LEMMA StopAlone ==
    ASSUME LoopTypeOK, ~Busy, RunStop
    PROVE  /\ task' \in [Tasks -> Task]
           /\ Busy' /\ OneShutdown'
           /\ \A t \in Tasks : task'[t].at \in {"idle", "stopping"}
           /\ UNCHANGED <<marked, draining>>
<1> DEFINE new == [NoTask EXCEPT !.at = "stopping"]
<1>1. new \in Task /\ new.at = "stopping"
  BY DEF Task, NoTask
<1>2. task' \in Launched(new) /\ UNCHANGED <<marked, draining>>
  BY DEF RunStop
<1> HIDE DEF new
<1>3. QED
  BY <1>1, <1>2, LaunchedAlone

LEMMA RestartAlone ==
    ASSUME LoopTypeOK, Marks, ~Busy,
           NEW reason \in {"none", "update", "other"}, NEW capped \in BOOLEAN,
           RunRestart(reason, capped)
    PROVE  /\ task' \in [Tasks -> Task]
           /\ Busy' /\ OneShutdown'
           /\ \A t \in Tasks : task'[t].at \in {"idle", "draining"}
           /\ marked' = TRUE /\ draining' = TRUE
<1> DEFINE new == [NoTask EXCEPT !.at = "draining", !.reason = reason, !.capped = capped]
<1>1. new \in Task /\ new.at = "draining"
  BY DEF Task, NoTask
<1>2. task' \in Launched(new) /\ MarkDraining
  BY DEF RunRestart
<1> HIDE DEF new
<1>3. /\ task' \in [Tasks -> Task]
      /\ Busy' /\ OneShutdown'
      /\ \A t \in Tasks : task'[t].at \in {"idle", "draining"}
  BY <1>1, <1>2, LaunchedAlone
<1>4. marked' = TRUE /\ draining' = TRUE
  BY <1>2 DEF MarkDraining, Marks, LoopTypeOK
<1>5. QED
  BY <1>3, <1>4

\* request("stop")
LEMMA RequestStopKeeps ==
    ASSUME LoopInv, Alive, RequestStop
    PROVE  LoopInv'
<1> DEFINE same == UNCHANGED <<loop, first, server, resolver, lock>>
<1>1. CASE ~shuttingDown /\ RunStop /\ shuttingDown' /\ same /\ UNCHANGED <<parked, failedStart>>
  <2>1. ~Busy /\ parked = "none"
    BY <1>1 DEF LoopInv, Serial
  <2>2. /\ task' \in [Tasks -> Task]
        /\ Busy' /\ OneShutdown'
        /\ \A t \in Tasks : task'[t].at \in {"idle", "stopping"}
        /\ UNCHANGED <<marked, draining>>
    BY <1>1, <2>1, StopAlone DEF LoopInv
  <2>3. QED
    BY <1>1, <2>1, <2>2 DEF LoopInv, LoopTypeOK, Serial, Whereabouts, Marks,
         DrainRefusesWork, LifecycleTakesWork, NoLimbo, Alive
<1>2. CASE shuttingDown /\ StopTakesPlace /\ StopInstead
  <2>1. ~Busy /\ parked # "none"
    BY <1>2 DEF LoopInv, Serial, StopTakesPlace
  <2>2. /\ task' \in [Tasks -> Task]
        /\ Busy' /\ OneShutdown'
        /\ \A t \in Tasks : task'[t].at \in {"idle", "stopping"}
        /\ UNCHANGED <<marked, draining>>
    BY <1>2, <2>1, StopAlone DEF LoopInv, StopInstead
  <2>3. QED
    BY <1>2, <2>1, <2>2 DEF LoopInv, LoopTypeOK, Serial, Whereabouts, Marks,
         DrainRefusesWork, LifecycleTakesWork, NoLimbo, Alive, StopInstead
<1>3. CASE UNCHANGED loopVars
  BY <1>3 DEF loopVars, LoopInv, LoopTypeOK, Serial, Whereabouts, Marks,
       DrainRefusesWork, LifecycleTakesWork, NoLimbo, OneShutdown, Busy
<1>4. QED
  BY <1>1, <1>2, <1>3 DEF RequestStop

\* request("restart")
LEMMA RequestRestartKeeps ==
    ASSUME LoopInv, Alive, NEW reason \in {"update", "other"}, RequestRestart(reason)
    PROVE  LoopInv'
<1>1. CASE /\ ~shuttingDown /\ CanRestart
           /\ shuttingDown' = TRUE
           /\ failedStart' = (failedStart /\ server)
           /\ \E capped \in BOOLEAN : RunRestart(reason, capped)
           /\ UNCHANGED <<loop, first, server, resolver, parked, lock>>
  <2>1. ~Busy /\ parked = "none"
    BY <1>1 DEF LoopInv, Serial
  <2>2. /\ task' \in [Tasks -> Task]
        /\ Busy' /\ OneShutdown'
        /\ \A t \in Tasks : task'[t].at \in {"idle", "draining"}
        /\ marked' = TRUE /\ draining' = TRUE
    BY <1>1, <2>1, RestartAlone DEF LoopInv
  <2>3. resolver
    BY <1>1 DEF CanRestart
  <2>4. QED
    BY <1>1, <2>1, <2>2, <2>3 DEF LoopInv, LoopTypeOK, Serial, Whereabouts, Marks,
         DrainRefusesWork, LifecycleTakesWork, NoLimbo, Alive
<1>2. CASE /\ ~shuttingDown /\ ~CanRestart
           /\ shuttingDown' = TRUE
           /\ parked' = reason
           /\ MarkDraining
           /\ UNCHANGED <<loop, first, server, resolver, failedStart, lock, task>>
  <2>1. ~Busy /\ parked = "none"
    BY <1>2 DEF LoopInv, Serial
  <2>2. ~resolver
    BY <1>2, <2>1 DEF LoopInv, Whereabouts, NoLimbo, CanRestart, Alive
  <2>3. marked' = TRUE /\ draining' = TRUE
    BY <1>2 DEF MarkDraining, LoopInv, Marks, LoopTypeOK
  <2>4. ~Busy' /\ OneShutdown'
    BY <1>2, <2>1 DEF Busy, OneShutdown, LoopInv, Serial
  <2>5. QED
    BY <1>2, <2>1, <2>2, <2>3, <2>4 DEF LoopInv, LoopTypeOK, Serial, Whereabouts, Marks,
         DrainRefusesWork, LifecycleTakesWork, NoLimbo, Alive
<1>3. CASE UNCHANGED loopVars
  BY <1>3 DEF loopVars, LoopInv, LoopTypeOK, Serial, Whereabouts, Marks,
       DrainRefusesWork, LifecycleTakesWork, NoLimbo, OneShutdown, Busy
<1>4. QED
  BY <1>1, <1>2, <1>3 DEF RequestRestart

\* flushPendingStartupRequest, in the step in which the loop comes to rest.
LEMMA FlushKeeps ==
    ASSUME LoopInv, Alive, NEW failed \in BOOLEAN, Flush(failed),
           loop \in {"starting", "failed"},
           loop' = "resting", resolver' = TRUE,
           server' \in BOOLEAN, first' \in BOOLEAN,
           UNCHANGED <<shuttingDown, lock>>,
           ~server' => failed \/ Busy
    PROVE  LoopInv'
<1>1. ~resolver /\ ~server /\ \A t \in Tasks : task[t].at \in {"idle", "stopping"}
  BY DEF LoopInv, Whereabouts, Alive
<1>2. CASE parked = "none"
  <2>1. failedStart' = failed /\ UNCHANGED <<parked, task, marked, draining>>
    BY <1>2 DEF Flush
  <2>2. (Busy' <=> Busy) /\ (OneShutdown' <=> OneShutdown)
    BY <2>1 DEF Busy, OneShutdown
  <2>3. draining => shuttingDown
    BY DEF LoopInv, Marks
  <2>4. QED
    BY <1>1, <1>2, <2>1, <2>2, <2>3 DEF LoopInv, LoopTypeOK, Loops, Serial, Whereabouts, Marks,
         DrainRefusesWork, LifecycleTakesWork, NoLimbo
<1>3. CASE parked # "none"
  <2>1. ~Busy
    BY <1>3 DEF LoopInv, Serial
  <2>2. /\ parked' = "none" /\ failedStart' = FALSE
        /\ \E capped \in BOOLEAN : RunRestart(parked, capped)
    BY <1>3 DEF Flush
  <2>3. /\ task' \in [Tasks -> Task]
        /\ Busy' /\ OneShutdown'
        /\ \A t \in Tasks : task'[t].at \in {"idle", "draining"}
        /\ marked' = TRUE /\ draining' = TRUE
    BY <2>1, <2>2, RestartAlone DEF LoopInv, LoopTypeOK
  <2>4. QED
    BY <1>1, <1>3, <2>2, <2>3 DEF LoopInv, LoopTypeOK, Loops, Serial, Whereabouts, Marks,
         DrainRefusesWork, LifecycleTakesWork, NoLimbo
<1>4. QED
  BY <1>2, <1>3

\* A step of the request that is carried out.
LEMMA TaskMoves ==
    ASSUME LoopTypeOK, OneShutdown,
           NEW t \in Tasks, task[t].at # "idle",
           NEW x \in Task, task' = [task EXCEPT ![t] = x]
    PROVE  /\ task' \in [Tasks -> Task]
           /\ OneShutdown'
           /\ Busy' <=> x.at # "idle"
           /\ task'[t] = x
           /\ \A u \in Tasks : u # t => task[u].at = "idle" /\ task'[u].at = "idle"
<1>1. task \in [Tasks -> Task]
  BY DEF LoopTypeOK
<1>2. \A u \in Tasks : u # t => task[u].at = "idle"
  BY DEF OneShutdown
<1>3. task'[t] = x /\ \A u \in Tasks : u # t => task'[u] = task[u]
  BY <1>1
<1>4. task' \in [Tasks -> Task]
  BY <1>1
<1>5. QED
  BY <1>2, <1>3, <1>4 DEF OneShutdown, Busy

\* Whatever ends the process leaves the rest as it is, but for the server and
\* the lock.
LEMMA ExitKeeps ==
    ASSUME LoopInv, loop' = "exited", server' \in {server, FALSE}, LockTypeOK',
           UNCHANGED <<first, shuttingDown, resolver, parked, failedStart, marked, draining, task>>
    PROVE  LoopInv'
<1>1. (Busy' <=> Busy) /\ (OneShutdown' <=> OneShutdown)
  BY DEF Busy, OneShutdown
<1>2. server' \in BOOLEAN /\ (server' => server)
  <2>1. server \in BOOLEAN
    BY DEF LoopInv, LoopTypeOK
  <2>2. CASE server' = server
    BY <2>1, <2>2
  <2>3. CASE server' = FALSE
    BY <2>3
  <2>4. QED
    BY <2>2, <2>3
<1>3. LoopTypeOK'
  BY <1>2 DEF LoopInv, LoopTypeOK, Loops
<1>4. Serial' /\ Marks'
  BY <1>1 DEF LoopInv, Serial, Marks
<1>5. Whereabouts' /\ NoLimbo'
  BY DEF Whereabouts, NoLimbo
<1>6. DrainRefusesWork' /\ LifecycleTakesWork'
  BY <1>2 DEF LoopInv, DrainRefusesWork, LifecycleTakesWork
<1>7. QED
  BY <1>3, <1>4, <1>5, <1>6 DEF LoopInv

\* The steps of the loop itself.
LEMMA MainLoopKeeps ==
    ASSUME LoopInv, Alive,
           StartSucceeds \/ StartFails \/ FailureReported \/ ParkedTooLong \/ OtherProcess
    PROVE  LoopInv'
<1>1. CASE StartSucceeds
  BY <1>1, FlushKeeps DEF StartSucceeds
<1>2. CASE StartFails
  <2>1. CASE first
    BY <1>2, <2>1, ExitKeeps DEF StartFails, Release, LoopInv, LoopTypeOK, Owners
  <2>2. CASE ~first
    <3>1. (Busy' <=> Busy) /\ (OneShutdown' <=> OneShutdown)
      BY <1>2 DEF StartFails, Busy, OneShutdown
    <3>2. QED
      BY <1>2, <2>2, <3>1 DEF StartFails, Release, LoopInv, LoopTypeOK, Loops, Owners, Serial,
           Whereabouts, Marks, DrainRefusesWork, LifecycleTakesWork, NoLimbo, Alive
  <2>3. QED
    BY <2>1, <2>2
<1>3. CASE FailureReported
  <2>1. failedStart \in BOOLEAN /\ first \in BOOLEAN /\ server \in BOOLEAN
    BY DEF LoopInv, LoopTypeOK
  <2>2. loop = "failed" /\ (failedStart \/ Busy)
    BY <1>3 DEF FailureReported, LoopInv, Whereabouts
  <2>3. QED
    BY <1>3, <2>1, <2>2, FlushKeeps DEF FailureReported
<1>4. CASE ParkedTooLong
  BY <1>4, ExitKeeps DEF ParkedTooLong, Exit, LoopInv, LoopTypeOK
<1>5. CASE OtherProcess
  <2>1. (Busy' <=> Busy) /\ (OneShutdown' <=> OneShutdown)
    BY <1>5 DEF OtherProcess, Busy, OneShutdown
  <2>2. QED
    BY <1>5, <2>1 DEF OtherProcess, LoopInv, LoopTypeOK, Owners, Serial, Whereabouts, Marks,
         DrainRefusesWork, LifecycleTakesWork, NoLimbo
<1>6. QED
  BY <1>1, <1>2, <1>3, <1>4, <1>5

\* onIteration
LEMMA ResetKeeps ==
    ASSUME LoopInv, Alive, ResetForNextStart
    PROVE  LoopInv'
<1>1. (Busy' <=> Busy) /\ (OneShutdown' <=> OneShutdown)
  BY DEF ResetForNextStart, Busy, OneShutdown
<1>2. QED
  BY <1>1 DEF ResetForNextStart, LoopInv, LoopTypeOK, Loops, Serial, Whereabouts, Marks,
       DrainRefusesWork, LifecycleTakesWork, NoLimbo, Alive

\* The steps of the request that is carried out.
LEMMA TaskKeeps ==
    ASSUME LoopInv, Alive, NEW t \in Tasks,
           \/ DrainEnds(t) \/ ForceExit(t) \/ Closed(t) \/ Stopped(t)
           \/ Respawned(t) \/ Reacquired(t) \/ OwnerRemoved(t)
    PROVE  LoopInv'
<1>1. LoopTypeOK /\ OneShutdown /\ task[t] \in Task
  BY DEF LoopInv, Serial, LoopTypeOK
<1>2. ASSUME task[t].at # "idle" PROVE Busy /\ shuttingDown /\ parked = "none"
  BY <1>2 DEF LoopInv, Serial, Busy
<1>3. ASSUME task[t].at \notin {"idle", "stopping"} PROVE loop = "resting" /\ resolver
  BY <1>3 DEF LoopInv, Whereabouts, Alive
<1>4. CASE DrainEnds(t)
  <2> DEFINE x == [task[t] EXCEPT !.at = "closing"]
  <2>1. x \in Task /\ x.at = "closing"
    BY <1>1 DEF Task
  <2>2. /\ task[t].at = "draining"
        /\ task' = [task EXCEPT ![t] = x]
        /\ UNCHANGED <<loop, first, server, shuttingDown, resolver, parked, failedStart,
                       marked, draining, lock>>
    BY <1>4 DEF DrainEnds
  <2> HIDE DEF x
  <2>3. /\ task' \in [Tasks -> Task] /\ OneShutdown' /\ Busy'
        /\ task'[t] = x
        /\ \A u \in Tasks : u # t => task[u].at = "idle" /\ task'[u].at = "idle"
    BY <1>1, <2>1, <2>2, TaskMoves
  <2>4. QED
    BY <1>2, <1>3, <2>1, <2>2, <2>3 DEF LoopInv, LoopTypeOK, Serial, Whereabouts, Marks,
         DrainRefusesWork, LifecycleTakesWork, NoLimbo
<1>5. CASE ForceExit(t)
  BY <1>1, <1>5, ExitKeeps DEF ForceExit, Exit, LoopTypeOK
<1>6. CASE Closed(t)
  <2> DEFINE x == [task[t] EXCEPT !.at = "respawning", !.hadLock = held]
  <2>1. x \in Task /\ x.at = "respawning"
    BY <1>1 DEF Task, LoopTypeOK
  <2>2. /\ task[t].at = "closing"
        /\ server' = FALSE /\ Release
        /\ task' = [task EXCEPT ![t] = x]
        /\ UNCHANGED <<loop, first, shuttingDown, resolver, parked, failedStart, marked, draining>>
    BY <1>1, <1>6 DEF Closed, LoopTypeOK
  <2> HIDE DEF x
  <2>3. /\ task' \in [Tasks -> Task] /\ OneShutdown' /\ Busy'
        /\ task'[t] = x
        /\ \A u \in Tasks : u # t => task[u].at = "idle" /\ task'[u].at = "idle"
    BY <1>1, <2>1, <2>2, TaskMoves
  <2>4. LockTypeOK'
    BY <1>1, <2>2 DEF Release, LoopTypeOK, Owners
  <2>5. QED
    BY <1>2, <1>3, <2>1, <2>2, <2>3, <2>4 DEF LoopInv, LoopTypeOK, Serial, Whereabouts, Marks,
         DrainRefusesWork, LifecycleTakesWork, NoLimbo
<1>7. CASE Stopped(t)
  BY <1>1, <1>7, ExitKeeps DEF Stopped, Release, LoopTypeOK, Owners
<1>8. ASSUME task[t].at \in {"respawning", "reacquiring"}, GoOn(t), LockTypeOK',
             UNCHANGED <<first, server, parked, failedStart, marked, draining>>
      PROVE  LoopInv'
  <2>1. NoTask \in Task /\ NoTask.at = "idle"
    BY DEF Task, NoTask
  <2>2. /\ shuttingDown' = FALSE /\ resolver' = FALSE /\ loop' = "iterating"
        /\ task' = [task EXCEPT ![t] = NoTask]
    BY <1>3, <1>8 DEF GoOn
  <2>3. /\ task' \in [Tasks -> Task] /\ OneShutdown' /\ ~Busy'
        /\ \A u \in Tasks : task'[u].at = "idle"
    BY <1>1, <1>8, <2>1, <2>2, TaskMoves
  <2>4. ~server /\ parked = "none"
    BY <1>2, <1>8 DEF LoopInv, Whereabouts, Alive
  <2>5. QED
    BY <1>8, <2>2, <2>3, <2>4 DEF LoopInv, LoopTypeOK, Loops, Serial, Whereabouts, Marks,
         DrainRefusesWork, LifecycleTakesWork, NoLimbo
<1>9. ASSUME task[t].at = "respawning", task' = [task EXCEPT ![t].at = "reacquiring"],
             UNCHANGED <<loop, first, server, shuttingDown, resolver, parked, failedStart,
                         marked, draining, lock>>
      PROVE  LoopInv'
  <2> DEFINE x == [task[t] EXCEPT !.at = "reacquiring"]
  <2>1. x \in Task /\ x.at = "reacquiring"
    BY <1>1 DEF Task
  <2>2. task' = [task EXCEPT ![t] = x]
    BY <1>9
  <2> HIDE DEF x
  <2>3. /\ task' \in [Tasks -> Task] /\ OneShutdown' /\ Busy'
        /\ task'[t] = x
        /\ \A u \in Tasks : u # t => task[u].at = "idle" /\ task'[u].at = "idle"
    BY <1>1, <1>9, <2>1, <2>2, TaskMoves
  <2>4. QED
    BY <1>2, <1>3, <1>9, <2>1, <2>3 DEF LoopInv, LoopTypeOK, Serial, Whereabouts, Marks,
         DrainRefusesWork, LifecycleTakesWork, NoLimbo
<1>10. ASSUME Exit PROVE LoopInv'
  BY <1>1, <1>10, ExitKeeps DEF Exit, LoopTypeOK
<1>11. CASE Respawned(t)
  <2>1. task[t].at = "respawning"
    BY <1>11 DEF Respawned
  <2>2. CASE Exit
    BY <1>10, <2>2
  <2>3. CASE /\ task' = [task EXCEPT ![t].at = "reacquiring"]
             /\ UNCHANGED <<loop, first, server, shuttingDown, resolver, parked, failedStart,
                            marked, draining, lock>>
    BY <1>9, <2>1, <2>3
  <2>4. CASE /\ GoOn(t) /\ lockless' = TRUE
             /\ UNCHANGED <<first, server, parked, failedStart, marked, draining, held, lockFile>>
    BY <1>1, <1>8, <2>1, <2>4 DEF LoopTypeOK
  <2>5. QED
    BY <1>11, <2>2, <2>3, <2>4 DEF Respawned
<1>12. CASE Reacquired(t)
  BY <1>8, <1>10, <1>12 DEF Reacquired, Owners
<1>13. CASE OwnerRemoved(t)
  <2>1. (Busy' <=> Busy) /\ (OneShutdown' <=> OneShutdown)
    BY <1>13 DEF OwnerRemoved, Busy, OneShutdown
  <2>2. QED
    BY <1>13, <2>1 DEF OwnerRemoved, LoopInv, LoopTypeOK, Owners, Serial, Whereabouts, Marks,
         DrainRefusesWork, LifecycleTakesWork, NoLimbo
<1>14. QED
  BY <1>4, <1>5, <1>6, <1>7, <1>11, <1>12, <1>13

-----------------------------------------------------------------------------
(* The scheduler.                                                          *)

\* An emitted signal that is not yet taken is authorized, once, and whatever is
\* on the way to one has a reason.
SchedulerInv ==
    /\ SchedulerTypeOK
    /\ authorized > 0 <=> inFlight # "none"
    /\ pending.timer => pending.reason # "none"
    /\ \A i \in Attempts : attempt[i].at # "idle" => attempt[i].reason # "none"

\* Attempts a have their types, and a reason each.
Reasoned(a) ==
    /\ a \in [Attempts -> Attempt]
    /\ \A i \in Attempts : a[i].at # "idle" => a[i].reason # "none"

LEMMA ClearedReasoned ==
    ASSUME NEW a, Reasoned(a)
    PROVE  Reasoned(PollsCleared(a))
<1>1. NoAttempt \in Attempt /\ NoAttempt.at = "idle"
  BY DEF Attempt, NoAttempt, Reason, Reasons
<1> HIDE DEF NoAttempt
<1>2. QED
  BY <1>1 DEF Reasoned, PollsCleared

LEMMA BegunReasoned ==
    ASSUME NEW a, Reasoned(a), NEW at \in {"polling", "preparing"}, NEW own \in BOOLEAN,
           NEW reason \in Reasons, NEW b,
           b \in Begun(a, [at |-> at, own |-> own, reason |-> reason])
    PROVE  Reasoned(b)
<1> DEFINE new == [at |-> at, own |-> own, reason |-> reason]
<1>1. new \in Attempt /\ new.reason # "none"
  BY DEF Attempt, Reason, Reasons
<1>2. \E i \in Attempts : b = [a EXCEPT ![i] = new]
  BY DEF Begun
<1> HIDE DEF new
<1>3. QED
  BY <1>1, <1>2 DEF Reasoned

\* emitGatewayRestart
LEMMA EmitKeeps ==
    ASSUME SchedulerInv, NEW a, Reasoned(a), NEW reason \in Reasons, Emit(reason, a)
    PROVE  SchedulerInv'
<1>1. Reasoned(attempt')
  BY ClearedReasoned DEF Emit
<1>2. pending' \in Pending /\ ~pending'.timer
  BY DEF Emit, NoneYet, Pending, Reason, Reasons
<1>3. inFlight' \in Reason /\ authorized' \in 0..1 /\ (authorized' > 0 <=> inFlight' # "none")
  BY DEF Emit, SchedulerInv, SchedulerTypeOK, Reason, Reasons
<1>4. QED
  BY <1>1, <1>2, <1>3 DEF SchedulerInv, SchedulerTypeOK, Reasoned

\* emitPreparedGatewayRestart
LEMMA EmitPreparedKeeps ==
    ASSUME SchedulerInv, NEW a, Reasoned(a), NEW reason \in Reasons,
           NEW p \in Pending, p.timer => p.reason # "none",
           EmitPrepared(reason, p, a)
    PROVE  SchedulerInv'
<1>1. CASE p.hooks
  <2>1. /\ attempt' \in Begun(a, [at |-> "preparing", own |-> FALSE, reason |-> reason])
        /\ pending' = [p EXCEPT !.hooks = FALSE]
        /\ UNCHANGED <<inFlight, authorized>>
    BY <1>1 DEF EmitPrepared
  <2>2. Reasoned(attempt')
    BY <2>1, BegunReasoned
  <2>3. pending' \in Pending /\ (pending'.timer => pending'.reason # "none")
    BY <2>1 DEF Pending
  <2>4. QED
    BY <2>1, <2>2, <2>3 DEF SchedulerInv, SchedulerTypeOK, Reasoned
<1>2. CASE ~p.hooks
  BY <1>2, EmitKeeps DEF EmitPrepared
<1>3. QED
  BY <1>1, <1>2

\* scheduleGatewaySigusr1Restart
LEMMA ScheduleKeeps ==
    ASSUME SchedulerInv, NEW reason \in Reasons,
           NEW skip \in BOOLEAN, NEW hooks \in BOOLEAN, NEW earlier \in BOOLEAN,
           Schedule(reason, skip, hooks, earlier)
    PROVE  SchedulerInv'
<1>1. pending \in Pending /\ Reasoned(attempt)
  BY DEF SchedulerInv, SchedulerTypeOK, Reasoned
<1>2. CASE JoinSignal(reason)
  BY <1>2 DEF JoinSignal, Preferred, SchedulerInv, SchedulerTypeOK, Reason, Reasons
<1>3. CASE Bypass(reason, skip, hooks)
  <2> DEFINE p == [pending EXCEPT !.reason = reason, !.hooks = hooks]
  <2>1. p \in Pending /\ p.reason # "none"
    BY <1>1 DEF Pending, Reason, Reasons
  <2> HIDE DEF p
  <2>2. EmitPrepared(reason, p, PollsCleared(attempt))
    BY <1>3 DEF Bypass, p
  <2>3. QED
    BY <1>1, <2>1, <2>2, ClearedReasoned, EmitPreparedKeeps
<1>4. CASE JoinPending(reason, skip, hooks, earlier)
  <2>1. pending' = [pending EXCEPT !.reason = Preferred(reason, @),
                                   !.skip = @ \/ skip,
                                   !.hooks = @ \/ hooks]
    BY <1>4 DEF JoinPending
  <2>2. pending' \in Pending /\ (pending'.timer => pending'.reason # "none")
    BY <1>1, <2>1 DEF Pending, Preferred, Reason, Reasons, SchedulerInv
  <2>3. QED
    BY <1>4, <2>2 DEF JoinPending, SchedulerInv, SchedulerTypeOK
<1>5. CASE Arm(reason, skip, hooks, earlier)
  <2>1. pending' \in Pending /\ pending'.reason # "none"
    BY <1>5 DEF Arm, Pending, Reason, Reasons
  <2>2. QED
    BY <1>5, <2>1 DEF Arm, SchedulerInv, SchedulerTypeOK
<1>6. QED
  BY <1>2, <1>3, <1>4, <1>5 DEF Schedule

\* What the event loop delivers.
LEMMA TimerKeeps ==
    ASSUME SchedulerInv, NEW busy \in BOOLEAN, TimerFires(busy)
    PROVE  SchedulerInv'
<1> DEFINE p == [pending EXCEPT !.timer = FALSE, !.preparing = TRUE,
                                !.reason = "none", !.skip = FALSE]
<1>1. /\ pending \in Pending /\ Reasoned(attempt)
      /\ pending.reason \in Reasons
  BY DEF TimerFires, SchedulerInv, SchedulerTypeOK, Reasoned, Pending, Reason
<1>2. p \in Pending /\ ~p.timer
  BY <1>1 DEF Pending, Reason
<1>3. \/ Poll(pending.reason, FALSE) /\ pending' = p
      \/ EmitPrepared(pending.reason, p, attempt)
  BY DEF TimerFires
<1> HIDE DEF p
<1>4. CASE Poll(pending.reason, FALSE) /\ pending' = p
  <2>1. Reasoned(attempt') /\ UNCHANGED <<inFlight, authorized>>
    BY <1>1, <1>4, BegunReasoned DEF Poll
  <2>2. QED
    BY <1>2, <1>4, <2>1 DEF SchedulerInv, SchedulerTypeOK, Reasoned
<1>5. CASE EmitPrepared(pending.reason, p, attempt)
  BY <1>1, <1>2, <1>5, EmitPreparedKeeps
<1>6. QED
  BY <1>3, <1>4, <1>5

LEMMA AttemptKeeps ==
    ASSUME SchedulerInv, NEW i \in Attempts, PollEnds(i) \/ Prepared(i)
    PROVE  SchedulerInv'
<1> DEFINE others == [attempt EXCEPT ![i] = NoAttempt]
<1>1. /\ pending \in Pending /\ Reasoned(attempt)
      /\ pending.timer => pending.reason # "none"
      /\ attempt[i].reason \in Reasons
  BY DEF PollEnds, Prepared, SchedulerInv, SchedulerTypeOK, Reasoned, Attempt, Reason
<1>2. Reasoned(others)
  <2>1. NoAttempt \in Attempt /\ NoAttempt.at = "idle"
    BY DEF Attempt, NoAttempt, Reason, Reasons
  <2> HIDE DEF NoAttempt
  <2>2. QED
    BY <1>1, <2>1 DEF Reasoned
<1>3. \/ EmitPreparedOwn(attempt[i].reason, others)
      \/ EmitPrepared(attempt[i].reason, pending, others)
      \/ pending' = [pending EXCEPT !.hooks = FALSE] /\ UNCHANGED <<inFlight, authorized, attempt>>
      \/ Emit(attempt[i].reason, others)
  BY DEF PollEnds, Prepared
<1> HIDE DEF others
<1>4. CASE EmitPreparedOwn(attempt[i].reason, others)
  <2>1. Reasoned(attempt') /\ UNCHANGED <<inFlight, authorized, pending>>
    BY <1>1, <1>2, <1>4, BegunReasoned DEF EmitPreparedOwn
  <2>2. QED
    BY <2>1 DEF SchedulerInv, SchedulerTypeOK, Reasoned
<1>5. CASE EmitPrepared(attempt[i].reason, pending, others)
  BY <1>1, <1>2, <1>5, EmitPreparedKeeps
<1>6. CASE pending' = [pending EXCEPT !.hooks = FALSE] /\ UNCHANGED <<inFlight, authorized, attempt>>
  <2>1. pending' \in Pending /\ (pending'.timer => pending'.reason # "none")
    BY <1>1, <1>6 DEF Pending
  <2>2. QED
    BY <1>6, <2>1 DEF SchedulerInv, SchedulerTypeOK
<1>7. CASE Emit(attempt[i].reason, others)
  BY <1>1, <1>2, <1>7, EmitKeeps
<1>8. QED
  BY <1>3, <1>4, <1>5, <1>6, <1>7

LEMMA ResetSchedulerKeeps ==
    ASSUME SchedulerInv, ResetScheduler
    PROVE  SchedulerInv'
<1>1. Reasoned(attempt')
  BY ClearedReasoned DEF ResetScheduler, SchedulerInv, SchedulerTypeOK, Reasoned
<1>2. pending' \in Pending /\ ~pending'.timer /\ UNCHANGED <<inFlight, authorized>>
  BY DEF ResetScheduler, NoneYet, Pending, Reason, Reasons
<1>3. QED
  BY <1>1, <1>2 DEF SchedulerInv, SchedulerTypeOK, Reasoned

LEMMA TakeSignalKeeps ==
    ASSUME SchedulerInv, TakeSignal
    PROVE  SchedulerInv' /\ inFlight \in Reasons
  BY DEF TakeSignal, SchedulerInv, SchedulerTypeOK, Reason

LEMMA WatcherKeeps ==
    ASSUME SchedulerInv, NEW busy \in BOOLEAN, WatcherRestart(busy)
    PROVE  SchedulerInv'
<1>1. Reasoned(attempt) /\ "other" \in Reasons
  BY DEF SchedulerInv, SchedulerTypeOK, Reasoned, Reasons
<1>2. CASE Emit("other", attempt)
  BY <1>1, <1>2, EmitKeeps
<1>3. CASE UNCHANGED schedulerVars
  BY <1>3 DEF schedulerVars, SchedulerInv, SchedulerTypeOK
<1>4. CASE Poll("other", TRUE) /\ UNCHANGED pending
  <2>1. Reasoned(attempt') /\ UNCHANGED <<inFlight, authorized, pending>>
    BY <1>1, <1>4, BegunReasoned DEF Poll
  <2>2. QED
    BY <2>1 DEF SchedulerInv, SchedulerTypeOK, Reasoned
<1>5. QED
  BY <1>2, <1>3, <1>4 DEF WatcherRestart

-----------------------------------------------------------------------------
(* The whole.                                                              *)

\* Of the signals from outside no more are on the way than were sent.
Counts ==
    /\ calls \in 0..MaxCalls
    /\ external \in 0..calls

Flags ==
    /\ intent \in Reason
    /\ watching \in BOOLEAN /\ restartDue \in BOOLEAN /\ stopDue \in BOOLEAN

OuterInv == Counts /\ Flags

IInv == LoopInv /\ SchedulerInv /\ OuterInv

\* It holds initially.
LEMMA IInvInit == Init => IInv
<1> SUFFICES ASSUME Init PROVE IInv
  OBVIOUS
<1>1. NoTask \in Task /\ NoTask.at = "idle"
  BY DEF NoTask, Task
<1>2. task \in [Tasks -> Task] /\ \A t \in Tasks : task[t].at = "idle"
  BY <1>1 DEF Init, LoopInit
<1>3. LoopInv
  BY <1>2 DEF Init, LoopInit, LoopInv, LoopTypeOK, Loops, Owners, Serial, OneShutdown, Busy,
       Whereabouts, Marks, DrainRefusesWork, LifecycleTakesWork, NoLimbo
<1>4. pending \in Pending /\ ~pending.timer
  BY DEF Init, SchedulerInit, NoneYet, Pending, Reason, Reasons
<1>5. NoAttempt \in Attempt /\ NoAttempt.at = "idle"
  BY DEF Attempt, NoAttempt, Reason, Reasons
<1>6. SchedulerInv
  BY <1>4, <1>5 DEF Init, SchedulerInit, SchedulerInv, SchedulerTypeOK, Reason, Reasons
<1>7. Counts
  BY CallsAssumption DEF Init, Counts
<1>8. Flags
  BY DEF Init, Flags, Reason
<1>9. QED
  BY <1>3, <1>6, <1>7, <1>8 DEF IInv, OuterInv

\* What is not touched keeps its part.
LEMMA Untouched ==
    ASSUME IInv
    PROVE  /\ UNCHANGED loopVars => LoopInv'
           /\ UNCHANGED schedulerVars => SchedulerInv'
           /\ UNCHANGED outerVars => OuterInv'
  BY DEF IInv, loopVars, schedulerVars, outerVars,
     LoopInv, LoopTypeOK, Serial, Whereabouts, Marks, DrainRefusesWork, LifecycleTakesWork, NoLimbo,
     OneShutdown, Busy, SchedulerInv, SchedulerTypeOK, OuterInv, Counts, Flags

\* The run loop's part, whatever the step.
LEMMA LoopNext ==
    ASSUME IInv, Alive, Calls \/ EventLoop
    PROVE  LoopInv'
<1>1. Reasons = {"update", "other"} /\ (intent # "none" => intent \in Reasons)
  BY DEF IInv, OuterInv, Flags, Reason, Reasons
<1>2. CASE UNCHANGED loopVars
  BY <1>2, Untouched
<1>3. CASE RequestStop
  BY <1>3, RequestStopKeeps DEF IInv
<1>4. CASE \E reason \in Reasons : RequestRestart(reason)
  BY <1>1, <1>4, RequestRestartKeeps DEF IInv
<1>5. CASE Terminate
  BY <1>1, <1>3, <1>4, <1>5 DEF Terminate
<1>6. CASE HandleWithIntent
  BY <1>1, <1>4, <1>6 DEF HandleWithIntent
<1>7. CASE HandleAuthorized
  BY <1>4, <1>7, TakeSignalKeeps DEF HandleAuthorized, IInv
<1>8. CASE Iterate
  BY <1>8, ResetKeeps DEF Iterate, IInv
<1>9. CASE InLoop(LoopStep)
  <2>1. LoopStep
    BY <1>9 DEF InLoop
  <2>2. QED
    BY <2>1, MainLoopKeeps, TaskKeeps DEF LoopStep, IInv
<1>10. CASE Calls /\ ~Terminate
  BY <1>2, <1>3, <1>10 DEF Calls, ScheduleRestart, WatcherRestart, LeaveIntent, Interrupt, ExternalSignal
<1>11. ASSUME \/ \E earlier \in BOOLEAN : HandleExternal(earlier)
              \/ \E busy \in BOOLEAN : DeferralTimer(busy)
              \/ \E i \in Attempts : DeferralEnds(i) \/ HooksDone(i)
       PROVE  LoopInv'
  BY <1>2, <1>11 DEF HandleExternal, DeferralTimer, DeferralEnds, HooksDone
<1>12. QED
  BY <1>5, <1>6, <1>7, <1>8, <1>9, <1>10, <1>11 DEF EventLoop

\* The scheduler's part.
LEMMA SchedulerNext ==
    ASSUME IInv, Calls \/ EventLoop
    PROVE  SchedulerInv'
<1>1. CASE UNCHANGED schedulerVars
  BY <1>1, Untouched
<1>2. CASE TakeSignal
  BY <1>2, TakeSignalKeeps DEF IInv
<1>3. CASE \E reason \in Reasons, skip, hooks, earlier \in BOOLEAN :
              Schedule(reason, skip, hooks, earlier)
  BY <1>3, ScheduleKeeps DEF IInv
<1>4. CASE \E reason \in Reasons, skip, hooks, earlier \in BOOLEAN :
              ScheduleRestart(reason, skip, hooks, earlier)
  BY <1>3, <1>4 DEF ScheduleRestart
<1>5. CASE \E busy \in BOOLEAN : WatcherRestart(busy)
  BY <1>5, WatcherKeeps DEF IInv
<1>6. CASE (\E reason \in Reasons : LeaveIntent(reason)) \/ Interrupt \/ Terminate \/ ExternalSignal
  BY <1>1, <1>6 DEF LeaveIntent, Interrupt, Terminate, ExternalSignal
<1>7. CASE HandleWithIntent \/ HandleAuthorized
  BY <1>1, <1>2, <1>7 DEF HandleWithIntent, HandleAuthorized
<1>8. CASE \E earlier \in BOOLEAN : HandleExternal(earlier)
  BY <1>1, <1>3, <1>8 DEF HandleExternal, Reasons
<1>9. CASE \E busy \in BOOLEAN : DeferralTimer(busy)
  BY <1>9, TimerKeeps DEF DeferralTimer, IInv
<1>10. CASE \E i \in Attempts : DeferralEnds(i) \/ HooksDone(i)
  BY <1>10, AttemptKeeps DEF DeferralEnds, HooksDone, IInv
<1>11. CASE Iterate
  BY <1>11, ResetSchedulerKeeps DEF Iterate, IInv
<1>12. CASE InLoop(LoopStep)
  BY <1>1, <1>12 DEF InLoop
<1>13. QED
  BY <1>4, <1>5, <1>6, <1>7, <1>8, <1>9, <1>10, <1>11, <1>12 DEF Calls, EventLoop

\* The rest.
LEMMA OuterNext ==
    ASSUME IInv, Calls \/ EventLoop
    PROVE  OuterInv'
<1>1. /\ calls \in Nat /\ external \in Nat /\ MaxCalls \in Nat
      /\ calls <= MaxCalls /\ external <= calls
  BY CallsAssumption DEF IInv, OuterInv, Counts
<1>2. /\ intent \in Reason
      /\ watching \in BOOLEAN /\ restartDue \in BOOLEAN /\ stopDue \in BOOLEAN
      /\ Reasons \subseteq Reason /\ "none" \in Reason
  BY DEF IInv, OuterInv, Flags, Reason
<1>3. Counts'
  <2>1. CASE Call /\ external' \in {external, external + 1}
    BY <1>1, <2>1 DEF Call, Counts
  <2>2. CASE UNCHANGED calls /\ (external' = external \/ (external > 0 /\ external' = external - 1))
    BY <1>1, <2>2 DEF Counts
  <2>3. CASE Calls
    BY <2>1, <2>3 DEF Calls, ScheduleRestart, WatcherRestart, LeaveIntent, Interrupt, Terminate,
         ExternalSignal
  <2>4. CASE EventLoop
    <3>1. ASSUME HandleWithIntent
          PROVE  UNCHANGED calls /\ (external' = external \/ (external > 0 /\ external' = external - 1))
      BY <3>1 DEF HandleWithIntent
    <3>2. ASSUME HandleAuthorized \/ InLoop(LoopStep) \/ Iterate
          PROVE  UNCHANGED <<calls, external>>
      BY <3>2 DEF HandleAuthorized, InLoop, Iterate, outerVars
    <3>3. ASSUME NEW earlier \in BOOLEAN, HandleExternal(earlier)
          PROVE  UNCHANGED calls /\ external > 0 /\ external' = external - 1
      BY <3>3 DEF HandleExternal
    <3>4. ASSUME NEW busy \in BOOLEAN, DeferralTimer(busy)
          PROVE  UNCHANGED <<calls, external>>
      BY <3>4 DEF DeferralTimer, outerVars
    <3>5. ASSUME NEW i \in Attempts, DeferralEnds(i) \/ HooksDone(i)
          PROVE  UNCHANGED <<calls, external>>
      BY <3>5 DEF DeferralEnds, HooksDone, outerVars
    <3>6. UNCHANGED calls /\ (external' = external \/ (external > 0 /\ external' = external - 1))
      BY <2>4, <3>1, <3>2, <3>3, <3>4, <3>5 DEF EventLoop
    <3>7. QED
      BY <2>2, <3>6
  <2>5. QED
    BY <2>3, <2>4
<1>4. Flags'
  <2>1. ASSUME NEW busy \in BOOLEAN, WatcherRestart(busy) PROVE Flags'
    <3>1. restartDue' = TRUE /\ (watching' = watching \/ watching' = TRUE)
      BY <2>1 DEF WatcherRestart
    <3>2. UNCHANGED <<intent, stopDue>>
      BY <2>1 DEF WatcherRestart
    <3>3. QED
      BY <1>2, <3>1, <3>2 DEF Flags
  <2>2. CASE (\E reason \in Reasons, skip, hooks, earlier \in BOOLEAN :
                 ScheduleRestart(reason, skip, hooks, earlier)) \/ ExternalSignal
    BY <1>2, <2>2 DEF ScheduleRestart, ExternalSignal, Flags
  <2>3. CASE \E reason \in Reasons : LeaveIntent(reason)
    BY <1>2, <2>3 DEF LeaveIntent, Flags
  <2>4. CASE Interrupt
    BY <1>2, <2>4 DEF Interrupt, Flags
  <2>5. CASE Terminate
    <3>1. /\ intent' = "none" /\ UNCHANGED watching
          /\ \/ stopDue' = (stopDue \/ ~Busy) /\ UNCHANGED restartDue
             \/ restartDue' = TRUE /\ UNCHANGED stopDue
      BY <2>5 DEF Terminate
    <3>2. QED
      BY <1>2, <3>1 DEF Flags
  <2>6. CASE HandleWithIntent
    BY <1>2, <2>6 DEF HandleWithIntent, Flags
  <2>7. ASSUME NEW earlier \in BOOLEAN, HandleExternal(earlier) PROVE Flags'
    <3>1. UNCHANGED <<intent, watching, stopDue>> /\ (restartDue' = TRUE \/ UNCHANGED restartDue)
      BY <2>7 DEF HandleExternal
    <3>2. QED
      BY <1>2, <3>1 DEF Flags
  <2>8. CASE \E i \in Attempts : DeferralEnds(i)
    BY <1>2, <2>8 DEF DeferralEnds, Flags
  <2>9. CASE Iterate
    BY <1>2, <2>9 DEF Iterate, Flags
  <2>10. CASE \/ HandleAuthorized \/ (\E busy \in BOOLEAN : DeferralTimer(busy))
              \/ (\E i \in Attempts : HooksDone(i)) \/ InLoop(LoopStep)
    BY <1>2, <2>10 DEF HandleAuthorized, DeferralTimer, HooksDone, InLoop, outerVars, Flags
  <2>11. QED
    BY <2>1, <2>2, <2>3, <2>4, <2>5, <2>6, <2>7, <2>8, <2>9, <2>10 DEF Calls, EventLoop
<1>5. QED
  BY <1>3, <1>4 DEF OuterInv

\* IInv holds in every state.
THEOREM Inductive == Spec => []IInv
<1>1. IInv /\ [Next]_vars => IInv'
  <2> SUFFICES ASSUME IInv, [Next]_vars PROVE IInv'
    OBVIOUS
  <2>1. CASE Next
    BY <2>1, LoopNext, SchedulerNext, OuterNext DEF Next, IInv
  <2>2. CASE UNCHANGED vars
    BY <2>2, Untouched DEF vars, IInv
  <2>3. QED
    BY <2>1, <2>2
<1>2. QED
  BY <1>1, IInvInit, PTL DEF Spec

\* Every variable keeps its type; in particular at most one signal is ever
\* authorized and not consumed.
THEOREM TypeCorrect == Spec => []TypeOK
<1>1. IInv => TypeOK
  <2>1. IInv => calls \in 0..MaxCalls /\ external \in 0..MaxCalls
    BY CallsAssumption DEF IInv, OuterInv, Counts
  <2>2. QED
    BY <2>1 DEF IInv, LoopInv, SchedulerInv, OuterInv, Flags, TypeOK
<1>2. QED
  BY <1>1, Inductive, PTL

\* Two requests are never carried out at a time.
THEOREM OneAtATime == Spec => []OneShutdown
<1>1. IInv => OneShutdown
  BY DEF IInv, LoopInv, Serial
<1>2. QED
  BY <1>1, Inductive, PTL

\* A restart refuses new work from its drain to the next start.
THEOREM RefusedWhileDraining == Spec => []DrainRefusesWork
<1>1. IInv => DrainRefusesWork
  BY DEF IInv, LoopInv
<1>2. QED
  BY <1>1, Inductive, PTL

\* A server that nobody is about to close takes work.
THEOREM TakenWhileServing == Spec => []LifecycleTakesWork
<1>1. IInv => LifecycleTakesWork
  BY DEF IInv, LoopInv
<1>2. QED
  BY <1>1, Inductive, PTL

\* No request is left waiting for a start that is over.
THEOREM NoneInLimbo == Spec => []NoLimbo
<1>1. IInv => NoLimbo
  BY DEF IInv, LoopInv
<1>2. QED
  BY <1>1, Inductive, PTL

-----------------------------------------------------------------------------
(* The lock.                                                               *)

\* From the begin of an iteration to the close of the server the process has
\* the handle, or goes on without the lock; once a start has failed it has the
\* handle only if a request is about to give it back; nothing is handed over
\* with the handle, and the file is this process's only with it.
LockInv ==
    /\ server \/ loop \in {"iterating", "starting"} => held \/ lockless
    /\ loop \in {"failed", "resting"} /\ ~server /\ held => Busy \/ parked # "none"
    /\ \A t \in Tasks : task[t].at \in {"respawning", "reacquiring"} => ~held
    /\ lockFile = "gateway" => held

\* A request that is taken leaves the lock alone, and a process with a request
\* to carry out still has one.
LEMMA RequestsLeaveLock ==
    ASSUME IInv, Alive, RequestStop \/ (\E reason \in Reasons : RequestRestart(reason))
    PROVE  /\ UNCHANGED <<server, loop, held, lockFile, lockless>>
           /\ Busy \/ parked # "none" => Busy' \/ parked' # "none"
           /\ \A t \in Tasks : task'[t] = task[t] \/ task'[t].at \in {"idle", "draining", "stopping"}
<1>1. CASE UNCHANGED loopVars
  BY <1>1 DEF loopVars, Busy
<1>2. LoopTypeOK /\ Marks /\ (~shuttingDown => ~Busy) /\ (parked # "none" => ~Busy)
  BY DEF IInv, LoopInv, Serial
<1>3. CASE RequestStop
  <2>1. CASE ~shuttingDown /\ RunStop /\ UNCHANGED <<loop, server, lock>>
    BY <1>2, <2>1, StopAlone
  <2>2. CASE StopTakesPlace /\ StopInstead
    BY <1>2, <2>2, StopAlone DEF StopTakesPlace, StopInstead
  <2>3. QED
    BY <1>1, <1>3, <2>1, <2>2 DEF RequestStop
<1>4. ASSUME NEW reason \in Reasons, RequestRestart(reason)
      PROVE  /\ UNCHANGED <<server, loop, held, lockFile, lockless>>
             /\ Busy \/ parked # "none" => Busy' \/ parked' # "none"
             /\ \A t \in Tasks : task'[t] = task[t] \/ task'[t].at \in {"idle", "draining", "stopping"}
  <2>1. CASE /\ ~shuttingDown
             /\ \E capped \in BOOLEAN : RunRestart(reason, capped)
             /\ UNCHANGED <<loop, server, lock>>
    BY <1>2, <2>1, RestartAlone DEF Reasons
  <2>2. CASE parked' = reason /\ UNCHANGED <<loop, server, lock, task>>
    BY <2>2 DEF Reasons
  <2>3. QED
    BY <1>1, <1>4, <2>1, <2>2 DEF RequestRestart
<1>5. QED
  BY <1>3, <1>4

\* The loop comes to rest: what waited for the start is carried out.
LEMMA FlushLeavesLock ==
    ASSUME IInv, NEW failed \in BOOLEAN, Flush(failed)
    PROVE  /\ Busy \/ parked # "none" => Busy' \/ parked' # "none"
           /\ \A t \in Tasks : task'[t] = task[t] \/ task'[t].at \in {"idle", "draining"}
<1>1. CASE parked = "none"
  BY <1>1 DEF Flush, Busy
<1>2. CASE parked # "none"
  <2>1. LoopTypeOK /\ Marks /\ ~Busy /\ parked \in {"none", "update", "other"}
    BY <1>2 DEF IInv, LoopInv, Serial, LoopTypeOK
  <2>2. PICK capped \in BOOLEAN : RunRestart(parked, capped)
    BY <1>2 DEF Flush
  <2>3. QED
    BY <2>1, <2>2, RestartAlone
<1>3. QED
  BY <1>1, <1>2

\* A step of the loop keeps the lock's invariant.
LEMMA LockLoopStep ==
    ASSUME IInv, LockInv, Alive, LoopStep
    PROVE  LockInv'
<1>1. /\ LoopTypeOK /\ OneShutdown
      /\ loop = "starting" => ~server /\ ~resolver
      /\ ~resolver => \A t \in Tasks : task[t].at \in {"idle", "stopping"}
      /\ resolver <=> loop = "resting"
  BY DEF IInv, LoopInv, Serial, Whereabouts, Alive
<1>2. ASSUME Exit PROVE LockInv'
  BY <1>2 DEF Exit, LockInv
<1>3. CASE StartSucceeds
  <2>1. \A t \in Tasks : task'[t].at \in {"idle", "stopping", "draining"}
    BY <1>1, <1>3, FlushLeavesLock DEF StartSucceeds
  <2>2. QED
    BY <1>3, <2>1 DEF StartSucceeds, LockInv
<1>4. CASE FailureReported
  <2>1. Flush(failedStart) /\ failedStart \in BOOLEAN
    BY <1>1, <1>4 DEF FailureReported, LoopTypeOK
  <2>2. /\ Busy \/ parked # "none" => Busy' \/ parked' # "none"
        /\ \A t \in Tasks : task'[t] = task[t] \/ task'[t].at \in {"idle", "draining"}
    BY <2>1, FlushLeavesLock
  <2>3. QED
    BY <1>4, <2>2 DEF FailureReported, LockInv
\* A failed start keeps the handle only for the request that waited for it.
<1>5. CASE StartFails
  <2>1. ~server /\ \A t \in Tasks : task[t].at \in {"idle", "stopping"}
    BY <1>1, <1>5 DEF StartFails
  <2>2. CASE Release /\ loop' \in {"exited", "failed"}
    BY <1>5, <2>1, <2>2 DEF StartFails, Release, LockInv
  <2>3. CASE UNCHANGED lock /\ parked # "none" /\ loop' = "failed"
    BY <1>5, <2>1, <2>3 DEF StartFails, LockInv
  <2>4. QED
    BY <1>5, <2>2, <2>3 DEF StartFails
<1>6. CASE ParkedTooLong
  BY <1>2, <1>6 DEF ParkedTooLong
<1>7. CASE OtherProcess
  BY <1>7 DEF OtherProcess, LockInv, Busy
<1>8. ASSUME NEW t \in Tasks, DrainEnds(t) PROVE LockInv'
  <2>1. task'[t].at = "closing" /\ \A u \in Tasks : u # t => task'[u] = task[u]
    BY <1>1, <1>8 DEF DrainEnds, LoopTypeOK, Task
  <2>2. Busy'
    BY <2>1 DEF Busy
  <2>3. QED
    BY <1>8, <2>1, <2>2 DEF DrainEnds, LockInv
<1>9. ASSUME NEW t \in Tasks, ForceExit(t) PROVE LockInv'
  BY <1>2, <1>9 DEF ForceExit
<1>10. ASSUME NEW t \in Tasks, Closed(t) \/ Stopped(t) PROVE LockInv'
  <2>1. ~server' /\ Release /\ loop' \in {"resting", "exited"}
    BY <1>1, <1>10 DEF Closed, Stopped
  <2>2. QED
    BY <2>1 DEF Release, LockInv
\* The loop goes on, with the handle or without the lock, and nothing is left
\* to be carried out.
<1>11. ASSUME NEW t \in Tasks, task[t].at # "idle", GoOn(t), resolver,
              held' \/ lockless', lockFile' = "gateway" => held'
       PROVE  LockInv'
  <2>1. \A u \in Tasks : task'[u].at = "idle"
    BY <1>1, <1>11 DEF GoOn, OneShutdown, LoopTypeOK, NoTask
  <2>2. loop' = "iterating"
    BY <1>11 DEF GoOn
  <2>3. QED
    BY <1>11, <2>1, <2>2 DEF LockInv
<1>12. ASSUME NEW t \in Tasks, Respawned(t) PROVE LockInv'
  <2>1. task[t].at = "respawning" /\ resolver /\ ~held
    BY <1>1, <1>12 DEF Respawned, LockInv
  <2>2. CASE /\ task' = [task EXCEPT ![t].at = "reacquiring"]
             /\ UNCHANGED <<loop, server, lock>>
    BY <2>1, <2>2 DEF LockInv
  <2>3. CASE GoOn(t) /\ lockless' = TRUE /\ UNCHANGED <<held, lockFile>>
    BY <1>11, <2>1, <2>3 DEF LockInv
  <2>4. QED
    BY <1>2, <1>12, <2>2, <2>3 DEF Respawned
<1>13. ASSUME NEW t \in Tasks, Reacquired(t) PROVE LockInv'
  <2>1. task[t].at = "reacquiring" /\ resolver
    BY <1>1, <1>13 DEF Reacquired
  <2>2. QED
    BY <1>2, <1>11, <1>13, <2>1 DEF Reacquired
<1>14. ASSUME NEW t \in Tasks, OwnerRemoved(t) PROVE LockInv'
  BY <1>14 DEF OwnerRemoved, LockInv, Busy
<1>15. QED
  BY <1>3, <1>4, <1>5, <1>6, <1>7, <1>8, <1>9, <1>10, <1>12, <1>13, <1>14 DEF LoopStep

\* And so does every other step.
LEMMA LockNext ==
    ASSUME IInv, LockInv, [Next]_vars
    PROVE  LockInv'
<1>1. CASE UNCHANGED loopVars
  BY <1>1 DEF loopVars, LockInv, Busy
<1>2. Reasons = {"update", "other"} /\ (intent # "none" => intent \in Reasons)
  BY DEF IInv, OuterInv, Flags, Reason, Reasons
<1>3. ASSUME Alive, RequestStop \/ (\E reason \in Reasons : RequestRestart(reason))
      PROVE  LockInv'
  BY <1>3, RequestsLeaveLock DEF LockInv
<1>4. CASE Alive /\ Calls
  <2>1. CASE Terminate
    BY <1>2, <1>3, <1>4, <2>1 DEF Terminate
  <2>2. CASE Interrupt
    BY <1>3, <1>4, <2>2 DEF Interrupt
  <2>3. QED
    BY <1>1, <1>4, <2>1, <2>2 DEF Calls, ScheduleRestart, WatcherRestart, LeaveIntent, ExternalSignal
<1>5. CASE Alive /\ EventLoop
  <2>1. CASE HandleWithIntent
    BY <1>2, <1>3, <1>5, <2>1 DEF HandleWithIntent
  <2>2. CASE HandleAuthorized
    BY <1>3, <1>5, <2>2, TakeSignalKeeps DEF HandleAuthorized, IInv
  <2>3. CASE Iterate
    BY <2>3 DEF Iterate, ResetForNextStart, LockInv, Busy
  <2>4. CASE InLoop(LoopStep)
    BY <1>5, <2>4, LockLoopStep DEF InLoop
  <2>5. CASE \/ \E earlier \in BOOLEAN : HandleExternal(earlier)
             \/ \E busy \in BOOLEAN : DeferralTimer(busy)
             \/ \E i \in Attempts : DeferralEnds(i) \/ HooksDone(i)
    BY <1>1, <2>5 DEF HandleExternal, DeferralTimer, DeferralEnds, HooksDone
  <2>6. QED
    BY <1>5, <2>1, <2>2, <2>3, <2>4, <2>5 DEF EventLoop
<1>6. CASE UNCHANGED vars
  BY <1>1, <1>6 DEF vars
<1>7. QED
  BY <1>4, <1>5, <1>6 DEF Next

\* A server without the handle of the lock is one that was started beside an
\* unhealthy child by a process that had given the lock back; a loop that rests
\* with nothing to do has no handle; no lock file outlives the handle.
THEOREM LockAccountedFor == Spec => []LockAccounted
<1>1. Init => LockInv
  BY DEF Init, LoopInit, LockInv, NoTask
<1>2. IInv /\ LockInv /\ [Next]_vars => LockInv'
  BY LockNext
<1>3. IInv /\ LockInv => LockAccounted
  BY DEF IInv, LoopInv, Whereabouts, LockInv, LockAccounted
<1>4. QED
  BY <1>1, <1>2, <1>3, Inductive, PTL DEF Spec
=============================================================================
