---------------------------- MODULE HeartbeatWake ----------------------------
(***************************************************************************)
(* The wake queue of the heartbeat runner,                                 *)
(* src/src/infra/heartbeat-wake.ts.                                        *)
(*                                                                         *)
(* Cron jobs, hooks, finished commands and the interval timer ask for a    *)
(* heartbeat; the requests of one target merge, one timer collects them,   *)
(* and when it fires the pending wakes are handed to the registered        *)
(* runner one after the other.  A busy runner makes its wake wait for a    *)
(* retry; a gateway restart inside the process registers a new runner      *)
(* while a run of the old one may still be going on.                       *)
(*                                                                         *)
(* A synchronous stretch of the file is one action: what interleaves is    *)
(* calls, the timer, and the ends of the runner's promises.  Delays are    *)
(* small numbers that keep the order of the real ones (0, 250 and 1000     *)
(* ms), and a timer holds the time left instead of its due date, which     *)
(* says the same while the clock does not go back.  requestedAt is left    *)
(* out: every caller takes the present for it, so the later of two wakes   *)
(* of a target never has the smaller one.  The heartbeat override a wake   *)
(* carries and the reset for tests are left out too.  The wakes of a batch *)
(* are handed over in any order, of which the Map's is one.                *)
(*                                                                         *)
(* A definition marked "Faulty" is a plausible mistake in the one after    *)
(* it and is used by no specification.                                     *)
(***************************************************************************)
EXTENDS Integers, Sequences, FiniteSets

CONSTANTS
    Targets,           \* agent and session a wake is for
    Priorities,        \* RETRY 0, INTERVAL 1, DEFAULT 2, ACTION 3
    Delays,            \* values of coalesceMs, also negative ones
    DefaultDelay,      \* DEFAULT_COALESCE_MS
    RetryDelay,        \* DEFAULT_RETRY_MS
    MaxRequests,       \* bound: calls of requestHeartbeat
    MaxRegistrations,  \* bound: runners registered, one per gateway lifecycle
    MaxThrows          \* bound: runs that throw

ASSUME PrioritiesAssumption == Priorities \subseteq 0..3
ASSUME DelaysAssumption     == Delays \subseteq Int /\ DefaultDelay \in Nat /\ RetryDelay \in Nat
ASSUME BoundsAssumption     == MaxRequests \in Nat /\ MaxRegistrations \in Nat /\ MaxThrows \in Nat

VARIABLES
    handler,        \* the registration in force, or 0
    registrations,  \* how many there were
    stopped,        \* the runners whose cleanup was called
    pending,        \* pendingWakes: target -> its wake, or NoWake
    scheduled, running,
    timer,          \* the one armed timer: time left, kind, and its delay
    runs,           \* the timer callbacks that wait for the runner
    requests,       \* history: the calls of requestHeartbeat
    answered,       \* history: those a runner has dealt with
    intruded,       \* history: since the present runner had no batch under way,
                    \* one of an earlier runner has ended
    throws

flags   == <<scheduled, running, timer>>
history == <<requests, answered, intruded>>
vars    == <<handler, registrations, stopped, pending, flags, runs, history, throws>>

Ids           == 1..MaxRequests
Registrations == 1..MaxRegistrations

Request == [target : Targets, priority : Priorities]

\* carries: the requests that were merged into the wake.  NoWake, which stands
\* for a target that is not in the Map, is less urgent than every wake.
Wake    == [priority : Priorities, carries : SUBSET Ids]
NoWake  == [priority |-> -1, carries |-> {}]
Wakes   == [Targets -> Wake \cup {NoWake}]
NoWakes == [t \in Targets |-> NoWake]

\* A batch under way: the runner, what the timer took, the wake the runner has,
\* that one and those to come, and the delay of the timer.
Run     == [handler : Registrations, batch : Wakes, at : Targets, todo : SUBSET Targets, delay : Nat]
NoRun   == [handler |-> 0, batch |-> NoWakes, at |-> {}, todo |-> {}, delay |-> 0]
Timer   == [left : Nat, kind : {"normal", "retry"}, delay : Nat]
NoTimer == [left |-> 0, kind |-> "none", delay |-> 0]

\* As many places as there can be batches at a time: only a registration adds
\* one to what may be under way (PlacesSuffice in HeartbeatWakeProofs).
Places     == Registrations
InFlight   == {r \in Places : runs[r] # NoRun}

\* The batches of the runner registered last.
Own        == {r \in InFlight : runs[r].handler = registrations}

TypeOK ==
    /\ handler \in {0, registrations}
    /\ registrations \in 0..MaxRegistrations
    /\ stopped \subseteq 1..registrations
    /\ pending \in Wakes
    /\ scheduled \in BOOLEAN /\ running \in BOOLEAN
    /\ timer \in Timer \cup {NoTimer}
    /\ runs \in [Places -> Run \cup {NoRun}]
    /\ requests \in Seq(Request)
    /\ answered \subseteq Ids /\ intruded \in BOOLEAN
    /\ throws \in 0..MaxThrows

Init ==
    /\ handler = 0 /\ registrations = 0 /\ stopped = {}
    /\ pending = NoWakes
    /\ scheduled = FALSE /\ running = FALSE /\ timer = NoTimer
    /\ runs = [r \in Places |-> NoRun]
    /\ requests = <<>> /\ answered = {} /\ intruded = FALSE /\ throws = 0

-----------------------------------------------------------------------------
(* The pending wakes and the timer.                                        *)

\* Faulty: the later wake replaces the earlier one, however urgent that was.
MergedLatest(v, w) == [w EXCEPT !.carries = @ \cup v.carries]

\* The wake that stands for a target when w meets v, already pending for it.
Merged(v, w) ==
    IF w.priority >= v.priority THEN [w EXCEPT !.carries = @ \cup v.carries]
    ELSE [v EXCEPT !.carries = @ \cup w.carries]

\* queuePendingWakeReason
Queued(p, t, w) == [p EXCEPT ![t] = Merged(@, w)]

\* One wake of the batch b after the other.
QueuedAll(p, b) == [t \in Targets |-> Merged(p[t], b[t])]

Clamped(ms) == IF ms < 0 THEN 0 ELSE ms

\* Faulty: a sooner request preempts a retry's cooldown.
ArmedSooner(tm, ms, kind) ==
    LET delay == Clamped(ms)
    IN  IF tm # NoTimer /\ tm.left <= delay THEN tm
        ELSE [left |-> delay, kind |-> kind, delay |-> delay]

\* Faulty: a negative delay is taken as it is.
ArmedUnclamped(tm, ms, kind) ==
    IF tm # NoTimer /\ (tm.kind = "retry" \/ tm.left <= ms) THEN tm
    ELSE [left |-> ms, kind |-> kind, delay |-> ms]

\* schedule: an armed retry stays, and so does a timer that fires no later.
Armed(tm, ms, kind) ==
    LET delay == Clamped(ms)
    IN  IF tm # NoTimer /\ (tm.kind = "retry" \/ tm.left <= delay) THEN tm
        ELSE [left |-> delay, kind |-> kind, delay |-> delay]

-----------------------------------------------------------------------------
(* Calls.                                                                  *)

RequestHeartbeat(t, p, d) ==
    LET id == Len(requests) + 1
    IN  /\ id <= MaxRequests
        /\ requests' = Append(requests, [target |-> t, priority |-> p])
        /\ pending' = Queued(pending, t, [priority |-> p, carries |-> {id}])
        /\ timer' = Armed(timer, d, "normal")
        /\ UNCHANGED <<handler, registrations, stopped, scheduled, running, runs, answered, intruded, throws>>

\* Faulty: wakes that arrived before the handler wait for the next request.
RegisterAndWait ==
    /\ registrations < MaxRegistrations
    /\ registrations' = registrations + 1
    /\ handler' = registrations'
    /\ timer' = NoTimer
    /\ running' = FALSE /\ scheduled' = FALSE /\ intruded' = FALSE
    /\ UNCHANGED <<stopped, pending, runs, requests, answered, throws>>

\* setHeartbeatWakeHandler: a new lifecycle; what the old one left is reset.
Register ==
    /\ registrations < MaxRegistrations
    /\ registrations' = registrations + 1
    /\ handler' = registrations'
    /\ timer' = IF pending = NoWakes THEN NoTimer ELSE Armed(NoTimer, DefaultDelay, "normal")
    /\ running' = FALSE /\ scheduled' = FALSE /\ intruded' = FALSE
    /\ UNCHANGED <<stopped, pending, runs, requests, answered, throws>>

\* Faulty: the disposer of an old registration clears the handler of a new one.
StopAnyway(g) ==
    /\ g <= registrations /\ g \notin stopped
    /\ stopped' = stopped \cup {g}
    /\ handler' = 0
    /\ UNCHANGED <<registrations, pending, flags, runs, history, throws>>

\* A runner's cleanup, once; its disposer knows only its own registration.
Stop(g) ==
    /\ g <= registrations /\ g \notin stopped
    /\ stopped' = stopped \cup {g}
    /\ handler' = IF handler = g THEN 0 ELSE handler
    /\ UNCHANGED <<registrations, pending, flags, runs, history, throws>>

-----------------------------------------------------------------------------
(* The timer.                                                              *)

Tick ==
    /\ timer.left > 0
    /\ timer' = [timer EXCEPT !.left = @ - 1]
    /\ UNCHANGED <<handler, registrations, stopped, pending, scheduled, running, runs, history, throws>>

Due       == timer # NoTimer /\ timer.left = 0
InMap     == {t \in Targets : pending[t] # NoWake}
FreePlace == CHOOSE r \in Places : runs[r] = NoRun

\* No handler, or nothing to hand to it: the wakes stay where they are.
FireIdle ==
    /\ Due
    /\ handler = 0 \/ (~running /\ pending = NoWakes)
    /\ timer' = NoTimer
    /\ scheduled' = FALSE
    /\ UNCHANGED <<handler, registrations, stopped, pending, running, runs, history, throws>>

\* The last batch is not over: try again after as long.
FireAgain ==
    /\ Due
    /\ handler # 0 /\ running
    /\ scheduled' = TRUE
    /\ timer' = Armed(NoTimer, timer.delay, timer.kind)
    /\ UNCHANGED <<handler, registrations, stopped, pending, running, runs, history, throws>>

\* Faulty: does not look whether a batch is running.
FireRegardless ==
    /\ Due
    /\ handler # 0 /\ pending # NoWakes
    /\ \E r \in Places : runs[r] = NoRun
    /\ \E t \in InMap : runs' = [runs EXCEPT ![FreePlace] =
            [handler |-> handler, batch |-> pending, at |-> t, todo |-> InMap, delay |-> timer.delay]]
    /\ pending' = NoWakes
    /\ scheduled' = FALSE /\ running' = TRUE /\ timer' = NoTimer
    /\ UNCHANGED <<handler, registrations, stopped, history, throws>>

\* Take all that is pending and hand the first wake to the runner.
Fire ==
    /\ Due
    /\ handler # 0 /\ ~running /\ pending # NoWakes
    /\ \E t \in InMap : runs' = [runs EXCEPT ![FreePlace] =
            [handler |-> handler, batch |-> pending, at |-> t, todo |-> InMap, delay |-> timer.delay]]
    /\ pending' = NoWakes
    /\ scheduled' = FALSE /\ running' = TRUE /\ timer' = NoTimer
    /\ UNCHANGED <<handler, registrations, stopped, history, throws>>

-----------------------------------------------------------------------------
(* The runner's promise settles.                                           *)

\* The callback is over, with p pending and the timer tm.
Finally(r, p, tm) ==
    /\ runs' = [runs EXCEPT ![r] = NoRun]
    /\ running' = FALSE
    /\ intruded' = (Own \ {r} # {} /\ (intruded \/ r \notin Own))
    /\ pending' = p
    /\ timer' = IF p # NoWakes \/ scheduled THEN Armed(tm, runs[r].delay, "normal") ELSE tm
    /\ UNCHANGED <<handler, registrations, stopped, scheduled, requests>>

ToCome(r) == runs[r].todo \ {runs[r].at}
HandedTo(r) == runs[r].batch[runs[r].at]

\* The next wake of the batch is handed over, or the callback ends.
Advance(r, p, tm) ==
    \/ /\ \E t \in ToCome(r) : runs' = [runs EXCEPT ![r].at = t, ![r].todo = ToCome(r)]
       /\ pending' = p /\ timer' = tm
       /\ UNCHANGED <<handler, registrations, stopped, scheduled, running, requests, intruded>>
    \/ ToCome(r) = {} /\ Finally(r, p, tm)

\* It ran, failed, or was skipped for a reason that is not retried.
Answer(r) ==
    /\ r \in InFlight
    /\ answered' = answered \cup HandedTo(r).carries
    /\ Advance(r, pending, timer)
    /\ UNCHANGED throws

\* Requests in flight, cron in progress or lanes busy: back in the queue.
Busy(r) ==
    /\ r \in InFlight
    /\ Advance(r, Queued(pending, runs[r].at, HandedTo(r)), Armed(timer, RetryDelay, "retry"))
    /\ UNCHANGED <<answered, throws>>

\* It rejected: the whole batch is queued again, also what has run.
Throw(r) ==
    /\ r \in InFlight
    /\ throws < MaxThrows
    /\ throws' = throws + 1
    /\ Finally(r, QueuedAll(pending, runs[r].batch), Armed(timer, RetryDelay, "retry"))
    /\ UNCHANGED answered

Settle(r) == Answer(r) \/ Busy(r)

-----------------------------------------------------------------------------

Next ==
    \/ \E t \in Targets, p \in Priorities, d \in Delays : RequestHeartbeat(t, p, d)
    \/ Register \/ (\E g \in Registrations : Stop(g))
    \/ Tick \/ FireIdle \/ FireAgain \/ Fire
    \/ \E r \in Places : Answer(r) \/ Busy(r) \/ Throw(r)

Spec == Init /\ [][Next]_vars

\* Timers fire, and the promise of the registered runner settles; a run of an
\* earlier one may hang for ever.
Fairness ==
    /\ WF_vars(Tick) /\ WF_vars(FireIdle \/ FireAgain \/ Fire)
    /\ \A r \in Places : WF_vars(runs[r].handler = handler /\ Settle(r))

FairSpec == Spec /\ Fairness

-----------------------------------------------------------------------------
(* Properties.                                                             *)

\* A wake of b, for one of the targets ts, stands for request i.
Carried(b, ts, i) == \E t \in ts : i \in b[t].carries /\ b[t].priority >= requests[i].priority

\* A request that no runner has dealt with is in the queue or in a batch under
\* way, in a wake at least as urgent, whatever was merged into it, found busy,
\* or thrown back beside it.
NothingForgotten ==
    \A i \in 1..Len(requests) :
        \/ i \in answered
        \/ Carried(pending, Targets, i)
        \/ \E r \in InFlight : Carried(runs[r].batch, runs[r].todo, i)

\* While there are pending wakes and a runner, a timer is armed: no wake sleeps
\* until somebody happens to ask for another, not even one that came before
\* the runner, or that its predecessor's run gives back.
NoWakeSleeps == pending # NoWakes /\ handler # 0 => timer # NoTimer

\* `running` is not left TRUE for a batch that is over, or that an earlier
\* runner has: it holds up no wake of the present one for ever (heartbeat-wake
\* .ts:291-297).  And the present runner has one batch at a time, for which
\* `running` stands, unless the end of an earlier runner's batch has cleared it
\* meanwhile (263): from then on, until the present runner has no batch under
\* way, the timer may start another one beside those it has.
RunningTells ==
    /\ running => Own # {}
    /\ ~intruded => (Own # {} => running) /\ \A r, s \in Own : r = s

\* The cooldown of a retry that is armed is neither cut short by a more eager
\* request or by the end of a callback, nor put off; only a new lifecycle
\* cancels it.
CooldownKept ==
    [][timer.kind = "retry" /\ registrations' = registrations =>
          \/ timer.left = 0
          \/ timer'.kind = "retry" /\ timer'.left \in {timer.left, timer.left - 1}]_vars

\* The last runner registered was stopped, or there is none.
Shut == registrations \in stopped \cup {0}

Waiting(i) ==
    \/ Carried(pending, Targets, i)
    \/ \E r \in InFlight : runs[r].handler = handler /\ Carried(runs[r].batch, runs[r].todo, i)

\* A request that waits, in the queue or in a batch of the present runner, is
\* handed to that runner, unless it is stopped or a new one takes over: no
\* wake starves behind busy ones, a timer that keeps finding a batch, or the
\* disposer of an earlier runner.
EveryWakeHanded ==
    \A i \in Ids :
        (i <= Len(requests) /\ Waiting(i)) ~>
            \/ Shut \/ i \in answered
            \/ (\E r \in InFlight : i \in HandedTo(r).carries)
            \/ \E r \in InFlight : runs[r].handler # handler /\ Carried(runs[r].batch, runs[r].todo, i)

=============================================================================
