--------------------------- MODULE RestartScheduler ---------------------------
(***************************************************************************)
(* The restart scheduler of the gateway process, src/src/infra/restart.ts: *)
(* many callers ask for a restart, one SIGUSR1 is to come of it.           *)
(*                                                                         *)
(* A request waits for its timer, then for the gateway to be idle (a poll),*)
(* then for the hooks that prepare the restart, and is emitted as a signal *)
(* that stays "in flight" until the run loop has taken it.  Requests that  *)
(* come meanwhile are merged into the one under way.                       *)
(*                                                                         *)
(* Due times are left out: a timer fires at any time, and whether a new    *)
(* request is due before the pending one is a choice of its caller.  Of an *)
(* intent only its reason is kept; force and waitMs only shorten the drain.*)
(***************************************************************************)
EXTENDS Integers

CONSTANTS
    MaxAttempts  \* bound: emissions under way, deferred or in preparation

ASSUME AttemptsAssumption == MaxAttempts \in Nat

VARIABLES
    inFlight,    \* reason of the emitted and not yet consumed signal
    authorized,  \* sigusr1AuthorizedCount
    pending,     \* the module's pendingRestart* variables
    attempt      \* deferrals and preparations under way

schedulerVars == <<inFlight, authorized, pending, attempt>>

Attempts == 1..MaxAttempts

\* "update" is update.run, "other" any other reason or none.
Reasons   == {"update", "other"}
Reason    == Reasons \cup {"none"}
Pending   == [timer : BOOLEAN, preparing : BOOLEAN, reason : Reason,
              skip : BOOLEAN, hooks : BOOLEAN]
Attempt   == [at : {"idle", "polling", "preparing"}, own : BOOLEAN, reason : Reason]

NoneYet   == [timer |-> FALSE, preparing |-> FALSE, reason |-> "none",
              skip |-> FALSE, hooks |-> FALSE]
NoAttempt == [at |-> "idle", own |-> FALSE, reason |-> "none"]

SchedulerTypeOK ==
    /\ inFlight \in Reason
    /\ authorized \in 0..1
    /\ pending \in Pending
    /\ attempt \in [Attempts -> Attempt]

SchedulerInit ==
    /\ inFlight = "none"
    /\ authorized = 0
    /\ pending = NoneYet
    /\ attempt = [i \in Attempts |-> NoAttempt]

-----------------------------------------------------------------------------
\* shouldPreferRestartReason: an update is not forgotten for another reason.
Preferred(next, current) == IF next = "update" THEN next ELSE current

\* clearActiveDeferralPolls, for the attempts a.
PollsCleared(a) == [i \in Attempts |-> IF a[i].at = "polling" THEN NoAttempt ELSE a[i]]

\* The attempts a and one more.
Begun(a, new) ==
    {[a EXCEPT ![i] = new] : i \in {j \in Attempts : a[j].at = "idle" /\
                                       \A k \in Attempts : k < j => a[k].at # "idle"}}

\* Faulty: a second signal is emitted while one is in flight.
EmitAnyway(reason, a) ==
    /\ attempt' = PollsCleared(a)
    /\ pending' = NoneYet
    /\ inFlight' = reason
    /\ authorized' = authorized + 1

\* emitGatewayRestart, when the attempts are a.  The signal is refused while
\* another is in flight; either way nothing stays pending.
Emit(reason, a) ==
    /\ attempt' = PollsCleared(a)
    /\ pending' = NoneYet
    /\ IF inFlight = "none"
       THEN inFlight' = reason /\ authorized' = authorized + 1
       ELSE UNCHANGED <<inFlight, authorized>>

\* emitPreparedGatewayRestart up to its first await, when p is pending and
\* the attempts are a: hooks are taken and run, without any it emits at once.
EmitPrepared(reason, p, a) ==
    IF p.hooks
    THEN /\ attempt' \in Begun(a, [at |-> "preparing", own |-> FALSE, reason |-> reason])
         /\ pending' = [p EXCEPT !.hooks = FALSE]
         /\ UNCHANGED <<inFlight, authorized>>
    ELSE Emit(reason, a)

\* The same with hooks of its own, those of the config watcher.
EmitPreparedOwn(reason, a) ==
    /\ attempt' \in Begun(a, [at |-> "preparing", own |-> TRUE, reason |-> reason])
    /\ UNCHANGED <<inFlight, authorized, pending>>

\* deferGatewayRestartUntilIdle finds pending work and starts to poll.
Poll(reason, own) ==
    /\ attempt' \in Begun(attempt, [at |-> "polling", own |-> own, reason |-> reason])
    /\ UNCHANGED <<inFlight, authorized>>

-----------------------------------------------------------------------------
(* scheduleGatewaySigusr1Restart                                           *)

\* While a signal is in flight the request only improves its reason.
JoinSignal(reason) ==
    /\ inFlight # "none"
    /\ inFlight' = Preferred(reason, inFlight)
    /\ UNCHANGED <<authorized, pending, attempt>>

Polling == \E i \in Attempts : attempt[i].at = "polling"

\* A request that skips the deferral ends the one under way.
Bypass(reason, skip, hooks) ==
    /\ inFlight = "none"
    /\ pending.preparing /\ skip /\ Polling
    /\ EmitPrepared(reason, [pending EXCEPT !.reason = reason, !.hooks = hooks],
                    PollsCleared(attempt))

\* Is the pending timer to be replaced by one for the new request?
PullsEarlier(skip, earlier) == ~pending.preparing /\ (earlier \/ (skip /\ ~pending.skip))

\* The request is merged into the pending one.
JoinPending(reason, skip, hooks, earlier) ==
    /\ inFlight = "none"
    /\ pending.timer \/ pending.preparing
    /\ ~(pending.preparing /\ skip /\ Polling)
    /\ ~PullsEarlier(skip, earlier)
    /\ pending' = [pending EXCEPT !.reason = Preferred(reason, @),
                                  !.skip = @ \/ skip,
                                  !.hooks = @ \/ hooks]
    /\ UNCHANGED <<inFlight, authorized, attempt>>

\* A timer is set, the first one or one in the place of a later one.
Arm(reason, skip, hooks, earlier) ==
    /\ inFlight = "none"
    /\ (pending.timer \/ pending.preparing) => PullsEarlier(skip, earlier)
    /\ pending' = [timer |-> TRUE, preparing |-> FALSE, reason |-> reason,
                   skip |-> skip, hooks |-> hooks]
    /\ UNCHANGED <<inFlight, authorized, attempt>>

Schedule(reason, skip, hooks, earlier) ==
    \/ JoinSignal(reason)
    \/ Bypass(reason, skip, hooks)
    \/ JoinPending(reason, skip, hooks, earlier)
    \/ Arm(reason, skip, hooks, earlier)

-----------------------------------------------------------------------------
(* What the event loop delivers to the scheduler.                          *)

\* The timer of a scheduled restart, with work pending or none.
TimerFires(busy) ==
    LET p == [pending EXCEPT !.timer = FALSE, !.preparing = TRUE,
                             !.reason = "none", !.skip = FALSE]
    IN  /\ pending.timer
        /\ IF busy /\ ~pending.skip
           THEN Poll(pending.reason, FALSE) /\ pending' = p
           ELSE EmitPrepared(pending.reason, p, attempt)

\* A poll finds the gateway idle, cannot tell, or has waited long enough.
PollEnds(i) ==
    LET others == [attempt EXCEPT ![i] = NoAttempt]
    IN  /\ attempt[i].at = "polling"
        /\ IF attempt[i].own
           THEN EmitPreparedOwn(attempt[i].reason, others)
           ELSE EmitPrepared(attempt[i].reason, pending, others)

\* The hooks have run.  If others were handed in meanwhile they run now, and
\* those that ran are undone; else the signal is emitted.
Prepared(i) ==
    /\ attempt[i].at = "preparing"
    /\ IF ~attempt[i].own /\ pending.hooks
       THEN /\ pending' = [pending EXCEPT !.hooks = FALSE]
            /\ UNCHANGED <<inFlight, authorized, attempt>>
       ELSE Emit(attempt[i].reason, [attempt EXCEPT ![i] = NoAttempt])

\* resetGatewayRestartStateForInProcessRestart
ResetScheduler ==
    /\ attempt' = PollsCleared(attempt)
    /\ pending' = NoneYet
    /\ UNCHANGED <<inFlight, authorized>>

\* Faulty: the emitted cycle is not marked handled.
TakeSignalUnmarked ==
    /\ authorized > 0
    /\ authorized' = authorized - 1
    /\ UNCHANGED <<inFlight, pending, attempt>>

\* consumeGatewaySigusr1RestartAuthorization and markGatewaySigusr1RestartHandled
TakeSignal ==
    /\ authorized > 0
    /\ authorized' = authorized - 1
    /\ inFlight' = "none"
    /\ UNCHANGED <<pending, attempt>>

=============================================================================
