----------------------------- MODULE NestedLanes -----------------------------
(***************************************************************************)
(* Agent runs over the command queue.  A run is a task of its session's    *)
(* lane that awaits a task of a global lane (runEmbeddedAgent in           *)
(* src/src/agents/embedded-agent-runner/run.ts); a cron job that was       *)
(* started by hand is a task of the cron lane around such a run.  So a     *)
(* task holds one lane's slot while it waits for another's.                *)
(*                                                                         *)
(* Three parties write the limits and generations of these lanes without   *)
(* knowing of each other: the configuration, the suspension of a lane with *)
(* its timer, and the recovery of a stuck session.                         *)
(***************************************************************************)
EXTENDS CommandQueue

CONSTANTS
    SessionLanes,   \* session:*
    Cron, Main,     \* global lanes that runs ask for
    CronNested,     \* the global lane of runs inside cron jobs
    Limits,         \* limits a configuration gives to a global lane
    MaxChanges      \* bound: suspensions and reloads

\* A session's lane has a name of its own, session:*; the tasks of sessions'
\* and of the cron lane have no timeout.
ASSUME NestedAssumption ==
    /\ Lanes = SessionLanes \cup {Cron, Main, CronNested}
    /\ SessionLanes \cap {Cron, Main, CronNested} = {}
    /\ Cron # Main /\ Cron # CronNested
    /\ FALSE \in Timeouts
    /\ Limits \subseteq Nat \ {0} /\ 1 \in Limits
    /\ MaxChanges \in Nat

VARIABLES
    rest,        \* entry -> lanes of the tasks still to be nested in it
    inner,       \* entry -> the entry it awaits, or 0
    configured,  \* global lane -> limit of the present configuration
    resume,      \* lane -> limit its resume timer will set, or 0 for no timer
    changes      \* suspensions and reloads so far

runVars   == <<rest, inner>>
limitVars == <<configured, resume, changes>>
nestedVars == <<vars, runVars, limitVars>>

GlobalLanes == {Cron, Main, CronNested}

NestedTypeOK ==
    /\ TypeOK
    /\ rest \in [Entries -> Seq(Lanes)]
    /\ inner \in [Entries -> 0..MaxEntries]
    /\ \A e \in Entries : inner[e] # 0 => e < inner[e] /\ inner[e] \in Issued
    /\ configured \in [GlobalLanes -> Limits]
    /\ resume \in [Lanes -> Limits \cup {0}]

\* The limits start at 1, as those of a lane nobody has configured.
NestedInit ==
    /\ Init
    /\ rest = [e \in Entries |-> <<>>]
    /\ inner = [e \in Entries |-> 0]
    /\ configured = [l \in GlobalLanes |-> 1]
    /\ resume = [l \in Lanes |-> 0]
    /\ changes = 0

-----------------------------------------------------------------------------
(* Runs.                                                                   *)

\* Faulty: the inner run of a cron job asks for a slot of its own lane.
SameGlobalLane(lane) == lane

\* resolveGlobalLane
ResolveGlobalLane(lane) == IF lane = Cron THEN CronNested ELSE lane

\* A task is handed to lane; others are to be nested in it, in lanes after.
Hand(lane, p, t, after) ==
    /\ Enqueue(lane, p, t)
    /\ rest' = [rest EXCEPT ![Len(request) + 1] = after]

\* Bound: a run begins only if its n tasks, and those that the runs under way
\* have still to nest, fit.
Fits(n) ==
    LET owed == {x \in Issued \X (1..2) : inner[x[1]] = 0 /\ x[2] <= Len(rest[x[1]])}
    IN  Len(request) + Cardinality(owed) + n <= MaxEntries

\* runEmbeddedAgent for a message of the session.
Run(session, p) ==
    /\ Fits(2)
    /\ Hand(session, p, FALSE, <<ResolveGlobalLane(Main)>>)
    /\ UNCHANGED <<inner, limitVars>>

\* enqueueRun: a job started by hand, whose agent turn is in the session.
RunJob(session, p) ==
    /\ Fits(3)
    /\ Hand(Cron, p, FALSE, <<session, ResolveGlobalLane(Cron)>>)
    /\ UNCHANGED <<inner, limitVars>>

\* The body of e hands on the task it awaits.  Only the task of the global
\* lane has a timeout, and not every run.  A queue that drains refuses it,
\* and the body throws.
Nest(e, t) ==
    /\ body[e] = "running" /\ rest[e] # <<>> /\ inner[e] = 0
    /\ t => Len(rest[e]) = 1
    /\ IF gatewayDraining
       THEN FinishBody(e) /\ UNCHANGED runVars
       ELSE /\ Hand(Head(rest[e]), request[e].priority, t, Tail(rest[e]))
            /\ inner' = [inner EXCEPT ![e] = Len(request) + 1]
    /\ UNCHANGED limitVars

\* Faulty: the body does not wait for the task it handed on.
ReturnUnawaited(e) ==
    /\ inner[e] # 0
    /\ FinishBody(e)
    /\ UNCHANGED <<runVars, limitVars>>

\* The task that e awaits is settled, in whatever way: so is e's body.
Return(e) ==
    /\ inner[e] # 0
    /\ promise[inner[e]] # "pending"
    /\ FinishBody(e)
    /\ UNCHANGED <<runVars, limitVars>>

\* The agent of a run ends, or throws.
AgentEnds(e) ==
    /\ rest[e] = <<>>
    /\ FinishBody(e)
    /\ UNCHANGED <<runVars, limitVars>>

\* The queue's own steps.
Unnested(step) == step /\ UNCHANGED <<runVars, limitVars>>

-----------------------------------------------------------------------------
(* Those who change the limits.                                            *)

\* Faulty: the limit to return to is the one in force, which may be 0.
SuspendFromPresentLimit(e) ==
    LET l == request[e].lane
    IN  /\ e \in Issued /\ body[e] # "none" /\ rest[e] = <<>>
        /\ changes < MaxChanges /\ changes' = changes + 1
        /\ SetConcurrency(l, 0)
        /\ resume' = [resume EXCEPT ![l] = maxConcurrent[l]]
        /\ UNCHANGED <<runVars, configured>>

\* suspendSession, begun by the run e whose model is out of quota; the session
\* store is written first, so e may be over by now.
Suspend(e) ==
    LET l == request[e].lane
    IN  /\ e \in Issued /\ body[e] # "none" /\ rest[e] = <<>>
        /\ changes < MaxChanges /\ changes' = changes + 1
        /\ SetConcurrency(l, 0)
        /\ resume' = [resume EXCEPT ![l] = configured[l]]
        /\ UNCHANGED <<runVars, configured>>

\* The resume timer of a lane sets the limit it captured.
Resume(l) ==
    /\ resume[l] # 0
    /\ SetConcurrency(l, resume[l])
    /\ resume' = [resume EXCEPT ![l] = 0]
    /\ UNCHANGED <<runVars, configured, changes>>

\* applyGatewayLaneConcurrency after a change of the configuration.
Reload(c) ==
    LET m == [l \in Lanes |-> IF l \in GlobalLanes THEN c[l] ELSE maxConcurrent[l]]
    IN  /\ changes < MaxChanges /\ changes' = changes + 1
        /\ configured' = c
        /\ lanes' = lanes \cup GlobalLanes
        /\ maxConcurrent' = m
        /\ UNCHANGED <<gatewayDraining, generation, request, race, promise, waiter, runVars, resume>>
        /\ Pump(GlobalLanes, queue, active, m, generation)

-----------------------------------------------------------------------------
NestedNext ==
    \/ \E s \in SessionLanes, p \in Priorities : Run(s, p) \/ RunJob(s, p)
    \/ \E e \in Entries :
          \/ \E t \in Timeouts : Nest(e, t)
          \/ Return(e) \/ AgentEnds(e)
          \/ Unnested(Timeout(e) \/ Settle(e))
          \/ Suspend(e)
    \/ \E l \in GlobalLanes : Resume(l)
    \/ \E c \in [GlobalLanes -> Limits] : Reload(c)
    \/ \E s \in SessionLanes : Unnested(ResetLane(s))
    \/ Unnested(MarkGatewayDraining)

\* What happens to e by itself: promises are delivered and timers fire, and an
\* agent without a timeout comes to an end; one with a timeout may hang.
GoesOn(e) ==
    \/ \E t \in Timeouts : Nest(e, t)
    \/ Return(e)
    \/ AgentEnds(e) /\ ~request[e].timed
    \/ Unnested(Timeout(e) \/ Settle(e))

\* The event loop does not stop while it has something to deliver.  With
\* finitely many entries and changes nothing is passed over for ever, so this
\* asks no more than fairness to each entry and each timer would.
NestedFairness ==
    WF_nestedVars((\E e \in Entries : GoesOn(e)) \/ (\E l \in GlobalLanes : Resume(l)))

NestedSpec == NestedInit /\ [][NestedNext]_nestedVars /\ NestedFairness

-----------------------------------------------------------------------------
\* Runs never wait for each other in a circle: every run and every job is
\* settled, although tasks hold slots while they wait for slots, and although
\* lanes are suspended (lanes.ts:8-16, session-suspension.ts:44-62).
EveryRunSettles ==
    \A e \in Entries : (e \in Issued) ~> (e \in Issued /\ promise[e] # "pending")

\* The transcript of a session has one writer: of the runs that hold the slot
\* of the session's lane, at most one has an agent at work, or about to be,
\* whatever becomes of the outer tasks (run.ts:488-533).
OneRunPerSession ==
    \A s \in SessionLanes :
        Cardinality({d \in LaneEntries(s) :
            /\ startGeneration[d] = generation[s]
            /\ inner[d] # 0
            /\ promise[inner[d]] = "pending"}) <= 1

\* What e does next needs no slot: its lane's timer fires, its body hands on or
\* goes on, or its promise is answered.
Moves(e) ==
    \/ body[e] = "none" /\ maxConcurrent[request[e].lane] = 0 /\ resume[request[e].lane] # 0
    \/ body[e] = "running" /\ (rest[e] # <<>> => inner[e] = 0 \/ promise[inner[e]] # "pending")
    \/ race[e] # "none"

\* Else e waits for one of these: for a slot that one of them holds, or for the
\* task it handed on.
WaitsFor(e) == IF body[e] = "none" THEN active[request[e].lane] ELSE {inner[e]}

\* No deadlock: among any tasks that are not settled there is one that moves,
\* or that waits for a task which is not among them (lanes.ts:8-16).
NoStandstill ==
    \A D \in SUBSET {e \in Issued : promise[e] = "pending"} :
        D # {} => \E e \in D : Moves(e) \/ ~(WaitsFor(e) \subseteq D)

\* Nobody leaves a lane suspended: while its limit is 0 a timer is there to
\* end it, whatever reloads and suspensions came before
\* (session-suspension.ts:44-62, server-lanes.ts:7-14).
SuspensionEnds == \A l \in Lanes : maxConcurrent[l] = 0 => resume[l] # 0

=============================================================================
