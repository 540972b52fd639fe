---------------------------- MODULE CommandQueue ----------------------------
(***************************************************************************)
(* The in-process command queue of the gateway,                            *)
(* src/src/process/command-queue.ts.                                       *)
(*                                                                         *)
(* Every agent turn, cron run and sub-agent run is a task that waits in a  *)
(* lane and runs when the lane has a free slot.  JavaScript runs each      *)
(* synchronous stretch of the file to its end, so a call is one action     *)
(* here, with the pump it ends in; what interleaves is what the event loop *)
(* interleaves: calls, the ends of task bodies, task timers, the           *)
(* continuations that settle an entry, and waiter timers.                  *)
(*                                                                         *)
(* An entry is named by its queue sequence number (the code counts task    *)
(* ids and sequence numbers separately; both are unique).  The `draining`  *)
(* flag of a lane is set and cleared inside one synchronous stretch, so it *)
(* is FALSE in every state of this module and is left out.                 *)
(*                                                                         *)
(* A definition marked "Faulty" is a plausible mistake in the one after    *)
(* it.  No specification uses it: it is there to be put in that one's      *)
(* place, to see that a property notices.                                  *)
(***************************************************************************)
EXTENDS Integers, SequencesExt

CONSTANTS
    Lanes,           \* lane names
    ProbeLanes,      \* those named auth-probe:* or session:probe-*
    Priorities,      \* priorities callers use: -1 background, 0, 1 foreground
    Timeouts,        \* may a caller pass taskTimeoutMs? a set of booleans
    Concurrency,     \* values passed to setCommandLaneConcurrency
    Waiters,         \* calls of waitForActiveTasks
    MaxEntries,      \* bound: number of accepted enqueues
    MaxGeneration    \* bound: resets of a lane

ASSUME LanesAssumption       == ProbeLanes \subseteq Lanes
ASSUME PrioritiesAssumption  == Priorities \subseteq {-1, 0, 1}
ASSUME TimeoutsAssumption    == Timeouts \subseteq BOOLEAN
ASSUME ConcurrencyAssumption == Concurrency \subseteq Int
ASSUME BoundsAssumption      == MaxEntries \in Nat /\ MaxGeneration \in Nat

VARIABLES
    gatewayDraining,  \* new work is refused
    lanes,            \* lanes whose LaneState exists
    queue,            \* lane -> entries waiting, next one first
    active,           \* lane -> activeTaskIds
    maxConcurrent,    \* lane -> slots
    generation,       \* lane -> generation
    request,          \* the accepted enqueues, in order of sequence number
    body,             \* entry -> the caller's async function
    race,             \* entry -> what runQueueEntryTask's race settled with
    startGeneration,  \* entry -> taskGeneration captured when it started
    promise,          \* entry -> the promise enqueueCommandInLane returned
    waiter            \* call of waitForActiveTasks -> its state

laneVars  == <<gatewayDraining, lanes, queue, active, maxConcurrent, generation>>
entryVars == <<request, body, race, startGeneration, promise>>
vars      == <<laneVars, entryVars, waiter>>

Entries == 1..MaxEntries
Issued  == DOMAIN request

Request   == [lane : Lanes, priority : Priorities, timed : Timeouts]
Bodies    == {"none", "running", "done"}
Outcomes  == {"none", "task", "timeout"}
Promises  == {"pending", "settled", "timedOut", "cleared"}
WaiterStatus == {"idle", "waiting", "drained", "notDrained"}

TypeOK ==
    /\ gatewayDraining \in BOOLEAN
    /\ lanes \subseteq Lanes
    /\ queue \in [Lanes -> Seq(Entries)]
    /\ active \in [Lanes -> SUBSET Entries]
    /\ maxConcurrent \in [Lanes -> Nat]
    /\ generation \in [Lanes -> Nat]
    /\ request \in Seq(Request) /\ Len(request) <= MaxEntries
    /\ body \in [Entries -> Bodies]
    /\ race \in [Entries -> Outcomes]
    /\ startGeneration \in [Entries -> Nat]
    /\ promise \in [Entries -> Promises]
    /\ waiter \in [Waiters -> [status : WaiterStatus, tasks : SUBSET Entries, timed : BOOLEAN]]

Init ==
    /\ gatewayDraining = FALSE
    /\ lanes = {}
    /\ queue = [l \in Lanes |-> <<>>]
    /\ active = [l \in Lanes |-> {}]
    /\ maxConcurrent = [l \in Lanes |-> 1]
    /\ generation = [l \in Lanes |-> 0]
    /\ request = <<>>
    /\ body = [e \in Entries |-> "none"]
    /\ race = [e \in Entries |-> "none"]
    /\ startGeneration = [e \in Entries |-> 0]
    /\ promise = [e \in Entries |-> "pending"]
    /\ waiter = [w \in Waiters |-> [status |-> "idle", tasks |-> {}, timed |-> FALSE]]

-----------------------------------------------------------------------------
(* Ordering: higher priority first, arrival order inside a priority.       *)

\* Faulty: goes ahead of its equals too.
OutranksEquals(r, e, f) == request[f].priority <= r.priority

\* Does r, numbered e, go ahead of the queued entry f?
Outranks(r, e, f) ==
    \/ request[f].priority < r.priority
    \/ request[f].priority = r.priority /\ f > e

\* enqueueLaneEntry: in front of the first entry that e outranks, else last.
Insert(q, e, r) ==
    LET at == SelectInSeq(q, LAMBDA f : Outranks(r, e, f))
    IN  InsertAt(q, IF at = 0 THEN Len(q) + 1 ELSE at, e)

-----------------------------------------------------------------------------
(* The pump.                                                               *)

\* Faulty: one slot is never used.
RoomUnderByOne(q, a, max) ==
    LET free == max - 1 - Cardinality(a)
    IN  IF free <= 0 THEN 0 ELSE IF free < Len(q) THEN free ELSE Len(q)

\* How many entries the loop of pump starts with queue q and active set a.
Room(q, a, max) ==
    LET free == max - Cardinality(a)
    IN  IF free <= 0 THEN 0 ELSE IF free < Len(q) THEN free ELSE Len(q)

\* The entries the loop starts.
Started(q, a, max) == {q[i] : i \in 1..Room(q, a, max)}

\* drainLane for each of the lanes ls, from queues q, active sets a, slots m
\* and generations g; the lanes not in ls keep q and a.
Pump(ls, q, a, m, g) ==
    LET starts(l) == IF l \in ls THEN Started(q[l], a[l], m[l]) ELSE {}
        begun     == UNION {starts(l) : l \in ls}
    IN  /\ queue' = [l \in Lanes |->
                        IF l \in ls
                        THEN SubSeq(q[l], Room(q[l], a[l], m[l]) + 1, Len(q[l]))
                        ELSE q[l]]
        /\ active' = [l \in Lanes |-> a[l] \cup starts(l)]
        /\ body' = [e \in Entries |-> IF e \in begun THEN "running" ELSE body[e]]
        /\ startGeneration' =
              [e \in Entries |->
                  IF e \in begun THEN g[request'[e].lane] ELSE startGeneration[e]]

\* hasPendingActiveTasks
HasPending(tasks, a) == \E l \in lanes : tasks \cap a[l] # {}

\* Faulty: the call is missing.
NotifyNobody(a) == UNCHANGED waiter

\* notifyActiveTaskWaiters, when the active sets are a.
Notify(a) ==
    waiter' = [w \in Waiters |->
                 IF waiter[w].status = "waiting" /\ ~HasPending(waiter[w].tasks, a)
                 THEN [waiter[w] EXCEPT !.status = "drained"]
                 ELSE waiter[w]]

-----------------------------------------------------------------------------
(* Calls.                                                                  *)

\* enqueueCommandInLane; a refused call (gatewayDraining) changes nothing.
Enqueue(l, p, t) ==
    LET e == Len(request) + 1
        r == [lane |-> l, priority |-> p, timed |-> t]
    IN  /\ ~gatewayDraining
        /\ e \in Entries
        /\ request' = Append(request, r)
        /\ lanes' = lanes \cup {l}
        /\ Pump({l}, [queue EXCEPT ![l] = Insert(@, e, r)], active, maxConcurrent, generation)
        /\ UNCHANGED <<gatewayDraining, maxConcurrent, generation, race, promise, waiter>>

\* Faulty: no Math.max.
SlotsUnclamped(l, n) == n

\* The limit setCommandLaneConcurrency sets: a probe lane keeps a slot, the
\* others may stop.
Slots(l, n) == LET least == IF l \in ProbeLanes THEN 1 ELSE 0
               IN  IF n < least THEN least ELSE n

\* setCommandLaneConcurrency
SetConcurrency(l, n) ==
    LET slots == Slots(l, n)
        m     == [maxConcurrent EXCEPT ![l] = slots]
    IN  /\ lanes' = lanes \cup {l}
        /\ maxConcurrent' = m
        /\ UNCHANGED <<gatewayDraining, generation, request, race, promise, waiter>>
        /\ IF slots > 0
           THEN Pump({l}, queue, active, m, generation)
           ELSE UNCHANGED <<queue, active, body, startGeneration>>

\* Faulty: the callers are never told.
ClearWithoutRejecting(l) ==
    /\ l \in lanes
    /\ queue' = [queue EXCEPT ![l] = <<>>]
    /\ UNCHANGED <<gatewayDraining, lanes, active, maxConcurrent, generation, entryVars, waiter>>

\* clearCommandLane: the queued entries are rejected, the active ones stay.
Clear(l) ==
    /\ l \in lanes
    /\ queue' = [queue EXCEPT ![l] = <<>>]
    /\ promise' = [e \in Entries |-> IF e \in ToSet(queue[l]) THEN "cleared" ELSE promise[e]]
    /\ UNCHANGED <<gatewayDraining, lanes, active, maxConcurrent, generation,
                   request, body, race, startGeneration, waiter>>

\* Faulty: the lanes are not drained after the reset.
IdleWithoutPump(ls) ==
    /\ \A l \in ls : generation[l] < MaxGeneration
    /\ generation' = [l \in Lanes |-> IF l \in ls THEN generation[l] + 1 ELSE generation[l]]
    /\ active' = [l \in Lanes |-> IF l \in ls THEN {} ELSE active[l]]
    /\ Notify(active')
    /\ UNCHANGED <<lanes, maxConcurrent, queue, entryVars>>

\* The part resetCommandLane and resetAllLanes share, for the lanes ls.
Idle(ls) ==
    LET a == [l \in Lanes |-> IF l \in ls THEN {} ELSE active[l]]
        g == [l \in Lanes |-> IF l \in ls THEN generation[l] + 1 ELSE generation[l]]
    IN  /\ \A l \in ls : generation[l] < MaxGeneration
        /\ generation' = g
        /\ UNCHANGED <<lanes, maxConcurrent, request, race, promise>>
        /\ Pump(ls, queue, a, maxConcurrent, g)
        /\ Notify(active')

\* resetCommandLane, used by stuck-session recovery.
ResetLane(l) ==
    /\ l \in lanes
    /\ Idle({l})
    /\ UNCHANGED gatewayDraining

\* resetAllLanes, used by the in-process restart.
ResetAllLanes ==
    /\ gatewayDraining' = FALSE
    /\ Idle(lanes)

\* markGatewayDraining
MarkGatewayDraining ==
    /\ gatewayDraining' = TRUE
    /\ UNCHANGED <<lanes, queue, active, maxConcurrent, generation, entryVars, waiter>>

\* waitForActiveTasks: without a timeout, with one, or with timeoutMs <= 0.
WaitForActiveTasks(w, timeout) ==
    LET tasks == UNION {active[l] : l \in lanes}
    IN  /\ waiter[w].status = "idle"
        /\ waiter' = [waiter EXCEPT ![w] =
              [status |-> IF tasks = {} THEN "drained"
                          ELSE IF timeout = "expired" THEN "notDrained"
                          ELSE "waiting",
               tasks  |-> tasks,
               timed  |-> timeout = "positive"]]
        /\ UNCHANGED <<laneVars, entryVars>>

-----------------------------------------------------------------------------
(* What the event loop delivers.                                           *)

\* The caller's async function returns or throws: both branches of pump do
\* the same to the lane, so "task" stands for either.  After a timeout nobody
\* listens.
FinishBody(e) ==
    /\ body[e] = "running"
    /\ body' = [body EXCEPT ![e] = "done"]
    /\ race' = IF race[e] = "none" THEN [race EXCEPT ![e] = "task"] ELSE race
    /\ UNCHANGED <<laneVars, request, startGeneration, promise, waiter>>

\* armTimeout finds that the task made no progress for taskTimeoutMs.
Timeout(e) ==
    /\ e \in Issued /\ request[e].timed
    /\ body[e] = "running"
    /\ race[e] = "none"
    /\ race' = [race EXCEPT ![e] = "timeout"]
    /\ UNCHANGED <<laneVars, request, body, startGeneration, promise, waiter>>

\* Faulty: the slot is freed on the try branch only.
ReleasesUnlessTimedOut(e) == startGeneration[e] = generation[request[e].lane] /\ race[e] = "task"

\* completeTask: is the entry of the lane's present generation?
Releases(e) == startGeneration[e] = generation[request[e].lane]

\* The continuation of runQueueEntryTask in pump, on either branch:
\* completeTask, notifyActiveTaskWaiters and pump unless the lane was reset
\* since the entry started, then resolve or reject.
Settle(e) ==
    LET l == request[e].lane
        a == [active EXCEPT ![l] = @ \ {e}]
    IN  /\ e \in Issued
        /\ race[e] # "none"
        /\ promise[e] = "pending"
        /\ UNCHANGED <<gatewayDraining, lanes, maxConcurrent, generation, request, race>>
        /\ IF Releases(e)
           THEN Notify(a) /\ Pump({l}, queue, a, maxConcurrent, generation)
           ELSE UNCHANGED <<queue, active, body, startGeneration, waiter>>
        /\ promise' = [promise EXCEPT ![e] =
              IF race[e] = "task" THEN "settled" ELSE "timedOut"]

\* The timer of a waiter: { drained: false }.
WaiterTimeout(w) ==
    /\ waiter[w].status = "waiting"
    /\ waiter[w].timed
    /\ waiter' = [waiter EXCEPT ![w].status = "notDrained"]
    /\ UNCHANGED <<laneVars, entryVars>>

-----------------------------------------------------------------------------
Calls ==
    \/ \E l \in Lanes, p \in Priorities, t \in Timeouts : Enqueue(l, p, t)
    \/ \E l \in Lanes, n \in Concurrency : SetConcurrency(l, n)
    \/ \E l \in Lanes : Clear(l)
    \/ \E l \in Lanes : ResetLane(l)
    \/ ResetAllLanes
    \/ MarkGatewayDraining
    \/ \E w \in Waiters, t \in {"none", "positive", "expired"} : WaitForActiveTasks(w, t)

EventLoop ==
    \/ \E e \in Entries : FinishBody(e)
    \/ \E e \in Entries : Timeout(e)
    \/ \E e \in Entries : Settle(e)
    \/ \E w \in Waiters : WaiterTimeout(w)

Next == Calls \/ EventLoop

Spec == Init /\ [][Next]_vars

\* The runtime delivers timers and continuations; a task that reports progress
\* re-arms its timer, and fairness says it stops doing so.  A task without a
\* timeout has to come to an end by itself, which the queue cannot enforce; one
\* with a timeout may hang for ever.
Fairness ==
    /\ \A e \in Entries : WF_vars(Timeout(e)) /\ WF_vars(Settle(e))
    /\ \A e \in Entries : WF_vars(FinishBody(e) /\ ~request[e].timed)
    /\ \A w \in Waiters : WF_vars(WaiterTimeout(w))

FairSpec == Spec /\ Fairness

-----------------------------------------------------------------------------
(* What the queue has to get right.                                        *)

LaneEntries(l) == {e \in Issued : request[e].lane = l}

\* A slot is held by exactly the entries that started in the lane's present
\* generation and are not settled: no reset, timeout or stale completion
\* leaks a slot or frees one twice.
SlotAccounting ==
    \A l \in Lanes :
        active[l] = {e \in LaneEntries(l) :
                        /\ body[e] # "none"
                        /\ promise[e] = "pending"
                        /\ startGeneration[e] = generation[l]}

\* A lane's queue holds exactly the entries that neither started nor were
\* cleared, each once: a reset keeps queued work, and nothing is dropped.
QueueAccounting ==
    \A l \in Lanes :
        /\ ToSet(queue[l]) = {e \in LaneEntries(l) : body[e] = "none" /\ promise[e] = "pending"}
        /\ Cardinality(ToSet(queue[l])) = Len(queue[l])

\* No lane stalls: work waits only where every slot is taken.  Whatever frees
\* or adds a slot (a settlement, a reset, a change of concurrency) also pumps.
WorkConserving ==
    \A l \in Lanes : queue[l] # <<>> => Cardinality(active[l]) >= maxConcurrent[l]

\* A waiting entry is never overtaken by a later one of its lane unless that
\* one has a higher priority.
NoOvertaking ==
    \A l \in Lanes : \A e, f \in LaneEntries(l) :
        (/\ e < f
         /\ request[e].priority >= request[f].priority
         /\ body[e] = "none" /\ promise[e] = "pending")
            => body[f] = "none"

\* No wakeup is lost: a waiter still waits only while one of the tasks it
\* captured holds a slot.
NoLostWakeup ==
    \A w \in Waiters :
        waiter[w].status = "waiting" => \E l \in Lanes : waiter[w].tasks \cap active[l] # {}

\* An entry rejected by clearCommandLane never runs.
ClearedNeverRuns == \A e \in Issued : promise[e] = "cleared" => body[e] = "none"

\* A step that starts work never takes a lane beyond its concurrency, even
\* right after the limit was lowered below what is running.
StartsWithinLimit ==
    [][\A l \in Lanes :
          ~(active'[l] \subseteq active[l]) => Cardinality(active'[l]) <= maxConcurrent'[l]]_vars

\* Every accepted entry of a lane that does not stay suspended is settled: it
\* runs to its end, times out, or is cleared.
EveryEntrySettles ==
    \A l \in Lanes :
        []<>(maxConcurrent[l] > 0) =>
            \A e \in Entries : (e \in LaneEntries(l)) ~> (promise[e] # "pending")

\* waitForActiveTasks answers even without a timeout of its own, though the
\* bodies of tasks with a timeout may never end (command-queue.ts:219-237, 607-636).
WaitersAnswer ==
    \A w \in Waiters : (waiter[w].status = "waiting") ~> (waiter[w].status # "waiting")

=============================================================================
