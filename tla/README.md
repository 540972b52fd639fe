# Verification of the gateway's queues and restarts

The repository is a personal-assistant gateway: one long-lived Node process
that receives messages from chat channels, runs agent turns, and sends answers.
Nearly all of its own core logic that is hard to test sits in a few files that
decide *when* something runs: queues, drains, claims, timers, signals, and
what a crash or a restart leaves behind. Those are modelled here in TLA+,
model-checked with TLC on small instances, and proved with TLAPS for all
instances as far as this prover reaches.

JavaScript runs each synchronous stretch to its end, so in every module one
action is the code between two `await`s, timers or callbacks. What interleaves
is what the event loop interleaves.

## Inventory

Each part of the system, its state, its operations, how it meets the others,
what is hard about it, and what makes it correct. The parts marked * are
modelled, wholly or partly; PROJECT.json lists the files of each.

**Command queue*** (`src/src/process/command-queue.ts`). State: per lane a
priority queue, the ids of active tasks, a limit, a generation; a draining
flag; waiters. Operations: enqueue, change of limit, clear, reset of one or of
all lanes, mark draining, wait for active tasks; task timers. Every agent turn,
cron run and sub-agent run passes through it. Hard: a reset gives slots away
while old tasks go on; a timer races the task it limits. Correct: a slot is
never leaked or freed twice, no accepted task is lost, duplicated or overtaken
against its priority, no lane rests with work and a free slot, waiters answer.

**Outbound delivery queue*** (`src/src/infra/outbound/delivery-queue-*.ts`, the
wrapper in `deliver.ts`). State: one JSON file per message with a retry count
and a recovery state; in memory the entries claimed and the drains under way.
Operations: enqueue, send, ack, fail, mark, replay at startup and on reconnect,
defer when the recovery budget is spent. Hard: crashes between any two file
operations, stale snapshots, three kinds of owner. Correct: one owner, nothing
replayed after its acknowledgement, at most one copy once a send was marked,
nothing acknowledged undelivered, no claim kept for ever.

**Followup queue*** (`src/src/auto-reply/reply/queue/`,
`src/src/utils/queue-helpers.ts`). State: per session a queue object (items,
dropped count and summary lines, mode, drop policy, draining flag), found
through a map; one active reply run. Operations: enqueue behind an active run,
drop policies, drain one by one or in batches of one sender, restore after a
deferral, abort, clear. It meets the reply-run registry (admission), the agent
runner (whose end starts a drain) and the followup runner. Hard: the drain
holds references across awaits while the queue is dropped from, cleared or
replaced. Correct: nothing lost, answered twice, mixed or out of order; nothing
left in a queue nobody drains.

**Heartbeat wake queue*** (`src/src/infra/heartbeat-wake.ts`). State: pending
wakes by target, one timer of two kinds, `running` and `scheduled` flags, the
registered runner. Operations: request a heartbeat, register and dispose of a
runner; the timer's callback. Cron, hooks, finished commands and the interval
timer call it; the heartbeat runner answers. Hard: a restart registers a new
runner while a batch of the old one is under way; busy retries race new
requests. Correct: no request lost or made less urgent by a merge, no pending
wake without a timer, `running` never left set for what is over, cooldowns kept.

**Lanes of a run*** (`agents/embedded-agent-runner/lanes.ts`, `run.ts`). A run
is a task of a global lane inside a task of its session's lane; a cron job
started by hand is a task of the cron lane around such a run. Hard: a task
holds a slot while it waits for one (hence `cron-nested`). Correct: one run per
session, nobody waits in a circle.

**Lane configuration, suspension, stuck-session recovery***
(`gateway/server-lanes.ts`, `agents/session-suspension.ts`,
`logging/diagnostic-stuck-session-recovery.runtime.ts`). Three uncoordinated
writers of a lane's limit or generation, one of them a timer. Correct: a
suspension ends.

**Gateway run loop and restart*** (`cli/gateway-cli/run-loop.ts`,
`infra/restart.ts`, `gateway/server-reload-handlers.ts`). State: where the main
loop is, the server's handle, `shuttingDown`, a request parked until the server
has started, the mark of a drain, the lock; in the scheduler the signal in
flight, the pending timer, deferrals and their hooks. Operations: requests for
a restart from tools and the config watcher, SIGINT, SIGTERM, SIGUSR1 with or
without an intent file. Hard: any of them in any phase; what is merged or
cleared on the way. Correct: one request is carried out at a time, none is
lost, work is refused while it drains and only then, the process knows whether
it has the lock.

**Session delivery queue** (`infra/session-delivery-queue*.ts`). Files and
claims like the outbound queue, for messages to sessions across a restart.

**Reply run registry** (`auto-reply/reply/reply-run-registry.ts`). One active
reply operation per session, its phases, aborts and waiters. Correct: mutual
exclusion, waiters told on every path.

**Cron service** (`cron/service/timer.ts`). Jobs, due times, run markers on
disk, catch-up. Correct: a job is not run twice for one due time, nor skipped
by a restart.

**Gateway lock*** (`infra/gateway-lock.ts`). A file that names its owner, in each
process a handle. Hard: which owner counts as dead is a guess, and its file is
removed without looking again. Correct: no process keeps a file without its
handle.

**Other locks** (`infra/file-lock.ts`, `agents/session-write-lock.ts`). Lock
files of sessions and stores, stale detection. Correct: mutual exclusion; a dead
owner's lock is taken over.

**Others.** Heartbeat runner, agent runner, task, flow and sub-agent
registries, ACP manager, channels, approvals, pairing and nodes, configuration
and secrets, model fallback, inbound debounce and routing, process supervisor,
broadcast and events, plugins, protocol packages, model streams, user
interfaces. They are in PROJECT.json with the reason each is left out, and
summed up under "Not modelled".

## Modules

| Module | What it is |
| --- | --- |
| `CommandQueue`, `MCCommandQueue` | the command queue; its instances |
| `CommandQueueProofs` | its inductive invariant, the order of its queues and eight theorems |
| `LanePromise` | what the command queue promises its callers |
| `LaneRefinement`, `LaneRefinementProofs` | the mapping of the command queue to it; the proof that it is implemented |
| `NestedLanes`, `MCNestedLanes` | runs, jobs and the writers of limits, composed with the command queue; their instance |
| `NestedLanesProofs` | five theorems about them |
| `DeliveryQueue`, `MCDeliveryQueue` | the outbound delivery queue; its instances |
| `DeliveryQueueProofs` | five theorems about it |
| `FollowupQueue`, `MCFollowupQueue` | the followup queue; its instances |
| `FollowupQueueProofs`, `FollowupQueueOrder` | seven theorems about it: types, reach and batches; positions and order |
| `HeartbeatWake`, `MCHeartbeatWake` | the heartbeat wake queue; its instance |
| `HeartbeatWakeProofs` | five theorems about it |
| `RestartScheduler`, `GatewayLoop` | the restart scheduler; the run loop |
| `GatewayRestart`, `MCGatewayRestart` | both, with signals, intent file and config watcher; their instance |
| `GatewayRestartProofs` | seven theorems about them |

Definitions keep the names of the functions they model where they can; the
"map" of PROJECT.json gives the lines of each. A definition marked "Faulty" is
a plausible mistake in the one that follows it. No specification uses it; put
in the place of the right one, it makes a property fail, which shows that the
property depends on that piece of code.

### CommandQueue

An exported operation is an action, with the pump (`drainLane`) it ends in:
`Enqueue`, `SetConcurrency`, `Clear`, `ResetLane`, `ResetAllLanes`,
`MarkGatewayDraining`, `WaitForActiveTasks`. The event loop's actions are
`FinishBody` (the task's function ends), `Timeout` (its timer wins the race),
`Settle` (the continuation of `drainLane`, which frees the slot if the
generation is still the task's, and pumps) and `WaiterTimeout`. `draining` of a
lane is set and cleared within one stretch and is left out; so are the
schema migration of the global state, the reset for tests and logging.

### LanePromise and LaneRefinement

`LanePromise` is the command queue without its queues, generations, timers and
continuations: work is accepted, waits, begins, comes back. Each of its steps
ends with `Serve`, which begins waiting work, the most urgent and then the
oldest first, until every lane has no slot or nobody waits for one.
`LaneRefinement` maps the state of `CommandQueue` to it: `CallerSees` makes one
status of `promise` and `body`, the active sets are the slots. So `KeepsPromise`
says in one formula that no sequence of calls, timeouts, resets and late
settlements begins work twice, out of turn or beyond a limit, answers twice,
forgets accepted work, or leaves a slot free beside work that waits for it.

### NestedLanes

Extends `CommandQueue` and uses its actions: `Run` and `RunJob` enqueue the
outermost task, `Nest` the next one from inside a running body, `Return` ends a
body when the task it awaits is settled, `AgentEnds` the innermost. `Suspend`,
`Resume` and `Reload` write limits; `ResetLane` on a session's lane is the
recovery of a stuck session, whose checks before the reset and whose aborts are
abstracted: the reset may come at any time. One priority is used, since order
is the command queue's own property. `Suspend` takes the limit to return to
from the present configuration, where the code takes it from the run's
`params.cfg`, which a reload may have outdated: what the timer then restores is
a limit all the same. Runs of sub-agents and compactions nest in the same two
steps and are left out. `NestedAssumption` says how the code names its lanes:
a session's lane is `session:*` and so none of the global ones, and the cron
lane is neither the main one nor the one for runs inside cron jobs; limits of
a configuration are positive, and the tasks of sessions' lanes have no timeout.

`NoStandstill` is the absence of deadlock as a safety property. A task waits
for a slot, which the active tasks of its lane hold, or for the task it handed
on; the property takes any set of unsettled tasks and finds one in it that can
move by itself or waits for a task outside.

### DeliveryQueue

Actors are the live sends (one per delivery) and the workers: drains and the
startup recovery. Each has a program counter; reading and writing a file are
two steps, since an `await` is between them. `Crash` drops all memory and
leaves the files. Profiles say what differs between deliveries: the queue
policy, `bestEffort`, and whether the channel can reconcile an unknown outcome.
The core of `deliver.ts` is abstracted to its results: accepted, accepted and
answer lost, failed, suppressed, aborted. A message of several payloads is one
here; normalization of legacy files, commit hooks and summaries are left out.
Nothing in the repository but the plugin SDK starts a drain on reconnect, so
drains may start at any time.

### FollowupQueue

One session key. `queue` is a family of queue *objects*, `table` the one the
map holds: a clear takes the object out of the map while its drain still holds
it. `drain[q]` is the async loop: where it is, and the job (batch, remaining
batches, summary) it chose before its await. `active` is the session's run.
Admission (`Admit`, `Defer`, `Skip`) is `admitReplyTurn` with its bounded wait.
Only messages with origin `Solo` have an abort signal or no common route. The
end of a turn merges the clearing of the reply operation and the drain it
starts; on the failing path the code clears slightly earlier than the
`finally` at agent-runner.ts:2238. Left out: redelivery dedupe, lifecycle
callbacks, session refresh, the cached drain callback, the wording of prompts.
`GiveUp` models a drain that finds dropped messages but no item to carry their
summary: it schedules itself again at once. In the code that is a spin of the
event loop; in the model it is a stuttering step, and no property is about it.

### HeartbeatWake

`RequestHeartbeat`, `Register` and `Stop` (cleanup of a runner, with its
disposer) are the calls; `Tick`, `FireIdle`, `FireAgain` and `Fire` the timer;
`Answer`, `Busy` and `Throw` the ways the runner's promise settles, each with
the rest of the callback up to its next await. A timer holds the time left
rather than a due date; the three delays keep their order. `requestedAt` is
left out because every caller takes the present for it, so its comparison
always succeeds while the clock does not step back. The wakes of a batch are
handed over in any order, the Map's insertion order being one. A wake carries,
as history, the requests merged into it. The heartbeat override is left out.

Batches are not one at a time. A registration takes `running` back from the old
runner's batch, and the end of that batch takes it back from the new runner's:
the next timer then starts a batch of the new runner beside the one it has.
`intruded` remembers that this has happened; `RunningTells` says that nothing
else leads there.

### RestartScheduler, GatewayLoop, GatewayRestart

`RestartScheduler` holds the module variables of restart.ts; a deferral or the
preparation by hooks that is under way is an `attempt`. Whether a timer is due,
the gateway busy, or a request due before the pending one is the environment's
choice. `GatewayLoop` is runGatewayLoop: `loop` says where the main loop is,
`task` holds the runs of runAcceptedRequest, and a request that comes before
there is a server to close is `parked`. The command queue is here only as its
draining flag. `GatewayRestart` joins them: requests, signals and their
handlers, the intent file, the config watcher, and `onIteration`, which resets
both halves. Left out: the fallback without a SIGUSR1 listener, the expiry of
an authorization and of an intent file (seconds, for signals handled in the
next turn of the event loop), traces. The lock is `held` (this process has a handle)
and `lockFile` (whose the file is). A file is created only where there is none,
by this process in `Reacquired` or by others in `OtherProcess`; but anybody's is
removed at any time, since an owner whose port is silent, or who listens on
another port than the starter's, counts as dead, and a removal may hit the
file of a successor. Release removes the file whosever it is. So that one
process owns the lock is no property of the code. Left out: processes that run
without any lock (`OPENCLAW_ALLOW_MULTI_GATEWAY`), and an error while the
payload is written, which leaves an empty file to be found stale.

## Runs

| Run | Bounds | What it shows |
| --- | --- | --- |
| `cq_one_lane` | 1 lane, 3 tasks, 2 priorities, timeouts or none, limits -1, 0, 2, one reset | `SlotAccounting`, `QueueAccounting`, the refinement `KeepsPromise` |
| `cq_two_lanes` | a normal and a probe lane, 2 tasks, limits 0 and 1, one waiter, one reset | `WorkConserving`, `NoLostWakeup`; with fairness `EveryEntrySettles`, `WaitersAnswer` |
| `nl` | a session's lane, main, cron and cron-nested, 5 tasks, one reset, a drain, 2 suspensions or reloads (174,064 states) | `NoStandstill`, `OneRunPerSession`, `SuspensionEnds`; with fairness `EveryRunSettles` |
| `dq_faults` | 1 delivery of 4 profiles, 2 drains and the recovery, storage faults, 2 crashes, 2 retries | `SingleOwner`, `AckedNotReplayed`, `MarkedSentOnce`, `AckedWasDelivered` |
| `dq_budget` | 2 deliveries, the recovery out of time | with fairness `ClaimsReleased` |
| `dq_deferral` | 2 deliveries, a drain, the recovery out of time | refutes `AckedNotReplayed` |
| `dq_best_effort` | 1 `bestEffort` delivery, 1 crash | refutes `AckedWasDelivered` |
| `fq_bursts` | 3 messages of 4 origins, both modes, policy `new`, one failing run, aborts | `NothingLost`, `BatchesAreUniform`, `NotStranded`, `InOrder`; with fairness `EveryMessageSettles` |
| `fq_dropping` | 3 messages, cap 2, all policies, clears, one failing run | `AnsweredOnce`, `PendingIsReachable`, the cap (in `TypeOK`) |
| `fq_lost` | mode `followup`, policy `summarize`, cap 2 | refutes `NothingLost` |
| `hw_lifecycles` | 2 requests, 2 targets, 2 priorities, 3 registrations, one rejection (324,783 states) | `NothingForgotten`, `NoWakeSleeps`, `RunningTells`, `CooldownKept`; with fairness `EveryWakeHanded` |
| `gr` | 4 requests and signals of every kind, 3 deferrals or preparations at a time, handover, restart in the process, unhealthy child, another process at the lock file (254,520 states) | `OneShutdown`, `DrainRefusesWork`, `LifecycleTakesWork`, `LockAccounted`, `NoLimbo`; with fairness `RestartHappens`, `StopHonoured` |

Type invariants are checked in one run of each module, except that of
`NestedLanes`, which is proved.

Why the bounds are enough to be of interest. Three tasks with a limit of two
fill the slots, leave one waiting, and let a third overtake or be cleared; one
reset gives two generations at a time, and a task belongs to one or the other.
Two drains and the recovery are more workers than one entry can have owners,
and two crashes give a crash during the recovery from a crash. Three messages
are a running one, one in the same or another batch, and one that arrives
meanwhile; with a cap of two, the third drops the one that runs. Three
registrations allow three batches at a time, and after the first ends two of
them of one runner. Five tasks are a job with its two nested ones and a run
with its nested one, which compete for the session's lane; two changes of limits
are a suspension under another, or under a reload. Four requests are a restart, one
that meets it, a stop, and one for the next lifecycle. Most of the invariants
are proved without bounds on any of these; "Proofs" says which.

CHECK_DEADLOCK is off where the system may come to rest: all messages sent, all
requests answered, all tasks settled, the process ended. In `CommandQueue` it
is on: a call that changes nothing (a new limit, a reset of no lane) is always
possible there.

### Fairness

Weak fairness, of what the runtime does by itself. `CommandQueue`: timers fire
and continuations run; a task *with* a timeout may hang, one without is assumed
to end, since nothing in the queue could make it. `DeliveryQueue`: file
operations and channel calls settle; nobody has to start a worker or to crash.
`FollowupQueue`: runs end, a handler that saw an active run goes on, a drain
resumes; `EveryMessageSettles` assumes that turns of others eventually leave
the session to the drain, because admission has no queue. `HeartbeatWake`:
timers fire and the promise of the *registered* runner settles; a batch of an
earlier runner may hang, as the comment in `setHeartbeatWakeHandler` expects.
`NestedLanes`: one condition for everything the event loop delivers by itself;
with finitely many tasks and changes this asks no more than fairness to each
would, and it is far cheaper to check. An agent without a timeout ends, one
with may hang. `GatewayRestart`: handlers and timers run, hooks settle, polls
and drains end by their limits (a drain without one was asked to wait for work
that ends), a close that hangs meets its timer.

## What the checks found

Three statements of the repository are refuted by its code; PROJECT.json quotes
them with the lines.

- `dq_deferral`: the deferral of the recovery budget reads and rewrites files
  it has not claimed. An acknowledgement in between is undone, and the message
  is sent again.
- `dq_best_effort`: a replay under `bestEffort` whose payload failed is
  acknowledged, since `hadPartialFailure` is not read when there is no queue id.
- `fq_lost`: the drain removes by position after its await. When the drop
  policy has dropped the running item meanwhile, the next message is removed
  unheard; so is the head item that a summary uses for its routing.

Seen while modelling, without a run of its own:

- `waitForActiveTasks` says drained while the function of a timed out or reset
  task is still executing (command-queue.ts:232 frees the slot, 599 counts slots).
- A queue cleared while one of its followups runs is replaced by one that
  nobody drains until the end of a later turn (drain.ts:559 schedules by key
  only what its own object holds; agent-runner.ts:1209-1211 saw an active run).
  `NeverStranded` is therefore a theorem about sessions nobody clears.
- A retry of a wake that finds a normal timer armed to fire sooner is not armed
  (heartbeat-wake.ts:196), so its wake goes without the cooldown the comment at
  line 190 calls a hard minimum.
- The comment at drain.ts:388, that nothing is collected again within a drain,
  is contradicted by line 396; the restore of a summary at the cap can repeat
  its lines (drain.ts:275).
- A live send takes its claim after writing its file (deliver.ts:1298), and a
  worker that came between can have sent the message.
- After a failed start the process has given its lock back, so `hadLock` is
  false (run-loop.ts:212). If an update's child then stays unhealthy, the next
  lifecycle starts without the lock. The run reaches this; `lockless` remembers
  it until the lock is taken again, and `LockAccounted` says that no other way
  leads to it.
- The comment at heartbeat-runner.ts:260, that the dispatcher awaits heartbeat
  turns serially, does not hold after the end of an earlier runner's batch
  (heartbeat-wake.ts:263): two batches of the present runner may be under way.
- SIGTERM and SIGINT during a restart's drain are ignored (run-loop.ts:665),
  although the comment at 807 says they exit.
- An `update.run` that joins a restart already preparing loses its reason,
  which the preparation has captured (restart.ts:801); the hooks of a pending
  request are dropped when the config watcher emits first.
- A resume timer brings back the limit it captured, over a later reload; a
  reload ends a suspension early; `cancelLaneAutoResume` has no caller.
- An owner of the gateway lock whose port does not answer counts as dead, and
  the port asked is the starter's own (gateway-lock.ts:194-199); the file removed
  may be another's than the one that was read (311-313), and the owner's release
  may remove a successor's (289-292).

## Proofs

All proofs are checked by TLAPS to their leaves and assume only the named
ASSUMEs of the modules: sets of the right kind, bounds that are natural
numbers, priorities within those the code uses. Where a theorem holds
only under a further condition, the condition is in its statement.

`CommandQueueProofs` proves `Spec => []TypeOK`; its invariant `TypeInv` also
says that the active sets are of issued entries. Its lemmas say what the
operators do: how many entries the pump takes, where an enqueue inserts.

It proves `Spec => []IInv` with

    IInv == TypeInv /\ Core /\ NoLostWakeup
    Core == SlotsOK /\ QueuesOK /\ EntriesOK /\ WorkConserving

`SlotsOK` says entry by entry what `SlotAccounting` says of sets: a slot is
held by just those that started in the lane's generation and are not settled.
`QueuesOK` does so for the queues and adds that nothing is queued twice, without
which the pump could start an entry that is still queued. `EntriesOK` orders
what happens to an entry (issued, started, decided, settled, and never started
in a generation to come); a reset needs it to know that no entry of the new
generation exists yet. `WorkConserving` is part of the core because an enqueue
pumps only its own lane: the others must have nothing to do. From `IInv` follow
`SlotAccounting`, `QueueAccounting`, `WorkConserving`, `NoLostWakeup`,
`ClearedNeverRuns` and the action property `StartsWithinLimit`.

`NoOvertaking` needs more: the queues are sorted (`Ordered`), and no started
entry has passed one that waits (`Unpassed`).

`NestedLanesProofs` proves `NestedSpec => []NestedInv`. The steps of nested
runs are steps of the command queue, so the lemmas about its operators are used
again, and `BooksKept` restates its accounts here. What `NestedInv` adds is
what a task may be doing in which lane: only the innermost task has a timeout
or nothing to hand on, the task it awaits is in a lane further in (cron, then a
session's, then the lanes of runs), a body that awaits goes on until that task
is settled, and nobody writes the limit of a session's lane. `NoStandstill`
follows because a task that is stuck waits, directly or through the holder of
the slot, for one in a lane further in, and there are three ranks of lanes. `OneRunPerSession` follows because who awaits an
unsettled task still holds its slot, of which the session's lane has one.

`HeartbeatWakeProofs` proves `Spec => []IInv` with

    IInv == Shape /\ PlacesSuffice /\ RunningTells /\ NoWakeSleeps /\ NothingForgotten

`Shape` is `TypeOK` and that the wake a runner holds is one of its batch not
yet dealt with, the batch being of some runner up to the present one.
`PlacesSuffice` counts: batches under way, and the one that may start while
`running` is not set, are no more than the registrations. It is needed for
the types, since a new batch must find one of the finitely many places, and it
is inductive because a registration pays for one more batch and takes `running`
away, a start takes `running`, and the end of *any* batch gives it back.
`RunningTells` is about whose batches they are.
`NothingForgotten` rests on the lemma that a merge carries the requests of both
wakes and is as urgent as the more urgent one. `CooldownKept` is proved from
the same invariant.

`LaneRefinementProofs` proves `Spec => KeepsPromise`. The initial states map to
initial states. For a step, `IInv` and the order invariants of
`CommandQueueProofs` hold before and after; an action of `CommandQueue` maps to the action of
`LanePromise` of the same purpose, or to a stutter (`FinishBody`, and the
settlement of a task whose race was lost to its timer). What is hard is that
the pump, which takes heads of queues until the slots are gone, is `Serve`,
which speaks of sets: that needs the queues sorted, no task queued twice, and
work conservation.

`DeliveryQueueProofs` has two layers. `Seats /\ Data` are the types and who has
which entry: an actor that works on an entry either has claimed it or is its
live send before the claim, and no two have the same (`SingleOwner`). On top of
it stand two invariants, each proved actor by actor and entry by entry.
`Backed`: whoever is past the send has an answer of the channel or gave the
message up, so an acknowledgement can be believed; it assumes that no delivery
is `bestEffort`. `Safe`: only the owner of an entry writes its file, what an
owner read is what the file says, a mark is in the file before the first marked
copy is accepted; it assumes that the recovery's budget does not expire. Both
assumptions are needed: `dq_best_effort` and `dq_deferral` are what happens
without them.

`FollowupQueueProofs` proves `Spec => []Kept`, with parts for the types
(`Kinds`, `Contents`, `Work`), the count of messages still to come (`Counted`:
without it an enqueue might find no message), a free queue object for a key
that has none (`Room`), the run that is active being that of a drain which waits
for it (`Running`: else the end of a run could start a second loop), and
`PendingIsReachable`. `Work` says that every batch a drain holds, the present
one and those to come, may share a prompt; it rests on lemmas about `Groups`
(between two changes of sender there is one sender, by a least counterexample,
since the library's induction cannot be used here) and about `CrossChannel`.
`NeverStranded` adds `Solitary`: without clears only the object under the key
is ever drained.

`FollowupQueueOrder` is about the removal by position. A drain chooses a batch,
waits for the session with it, and when the run is over removes as many items
from the front as the batch had (`splice(0, n)`). Meanwhile a full queue may
have dropped items in front, and a clear may have emptied the object.

    Ordered == Kept /\ Numbered /\ Apart /\ JobsEnd /\ Lined /\ Unanswered /\ AnsweredOnce

`Lined` is the heart of it. Queues and batches ascend in the order the messages
came, and a message of a job is no further back in the queue than in the job
(`InFront`): its index is at most the number of messages of the job up to it,
counted over the present batch and those to come. Every step that takes messages
out of a queue moves the others forward or leaves them, so it keeps this
(`Thinned`); a batch that is chosen is what the queue begins with; and when
n items are removed, the ranks of the messages still to run fall by n as their
indices do. It follows that all of the batch that is still in the queue is among
the n removed (`NoneLeft`), so nothing that was answered can be taken again.
`Apart` says the same across queue objects: the one that was replaced shares no
message with its successor. `AnsweredAtMostOnce` holds for every drop policy,
with clears, aborts and failing runs.

The removal may take too *much*: with the policies `"old"` and `"summarize"`
the items dropped while a run waits make it remove messages that never ran, which
is the finding `fq_lost`; `"summarize"` is the default (`DEFAULT_QUEUE_DROP`).
`NewOnly` says that every setting has the policy `"new"`.
Then

    Whole == Ordered /\ Queued /\ \A q \in Queues : Intact(q)

is kept too: the queue under the key has all of its drain's job (`Intact`), so
what is removed is exactly what ran (`RunsInFront`, by counting: n messages with
indices up to n are the first n). `AcceptedStays` and `AnsweredInTurn` follow
from it, for any number of messages and queue objects, with clears. The instance
of `fq_bursts` has the same policy and no clears.

`GatewayRestartProofs` proves `Spec => []IInv` with

    IInv == LoopInv /\ SchedulerInv /\ OuterInv

`LoopInv` says how the loop's flags belong together: a request is carried out
or parked just while `shuttingDown` (`Serial`), what is there in each phase
(`Whereabouts`), that the mark of a drain ends before the next start (`Marks`);
the properties of the run are conjuncts, for none is inductive alone. On
top of it `LockInv` is proved, which says what the process has of the lock in
each phase, and from which `LockAccounted` follows.

Only model-checked: the liveness properties (`EveryEntrySettles`,
`WaitersAnswer`, `EveryRunSettles`, `ClaimsReleased`, `EveryMessageSettles`,
`EveryWakeHanded`, `RestartHappens`, `StopHonoured`), which are beyond this
prover. Every safety invariant and every action property of the passing runs is
proved, each under the assumptions its theorem names. Proved, and not among a
run's properties: `ClearedNeverRuns`, `StartsWithinLimit`, `NoOvertaking` of the
command queue, which `KeepsPromise` contains.

## Not modelled

Of the components in part modelled: the rendering and the per-payload loop of
`deliver.ts` (a message has one payload here), commit hooks, delivery
summaries; the followup queue's redelivery dedupe, lifecycle callbacks and
session refresh; the recovery's diagnosis of a stuck session and the
persistence of suspensions.

The session delivery queue is a smaller copy of the outbound one's claims and
acknowledgements over the same file store. The reply run registry appears as
`active`, the heartbeat runner as the handler that answers, is busy or rejects,
the agent and followup runners where they admit, defer, skip and end a turn.
The cron service and the model fallback are mostly arithmetic on due times and
cooldowns. The lock files of sessions rest on process ids, start times and ages
of files. Task, flow and sub-agent registries are wide record keeping;
ACP sessions, approvals, pairing, channels and nodes are request tables or
thin layers over plugins; the rest is parsing, provider or operating-system
I/O, and presentation.

Hazards that no property covers are listed in PROJECT.json with the reason:
mostly that the code nowhere says what should happen.
