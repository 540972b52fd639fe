---------------------------- MODULE FollowupQueue ----------------------------
(***************************************************************************)
(* The followup queue of one session key: src/src/auto-reply/reply/queue/, *)
(* with src/src/utils/queue-helpers.ts, and its callers agent-runner.ts    *)
(* and followup-runner.ts.                                                 *)
(*                                                                         *)
(* A message that arrives while a reply run is active is queued.  A drain, *)
(* an async loop over one queue object, turns what is queued into followup *)
(* runs: one per message, or one per batch ("collect").  A run has to be   *)
(* admitted, since a session has one active run.  The drain waits for it   *)
(* holding a reference into `items', and removes what it ran afterwards,   *)
(* by position.                                                            *)
(*                                                                         *)
(* Between two awaits the code runs to the next one: so does an action     *)
(* here.  The debounce is a step that may come late.  Left out: the        *)
(* redelivery dedupe, lifecycle callbacks, the cached drain callback, and  *)
(* lastRun, which a queue with work always has.  A definition marked       *)
(* "Faulty" is a plausible mistake in the one after it; no specification   *)
(* uses it.                                                                *)
(***************************************************************************)
EXTENDS Integers, FiniteSets, SequencesExt

CONSTANTS
    N,             \* messages 1..N, numbered in the order they are enqueued
    Origins,       \* what messages may come from: records of sender (the
                   \* authorization key) and route
    Solo,          \* no common route: cross-channel, or has its own abort signal
    Settings,      \* the queue settings a message may come with
    Cap,           \* settings.cap
    MayClear,      \* may clearSessionQueues be called?
    Queues,        \* bound: queue objects that exist at one time
    MaxFailures    \* bound: runs that throw

None    == 0
Turn    == -1      \* the active run is that of a message that was not queued
Message == 1..N

Setting == [mode : {"followup", "collect"}, policy : {"new", "old", "summarize"}]

ASSUME MessageAssumption ==
    /\ N \in Nat
    /\ \A o \in Origins : DOMAIN o = {"sender", "route"}
ASSUME SettingsAssumption == Settings \subseteq Setting /\ Cap \in Nat \ {0}
ASSUME QueuesAssumption   == Queues \subseteq Nat \ {0} /\ IsFiniteSet(Queues) /\ Queues # {}
ASSUME BoundsAssumption   == MayClear \in BOOLEAN /\ MaxFailures \in Nat

VARIABLES
    origin,     \* message -> its sender and route
    table,      \* FOLLOWUP_QUEUES.get(key)
    queue,      \* queue object -> its contents
    drain,      \* queue object -> its drain
    active,     \* the session's active run: None, Turn, or the queue whose drain runs
    arriving,   \* messages whose handler has seen an active run, to be enqueued
    aborted,    \* messages whose abort signal has fired
    fate,       \* message -> what the queue has done with it (history)
    answers,    \* message -> runs that had it in their prompt and returned (history)
    failures

queues  == <<table, queue, drain>>
signals == <<origin, aborted>>
history == <<fate, answers>>
vars    == <<signals, queues, active, arriving, history, failures>>

Sender(m) == origin[m].sender
Route(m)  == origin[m].route

\* kind: "item", "vehicle" (an item whose run is given the summary prompt
\* instead of its own), "batch", "summary".  rest: the batches still to run.
Jobs == [kind : {"item", "vehicle", "batch", "summary"}, batch : Seq(Message),
         count : Nat, lines : Seq(Message), rest : Seq(Seq(Message))]
NoJob == [kind |-> "summary", batch |-> <<>>, count |-> 0, lines |-> <<>>, rest |-> <<>>]

Drains == [pc : {"idle", "loop", "dropping", "admit", "run"},
           force : BOOLEAN, at : Nat, job : Jobs]
Idle   == [pc |-> "idle", force |-> FALSE, at |-> 0, job |-> NoJob]

EmptyQueue(s) == [items |-> <<>>, mode |-> s.mode, policy |-> s.policy, dropped |-> 0, lines |-> <<>>]
Garbage == EmptyQueue([mode |-> "followup", policy |-> "new"])

Fates == {"new", "queued", "refused", "dropped", "summarized", "cleared", "aborted"}

TypeOK ==
    /\ origin \in [Message -> Origins]
    /\ table \in Queues \cup {None}
    /\ queue \in [Queues -> [items : Seq(Message), mode : {"followup", "collect"},
                             policy : {"new", "old", "summarize"}, dropped : Nat, lines : Seq(Message)]]
    /\ \A q \in Queues : Len(queue[q].items) <= Cap
    /\ drain \in [Queues -> Drains]
    /\ active \in Queues \cup {None, Turn}
    /\ arriving \in 0..N
    /\ aborted \subseteq Message
    /\ fate \in [Message -> Fates]
    /\ answers \in [Message -> 0..2]
    /\ failures \in 0..MaxFailures

Init ==
    /\ origin \in [Message -> Origins]
    /\ table = None
    /\ queue = [q \in Queues |-> Garbage]
    /\ drain = [q \in Queues |-> Idle]
    /\ active = None
    /\ arriving = 0
    /\ aborted = {}
    /\ fate = [m \in Message |-> "new"]
    /\ answers = [m \in Message |-> 0]
    /\ failures = 0

Pending(r) == r.items # <<>> \/ r.dropped > 0      \* hasPendingQueueWork
Unseen     == {m \in Message : fate[m] = "new"}
NextMessage == CHOOSE m \in Unseen : \A n \in Unseen : m <= n
Fresh      == CHOOSE q \in Queues \ {table} : drain[q] = Idle

\* scheduleFollowupDrain on queue object q: beginQueueDrain, then the loop.
Scheduled(q, d) ==
    IF q # None /\ d[q].pc = "idle" THEN [d EXCEPT ![q] = [Idle EXCEPT !.pc = "loop"]] ELSE d

-----------------------------------------------------------------------------
(* The callers: agent-runner.ts, abort.ts and the reset commands.          *)

BeginTurn ==
    /\ active = None
    /\ active' = Turn
    /\ UNCHANGED <<queues, arriving, signals, history, failures>>

\* completeThen: the operation is over, then the queue is drained.
EndTurn ==
    /\ active = Turn
    /\ active' = None
    /\ drain' = Scheduled(table, drain)
    /\ UNCHANGED <<table, queue, arriving, signals, history, failures>>

\* A handler sees an active run and will queue its message.
Arrive ==
    /\ active # None
    /\ arriving < Cardinality(Unseen)
    /\ arriving' = arriving + 1
    /\ UNCHANGED <<queues, active, signals, history, failures>>

Abort(m) ==
    /\ Route(m) = Solo
    /\ m \notin aborted
    /\ m <= N - Cardinality(Unseen) + arriving
    /\ aborted' = aborted \cup {m}
    /\ UNCHANGED <<origin, queues, active, arriving, history, failures>>

\* Faulty: Excess does not count the newcomer.
ExcessWithoutNewcomer(r) == IF Len(r.items) <= Cap THEN <<>> ELSE SubSeq(r.items, 1, Len(r.items) - Cap)

\* applyQueueDropPolicy, for a full queue that does not refuse the newcomer:
\* what it drops ...
Excess(r) == IF Len(r.items) < Cap THEN <<>> ELSE SubSeq(r.items, 1, Len(r.items) - Cap + 1)

\* ... and what it leaves.  The summary keeps the last Cap lines.
MakeRoom(r) ==
    LET out   == Excess(r)
        kept  == [r EXCEPT !.items = SubSeq(@, Len(out) + 1, Len(@))]
        lines == r.lines \o out
    IN  IF r.policy # "summarize" \/ out = <<>> THEN kept
        ELSE [kept EXCEPT !.dropped = @ + Len(out),
                          !.lines = SubSeq(lines, IF Len(lines) > Cap THEN Len(lines) - Cap + 1 ELSE 1,
                                           Len(lines))]

Refuses(r) == Len(r.items) >= Cap /\ r.policy = "new"

\* Faulty: Enqueue trusts the handler's first look at the active run.
EnqueueAndTrust(s) ==
    LET m   == NextMessage
        q   == IF table = None THEN Fresh ELSE table
        old == IF table = None THEN EmptyQueue(s)
               ELSE [queue[table] EXCEPT !.mode = s.mode, !.policy = s.policy]
    IN  /\ arriving > 0
        /\ arriving' = arriving - 1
        /\ m \notin aborted /\ ~Refuses(old)
        /\ queue' = [queue EXCEPT ![q] = [MakeRoom(old) EXCEPT !.items = Append(@, m)]]
        /\ table' = q
        /\ fate' = [fate EXCEPT ![m] = "queued"]
        /\ UNCHANGED <<drain, active, signals, answers, failures>>

\* enqueueFollowupRun with restartIfIdle = false, then the caller's second look
\* at the active run.
Enqueue(s) ==
    LET m   == NextMessage
        q   == IF table = None THEN Fresh ELSE table
        old == IF table = None THEN EmptyQueue(s)
               ELSE [queue[table] EXCEPT !.mode = s.mode, !.policy = s.policy]
        out == IF old.policy = "summarize" THEN "summarized" ELSE "dropped"
        restarted(t) == IF active = None THEN Scheduled(t, drain) ELSE drain
    IN  /\ arriving > 0
        /\ arriving' = arriving - 1
        /\ \/ /\ m \in aborted
              /\ fate' = [fate EXCEPT ![m] = "aborted"]
              /\ drain' = restarted(table)
              /\ UNCHANGED <<table, queue>>
           \/ /\ m \notin aborted
              /\ Refuses(old)
              /\ queue' = [queue EXCEPT ![q] = old]
              /\ table' = q
              /\ fate' = [fate EXCEPT ![m] = "refused"]
              /\ drain' = restarted(q)
           \/ /\ m \notin aborted
              /\ ~Refuses(old)
              /\ queue' = [queue EXCEPT ![q] = [MakeRoom(old) EXCEPT !.items = Append(@, m)]]
              /\ table' = q
              /\ fate' = [n \in Message |-> IF n = m THEN "queued"
                                            ELSE IF n \in Range(Excess(old)) THEN out ELSE fate[n]]
              /\ drain' = restarted(q)
        /\ UNCHANGED <<active, signals, answers, failures>>

\* clearFollowupQueue empties the object, which its drain may still hold.
Emptied(r) == [r EXCEPT !.items = <<>>, !.dropped = 0, !.lines = <<>>]

\* clearSessionQueues: the emptied object leaves the table; its drain, if there
\* is one, goes on with it.
Clear ==
    /\ MayClear
    /\ table # None
    /\ \E q \in Queues \ {table} : drain[q] = Idle       \* bound
    /\ fate' = [m \in Message |-> IF m \in Range(queue[table].items) THEN "cleared" ELSE fate[m]]
    /\ queue' = [queue EXCEPT ![table] =
                    IF drain[table] = Idle THEN Garbage ELSE Emptied(@)]
    /\ table' = None
    /\ UNCHANGED <<drain, active, arriving, signals, answers, failures>>

-----------------------------------------------------------------------------
(* The drain: scheduleFollowupDrain, drain.ts.                             *)

AbortedIn(r) == {i \in DOMAIN r.items : r.items[i] \in aborted}

\* Faulty: Exit removes whatever the table holds.
ExitDeletes(q, r) ==
    LET stopped == [drain EXCEPT ![q] = Idle]
    IN  /\ table' = IF Pending(r) THEN table ELSE None
        /\ drain' = IF Pending(r) THEN Scheduled(table, stopped) ELSE stopped
        /\ queue' = [queue EXCEPT ![q] = IF table' = q THEN r ELSE Garbage]

\* The way out of the loop, its finally: a queue with work left is scheduled
\* again, by key, and an empty one leaves the table unless it was replaced.
Exit(q, r) ==
    LET stopped == [drain EXCEPT ![q] = Idle]
    IN  /\ table' = IF ~Pending(r) /\ table = q THEN None ELSE table
        /\ drain' = IF Pending(r) THEN Scheduled(table, stopped) ELSE stopped
        /\ queue' = [queue EXCEPT ![q] = IF table' = q THEN r ELSE Garbage]

Leave(q) ==
    /\ drain[q].pc = "loop"
    /\ ~Pending(queue[q])
    /\ Exit(q, queue[q])
    /\ UNCHANGED <<active, arriving, signals, history, failures>>

\* dropAbortedFollowups: the item is given to runFollowup, which returns; then
\* the element at its index is removed.
DropAborted(q) ==
    /\ drain[q].pc = "loop"
    /\ AbortedIn(queue[q]) # {}
    /\ LET i == Max(AbortedIn(queue[q]))
       IN  /\ drain' = [drain EXCEPT ![q].pc = "dropping", ![q].at = i]
           /\ fate' = [fate EXCEPT ![queue[q].items[i]] = "aborted"]
    /\ UNCHANGED <<table, queue, active, arriving, signals, answers, failures>>

Dropped(q) ==
    /\ drain[q].pc = "dropping"
    /\ LET i    == drain[q].at
           rest == IF i \in DOMAIN queue[q].items THEN RemoveAt(queue[q].items, i) ELSE queue[q].items
       IN  queue' = [queue EXCEPT ![q].items = rest,
                                  ![q].dropped = IF rest = <<>> THEN 0 ELSE @,
                                  ![q].lines = IF rest = <<>> THEN <<>> ELSE @]
    /\ drain' = [drain EXCEPT ![q].pc = "loop", ![q].at = 0]
    /\ UNCHANGED <<table, active, arriving, signals, history, failures>>

\* hasCrossChannelItems, or an item with runtime-only metadata.
CrossChannel(items) ==
    LET routes == {Route(m) : m \in Range(items)}
    IN  Solo \in routes \/ Cardinality(routes) > 1

\* In mode "collect": drainCollectItemIfNeeded takes one item.
Individually(q) ==
    \/ CrossChannel(queue[q].items)
    \/ drain[q].force /\ Len(queue[q].items) <= 1

HasSummary(r) == r.policy = "summarize" /\ r.dropped > 0      \* previewQueueSummaryPrompt

\* Faulty: Groups gathers each sender's items, wherever they are.
GroupsBySender(items) ==
    LET senders == SetToSeq({Sender(m) : m \in Range(items)})
    IN  [k \in DOMAIN senders |-> SelectSeq(items, LAMBDA m : Sender(m) = senders[k])]

\* Faulty: Groups makes one batch of everything.
GroupsTogether(items) == <<items>>

\* Where the sender changes.
Starts(items) == {i \in DOMAIN items : i = 1 \/ Sender(items[i]) # Sender(items[i - 1])}

\* The batch that starts at i.
GroupFrom(items, i) ==
    SubSeq(items, i, Min({j \in Starts(items) : j > i} \cup {Len(items) + 1}) - 1)

\* splitCollectItemsByAuthorization: runs of items of one sender.
Groups(items) ==
    LET Nth(k) == CHOOSE i \in Starts(items) : Cardinality({j \in Starts(items) : j <= i}) = k
    IN  [k \in 1..Cardinality(Starts(items)) |-> GroupFrom(items, Nth(k))]

\* The loop has found work and nothing aborted; it waits for admission with job.
Choose(q, kind, batch, rest, summary, force) ==
    /\ drain[q].pc = "loop"
    /\ Pending(queue[q])
    /\ AbortedIn(queue[q]) = {}
    /\ drain' = [drain EXCEPT ![q] =
            [pc |-> "admit", force |-> force, at |-> 0,
             job |-> [kind |-> kind, batch |-> batch, rest |-> rest,
                      count |-> IF summary THEN queue[q].dropped ELSE 0,
                      lines |-> IF summary THEN queue[q].lines ELSE <<>>]]]
    /\ UNCHANGED <<table, queue, active, arriving, signals, history, failures>>

TakeItem(q) ==
    LET r == queue[q]
    IN  /\ r.items # <<>>
        /\ IF r.mode = "collect" THEN Individually(q) ELSE ~HasSummary(r)
        /\ Choose(q, "item", <<Head(r.items)>>, <<>>, FALSE,
                  drain[q].force \/ (r.mode = "collect" /\ CrossChannel(r.items)))

\* Mode "followup" with a summary: the next item is the summary's vehicle.
TakeVehicle(q) ==
    LET r == queue[q]
    IN  /\ r.items # <<>>
        /\ r.mode = "followup" /\ HasSummary(r)
        /\ Choose(q, "vehicle", <<Head(r.items)>>, <<>>, TRUE, drain[q].force)

Collect(q) ==
    LET r == queue[q]
        groups == Groups(r.items)
    IN  /\ r.items # <<>>
        /\ r.mode = "collect" /\ ~Individually(q)
        /\ Choose(q, "batch", Head(groups), Tail(groups), HasSummary(r), FALSE)

TakeSummary(q) ==
    LET r == queue[q]
    IN  /\ r.items = <<>>
        /\ r.mode = "collect" /\ HasSummary(r)
        /\ Choose(q, "summary", <<>>, <<>>, TRUE, drain[q].force)

\* Messages were dropped, but there is no summary or no item to send it with.
GiveUp(q) ==
    LET r == queue[q]
    IN  /\ drain[q].pc = "loop"
        /\ r.items = <<>> /\ r.dropped > 0
        /\ ~(r.mode = "collect" /\ HasSummary(r))
        /\ Exit(q, r)
        /\ UNCHANGED <<active, arriving, signals, history, failures>>

-----------------------------------------------------------------------------
(* A followup run: followup-runner.ts and admitReplyTurn.                  *)

Waits(q)      == drain[q].pc = "admit"
JobAborted(q) == Range(drain[q].job.batch) \cap aborted # {}

\* Faulty: Remaining takes out one item, also after a batch.
RemainingButOne(items, n) == IF items = <<>> THEN items ELSE Tail(items)

\* What is left of items when a run of n of them is over: shift, splice(0, n).
Remaining(items, n) == SubSeq(items, n + 1, Len(items))

\* The run returned: its items and the summary it carried are removed, and the
\* next batch of a collect is run, or the loop goes on.
Returned(q) ==
    LET job     == drain[q].job
        carried == job.count > 0
    IN  /\ queue' = [queue EXCEPT ![q].items = Remaining(@, Len(job.batch)),
                                  ![q].dropped = IF carried THEN 0 ELSE @,
                                  ![q].lines = IF carried THEN <<>> ELSE @]
        /\ drain' = [drain EXCEPT ![q] =
                IF job.rest = <<>> THEN [@ EXCEPT !.pc = "loop", !.job = NoJob]
                ELSE [@ EXCEPT !.pc = "admit",
                               !.job = [NoJob EXCEPT !.kind = "batch", !.batch = Head(job.rest),
                                                     !.rest = Tail(job.rest)]]]
        /\ UNCHANGED table

Admit(q) ==
    /\ Waits(q) /\ active = None /\ ~JobAborted(q)
    /\ active' = q
    /\ drain' = [drain EXCEPT ![q].pc = "run"]
    /\ UNCHANGED <<table, queue, arriving, signals, history, failures>>

\* Aborted before it was admitted: runFollowup returns without a run.
Skip(q) ==
    /\ Waits(q) /\ JobAborted(q)
    /\ fate' = [m \in Message |-> IF m \in Range(drain[q].job.batch) THEN "aborted" ELSE fate[m]]
    /\ Returned(q)
    /\ UNCHANGED <<active, arriving, signals, answers, failures>>

\* previewRestorableQueueSummaryPrompt: put the snapshot's summary back unless
\* the queue still begins with it.
Restored(r, job) ==
    IF job.count = 0 \/ (r.dropped >= job.count /\ IsPrefix(job.lines, r.lines)) THEN r
    ELSE [r EXCEPT !.dropped = IF @ >= job.count THEN @ ELSE @ + job.count,
                   !.lines = job.lines \o @]

\* The active run outlasts the wait: FollowupRunDeferredError.
Defer(q) ==
    /\ Waits(q) /\ active # None /\ ~JobAborted(q)
    /\ Exit(q, Restored(queue[q], drain[q].job))
    /\ UNCHANGED <<active, arriving, signals, history, failures>>

RunReturns(q) ==
    LET job   == drain[q].job
        heard == IF job.kind = "vehicle" THEN {} ELSE Range(job.batch)
    IN  /\ active = q
        /\ active' = None
        /\ answers' = [m \in Message |-> IF m \in heard /\ answers[m] < 2 THEN answers[m] + 1
                                         ELSE answers[m]]
        /\ Returned(q)
        /\ UNCHANGED <<arriving, signals, fate, failures>>

\* Faulty: RunThrows sends the failed items to the back.
RunThrowsToBack(q) ==
    LET n == Len(drain[q].job.batch)
        r == queue[q]
    IN  /\ active = q
        /\ failures < MaxFailures
        /\ failures' = failures + 1
        /\ active' = None
        /\ Exit(q, [r EXCEPT !.items = SubSeq(@, n + 1, Len(@)) \o SubSeq(@, 1, n)])
        /\ UNCHANGED <<arriving, signals, history>>

\* Faulty: RunThrows ends the drain and does not schedule it again.
RunThrowsAndStops(q) ==
    /\ active = q
    /\ failures < MaxFailures
    /\ failures' = failures + 1
    /\ active' = None
    /\ drain' = [drain EXCEPT ![q] = Idle]
    /\ UNCHANGED <<table, queue, arriving, signals, history>>

RunThrows(q) ==
    /\ active = q
    /\ failures < MaxFailures
    /\ failures' = failures + 1
    /\ active' = None
    /\ Exit(q, queue[q])
    /\ UNCHANGED <<arriving, signals, history>>

-----------------------------------------------------------------------------

DrainStep(q) ==
    \/ Leave(q) \/ DropAborted(q) \/ Dropped(q)
    \/ TakeItem(q) \/ TakeVehicle(q) \/ Collect(q) \/ TakeSummary(q) \/ GiveUp(q)
    \/ Skip(q)

Next ==
    \/ BeginTurn \/ EndTurn \/ Arrive \/ Clear
    \/ \E m \in Message : Abort(m)
    \/ \E s \in Settings : Enqueue(s)
    \/ \E q \in Queues : DrainStep(q) \/ Admit(q) \/ Defer(q) \/ RunReturns(q) \/ RunThrows(q)

Spec == Init /\ [][Next]_vars

\* Runs end, a handler that has seen an active run goes on, the event loop
\* resumes a drain, and a drain that waits for an idle session notices it.
Fairness ==
    /\ WF_vars(EndTurn)
    /\ WF_vars(\E s \in Settings : Enqueue(s))
    /\ \A q \in Queues : WF_vars(DrainStep(q)) /\ WF_vars(Admit(q)) /\ WF_vars(RunReturns(q))

FairSpec == Spec /\ Fairness

-----------------------------------------------------------------------------
(* Properties.                                                             *)

InJob(q, m) ==
    /\ drain[q].pc \in {"admit", "run"}
    /\ \/ m \in Range(drain[q].job.batch) /\ drain[q].job.kind # "vehicle"
       \/ \E g \in Range(drain[q].job.rest) : m \in Range(g)

\* A message the queue accepted and has neither dropped by its policy, cleared
\* nor aborted is waiting in a queue or in a run's prompt, or a run that had it
\* in its prompt has returned.  (The drain removes by position what it chose
\* before the await: the removal must hit the messages that ran, whatever was
\* enqueued, dropped or thrown meanwhile.)
NothingLost ==
    \A m \in Message :
        fate[m] = "queued" /\ answers[m] = 0 =>
            \E q \in Queues : m \in Range(queue[q].items) \/ InJob(q, m)

\* A message is in the prompt of at most one run that returns, even when runs
\* throw, the policy drops what is running, or the queue is replaced under its
\* drain.
AnsweredOnce == \A m \in Message : answers[m] <= 1

\* Messages are answered in the order they were queued: when one is answered,
\* every earlier one that is still wanted is, too.  (Batches are cut where the
\* sender changes, and a run that throws leaves its messages in front.)
InOrder ==
    [][\A m, n \in Message :
          m < n /\ answers'[n] > answers[n] /\ fate[m] = "queued" /\ m \notin aborted
              => answers'[m] > 0]_vars

\* A run's prompt never mixes messages of several senders, or of several routes:
\* it runs with the last sender's authorization and answers on one route.
BatchesAreUniform ==
    \A q \in Queues : drain[q].pc \in {"admit", "run"} =>
        \A m, n \in Range(drain[q].job.batch) :
            m # n => Sender(m) = Sender(n) /\ Route(m) = Route(n) /\ Route(m) # Solo

\* A queue object that holds messages is the one callers find under the key: a
\* drain that ends after its queue was replaced leaves the replacement alone.
PendingIsReachable == \A q \in Queues : queue[q].items # <<>> => table = q

\* The queue is not left idle with messages in it: a drain is under way, or a
\* run is active, whose end goes back to the queue.
NotStranded ==
    table # None /\ queue[table].items # <<>> =>
        active # None \/ \E q \in Queues : drain[q].pc # "idle"

\* Once no more turns take the session, every queued message is answered,
\* dropped, cleared or aborted: a deferred, aborted or failed run brings the
\* drain back to it.
EveryMessageSettles ==
    <>[](active # Turn) =>
        \A m \in Message : fate[m] = "queued" ~> (fate[m] # "queued" \/ answers[m] > 0)

=============================================================================
