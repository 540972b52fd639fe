---------------------------- MODULE DeliveryQueue ----------------------------
(***************************************************************************)
(* The write-ahead queue of outbound messages:                             *)
(* src/src/infra/outbound/delivery-queue-storage.ts,                       *)
(* delivery-queue-recovery.ts and the queue wrapper of deliver.ts.         *)
(*                                                                         *)
(* A live send writes a file for its message, sends the message, and       *)
(* removes the file.  What a crash or a failure leaves behind is sent by   *)
(* a worker: the recovery at startup or a drain when a channel reconnects. *)
(* In one process at most one of them owns a message (entriesInProgress);  *)
(* across crashes only the file is left.                                   *)
(*                                                                         *)
(* Every await is a step boundary, so a read-modify-write of a file is two *)
(* steps.  Renames and writes of one file are atomic (fs-safe writes a     *)
(* temporary file and renames it).  Time is abstract: a backoff may or may *)
(* not have passed, and the recovery budget may run out at any entry.      *)
(***************************************************************************)
EXTENDS Integers, FiniteSets

CONSTANTS
    Deliveries,        \* messages handed to deliverOutboundPayloads
    Profiles,          \* kinds of delivery that occur, a set of records
    Drains,            \* drain keys of drainPendingDeliveries
    Recovery,          \* the startup recovery, recoverPendingDeliveries
    StorageMayFail,    \* may file operations fail?
    BudgetMayExpire,   \* may the recovery run out of time?
    MaxRetries,        \* MAX_RETRIES
    MaxCrashes,        \* bound: crashes of the process
    Many,              \* bound: copies are counted up to Many
    None

\* required: queuePolicy "required"; bestEffort: payload errors do not throw;
\* reconciles: the channel can tell whether an unknown send was made.
Profile == [required : BOOLEAN, bestEffort : BOOLEAN, reconciles : BOOLEAN]

ASSUME DeliveriesAssumption ==
    /\ Profiles \subseteq Profile
    /\ Profiles # {}
    /\ Recovery \notin Drains
    /\ (Drains \cup {Recovery}) \cap Deliveries = {}
    /\ None \notin Deliveries
ASSUME FailureAssumption == {StorageMayFail, BudgetMayExpire} \subseteq BOOLEAN
ASSUME DeliveryBounds    == MaxRetries \in Nat /\ MaxCrashes \in Nat /\ Many \in Nat \ {0, 1}

VARIABLES
    profile,    \* delivery -> its kind
    file,       \* delivery -> its queue file
    claims,     \* entriesInProgress
    pc,         \* live sends and workers -> where they are
    copy,       \* live sends and workers -> the entry they read last
    at,         \* worker -> the entry it works on
    todo,       \* worker -> the rest of its snapshot
    deferCopy,  \* delivery -> what deferRemainingEntriesForBudget read of it
    marked,     \* live send -> platformSendStarted
    platform,   \* delivery -> copies the channel has accepted, before and after
                \* the mark: platform[e][FALSE], platform[e][TRUE]
    acked,      \* deliveries that were acknowledged (history)
    dropped,    \* deliveries given up: aborted, or cancelled by a hook (history)
    crashes

storage == <<profile, file, acked>>
workers == <<at, todo, deferCopy>>
history == <<platform, dropped, crashes>>
vars    == <<storage, claims, pc, copy, workers, marked, history>>

Workers == Drains \cup {Recovery}
Actors  == Deliveries \cup Workers

QueuedDelivery ==
    [status    : {"none", "pending", "delivered", "failed"},
     retries   : Nat,
     state     : {"none", "send_attempt_started", "unknown_after_send"},
     attempted : BOOLEAN]                       \* lastAttemptAt is set

Missing == [status |-> "none", retries |-> 0, state |-> "none", attempted |-> FALSE]

LivePc   == {"idle", "queued", "start", "markWrite", "send", "accepted", "fail", "failWrite",
             "unknown", "unknownWrite", "ack", "abort", "done"}
WorkerPc == {"idle", "first", "next", "reread", "prune", "reconcile", "reconciled", "send", "accepted",
             "fail", "failWrite", "ack", "move", "defer", "done"}

TypeOK ==
    /\ profile \in [Deliveries -> Profiles]
    /\ file \in [Deliveries -> QueuedDelivery]
    /\ claims \subseteq Deliveries
    /\ pc \in [Actors -> LivePc \cup WorkerPc]
    /\ copy \in [Actors -> QueuedDelivery]
    /\ at \in [Workers -> Deliveries \cup {None}]
    /\ todo \in [Workers -> SUBSET Deliveries]
    /\ deferCopy \in [Deliveries -> QueuedDelivery]
    /\ marked \in [Deliveries -> BOOLEAN]
    /\ platform \in [Deliveries -> [BOOLEAN -> 0..Many]]
    /\ acked \subseteq Deliveries
    /\ dropped \subseteq Deliveries
    /\ crashes \in 0..MaxCrashes

Init ==
    /\ profile \in [Deliveries -> Profiles]
    /\ file = [e \in Deliveries |-> Missing]
    /\ claims = {}
    /\ pc = [a \in Actors |-> "idle"]
    /\ copy = [a \in Actors |-> Missing]
    /\ at = [w \in Workers |-> None]
    /\ todo = [w \in Workers |-> {}]
    /\ deferCopy = [e \in Deliveries |-> Missing]
    /\ marked = [e \in Deliveries |-> FALSE]
    /\ platform = [e \in Deliveries |-> [b \in BOOLEAN |-> 0]]
    /\ acked = {}
    /\ dropped = {}
    /\ crashes = 0

-----------------------------------------------------------------------------
(* The files, and the steps live sends and workers share.                  *)

Pending(e) == file[e].status = "pending"
Entry(a)   == IF a \in Workers THEN at[a] ELSE a
Goto(a, l) == pc' = [pc EXCEPT ![a] = l]

\* The owner is through with its entry: releaseRecoveryEntry.
Release(a) ==
    /\ claims' = claims \ {Entry(a)}
    /\ copy' = [copy EXCEPT ![a] = Missing]
    /\ IF a \in Workers
       THEN Goto(a, "next") /\ at' = [at EXCEPT ![a] = None]
       ELSE Goto(a, "done") /\ UNCHANGED at

\* Faulty: the retry count counts down.
FailedForgetful(q) == [q EXCEPT !.retries = @ - 1, !.attempted = TRUE]

\* failDelivery on an entry as it was read.
Failed(q) == [q EXCEPT !.retries = @ + 1, !.attempted = TRUE]

\* failDelivery: read the file, then write it; a failure is logged or
\* returned, and the owner goes on.
FailRead(a) ==
    /\ pc[a] = "fail"
    /\ Pending(Entry(a))
    /\ copy' = [copy EXCEPT ![a] = file[Entry(a)]]
    /\ Goto(a, "failWrite")
    /\ UNCHANGED <<storage, claims, workers, marked, history>>

FailWrite(a) ==
    /\ pc[a] = "failWrite"
    /\ file' = [file EXCEPT ![Entry(a)] = Failed(copy[a])]
    /\ Release(a)
    /\ UNCHANGED <<profile, acked, todo, deferCopy, marked, history>>

\* Faulty: the error skips the finally block.
FailFailsClaimed(a) ==
    /\ \/ pc[a] = "fail" /\ (~Pending(Entry(a)) \/ StorageMayFail)
       \/ pc[a] = "failWrite" /\ StorageMayFail
    /\ copy' = [copy EXCEPT ![a] = Missing]
    /\ at' = [w \in Workers |-> IF w = a THEN None ELSE at[w]]
    /\ Goto(a, IF a \in Workers THEN "next" ELSE "done")
    /\ UNCHANGED <<storage, claims, todo, deferCopy, marked, history>>

FailFails(a) ==
    /\ \/ pc[a] = "fail" /\ (~Pending(Entry(a)) \/ StorageMayFail)
       \/ pc[a] = "failWrite" /\ StorageMayFail
    /\ Release(a)
    /\ UNCHANGED <<storage, todo, deferCopy, marked, history>>

\* ackDelivery renames the file away, so it needs one.
Acknowledge(e) ==
    /\ Pending(e)
    /\ file' = [file EXCEPT ![e].status = "delivered"]
    /\ acked' = acked \cup {e}

Accepted(e) ==
    [platform EXCEPT ![e][marked[e]] = IF @ < Many THEN @ + 1 ELSE @]
Sent(e) == \E b \in BOOLEAN : platform[e][b] > 0

\* The channel accepts the message; the process may not live to see it.
SendAccepted(a) ==
    /\ pc[a] = "send"
    /\ platform' = Accepted(Entry(a))
    /\ Goto(a, "accepted")
    /\ UNCHANGED <<storage, claims, copy, workers, marked, dropped, crashes>>

\* A hook cancels the message, or nothing is left to send: the core returns
\* without asking the channel.
Suppress(a) ==
    /\ pc[a] = IF a \in Workers THEN "send" ELSE "start"
    /\ dropped' = dropped \cup {Entry(a)}
    /\ Goto(a, "ack")
    /\ UNCHANGED <<storage, claims, copy, workers, marked, platform, crashes>>

-----------------------------------------------------------------------------
(* The live send, deliverOutboundPayloadsInternal.                         *)

\* enqueueDelivery
Enqueue(e) ==
    /\ pc[e] = "idle"
    /\ file' = [file EXCEPT ![e] = [Missing EXCEPT !.status = "pending"]]
    /\ Goto(e, "queued")
    /\ UNCHANGED <<profile, acked, claims, copy, workers, marked, history>>

\* The file cannot be written: a required delivery throws, another one is
\* sent without the queue.
EnqueueFails(e) ==
    /\ StorageMayFail
    /\ pc[e] = "idle"
    /\ Goto(e, "done")
    /\ \/ UNCHANGED platform
       \/ ~profile[e].required /\ platform' = Accepted(e)
    /\ UNCHANGED <<storage, claims, copy, workers, marked, dropped, crashes>>

\* withActiveDeliveryClaim: a worker that saw the file first keeps it.
LiveClaim(e) ==
    /\ pc[e] = "queued"
    /\ IF e \in claims
       THEN Goto(e, "done") /\ UNCHANGED claims
       ELSE Goto(e, "start") /\ claims' = claims \cup {e}
    /\ UNCHANGED <<storage, copy, workers, marked, history>>

\* markDeliveryPlatformSendAttemptStarted, before the first unit is sent.
MarkRead(e) ==
    /\ pc[e] = "start"
    /\ Pending(e)
    /\ copy' = [copy EXCEPT ![e] = file[e]]
    /\ Goto(e, "markWrite")
    /\ UNCHANGED <<storage, claims, workers, marked, history>>

MarkWrite(e) ==
    /\ pc[e] = "markWrite"
    /\ file' = [file EXCEPT ![e] = [copy[e] EXCEPT !.state = "send_attempt_started"]]
    /\ marked' = [marked EXCEPT ![e] = TRUE]
    /\ Goto(e, "send")
    /\ UNCHANGED <<profile, acked, claims, copy, workers, history>>

\* A required delivery is not sent without the mark; another one is.  The
\* file is gone if a worker sent the message before LiveClaim.
MarkFails(e) ==
    /\ \/ pc[e] = "start" /\ (~Pending(e) \/ StorageMayFail)
       \/ pc[e] = "markWrite" /\ StorageMayFail
    /\ Goto(e, IF profile[e].required THEN "fail" ELSE "send")
    /\ UNCHANGED <<storage, claims, copy, workers, marked, history>>

\* Faulty: every error is taken for an abort.
LiveSendFailsAcked(e) ==
    /\ pc[e] \in {"start", "send", "accepted"}
    /\ Goto(e, "abort")
    /\ UNCHANGED <<storage, claims, copy, workers, marked, history>>

\* The core throws before the channel is asked, the channel refuses, or its
\* answer is lost; with bestEffort the error is only noted (hadPartialFailure).
LiveSendFails(e) ==
    /\ pc[e] \in {"start", "send", "accepted"}
    /\ Goto(e, "fail")
    /\ UNCHANGED <<storage, claims, copy, workers, marked, history>>

\* throwIfAborted: the entry is acknowledged, not retried.
Abort(e) ==
    /\ pc[e] \in {"start", "send", "accepted"}
    /\ ~profile[e].bestEffort
    /\ dropped' = dropped \cup {e}
    /\ Goto(e, "abort")
    /\ UNCHANGED <<storage, claims, copy, workers, marked, platform, crashes>>

LiveSendReturns(e) ==
    /\ pc[e] = "accepted"
    /\ Goto(e, IF marked[e] THEN "unknown" ELSE "ack")
    /\ UNCHANGED <<storage, claims, copy, workers, marked, history>>

\* markDeliveryPlatformOutcomeUnknown
UnknownRead(e) ==
    /\ pc[e] = "unknown"
    /\ Pending(e)
    /\ copy' = [copy EXCEPT ![e] = file[e]]
    /\ Goto(e, "unknownWrite")
    /\ UNCHANGED <<storage, claims, workers, marked, history>>

UnknownWrite(e) ==
    /\ pc[e] = "unknownWrite"
    /\ file' = [file EXCEPT ![e] = [copy[e] EXCEPT !.state = "unknown_after_send"]]
    /\ Goto(e, "ack")
    /\ UNCHANGED <<profile, acked, claims, copy, workers, marked, history>>

\* A required delivery throws, and its file stays as it is.
UnknownFails(e) ==
    /\ \/ pc[e] = "unknown" /\ (~Pending(e) \/ StorageMayFail)
       \/ pc[e] = "unknownWrite" /\ StorageMayFail
    /\ IF profile[e].required
       THEN Release(e)
       ELSE Goto(e, "ack") /\ UNCHANGED <<claims, copy, at>>
    /\ UNCHANGED <<storage, todo, deferCopy, marked, history>>

LiveAck(e) ==
    /\ pc[e] \in {"ack", "abort"}
    /\ Acknowledge(e)
    /\ Release(e)
    /\ UNCHANGED <<profile, todo, deferCopy, marked, history>>

LiveAckFails(e) ==
    /\ pc[e] \in {"ack", "abort"}
    /\ ~Pending(e) \/ StorageMayFail
    /\ Release(e)
    /\ UNCHANGED <<storage, todo, deferCopy, marked, history>>

-----------------------------------------------------------------------------
(* The workers, recoverPendingDeliveries and drainPendingDeliveries.       *)

\* loadPendingDeliveries.  The recovery runs once in the life of a process;
\* drainInProgress keeps a second drain with the same key out.
Load(w) ==
    /\ pc[w] = "idle"
    /\ \E e \in Deliveries : Pending(e)
    /\ todo' = [todo EXCEPT ![w] = {e \in Deliveries : Pending(e)}]
    /\ Goto(w, "first")
    /\ UNCHANGED <<storage, claims, copy, at, deferCopy, marked, history>>

\* Faulty: the loop does not ask who owns the entry.
TakeAlways(w) ==
    /\ pc[w] \in {"first", "next"}
    /\ \E e \in todo[w] :
         /\ todo' = [todo EXCEPT ![w] = @ \ {e}]
         /\ claims' = claims \cup {e}
         /\ at' = [at EXCEPT ![w] = e]
         /\ Goto(w, "reread")
    /\ UNCHANGED <<storage, copy, deferCopy, marked, history>>

\* The next entry of the snapshot, skipped if someone owns it.  The order is
\* that of enqueuedAt, which is any order as far as this module is concerned.
Take(w) ==
    /\ pc[w] \in {"first", "next"}
    /\ \E e \in todo[w] :
         /\ todo' = [todo EXCEPT ![w] = @ \ {e}]
         /\ IF e \in claims
            THEN Goto(w, "next") /\ UNCHANGED <<claims, at>>
            ELSE /\ claims' = claims \cup {e}
                 /\ at' = [at EXCEPT ![w] = e]
                 /\ Goto(w, "reread")
    /\ UNCHANGED <<storage, copy, deferCopy, marked, history>>

\* The loop ends.
Finish(w) ==
    /\ pc[w] = "next"
    /\ todo[w] = {}
    /\ Goto(w, IF w = Recovery THEN "done" ELSE "idle")
    /\ UNCHANGED <<storage, claims, copy, workers, marked, history>>

\* Faulty: the loop goes on with what its snapshot said.
ProceedWithSnapshot(w) ==
    LET e == at[w]
    IN  /\ pc[w] = "reread"
        /\ copy' = [copy EXCEPT ![w] = file[e]]
        /\ Goto(w, IF file[e].retries >= MaxRetries THEN "prune"
                   ELSE IF file[e].state # "none" THEN "reconcile"
                   ELSE "send")
        /\ UNCHANGED <<storage, claims, workers, marked, history>>

\* loadPendingDelivery after the claim, and what follows from the entry.
Proceed(w) ==
    LET e == at[w]
    IN  /\ pc[w] = "reread"
        /\ Pending(e)
        /\ copy' = [copy EXCEPT ![w] = file[e]]
        /\ Goto(w, IF file[e].retries >= MaxRetries THEN "prune"
                   ELSE IF file[e].state # "none" THEN "reconcile"
                   ELSE "send")
        /\ UNCHANGED <<storage, claims, workers, marked, history>>

\* The entry is gone, selectEntry no longer matches, or its backoff runs; the
\* first replay after a crash has no backoff.
Skip(w) ==
    LET e == at[w]
    IN  /\ pc[w] = "reread"
        /\ \/ ~Pending(e)
           \/ w \in Drains
           \/ file[e].retries < MaxRetries /\ (file[e].attempted \/ file[e].retries > 0)
        /\ Release(w)
        /\ UNCHANGED <<storage, todo, deferCopy, marked, history>>

\* loadPendingDelivery, or moveToFailed of a drain that prunes, throws: the
\* loop ends.
LoopThrows(w) ==
    /\ StorageMayFail
    /\ pc[w] = "reread" \/ (pc[w] = "prune" /\ w \in Drains)
    /\ claims' = claims \ {at[w]}
    /\ copy' = [copy EXCEPT ![w] = Missing]
    /\ at' = [at EXCEPT ![w] = None]
    /\ todo' = [todo EXCEPT ![w] = {}]
    /\ Goto(w, IF w = Recovery THEN "done" ELSE "idle")
    /\ UNCHANGED <<storage, deferCopy, marked, history>>

\* Faulty: what the channel cannot tell counts as not sent.
ReconcileBlindly(w) ==
    /\ pc[w] = "reconcile"
    /\ \E answer \in IF profile[at[w]].reconciles
                     THEN {IF Sent(at[w]) THEN "sent" ELSE "not_sent", "retry"}
                     ELSE {"not_sent"} :
         Goto(w, CASE answer = "sent"     -> "reconciled"
                   [] answer = "not_sent" -> "send"
                   [] answer = "retry"    -> "fail")
    /\ UNCHANGED <<storage, claims, copy, workers, marked, history>>

\* What reconcileUnknownQueuedDelivery may answer: a channel that can tell is
\* right, or it has no answer ("retry" if that may change or it threw); for the
\* others there is no blind replay.
Answers(e) ==
    IF profile[e].reconciles
    THEN {IF Sent(e) THEN "sent" ELSE "not_sent", "retry", "refuse"}
    ELSE {"refuse"}

Reconcile(w) ==
    /\ pc[w] = "reconcile"
    /\ \E answer \in Answers(at[w]) :
         Goto(w, CASE answer = "sent"     -> "reconciled"
                   [] answer = "not_sent" -> "send"
                   [] answer = "retry"    -> "fail"
                   [] answer = "refuse"   -> "move")
    /\ UNCHANGED <<storage, claims, copy, workers, marked, history>>

\* deliver() throws: a permanent error gives the entry up, another one
\* counts as a retry.  With bestEffort a payload's error does not throw: it is
\* noted in the wrapper, which has no queue entry to fail, and deliver()
\* returns.
WorkerSendFails(w) ==
    /\ pc[w] \in {"send", "accepted"}
    /\ \E next \in {"fail", "move"} \cup IF profile[at[w]].bestEffort THEN {"ack"} ELSE {} : Goto(w, next)
    /\ UNCHANGED <<storage, claims, copy, workers, marked, history>>

WorkerSendReturns(w) ==
    /\ pc[w] = "accepted"
    /\ Goto(w, "ack")
    /\ UNCHANGED <<storage, claims, copy, workers, marked, history>>

WorkerAck(w) ==
    /\ pc[w] \in {"ack", "reconciled"}
    /\ Acknowledge(at[w])
    /\ Release(w)
    /\ UNCHANGED <<profile, todo, deferCopy, marked, history>>

\* The ack is in the same try block as the send: if it fails, the delivery
\* counts as failed, unless the reconciled entry is just gone.
WorkerAckFails(w) ==
    /\ pc[w] \in {"ack", "reconciled"}
    /\ ~Pending(at[w]) \/ StorageMayFail
    /\ Goto(w, "fail")
    /\ UNCHANGED <<storage, claims, copy, workers, marked, history>>

\* moveToFailed
Move(w) ==
    /\ pc[w] \in {"move", "prune"}
    /\ Pending(at[w])
    /\ file' = [file EXCEPT ![at[w]].status = "failed"]
    /\ Release(w)
    /\ UNCHANGED <<profile, acked, todo, deferCopy, marked, history>>

\* The file is gone, or the error is logged (see also LoopThrows).
MoveFails(w) ==
    /\ pc[w] \in {"move", "prune"}
    /\ ~Pending(at[w]) \/ (StorageMayFail /\ ~(pc[w] = "prune" /\ w \in Drains))
    /\ Release(w)
    /\ UNCHANGED <<storage, todo, deferCopy, marked, history>>

\* The recovery's deadline, after the first entry: deferRemainingEntriesForBudget calls
\* failDelivery on the rest of the snapshot, all at once and unclaimed.
Deadline ==
    /\ BudgetMayExpire
    /\ pc[Recovery] = "next"
    /\ todo[Recovery] # {}
    /\ Goto(Recovery, "defer")
    /\ UNCHANGED <<storage, claims, copy, workers, marked, history>>

DeferRead(e) ==
    /\ pc[Recovery] = "defer"
    /\ e \in todo[Recovery]
    /\ todo' = [todo EXCEPT ![Recovery] = @ \ {e}]
    /\ deferCopy' = [deferCopy EXCEPT ![e] = IF Pending(e) THEN file[e] ELSE Missing]
    /\ UNCHANGED <<storage, claims, pc, copy, at, marked, history>>

DeferWrite(e) ==
    /\ deferCopy[e] # Missing
    /\ file' = [file EXCEPT ![e] = Failed(deferCopy[e])]
    /\ deferCopy' = [deferCopy EXCEPT ![e] = Missing]
    /\ UNCHANGED <<profile, acked, claims, pc, copy, at, todo, marked, history>>

DeferEnd ==
    /\ pc[Recovery] = "defer"
    /\ todo[Recovery] = {}
    /\ \A e \in Deliveries : deferCopy[e] = Missing
    /\ Goto(Recovery, "done")
    /\ UNCHANGED <<storage, claims, copy, workers, marked, history>>

-----------------------------------------------------------------------------
\* The process dies and starts again; the files are all that is left.
Crash ==
    /\ crashes < MaxCrashes
    /\ crashes' = crashes + 1
    /\ claims' = {}
    /\ pc' = [a \in Actors |-> IF a \in Deliveries /\ pc[a] # "idle" THEN "done" ELSE "idle"]
    /\ copy' = [a \in Actors |-> Missing]
    /\ at' = [w \in Workers |-> None]
    /\ todo' = [w \in Workers |-> {}]
    /\ deferCopy' = [e \in Deliveries |-> Missing]
    /\ UNCHANGED <<storage, marked, platform, dropped>>

Live(e) ==
    \/ LiveClaim(e) \/ MarkRead(e) \/ MarkWrite(e) \/ MarkFails(e)
    \/ LiveSendFails(e) \/ Abort(e) \/ LiveSendReturns(e)
    \/ UnknownRead(e) \/ UnknownWrite(e) \/ UnknownFails(e)
    \/ LiveAck(e) \/ LiveAckFails(e)

Work(w) ==
    \/ Take(w) \/ Finish(w) \/ Proceed(w) \/ Skip(w) \/ Reconcile(w)
    \/ WorkerSendFails(w) \/ WorkerSendReturns(w) \/ WorkerAck(w) \/ WorkerAckFails(w)
    \/ Move(w) \/ MoveFails(w) \/ LoopThrows(w)

Shared(a) == FailRead(a) \/ FailWrite(a) \/ FailFails(a) \/ SendAccepted(a) \/ Suppress(a)

Defer == Deadline \/ DeferEnd \/ (\E e \in Deliveries : DeferRead(e) \/ DeferWrite(e))

Next ==
    \/ \E e \in Deliveries : Enqueue(e) \/ EnqueueFails(e) \/ Live(e)
    \/ \E w \in Workers : Load(w) \/ Work(w)
    \/ \E a \in Actors : Shared(a)
    \/ Defer
    \/ Crash

Spec == Init /\ [][Next]_vars

\* Promises settle: a channel answers in the end and file operations finish.
\* Nothing obliges a send to be made, a worker to start or a process to crash.
Fairness ==
    /\ \A e \in Deliveries : WF_vars(Live(e) \/ Shared(e))
    /\ \A w \in Workers : WF_vars(Work(w) \/ Shared(w))

FairSpec == Spec /\ Fairness

-----------------------------------------------------------------------------
(* Properties.                                                             *)

Owns(a, e) ==
    /\ Entry(a) = e
    /\ pc[a] \notin {"idle", "queued", "first", "next", "defer", "done"}

\* An entry has at most one owner in the process, and while it has one it is
\* claimed: entriesInProgress keeps live sends, drains and the recovery from
\* working on the same message (delivery-queue-recovery.ts:98-123).
SingleOwner ==
    \A e \in Deliveries :
        /\ \A a, b \in Actors : Owns(a, e) /\ Owns(b, e) => a = b
        /\ e \in claims <=> \E a \in Actors : Owns(a, e)

\* No worker is about to send a message that has been acknowledged, however
\* old its snapshot: the entry is read again under the claim
\* (delivery-queue-recovery.ts:514-521).
AckedNotReplayed ==
    \A w \in Workers : pc[w] = "send" => at[w] \notin acked

\* Once its file says that a send was attempted, a message is accepted by the
\* channel at most once, through failures, lost answers, retries and crashes:
\* the outcome is reconciled or the entry given up, never replayed blindly
\* (deliver.ts:1332-1341, delivery-queue-recovery.ts:371-442).
MarkedSentOnce == \A e \in Deliveries : platform[e][TRUE] <= 1

\* A message leaves the queue as delivered only if the channel has accepted
\* it or its sender dropped it (deliver.ts:1351-1380, 1384-1394).
AckedWasDelivered == \A e \in acked : Sent(e) \/ e \in dropped

\* A claim is given back on every path, so a later drain can take what is
\* left (delivery-queue-recovery.ts:118-122, 576-578, 671-673).
ClaimsReleased ==
    \A e \in Deliveries : e \in claims ~> e \notin claims

=============================================================================
