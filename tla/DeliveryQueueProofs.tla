------------------------- MODULE DeliveryQueueProofs -------------------------
(***************************************************************************)
(* Proofs about DeliveryQueue.  Seats is who works on what: with it an     *)
(* entry has one owner.  Data is the types of the rest.  Safe, which needs *)
(* a recovery that does not run out of time, adds that only an owner       *)
(* writes a file, and what the files, the marks and the channel know of    *)
(* each other.  Backed is why an acknowledgement can be believed.          *)
(***************************************************************************)
EXTENDS DeliveryQueue, TLAPS

\* Where an actor has no entry.
Free == {"idle", "queued", "first", "next", "defer", "done"}

Places ==
    /\ \A e \in Deliveries : pc[e] \in LivePc
    /\ \A w \in Workers : pc[w] \in WorkerPc /\ (at[w] = None <=> pc[w] \in Free)

Seats ==
    /\ pc \in [Actors -> LivePc \cup WorkerPc]
    /\ claims \subseteq Deliveries
    /\ at \in [Workers -> Deliveries \cup {None}]
    /\ Places
    /\ SingleOwner

Data ==
    /\ profile \in [Deliveries -> Profiles]
    /\ file \in [Deliveries -> QueuedDelivery]
    /\ copy \in [Actors -> QueuedDelivery]
    /\ todo \in [Workers -> SUBSET Deliveries]
    /\ deferCopy \in [Deliveries -> QueuedDelivery]
    /\ marked \in [Deliveries -> BOOLEAN]
    /\ platform \in [Deliveries -> [BOOLEAN -> 0..Many]]
    /\ acked \subseteq Deliveries
    /\ dropped \subseteq Deliveries
    /\ crashes \in 0..MaxCrashes

-----------------------------------------------------------------------------
\* Deliveries and workers are different things, and None is neither.
LEMMA Apart ==
    /\ \A e \in Deliveries : e \in Actors /\ e \notin Workers /\ e # None /\ Entry(e) = e
    /\ \A w \in Workers : w \in Actors /\ w \notin Deliveries /\ Entry(w) = at[w]
    /\ \A a \in Actors : a \in Deliveries \/ a \in Workers
    /\ Recovery \in Workers
  BY DeliveriesAssumption DEF Workers, Actors, Entry

\* An actor that is not free owns an entry, and nobody else does.
LEMMA Owner ==
    ASSUME Seats, NEW a \in Actors, pc[a] \notin Free
    PROVE  /\ Entry(a) \in Deliveries
           /\ Entry(a) \in claims
           /\ Owns(a, Entry(a))
           /\ \A b \in Actors : b # a /\ pc[b] \notin Free => Entry(b) # Entry(a)
<1>1. Entry(a) \in Deliveries
  BY Apart DEF Seats, Places
<1>2. Owns(a, Entry(a))
  BY DEF Owns, Free
<1>3. ASSUME NEW b \in Actors, b # a, pc[b] \notin Free, Entry(b) = Entry(a)
      PROVE  FALSE
  <2>1. Owns(b, Entry(a))
    BY <1>3 DEF Owns, Free
  <2>2. QED
    BY <1>1, <1>2, <1>3, <2>1 DEF Seats, SingleOwner
<1>4. QED
  BY <1>1, <1>2, <1>3 DEF Seats, SingleOwner

\* An actor moves and keeps its entry, or goes on without one.
LEMMA Stays ==
    ASSUME Seats, NEW a \in Actors, NEW l, Goto(a, l),
           IF a \in Workers THEN l \in WorkerPc ELSE l \in LivePc,
           l \in Free <=> pc[a] \in Free,
           UNCHANGED <<claims, at>>
    PROVE  Seats'
<1>1. pc' = [pc EXCEPT ![a] = l] /\ pc \in [Actors -> LivePc \cup WorkerPc]
  BY DEF Goto, Seats
<1>2. pc' \in [Actors -> LivePc \cup WorkerPc]
  BY <1>1
<1>3. Places'
  BY <1>1, Apart DEF Seats, Places
<1>4. \A b \in Actors : Entry(b)' = Entry(b) /\ (pc'[b] \in Free <=> pc[b] \in Free)
  BY <1>1, Apart DEF Entry
<1>5. \A b \in Actors, e \in Deliveries : Owns(b, e)' <=> Owns(b, e)
  BY <1>4 DEF Owns, Free
<1>6. SingleOwner'
  BY <1>5 DEF Seats, SingleOwner
<1>7. QED
  BY <1>2, <1>3, <1>6 DEF Seats

\* An owner gives up its entry, to continue at l.
LEMMA GivesUp ==
    ASSUME Seats, NEW a \in Actors, pc[a] \notin Free,
           NEW l \in Free, IF a \in Workers THEN l \in WorkerPc ELSE l \in LivePc,
           Goto(a, l),
           claims' = claims \ {Entry(a)},
           \A w \in Workers : at'[w] = IF w = a THEN None ELSE at[w],
           at' \in [Workers -> Deliveries \cup {None}]
    PROVE  Seats'
<1>1. pc' = [pc EXCEPT ![a] = l] /\ pc \in [Actors -> LivePc \cup WorkerPc]
  BY DEF Goto, Seats
<1>2. pc' \in [Actors -> LivePc \cup WorkerPc] /\ claims' \subseteq Deliveries
  BY <1>1 DEF Seats
<1>3. Places'
  BY <1>1, Apart DEF Seats, Places
<1>4. \A b \in Actors : b # a => Entry(b)' = Entry(b) /\ pc'[b] = pc[b]
  BY <1>1, Apart DEF Entry
<1>5. \A e \in Deliveries : ~Owns(a, e)'
  BY <1>1 DEF Owns, Free
<1>6. \A b \in Actors, e \in Deliveries : b # a => (Owns(b, e)' <=> Owns(b, e))
  BY <1>4 DEF Owns
<1>7. \A e \in Deliveries : Owns(a, e) <=> e = Entry(a)
  BY DEF Owns, Free
<1>8. \A e \in Deliveries : \A b, c \in Actors : Owns(b, e)' /\ Owns(c, e)' => b = c
  BY <1>5, <1>6 DEF Seats, SingleOwner
<1>9. \A e \in Deliveries : e \in claims' <=> \E b \in Actors : Owns(b, e)'
  <2> SUFFICES ASSUME NEW e \in Deliveries
               PROVE  e \in claims' <=> \E b \in Actors : Owns(b, e)'
    OBVIOUS
  <2>1. CASE e = Entry(a)
    <3>1. \A b \in Actors : b # a => ~Owns(b, e)
      BY <2>1, <1>7 DEF Seats, SingleOwner
    <3>2. QED
      BY <2>1, <3>1, <1>5, <1>6
  <2>2. CASE e # Entry(a)
    BY <2>2, <1>5, <1>6, <1>7 DEF Seats, SingleOwner
  <2>3. QED
    BY <2>1, <2>2
<1>10. SingleOwner'
  BY <1>8, <1>9 DEF SingleOwner
<1>11. QED
  BY <1>2, <1>3, <1>10 DEF Seats

LEMMA ReleaseGivesUp ==
    ASSUME Seats, NEW a \in Actors, pc[a] \notin Free, Release(a)
    PROVE  Seats'
<1>1. CASE a \in Workers
  BY <1>1, GivesUp DEF Release, Seats, Free, WorkerPc
<1>2. CASE a \notin Workers
  BY <1>2, GivesUp DEF Release, Seats, Free, LivePc
<1>3. QED
  BY <1>1, <1>2

\* A free actor takes an entry that nobody claims.
LEMMA TakesUp ==
    ASSUME Seats, NEW a \in Actors, pc[a] \in Free,
           NEW e \in Deliveries, e \notin claims, claims' = claims \cup {e},
           NEW l, l \notin Free, IF a \in Workers THEN l \in WorkerPc ELSE l \in LivePc,
           Goto(a, l),
           IF a \in Workers THEN at' = [at EXCEPT ![a] = e] ELSE UNCHANGED at /\ e = a
    PROVE  Seats'
<1>1. pc' = [pc EXCEPT ![a] = l] /\ pc \in [Actors -> LivePc \cup WorkerPc]
  BY DEF Goto, Seats
<1>2. /\ pc' \in [Actors -> LivePc \cup WorkerPc] /\ claims' \subseteq Deliveries
      /\ at' \in [Workers -> Deliveries \cup {None}]
  BY <1>1 DEF Seats
<1>3. Places'
  BY <1>1, Apart DEF Seats, Places
<1>4. \A b \in Actors : b # a => Entry(b)' = Entry(b) /\ pc'[b] = pc[b]
  BY <1>1, Apart DEF Entry, Seats
<1>5. Entry(a)' = e
  BY Apart DEF Entry, Seats
<1>6. \A d \in Deliveries : (Owns(a, d)' <=> d = e) /\ ~Owns(a, d)
  BY <1>1, <1>5 DEF Owns, Free
<1>7. \A b \in Actors, d \in Deliveries : b # a => (Owns(b, d)' <=> Owns(b, d))
  BY <1>4 DEF Owns
<1>8. \A b \in Actors : ~Owns(b, e)
  BY DEF Seats, SingleOwner
<1>9. \A d \in Deliveries : \A b, c \in Actors : Owns(b, d)' /\ Owns(c, d)' => b = c
  BY <1>6, <1>7, <1>8 DEF Seats, SingleOwner
<1>10. \A d \in Deliveries : d \in claims' <=> \E b \in Actors : Owns(b, d)'
  BY <1>6, <1>7, <1>8 DEF Seats, SingleOwner
<1>11. SingleOwner'
  BY <1>9, <1>10 DEF SingleOwner
<1>12. QED
  BY <1>2, <1>3, <1>11 DEF Seats


\* A live send.
LEMMA LiveSeats ==
    ASSUME Seats, NEW e \in Deliveries, Enqueue(e) \/ EnqueueFails(e) \/ Live(e)
    PROVE  Seats'
<1> DEFINE Moves(l) == Goto(e, l) /\ (l \in Free <=> pc[e] \in Free) /\ UNCHANGED <<claims, at>>
<1>1. /\ e \in Actors /\ e \notin Workers
  BY Apart
<1>2. ASSUME NEW l \in LivePc, Moves(l) PROVE Seats'
  BY <1>1, <1>2, Stays
<1>3. CASE Enqueue(e)
  BY <1>2, <1>3 DEF Enqueue, workers, Free, LivePc
<1>4. CASE EnqueueFails(e)
  BY <1>2, <1>4 DEF EnqueueFails, workers, Free, LivePc
<1>5. CASE LiveClaim(e)
  <2>1. CASE e \in claims
    BY <1>2, <1>5, <2>1 DEF LiveClaim, workers, Free, LivePc
  <2>2. CASE e \notin claims
    BY <1>1, <1>5, <2>2, TakesUp DEF LiveClaim, workers, Free, LivePc
  <2>3. QED
    BY <2>1, <2>2
<1>6. CASE MarkRead(e) \/ MarkWrite(e)
  BY <1>2, <1>6 DEF MarkRead, MarkWrite, workers, Free, LivePc
<1>7. CASE MarkFails(e)
  BY <1>2, <1>7 DEF MarkFails, workers, Free, LivePc
<1>8. CASE LiveSendFails(e) \/ Abort(e)
  BY <1>2, <1>8 DEF LiveSendFails, Abort, workers, Free, LivePc
<1>9. CASE LiveSendReturns(e)
  BY <1>2, <1>9 DEF LiveSendReturns, workers, Free, LivePc
<1>10. CASE UnknownRead(e) \/ UnknownWrite(e)
  BY <1>2, <1>10 DEF UnknownRead, UnknownWrite, workers, Free, LivePc
<1>11. CASE UnknownFails(e)
  <2>1. pc[e] \notin Free
    BY <1>11 DEF UnknownFails, Free
  <2>2. CASE Release(e)
    BY <1>1, <2>1, <2>2, ReleaseGivesUp
  <2>3. CASE Goto(e, "ack") /\ UNCHANGED <<claims, copy, at>>
    BY <1>2, <2>1, <2>3 DEF Free, LivePc
  <2>4. QED
    BY <1>11, <2>2, <2>3 DEF UnknownFails
<1>12. CASE LiveAck(e) \/ LiveAckFails(e)
  <2>1. pc[e] \notin Free /\ Release(e)
    BY <1>12 DEF LiveAck, LiveAckFails, Free
  <2>2. QED
    BY <1>1, <2>1, ReleaseGivesUp
<1>13. QED
  BY <1>3, <1>4, <1>5, <1>6, <1>7, <1>8, <1>9, <1>10, <1>11, <1>12 DEF Live

\* A worker.
LEMMA WorkSeats ==
    ASSUME Seats, todo \in [Workers -> SUBSET Deliveries], NEW w \in Workers, Load(w) \/ Work(w)
    PROVE  Seats'
<1> DEFINE Moves(l) == Goto(w, l) /\ (l \in Free <=> pc[w] \in Free) /\ UNCHANGED <<claims, at>>
<1>1. /\ w \in Actors /\ Entry(w) = at[w]
  BY Apart
<1>2. ASSUME NEW l \in WorkerPc, Moves(l) PROVE Seats'
  BY <1>1, <1>2, Stays
<1>3. CASE pc[w] \notin Free /\ Release(w)
  BY <1>1, <1>3, ReleaseGivesUp
<1>4. CASE Load(w)
  BY <1>2, <1>4 DEF Load, Free, WorkerPc
<1>5. CASE Take(w)
  <2>1. PICK e \in todo[w] :
          IF e \in claims
          THEN Goto(w, "next") /\ UNCHANGED <<claims, at>>
          ELSE /\ claims' = claims \cup {e}
               /\ at' = [at EXCEPT ![w] = e]
               /\ Goto(w, "reread")
    BY <1>5 DEF Take
  <2>2. pc[w] \in {"first", "next"}
    BY <1>5 DEF Take
  <2>3. CASE e \in claims
    BY <1>2, <2>1, <2>2, <2>3 DEF Free, WorkerPc
  <2>4. CASE e \notin claims
    <3>1. e \in Deliveries
      OBVIOUS
    <3>2. QED
      BY <1>1, <2>1, <2>2, <2>4, <3>1, TakesUp DEF Free, WorkerPc
  <2>5. QED
    BY <2>3, <2>4
<1>6. CASE Finish(w)
  BY <1>2, <1>6 DEF Finish, workers, Free, WorkerPc
<1>7. CASE Proceed(w)
  BY <1>2, <1>7 DEF Proceed, workers, Free, WorkerPc
<1>8. CASE Skip(w) \/ Move(w) \/ MoveFails(w) \/ WorkerAck(w)
  BY <1>3, <1>8 DEF Skip, Move, MoveFails, WorkerAck, Free
<1>9. CASE Reconcile(w)
  <2>1. \E l \in {"reconciled", "send", "fail", "move"} : Goto(w, l)
    BY <1>9 DEF Reconcile, Answers
  <2>2. QED
    BY <1>2, <1>9, <2>1 DEF Reconcile, workers, Free, WorkerPc
<1>10. CASE WorkerSendFails(w)
  <2>1. \E l \in {"fail", "move", "ack"} : Goto(w, l)
    BY <1>10 DEF WorkerSendFails
  <2>2. QED
    BY <1>2, <1>10, <2>1 DEF WorkerSendFails, workers, Free, WorkerPc
<1>11. CASE WorkerSendReturns(w) \/ WorkerAckFails(w)
  BY <1>2, <1>11 DEF WorkerSendReturns, WorkerAckFails, workers, Free, WorkerPc
<1>12. CASE LoopThrows(w)
  <2>1. /\ pc[w] \in {"reread", "prune"}
        /\ claims' = claims \ {at[w]}
        /\ at' = [at EXCEPT ![w] = None]
        /\ Goto(w, IF w = Recovery THEN "done" ELSE "idle")
    BY <1>12 DEF LoopThrows
  <2>2. QED
    BY <1>1, <2>1, GivesUp DEF Seats, Free, WorkerPc
<1>13. QED
  BY <1>4, <1>5, <1>6, <1>7, <1>8, <1>9, <1>10, <1>11, <1>12 DEF Work

\* The rest, and every step.
LEMMA SeatsNext ==
    ASSUME Seats, todo \in [Workers -> SUBSET Deliveries], [Next]_vars
    PROVE  Seats'
<1>1. ASSUME NEW a \in Actors, Shared(a) PROVE Seats'
  <2>1. CASE FailRead(a)
    BY <2>1, Stays DEF FailRead, workers, Free, LivePc, WorkerPc
  <2>2. CASE FailWrite(a) \/ FailFails(a)
    <3>1. pc[a] \notin Free /\ Release(a)
      BY <2>2 DEF FailWrite, FailFails, Free
    <3>2. QED
      BY <3>1, ReleaseGivesUp
  <2>3. CASE SendAccepted(a)
    BY <2>3, Stays DEF SendAccepted, workers, Free, LivePc, WorkerPc
  <2>4. CASE Suppress(a)
    BY <2>4, Stays DEF Suppress, workers, Free, LivePc, WorkerPc
  <2>5. QED
    BY <1>1, <2>1, <2>2, <2>3, <2>4 DEF Shared
<1>2. CASE UNCHANGED <<claims, pc, at>>
  BY <1>2 DEF Seats, Places, SingleOwner, Owns, Entry
<1>3. CASE Defer
  <2>1. CASE Deadline \/ DeferEnd
    BY <2>1, Apart, Stays DEF Deadline, DeferEnd, workers, Free, WorkerPc
  <2>2. CASE \E e \in Deliveries : DeferRead(e) \/ DeferWrite(e)
    BY <1>2, <2>2 DEF DeferRead, DeferWrite
  <2>3. QED
    BY <1>3, <2>1, <2>2 DEF Defer
<1>4. CASE Crash
  <2>1. /\ claims' = {}
        /\ pc' = [a \in Actors |-> IF a \in Deliveries /\ pc[a] # "idle" THEN "done" ELSE "idle"]
        /\ at' = [w \in Workers |-> None]
    BY <1>4 DEF Crash
  <2>2. Places' /\ at' \in [Workers -> Deliveries \cup {None}]
        /\ pc' \in [Actors -> LivePc \cup WorkerPc]
    BY <2>1, Apart DEF Places, Free, LivePc, WorkerPc
  <2>3. \A a \in Actors, e \in Deliveries : ~Owns(a, e)'
    BY <2>1 DEF Owns
  <2>4. QED
    BY <2>1, <2>2, <2>3 DEF Seats, SingleOwner
<1>5. CASE UNCHANGED vars
  BY <1>2, <1>5 DEF vars, workers
<1>6. CASE Next
  BY <1>1, <1>3, <1>4, <1>6, LiveSeats, WorkSeats DEF Next
<1>7. QED
  BY <1>5, <1>6

-----------------------------------------------------------------------------
\* The records the queue writes.
LEMMA Records ==
    /\ Missing \in QueuedDelivery
    /\ [Missing EXCEPT !.status = "pending"] \in QueuedDelivery
    /\ \A q \in QueuedDelivery :
          /\ Failed(q) \in QueuedDelivery
          /\ \A x \in {"none", "pending", "delivered", "failed"} :
                [q EXCEPT !.status = x] \in QueuedDelivery
          /\ \A x \in {"none", "send_attempt_started", "unknown_after_send"} :
                [q EXCEPT !.state = x] \in QueuedDelivery
<1>1. Missing \in QueuedDelivery /\ [Missing EXCEPT !.status = "pending"] \in QueuedDelivery
  BY DEF Missing, QueuedDelivery
<1>2. ASSUME NEW q \in QueuedDelivery PROVE Failed(q) \in QueuedDelivery
  <2>1. q.retries + 1 \in Nat
    BY DEF QueuedDelivery
  <2>2. QED
    BY <2>1 DEF QueuedDelivery, Failed
<1>3. ASSUME NEW q \in QueuedDelivery, NEW x \in {"none", "pending", "delivered", "failed"}
      PROVE  [q EXCEPT !.status = x] \in QueuedDelivery
  BY DEF QueuedDelivery
<1>4. ASSUME NEW q \in QueuedDelivery, NEW x \in {"none", "send_attempt_started", "unknown_after_send"}
      PROVE  [q EXCEPT !.state = x] \in QueuedDelivery
  BY DEF QueuedDelivery
<1>5. QED
  BY <1>1, <1>2, <1>3, <1>4

\* The channel counts up, whether the message is marked or not.
LEMMA Counting ==
    ASSUME platform \in [Deliveries -> [BOOLEAN -> 0..Many]],
           marked \in [Deliveries -> BOOLEAN],
           NEW e \in Deliveries, platform' = Accepted(e)
    PROVE  /\ platform' \in [Deliveries -> [BOOLEAN -> 0..Many]]
           /\ Sent(e)'
           /\ \A d \in Deliveries : Sent(d) => Sent(d)'
           /\ \A d \in Deliveries : d # e \/ ~marked[e] => platform'[d][TRUE] = platform[d][TRUE]
           /\ platform[e][TRUE] = 0 => platform'[e][TRUE] <= 1
<1>1. Many \in Nat /\ Many > 1
  BY DeliveryBounds
<1> DEFINE m == marked[e]
           n == IF platform[e][m] < Many THEN platform[e][m] + 1 ELSE platform[e][m]
<1>2. m \in BOOLEAN /\ platform[e] \in [BOOLEAN -> 0..Many] /\ platform[e][m] \in 0..Many
  OBVIOUS
<1>3. n \in 0..Many /\ n > 0 /\ (platform[e][m] = 0 => n = 1)
  BY <1>1, <1>2
<1>4. platform' = [platform EXCEPT ![e] = [platform[e] EXCEPT ![m] = n]]
  BY DEF Accepted
<1> HIDE DEF m, n
<1>5. platform'[e] = [platform[e] EXCEPT ![m] = n]
  BY <1>4
<1>6. \A d \in Deliveries \ {e} : platform'[d] = platform[d]
  BY <1>4
<1>7. platform'[e] \in [BOOLEAN -> 0..Many] /\ platform'[e][m] = n
  BY <1>2, <1>3, <1>5
<1>8. platform' \in [Deliveries -> [BOOLEAN -> 0..Many]]
  BY <1>4, <1>7, <1>6
<1>9. Sent(e)'
  BY <1>2, <1>3, <1>7 DEF Sent
<1>10. \A d \in Deliveries : Sent(d) => Sent(d)'
  BY <1>6, <1>9 DEF Sent
<1>11. \A b \in BOOLEAN : b # m => platform'[e][b] = platform[e][b]
  BY <1>2, <1>5
<1>12. ~marked[e] => platform'[e][TRUE] = platform[e][TRUE]
  <2>1. TRUE \in BOOLEAN /\ (~marked[e] => TRUE # m)
    BY DEF m
  <2>2. QED
    BY <1>11, <2>1
<1>13. platform[e][TRUE] = 0 => platform'[e][TRUE] <= 1
  <2>1. CASE m = TRUE
    <3>1. platform'[e][TRUE] = n /\ platform[e][TRUE] = platform[e][m]
      BY <1>7, <2>1
    <3>2. QED
      BY <1>3, <3>1
  <2>2. CASE m = FALSE
    <3>1. TRUE \in BOOLEAN /\ TRUE # m
      BY <2>2
    <3>2. platform'[e][TRUE] = platform[e][TRUE]
      BY <1>11, <3>1
    <3>3. QED
      BY <3>2
  <2>3. QED
    BY <1>2, <2>1, <2>2
<1>14. QED
  BY <1>6, <1>8, <1>9, <1>10, <1>12, <1>13

LEMMA NoneSent ==
    ASSUME platform \in [Deliveries -> [BOOLEAN -> 0..Many]],
           NEW e \in Deliveries, ~Sent(e)
    PROVE  platform[e][TRUE] = 0
<1>1. \A b \in BOOLEAN : platform[e][b] \in 0..Many /\ ~(platform[e][b] > 0)
  BY DEF Sent
<1>2. \A b \in BOOLEAN : platform[e][b] = 0
  BY <1>1, DeliveryBounds
<1>3. QED
  BY <1>2

-----------------------------------------------------------------------------
\* Types, one group of steps after another.
LEMMA LiveData ==
    ASSUME Seats, Data, NEW e \in Deliveries, Enqueue(e) \/ EnqueueFails(e) \/ Live(e)
    PROVE  Data'
<1>1. e \in Actors /\ Entry(e) = e
  BY Apart
<1>2. \A q \in QueuedDelivery :
         /\ [file EXCEPT ![e] = q] \in [Deliveries -> QueuedDelivery]
         /\ [copy EXCEPT ![e] = q] \in [Actors -> QueuedDelivery]
  BY <1>1 DEF Data
<1>3. file[e] \in QueuedDelivery /\ copy[e] \in QueuedDelivery
  BY <1>1 DEF Data
<1>4. ASSUME copy' \in [Actors -> QueuedDelivery],
             dropped' \subseteq Deliveries,
             UNCHANGED <<storage, todo, deferCopy, marked, platform, crashes>>
      PROVE  Data'
  BY <1>4 DEF Data, storage
<1>5. CASE Enqueue(e)
  BY <1>2, <1>5, Records DEF Enqueue, Data, workers, history
<1>6. CASE EnqueueFails(e)
  <2>1. platform' \in [Deliveries -> [BOOLEAN -> 0..Many]]
    BY <1>6, Counting DEF EnqueueFails, Data
  <2>2. QED
    BY <1>6, <2>1 DEF EnqueueFails, Data, storage, workers
<1>7. CASE LiveClaim(e) \/ MarkFails(e) \/ LiveSendFails(e) \/ Abort(e) \/ LiveSendReturns(e)
  BY <1>4, <1>7 DEF LiveClaim, MarkFails, LiveSendFails, Abort, LiveSendReturns, Data, workers, history
<1>8. CASE MarkRead(e) \/ UnknownRead(e)
  BY <1>2, <1>3, <1>4, <1>8 DEF MarkRead, UnknownRead, Data, workers, history
<1>9. CASE MarkWrite(e)
  BY <1>2, <1>3, <1>9, Records DEF MarkWrite, Data, workers, history
<1>10. CASE UnknownWrite(e)
  BY <1>2, <1>3, <1>10, Records DEF UnknownWrite, Data, workers, history
<1>11. CASE UnknownFails(e) \/ LiveAckFails(e)
  BY <1>2, <1>4, <1>11, Records DEF UnknownFails, LiveAckFails, Release, Data, history
<1>12. CASE LiveAck(e)
  BY <1>2, <1>3, <1>12, Records DEF LiveAck, Acknowledge, Release, Data, history
<1>13. QED
  BY <1>5, <1>6, <1>7, <1>8, <1>9, <1>10, <1>11, <1>12 DEF Live

LEMMA WorkData ==
    ASSUME Seats, Data, NEW w \in Workers, Load(w) \/ Work(w)
    PROVE  Data'
<1>1. w \in Actors /\ Entry(w) = at[w]
  BY Apart
<1>2. /\ \A q \in QueuedDelivery : [copy EXCEPT ![w] = q] \in [Actors -> QueuedDelivery]
      /\ \A D \in SUBSET Deliveries : [todo EXCEPT ![w] = D] \in [Workers -> SUBSET Deliveries]
  BY <1>1 DEF Data
<1>3. ASSUME copy' \in [Actors -> QueuedDelivery], todo' \in [Workers -> SUBSET Deliveries],
             UNCHANGED <<storage, deferCopy, marked, history>>
      PROVE  Data'
  BY <1>3 DEF Data, storage, history
<1>4. pc[w] \notin Free => at[w] \in Deliveries
  BY <1>1, Owner
<1>5. CASE Load(w) \/ Take(w)
  <2>1. \E D \in SUBSET Deliveries : todo' = [todo EXCEPT ![w] = D]
    <3>1. CASE Load(w)
      BY <3>1 DEF Load
    <3>2. CASE Take(w)
      <4>1. PICK e \in todo[w] : todo' = [todo EXCEPT ![w] = @ \ {e}]
        BY <3>2 DEF Take
      <4>2. todo[w] \ {e} \in SUBSET Deliveries
        BY DEF Data
      <4>3. QED
        BY <4>1, <4>2
    <3>3. QED
      BY <1>5, <3>1, <3>2
  <2>2. UNCHANGED <<storage, copy, deferCopy, marked, history>>
    BY <1>5 DEF Load, Take
  <2>3. QED
    BY <1>2, <1>3, <2>1, <2>2 DEF Data
<1>6. CASE Finish(w) \/ Reconcile(w) \/ WorkerSendFails(w) \/ WorkerSendReturns(w) \/ WorkerAckFails(w)
  BY <1>3, <1>6 DEF Finish, Reconcile, WorkerSendFails, WorkerSendReturns, WorkerAckFails, Data, workers
<1>7. CASE Proceed(w)
  <2>1. file[at[w]] \in QueuedDelivery
    BY <1>4, <1>7 DEF Proceed, Free, Data
  <2>2. QED
    BY <1>2, <1>3, <1>7, <2>1 DEF Proceed, Data, workers
<1>8. CASE Skip(w) \/ MoveFails(w)
  BY <1>2, <1>3, <1>8, Records DEF Skip, MoveFails, Release, Data
<1>9. CASE LoopThrows(w)
  BY <1>2, <1>3, <1>9, Records DEF LoopThrows, Data
<1>10. CASE WorkerAck(w) \/ Move(w)
  <2>1. at[w] \in Deliveries /\ file[at[w]] \in QueuedDelivery
    BY <1>4, <1>10 DEF WorkerAck, Move, Free, Data
  <2>2. file' \in [Deliveries -> QueuedDelivery] /\ acked' \subseteq Deliveries
    <3>1. \E x \in {"delivered", "failed"} : file' = [file EXCEPT ![at[w]] = [@ EXCEPT !.status = x]]
      BY <1>10 DEF WorkerAck, Move, Acknowledge
    <3>2. \E q \in QueuedDelivery : file' = [file EXCEPT ![at[w]] = q]
      BY <2>1, <3>1, Records
    <3>3. file' \in [Deliveries -> QueuedDelivery]
      BY <3>2 DEF Data
    <3>4. acked' \subseteq Deliveries
      BY <1>10, <2>1 DEF WorkerAck, Move, Acknowledge, Data
    <3>5. QED
      BY <3>3, <3>4
  <2>3. copy' \in [Actors -> QueuedDelivery]
    BY <1>2, <1>10, Records DEF WorkerAck, Move, Release
  <2>4. QED
    BY <1>10, <2>2, <2>3 DEF WorkerAck, Move, Data, history
<1>11. QED
  BY <1>5, <1>6, <1>7, <1>8, <1>9, <1>10 DEF Work

LEMMA DataNext ==
    ASSUME Seats, Data, [Next]_vars
    PROVE  Data'
<1>1. ASSUME NEW a \in Actors, Shared(a) PROVE Data'
  <2>1. pc[a] \notin Free => Entry(a) \in Deliveries /\ file[Entry(a)] \in QueuedDelivery
    BY Owner DEF Data
  <2>2. \A q \in QueuedDelivery : [copy EXCEPT ![a] = q] \in [Actors -> QueuedDelivery]
    BY DEF Data
  <2>3. CASE FailRead(a) \/ FailFails(a)
    BY <2>1, <2>2, <2>3, Records
       DEF FailRead, FailFails, Release, Free, Data, storage, workers, history
  <2>4. CASE FailWrite(a)
    <3>1. file' \in [Deliveries -> QueuedDelivery]
      BY <2>1, <2>4, Records DEF FailWrite, Free, Data
    <3>2. QED
      BY <2>2, <2>4, <3>1, Records DEF FailWrite, Release, Data, history
  <2>5. CASE SendAccepted(a)
    <3>1. platform' \in [Deliveries -> [BOOLEAN -> 0..Many]]
      BY <2>1, <2>5, Counting DEF SendAccepted, Free, Data
    <3>2. QED
      BY <2>5, <3>1 DEF SendAccepted, Data, storage, workers
  <2>6. CASE Suppress(a)
    <3>1. pc[a] \notin Free
      BY <2>6 DEF Suppress, Free
    <3>2. QED
      BY <2>1, <2>6, <3>1 DEF Suppress, Data, storage, workers
  <2>7. QED
    BY <1>1, <2>3, <2>4, <2>5, <2>6 DEF Shared
<1>2. CASE Deadline \/ DeferEnd \/ UNCHANGED vars
  BY <1>2 DEF Deadline, DeferEnd, Data, storage, workers, history, vars
<1>3. ASSUME NEW e \in Deliveries, DeferRead(e) \/ DeferWrite(e) PROVE Data'
  <2>1. file[e] \in QueuedDelivery /\ deferCopy[e] \in QueuedDelivery
    BY DEF Data
  <2>2. CASE DeferRead(e)
    BY <2>1, <2>2, Records, Apart DEF DeferRead, Data, storage, history
  <2>3. CASE DeferWrite(e)
    BY <2>1, <2>3, Records DEF DeferWrite, Data, history
  <2>4. QED
    BY <1>3, <2>2, <2>3
<1>4. CASE Crash
  <2>1. crashes' \in 0..MaxCrashes
    BY <1>4, DeliveryBounds DEF Crash, Data
  <2>2. /\ copy' \in [Actors -> QueuedDelivery]
        /\ todo' \in [Workers -> SUBSET Deliveries]
        /\ deferCopy' \in [Deliveries -> QueuedDelivery]
    BY <1>4, Records DEF Crash
  <2>3. UNCHANGED <<storage, marked, platform, dropped>>
    BY <1>4 DEF Crash
  <2>4. QED
    BY <2>1, <2>2, <2>3 DEF Data, storage
<1>5. ASSUME NEW e \in Deliveries, Enqueue(e) \/ EnqueueFails(e) \/ Live(e) PROVE Data'
  BY <1>5, LiveData
<1>6. ASSUME NEW w \in Workers, Load(w) \/ Work(w) PROVE Data'
  BY <1>6, WorkData
<1>7. CASE Next
  BY <1>1, <1>2, <1>3, <1>4, <1>5, <1>6, <1>7 DEF Next, Defer
<1>8. QED
  BY <1>2, <1>7

LEMMA SeatsInit ==
    ASSUME Init
    PROVE  Seats /\ Data
<1>1. Data
  <2>1. 0 \in 0..Many /\ crashes \in 0..MaxCrashes
    BY DeliveryBounds DEF Init
  <2>2. platform \in [Deliveries -> [BOOLEAN -> 0..Many]]
    BY <2>1 DEF Init
  <2>3. /\ file \in [Deliveries -> QueuedDelivery]
        /\ copy \in [Actors -> QueuedDelivery]
        /\ deferCopy \in [Deliveries -> QueuedDelivery]
    BY Records DEF Init
  <2>4. /\ todo \in [Workers -> SUBSET Deliveries]
        /\ marked \in [Deliveries -> BOOLEAN]
        /\ acked \subseteq Deliveries /\ dropped \subseteq Deliveries
        /\ profile \in [Deliveries -> Profiles]
    BY DEF Init
  <2>5. QED
    BY <2>1, <2>2, <2>3, <2>4 DEF Data
<1>2. \A a \in Actors, e \in Deliveries : ~Owns(a, e)
  BY DEF Init, Owns
<1>3. Seats
  BY <1>2, Apart DEF Init, Seats, Places, SingleOwner, Free, LivePc, WorkerPc
<1>4. QED
  BY <1>1, <1>3

LEMMA SeatsAlways == Spec => [](Seats /\ Data)
<1>1. Init => Seats /\ Data
  BY SeatsInit
<1>2. Seats /\ Data /\ [Next]_vars => (Seats /\ Data)'
  BY SeatsNext, DataNext DEF Data
<1>3. QED
  BY <1>1, <1>2, PTL DEF Spec

-----------------------------------------------------------------------------
\* Files, claims and workers hold what the code puts there, whatever fails
\* (delivery-queue-storage.ts:48-86, delivery-queue-recovery.ts:80-123).
THEOREM TypeCorrect == Spec => []TypeOK
<1>1. Seats /\ Data => TypeOK
  BY DEF Seats, Data, TypeOK
<1>2. QED
  BY <1>1, SeatsAlways, PTL

\* At most one live send, drain or recovery works on a message, and a message
\* is claimed just as long as one does, for any number of them and with
\* failures and crashes anywhere (delivery-queue-recovery.ts:98-123).
THEOREM OneOwner == Spec => []SingleOwner
<1>1. Seats => SingleOwner
  BY DEF Seats
<1>2. QED
  BY <1>1, SeatsAlways, PTL

-----------------------------------------------------------------------------
\* A step of one actor leaves the others where they are.
Alone(a) ==
    \A b \in Actors \ {a} : pc'[b] = pc[b] /\ copy'[b] = copy[b] /\ Entry(b)' = Entry(b)

LEMMA LiveAlone ==
    ASSUME Seats, Data, NEW e \in Deliveries, Enqueue(e) \/ EnqueueFails(e) \/ Live(e)
    PROVE  Alone(e) /\ at' = at /\ \E l \in LivePc \ {"idle"} : Goto(e, l)
<1>1. e \in Actors /\ e \notin Workers
  BY Apart
<1>2. ASSUME NEW l, Goto(e, l), at' = at, UNCHANGED copy \/ \E q : copy' = [copy EXCEPT ![e] = q]
      PROVE  Alone(e)
  BY <1>1, <1>2 DEF Alone, Goto, Seats, Data, Entry
<1>3. /\ \E l \in LivePc \ {"idle"} : Goto(e, l)
      /\ at' = at
      /\ UNCHANGED copy \/ \E q : copy' = [copy EXCEPT ![e] = q]
  <2>1. CASE Enqueue(e) \/ EnqueueFails(e) \/ LiveClaim(e) \/ MarkFails(e)
    BY <2>1 DEF Enqueue, EnqueueFails, LiveClaim, MarkFails, workers, LivePc
  <2>2. CASE LiveSendFails(e) \/ Abort(e) \/ LiveSendReturns(e)
    BY <2>2 DEF LiveSendFails, Abort, LiveSendReturns, workers, LivePc
  <2>3. CASE MarkRead(e) \/ UnknownRead(e) \/ MarkWrite(e) \/ UnknownWrite(e)
    BY <2>3 DEF MarkRead, UnknownRead, MarkWrite, UnknownWrite, workers, LivePc
  <2>4. CASE UnknownFails(e) \/ LiveAck(e) \/ LiveAckFails(e)
    BY <1>1, <2>4 DEF UnknownFails, LiveAck, LiveAckFails, Release, workers, LivePc
  <2>5. QED
    BY <2>1, <2>2, <2>3, <2>4 DEF Live
<1>4. QED
  BY <1>2, <1>3

LEMMA WorkAlone ==
    ASSUME Seats, Data, NEW w \in Workers, Load(w) \/ Work(w)
    PROVE  Alone(w)
<1>1. w \in Actors
  BY Apart
<1>2. ASSUME NEW l, Goto(w, l),
             UNCHANGED at \/ \E e : at' = [at EXCEPT ![w] = e],
             UNCHANGED copy \/ \E q : copy' = [copy EXCEPT ![w] = q]
      PROVE  Alone(w)
  <2>1. \A v \in Workers \ {w} : at'[v] = at[v]
    BY <1>2 DEF Seats
  <2>2. \A b \in Actors \ {w} : pc'[b] = pc[b] /\ copy'[b] = copy[b]
    BY <1>1, <1>2 DEF Goto, Seats, Data
  <2>3. QED
    BY <2>1, <2>2 DEF Alone, Entry
<1>3. CASE Load(w)
  BY <1>2, <1>3 DEF Load
<1>4. CASE Take(w)
  BY <1>2, <1>4 DEF Take
<1>5. CASE Finish(w) \/ Proceed(w) \/ WorkerSendReturns(w) \/ WorkerAckFails(w)
  BY <1>2, <1>5 DEF Finish, Proceed, WorkerSendReturns, WorkerAckFails, workers
<1>6. CASE Reconcile(w) \/ WorkerSendFails(w)
  BY <1>2, <1>6 DEF Reconcile, WorkerSendFails, workers
<1>7. CASE Skip(w) \/ Move(w) \/ MoveFails(w) \/ WorkerAck(w)
  <2>1. Release(w)
    BY <1>7 DEF Skip, Move, MoveFails, WorkerAck
  <2>2. QED
    BY <1>2, <2>1 DEF Release
<1>8. CASE LoopThrows(w)
  BY <1>2, <1>8 DEF LoopThrows
<1>9. QED
  BY <1>3, <1>4, <1>5, <1>6, <1>7, <1>8 DEF Work

LEMMA SharedAlone ==
    ASSUME Seats, Data, NEW a \in Actors, Shared(a)
    PROVE  Alone(a)
<1>1. ASSUME NEW l, Goto(a, l),
             UNCHANGED at \/ (a \in Workers /\ \E e : at' = [at EXCEPT ![a] = e]),
             UNCHANGED copy \/ \E q : copy' = [copy EXCEPT ![a] = q]
      PROVE  Alone(a)
  <2>1. \A v \in Workers \ {a} : at'[v] = at[v]
    BY <1>1 DEF Seats
  <2>2. \A b \in Actors \ {a} : pc'[b] = pc[b] /\ copy'[b] = copy[b]
    BY <1>1 DEF Goto, Seats, Data
  <2>3. QED
    BY <2>1, <2>2 DEF Alone, Entry
<1>2. CASE FailRead(a) \/ SendAccepted(a) \/ Suppress(a)
  BY <1>1, <1>2 DEF FailRead, SendAccepted, Suppress, workers
<1>3. CASE FailWrite(a) \/ FailFails(a)
  BY <1>1, <1>3 DEF FailWrite, FailFails, Release
<1>4. QED
  BY <1>2, <1>3 DEF Shared

-----------------------------------------------------------------------------
\* Why an acknowledgement can be believed: whoever is past the send has an
\* answer of the channel, or gave the message up.
Vouched(a) ==
    /\ pc[a] = "accepted" => Sent(Entry(a))
    /\ pc[a] \in {"unknown", "unknownWrite", "ack", "reconciled", "abort"} =>
          Sent(Entry(a)) \/ Entry(a) \in dropped

Backed == (\A a \in Actors : Vouched(a)) /\ AckedWasDelivered

LEMMA BackedStep ==
    ASSUME Seats, Data, Backed, NEW a \in Actors, Alone(a), Vouched(a)',
           \A d \in Deliveries : Sent(d) => Sent(d)',
           dropped \subseteq dropped',
           NEW e, acked' = acked \/ (acked' = acked \cup {e} /\ (Sent(e)' \/ e \in dropped'))
    PROVE  Backed'
<1>1. ASSUME NEW b \in Actors, b # a PROVE Vouched(b)'
  <2>1. pc'[b] = pc[b] /\ Entry(b)' = Entry(b)
    BY <1>1 DEF Alone
  <2>2. pc[b] \notin Free => Entry(b) \in Deliveries
    BY Owner
  <2>3. Vouched(b)
    BY DEF Backed
  <2>4. QED
    BY <2>1, <2>2, <2>3 DEF Vouched, Free
<1>2. AckedWasDelivered'
  <2>1. \A d \in acked : Sent(d)' \/ d \in dropped'
    BY DEF Backed, AckedWasDelivered, Data
  <2>2. QED
    BY <2>1 DEF AckedWasDelivered
<1>3. QED
  BY <1>1, <1>2 DEF Backed

\* A replay returns only what the channel accepted, or what was dropped, as
\* long as no error of a payload is swallowed.
NothingSwallowed == \A p \in Profiles : ~p.bestEffort

LEMMA LiveBacked ==
    ASSUME NothingSwallowed, Seats, Data, Backed,
           NEW e \in Deliveries, Enqueue(e) \/ EnqueueFails(e) \/ Live(e)
    PROVE  Backed'
<1>1. e \in Actors /\ e \notin Workers /\ Entry(e) = e /\ Alone(e)
  BY Apart, LiveAlone
<1>2. Vouched(e) /\ (Entry(e))' = e
  BY <1>1 DEF Backed, Entry
<1>3. pc \in [Actors -> LivePc \cup WorkerPc]
  BY DEF Seats
<1>4. ASSUME Vouched(e)', dropped \subseteq dropped',
             \/ UNCHANGED platform
             \/ platform' = Accepted(e),
             acked' = acked \/ (acked' = acked \cup {e} /\ (Sent(e)' \/ e \in dropped'))
      PROVE  Backed'
  <2>1. \A d \in Deliveries : Sent(d) => Sent(d)'
    BY <1>4, Counting DEF Data, Sent
  <2>2. QED
    BY <1>1, <1>4, <2>1, BackedStep
<1>5. CASE Enqueue(e) \/ EnqueueFails(e) \/ LiveClaim(e) \/ MarkFails(e) \/ LiveSendFails(e)
  <2>1. Vouched(e)'
    BY <1>1, <1>2, <1>3, <1>5
       DEF Vouched, Goto, Enqueue, EnqueueFails, LiveClaim, MarkFails, LiveSendFails
  <2>2. QED
    BY <1>4, <1>5, <2>1
       DEF Enqueue, EnqueueFails, LiveClaim, MarkFails, LiveSendFails, storage, history
<1>6. CASE MarkRead(e) \/ MarkWrite(e) \/ Abort(e)
  <2>1. Vouched(e)'
    BY <1>1, <1>2, <1>3, <1>6 DEF Vouched, Goto, MarkRead, MarkWrite, Abort
  <2>2. QED
    BY <1>4, <1>6, <2>1 DEF MarkRead, MarkWrite, Abort, storage, history
<1>7. CASE LiveSendReturns(e) \/ UnknownRead(e) \/ UnknownWrite(e) \/ UnknownFails(e)
  <2>1. /\ Sent(e) \/ e \in dropped
        /\ UNCHANGED history
        /\ pc'[e] # "accepted"
        /\ acked' = acked
    BY <1>1, <1>2, <1>3, <1>7
       DEF Vouched, Goto, Release, storage, LiveSendReturns, UnknownRead, UnknownWrite, UnknownFails
  <2>2. Sent(e)' \/ e \in dropped'
    BY <2>1 DEF Sent, history
  <2>3. QED
    BY <1>2, <1>4, <2>1, <2>2 DEF Vouched, history
<1>8. CASE LiveAck(e) \/ LiveAckFails(e)
  <2>1. /\ Sent(e) \/ e \in dropped
        /\ UNCHANGED history
        /\ pc'[e] = "done"
        /\ acked' = acked \/ acked' = acked \cup {e}
    BY <1>1, <1>2, <1>3, <1>8
       DEF Vouched, Goto, Release, Acknowledge, storage, LiveAck, LiveAckFails
  <2>2. Sent(e)' \/ e \in dropped'
    BY <2>1 DEF Sent, history
  <2>3. QED
    BY <1>4, <2>1, <2>2 DEF Vouched, history
<1>9. QED
  BY <1>5, <1>6, <1>7, <1>8 DEF Live

LEMMA WorkBacked ==
    ASSUME NothingSwallowed, Seats, Data, Backed, NEW w \in Workers, Load(w) \/ Work(w)
    PROVE  Backed'
<1>1. w \in Actors /\ Entry(w) = at[w] /\ Alone(w)
  BY Apart, WorkAlone
<1>2. Vouched(w) /\ (Entry(w))' = at'[w]
  BY <1>1 DEF Backed, Entry
<1>3. pc \in [Actors -> LivePc \cup WorkerPc]
  BY DEF Seats
<1>4. UNCHANGED history
  BY DEF Load, Work, Take, Finish, Proceed, Skip, Reconcile, WorkerSendFails, WorkerSendReturns,
         WorkerAck, WorkerAckFails, Move, MoveFails, LoopThrows
<1>5. ASSUME Vouched(w)', acked' = acked \/ (acked' = acked \cup {at[w]} /\ (Sent(at[w]) \/ at[w] \in dropped))
      PROVE  Backed'
  <2>1. \A d : (Sent(d) <=> Sent(d)') /\ dropped' = dropped
    BY <1>4 DEF Sent, history
  <2>2. QED
    BY <1>1, <1>5, <2>1, BackedStep
<1>6. CASE Reconcile(w) /\ pc'[w] = "reconciled"
  <2>1. "sent" \in Answers(at[w]) /\ UNCHANGED <<at, acked>>
    BY <1>1, <1>3, <1>6 DEF Reconcile, Goto, Answers, workers, storage
  <2>2. Sent(at[w])
    BY <2>1 DEF Answers
  <2>3. Sent(at[w])'
    BY <1>4, <2>1, <2>2 DEF Sent, history
  <2>4. QED
    BY <1>2, <1>5, <1>6, <2>1, <2>3 DEF Vouched
<1>7. CASE WorkerSendReturns(w)
  <2>1. Sent(at[w]) /\ pc'[w] = "ack" /\ UNCHANGED <<at, acked>>
    BY <1>1, <1>2, <1>3, <1>7 DEF WorkerSendReturns, Vouched, Goto, workers, storage
  <2>2. Sent(at[w])'
    BY <1>4, <2>1 DEF Sent, history
  <2>3. QED
    BY <1>2, <1>5, <2>1, <2>2 DEF Vouched
<1>8. CASE WorkerAck(w)
  <2>1. /\ Sent(at[w]) \/ at[w] \in dropped
        /\ pc'[w] = "next" /\ acked' = acked \cup {at[w]}
    BY <1>1, <1>2, <1>3, <1>8 DEF WorkerAck, Acknowledge, Release, Vouched, Goto
  <2>2. QED
    BY <1>5, <2>1 DEF Vouched
<1>9. CASE WorkerSendFails(w)
  <2>1. pc[w] \notin Free
    BY <1>9 DEF WorkerSendFails, Free
  <2>2. at[w] \in Deliveries
    BY <1>1, <2>1, Owner
  <2>3. ~profile[at[w]].bestEffort
    BY <2>2 DEF Data, NothingSwallowed
  <2>4. pc'[w] \in {"fail", "move"} /\ acked' = acked
    BY <1>1, <1>3, <1>9, <2>3 DEF WorkerSendFails, Goto, storage
  <2>5. QED
    BY <1>5, <2>4 DEF Vouched
<1>10. CASE Load(w) \/ Take(w) \/ Finish(w) \/ Proceed(w) \/ Skip(w)
  <2>1. pc'[w] \in {"first", "next", "reread", "idle", "done", "prune", "reconcile", "send"} /\ acked' = acked
    BY <1>1, <1>3, <1>10 DEF Load, Take, Finish, Proceed, Skip, Release, Goto, storage
  <2>2. QED
    BY <1>5, <2>1 DEF Vouched
<1>11. CASE WorkerAckFails(w) \/ Move(w) \/ MoveFails(w) \/ LoopThrows(w)
  <2>1. pc'[w] \in {"fail", "next", "idle", "done"} /\ acked' = acked
    BY <1>1, <1>3, <1>11 DEF WorkerAckFails, Move, MoveFails, LoopThrows, Release, Goto, storage
  <2>2. QED
    BY <1>5, <2>1 DEF Vouched
<1>12. CASE Reconcile(w) /\ pc'[w] # "reconciled"
  <2>1. pc'[w] \in {"send", "fail", "move"} /\ acked' = acked
    BY <1>1, <1>3, <1>12 DEF Reconcile, Answers, Goto, storage
  <2>2. QED
    BY <1>5, <2>1 DEF Vouched
<1>13. QED
  BY <1>6, <1>7, <1>8, <1>9, <1>10, <1>11, <1>12 DEF Work

LEMMA SharedBacked ==
    ASSUME Seats, Data, Backed, NEW a \in Actors, Shared(a)
    PROVE  Backed'
<1>1. Alone(a) /\ acked' = acked
  BY SharedAlone DEF Shared, FailRead, FailWrite, FailFails, SendAccepted, Suppress, storage
<1>2. pc \in [Actors -> LivePc \cup WorkerPc]
  BY DEF Seats
<1>3. pc[a] \notin Free
  BY DEF Shared, FailRead, FailWrite, FailFails, SendAccepted, Suppress, Free
<1>4. Entry(a) \in Deliveries
  BY <1>3, Owner
<1>5. CASE FailRead(a) \/ FailWrite(a) \/ FailFails(a)
  <2>1. pc'[a] \in {"failWrite", "next", "done"} /\ UNCHANGED history
    BY <1>2, <1>5 DEF FailRead, FailWrite, FailFails, Release, Goto
  <2>2. Vouched(a)' /\ \A d \in Deliveries : Sent(d) => Sent(d)'
    BY <2>1 DEF Vouched, Sent, history
  <2>3. QED
    BY <1>1, <2>1, <2>2, BackedStep DEF history
<1>6. CASE SendAccepted(a)
  <2>1. PICK e \in Deliveries : e = Entry(a)
    BY <1>4
  <2>2. pc'[a] = "accepted" /\ Entry(a)' = e /\ dropped' = dropped /\ platform' = Accepted(e)
    BY <1>2, <1>6, <2>1 DEF SendAccepted, Goto, Entry, workers
  <2>3. Sent(e)' /\ \A d \in Deliveries : Sent(d) => Sent(d)'
    BY <2>2, Counting DEF Data
  <2>4. Vouched(a)'
    BY <2>2, <2>3 DEF Vouched
  <2>5. QED
    BY <1>1, <2>2, <2>3, <2>4, BackedStep
<1>7. CASE Suppress(a)
  <2>0. PICK e \in Deliveries : e = Entry(a)
    BY <1>4
  <2>1. pc'[a] = "ack" /\ Entry(a)' = e /\ dropped' = dropped \cup {e} /\ UNCHANGED platform
    BY <1>2, <1>7, <2>0 DEF Suppress, Goto, Entry, workers
  <2>2. \A d \in Deliveries : Sent(d) => Sent(d)'
    BY <2>1 DEF Sent
  <2>3. Vouched(a)'
    BY <2>1 DEF Vouched
  <2>4. QED
    BY <1>1, <2>1, <2>2, <2>3, BackedStep
<1>8. QED
  BY <1>5, <1>6, <1>7 DEF Shared

LEMMA BackedNext ==
    ASSUME NothingSwallowed, Seats, Data, Backed, [Next]_vars
    PROVE  Backed'
<1>1. ASSUME UNCHANGED <<acked, platform, dropped>>,
             \A a \in Actors : \/ pc'[a] \in {"defer", "done", "idle"}
                               \/ pc'[a] = pc[a] /\ Entry(a)' = Entry(a)
      PROVE  Backed'
  <2>1. \A d : (Sent(d)' <=> Sent(d)) /\ (d \in dropped' <=> d \in dropped)
    BY <1>1 DEF Sent
  <2>2. ASSUME NEW a \in Actors PROVE Vouched(a)'
    <3>1. Vouched(a)
      BY DEF Backed
    <3>2. CASE pc'[a] \in {"defer", "done", "idle"}
      BY <3>2 DEF Vouched
    <3>3. CASE pc'[a] = pc[a] /\ Entry(a)' = Entry(a)
      BY <2>1, <3>1, <3>3 DEF Vouched
    <3>4. QED
      BY <1>1, <3>2, <3>3
  <2>3. AckedWasDelivered'
    BY <1>1, <2>1 DEF Backed, AckedWasDelivered
  <2>4. QED
    BY <2>2, <2>3 DEF Backed
<1>2. CASE Defer
  <2>1. CASE Deadline \/ DeferEnd
    <3>1. pc' = [pc EXCEPT ![Recovery] = IF Deadline THEN "defer" ELSE "done"]
      BY <2>1 DEF Deadline, DeferEnd, Goto
    <3>2. UNCHANGED <<acked, platform, dropped, at>>
      BY <2>1 DEF Deadline, DeferEnd, storage, history, workers
    <3>3. QED
      BY <1>1, <3>1, <3>2 DEF Seats, Entry
  <2>2. CASE \E e \in Deliveries : DeferRead(e) \/ DeferWrite(e)
    <3>1. UNCHANGED <<acked, platform, dropped, at, pc>>
      BY <2>2 DEF DeferRead, DeferWrite, storage, history
    <3>2. QED
      BY <1>1, <3>1 DEF Entry
  <2>3. QED
    BY <1>2, <2>1, <2>2 DEF Defer
<1>3. CASE Crash
  <2>1. UNCHANGED <<acked, platform, dropped>> /\ \A a \in Actors : pc'[a] \in {"done", "idle"}
    BY <1>3 DEF Crash, storage
  <2>2. QED
    BY <1>1, <2>1
<1>4. CASE UNCHANGED vars
  BY <1>1, <1>4 DEF vars, storage, history, workers, Entry
<1>5. ASSUME NEW e \in Deliveries, Enqueue(e) \/ EnqueueFails(e) \/ Live(e) PROVE Backed'
  BY <1>5, LiveBacked
<1>6. ASSUME NEW w \in Workers, Load(w) \/ Work(w) PROVE Backed'
  BY <1>6, WorkBacked
<1>7. CASE Next
  BY <1>2, <1>3, <1>5, <1>6, <1>7, SharedBacked DEF Next
<1>8. QED
  BY <1>4, <1>7

\* A message leaves the queue as delivered only if the channel accepted it or
\* its sender dropped it, for any number of workers and through failures,
\* crashes and deferrals, when the deliveries are not bestEffort
\* (deliver.ts:1351-1394); for those that are it is false.
THEOREM Delivered == NothingSwallowed => (Spec => []AckedWasDelivered)
<1>1. Init => Backed
  BY DEF Init, Backed, Vouched, AckedWasDelivered
<1>2. NothingSwallowed /\ Seats /\ Data /\ Backed /\ [Next]_vars => Backed'
  BY BackedNext
<1>3. Backed => AckedWasDelivered
  BY DEF Backed
<1>4. SUFFICES ASSUME NothingSwallowed PROVE Spec => []AckedWasDelivered
  OBVIOUS
<1>5. Seats /\ Data /\ Backed /\ [Next]_vars => Backed'
  BY <1>2, <1>4
<1>6. QED
  BY <1>1, <1>3, <1>5, SeatsAlways, PTL DEF Spec

-----------------------------------------------------------------------------
\* Without a deferral only the owner of an entry writes its file: what it read
\* is what the file says, and what the file says is what happened.
Held(a) ==
    LET e == Entry(a)
    IN  /\ pc[a] \in {"failWrite", "markWrite", "unknownWrite"} => Pending(e) /\ copy[a] = file[e]
        /\ pc[a] = "reconcile" \/ (a \in Workers /\ pc[a] = "send") => Pending(e)
        /\ pc[a] = "send" /\ marked[e] => platform[e][TRUE] = 0

Told(e) ==
    /\ e \in acked => ~Pending(e)
    /\ pc[e] = "idle" =>
          /\ file[e] = Missing /\ e \notin acked /\ ~marked[e]
          /\ \A w \in Workers : at[w] # e /\ e \notin todo[w]
    /\ marked[e] => file[e].state # "none" /\ pc[e] \notin {"queued", "start", "markWrite"}
    /\ ~marked[e] => platform[e][TRUE] = 0

NoDefer == pc[Recovery] # "defer" /\ \A e \in Deliveries : deferCopy[e] = Missing

Safe ==
    /\ NoDefer
    /\ \A a \in Actors : Held(a)
    /\ \A e \in Deliveries : Told(e)
    /\ MarkedSentOnce

\* A step that writes no file and asks no channel.
LEMMA Rest ==
    ASSUME Seats, Safe, NEW a \in Actors, Alone(a), Held(a)',
           UNCHANGED <<file, acked, marked, platform, deferCopy>>,
           pc'[a] # "defer",
           a \in Deliveries => pc'[a] # "idle",
           a \in Deliveries /\ marked[a] => pc'[a] \notin {"queued", "start", "markWrite"},
           \A w \in Workers : at'[w] \in {at[w], None} \cup todo[w],
           \A w \in Workers : todo'[w] \subseteq todo[w] \cup {d \in Deliveries : Pending(d)}
    PROVE  Safe'
<1>1. \A b \in Actors \ {a} : pc'[b] = pc[b] /\ copy'[b] = copy[b] /\ Entry(b)' = Entry(b)
  BY DEF Alone
<1>2. ASSUME NEW b \in Actors PROVE Held(b)'
  <2>1. CASE b # a
    <3>1. Held(b)
      BY DEF Safe
    <3>2. pc'[b] = pc[b] /\ copy'[b] = copy[b] /\ Entry(b)' = Entry(b)
      BY <1>1, <2>1
    <3>3. QED
      BY <3>1, <3>2 DEF Held, Pending
  <2>2. QED
    BY <2>1
<1>3. ASSUME NEW d \in Deliveries PROVE Told(d)'
  <2>1. d \in Actors /\ d # None /\ (d # a => pc'[d] = pc[d])
    BY <1>1, Apart
  <2>2. Told(d)
    BY DEF Safe
  <2>3. ASSUME pc'[d] = "idle", NEW w \in Workers PROVE at'[w] # d /\ d \notin todo'[w]
    <3>1. pc[d] = "idle"
      BY <2>1, <2>3
    <3>2. ~Pending(d) /\ at[w] # d /\ d \notin todo[w]
      BY <2>2, <3>1 DEF Told, Pending, Missing
    <3>3. at'[w] # d
      BY <2>1, <3>2
    <3>4. d \notin todo'[w]
      BY <3>2
    <3>5. QED
      BY <3>3, <3>4
  <2>4. pc'[d] = "idle" => pc[d] = "idle"
    BY <2>1
  <2>5. marked[d] => pc'[d] \notin {"queued", "start", "markWrite"}
    BY <2>1, <2>2 DEF Told
  <2>6. QED
    BY <2>2, <2>3, <2>4, <2>5 DEF Told, Pending
<1>4. NoDefer'
  BY <1>1, Apart DEF Safe, NoDefer
<1>5. MarkedSentOnce'
  BY DEF Safe, MarkedSentOnce
<1>6. QED
  BY <1>2, <1>3, <1>4, <1>5 DEF Safe

\* A step that does, to the entry e that nobody else works on.
LEMMA Writes ==
    ASSUME Seats, Safe, NEW a \in Actors, NEW e \in Deliveries, a \in Workers \/ a = e,
           Alone(a), Held(a)', Told(e)', platform'[e][TRUE] <= 1,
           \A b \in Actors : b # a /\ pc[b] \notin Free => Entry(b) # e,
           \A d \in Deliveries \ {e} :
              /\ file'[d] = file[d] /\ marked'[d] = marked[d] /\ platform'[d] = platform[d]
              /\ d \in acked' <=> d \in acked,
           pc'[a] # "defer",
           UNCHANGED <<todo, deferCopy>>,
           \A w \in Workers : at'[w] \in {at[w], None}
    PROVE  Safe'
<1>1. \A b \in Actors \ {a} : pc'[b] = pc[b] /\ copy'[b] = copy[b] /\ Entry(b)' = Entry(b)
  BY DEF Alone
<1>2. ASSUME NEW b \in Actors, b # a PROVE Held(b)'
  <2>1. Held(b) /\ pc'[b] = pc[b] /\ copy'[b] = copy[b] /\ Entry(b)' = Entry(b)
    BY <1>1, <1>2 DEF Safe
  <2>2. CASE pc[b] \in Free
    BY <2>1, <2>2 DEF Held, Free
  <2>3. CASE pc[b] \notin Free
    <3>1. PICK d \in Deliveries \ {e} : d = Entry(b)
      BY <1>2, <2>3, Owner
    <3>2. Entry(b)' = d /\ file'[d] = file[d] /\ marked'[d] = marked[d] /\ platform'[d] = platform[d]
      BY <2>1, <3>1
    <3>3. QED
      BY <2>1, <3>1, <3>2 DEF Held, Pending
  <2>4. QED
    BY <2>2, <2>3
<1>3. ASSUME NEW d \in Deliveries, d # e PROVE Told(d)'
  <2>1. d \in Actors /\ d # None /\ pc'[d] = pc[d]
    BY <1>1, <1>3, Apart
  <2>2. Told(d)
    BY DEF Safe
  <2>3. ASSUME pc[d] = "idle", NEW w \in Workers PROVE at'[w] # d /\ d \notin todo'[w]
    BY <2>1, <2>2, <2>3 DEF Told
  <2>4. file'[d] = file[d] /\ marked'[d] = marked[d] /\ platform'[d] = platform[d] /\ (d \in acked' <=> d \in acked)
    BY <1>3
  <2>5. QED
    BY <2>1, <2>2, <2>3, <2>4 DEF Told, Pending
<1>4. NoDefer'
  BY <1>1, Apart DEF Safe, NoDefer
<1>5. MarkedSentOnce'
  <2>1. \A d \in Deliveries : d # e => platform'[d] = platform[d]
    OBVIOUS
  <2>2. QED
    BY <2>1 DEF Safe, MarkedSentOnce
<1>6. QED
  BY <1>2, <1>3, <1>4, <1>5 DEF Safe

LEMMA LiveSafe ==
    ASSUME Seats, Data, Safe,
           NEW e \in Deliveries, Enqueue(e) \/ EnqueueFails(e) \/ Live(e)
    PROVE  Safe'
<1>1. /\ e \in Actors /\ e \notin Workers /\ e # None /\ Entry(e) = e /\ (Entry(e))' = e
      /\ Alone(e) /\ at' = at
  BY Apart, LiveAlone DEF Entry
<1>2. Held(e) /\ Told(e) /\ MarkedSentOnce
  BY <1>1 DEF Safe
<1>3. pc \in [Actors -> LivePc \cup WorkerPc] /\ pc'[e] \notin {"idle", "defer"}
  <2>1. \E l \in LivePc \ {"idle"} : Goto(e, l)
    BY LiveAlone
  <2>2. QED
    BY <1>1, <2>1 DEF Seats, Goto, LivePc
<1>4. pc[e] = "idle" \/ pc[e] \notin Free =>
         \A b \in Actors : b # e /\ pc[b] \notin Free => Entry(b) # e
  <2>1. CASE pc[e] \notin Free
    BY <1>1, <2>1, Owner
  <2>2. CASE pc[e] = "idle"
    BY <1>2, <2>2, Apart DEF Told
  <2>3. QED
    BY <2>1, <2>2
<1>5. ASSUME Held(e)', UNCHANGED <<storage, todo, deferCopy, marked, platform>>,
             marked[e] => pc'[e] \notin {"queued", "start", "markWrite"}
      PROVE  Safe'
  BY <1>1, <1>3, <1>5, Rest DEF storage
<1>6. ASSUME pc[e] = "idle" \/ pc[e] \notin Free,
             Held(e)', Told(e)', platform'[e][TRUE] <= 1,
             \A d \in Deliveries \ {e} :
                /\ file'[d] = file[d] /\ marked'[d] = marked[d] /\ platform'[d] = platform[d]
                /\ d \in acked' <=> d \in acked,
             UNCHANGED <<todo, deferCopy>>
      PROVE  Safe'
  BY <1>1, <1>3, <1>4, <1>6, Writes
<1>7. CASE Enqueue(e)
  <2>1. /\ pc'[e] = "queued" /\ file'[e].status = "pending"
        /\ UNCHANGED <<acked, marked, platform, todo, deferCopy>>
    BY <1>1, <1>3, <1>7 DEF Enqueue, Goto, workers, history, Data
  <2>2. ~marked[e] /\ e \notin acked /\ platform[e][TRUE] = 0
    BY <1>2, <1>7 DEF Told, Enqueue
  <2>3. Told(e)' /\ Held(e)'
    BY <2>1, <2>2 DEF Told, Held
  <2>4. \A d \in Deliveries \ {e} : file'[d] = file[d]
    BY <1>7 DEF Enqueue, Data
  <2>5. QED
    BY <1>6, <1>7, <2>1, <2>2, <2>3, <2>4 DEF Enqueue
<1>8. CASE EnqueueFails(e)
  <2>1. /\ pc'[e] = "done"
        /\ UNCHANGED <<file, acked, marked, todo, deferCopy>>
        /\ platform' = platform \/ platform' = Accepted(e)
    BY <1>1, <1>3, <1>8 DEF EnqueueFails, Goto, workers, storage
  <2>2. ~marked[e] /\ e \notin acked /\ platform[e][TRUE] = 0
    BY <1>2, <1>8 DEF Told, EnqueueFails
  <2>3. platform'[e][TRUE] = 0 /\ \A d \in Deliveries \ {e} : platform'[d] = platform[d]
    <3>1. CASE platform' = Accepted(e)
      <4>1. platform'[e][TRUE] = platform[e][TRUE]
        BY <2>2, <3>1, Counting DEF Data
      <4>2. QED
        BY <2>2, <3>1, <4>1 DEF Accepted, Data
    <3>2. QED
      BY <2>1, <2>2, <3>1
  <2>4. Told(e)' /\ Held(e)'
    BY <2>1, <2>2, <2>3 DEF Told, Held
  <2>5. QED
    BY <1>6, <1>8, <2>1, <2>3, <2>4 DEF EnqueueFails
<1>9. CASE LiveClaim(e) \/ MarkFails(e) \/ MarkRead(e)
  <2>1. ~marked[e]
    BY <1>2, <1>9 DEF Told, LiveClaim, MarkFails, MarkRead
  <2>2. UNCHANGED <<storage, todo, deferCopy, marked, platform>>
    BY <1>9 DEF LiveClaim, MarkFails, MarkRead, workers, history
  <2>3. Held(e)'
    <3>1. CASE LiveClaim(e)
      BY <1>1, <1>3, <3>1 DEF LiveClaim, Goto, Held
    <3>2. CASE MarkFails(e)
      <4>1. pc'[e] \in {"fail", "send"}
        BY <1>1, <1>3, <3>2 DEF MarkFails, Goto
      <4>2. QED
        BY <1>1, <2>1, <2>2, <4>1 DEF Held
    <3>3. CASE MarkRead(e)
      <4>1. pc'[e] = "markWrite" /\ copy'[e] = file[e] /\ Pending(e)
        BY <1>1, <1>3, <3>3 DEF MarkRead, Goto, Data
      <4>2. QED
        BY <1>1, <2>2, <4>1 DEF Held, Pending, storage
    <3>4. QED
      BY <1>9, <3>1, <3>2, <3>3
  <2>4. QED
    BY <1>5, <2>1, <2>2, <2>3
<1>10. CASE MarkWrite(e)
  <2>1. /\ pc[e] = "markWrite" /\ pc'[e] = "send"
        /\ file' = [file EXCEPT ![e] = [copy[e] EXCEPT !.state = "send_attempt_started"]]
        /\ marked' = [marked EXCEPT ![e] = TRUE]
        /\ UNCHANGED <<acked, todo, deferCopy, platform>>
    BY <1>1, <1>3, <1>10 DEF MarkWrite, Goto, workers, history
  <2>2. /\ file'[e].state # "none" /\ marked'[e]
        /\ \A d \in Deliveries \ {e} : file'[d] = file[d] /\ marked'[d] = marked[d]
    BY <2>1, <1>1 DEF Data, QueuedDelivery
  <2>3. Pending(e) /\ copy[e] = file[e] /\ e \notin acked /\ platform[e][TRUE] = 0
    BY <1>1, <1>2, <2>1 DEF Held, Told
  <2>4. Told(e)' /\ Held(e)'
    BY <1>1, <2>1, <2>2, <2>3 DEF Told, Held
  <2>5. QED
    BY <1>6, <2>1, <2>2, <2>3, <2>4 DEF Free
<1>11. CASE LiveSendFails(e) \/ Abort(e) \/ LiveSendReturns(e)
  <2>1. /\ pc'[e] \in {"fail", "abort", "unknown", "ack"}
        /\ UNCHANGED <<storage, todo, deferCopy, marked, platform>>
    BY <1>1, <1>3, <1>11 DEF LiveSendFails, Abort, LiveSendReturns, Goto, workers, history
  <2>2. Held(e)'
    BY <2>1 DEF Held
  <2>3. QED
    BY <1>5, <2>1, <2>2
<1>12. CASE UnknownRead(e)
  <2>1. /\ pc'[e] = "unknownWrite" /\ copy'[e] = file[e] /\ Pending(e)
        /\ UNCHANGED <<storage, todo, deferCopy, marked, platform>>
    BY <1>1, <1>3, <1>12 DEF UnknownRead, Goto, Data, workers, history
  <2>2. Held(e)'
    BY <1>1, <2>1 DEF Held, Pending, storage
  <2>3. QED
    BY <1>5, <2>1, <2>2
<1>13. CASE UnknownWrite(e)
  <2>1. /\ pc[e] = "unknownWrite" /\ pc'[e] = "ack"
        /\ file' = [file EXCEPT ![e] = [copy[e] EXCEPT !.state = "unknown_after_send"]]
        /\ UNCHANGED <<acked, marked, todo, deferCopy, platform>>
    BY <1>1, <1>3, <1>13 DEF UnknownWrite, Goto, workers, history
  <2>2. file'[e].state # "none" /\ \A d \in Deliveries \ {e} : file'[d] = file[d]
    BY <2>1, <1>1 DEF Data, QueuedDelivery
  <2>3. Pending(e) /\ e \notin acked /\ platform[e][TRUE] <= 1
    BY <1>1, <1>2, <2>1 DEF Held, Told, MarkedSentOnce
  <2>4. Told(e)' /\ Held(e)'
    BY <1>1, <1>2, <2>1, <2>2, <2>3 DEF Told, Held
  <2>5. QED
    BY <1>6, <2>1, <2>2, <2>3, <2>4 DEF Free
<1>14. CASE UnknownFails(e) \/ LiveAckFails(e)
  <2>1. /\ pc'[e] \in {"done", "ack"}
        /\ UNCHANGED <<storage, todo, deferCopy, marked, platform>>
    BY <1>1, <1>3, <1>14 DEF UnknownFails, LiveAckFails, Release, Goto, history
  <2>2. Held(e)'
    BY <2>1 DEF Held
  <2>3. QED
    BY <1>5, <2>1, <2>2
<1>15. CASE LiveAck(e)
  <2>1. /\ pc[e] \in {"ack", "abort"} /\ pc'[e] = "done"
        /\ file' = [file EXCEPT ![e].status = "delivered"] /\ acked' = acked \cup {e}
        /\ UNCHANGED <<marked, todo, deferCopy, platform>>
    BY <1>1, <1>3, <1>15 DEF LiveAck, Acknowledge, Release, Goto, history
  <2>2. /\ file'[e].status = "delivered" /\ file'[e].state = file[e].state
        /\ \A d \in Deliveries \ {e} : file'[d] = file[d]
    BY <2>1 DEF Data, QueuedDelivery
  <2>3. Told(e)' /\ Held(e)'
    BY <1>2, <2>1, <2>2 DEF Told, Held, Pending
  <2>4. platform[e][TRUE] <= 1
    BY <1>2 DEF MarkedSentOnce
  <2>5. QED
    BY <1>6, <2>1, <2>2, <2>3, <2>4 DEF Free
<1>16. QED
  BY <1>7, <1>8, <1>9, <1>10, <1>11, <1>12, <1>13, <1>14, <1>15 DEF Live

LEMMA WorkSafe ==
    ASSUME Seats, Data, Safe, NEW w \in Workers, Load(w) \/ Work(w)
    PROVE  Safe'
<1>1. w \in Actors /\ w \notin Deliveries /\ Entry(w) = at[w] /\ (Entry(w))' = at'[w] /\ Alone(w)
  BY Apart, WorkAlone DEF Entry
<1>2. Held(w) /\ MarkedSentOnce /\ UNCHANGED <<marked, platform, deferCopy>>
  BY <1>1 DEF Safe, Load, Work, Take, Finish, Proceed, Skip, Reconcile, WorkerSendFails,
       WorkerSendReturns, WorkerAck, WorkerAckFails, Move, MoveFails, LoopThrows, workers, history
<1>3. pc \in [Actors -> LivePc \cup WorkerPc] /\ at \in [Workers -> Deliveries \cup {None}]
  BY DEF Seats
<1>4. ASSUME Held(w)', UNCHANGED <<file, acked>>, pc'[w] # "defer",
             UNCHANGED at \/ \E d \in todo[w] \cup {None} : at' = [at EXCEPT ![w] = d],
             \/ UNCHANGED todo
             \/ \E D \in SUBSET (todo[w] \cup {d \in Deliveries : Pending(d)}) : todo' = [todo EXCEPT ![w] = D]
      PROVE  Safe'
  <2>1. \A v \in Workers : at'[v] \in {at[v], None} \cup todo[v]
    BY <1>3, <1>4
  <2>2. \A v \in Workers : todo'[v] \subseteq todo[v] \cup {d \in Deliveries : Pending(d)}
    BY <1>4 DEF Data
  <2>3. QED
    BY <1>1, <1>2, <1>4, <2>1, <2>2, Rest
<1>5. CASE Load(w)
  <2>1. pc'[w] = "first" /\ UNCHANGED <<file, acked, at>>
    BY <1>1, <1>3, <1>5 DEF Load, Goto, storage
  <2>2. todo' = [todo EXCEPT ![w] = {d \in Deliveries : Pending(d)}]
    BY <1>5 DEF Load
  <2>3. Held(w)'
    BY <2>1 DEF Held
  <2>4. QED
    BY <1>4, <2>1, <2>2, <2>3
<1>6. CASE Take(w)
  <2>1. pc'[w] \in {"next", "reread"} /\ UNCHANGED <<file, acked>>
    BY <1>1, <1>3, <1>6 DEF Take, Goto, storage
  <2>2. PICK e \in todo[w] :
           /\ todo' = [todo EXCEPT ![w] = @ \ {e}]
           /\ UNCHANGED at \/ at' = [at EXCEPT ![w] = e]
    BY <1>6 DEF Take
  <2>3. todo[w] \ {e} \in SUBSET (todo[w] \cup {d \in Deliveries : Pending(d)})
    OBVIOUS
  <2>4. Held(w)'
    BY <2>1 DEF Held
  <2>5. QED
    BY <1>4, <2>1, <2>2, <2>3, <2>4
<1>7. CASE Finish(w) \/ WorkerSendFails(w) \/ WorkerSendReturns(w) \/ WorkerAckFails(w)
  <2>1. /\ pc'[w] \in {"idle", "done", "fail", "move", "ack"}
        /\ UNCHANGED <<file, acked, at, todo>>
    BY <1>1, <1>3, <1>7
       DEF Finish, WorkerSendFails, WorkerSendReturns, WorkerAckFails, Goto, storage, workers
  <2>2. Held(w)'
    BY <2>1 DEF Held
  <2>3. QED
    BY <1>4, <2>1, <2>2
<1>8. CASE Proceed(w)
  <2> DEFINE e == at[w]
  <2>1. /\ pc[w] = "reread" /\ Pending(e) /\ UNCHANGED <<file, acked, at, todo>>
        /\ pc'[w] \in {"prune", "reconcile", "send"}
        /\ pc'[w] = "send" => file[e].state = "none"
    BY <1>1, <1>3, <1>8 DEF Proceed, Goto, storage, workers
  <2>2. e \in Deliveries
    BY <1>1, <2>1, Owner DEF Free
  <2>3. pc'[w] = "send" => ~marked[e]
    BY <2>1, <2>2 DEF Safe, Told
  <2>4. Held(w)'
    BY <1>1, <1>2, <2>1, <2>3 DEF Held, Pending
  <2>5. QED
    BY <1>4, <2>1, <2>4
<1>9. CASE Reconcile(w)
  <2> DEFINE e == at[w]
  <2>1. /\ pc[w] = "reconcile" /\ UNCHANGED <<file, acked, at, todo>>
        /\ pc'[w] \in {"reconciled", "send", "fail", "move"}
    BY <1>1, <1>3, <1>9 DEF Reconcile, Answers, Goto, storage, workers
  <2>2. e \in Deliveries
    BY <1>1, <2>1, Owner DEF Free
  <2>3. pc'[w] = "send" => ~Sent(e)
    <3>1. ASSUME pc'[w] = "send" PROVE "not_sent" \in Answers(e)
      BY <1>1, <1>3, <1>9, <3>1 DEF Reconcile, Answers, Goto
    <3>2. "not_sent" \in Answers(e) => ~Sent(e)
      BY DEF Answers
    <3>3. QED
      BY <3>1, <3>2
  <2>4. pc'[w] = "send" => platform[e][TRUE] = 0
    BY <2>2, <2>3, NoneSent DEF Data
  <2>5. Pending(e)
    BY <1>1, <1>2, <2>1 DEF Held
  <2>6. Held(w)'
    BY <1>1, <1>2, <2>1, <2>4, <2>5 DEF Held, Pending
  <2>7. QED
    BY <1>4, <2>1, <2>6
<1>10. CASE Skip(w) \/ MoveFails(w)
  <2>1. /\ pc'[w] = "next" /\ UNCHANGED <<file, acked, todo>>
        /\ at' = [at EXCEPT ![w] = None]
    BY <1>1, <1>3, <1>10 DEF Skip, MoveFails, Release, Goto, storage
  <2>2. Held(w)'
    BY <2>1 DEF Held
  <2>3. QED
    BY <1>4, <2>1, <2>2
<1>11. CASE LoopThrows(w)
  <2>1. /\ pc'[w] \in {"done", "idle"} /\ UNCHANGED <<file, acked>>
        /\ at' = [at EXCEPT ![w] = None] /\ todo' = [todo EXCEPT ![w] = {}]
    BY <1>1, <1>3, <1>11 DEF LoopThrows, Goto, storage
  <2>2. Held(w)'
    BY <2>1 DEF Held
  <2>3. QED
    BY <1>4, <2>1, <2>2
<1>12. CASE WorkerAck(w) \/ Move(w)
  <2>1. /\ pc'[w] = "next" /\ todo' = todo /\ at' = [at EXCEPT ![w] = None] /\ pc[w] \notin Free
        /\ \/ file' = [file EXCEPT ![at[w]].status = "delivered"] /\ acked' = acked \cup {at[w]}
           \/ file' = [file EXCEPT ![at[w]].status = "failed"] /\ acked' = acked
    BY <1>1, <1>3, <1>12 DEF WorkerAck, Move, Acknowledge, Release, Goto, Free
  <2>2. PICK e \in Deliveries : e = at[w]
    BY <1>1, <2>1, Owner
  <2>3. /\ ~(file'[e].status = "pending") /\ file'[e].state = file[e].state
        /\ \A d \in Deliveries \ {e} : file'[d] = file[d] /\ (d \in acked' <=> d \in acked)
    BY <2>1, <2>2 DEF Data, QueuedDelivery
  <2>4. Told(e) /\ pc'[e] = pc[e] /\ pc[e] # "idle"
    BY <1>1, <2>2, Apart DEF Safe, Told, Alone
  <2>5. Told(e)' /\ Held(w)'
    BY <1>2, <2>1, <2>3, <2>4 DEF Told, Held, Pending
  <2>6. \A b \in Actors : b # w /\ pc[b] \notin Free => Entry(b) # e
    BY <1>1, <2>1, <2>2, Owner
  <2>7. platform'[e][TRUE] <= 1
    BY <1>2 DEF MarkedSentOnce
  <2>8. \A v \in Workers : at'[v] \in {at[v], None}
    BY <1>3, <2>1
  <2>9. QED
    BY <1>1, <1>2, <2>1, <2>3, <2>5, <2>6, <2>7, <2>8, Writes
<1>13. QED
  BY <1>5, <1>6, <1>7, <1>8, <1>9, <1>10, <1>11, <1>12 DEF Work

LEMMA SharedSafe ==
    ASSUME Seats, Data, Safe, NEW a \in Actors, Shared(a)
    PROVE  Safe'
<1>1. Alone(a) /\ pc[a] \notin Free
  BY SharedAlone DEF Shared, FailRead, FailWrite, FailFails, SendAccepted, Suppress, Free
<1>2. PICK e \in Deliveries : e = Entry(a)
  BY <1>1, Owner
<1>3. Held(a) /\ Told(e) /\ MarkedSentOnce /\ (a \in Workers \/ a = e)
  BY <1>2, Apart DEF Safe
<1>4. /\ pc \in [Actors -> LivePc \cup WorkerPc]
      /\ at \in [Workers -> Deliveries \cup {None}]
  BY DEF Seats
<1>5. \A b \in Actors : b # a /\ pc[b] \notin Free => Entry(b) # e
  BY <1>1, <1>2, Owner
<1>6. UNCHANGED <<marked, todo, deferCopy>>
  BY DEF Shared, FailRead, FailWrite, FailFails, SendAccepted, Suppress, workers
<1>7. UNCHANGED at \/ at' = [at EXCEPT ![a] = None]
  BY DEF Shared, FailRead, FailWrite, FailFails, SendAccepted, Suppress, Release, workers
<1>8. \A w \in Workers : at'[w] \in {at[w], None}
  BY <1>4, <1>7
<1>9. ASSUME Held(a)', UNCHANGED <<file, acked, platform>>,
             pc'[a] \in {"failWrite", "next", "done", "ack"}
      PROVE  Safe'
  BY <1>1, <1>6, <1>8, <1>9, Rest
<1>10. CASE FailRead(a)
  <2>1. /\ pc'[a] = "failWrite" /\ copy'[a] = file[e] /\ Entry(a)' = e /\ Pending(e)
        /\ UNCHANGED <<file, acked, platform>>
    BY <1>2, <1>4, <1>10 DEF FailRead, Goto, Entry, Data, storage, workers, history
  <2>2. Held(a)'
    BY <2>1 DEF Held, Pending
  <2>3. QED
    BY <1>9, <2>1, <2>2
<1>11. CASE FailFails(a) \/ Suppress(a)
  <2>1. pc'[a] \in {"next", "done", "ack"} /\ UNCHANGED <<file, acked, platform>>
    BY <1>4, <1>11 DEF FailFails, Suppress, Release, Goto, storage, history
  <2>2. Held(a)'
    BY <2>1 DEF Held
  <2>3. QED
    BY <1>9, <2>1, <2>2
<1>12. CASE FailWrite(a)
  <2>1. /\ pc[a] = "failWrite" /\ pc'[a] \in {"next", "done"}
        /\ file' = [file EXCEPT ![e] = Failed(copy[a])]
        /\ UNCHANGED <<acked, platform>>
    BY <1>2, <1>4, <1>12 DEF FailWrite, Release, Goto, history
  <2>2. Pending(e) /\ copy[a] = file[e]
    BY <1>2, <1>3, <2>1 DEF Held
  <2>3. /\ file'[e].state = file[e].state
        /\ \A d \in Deliveries \ {e} : file'[d] = file[d]
    BY <2>1, <2>2 DEF Failed, Data, QueuedDelivery
  <2>4. pc[e] # "idle" /\ pc'[e] \in {pc[e], "next", "done"}
    <3>1. pc[e] # "idle"
      BY <1>2, <1>3, <1>1, Apart DEF Told, Free
    <3>2. e \in Actors /\ (a = e \/ a # e)
      BY Apart
    <3>3. QED
      BY <1>1, <2>1, <3>1, <3>2 DEF Alone
  <2>5. Told(e)' /\ Held(a)'
    BY <1>3, <1>6, <2>1, <2>2, <2>3, <2>4 DEF Told, Held
  <2>6. platform'[e][TRUE] <= 1
    BY <1>3, <2>1 DEF MarkedSentOnce
  <2>7. QED
    BY <1>1, <1>3, <1>5, <1>6, <1>8, <2>1, <2>3, <2>5, <2>6, Writes
<1>13. CASE SendAccepted(a)
  <2>1. /\ pc[a] = "send" /\ pc'[a] = "accepted" /\ platform' = Accepted(e)
        /\ UNCHANGED <<file, acked>>
    BY <1>2, <1>4, <1>13 DEF SendAccepted, Goto, storage
  <2>2. platform'[e][TRUE] <= 1 /\ (~marked[e] => platform'[e][TRUE] = 0)
    <3>1. /\ platform[e][TRUE] = 0 => platform'[e][TRUE] <= 1
          /\ ~marked[e] => platform'[e][TRUE] = platform[e][TRUE]
      BY <2>1, Counting DEF Data
    <3>2. marked[e] => platform[e][TRUE] = 0
      BY <1>2, <1>3, <2>1 DEF Held
    <3>3. ~marked[e] => platform[e][TRUE] = 0
      BY <1>3 DEF Told
    <3>4. QED
      BY <3>1, <3>2, <3>3
  <2>3. \A d \in Deliveries \ {e} : platform'[d] = platform[d]
    BY <2>1 DEF Accepted, Data
  <2>4. pc[e] # "idle" /\ pc'[e] \in {pc[e], "accepted"}
    <3>1. pc[e] # "idle"
      BY <1>2, <1>3, <1>1, Apart DEF Told, Free
    <3>2. e \in Actors /\ (a = e \/ a # e)
      BY Apart
    <3>3. QED
      BY <1>1, <2>1, <3>1, <3>2 DEF Alone
  <2>5. Told(e)' /\ Held(a)'
    BY <1>3, <1>6, <2>1, <2>2, <2>4 DEF Told, Held, Pending
  <2>6. QED
    BY <1>1, <1>3, <1>5, <1>6, <1>8, <2>1, <2>2, <2>3, <2>5, Writes
<1>14. QED
  BY <1>10, <1>11, <1>12, <1>13 DEF Shared

LEMMA SafeNext ==
    ASSUME ~BudgetMayExpire, Seats, Data, Safe, [Next]_vars
    PROVE  Safe'
<1>1. ~Defer
  BY DEF Defer, Deadline, DeferEnd, DeferRead, DeferWrite, Safe, NoDefer
<1>2. CASE Crash
  <2>1. /\ \A a \in Actors : pc'[a] = IF a \in Deliveries /\ pc[a] # "idle" THEN "done" ELSE "idle"
        /\ \A e \in Deliveries : deferCopy'[e] = Missing
        /\ \A w \in Workers : at'[w] = None /\ todo'[w] = {}
        /\ UNCHANGED <<file, acked, marked, platform>>
    BY <1>2 DEF Crash, storage
  <2>2. ASSUME NEW a \in Actors PROVE Held(a)'
    BY <2>1 DEF Held
  <2>3. ASSUME NEW e \in Deliveries PROVE Told(e)'
    <3>1. Told(e) /\ pc'[e] \in {"idle", "done"} /\ (pc'[e] = "idle" => pc[e] = "idle")
      BY <2>1, Apart DEF Safe
    <3>2. e # None
      BY Apart
    <3>3. QED
      BY <2>1, <3>1, <3>2 DEF Told, Pending
  <2>4. NoDefer'
    BY <2>1, Apart DEF NoDefer
  <2>5. MarkedSentOnce'
    BY <2>1 DEF Safe, MarkedSentOnce
  <2>6. QED
    BY <2>2, <2>3, <2>4, <2>5 DEF Safe
<1>3. CASE UNCHANGED vars
  BY <1>3 DEF vars, storage, workers, history, Safe, NoDefer, Held, Told, MarkedSentOnce, Pending, Entry
<1>4. ASSUME NEW e \in Deliveries, Enqueue(e) \/ EnqueueFails(e) \/ Live(e) PROVE Safe'
  BY <1>4, LiveSafe
<1>5. ASSUME NEW w \in Workers, Load(w) \/ Work(w) PROVE Safe'
  BY <1>5, WorkSafe
<1>6. CASE Next
  BY <1>1, <1>2, <1>4, <1>5, <1>6, SharedSafe DEF Next
<1>7. QED
  BY <1>3, <1>6

LEMMA SafeAlways == ~BudgetMayExpire => (Spec => [](Seats /\ Safe))
<1>1. Init => Safe
  <2>1. ASSUME Init, NEW e \in Deliveries PROVE Told(e)
    BY <2>1, Apart DEF Init, Told, Pending, Missing
  <2>2. ASSUME Init, NEW a \in Actors PROVE Held(a)
    BY <2>2 DEF Init, Held
  <2>3. Init => NoDefer /\ MarkedSentOnce
    BY Apart DEF Init, NoDefer, MarkedSentOnce
  <2>4. QED
    BY <2>1, <2>2, <2>3 DEF Safe
<1>2. SUFFICES ASSUME ~BudgetMayExpire PROVE Spec => [](Seats /\ Safe)
  OBVIOUS
<1>3. Seats /\ Data /\ Safe /\ [Next]_vars => Safe'
  BY <1>2, SafeNext
<1>4. QED
  BY <1>1, <1>3, SeatsAlways, PTL DEF Spec

\* No worker is about to send a message that was acknowledged, for any number
\* of workers and through failures and crashes, when the recovery does not run
\* out of time (delivery-queue-recovery.ts:514-521); when it does it is false.
THEOREM NotReplayed == ~BudgetMayExpire => (Spec => []AckedNotReplayed)
<1>1. Seats /\ Safe => AckedNotReplayed
  <2>1. ASSUME Seats, Safe, NEW w \in Workers, pc[w] = "send" PROVE at[w] \notin acked
    <3>1. w \in Actors /\ Entry(w) = at[w] /\ at[w] \in Deliveries
      BY <2>1, Apart, Owner DEF Free
    <3>2. Held(w) /\ Told(at[w])
      BY <2>1, <3>1 DEF Safe
    <3>3. QED
      BY <2>1, <3>1, <3>2 DEF Held, Told
  <2>2. QED
    BY <2>1 DEF AckedNotReplayed
<1>2. QED
  BY <1>1, SafeAlways, PTL

\* Once its file says that a send was attempted, the channel accepts a message
\* at most once, when the recovery does not run out of time: the outcome is
\* reconciled or the entry given up (delivery-queue-recovery.ts:371-442).
THEOREM SentOnceMarked == ~BudgetMayExpire => (Spec => []MarkedSentOnce)
<1>1. Safe => MarkedSentOnce
  BY DEF Safe
<1>2. QED
  BY <1>1, SafeAlways, PTL

=============================================================================
