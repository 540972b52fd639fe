------------------------- MODULE CommandQueueProofs -------------------------
(***************************************************************************)
(* Proofs about CommandQueue, for every set of lanes, waiters and bounds:  *)
(* lemmas about its operators, type correctness, the inductive invariant   *)
(* with the safety properties that follow from it, and the order in which  *)
(* lanes serve their entries.                                              *)
(***************************************************************************)
EXTENDS CommandQueue, FiniteSetTheorems, SequenceTheorems, WellFoundedInduction, TLAPS

-----------------------------------------------------------------------------
(* Lemmas about the operators.                                             *)

\* Sets of entries are finite, so the size of an active set is a number.
LEMMA EntriesFinite ==
    ASSUME NEW S \in SUBSET Entries
    PROVE  IsFiniteSet(S) /\ Cardinality(S) \in Nat
<1>1. IsFiniteSet(Entries)
  BY FS_Interval, BoundsAssumption DEF Entries
<1>2. QED
  BY <1>1, FS_Subset, FS_CardinalityType

\* What the loop of pump takes: a prefix of the queue, of length Room.
LEMMA RoomFacts ==
    ASSUME NEW q \in Seq(Entries), NEW a \in SUBSET Entries, NEW max \in Nat
    PROVE  LET k    == Room(q, a, max)
               rest == SubSeq(q, k + 1, Len(q))
           IN  /\ k \in 0..Len(q)
               /\ rest \in Seq(Entries)
               /\ Len(rest) = Len(q) - k
               /\ \A i \in 1..Len(rest) : rest[i] = q[i + k]
               /\ Started(q, a, max) \in SUBSET Entries
<1> DEFINE k == Room(q, a, max)
           rest == SubSeq(q, k + 1, Len(q))
<1>1. Cardinality(a) \in Nat
  BY EntriesFinite
<1>2. k \in 0..Len(q)
  BY <1>1 DEF Room
<1> HIDE DEF k
<1>3. /\ rest \in Seq(Entries)
      /\ Len(rest) = Len(q) - k
      /\ \A i \in 1..Len(rest) : rest[i] = q[i + k]
  BY <1>2
<1>4. Started(q, a, max) \in SUBSET Entries
  BY <1>2 DEF Started, k
<1>5. QED
  BY <1>2, <1>3, <1>4 DEF k

\* Every nonempty set of natural numbers has a least element.
LEMMA MinFacts ==
    ASSUME NEW S \in SUBSET Nat, S # {}
    PROVE  Min(S) \in S /\ \A x \in S : Min(S) <= x
<1> DEFINE less == OpToRel(<, Nat)
<1>1. IsWellFoundedOn(less, Nat)
  BY NatLessThanWellFounded
<1>2. less = {ss \in Nat \X Nat : ss[1] < ss[2]}
  BY DEF OpToRel
<1> HIDE DEF less
<1>3. PICK m \in S : \A y \in S : ~(<<y, m>> \in less)
  BY <1>1, WFMin
<1>4. ASSUME NEW y \in S PROVE m <= y
  <2>1. ~(<<y, m>> \in {ss \in Nat \X Nat : ss[1] < ss[2]})
    BY <1>2, <1>3
  <2>2. ~(y < m)
    BY <2>1, m \in Nat, y \in Nat
  <2>3. QED
    BY <2>2, m \in Nat, y \in Nat
<1>5. QED
  BY <1>4 DEF Min

\* enqueueLaneEntry adds one element and keeps the others in their order:
\* those the new one does not outrank before it, up to the first it does.
LEMMA InsertFacts ==
    ASSUME NEW q \in Seq(Entries), NEW e \in Entries, NEW r
    PROVE  /\ Insert(q, e, r) \in Seq(Entries)
           /\ Len(Insert(q, e, r)) = Len(q) + 1
           /\ \E at \in 1..(Len(q) + 1) :
                /\ \A i \in 1..(Len(q) + 1) :
                     Insert(q, e, r)[i] = IF i < at THEN q[i] ELSE IF i = at THEN e ELSE q[i - 1]
                /\ \A i \in 1..(at - 1) : ~Outranks(r, e, q[i])
                /\ at <= Len(q) => Outranks(r, e, q[at])
<1> DEFINE hits  == {i \in 1..Len(q) : Outranks(r, e, q[i])}
           first == SelectInSeq(q, LAMBDA f : Outranks(r, e, f))
<1>1. first = IF hits # {} THEN Min(hits) ELSE 0
  BY DEF SelectInSeq
<1>2. Insert(q, e, r) = InsertAt(q, IF first = 0 THEN Len(q) + 1 ELSE first, e)
  BY DEF Insert
<1> HIDE DEF first
<1>3. ASSUME hits # {} PROVE first \in hits /\ \A i \in hits : first <= i
  <2>1. hits \in SUBSET Nat
    OBVIOUS
  <2> HIDE DEF hits
  <2>2. Min(hits) \in hits /\ \A i \in hits : Min(hits) <= i
    BY <1>3, <2>1, MinFacts
  <2>3. QED
    BY <1>1, <1>3, <2>2
<1> DEFINE at == IF first = 0 THEN Len(q) + 1 ELSE first
           s1 == SubSeq(q, 1, at - 1)
           s2 == SubSeq(q, at, Len(q))
<1>4. /\ at \in 1..(Len(q) + 1)
      /\ \A i \in 1..(at - 1) : ~Outranks(r, e, q[i])
      /\ at <= Len(q) => Outranks(r, e, q[at])
  <2>1. CASE hits = {}
    BY <1>1, <2>1
  <2>2. CASE hits # {}
    <3>1. first \in 1..Len(q) /\ Outranks(r, e, q[first])
      BY <1>3, <2>2
    <3>2. \A i \in 1..(first - 1) : i \notin hits
      BY <1>3, <2>2, <3>1
    <3>3. QED
      BY <3>1, <3>2
  <2>3. QED
    BY <2>1, <2>2
<1>5. Insert(q, e, r) = (s1 \o <<e>>) \o s2
  BY <1>2 DEF InsertAt
<1> HIDE DEF at, hits
<1>6. s1 \in Seq(Entries) /\ Len(s1) = at - 1 /\ \A i \in 1..(at - 1) : s1[i] = q[i]
  BY <1>4
<1>7. s2 \in Seq(Entries) /\ Len(s2) = Len(q) + 1 - at
      /\ \A i \in 1..(Len(q) + 1 - at) : s2[i] = q[at + i - 1]
  BY <1>4
<1> HIDE DEF s1, s2
<1> DEFINE u == s1 \o <<e>>
           t == u \o s2
<1>8. u \in Seq(Entries) /\ Len(u) = at /\ \A i \in 1..at : u[i] = IF i < at THEN q[i] ELSE e
  BY <1>4, <1>6
<1> HIDE DEF u
<1>9. /\ t \in Seq(Entries)
      /\ Len(t) = Len(q) + 1
      /\ \A i \in 1..(Len(q) + 1) : t[i] = IF i < at THEN q[i] ELSE IF i = at THEN e ELSE q[i - 1]
  <2>1. /\ t \in Seq(Entries)
        /\ Len(t) = Len(u) + Len(s2)
        /\ \A i \in 1..(Len(u) + Len(s2)) : t[i] = IF i <= Len(u) THEN u[i] ELSE s2[i - Len(u)]
    BY <1>7, <1>8, ConcatProperties
  <2> HIDE DEF t
  <2>2. ASSUME NEW i \in 1..(Len(q) + 1), i > at
        PROVE  t[i] = q[i - 1]
    <3>1. t[i] = s2[i - at] /\ i - at \in 1..(Len(q) + 1 - at)
      BY <1>4, <1>7, <1>8, <2>1, <2>2
    <3>2. s2[i - at] = q[at + (i - at) - 1]
      BY <1>7, <3>1
    <3>3. at + (i - at) - 1 = i - 1
      BY <1>4
    <3>4. QED
      BY <3>1, <3>2, <3>3
  <2>3. ASSUME NEW i \in 1..(Len(q) + 1), i <= at
        PROVE  t[i] = IF i < at THEN q[i] ELSE e
    BY <1>4, <1>7, <1>8, <2>1, <2>3
  <2>4. Len(t) = Len(q) + 1
    BY <1>4, <1>7, <1>8, <2>1
  <2>5. ASSUME NEW i \in 1..(Len(q) + 1)
        PROVE  t[i] = IF i < at THEN q[i] ELSE IF i = at THEN e ELSE q[i - 1]
    <3>1. at \in Int /\ i \in Int
      BY <1>4
    <3>2. CASE i <= at
      BY <2>3, <3>1, <3>2
    <3>3. CASE i > at
      BY <2>2, <3>1, <3>3
    <3>4. QED
      BY <3>1, <3>2, <3>3
  <2>6. QED
    BY <2>1, <2>4, <2>5
<1>10. QED
  BY <1>4, <1>5, <1>9 DEF u

-----------------------------------------------------------------------------
(* Type correctness.  The pump reads the lane of every entry it starts, so *)
(* the type invariant needs one thing more: what is queued was issued.     *)

QueuedIssued == \A l \in Lanes : \A i \in 1..Len(queue[l]) : queue[l][i] \in Issued

TypeInv == TypeOK /\ QueuedIssued

\* drainLane keeps the types of the four variables it changes.
LEMMA PumpTypes ==
    ASSUME NEW ls \in SUBSET Lanes,
           NEW q \in [Lanes -> Seq(Entries)],
           NEW a \in [Lanes -> SUBSET Entries],
           NEW m \in [Lanes -> Nat],
           NEW g \in [Lanes -> Nat],
           body \in [Entries -> Bodies],
           startGeneration \in [Entries -> Nat],
           request' \in Seq(Request),
           \A l \in Lanes : \A i \in 1..Len(q[l]) : q[l][i] \in DOMAIN request',
           Pump(ls, q, a, m, g)
    PROVE  /\ queue' \in [Lanes -> Seq(Entries)]
           /\ active' \in [Lanes -> SUBSET Entries]
           /\ body' \in [Entries -> Bodies]
           /\ startGeneration' \in [Entries -> Nat]
           /\ \A l \in Lanes : \A i \in 1..Len(queue'[l]) : queue'[l][i] \in DOMAIN request'
<1> DEFINE k(l)      == Room(q[l], a[l], m[l])
           starts(l) == IF l \in ls THEN Started(q[l], a[l], m[l]) ELSE {}
           begun     == UNION {starts(l) : l \in ls}
<1>1. /\ queue' = [l \in Lanes |-> IF l \in ls THEN SubSeq(q[l], k(l) + 1, Len(q[l])) ELSE q[l]]
      /\ active' = [l \in Lanes |-> a[l] \cup starts(l)]
      /\ body' = [e \in Entries |-> IF e \in begun THEN "running" ELSE body[e]]
      /\ startGeneration' =
            [e \in Entries |-> IF e \in begun THEN g[request'[e].lane] ELSE startGeneration[e]]
  BY DEF Pump
<1>2. ASSUME NEW l \in Lanes
      PROVE  /\ k(l) \in 0..Len(q[l])
             /\ SubSeq(q[l], k(l) + 1, Len(q[l])) \in Seq(Entries)
             /\ Len(SubSeq(q[l], k(l) + 1, Len(q[l]))) = Len(q[l]) - k(l)
             /\ \A i \in 1..Len(SubSeq(q[l], k(l) + 1, Len(q[l]))) :
                    SubSeq(q[l], k(l) + 1, Len(q[l]))[i] = q[l][i + k(l)]
             /\ Started(q[l], a[l], m[l]) \in SUBSET Entries
  BY RoomFacts
<1>3. ASSUME NEW e \in begun PROVE e \in DOMAIN request'
  <2>1. PICK l \in ls : e \in Started(q[l], a[l], m[l])
    OBVIOUS
  <2>2. PICK i \in 1..k(l) : e = q[l][i]
    BY <2>1 DEF Started
  <2>3. i \in 1..Len(q[l])
    BY <1>2, <2>2
  <2>4. QED
    BY <2>2, <2>3
<1> HIDE DEF k
<1>4. queue' \in [Lanes -> Seq(Entries)]
  BY <1>1, <1>2
<1>5. ASSUME NEW l \in Lanes, NEW i \in 1..Len(queue'[l])
      PROVE  queue'[l][i] \in DOMAIN request'
  <2>1. CASE l \in ls
    <3> DEFINE rest == SubSeq(q[l], k(l) + 1, Len(q[l]))
    <3>1. queue'[l] = rest
      BY <1>1, <2>1
    <3>2. /\ k(l) \in 0..Len(q[l])
          /\ Len(rest) = Len(q[l]) - k(l)
          /\ \A j \in 1..Len(rest) : rest[j] = q[l][j + k(l)]
      BY <1>2
    <3>3. Len(q[l]) \in Nat
      OBVIOUS
    <3> HIDE DEF rest
    <3>4. i \in 1..Len(rest)
      BY <3>1
    <3>5. queue'[l][i] = q[l][i + k(l)] /\ i + k(l) \in 1..Len(q[l])
      BY <3>1, <3>2, <3>3, <3>4
    <3>6. QED
      BY <3>5
  <2>2. CASE l \notin ls
    BY <1>1, <2>2
  <2>3. QED
    BY <2>1, <2>2
<1>6. active' \in [Lanes -> SUBSET Entries]
  BY <1>1, <1>2
<1> HIDE DEF starts, begun
<1>7. body' \in [Entries -> Bodies]
  BY <1>1 DEF Bodies
<1>8. ASSUME NEW e \in begun PROVE g[request'[e].lane] \in Nat
  <2>1. request'[e] \in Request
    BY <1>3
  <2>2. request'[e].lane \in Lanes
    BY <2>1 DEF Request
  <2>3. QED
    BY <2>2
<1>9. startGeneration' \in [Entries -> Nat]
  BY <1>1, <1>8
<1>10. QED
  BY <1>4, <1>5, <1>6, <1>7, <1>9

\* notifyActiveTaskWaiters keeps the type of the waiters.
LEMMA NotifyTypes ==
    ASSUME NEW a,
           waiter \in [Waiters -> [status : WaiterStatus, tasks : SUBSET Entries, timed : BOOLEAN]],
           Notify(a)
    PROVE  waiter' \in [Waiters -> [status : WaiterStatus, tasks : SUBSET Entries, timed : BOOLEAN]]
  BY DEF Notify, WaiterStatus

\* The initial state has the types.
LEMMA TypeInit == Init => TypeInv
<1> SUFFICES ASSUME Init PROVE TypeInv
  OBVIOUS
<1>1. /\ gatewayDraining \in BOOLEAN
      /\ lanes \subseteq Lanes
      /\ active \in [Lanes -> SUBSET Entries]
      /\ maxConcurrent \in [Lanes -> Nat]
      /\ generation \in [Lanes -> Nat]
      /\ body \in [Entries -> Bodies]
      /\ race \in [Entries -> Outcomes]
      /\ startGeneration \in [Entries -> Nat]
      /\ promise \in [Entries -> Promises]
  BY DEF Init, Bodies, Outcomes, Promises
<1>2. queue \in [Lanes -> Seq(Entries)] /\ QueuedIssued
  BY EmptySeq DEF Init, QueuedIssued
<1>3. request \in Seq(Request) /\ Len(request) <= MaxEntries
  BY BoundsAssumption, EmptySeq DEF Init
<1>4. waiter \in [Waiters -> [status : WaiterStatus, tasks : SUBSET Entries, timed : BOOLEAN]]
  BY DEF Init, WaiterStatus
<1>5. QED
  BY <1>1, <1>2, <1>3, <1>4 DEF TypeInv, TypeOK

\* New limits for whatever lanes, which are then drained, keep the types.
LEMMA TypeLimits ==
    ASSUME TypeInv, NEW ls \in SUBSET Lanes, NEW m \in [Lanes -> Nat],
           lanes' \subseteq Lanes, maxConcurrent' = m,
           UNCHANGED <<gatewayDraining, generation, request, race, promise, waiter>>,
           Pump(ls, queue, active, m, generation)
    PROVE  TypeInv'
<1>1. /\ active \in [Lanes -> SUBSET Entries]
      /\ queue \in [Lanes -> Seq(Entries)]
      /\ generation \in [Lanes -> Nat]
      /\ body \in [Entries -> Bodies]
      /\ startGeneration \in [Entries -> Nat]
  BY DEF TypeInv, TypeOK
<1>2. request' \in Seq(Request)
      /\ \A k \in Lanes : \A i \in 1..Len(queue[k]) : queue[k][i] \in DOMAIN request'
  BY DEF TypeInv, TypeOK, QueuedIssued, Issued
<1>3. /\ queue' \in [Lanes -> Seq(Entries)]
      /\ active' \in [Lanes -> SUBSET Entries]
      /\ body' \in [Entries -> Bodies]
      /\ startGeneration' \in [Entries -> Nat]
      /\ \A k \in Lanes : \A i \in 1..Len(queue'[k]) : queue'[k][i] \in DOMAIN request'
  BY <1>1, <1>2, PumpTypes
<1>4. QED
  BY <1>3 DEF TypeInv, TypeOK, QueuedIssued, Issued

\* setCommandLaneConcurrency keeps the types, whatever number it is given.
LEMMA TypeSetConcurrency ==
    ASSUME TypeInv, NEW l \in Lanes, NEW n \in Int, SetConcurrency(l, n)
    PROVE  TypeInv'
<1> DEFINE m == [maxConcurrent EXCEPT ![l] = Slots(l, n)]
<1>1. m \in [Lanes -> Nat]
  BY DEF TypeInv, TypeOK, Slots
<1> HIDE DEF m
<1>2. /\ lanes' = lanes \cup {l}
      /\ maxConcurrent' = m
      /\ UNCHANGED <<gatewayDraining, generation, request, race, promise, waiter>>
      /\ \/ Pump({l}, queue, active, m, generation)
         \/ UNCHANGED <<queue, active, body, startGeneration>>
  BY DEF SetConcurrency, m
<1>3. lanes' \subseteq Lanes
  BY <1>2 DEF TypeInv, TypeOK
<1>4. CASE UNCHANGED <<queue, active, body, startGeneration>>
  BY <1>1, <1>2, <1>3, <1>4 DEF TypeInv, TypeOK, QueuedIssued, Issued
<1>5. CASE Pump({l}, queue, active, m, generation)
  BY <1>1, <1>2, <1>3, <1>5, {l} \in SUBSET Lanes, TypeLimits
<1>6. QED
  BY <1>2, <1>4, <1>5

\* A step keeps the types.
LEMMA TypeNext ==
    ASSUME TypeInv, [Next]_vars
    PROVE  TypeInv'
<1> USE DEF TypeInv
<1>a. /\ active \in [Lanes -> SUBSET Entries]
      /\ queue \in [Lanes -> Seq(Entries)]
      /\ maxConcurrent \in [Lanes -> Nat]
      /\ generation \in [Lanes -> Nat]
      /\ body \in [Entries -> Bodies]
      /\ startGeneration \in [Entries -> Nat]
  BY DEF TypeOK
<1>b. \A l \in Lanes : {l} \in SUBSET Lanes
  OBVIOUS
<1>1. ASSUME NEW l \in Lanes, NEW p \in Priorities, NEW t \in Timeouts, Enqueue(l, p, t)
      PROVE  TypeInv'
  <2> DEFINE e == Len(request) + 1
             r == [lane |-> l, priority |-> p, timed |-> t]
             q == [queue EXCEPT ![l] = Insert(@, e, r)]
  <2>1. /\ e \in Entries
        /\ request' = Append(request, r)
        /\ lanes' = lanes \cup {l}
        /\ Pump({l}, q, active, maxConcurrent, generation)
        /\ UNCHANGED <<gatewayDraining, maxConcurrent, generation, race, promise, waiter>>
    BY <1>1 DEF Enqueue
  <2>2. request' \in Seq(Request) /\ Len(request') = e /\ e <= MaxEntries
        /\ DOMAIN request' = 1..e
    BY <2>1, BoundsAssumption DEF TypeOK, Request, Entries
  <2>3. /\ q \in [Lanes -> Seq(Entries)]
        /\ \A k \in Lanes : \A i \in 1..Len(q[k]) : q[k][i] \in DOMAIN request'
    <3>1. queue[l] \in Seq(Entries)
      BY DEF TypeOK
    <3> DEFINE qi == Insert(queue[l], e, r)
    <3>2. /\ qi \in Seq(Entries)
          /\ Len(qi) = Len(queue[l]) + 1
          /\ \E at \in 1..(Len(queue[l]) + 1) :
               /\ \A i \in 1..(Len(queue[l]) + 1) :
                    qi[i] = IF i < at THEN queue[l][i] ELSE IF i = at THEN e ELSE queue[l][i - 1]
               /\ \A i \in 1..(at - 1) : ~Outranks(r, e, queue[l][i])
               /\ at <= Len(queue[l]) => Outranks(r, e, queue[l][at])
      <4> HIDE DEF e, r
      <4>1. QED
        BY <2>1, <3>1, InsertFacts
    <3>3. PICK at \in 1..(Len(queue[l]) + 1) :
             \A i \in 1..(Len(queue[l]) + 1) :
               qi[i] = IF i < at THEN queue[l][i] ELSE IF i = at THEN e ELSE queue[l][i - 1]
      BY <3>2
    <3>4. q = [k \in Lanes |-> IF k = l THEN qi ELSE queue[k]]
      BY DEF TypeOK
    <3>5. \A k \in Lanes : \A i \in 1..Len(queue[k]) : queue[k][i] \in DOMAIN request'
      BY <2>2 DEF QueuedIssued, Issued, TypeOK
    <3> HIDE DEF qi, q
    <3>6. ASSUME NEW i \in 1..Len(qi) PROVE qi[i] \in DOMAIN request'
      <4>1. i \in 1..(Len(queue[l]) + 1)
        BY <3>2
      <4>2. CASE i < at
        BY <3>3, <3>5, <4>1, <4>2
      <4>3. CASE i = at
        BY <2>1, <2>2, <3>3, <4>1, <4>3 DEF Entries
      <4>4. CASE i > at
        <5>1. qi[i] = queue[l][i - 1] /\ i - 1 \in 1..Len(queue[l])
          BY <3>1, <3>3, <4>1, <4>4
        <5>2. QED
          BY <3>5, <5>1
      <4>5. QED
        BY <4>1, <4>2, <4>3, <4>4
    <3>7. QED
      BY <3>2, <3>4, <3>5, <3>6 DEF TypeOK
  <2> HIDE DEF q, e, r
  <2>4. /\ queue' \in [Lanes -> Seq(Entries)]
        /\ active' \in [Lanes -> SUBSET Entries]
        /\ body' \in [Entries -> Bodies]
        /\ startGeneration' \in [Entries -> Nat]
        /\ \A k \in Lanes : \A i \in 1..Len(queue'[k]) : queue'[k][i] \in DOMAIN request'
    BY <1>a, <1>b, <2>1, <2>2, <2>3, PumpTypes
  <2>5. QED
    BY <2>1, <2>2, <2>4 DEF TypeOK, QueuedIssued, Issued
<1>2. ASSUME NEW l \in Lanes, NEW n \in Concurrency, SetConcurrency(l, n)
      PROVE  TypeInv'
  BY <1>2, TypeSetConcurrency, ConcurrencyAssumption
<1>3. ASSUME NEW l \in Lanes, Clear(l)
      PROVE  TypeInv'
  <2>1. queue' = [queue EXCEPT ![l] = <<>>]
        /\ promise' = [e \in Entries |-> IF e \in ToSet(queue[l]) THEN "cleared" ELSE promise[e]]
        /\ UNCHANGED <<gatewayDraining, lanes, active, maxConcurrent, generation,
                       request, body, race, startGeneration, waiter>>
    BY <1>3 DEF Clear
  <2>2. queue' \in [Lanes -> Seq(Entries)] /\ QueuedIssued'
    BY <2>1, EmptySeq DEF TypeOK, QueuedIssued, Issued
  <2>3. promise' \in [Entries -> Promises]
    BY <2>1 DEF TypeOK, Promises
  <2>4. QED
    BY <2>1, <2>2, <2>3 DEF TypeOK
<1>4. ASSUME NEW ls \in SUBSET Lanes, Idle(ls), gatewayDraining' \in BOOLEAN
      PROVE  TypeInv'
  <2> DEFINE a == [l \in Lanes |-> IF l \in ls THEN {} ELSE active[l]]
             g == [l \in Lanes |-> IF l \in ls THEN generation[l] + 1 ELSE generation[l]]
  <2>1. a \in [Lanes -> SUBSET Entries] /\ g \in [Lanes -> Nat]
    BY DEF TypeOK
  <2>2. /\ generation' = g
        /\ UNCHANGED <<lanes, maxConcurrent, request, race, promise>>
        /\ Pump(ls, queue, a, maxConcurrent, g)
        /\ Notify(active')
    BY <1>4 DEF Idle
  <2> HIDE DEF a, g
  <2>3. request' \in Seq(Request)
        /\ \A l \in Lanes : \A i \in 1..Len(queue[l]) : queue[l][i] \in DOMAIN request'
    BY <2>2 DEF TypeOK, QueuedIssued, Issued
  <2>4. /\ queue' \in [Lanes -> Seq(Entries)]
        /\ active' \in [Lanes -> SUBSET Entries]
        /\ body' \in [Entries -> Bodies]
        /\ startGeneration' \in [Entries -> Nat]
        /\ \A l \in Lanes : \A i \in 1..Len(queue'[l]) : queue'[l][i] \in DOMAIN request'
    BY <1>a, <1>b, <2>1, <2>2, <2>3, PumpTypes
  <2>5. waiter' \in [Waiters -> [status : WaiterStatus, tasks : SUBSET Entries, timed : BOOLEAN]]
    BY <2>2, NotifyTypes DEF TypeOK
  <2>6. QED
    BY <1>4, <2>1, <2>2, <2>4, <2>5 DEF TypeOK, QueuedIssued, Issued
<1>5. ASSUME MarkGatewayDraining
      PROVE  TypeInv'
  BY <1>5 DEF MarkGatewayDraining, TypeOK, QueuedIssued, Issued, entryVars
<1>6. ASSUME NEW w \in Waiters, NEW t \in {"none", "positive", "expired"}, WaitForActiveTasks(w, t)
      PROVE  TypeInv'
  <2>1. UNION {active[l] : l \in lanes} \in SUBSET Entries
    BY DEF TypeOK
  <2>2. waiter' \in [Waiters -> [status : WaiterStatus, tasks : SUBSET Entries, timed : BOOLEAN]]
    BY <1>6, <2>1 DEF WaitForActiveTasks, TypeOK, WaiterStatus
  <2>3. QED
    BY <1>6, <2>2 DEF WaitForActiveTasks, TypeOK, QueuedIssued, Issued, laneVars, entryVars
<1>7. ASSUME NEW e \in Entries, FinishBody(e)
      PROVE  TypeInv'
  BY <1>7 DEF FinishBody, TypeOK, QueuedIssued, Issued, laneVars, Bodies, Outcomes
<1>8. ASSUME NEW e \in Entries, Timeout(e)
      PROVE  TypeInv'
  BY <1>8 DEF Timeout, TypeOK, QueuedIssued, Issued, laneVars, Outcomes
<1>9. ASSUME NEW e \in Entries, Settle(e)
      PROVE  TypeInv'
  <2> DEFINE l == request[e].lane
             a == [active EXCEPT ![l] = @ \ {e}]
  <2>1. /\ e \in Issued
        /\ UNCHANGED <<gatewayDraining, lanes, maxConcurrent, generation, request, race>>
        /\ \/ Notify(a) /\ Pump({l}, queue, a, maxConcurrent, generation)
           \/ UNCHANGED <<queue, active, body, startGeneration, waiter>>
        /\ promise' = [promise EXCEPT ![e] = IF race[e] = "task" THEN "settled" ELSE "timedOut"]
    BY <1>9 DEF Settle
  <2>2. l \in Lanes /\ a \in [Lanes -> SUBSET Entries]
    <3>1. request[e] \in Request
      BY <2>1 DEF TypeOK, Issued
    <3>2. l \in Lanes
      BY <3>1 DEF Request
    <3>3. QED
      BY <3>2 DEF TypeOK
  <2>3. promise' \in [Entries -> Promises]
    BY <2>1 DEF TypeOK, Promises
  <2> HIDE DEF l, a
  <2>4. CASE UNCHANGED <<queue, active, body, startGeneration, waiter>>
    BY <2>1, <2>3, <2>4 DEF TypeOK, QueuedIssued, Issued
  <2>5. CASE Notify(a) /\ Pump({l}, queue, a, maxConcurrent, generation)
    <3>1. request' \in Seq(Request)
          /\ \A k \in Lanes : \A i \in 1..Len(queue[k]) : queue[k][i] \in DOMAIN request'
      BY <2>1 DEF TypeOK, QueuedIssued, Issued
    <3>2. /\ queue' \in [Lanes -> Seq(Entries)]
          /\ active' \in [Lanes -> SUBSET Entries]
          /\ body' \in [Entries -> Bodies]
          /\ startGeneration' \in [Entries -> Nat]
          /\ \A k \in Lanes : \A i \in 1..Len(queue'[k]) : queue'[k][i] \in DOMAIN request'
      BY <1>a, <1>b, <2>2, <2>5, <3>1, PumpTypes
    <3>3. waiter' \in [Waiters -> [status : WaiterStatus, tasks : SUBSET Entries, timed : BOOLEAN]]
      BY <2>5, NotifyTypes DEF TypeOK
    <3>4. QED
      BY <2>1, <2>3, <3>2, <3>3 DEF TypeOK, QueuedIssued, Issued
  <2>6. QED
    BY <2>1, <2>4, <2>5
<1>10. ASSUME NEW w \in Waiters, WaiterTimeout(w)
      PROVE  TypeInv'
  BY <1>10 DEF WaiterTimeout, TypeOK, QueuedIssued, Issued, laneVars, entryVars, WaiterStatus
<1>11. CASE UNCHANGED vars
  BY <1>11 DEF TypeOK, QueuedIssued, Issued, vars, laneVars, entryVars
<1>12. ASSUME NEW l \in Lanes, ResetLane(l) PROVE TypeInv'
  BY <1>4, <1>12 DEF ResetLane, TypeOK
<1>13. ASSUME ResetAllLanes PROVE TypeInv'
  BY <1>4, <1>13 DEF ResetAllLanes, TypeOK
<1>14. QED
  BY <1>1, <1>2, <1>3, <1>5, <1>6, <1>7, <1>8, <1>9, <1>10, <1>11, <1>12, <1>13
  DEF Next, Calls, EventLoop

\* Every variable keeps its type: lanes, queues, generations and waiters of
\* command-queue.ts never hold anything but issued entries.
THEOREM TypeCorrect == Spec => []TypeOK
<1>1. TypeInv => TypeOK
  BY DEF TypeInv
<1>2. TypeInv /\ [Next]_vars => TypeInv'
  BY TypeNext
<1>3. QED
  BY <1>1, <1>2, TypeInit, PTL DEF Spec

-----------------------------------------------------------------------------
(* Safety: slots, queues, limits and waiters.                              *)

Queued(q, e) == \E i \in 1..Len(q) : q[i] = e
Distinct(q)  == \A i, j \in 1..Len(q) : q[i] = q[j] => i = j

-----------------------------------------------------------------------------
(* The pump, seen as a step on sets.                                       *)

\* The entries the loop of pump starts are as many as it has room for.
LEMMA StartedSize ==
    ASSUME NEW q \in Seq(Entries), Distinct(q),
           NEW a \in SUBSET Entries, NEW max \in Nat,
           \A e \in a : ~Queued(q, e)
    PROVE  LET s == Started(q, a, max)
           IN  /\ s \in SUBSET Entries
               /\ Cardinality(a \cup s) = Cardinality(a) + Room(q, a, max)
               /\ Cardinality(a) \in Nat
<1> DEFINE k == Room(q, a, max)
           s == Started(q, a, max)
           f == [i \in 1..k |-> q[i]]
<1>1. k \in 0..Len(q) /\ s \in SUBSET Entries
  BY RoomFacts
<1>2. s = {q[i] : i \in 1..k}
  BY DEF Started
<1> HIDE DEF k, s
<1>3. f \in Bijection(1..k, s)
  <2>1. f \in [1..k -> s]
    BY <1>2
  <2>2. \A i, j \in 1..k : f[i] = f[j] => i = j
    BY <1>1 DEF Distinct
  <2>3. \A e \in s : \E i \in 1..k : f[i] = e
    BY <1>2
  <2> HIDE DEF f
  <2>4. QED
    BY <2>1, <2>2, <2>3 DEF Bijection, Injection, Surjection, IsInjective
<1>4. Cardinality(s) = k
  <2>1. IsFiniteSet(1..k) /\ Cardinality(1..k) = k
    BY <1>1, FS_Interval
  <2>2. ExistsBijection(1..k, s)
    BY <1>3 DEF ExistsBijection
  <2>3. QED
    BY <2>1, <2>2, FS_Bijection
<1>5. a \cap s = {}
  BY <1>1, <1>2 DEF Queued
<1>6. IsFiniteSet(a) /\ IsFiniteSet(s) /\ Cardinality(a) \in Nat
  BY <1>1, EntriesFinite
<1>7. Cardinality(a \cup s) = Cardinality(a) + Cardinality(s) - Cardinality(a \cap s)
  BY <1>6, FS_Union
<1>8. Cardinality(a \cap s) = 0
  BY <1>5, FS_EmptySet
<1>9. QED
  BY <1>1, <1>4, <1>6, <1>7, <1>8 DEF k, s

\* What the loop of pump does to one lane: it moves a prefix of the queue to
\* the active set, stays within the lane's slots, and stops only when the
\* slots are taken or the queue is empty.
LEMMA StartedFacts ==
    ASSUME NEW q \in Seq(Entries), Distinct(q),
           NEW a \in SUBSET Entries, NEW max \in Nat,
           \A e \in a : ~Queued(q, e)
    PROVE  LET s    == Started(q, a, max)
               rest == SubSeq(q, Room(q, a, max) + 1, Len(q))
           IN  /\ \A e : Queued(q, e) <=> e \in s \/ Queued(rest, e)
               /\ \A e \in s : ~Queued(rest, e)
               /\ Distinct(rest)
               /\ s # {} => Cardinality(a \cup s) <= max
               /\ rest # <<>> => Cardinality(a \cup s) >= max
<1> DEFINE k == Room(q, a, max)
           s == Started(q, a, max)
           rest == SubSeq(q, k + 1, Len(q))
<1>1. /\ k \in 0..Len(q)
      /\ rest \in Seq(Entries)
      /\ Len(rest) = Len(q) - k
      /\ \A i \in 1..Len(rest) : rest[i] = q[i + k]
  BY RoomFacts
<1>2. s = {q[i] : i \in 1..k}
  BY DEF Started
<1>3. Cardinality(a \cup s) = Cardinality(a) + k /\ Cardinality(a) \in Nat
  BY StartedSize
<1>4. k = IF max - Cardinality(a) <= 0 THEN 0
          ELSE IF max - Cardinality(a) < Len(q) THEN max - Cardinality(a) ELSE Len(q)
  BY DEF Room
<1> HIDE DEF k, s, rest
<1>5. ASSUME NEW e, Queued(q, e) PROVE e \in s \/ Queued(rest, e)
  <2>1. PICK i \in 1..Len(q) : q[i] = e
    BY <1>5 DEF Queued
  <2>2. CASE i <= k
    BY <1>1, <1>2, <2>1, <2>2
  <2>3. CASE i > k
    <3>1. i - k \in 1..Len(rest) /\ rest[i - k] = q[(i - k) + k] /\ (i - k) + k = i
      BY <1>1, <2>3
    <3>2. QED
      BY <2>1, <3>1 DEF Queued
  <2>4. QED
    BY <1>1, <2>2, <2>3
<1>6. ASSUME NEW e, Queued(rest, e) PROVE Queued(q, e)
  <2>1. PICK i \in 1..Len(rest) : rest[i] = e
    BY <1>6 DEF Queued
  <2>2. i + k \in 1..Len(q) /\ q[i + k] = e
    BY <1>1, <2>1
  <2>3. QED
    BY <2>2 DEF Queued
<1>7. ASSUME NEW e \in s PROVE Queued(q, e) /\ ~Queued(rest, e)
  <2>1. PICK i \in 1..k : q[i] = e
    BY <1>2
  <2>2. i \in 1..Len(q)
    BY <1>1
  <2>3. ASSUME NEW j \in 1..Len(rest), rest[j] = e PROVE FALSE
    <3>1. j + k \in 1..Len(q) /\ q[j + k] = e
      BY <1>1, <2>3
    <3>2. i = j + k
      BY <2>1, <2>2, <3>1 DEF Distinct
    <3>3. QED
      BY <1>1, <3>2
  <2>4. QED
    BY <2>1, <2>2, <2>3 DEF Queued
<1>8. Distinct(rest)
  <2> SUFFICES ASSUME NEW i \in 1..Len(rest), NEW j \in 1..Len(rest), rest[i] = rest[j]
               PROVE  i = j
    BY DEF Distinct
  <2>1. i + k \in 1..Len(q) /\ j + k \in 1..Len(q) /\ q[i + k] = q[j + k]
    BY <1>1
  <2>2. i + k = j + k
    BY <2>1 DEF Distinct
  <2>3. QED
    BY <1>1, <2>2
<1>9. s # {} => Cardinality(a \cup s) <= max
  <2>1. s # {} => k > 0
    BY <1>1, <1>2
  <2>2. QED
    BY <1>3, <1>4, <2>1
<1>10. rest # <<>> => Cardinality(a \cup s) >= max
  <2>1. rest # <<>> => Len(rest) > 0
    BY <1>1
  <2>2. QED
    BY <1>1, <1>3, <1>4, <2>1
<1>11. QED
  BY <1>5, <1>6, <1>7, <1>8, <1>9, <1>10 DEF k, s, rest

-----------------------------------------------------------------------------
(* The inductive invariant.                                                *)

\* Of the issued entries of a lane, active holds those that started in the
\* lane's generation and are not settled (SlotAccounting, entry by entry).
SlotsOK(a, g, req, bod, start, pro) ==
    \A l \in Lanes, e \in Entries :
        e \in a[l] <=> /\ e \in DOMAIN req
                       /\ req[e].lane = l
                       /\ bod[e] # "none"
                       /\ pro[e] = "pending"
                       /\ start[e] = g[l]

\* ... and the queue those that neither started nor were cleared, each once.
QueuesOK(q, req, bod, pro) ==
    \A l \in Lanes :
        /\ Distinct(q[l])
        /\ \A e \in Entries :
              Queued(q[l], e) <=> /\ e \in DOMAIN req
                                  /\ req[e].lane = l
                                  /\ bod[e] = "none"
                                  /\ pro[e] = "pending"

\* drainLane, called where slots and queues are accounted for, keeps both so;
\* the lanes it drains have no stretch of idle slots left, and those where it
\* starts work are within their limit.
LEMMA PumpFacts ==
    ASSUME NEW ls \in SUBSET Lanes,
           NEW q \in [Lanes -> Seq(Entries)],
           NEW a \in [Lanes -> SUBSET Entries],
           NEW m \in [Lanes -> Nat],
           NEW g \in [Lanes -> Nat],
           Pump(ls, q, a, m, g),
           SlotsOK(a, g, request', body, startGeneration, promise'),
           QueuesOK(q, request', body, promise')
    PROVE  /\ SlotsOK(active', g, request', body', startGeneration', promise')
           /\ QueuesOK(queue', request', body', promise')
           /\ \A l \in Lanes : a[l] \subseteq active'[l]
           /\ \A l \in ls : queue'[l] # <<>> => Cardinality(active'[l]) >= m[l]
           /\ \A l \in Lanes : active'[l] # a[l] => Cardinality(active'[l]) <= m[l]
           /\ \A l \in Lanes : l \notin ls => queue'[l] = q[l] /\ active'[l] = a[l]
           /\ \A e \in Entries : \/ body'[e] = body[e] /\ startGeneration'[e] = startGeneration[e]
                                 \/ /\ e \in DOMAIN request'
                                    /\ body[e] = "none" /\ promise'[e] = "pending"
                                    /\ body'[e] = "running"
                                    /\ startGeneration'[e] = g[request'[e].lane]
<1> DEFINE s(l)      == Started(q[l], a[l], m[l])
           rest(l)   == SubSeq(q[l], Room(q[l], a[l], m[l]) + 1, Len(q[l]))
           starts(l) == IF l \in ls THEN s(l) ELSE {}
           begun     == UNION {starts(l) : l \in ls}
<1>1. /\ queue' = [l \in Lanes |-> IF l \in ls THEN rest(l) ELSE q[l]]
      /\ active' = [l \in Lanes |-> a[l] \cup starts(l)]
      /\ body' = [e \in Entries |-> IF e \in begun THEN "running" ELSE body[e]]
      /\ startGeneration' =
            [e \in Entries |-> IF e \in begun THEN g[request'[e].lane] ELSE startGeneration[e]]
  BY DEF Pump
<1>2. ASSUME NEW l \in Lanes
      PROVE  /\ s(l) \in SUBSET Entries
             /\ \A e : Queued(q[l], e) <=> e \in s(l) \/ Queued(rest(l), e)
             /\ \A e \in s(l) : ~Queued(rest(l), e)
             /\ Distinct(rest(l))
             /\ s(l) # {} => Cardinality(a[l] \cup s(l)) <= m[l]
             /\ rest(l) # <<>> => Cardinality(a[l] \cup s(l)) >= m[l]
  <2>1. q[l] \in Seq(Entries) /\ a[l] \in SUBSET Entries /\ m[l] \in Nat /\ Distinct(q[l])
    BY DEF QueuesOK
  <2>2. \A e \in a[l] : ~Queued(q[l], e)
    BY DEF QueuesOK, SlotsOK
  <2> HIDE DEF SlotsOK, QueuesOK
  <2>3. s(l) \in SUBSET Entries
    BY <2>1, RoomFacts
  <2>4. QED
    BY <2>1, <2>2, <2>3, StartedFacts
<1> HIDE DEF s, rest
<1>3. ASSUME NEW l \in Lanes, NEW e \in s(l)
      PROVE  /\ e \in Entries
             /\ e \in DOMAIN request' /\ request'[e].lane = l
             /\ body[e] = "none" /\ promise'[e] = "pending"
  BY <1>2 DEF QueuesOK
<1>4. ASSUME NEW e \in begun
      PROVE  /\ e \in Entries
             /\ e \in DOMAIN request' /\ request'[e].lane \in ls /\ e \in s(request'[e].lane)
             /\ body[e] = "none" /\ promise'[e] = "pending"
  <2>1. PICK l \in ls : e \in s(l)
    OBVIOUS
  <2>2. QED
    BY <1>3, <2>1
<1>5. ASSUME NEW l \in ls, NEW e \in s(l) PROVE e \in begun
  OBVIOUS
<1>6. ASSUME NEW l \in Lanes, l \notin ls PROVE queue'[l] = q[l] /\ active'[l] = a[l]
  BY <1>1, <1>6
<1>7. ASSUME NEW l \in ls PROVE queue'[l] = rest(l) /\ active'[l] = a[l] \cup s(l)
  BY <1>1
<1> HIDE DEF starts, begun
<1>8. ASSUME NEW l \in Lanes, NEW e \in Entries
      PROVE  e \in active'[l] <=> /\ e \in DOMAIN request'
                                  /\ request'[e].lane = l
                                  /\ body'[e] # "none"
                                  /\ promise'[e] = "pending"
                                  /\ startGeneration'[e] = g[l]
  <2>1. e \in a[l] <=> /\ e \in DOMAIN request'
                       /\ request'[e].lane = l
                       /\ body[e] # "none"
                       /\ promise'[e] = "pending"
                       /\ startGeneration[e] = g[l]
    BY DEF SlotsOK
  <2>2. CASE e \in begun
    <3>1. body'[e] = "running" /\ startGeneration'[e] = g[request'[e].lane]
      BY <1>1, <2>2
    <3>2. e \notin a[l]
      BY <1>4, <2>1, <2>2
    <3>3. e \in active'[l] <=> l \in ls /\ e \in s(l)
      BY <1>6, <1>7, <3>2
    <3>4. l \in ls /\ e \in s(l) <=> request'[e].lane = l
      BY <1>3, <1>4, <2>2
    <3>5. QED
      BY <1>4, <2>2, <3>1, <3>3, <3>4
  <2>3. CASE e \notin begun
    <3>1. body'[e] = body[e] /\ startGeneration'[e] = startGeneration[e]
      BY <1>1, <2>3
    <3>2. e \in active'[l] <=> e \in a[l]
      BY <1>5, <1>6, <1>7, <2>3
    <3>3. QED
      BY <2>1, <3>1, <3>2
  <2>4. QED
    BY <2>2, <2>3
<1>9. ASSUME NEW l \in Lanes
      PROVE  /\ Distinct(queue'[l])
             /\ \A e \in Entries :
                   Queued(queue'[l], e) <=> /\ e \in DOMAIN request'
                                            /\ request'[e].lane = l
                                            /\ body'[e] = "none"
                                            /\ promise'[e] = "pending"
  <2>1. Distinct(queue'[l])
    <3>1. Distinct(q[l])
      BY DEF QueuesOK
    <3>2. Distinct(rest(l))
      BY <1>2
    <3>3. queue'[l] = q[l] \/ queue'[l] = rest(l)
      BY <1>6, <1>7
    <3>4. QED
      BY <3>1, <3>2, <3>3
  <2>2. ASSUME NEW e \in Entries
        PROVE  Queued(queue'[l], e) <=> Queued(q[l], e) /\ e \notin begun
    <3>1. CASE l \in ls
      <4>1. Queued(queue'[l], e) <=> Queued(q[l], e) /\ e \notin s(l)
        BY <1>2, <1>7, <3>1
      <4>2. Queued(q[l], e) /\ e \in begun => e \in s(l)
        BY <1>4 DEF QueuesOK
      <4>3. e \in s(l) => e \in begun
        BY <1>5, <3>1
      <4>4. QED
        BY <4>1, <4>2, <4>3
    <3>2. CASE l \notin ls
      <4>1. Queued(q[l], e) => request'[e].lane = l
        BY DEF QueuesOK
      <4>2. e \in begun => request'[e].lane \in ls
        BY <1>4
      <4>3. QED
        BY <1>6, <3>2, <4>1, <4>2
    <3>3. QED
      BY <3>1, <3>2
  <2>3. ASSUME NEW e \in Entries
        PROVE  body'[e] = "none" <=> body[e] = "none" /\ e \notin begun
    BY <1>1
  <2>4. QED
    BY <2>1, <2>2, <2>3 DEF QueuesOK
<1>10. ASSUME NEW l \in Lanes, active'[l] # a[l]
       PROVE  Cardinality(active'[l]) <= m[l]
  <2>1. l \in ls /\ s(l) # {}
    BY <1>6, <1>7, <1>10
  <2>2. QED
    BY <1>2, <1>7, <2>1
<1>11. ASSUME NEW l \in ls, queue'[l] # <<>>
       PROVE  Cardinality(active'[l]) >= m[l]
  BY <1>2, <1>7, <1>11
<1>12. ASSUME NEW e \in Entries
       PROVE  \/ body'[e] = body[e] /\ startGeneration'[e] = startGeneration[e]
              \/ /\ e \in DOMAIN request'
                 /\ body[e] = "none" /\ promise'[e] = "pending"
                 /\ body'[e] = "running"
                 /\ startGeneration'[e] = g[request'[e].lane]
  BY <1>1, <1>4
<1>13. \A l \in Lanes : a[l] \subseteq active'[l]
  BY <1>1
<1>14. SlotsOK(active', g, request', body', startGeneration', promise')
  BY <1>8 DEF SlotsOK
<1>15. QueuesOK(queue', request', body', promise')
  BY <1>9 DEF QueuesOK
<1>16. QED
  BY <1>6, <1>10, <1>11, <1>12, <1>13, <1>14, <1>15

\* What an entry has been through is in order: nothing happens to it before it
\* is issued, a race is decided only after a start, a cleared entry did not
\* start, and it did not start in a generation yet to come.
EntriesOK(g, req, bod, rac, start, pro) ==
    \A e \in Entries :
        /\ e \notin DOMAIN req => bod[e] = "none" /\ rac[e] = "none" /\ pro[e] = "pending"
        /\ rac[e] # "none" => bod[e] # "none"
        /\ pro[e] = "cleared" => bod[e] = "none"
        /\ e \in DOMAIN req /\ bod[e] # "none" => start[e] <= g[req[e].lane]

\* The conjuncts that strengthen each other: SlotAccounting and QueueAccounting
\* follow from the first two, and none of the four is inductive alone.
Core ==
    /\ SlotsOK(active, generation, request, body, startGeneration, promise)
    /\ QueuesOK(queue, request, body, promise)
    /\ EntriesOK(generation, request, body, race, startGeneration, promise)
    /\ WorkConserving

IInv == TypeInv /\ Core /\ NoLostWakeup

\* The step StartsWithinLimit allows.
WithinLimit ==
    \A l \in Lanes :
        ~(active'[l] \subseteq active[l]) => Cardinality(active'[l]) <= maxConcurrent'[l]

\* What an action that ends in drainLane hands to it: the queues q, active sets
\* a, slots m and generations g, in order but for the lanes ls to be drained.
Handed(ls, q, a, m, g) ==
    /\ ls \in SUBSET Lanes
    /\ q \in [Lanes -> Seq(Entries)]
    /\ a \in [Lanes -> SUBSET Entries]
    /\ m \in [Lanes -> Nat]
    /\ g \in [Lanes -> Nat]
    /\ request' \in Seq(Request)
    /\ maxConcurrent' = m
    /\ generation' = g
    /\ SlotsOK(a, g, request', body, startGeneration, promise')
    /\ QueuesOK(q, request', body, promise')
    /\ EntriesOK(g, request', body, race', startGeneration, promise')
    /\ \A l \in Lanes : l \notin ls /\ q[l] # <<>> => Cardinality(a[l]) >= m[l]
    /\ \A l \in Lanes : a[l] \subseteq active[l]

\* The call of drainLane an action ends in, when it left the queues alone.
Drains == \E ls, a, m, g : Handed(ls, queue, a, m, g) /\ Pump(ls, queue, a, m, g)

\* Such an action keeps Core.
LEMMA PumpStep ==
    ASSUME NEW ls, NEW q, NEW a, NEW m, NEW g,
           Handed(ls, q, a, m, g),
           Pump(ls, q, a, m, g)
    PROVE  /\ Core' /\ WithinLimit
           /\ \A l \in Lanes : a[l] \subseteq active'[l]
           /\ \A l \in Lanes : active'[l] # a[l] => Cardinality(active'[l]) <= m[l]
<1>a. /\ ls \in SUBSET Lanes
      /\ q \in [Lanes -> Seq(Entries)]
      /\ a \in [Lanes -> SUBSET Entries]
      /\ m \in [Lanes -> Nat]
      /\ g \in [Lanes -> Nat]
      /\ SlotsOK(a, g, request', body, startGeneration, promise')
      /\ QueuesOK(q, request', body, promise')
  BY DEF Handed
<1>b. /\ request' \in Seq(Request)
      /\ maxConcurrent' = m
      /\ generation' = g
      /\ EntriesOK(g, request', body, race', startGeneration, promise')
      /\ \A l \in Lanes : l \notin ls /\ q[l] # <<>> => Cardinality(a[l]) >= m[l]
      /\ \A l \in Lanes : a[l] \subseteq active[l]
  BY DEF Handed
<1>1. /\ SlotsOK(active', g, request', body', startGeneration', promise')
      /\ QueuesOK(queue', request', body', promise')
      /\ \A l \in Lanes : a[l] \subseteq active'[l]
      /\ \A l \in ls : queue'[l] # <<>> => Cardinality(active'[l]) >= m[l]
      /\ \A l \in Lanes : active'[l] # a[l] => Cardinality(active'[l]) <= m[l]
      /\ \A l \in Lanes : l \notin ls => queue'[l] = q[l] /\ active'[l] = a[l]
      /\ \A e \in Entries : \/ body'[e] = body[e] /\ startGeneration'[e] = startGeneration[e]
                            \/ /\ e \in DOMAIN request'
                               /\ body[e] = "none" /\ promise'[e] = "pending"
                               /\ body'[e] = "running"
                               /\ startGeneration'[e] = g[request'[e].lane]
  BY <1>a, PumpFacts, ZenonT(120)
<1>2. EntriesOK(g, request', body', race', startGeneration', promise')
  <2> SUFFICES ASSUME NEW e \in Entries
               PROVE  /\ e \notin DOMAIN request' =>
                            body'[e] = "none" /\ race'[e] = "none" /\ promise'[e] = "pending"
                      /\ race'[e] # "none" => body'[e] # "none"
                      /\ promise'[e] = "cleared" => body'[e] = "none"
                      /\ e \in DOMAIN request' /\ body'[e] # "none"
                            => startGeneration'[e] <= g[request'[e].lane]
    BY DEF EntriesOK
  <2>1. CASE body'[e] = body[e] /\ startGeneration'[e] = startGeneration[e]
    BY <1>b, <2>1 DEF EntriesOK
  <2>2. CASE /\ e \in DOMAIN request'
             /\ body[e] = "none" /\ promise'[e] = "pending"
             /\ body'[e] = "running"
             /\ startGeneration'[e] = g[request'[e].lane]
    <3>1. request'[e] \in Request
      BY <1>b, <2>2
    <3>2. g[request'[e].lane] \in Nat
      BY <1>a, <3>1 DEF Request
    <3>3. QED
      BY <1>b, <2>2, <3>2 DEF EntriesOK
  <2>3. QED
    BY <1>1, <2>1, <2>2
<1>3. WorkConserving'
  <2> SUFFICES ASSUME NEW l \in Lanes, queue'[l] # <<>>
               PROVE  Cardinality(active'[l]) >= m[l]
    BY <1>b DEF WorkConserving
  <2>1. QED
    BY <1>1, <1>b
<1>4. WithinLimit
  <2> SUFFICES ASSUME NEW l \in Lanes, ~(active'[l] \subseteq active[l])
               PROVE  Cardinality(active'[l]) <= m[l]
    BY <1>b DEF WithinLimit
  <2>1. active'[l] # a[l]
    BY <1>b
  <2>2. QED
    BY <1>1, <2>1
<1>5. QED
  BY <1>1, <1>2, <1>3, <1>4, <1>b DEF Core

\* enqueueLaneEntry adds the entry to the queue, once.
LEMMA InsertQueued ==
    ASSUME NEW q \in Seq(Entries), NEW e \in Entries, NEW r, Distinct(q), ~Queued(q, e)
    PROVE  /\ Insert(q, e, r) \in Seq(Entries)
           /\ Distinct(Insert(q, e, r))
           /\ \A f : Queued(Insert(q, e, r), f) <=> Queued(q, f) \/ f = e
<1> DEFINE t == Insert(q, e, r)
<1>1. t \in Seq(Entries) /\ Len(t) = Len(q) + 1
  BY InsertFacts
<1>2. PICK at \in 1..(Len(q) + 1) :
        \A i \in 1..(Len(q) + 1) :
            t[i] = IF i < at THEN q[i] ELSE IF i = at THEN e ELSE q[i - 1]
  BY InsertFacts
<1> HIDE DEF t
<1>3. ASSUME NEW i \in 1..(Len(q) + 1), i # at
      PROVE  LET j == IF i < at THEN i ELSE i - 1 IN j \in 1..Len(q) /\ t[i] = q[j]
  <2>1. CASE i < at
    BY <1>2, <2>1
  <2>2. CASE i > at
    BY <1>2, <2>2
  <2>3. QED
    BY <1>3, <2>1, <2>2
<1>4. ASSUME NEW j \in 1..Len(q)
      PROVE  \E i \in 1..(Len(q) + 1) : t[i] = q[j]
  <2>1. CASE j < at
    <3>1. j \in 1..(Len(q) + 1) /\ t[j] = q[j]
      BY <1>2, <2>1
    <3>2. QED
      BY <3>1
  <2>2. CASE j >= at
    <3>1. j + 1 \in 1..(Len(q) + 1) /\ ~(j + 1 < at) /\ j + 1 # at /\ (j + 1) - 1 = j
      BY <2>2
    <3>2. t[j + 1] = q[j]
      BY <1>2, <3>1
    <3>3. QED
      BY <3>1, <3>2
  <2>3. QED
    BY <2>1, <2>2
<1>5. t[at] = e
  BY <1>2
<1>6. ASSUME NEW f PROVE Queued(t, f) <=> Queued(q, f) \/ f = e
  <2>1. ASSUME Queued(t, f) PROVE Queued(q, f) \/ f = e
    <3>1. PICK i \in 1..(Len(q) + 1) : t[i] = f
      BY <1>1, <2>1 DEF Queued
    <3>2. CASE i = at
      BY <1>5, <3>1, <3>2
    <3>3. CASE i # at
      BY <1>3, <3>1, <3>3 DEF Queued
    <3>4. QED
      BY <3>2, <3>3
  <2>2. ASSUME Queued(q, f) PROVE Queued(t, f)
    BY <1>1, <1>4, <2>2 DEF Queued
  <2>3. Queued(t, e)
    BY <1>1, <1>5 DEF Queued
  <2>4. QED
    BY <2>1, <2>2, <2>3
<1>7. Distinct(t)
  <2> SUFFICES ASSUME NEW i \in 1..(Len(q) + 1), NEW j \in 1..(Len(q) + 1), t[i] = t[j]
               PROVE  i = j
    BY <1>1 DEF Distinct
  <2>1. CASE i = at \/ j = at
    <3>1. ASSUME NEW k \in 1..(Len(q) + 1), t[k] = e PROVE k = at
      BY <1>3, <3>1 DEF Queued
    <3>2. QED
      BY <1>5, <2>1, <3>1
  <2>2. CASE i # at /\ j # at
    <3> DEFINE i0 == IF i < at THEN i ELSE i - 1
               j0 == IF j < at THEN j ELSE j - 1
    <3>1. i0 \in 1..Len(q) /\ j0 \in 1..Len(q) /\ t[i] = q[i0] /\ t[j] = q[j0]
      BY <1>3, <2>2
    <3>2. i0 = j0
      BY <3>1 DEF Distinct
    <3>3. QED
      BY <2>2, <3>2
  <2>3. QED
    BY <2>1, <2>2
<1>8. QED
  BY <1>1, <1>6, <1>7 DEF t

-----------------------------------------------------------------------------
(* Core is inductive: one lemma for each action that pumps or clears.      *)

\* The core of the invariant holds initially.
LEMMA CoreInit == Init => Core
<1> SUFFICES ASSUME Init PROVE Core
  OBVIOUS
<1>1. SlotsOK(active, generation, request, body, startGeneration, promise)
  BY DEF Init, SlotsOK
<1>2. QueuesOK(queue, request, body, promise)
  BY DEF Init, QueuesOK, Queued, Distinct
<1>3. EntriesOK(generation, request, body, race, startGeneration, promise)
  BY DEF Init, EntriesOK
<1>4. WorkConserving
  BY DEF Init, WorkConserving
<1>5. QED
  BY <1>1, <1>2, <1>3, <1>4 DEF Core

\* An enqueue keeps the core.
LEMMA CoreEnqueue ==
    ASSUME TypeInv, Core,
           NEW l \in Lanes, NEW p \in Priorities, NEW t \in Timeouts,
           Enqueue(l, p, t)
    PROVE  LET q == [queue EXCEPT ![l] =
                        Insert(@, Len(request) + 1,
                               [lane |-> l, priority |-> p, timed |-> t])]
           IN  /\ Core' /\ WithinLimit
               /\ \A k \in Lanes : active[k] \subseteq active'[k]
               /\ Handed({l}, q, active, maxConcurrent, generation)
               /\ Pump({l}, q, active, maxConcurrent, generation)
<1> DEFINE e == Len(request) + 1
           r == [lane |-> l, priority |-> p, timed |-> t]
           q == [queue EXCEPT ![l] = Insert(@, e, r)]
<1>1. /\ e \in Entries
      /\ request' = Append(request, r)
      /\ Pump({l}, q, active, maxConcurrent, generation)
      /\ UNCHANGED <<maxConcurrent, generation, race, promise>>
  BY DEF Enqueue
<1>2. /\ request \in Seq(Request)
      /\ queue \in [Lanes -> Seq(Entries)]
      /\ active \in [Lanes -> SUBSET Entries]
      /\ maxConcurrent \in [Lanes -> Nat]
      /\ generation \in [Lanes -> Nat]
  BY DEF TypeInv, TypeOK
<1>3. r \in Request
  BY DEF Request
<1>4. /\ request' \in Seq(Request)
      /\ DOMAIN request' = DOMAIN request \cup {e}
      /\ request'[e].lane = l
      /\ e \notin DOMAIN request
      /\ \A f \in DOMAIN request : request'[f] = request[f]
  <2>1. request'[e] = r
    BY <1>1, <1>2, <1>3
  <2>2. r.lane = l
    OBVIOUS
  <2> HIDE DEF r
  <2>3. QED
    BY <1>1, <1>2, <1>3, <2>1, <2>2
<1> HIDE DEF e, r
<1>5. /\ SlotsOK(active, generation, request, body, startGeneration, promise)
      /\ QueuesOK(queue, request, body, promise)
      /\ EntriesOK(generation, request, body, race, startGeneration, promise)
  BY DEF Core
<1>6. body[e] = "none" /\ race[e] = "none" /\ promise[e] = "pending"
  BY <1>1, <1>4, <1>5 DEF EntriesOK
<1>7. /\ q \in [Lanes -> Seq(Entries)]
      /\ Distinct(q[l])
      /\ \A f \in Entries : Queued(q[l], f) <=> Queued(queue[l], f) \/ f = e
      /\ \A k \in Lanes : k # l => q[k] = queue[k]
  <2>1. queue[l] \in Seq(Entries) /\ Distinct(queue[l]) /\ ~Queued(queue[l], e)
    BY <1>1, <1>2, <1>4, <1>5 DEF QueuesOK
  <2> DEFINE ql == Insert(queue[l], e, r)
  <2>2. /\ ql \in Seq(Entries)
        /\ Distinct(ql)
        /\ \A f : Queued(ql, f) <=> Queued(queue[l], f) \/ f = e
    BY <1>1, <2>1, InsertQueued
  <2> HIDE DEF ql
  <2>3. q = [queue EXCEPT ![l] = ql]
    BY DEF ql
  <2> HIDE DEF q
  <2>4. q[l] = ql /\ \A k \in Lanes : k # l => q[k] = queue[k]
    BY <1>2, <2>3
  <2>5. q \in [Lanes -> Seq(Entries)]
    BY <1>2, <2>2, <2>3
  <2>6. QED
    BY <2>2, <2>4, <2>5
<1> HIDE DEF q
<1>8. SlotsOK(active, generation, request', body, startGeneration, promise')
  BY <1>1, <1>4, <1>5, <1>6 DEF SlotsOK
<1>9. QueuesOK(q, request', body, promise')
  <2> SUFFICES ASSUME NEW k \in Lanes
               PROVE  /\ Distinct(q[k])
                      /\ \A f \in Entries :
                            Queued(q[k], f) <=> /\ f \in DOMAIN request'
                                                /\ request'[f].lane = k
                                                /\ body[f] = "none"
                                                /\ promise'[f] = "pending"
    BY DEF QueuesOK
  <2>1. /\ Distinct(queue[k])
        /\ \A f \in Entries :
              Queued(queue[k], f) <=> /\ f \in DOMAIN request
                                      /\ request[f].lane = k
                                      /\ body[f] = "none"
                                      /\ promise[f] = "pending"
    BY <1>5 DEF QueuesOK
  <2>2. CASE k = l
    BY <1>1, <1>4, <1>6, <1>7, <2>1, <2>2
  <2>3. CASE k # l
    BY <1>1, <1>4, <1>7, <2>1, <2>3
  <2>4. QED
    BY <2>2, <2>3
<1>10. EntriesOK(generation, request', body, race', startGeneration, promise')
  BY <1>1, <1>4, <1>5, <1>6 DEF EntriesOK
<1>11. \A k \in Lanes : k \notin {l} /\ q[k] # <<>> => Cardinality(active[k]) >= maxConcurrent[k]
  BY <1>7 DEF Core, WorkConserving
<1>12. Handed({l}, q, active, maxConcurrent, generation)
  BY <1>1, <1>2, <1>4, <1>7, <1>8, <1>9, <1>10, <1>11 DEF Handed
<1>13. /\ Core' /\ WithinLimit
       /\ \A k \in Lanes : active[k] \subseteq active'[k]
  BY <1>1, <1>12, PumpStep
<1>14. QED
  BY <1>1, <1>12, <1>13 DEF q, e, r

\* A new limit drains the lane, or stops it.
LEMMA LimitHands ==
    ASSUME TypeInv, Core, NEW l \in Lanes, NEW n \in Int, SetConcurrency(l, n)
    PROVE  \/ /\ Handed({l}, queue, active, maxConcurrent', generation)
              /\ Pump({l}, queue, active, maxConcurrent', generation)
           \/ Core' /\ UNCHANGED <<queue, active, body, startGeneration>>
<1> DEFINE slots == Slots(l, n)
           m == [maxConcurrent EXCEPT ![l] = slots]
<1>1. /\ maxConcurrent' = m
      /\ UNCHANGED <<generation, request, race, promise>>
      /\ IF slots > 0 THEN Pump({l}, queue, active, m, generation)
         ELSE UNCHANGED <<queue, active, body, startGeneration>>
  BY DEF SetConcurrency
<1>2. /\ request \in Seq(Request)
      /\ queue \in [Lanes -> Seq(Entries)]
      /\ active \in [Lanes -> SUBSET Entries]
      /\ maxConcurrent \in [Lanes -> Nat]
      /\ generation \in [Lanes -> Nat]
  BY DEF TypeInv, TypeOK
<1>3. slots \in Nat
  BY DEF Slots
<1> HIDE DEF slots
<1>4. m \in [Lanes -> Nat] /\ m[l] = slots /\ \A k \in Lanes : k # l => m[k] = maxConcurrent[k]
  BY <1>2, <1>3
<1> HIDE DEF m
<1>5. /\ SlotsOK(active, generation, request, body, startGeneration, promise)
      /\ QueuesOK(queue, request, body, promise)
      /\ EntriesOK(generation, request, body, race, startGeneration, promise)
      /\ \A k \in Lanes : queue[k] # <<>> => Cardinality(active[k]) >= maxConcurrent[k]
  BY DEF Core, WorkConserving
<1>6. CASE slots > 0
  <2>1. Handed({l}, queue, active, m, generation)
    <3>1. \A k \in Lanes : k \notin {l} /\ queue[k] # <<>> => Cardinality(active[k]) >= m[k]
      BY <1>4, <1>5
    <3>2. QED
      BY <1>1, <1>2, <1>4, <1>5, <3>1 DEF Handed
  <2>2. QED
    BY <1>1, <1>6, <2>1
<1>7. CASE ~(slots > 0)
  <2>1. UNCHANGED <<queue, active, body, startGeneration>>
    BY <1>1, <1>7
  <2>2. Cardinality(active[l]) >= m[l]
    <3>1. Cardinality(active[l]) \in Nat
      BY <1>2, EntriesFinite
    <3>2. QED
      BY <1>3, <1>4, <1>7, <3>1
  <2>3. \A k \in Lanes : queue[k] # <<>> => Cardinality(active[k]) >= m[k]
    BY <1>4, <1>5, <2>2
  <2>4. Core'
    BY <1>1, <1>5, <2>1, <2>3 DEF Core, WorkConserving
  <2>5. QED
    BY <2>1, <2>4
<1>8. QED
  BY <1>6, <1>7

\* A new limit keeps the core.
LEMMA CoreSetConcurrency ==
    ASSUME TypeInv, Core, NEW l \in Lanes, NEW n \in Int, SetConcurrency(l, n)
    PROVE  /\ Core' /\ WithinLimit
           /\ \A k \in Lanes : active[k] \subseteq active'[k]
           /\ Drains \/ UNCHANGED <<queue, body>>
<1>1. CASE /\ Handed({l}, queue, active, maxConcurrent', generation)
           /\ Pump({l}, queue, active, maxConcurrent', generation)
  <2>1. Drains
    BY <1>1 DEF Drains
  <2>2. QED
    BY <1>1, <2>1, PumpStep
<1>2. CASE Core' /\ UNCHANGED <<queue, active, body, startGeneration>>
  BY <1>2 DEF WithinLimit
<1>3. QED
  BY <1>1, <1>2, LimitHands

\* The elements of a queue, as a set.
LEMMA ToSetQueued ==
    ASSUME NEW q \in Seq(Entries), NEW e
    PROVE  e \in ToSet(q) <=> Queued(q, e)
  BY DEF ToSet, Queued

\* A clear keeps the core.
LEMMA CoreClear ==
    ASSUME TypeInv, Core, NEW l \in Lanes, Clear(l)
    PROVE  Core' /\ UNCHANGED active
<1>1. /\ queue' = [queue EXCEPT ![l] = <<>>]
      /\ promise' = [e \in Entries |-> IF e \in ToSet(queue[l]) THEN "cleared" ELSE promise[e]]
      /\ UNCHANGED <<active, maxConcurrent, generation, request, body, race, startGeneration>>
  BY DEF Clear
<1>2. queue \in [Lanes -> Seq(Entries)]
  BY DEF TypeInv, TypeOK
<1>3. /\ SlotsOK(active, generation, request, body, startGeneration, promise)
      /\ QueuesOK(queue, request, body, promise)
      /\ EntriesOK(generation, request, body, race, startGeneration, promise)
      /\ WorkConserving
  BY DEF Core
<1>4. ASSUME NEW e \in Entries
      PROVE  \/ /\ e \in DOMAIN request /\ request[e].lane = l
                /\ body[e] = "none" /\ promise[e] = "pending" /\ promise'[e] = "cleared"
             \/ /\ promise'[e] = promise[e]
                /\ ~(e \in DOMAIN request /\ request[e].lane = l
                       /\ body[e] = "none" /\ promise[e] = "pending")
  <2>1. e \in ToSet(queue[l]) <=> Queued(queue[l], e)
    BY <1>2, ToSetQueued
  <2>2. QED
    BY <1>1, <1>3, <2>1 DEF QueuesOK
<1>5. SlotsOK(active, generation, request, body, startGeneration, promise')
  BY <1>3, <1>4 DEF SlotsOK
<1>6. QueuesOK(queue', request, body, promise')
  <2> SUFFICES ASSUME NEW k \in Lanes
               PROVE  /\ Distinct(queue'[k])
                      /\ \A e \in Entries :
                            Queued(queue'[k], e) <=> /\ e \in DOMAIN request
                                                     /\ request[e].lane = k
                                                     /\ body[e] = "none"
                                                     /\ promise'[e] = "pending"
    BY DEF QueuesOK
  <2>1. CASE k = l
    <3>1. queue'[k] = <<>>
      BY <1>1, <1>2, <2>1
    <3>2. Distinct(queue'[k]) /\ \A e : ~Queued(queue'[k], e)
      BY <3>1 DEF Distinct, Queued
    <3>3. QED
      BY <1>4, <2>1, <3>2
  <2>2. CASE k # l
    <3>1. queue'[k] = queue[k]
      BY <1>1, <1>2, <2>2
    <3>2. QED
      BY <1>3, <1>4, <2>2, <3>1 DEF QueuesOK
  <2>3. QED
    BY <2>1, <2>2
<1>7. EntriesOK(generation, request, body, race, startGeneration, promise')
  BY <1>3, <1>4 DEF EntriesOK
<1>8. WorkConserving'
  BY <1>1, <1>2, <1>3 DEF WorkConserving
<1>9. QED
  BY <1>1, <1>5, <1>6, <1>7, <1>8 DEF Core

\* A reset starts a generation in which nothing has started, so no active set
\* is lost and no slot is freed twice.
LEMMA IdleHands ==
    ASSUME TypeInv, Core, NEW ls \in SUBSET Lanes, Idle(ls)
    PROVE  LET a == [l \in Lanes |-> IF l \in ls THEN {} ELSE active[l]]
           IN  /\ Handed(ls, queue, a, maxConcurrent, generation')
               /\ Pump(ls, queue, a, maxConcurrent, generation')
<1> DEFINE a == [l \in Lanes |-> IF l \in ls THEN {} ELSE active[l]]
           g == [l \in Lanes |-> IF l \in ls THEN generation[l] + 1 ELSE generation[l]]
<1>1. /\ generation' = g
      /\ UNCHANGED <<maxConcurrent, request, race, promise>>
      /\ Pump(ls, queue, a, maxConcurrent, g)
  BY DEF Idle
<1>2. /\ request \in Seq(Request)
      /\ queue \in [Lanes -> Seq(Entries)]
      /\ active \in [Lanes -> SUBSET Entries]
      /\ maxConcurrent \in [Lanes -> Nat]
      /\ generation \in [Lanes -> Nat]
      /\ startGeneration \in [Entries -> Nat]
  BY DEF TypeInv, TypeOK
<1>3. /\ SlotsOK(active, generation, request, body, startGeneration, promise)
      /\ QueuesOK(queue, request, body, promise)
      /\ EntriesOK(generation, request, body, race, startGeneration, promise)
      /\ \A k \in Lanes : queue[k] # <<>> => Cardinality(active[k]) >= maxConcurrent[k]
  BY DEF Core, WorkConserving
<1>4. /\ a \in [Lanes -> SUBSET Entries] /\ g \in [Lanes -> Nat]
      /\ \A l \in Lanes : /\ l \in ls => a[l] = {} /\ g[l] = generation[l] + 1
                          /\ l \notin ls => a[l] = active[l] /\ g[l] = generation[l]
  BY <1>2
<1> HIDE DEF a, g
<1>5. SlotsOK(a, g, request, body, startGeneration, promise)
  <2> SUFFICES ASSUME NEW l \in Lanes, NEW e \in Entries
               PROVE  e \in a[l] <=> /\ e \in DOMAIN request
                                     /\ request[e].lane = l
                                     /\ body[e] # "none"
                                     /\ promise[e] = "pending"
                                     /\ startGeneration[e] = g[l]
    BY DEF SlotsOK
  <2>1. CASE l \in ls
    <3>1. e \in DOMAIN request /\ request[e].lane = l /\ body[e] # "none"
             => startGeneration[e] <= generation[l]
      BY <1>3 DEF EntriesOK
    <3>2. startGeneration[e] \in Nat /\ generation[l] \in Nat
      BY <1>2
    <3>3. QED
      BY <1>4, <2>1, <3>1, <3>2
  <2>2. CASE l \notin ls
    BY <1>3, <1>4, <2>2 DEF SlotsOK
  <2>3. QED
    BY <2>1, <2>2
<1>6. EntriesOK(g, request, body, race, startGeneration, promise)
  <2> SUFFICES ASSUME NEW e \in Entries
               PROVE  /\ e \notin DOMAIN request =>
                            body[e] = "none" /\ race[e] = "none" /\ promise[e] = "pending"
                      /\ race[e] # "none" => body[e] # "none"
                      /\ promise[e] = "cleared" => body[e] = "none"
                      /\ e \in DOMAIN request /\ body[e] # "none"
                            => startGeneration[e] <= g[request[e].lane]
    BY DEF EntriesOK
  <2>1. ASSUME e \in DOMAIN request, body[e] # "none"
        PROVE  startGeneration[e] <= g[request[e].lane]
    <3>1. request[e] \in Request
      BY <1>2, <2>1
    <3>2. request[e].lane \in Lanes
      BY <3>1 DEF Request
    <3>3. startGeneration[e] <= generation[request[e].lane]
      BY <1>3, <2>1 DEF EntriesOK
    <3>4. ASSUME NEW l \in Lanes, startGeneration[e] <= generation[l]
          PROVE  startGeneration[e] <= g[l]
      <4>1. startGeneration[e] \in Nat /\ generation[l] \in Nat
        BY <1>2
      <4>2. g[l] = generation[l] + 1 \/ g[l] = generation[l]
        BY <1>4
      <4>3. QED
        BY <3>4, <4>1, <4>2
    <3>5. QED
      BY <3>2, <3>3, <3>4
  <2>2. QED
    BY <1>3, <2>1 DEF EntriesOK
<1>7. Handed(ls, queue, a, maxConcurrent, g)
  BY <1>1, <1>2, <1>3, <1>4, <1>5, <1>6 DEF Handed
<1>8. QED
  BY <1>1, <1>7 DEF a

\* A reset keeps the core.
LEMMA CoreIdle ==
    ASSUME TypeInv, Core, NEW ls \in SUBSET Lanes, Idle(ls)
    PROVE  Core' /\ WithinLimit /\ Drains
<1> DEFINE a == [l \in Lanes |-> IF l \in ls THEN {} ELSE active[l]]
<1>1. /\ Handed(ls, queue, a, maxConcurrent, generation')
      /\ Pump(ls, queue, a, maxConcurrent, generation')
  BY IdleHands
<1> HIDE DEF a
<1>2. Drains
  BY <1>1 DEF Drains
<1>3. QED
  BY <1>1, <1>2, PumpStep

\* The end of a task frees its slot if and only if the lane was not reset
\* since the task started: only then does it hold one.
LEMMA SettleHands ==
    ASSUME TypeInv, Core, NEW e \in Entries, Settle(e)
    PROVE  LET l == request[e].lane
               a == [active EXCEPT ![l] = @ \ {e}]
           IN  \/ /\ Handed({l}, queue, a, maxConcurrent, generation)
                  /\ Pump({l}, queue, a, maxConcurrent, generation)
               \/ /\ \A k \in Lanes : e \notin active[k]
                  /\ Core' /\ UNCHANGED <<queue, active, body, startGeneration>>
<1> DEFINE l == request[e].lane
           a == [active EXCEPT ![l] = @ \ {e}]
<1>1. /\ e \in DOMAIN request
      /\ race[e] # "none"
      /\ promise[e] = "pending"
      /\ UNCHANGED <<maxConcurrent, generation, request, race>>
      /\ \/ Pump({l}, queue, a, maxConcurrent, generation)
         \/ /\ startGeneration[e] # generation[l]
            /\ UNCHANGED <<queue, active, body, startGeneration>>
      /\ promise' = [promise EXCEPT ![e] = IF race[e] = "task" THEN "settled" ELSE "timedOut"]
  BY DEF Settle, Releases, Issued
<1>2. /\ request \in Seq(Request)
      /\ queue \in [Lanes -> Seq(Entries)]
      /\ active \in [Lanes -> SUBSET Entries]
      /\ maxConcurrent \in [Lanes -> Nat]
      /\ generation \in [Lanes -> Nat]
      /\ promise \in [Entries -> Promises]
  BY DEF TypeInv, TypeOK
<1>3. /\ SlotsOK(active, generation, request, body, startGeneration, promise)
      /\ QueuesOK(queue, request, body, promise)
      /\ EntriesOK(generation, request, body, race, startGeneration, promise)
      /\ \A k \in Lanes : queue[k] # <<>> => Cardinality(active[k]) >= maxConcurrent[k]
  BY DEF Core, WorkConserving
<1>4. l \in Lanes
  <2>1. request[e] \in Request
    BY <1>1, <1>2
  <2>2. QED
    BY <2>1 DEF Request
<1>5. body[e] # "none"
  BY <1>1, <1>3 DEF EntriesOK
<1>6. /\ promise'[e] \in {"settled", "timedOut"}
      /\ \A f \in Entries : f # e => promise'[f] = promise[f]
  BY <1>1, <1>2
<1>7. QueuesOK(queue, request, body, promise')
  BY <1>3, <1>5, <1>6 DEF QueuesOK
<1>8. EntriesOK(generation, request, body, race, startGeneration, promise')
  BY <1>1, <1>3, <1>6 DEF EntriesOK
<1>9. /\ a \in [Lanes -> SUBSET Entries]
      /\ a[l] = active[l] \ {e}
      /\ \A k \in Lanes : k # l => a[k] = active[k]
  BY <1>2, <1>4
<1>10. \A f \in Entries, k \in Lanes : f \in active[k] => k = request[f].lane
  BY <1>3 DEF SlotsOK
<1>11. SlotsOK(a, generation, request, body, startGeneration, promise')
  <2> SUFFICES ASSUME NEW k \in Lanes, NEW f \in Entries
               PROVE  f \in a[k] <=> /\ f \in DOMAIN request
                                     /\ request[f].lane = k
                                     /\ body[f] # "none"
                                     /\ promise'[f] = "pending"
                                     /\ startGeneration[f] = generation[k]
    BY DEF SlotsOK
  <2>1. f \in a[k] <=> f \in active[k] /\ f # e
    BY <1>9, <1>10
  <2>2. promise'[f] = "pending" <=> promise[f] = "pending" /\ f # e
    BY <1>6
  <2> HIDE DEF l, a
  <2>3. QED
    BY <1>3, <2>1, <2>2 DEF SlotsOK
<1> HIDE DEF a, l
<1>12. CASE Pump({l}, queue, a, maxConcurrent, generation)
  <2>1. {l} \in SUBSET Lanes /\ \A k \in Lanes : a[k] \subseteq active[k]
    BY <1>4, <1>9
  <2>2. \A k \in Lanes : k \notin {l} /\ queue[k] # <<>> => Cardinality(a[k]) >= maxConcurrent[k]
    BY <1>3, <1>9
  <2>3. Handed({l}, queue, a, maxConcurrent, generation)
    BY <1>1, <1>2, <1>7, <1>8, <1>9, <1>11, <2>1, <2>2 DEF Handed
  <2>4. QED
    BY <1>12, <2>3 DEF a, l
<1>13. CASE /\ startGeneration[e] # generation[l]
            /\ UNCHANGED <<queue, active, body, startGeneration>>
  <2>1. e \notin active[l]
    BY <1>3, <1>4, <1>13 DEF SlotsOK
  <2>2. \A k \in Lanes : a[k] = active[k]
    BY <1>9, <2>1
  <2>3. SlotsOK(active, generation, request, body, startGeneration, promise')
    BY <1>11, <2>2 DEF SlotsOK
  <2>4. Core'
    BY <1>1, <1>3, <1>7, <1>8, <1>13, <2>3 DEF Core, WorkConserving
  <2>5. \A k \in Lanes : e \notin active[k]
    BY <1>10, <2>1 DEF l
  <2>6. QED
    BY <1>13, <2>4, <2>5
<1>14. QED
  BY <1>1, <1>12, <1>13 DEF a, l

\* The end of a task keeps the core.
LEMMA CoreSettle ==
    ASSUME TypeInv, Core, NEW e \in Entries, Settle(e)
    PROVE  Core' /\ WithinLimit /\ (Drains \/ UNCHANGED <<queue, body>>)
<1> DEFINE l == request[e].lane
           a == [active EXCEPT ![l] = @ \ {e}]
<1>1. \/ /\ Handed({l}, queue, a, maxConcurrent, generation)
         /\ Pump({l}, queue, a, maxConcurrent, generation)
      \/ Core' /\ UNCHANGED <<queue, active, body, startGeneration>>
  BY SettleHands
<1> HIDE DEF l, a
<1>2. CASE /\ Handed({l}, queue, a, maxConcurrent, generation)
           /\ Pump({l}, queue, a, maxConcurrent, generation)
  <2>1. Drains
    BY <1>2 DEF Drains
  <2>2. QED
    BY <1>2, <2>1, PumpStep
<1>3. CASE Core' /\ UNCHANGED <<queue, active, body, startGeneration>>
  BY <1>3 DEF WithinLimit
<1>4. QED
  BY <1>1, <1>2, <1>3

\* The end of a task's function keeps the core.
LEMMA CoreFinishBody ==
    ASSUME TypeInv, Core, NEW e \in Entries, FinishBody(e)
    PROVE  Core' /\ UNCHANGED active
<1>1. /\ body[e] = "running"
      /\ body' = [body EXCEPT ![e] = "done"]
      /\ race' = IF race[e] = "none" THEN [race EXCEPT ![e] = "task"] ELSE race
      /\ UNCHANGED <<queue, active, maxConcurrent, generation, request, startGeneration, promise>>
  BY DEF FinishBody, laneVars
<1>2. body \in [Entries -> Bodies] /\ race \in [Entries -> Outcomes]
  BY DEF TypeInv, TypeOK
<1>3. /\ body'[e] = "done"
      /\ \A f \in Entries : f # e => body'[f] = body[f] /\ race'[f] = race[f]
  BY <1>1, <1>2
<1>4. \A f \in Entries : body'[f] = "none" <=> body[f] = "none"
  BY <1>1, <1>3
<1>5. SlotsOK(active, generation, request, body', startGeneration, promise)
  BY <1>4 DEF Core, SlotsOK
<1>6. QueuesOK(queue, request, body', promise)
  BY <1>4 DEF Core, QueuesOK
<1>7. EntriesOK(generation, request, body', race', startGeneration, promise)
  BY <1>1, <1>3, <1>4 DEF Core, EntriesOK
<1>8. QED
  BY <1>1, <1>5, <1>6, <1>7 DEF Core, WorkConserving

\* A task timeout keeps the core.
LEMMA CoreTimeout ==
    ASSUME TypeInv, Core, NEW e \in Entries, Timeout(e)
    PROVE  Core' /\ UNCHANGED active
<1>1. /\ e \in DOMAIN request /\ body[e] = "running"
      /\ race' = [race EXCEPT ![e] = "timeout"]
      /\ UNCHANGED <<queue, active, maxConcurrent, generation, request, body, startGeneration, promise>>
  BY DEF Timeout, laneVars, Issued
<1>2. race \in [Entries -> Outcomes]
  BY DEF TypeInv, TypeOK
<1>3. \A f \in Entries : f # e => race'[f] = race[f]
  BY <1>1, <1>2
<1>4. EntriesOK(generation, request, body, race', startGeneration, promise)
  BY <1>1, <1>3 DEF Core, EntriesOK
<1>5. QED
  BY <1>1, <1>4 DEF Core, WorkConserving

\* Every step keeps the core.
LEMMA CoreNext ==
    ASSUME TypeInv, Core, [Next]_vars
    PROVE  Core' /\ (WithinLimit \/ UNCHANGED active)
<1>1. ASSUME NEW l \in Lanes, NEW p \in Priorities, NEW t \in Timeouts, Enqueue(l, p, t)
      PROVE  Core' /\ WithinLimit
  BY <1>1, CoreEnqueue
<1>2. ASSUME NEW l \in Lanes, NEW n \in Concurrency, SetConcurrency(l, n)
      PROVE  Core' /\ WithinLimit
  BY <1>2, CoreSetConcurrency, ConcurrencyAssumption
<1>3. ASSUME NEW l \in Lanes, Clear(l)
      PROVE  Core' /\ UNCHANGED active
  BY <1>3, CoreClear
<1>4. ASSUME NEW l \in Lanes, ResetLane(l)
      PROVE  Core' /\ WithinLimit
  BY <1>4, {l} \in SUBSET Lanes, CoreIdle DEF ResetLane
<1>5. ASSUME ResetAllLanes
      PROVE  Core' /\ WithinLimit
  BY <1>5, CoreIdle DEF ResetAllLanes, TypeInv, TypeOK
<1>6. ASSUME UNCHANGED <<laneVars, entryVars>> \/ MarkGatewayDraining
      PROVE  Core' /\ UNCHANGED active
  BY <1>6 DEF MarkGatewayDraining, laneVars, entryVars, Core, WorkConserving
<1>7. ASSUME NEW w \in Waiters, NEW t \in {"none", "positive", "expired"},
             WaitForActiveTasks(w, t) \/ WaiterTimeout(w)
      PROVE  Core' /\ UNCHANGED active
  BY <1>6, <1>7 DEF WaitForActiveTasks, WaiterTimeout
<1>8. ASSUME NEW e \in Entries, FinishBody(e) \/ Timeout(e)
      PROVE  Core' /\ UNCHANGED active
  BY <1>8, CoreFinishBody, CoreTimeout
<1>9. ASSUME NEW e \in Entries, Settle(e)
      PROVE  Core' /\ WithinLimit
  BY <1>9, CoreSettle
<1>10. CASE UNCHANGED vars
  BY <1>6, <1>10 DEF vars
<1>11. CASE Next
  BY <1>1, <1>2, <1>3, <1>4, <1>5, <1>6, <1>7, <1>8, <1>9, <1>11 DEF Next, Calls, EventLoop
<1>12. QED
  BY <1>10, <1>11

-----------------------------------------------------------------------------
(* Waiters.                                                                *)

\* notifyActiveTaskWaiters, told the active sets or less than they are after
\* the step, leaves no waiter waiting for nothing.
LEMMA NotifyWakes ==
    ASSUME TypeInv, NEW a, Notify(a),
           \A l \in Lanes : a[l] \subseteq active'[l]
    PROVE  NoLostWakeup'
<1> SUFFICES ASSUME NEW w \in Waiters, waiter'[w].status = "waiting"
             PROVE  \E l \in Lanes : waiter'[w].tasks \cap active'[l] # {}
  BY DEF NoLostWakeup
<1>1. waiter[w] \in [status : WaiterStatus, tasks : SUBSET Entries, timed : BOOLEAN]
  BY DEF TypeInv, TypeOK
<1>2. waiter'[w] = IF waiter[w].status = "waiting" /\ ~HasPending(waiter[w].tasks, a)
                   THEN [waiter[w] EXCEPT !.status = "drained"]
                   ELSE waiter[w]
  BY DEF Notify
<1>3. [waiter[w] EXCEPT !.status = "drained"].status = "drained"
  BY <1>1
<1>4. waiter'[w] = waiter[w] /\ HasPending(waiter[w].tasks, a)
  BY <1>2, <1>3
<1>5. PICK l \in lanes : waiter[w].tasks \cap a[l] # {}
  BY <1>4 DEF HasPending
<1>6. l \in Lanes
  BY DEF TypeInv, TypeOK
<1>7. QED
  BY <1>4, <1>5, <1>6

\* Where no active set loses an entry there is nobody to tell.
LEMMA GrowthWakes ==
    ASSUME NoLostWakeup, UNCHANGED waiter, \A l \in Lanes : active[l] \subseteq active'[l]
    PROVE  NoLostWakeup'
<1> SUFFICES ASSUME NEW w \in Waiters, waiter[w].status = "waiting"
             PROVE  \E l \in Lanes : waiter[w].tasks \cap active'[l] # {}
  BY DEF NoLostWakeup
<1>1. PICK l \in Lanes : waiter[w].tasks \cap active[l] # {}
  BY DEF NoLostWakeup
<1>2. QED
  BY <1>1

\* Every step keeps waiters from missing their wakeup.
LEMMA WakeupNext ==
    ASSUME IInv, [Next]_vars
    PROVE  NoLostWakeup'
<1> USE DEF IInv
<1>1. ASSUME NEW l \in Lanes, NEW p \in Priorities, NEW t \in Timeouts, Enqueue(l, p, t)
      PROVE  NoLostWakeup'
  BY <1>1, CoreEnqueue, GrowthWakes DEF Enqueue
<1>2. ASSUME NEW l \in Lanes, NEW n \in Concurrency, SetConcurrency(l, n)
      PROVE  NoLostWakeup'
  BY <1>2, CoreSetConcurrency, GrowthWakes, ConcurrencyAssumption DEF SetConcurrency
<1>3. ASSUME NEW ls \in SUBSET Lanes, Idle(ls)
      PROVE  NoLostWakeup'
  BY <1>3, NotifyWakes DEF Idle
<1>4. ASSUME NEW w \in Waiters, NEW t \in {"none", "positive", "expired"}, WaitForActiveTasks(w, t)
      PROVE  NoLostWakeup'
  <2> DEFINE tasks == UNION {active[l] : l \in lanes}
  <2>1. /\ waiter' = [waiter EXCEPT ![w] =
              [status |-> IF tasks = {} THEN "drained"
                          ELSE IF t = "expired" THEN "notDrained"
                          ELSE "waiting",
               tasks  |-> tasks,
               timed  |-> t = "positive"]]
        /\ UNCHANGED active
    BY <1>4 DEF WaitForActiveTasks, laneVars
  <2>2. waiter \in [Waiters -> [status : WaiterStatus, tasks : SUBSET Entries, timed : BOOLEAN]]
    BY DEF TypeInv, TypeOK
  <2>3. tasks # {} => \E l \in Lanes : tasks \cap active[l] # {}
    BY DEF TypeInv, TypeOK
  <2> HIDE DEF tasks
  <2>4. waiter'[w].tasks = tasks /\ (waiter'[w].status = "waiting" => tasks # {})
    BY <2>1, <2>2
  <2>5. \A v \in Waiters : v # w => waiter'[v] = waiter[v]
    BY <2>1, <2>2
  <2>6. QED
    BY <2>1, <2>3, <2>4, <2>5 DEF NoLostWakeup
<1>5. ASSUME NEW e \in Entries, Settle(e)
      PROVE  NoLostWakeup'
  <2> DEFINE l == request[e].lane
             a == [active EXCEPT ![l] = @ \ {e}]
  <2>1. \/ Notify(a) /\ Pump({l}, queue, a, maxConcurrent, generation)
        \/ UNCHANGED <<active, waiter>>
    BY <1>5 DEF Settle
  <2>2. CASE Notify(a) /\ Pump({l}, queue, a, maxConcurrent, generation)
    <3> HIDE DEF a, l
    <3>1. \A k \in Lanes : a[k] \subseteq active'[k]
      BY <2>2 DEF Pump
    <3>2. QED
      BY <2>2, <3>1, NotifyWakes
  <2>3. CASE UNCHANGED <<active, waiter>>
    BY <2>3, GrowthWakes
  <2>4. QED
    BY <2>1, <2>2, <2>3
<1>6. ASSUME NEW w \in Waiters, WaiterTimeout(w)
      PROVE  NoLostWakeup'
  <2>1. /\ waiter' = [waiter EXCEPT ![w].status = "notDrained"]
        /\ UNCHANGED active
    BY <1>6 DEF WaiterTimeout, laneVars
  <2>2. waiter \in [Waiters -> [status : WaiterStatus, tasks : SUBSET Entries, timed : BOOLEAN]]
    BY DEF TypeInv, TypeOK
  <2>3. waiter'[w].status = "notDrained" /\ \A v \in Waiters : v # w => waiter'[v] = waiter[v]
    BY <2>1, <2>2
  <2>4. QED
    BY <2>1, <2>3 DEF NoLostWakeup
<1>7. ASSUME UNCHANGED <<active, waiter>>
      PROVE  NoLostWakeup'
  BY <1>7, GrowthWakes
<1>8. ASSUME NEW l \in Lanes, Clear(l)
      PROVE  NoLostWakeup'
  BY <1>7, <1>8 DEF Clear
<1>9. ASSUME NEW e \in Entries, FinishBody(e) \/ Timeout(e)
      PROVE  NoLostWakeup'
  BY <1>7, <1>9 DEF FinishBody, Timeout, laneVars
<1>10. ASSUME MarkGatewayDraining \/ UNCHANGED vars
       PROVE  NoLostWakeup'
  BY <1>7, <1>10 DEF MarkGatewayDraining, vars, laneVars
<1>11. ASSUME NEW l \in Lanes, ResetLane(l)
       PROVE  NoLostWakeup'
  BY <1>3, <1>11, {l} \in SUBSET Lanes DEF ResetLane
<1>12. ASSUME ResetAllLanes
       PROVE  NoLostWakeup'
  BY <1>3, <1>12 DEF ResetAllLanes, TypeInv, TypeOK
<1>13. QED
  BY <1>1, <1>2, <1>4, <1>5, <1>6, <1>8, <1>9, <1>10, <1>11, <1>12 DEF Next, Calls, EventLoop

-----------------------------------------------------------------------------
(* The theorems.                                                           *)

\* The invariant holds initially.
LEMMA IInvInit == Init => IInv
<1>1. Init => NoLostWakeup
  BY DEF Init, NoLostWakeup
<1>2. QED
  BY <1>1, TypeInit, CoreInit DEF IInv

\* A step keeps the invariant.
LEMMA IInvNext == IInv /\ [Next]_vars => IInv'
  BY TypeNext, CoreNext, WakeupNext DEF IInv

\* IInv holds in every state.
THEOREM Inductive == Spec => []IInv
  BY IInvInit, IInvNext, PTL DEF Spec

\* The invariant accounts for the slots.
LEMMA InvSlots == IInv => SlotAccounting
<1> SUFFICES ASSUME IInv, NEW l \in Lanes
             PROVE  active[l] = {e \in LaneEntries(l) :
                                   /\ body[e] # "none"
                                   /\ promise[e] = "pending"
                                   /\ startGeneration[e] = generation[l]}
  BY DEF SlotAccounting
<1>1. active[l] \in SUBSET Entries
  BY DEF IInv, TypeInv, TypeOK
<1>2. DOMAIN request \subseteq Entries
  BY BoundsAssumption DEF IInv, TypeInv, TypeOK, Entries
<1>3. SlotsOK(active, generation, request, body, startGeneration, promise)
  BY DEF IInv, Core
<1>4. QED
  BY <1>1, <1>2, <1>3 DEF SlotsOK, LaneEntries, Issued

\* A lane's slots are held by exactly the unsettled entries of its generation:
\* completeTask, resets and stale completions never leak or double-free one.
THEOREM SlotsAccounted == Spec => []SlotAccounting
  BY InvSlots, Inductive, PTL

\* An interval that starts at 1 has as many members as its end says.
LEMMA IntervalCardinality ==
    ASSUME NEW n \in Nat
    PROVE  IsFiniteSet(1..n) /\ Cardinality(1..n) = n
<1>1. 1 \in Int /\ n \in Int
  OBVIOUS
<1>2. IsFiniteSet(1..n) /\ Cardinality(1..n) = IF 1 > n THEN 0 ELSE n - 1 + 1
  BY <1>1, FS_Interval, Zenon
<1>3. (IF 1 > n THEN 0 ELSE n - 1 + 1) = n
  OBVIOUS
<1>4. QED
  BY <1>2, <1>3

\* The invariant accounts for the queues.
LEMMA InvQueues == IInv => QueueAccounting
<1> SUFFICES ASSUME IInv, NEW l \in Lanes
             PROVE  /\ ToSet(queue[l]) = {e \in LaneEntries(l) :
                                            body[e] = "none" /\ promise[e] = "pending"}
                    /\ Cardinality(ToSet(queue[l])) = Len(queue[l])
  BY DEF QueueAccounting
<1> DEFINE q == queue[l]
<1>1. q \in Seq(Entries)
  BY DEF IInv, TypeInv, TypeOK
<1>2. DOMAIN request \subseteq Entries
  BY BoundsAssumption DEF IInv, TypeInv, TypeOK, Entries
<1>3. QueuesOK(queue, request, body, promise)
  BY DEF IInv, Core
<1>4. ToSet(q) \subseteq Entries /\ \A e \in Entries : e \in ToSet(q) <=> Queued(q, e)
  BY <1>1, ToSetQueued DEF ToSet
<1>5. Distinct(q)
  BY <1>3 DEF QueuesOK
<1>6. ToSet(q) = {e \in LaneEntries(l) : body[e] = "none" /\ promise[e] = "pending"}
  BY <1>2, <1>3, <1>4 DEF QueuesOK, LaneEntries, Issued
<1> HIDE DEF q
<1>7. Cardinality(ToSet(q)) = Len(q)
  <2>1. q \in Bijection(1..Len(q), ToSet(q))
    BY <1>1, <1>5 DEF Distinct, ToSet, Bijection, Injection, Surjection, IsInjective
  <2>2. Len(q) \in Nat
    BY <1>1
  <2>3. IsFiniteSet(1..Len(q)) /\ Cardinality(1..Len(q)) = Len(q)
    BY <2>2, IntervalCardinality
  <2>4. ExistsBijection(1..Len(q), ToSet(q))
    BY <2>1 DEF ExistsBijection
  <2>5. QED
    BY <2>3, <2>4, FS_Bijection
<1>8. QED
  BY <1>6, <1>7 DEF q

\* Nothing enqueued is dropped and nothing is queued twice, whatever resets,
\* clears and changes of concurrency do.
THEOREM QueuesAccounted == Spec => []QueueAccounting
  BY InvQueues, Inductive, PTL

\* No lane stalls: whatever frees or adds a slot also pumps.
THEOREM NoStall == Spec => []WorkConserving
<1>1. IInv => WorkConserving
  BY DEF IInv, Core
<1>2. QED
  BY <1>1, Inductive, PTL

\* Whoever waits for tasks waits for one that still holds a slot.
THEOREM NoWakeupLost == Spec => []NoLostWakeup
<1>1. IInv => NoLostWakeup
  BY DEF IInv
<1>2. QED
  BY <1>1, Inductive, PTL

\* An entry that clearCommandLane rejected has not run and never will.
THEOREM ClearedStayIdle == Spec => []ClearedNeverRuns
<1>1. IInv => ClearedNeverRuns
  <2>1. IInv => DOMAIN request \subseteq Entries
    BY BoundsAssumption DEF IInv, TypeInv, TypeOK, Entries
  <2>2. QED
    BY <2>1 DEF IInv, Core, EntriesOK, ClearedNeverRuns, Issued
<1>2. QED
  BY <1>1, Inductive, PTL

\* No step starts work beyond a lane's concurrency, whatever was lowered.
THEOREM LimitRespected == Spec => StartsWithinLimit
<1>1. IInv /\ [Next]_vars => [WithinLimit]_vars
  <2> SUFFICES ASSUME IInv, [Next]_vars PROVE WithinLimit
    OBVIOUS
  <2>1. WithinLimit \/ UNCHANGED active
    BY CoreNext DEF IInv
  <2>2. QED
    BY <2>1 DEF WithinLimit
<1>2. Spec => [][WithinLimit]_vars
  BY <1>1, Inductive, PTL DEF Spec
<1>3. QED
  BY <1>2 DEF StartsWithinLimit, WithinLimit

-----------------------------------------------------------------------------
(* Order.                                                                  *)

\* e belongs in front of f in a queue.
Ahead(req, e, f) ==
    \/ req[e].priority > req[f].priority
    \/ req[e].priority = req[f].priority /\ e < f

Ordered(req, q) == \A i, j \in 1..Len(q) : i < j => Ahead(req, q[i], q[j])

\* NoOvertaking, for one waiting entry e and one later entry f.
Unpassed(req, bod, e, f) ==
    e < f /\ req[f].priority <= req[e].priority => bod[f] = "none"

\* Queues are ordered, and no entry has started past a waiting one.
InOrder(req, q, bod) ==
    \A l \in Lanes :
        /\ Ordered(req, q[l])
        /\ \A e, f \in Entries :
              Queued(q[l], e) /\ f \in DOMAIN req /\ req[f].lane = l => Unpassed(req, bod, e, f)

-----------------------------------------------------------------------------
\* The fields of a request have their types.
LEMMA RequestFields ==
    ASSUME NEW req \in Seq(Request), NEW e \in DOMAIN req
    PROVE  req[e].lane \in Lanes /\ req[e].priority \in Int
<1>1. req[e] \in Request
  OBVIOUS
<1>2. req[e].lane \in Lanes /\ req[e].priority \in Priorities
  BY <1>1 DEF Request
<1>3. Priorities \subseteq Int
  BY PrioritiesAssumption
<1>4. QED
  BY <1>2, <1>3

\* The entries of an ordered queue that drainLane starts all belong in front of
\* those it leaves.
LEMMA PrefixOrdered ==
    ASSUME NEW q \in Seq(Entries), NEW a \in SUBSET Entries, NEW max \in Nat,
           NEW req, Ordered(req, q)
    PROVE  LET rest == SubSeq(q, Room(q, a, max) + 1, Len(q))
           IN  /\ Ordered(req, rest)
               /\ \A f \in Started(q, a, max) : \A e : Queued(rest, e) => Ahead(req, f, e)
<1> DEFINE k == Room(q, a, max)
           rest == SubSeq(q, k + 1, Len(q))
           s == Started(q, a, max)
<1>1. /\ k \in 0..Len(q)
      /\ Len(rest) = Len(q) - k
      /\ \A i \in 1..Len(rest) : rest[i] = q[i + k]
  BY RoomFacts
<1>2. s = {q[i] : i \in 1..k}
  BY DEF Started
<1> HIDE DEF k, rest, s
<1>3. ASSUME NEW i \in 1..Len(rest) PROVE i + k \in 1..Len(q) /\ rest[i] = q[i + k]
  BY <1>1
<1>4. Ordered(req, rest)
  <2> SUFFICES ASSUME NEW i \in 1..Len(rest), NEW j \in 1..Len(rest), i < j
               PROVE  Ahead(req, rest[i], rest[j])
    BY DEF Ordered
  <2>1. i + k < j + k
    BY <1>1
  <2>2. QED
    BY <1>3, <2>1 DEF Ordered
<1>5. ASSUME NEW f \in s, NEW e, Queued(rest, e) PROVE Ahead(req, f, e)
  <2>1. PICK i \in 1..k : f = q[i]
    BY <1>2
  <2>2. PICK j \in 1..Len(rest) : rest[j] = e
    BY <1>5 DEF Queued
  <2>3. i \in 1..Len(q) /\ i < j + k
    BY <1>1
  <2>4. QED
    BY <1>3, <2>1, <2>2, <2>3 DEF Ordered
<1>6. QED
  BY <1>4, <1>5 DEF k, rest, s

\* drainLane keeps the order.
LEMMA PumpOrder ==
    ASSUME NEW ls, NEW q, NEW a, NEW m, NEW g,
           Handed(ls, q, a, m, g),
           Pump(ls, q, a, m, g),
           InOrder(request', q, body)
    PROVE  InOrder(request', queue', body')
<1> DEFINE s(l)      == Started(q[l], a[l], m[l])
           rest(l)   == SubSeq(q[l], Room(q[l], a[l], m[l]) + 1, Len(q[l]))
           starts(l) == IF l \in ls THEN s(l) ELSE {}
           begun     == UNION {starts(l) : l \in ls}
<1>1. /\ ls \in SUBSET Lanes
      /\ q \in [Lanes -> Seq(Entries)]
      /\ a \in [Lanes -> SUBSET Entries]
      /\ m \in [Lanes -> Nat]
      /\ request' \in Seq(Request)
      /\ QueuesOK(q, request', body, promise')
  BY DEF Handed
<1>2. /\ queue' = [l \in Lanes |-> IF l \in ls THEN rest(l) ELSE q[l]]
      /\ body' = [e \in Entries |-> IF e \in begun THEN "running" ELSE body[e]]
  BY DEF Pump
<1>3. ASSUME NEW l \in Lanes
      PROVE  /\ Ordered(request', rest(l))
             /\ \A f \in s(l) : \A e : Queued(rest(l), e) => Ahead(request', f, e)
             /\ \A f \in s(l) : Queued(q[l], f)
             /\ \A e : Queued(rest(l), e) => Queued(q[l], e)
  <2>1. q[l] \in Seq(Entries) /\ a[l] \in SUBSET Entries /\ m[l] \in Nat /\ Ordered(request', q[l])
    BY <1>1 DEF InOrder
  <2>2. /\ Ordered(request', rest(l))
        /\ \A f \in s(l) : \A e : Queued(rest(l), e) => Ahead(request', f, e)
    BY <2>1, PrefixOrdered
  <2> DEFINE k == Room(q[l], a[l], m[l])
  <2>3. /\ k \in 0..Len(q[l])
        /\ Len(rest(l)) = Len(q[l]) - k
        /\ \A i \in 1..Len(rest(l)) : rest(l)[i] = q[l][i + k]
    BY <2>1, RoomFacts
  <2>4. s(l) = {q[l][i] : i \in 1..k}
    BY DEF Started
  <2> HIDE DEF k, s, rest
  <2>5. ASSUME NEW f \in s(l) PROVE Queued(q[l], f)
    BY <2>3, <2>4 DEF Queued
  <2>6. ASSUME NEW e, Queued(rest(l), e) PROVE Queued(q[l], e)
    <3>1. PICK i \in 1..Len(rest(l)) : rest(l)[i] = e
      BY <2>6 DEF Queued
    <3>2. i + k \in 1..Len(q[l]) /\ q[l][i + k] = e
      BY <2>3, <3>1
    <3>3. QED
      BY <3>2 DEF Queued
  <2>7. QED
    BY <2>2, <2>5, <2>6
<1> HIDE DEF s, rest
<1>4. ASSUME NEW l \in Lanes, NEW e \in Entries, NEW f \in Entries,
             Queued(queue'[l], e), f \in DOMAIN request', request'[f].lane = l,
             e < f, request'[f].priority <= request'[e].priority
      PROVE  body'[f] = "none"
  <2>1. Queued(q[l], e)
    BY <1>2, <1>3, <1>4
  <2>2. body[f] = "none"
    BY <1>4, <2>1 DEF InOrder, Unpassed
  <2>3. e \in DOMAIN request'
    BY <1>1, <2>1 DEF QueuesOK
  <2>4. request'[e].priority \in Int /\ request'[f].priority \in Int
    BY <1>1, <1>4, <2>3, RequestFields
  <2>5. ~Ahead(request', f, e)
    BY <1>4, <2>4 DEF Ahead, Entries
  <2>6. ASSUME f \in begun PROVE FALSE
    <3>1. PICK k \in ls : f \in s(k)
      BY <2>6
    <3>2. k \in Lanes /\ Queued(q[k], f)
      BY <1>1, <1>3, <3>1
    <3>3. k = l
      BY <1>1, <1>4, <3>2 DEF QueuesOK
    <3>4. Queued(rest(l), e)
      BY <1>2, <1>4, <3>3
    <3>5. QED
      BY <1>3, <2>5, <3>1, <3>3, <3>4
  <2>7. QED
    BY <1>2, <2>2, <2>6
<1>5. ASSUME NEW l \in Lanes PROVE Ordered(request', queue'[l])
  BY <1>2, <1>3 DEF InOrder
<1>6. QED
  BY <1>4, <1>5 DEF InOrder, Unpassed

\* enqueueLaneEntry keeps a queue ordered: in front of the new entry is what it
\* does not outrank, behind it what it does.  new is request with it added.
LEMMA InsertOrder ==
    ASSUME request \in Seq(Request),
           NEW q \in Seq(Entries), NEW e \in Entries, NEW r \in Request, NEW new \in Seq(Request),
           \A i \in 1..Len(q) : q[i] \in DOMAIN request,
           \A f \in DOMAIN request : new[f] = request[f] /\ f < e,
           e \in DOMAIN new,
           Ordered(request, q)
    PROVE  new[e] = r => Ordered(new, Insert(q, e, r))
<1> DEFINE t == Insert(q, e, r)
<1>a. /\ Insert(q, e, r) \in Seq(Entries)
      /\ Len(Insert(q, e, r)) = Len(q) + 1
      /\ \E at \in 1..(Len(q) + 1) :
           /\ \A i \in 1..(Len(q) + 1) :
                Insert(q, e, r)[i] = IF i < at THEN q[i] ELSE IF i = at THEN e ELSE q[i - 1]
           /\ \A i \in 1..(at - 1) : ~Outranks(r, e, q[i])
           /\ at <= Len(q) => Outranks(r, e, q[at])
  BY InsertFacts
<1>1. Len(t) = Len(q) + 1
  BY <1>a
<1>2. PICK at \in 1..(Len(q) + 1) :
        /\ \A i \in 1..(Len(q) + 1) :
              t[i] = IF i < at THEN q[i] ELSE IF i = at THEN e ELSE q[i - 1]
        /\ \A i \in 1..(at - 1) : ~Outranks(r, e, q[i])
        /\ at <= Len(q) => Outranks(r, e, q[at])
  BY <1>a
<1> HIDE DEF t
<1> SUFFICES ASSUME new[e] = r PROVE Ordered(new, t)
  BY DEF t
<1>3. ASSUME NEW i \in 1..Len(q)
      PROVE  /\ q[i] \in Nat /\ q[i] < e
             /\ new[q[i]] = request[q[i]]
             /\ request[q[i]].priority \in Int
  BY RequestFields DEF Entries
<1>4. r.priority \in Int /\ e \in Nat
  BY RequestFields DEF Entries
<1>5. ASSUME NEW i \in 1..Len(q)
      PROVE  Outranks(r, e, q[i]) <=> request[q[i]].priority < r.priority
  BY <1>3, <1>4 DEF Outranks
<1>6. ASSUME NEW i \in 1..Len(q), i < at
      PROVE  Ahead(new, q[i], e)
  <2>1. ~(request[q[i]].priority < r.priority)
    BY <1>2, <1>5, <1>6
  <2>2. QED
    BY <1>3, <1>4, <2>1 DEF Ahead
<1>7. ASSUME NEW i \in 1..Len(q), i >= at
      PROVE  Ahead(new, e, q[i])
  <2>1. at \in 1..Len(q) /\ request[q[at]].priority < r.priority
    BY <1>2, <1>5, <1>7
  <2>2. i = at \/ Ahead(request, q[at], q[i])
    BY <1>7, <2>1 DEF Ordered
  <2>3. request[q[i]].priority <= request[q[at]].priority
    <3>1. request[q[i]].priority \in Int /\ request[q[at]].priority \in Int
      BY <1>3, <2>1
    <3>2. CASE i = at
      BY <3>1, <3>2
    <3>3. CASE Ahead(request, q[at], q[i])
      BY <3>1, <3>3 DEF Ahead
    <3>4. QED
      BY <2>2, <3>2, <3>3
  <2>4. request[q[i]].priority < r.priority
    <3>1. request[q[i]].priority \in Int /\ request[q[at]].priority \in Int
      BY <1>3, <2>1
    <3>2. QED
      BY <1>4, <2>1, <2>3, <3>1
  <2>5. new[q[i]].priority < new[e].priority
    BY <1>3, <2>4
  <2>6. QED
    BY <1>3, <1>4, <2>4, <2>5 DEF Ahead
<1>8. ASSUME NEW i \in 1..Len(q), NEW j \in 1..Len(q), i < j
      PROVE  Ahead(new, q[i], q[j])
  <2>1. Ahead(request, q[i], q[j])
    BY <1>8 DEF Ordered
  <2>2. new[q[i]] = request[q[i]] /\ new[q[j]] = request[q[j]]
    BY <1>3
  <2>3. QED
    BY <2>1, <2>2 DEF Ahead
<1>9. ASSUME NEW i \in 1..(Len(q) + 1), i # at
      PROVE  /\ i < at => i \in 1..Len(q) /\ t[i] = q[i]
             /\ i > at => i - 1 \in 1..Len(q) /\ t[i] = q[i - 1] /\ i - 1 >= at
  <2>1. CASE i < at
    BY <1>2, <2>1
  <2>2. CASE i > at
    BY <1>2, <2>2
  <2>3. QED
    BY <1>9, <2>1, <2>2
<1>10. t[at] = e
  BY <1>2
<1>11. ASSUME NEW i \in 1..(Len(q) + 1), NEW j \in 1..(Len(q) + 1), i < j
       PROVE  Ahead(new, t[i], t[j])
  <2>1. CASE i = at
    BY <1>7, <1>9, <1>10, <1>11, <2>1, SMTT(30)
  <2>2. CASE j = at
    BY <1>6, <1>9, <1>10, <1>11, <2>2
  <2>3. CASE j < at
    BY <1>8, <1>9, <1>11, <2>3
  <2>4. CASE i < at /\ j > at
    <3>1. t[i] = q[i] /\ t[j] = q[j - 1] /\ i \in 1..Len(q) /\ j - 1 \in 1..Len(q)
      BY <1>9, <2>4
    <3>2. i < j - 1
      BY <2>4
    <3>3. QED
      BY <1>8, <3>1, <3>2
  <2>5. CASE i > at
    <3>1. t[i] = q[i - 1] /\ t[j] = q[j - 1] /\ i - 1 \in 1..Len(q) /\ j - 1 \in 1..Len(q)
      BY <1>9, <1>11, <2>5
    <3>2. i - 1 < j - 1
      BY <1>11
    <3>3. QED
      BY <1>8, <3>1, <3>2
  <2>6. QED
    BY <1>11, <2>1, <2>2, <2>3, <2>4, <2>5
<1>12. QED
  BY <1>1, <1>11 DEF Ordered

-----------------------------------------------------------------------------
(* The invariant.                                                          *)

Sequence == InOrder(request, queue, body)

\* The queues are in order initially.
LEMMA OrderInit == Init => Sequence
  BY DEF Init, Sequence, InOrder, Ordered, Queued

\* The last entry issued has nothing after it to be unpassed by.
LEMMA EnqueueInOrder ==
    ASSUME IInv, Sequence,
           NEW l \in Lanes, NEW p \in Priorities, NEW t \in Timeouts,
           Enqueue(l, p, t)
    PROVE  InOrder(request',
                   [queue EXCEPT ![l] = Insert(@, Len(request) + 1,
                                               [lane |-> l, priority |-> p, timed |-> t])],
                   body)
<1> DEFINE e == Len(request) + 1
           r == [lane |-> l, priority |-> p, timed |-> t]
           q == [queue EXCEPT ![l] = Insert(@, e, r)]
<1>2. e \in Entries /\ request' = Append(request, r)
  BY DEF Enqueue
<1>3. request \in Seq(Request) /\ queue \in [Lanes -> Seq(Entries)] /\ r \in Request
  BY DEF IInv, TypeInv, TypeOK, Request
<1>4. QueuesOK(queue, request, body, promise)
  BY DEF IInv, Core
<1> HIDE DEF r
<1>5. /\ request' \in Seq(Request)
      /\ DOMAIN request' = DOMAIN request \cup {e}
      /\ request'[e] = r
      /\ \A f \in DOMAIN request : request'[f] = request[f] /\ f < e
  BY <1>2, <1>3
<1>50. e \notin DOMAIN request
  BY <1>3 DEF e
<1> HIDE DEF e
<1>6. body[e] = "none"
  BY <1>2, <1>50 DEF IInv, Core, EntriesOK
<1>7. ASSUME NEW k \in Lanes, NEW i \in 1..Len(queue[k]) PROVE queue[k][i] \in DOMAIN request
  BY DEF IInv, TypeInv, QueuedIssued, Issued
<1>8. ASSUME NEW k \in Lanes PROVE Ordered(request', queue[k])
  <2> SUFFICES ASSUME NEW i \in 1..Len(queue[k]), NEW j \in 1..Len(queue[k]), i < j
               PROVE  Ahead(request', queue[k][i], queue[k][j])
    BY DEF Ordered
  <2>1. Ahead(request, queue[k][i], queue[k][j])
    BY DEF Sequence, InOrder, Ordered
  <2>2. QED
    BY <1>5, <1>7, <2>1 DEF Ahead
<1>9. Ordered(request', Insert(queue[l], e, r))
  <2>1. queue[l] \in Seq(Entries) /\ Ordered(request, queue[l])
    BY <1>3 DEF Sequence, InOrder
  <2>2. QED
    BY <1>2, <1>3, <1>5, <1>7, <2>1, InsertOrder
<1>10. ASSUME NEW k \in Lanes
       PROVE  /\ Ordered(request', q[k])
              /\ \A d \in Entries : Queued(q[k], d) => Queued(queue[k], d) \/ d = e
  <2>1. CASE k = l
    <3>1. q[k] = Insert(queue[l], e, r)
      BY <1>3, <2>1
    <3>2. queue[l] \in Seq(Entries) /\ Distinct(queue[l])
      BY <1>3, <1>4 DEF QueuesOK
    <3>3. ~Queued(queue[l], e)
      <4> SUFFICES ASSUME NEW i \in 1..Len(queue[l]), queue[l][i] = e
                   PROVE  FALSE
        BY DEF Queued
      <4>1. e \in DOMAIN request
        BY <1>3, <1>7
      <4>2. QED
        BY <1>50, <4>1
    <3>4. \A d : Queued(Insert(queue[l], e, r), d) <=> Queued(queue[l], d) \/ d = e
      BY <1>2, <3>2, <3>3, InsertQueued
    <3>5. QED
      BY <1>9, <2>1, <3>1, <3>4
  <2>2. CASE k # l
    BY <1>3, <1>8, <2>2
  <2>3. QED
    BY <2>1, <2>2
<1> HIDE DEF q
<1>11. ASSUME NEW k \in Lanes, NEW d \in Entries, NEW f \in Entries,
              Queued(q[k], d), f \in DOMAIN request', request'[f].lane = k,
              d < f, request'[f].priority <= request'[d].priority
       PROVE  body[f] = "none"
  <2>1. CASE f = e
    BY <1>6, <2>1
  <2>2. CASE f # e
    <3>1. f \in DOMAIN request /\ request'[f] = request[f] /\ f < e
      BY <1>5, <1>11, <2>2
    <3>2. d # e
      BY <1>2, <1>11, <3>1 DEF Entries
    <3>3. Queued(queue[k], d)
      BY <1>10, <1>11, <3>2
    <3>4. d \in DOMAIN request
      BY <1>4, <3>3 DEF QueuesOK
    <3>5. QED
      BY <1>5, <1>11, <3>1, <3>3, <3>4 DEF Sequence, InOrder, Unpassed
  <2>3. QED
    BY <2>1, <2>2
<1>12. InOrder(request', q, body)
  BY <1>10, <1>11 DEF InOrder, Unpassed
<1>13. QED
  BY <1>12 DEF q, e, r

\* So does the step, which then drains the lane.
LEMMA OrderEnqueue ==
    ASSUME IInv, Sequence,
           NEW l \in Lanes, NEW p \in Priorities, NEW t \in Timeouts,
           Enqueue(l, p, t)
    PROVE  Sequence'
<1> DEFINE q == [queue EXCEPT ![l] = Insert(@, Len(request) + 1,
                                            [lane |-> l, priority |-> p, timed |-> t])]
<1>1. /\ Handed({l}, q, active, maxConcurrent, generation)
      /\ Pump({l}, q, active, maxConcurrent, generation)
  BY CoreEnqueue DEF IInv
<1>2. InOrder(request', q, body)
  BY EnqueueInOrder
<1> HIDE DEF q
<1>3. InOrder(request', queue', body')
  BY <1>1, <1>2, PumpOrder
<1>4. QED
  BY <1>3 DEF Sequence

\* A step that issues nothing keeps the order if all it does to the queues is
\* drain them.
LEMMA OrderDrains ==
    ASSUME Sequence, UNCHANGED request, Drains \/ UNCHANGED <<queue, body>>
    PROVE  Sequence'
<1>1. CASE Drains
  <2>1. PICK ls, a, m, g : Handed(ls, queue, a, m, g) /\ Pump(ls, queue, a, m, g)
    BY <1>1 DEF Drains
  <2>2. InOrder(request', queue, body)
    BY DEF Sequence
  <2>3. InOrder(request', queue', body')
    BY <2>1, <2>2, PumpOrder
  <2>4. QED
    BY <2>3 DEF Sequence
<1>2. CASE UNCHANGED <<queue, body>>
  BY <1>2 DEF Sequence
<1>3. QED
  BY <1>1, <1>2

\* A step keeps the queues in order.
LEMMA OrderNext ==
    ASSUME IInv, Sequence, [Next]_vars
    PROVE  Sequence'
<1>1. ASSUME NEW l \in Lanes, NEW p \in Priorities, NEW t \in Timeouts, Enqueue(l, p, t)
      PROVE  Sequence'
  BY <1>1, OrderEnqueue
<1>2. ASSUME NEW l \in Lanes, NEW n \in Concurrency, SetConcurrency(l, n)
      PROVE  Sequence'
  BY <1>2, ConcurrencyAssumption, CoreSetConcurrency, OrderDrains DEF IInv, SetConcurrency
<1>3. ASSUME NEW l \in Lanes, Clear(l)
      PROVE  Sequence'
  <2>1. queue' = [queue EXCEPT ![l] = <<>>] /\ UNCHANGED <<request, body>>
    BY <1>3 DEF Clear
  <2>2. queue \in [Lanes -> Seq(Entries)]
    BY DEF IInv, TypeInv, TypeOK
  <2>3. \A k \in Lanes : queue'[k] = queue[k] \/ queue'[k] = <<>>
    BY <2>1, <2>2
  <2>4. Ordered(request, <<>>) /\ \A e : ~Queued(<<>>, e)
    BY DEF Ordered, Queued
  <2>5. InOrder(request, queue', body)
    BY <2>3, <2>4 DEF Sequence, InOrder
  <2>6. QED
    BY <2>1, <2>5 DEF Sequence
<1>4. ASSUME NEW ls \in SUBSET Lanes, Idle(ls)
      PROVE  Sequence'
  BY <1>4, CoreIdle, OrderDrains DEF IInv, Idle
<1>5. ASSUME NEW e \in Entries, Settle(e)
      PROVE  Sequence'
  BY <1>5, CoreSettle, OrderDrains DEF IInv, Settle
<1>6. ASSUME NEW e \in Entries, FinishBody(e)
      PROVE  Sequence'
  <2>1. /\ body[e] = "running"
        /\ body' = [body EXCEPT ![e] = "done"]
        /\ UNCHANGED <<queue, request>>
    BY <1>6 DEF FinishBody, laneVars
  <2>2. \A f \in Entries : body[f] = "none" => body'[f] = "none"
    BY <2>1 DEF IInv, TypeInv, TypeOK
  <2>3. InOrder(request, queue, body')
    BY <2>2 DEF Sequence, InOrder, Unpassed
  <2>4. QED
    BY <2>1, <2>3 DEF Sequence
<1>7. ASSUME UNCHANGED <<queue, request, body>>
      PROVE  Sequence'
  BY <1>7 DEF Sequence
<1>8. ASSUME NEW w \in Waiters, NEW t \in {"none", "positive", "expired"},
             WaitForActiveTasks(w, t) \/ WaiterTimeout(w)
      PROVE  Sequence'
  BY <1>7, <1>8 DEF WaitForActiveTasks, WaiterTimeout, laneVars, entryVars
<1>9. ASSUME NEW e \in Entries, Timeout(e)
      PROVE  Sequence'
  BY <1>7, <1>9 DEF Timeout, laneVars
<1>10. ASSUME MarkGatewayDraining \/ UNCHANGED vars
       PROVE  Sequence'
  BY <1>7, <1>10 DEF MarkGatewayDraining, vars, laneVars, entryVars
<1>11. ASSUME NEW l \in Lanes, ResetLane(l)
       PROVE  Sequence'
  BY <1>4, <1>11, {l} \in SUBSET Lanes DEF ResetLane
<1>12. ASSUME ResetAllLanes
       PROVE  Sequence'
  BY <1>4, <1>12 DEF ResetAllLanes, IInv, TypeInv, TypeOK
<1>13. QED
  BY <1>1, <1>2, <1>3, <1>5, <1>6, <1>8, <1>9, <1>10, <1>11, <1>12 DEF Next, Calls, EventLoop

\* A waiting entry is overtaken only by one of a higher priority, whatever
\* resets and changes of concurrency come between.
THEOREM OrderKept == Spec => []NoOvertaking
<1>1. IInv /\ Sequence => NoOvertaking
  <2> SUFFICES ASSUME IInv, Sequence, NEW l \in Lanes,
                      NEW e \in LaneEntries(l), NEW f \in LaneEntries(l),
                      e < f, request[e].priority >= request[f].priority,
                      body[e] = "none", promise[e] = "pending"
               PROVE  body[f] = "none"
    BY DEF NoOvertaking
  <2>1. DOMAIN request \subseteq Entries /\ request \in Seq(Request)
    BY BoundsAssumption DEF IInv, TypeInv, TypeOK, Entries
  <2>2. /\ e \in DOMAIN request /\ f \in DOMAIN request
        /\ request[e].lane = l /\ request[f].lane = l
    BY DEF LaneEntries, Issued
  <2>3. Queued(queue[l], e)
    BY <2>1, <2>2 DEF IInv, Core, QueuesOK
  <2>4. request[f].priority <= request[e].priority
    BY <2>1, <2>2, RequestFields
  <2>5. QED
    BY <2>1, <2>2, <2>3, <2>4 DEF Sequence, InOrder, Unpassed
<1>2. Spec => []Sequence
  BY OrderInit, OrderNext, Inductive, PTL DEF Spec
<1>3. QED
  BY <1>1, <1>2, Inductive, PTL

=============================================================================
