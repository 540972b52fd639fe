------------------------ MODULE LaneRefinementProofs ------------------------
(***************************************************************************)
(* Proof that the command queue implements LanePromise.                    *)
(***************************************************************************)
EXTENDS LaneRefinement, CommandQueueProofs

\* CallerSees, of given requests, bodies and promises.
Sees(req, bod, pro, e) ==
    IF e \notin DOMAIN req THEN "none"
    ELSE IF pro[e] # "pending" THEN pro[e]
    ELSE IF bod[e] = "none" THEN "waiting" ELSE "running"

\* The work LanePromise sees accepted.
Accepted(req) == [e \in DOMAIN req |-> [lane |-> req[e].lane, priority |-> req[e].priority]]

\* The step begins the entries in begun, with active sets a before it and
\* limits m: no other, within the limits, in order, and as many as fit.
Begins(begun, a, m) ==
    /\ begun \in SUBSET DOMAIN request'
    /\ \A e \in begun : body[e] = "none" /\ promise'[e] = "pending" /\ body'[e] = "running"
    /\ \A e \in Entries \ begun : body'[e] = body[e]
    /\ active' = [l \in Lanes |-> a[l] \cup {e \in begun : request'[e].lane = l}]
    /\ \A e \in begun : Cardinality(active'[request'[e].lane]) <= m[request'[e].lane]
    /\ \A d \in DOMAIN request' : body'[d] = "none" /\ promise'[d] = "pending" =>
          /\ Cardinality(active'[request'[d].lane]) >= m[request'[d].lane]
          /\ \A e \in begun : request'[e].lane = request'[d].lane => Ahead(request', e, d)

-----------------------------------------------------------------------------
\* drainLane serves the lanes.
LEMMA PumpBegins ==
    ASSUME NEW ls, NEW q, NEW a, NEW m, NEW g,
           Handed(ls, q, a, m, g),
           Pump(ls, q, a, m, g),
           InOrder(request', q, body),
           DOMAIN request' \subseteq Entries
    PROVE  \E begun : Begins(begun, a, m)
<1> DEFINE s(l)      == Started(q[l], a[l], m[l])
           rest(l)   == SubSeq(q[l], Room(q[l], a[l], m[l]) + 1, Len(q[l]))
           starts(l) == IF l \in ls THEN s(l) ELSE {}
           begun     == UNION {starts(l) : l \in ls}
<1>1. /\ ls \in SUBSET Lanes
      /\ q \in [Lanes -> Seq(Entries)]
      /\ a \in [Lanes -> SUBSET Entries]
      /\ m \in [Lanes -> Nat]
      /\ g \in [Lanes -> Nat]
      /\ request' \in Seq(Request)
      /\ SlotsOK(a, g, request', body, startGeneration, promise')
      /\ QueuesOK(q, request', body, promise')
      /\ \A l \in Lanes : l \notin ls /\ q[l] # <<>> => Cardinality(a[l]) >= m[l]
  BY DEF Handed
<1>2. /\ queue' = [l \in Lanes |-> IF l \in ls THEN rest(l) ELSE q[l]]
      /\ active' = [l \in Lanes |-> a[l] \cup starts(l)]
      /\ body' = [e \in Entries |-> IF e \in begun THEN "running" ELSE body[e]]
  BY DEF Pump
<1> HIDE DEF begun, starts
<1>3. /\ QueuesOK(queue', request', body', promise')
      /\ \A l \in Lanes : queue'[l] # <<>> => Cardinality(active'[l]) >= m[l]
      /\ \A l \in Lanes : active'[l] # a[l] => Cardinality(active'[l]) <= m[l]
  <2>1. /\ Core'
        /\ \A l \in Lanes : active'[l] # a[l] => Cardinality(active'[l]) <= m[l]
    BY PumpStep
  <2>2. maxConcurrent' = m
    BY DEF Handed
  <2>3. QED
    BY <2>1, <2>2 DEF Core, WorkConserving
<1> USE DEF begun, starts
<1>4. ASSUME NEW l \in Lanes
      PROVE  /\ \A f \in s(l) : \A e : Queued(rest(l), e) => Ahead(request', f, e)
             /\ \A f \in s(l) : Queued(q[l], f) /\ f \in Entries
  <2>1. q[l] \in Seq(Entries) /\ a[l] \in SUBSET Entries /\ m[l] \in Nat /\ Ordered(request', q[l])
    BY <1>1 DEF InOrder
  <2>2. \A f \in s(l) : \A e : Queued(rest(l), e) => Ahead(request', f, e)
    BY <2>1, PrefixOrdered
  <2> DEFINE k == Room(q[l], a[l], m[l])
  <2>3. k \in 0..Len(q[l])
    BY <2>1, RoomFacts
  <2>4. s(l) = {q[l][i] : i \in 1..k}
    BY DEF Started
  <2> HIDE DEF k, s
  <2>5. \A f \in s(l) : Queued(q[l], f) /\ f \in Entries
    BY <2>1, <2>3, <2>4 DEF Queued
  <2>6. QED
    BY <2>2, <2>5
<1> HIDE DEF s, rest
<1>5. ASSUME NEW e \in begun
      PROVE  /\ e \in Entries /\ e \in DOMAIN request'
             /\ body[e] = "none" /\ promise'[e] = "pending"
             /\ request'[e].lane \in ls /\ e \in s(request'[e].lane)
  <2>1. PICK l \in ls : e \in s(l)
    OBVIOUS
  <2>2. l \in Lanes /\ Queued(q[l], e) /\ e \in Entries
    BY <1>1, <1>4, <2>1
  <2>3. QED
    BY <1>1, <2>1, <2>2 DEF QueuesOK
<1>6. \A e \in begun : body'[e] = "running"
  BY <1>2, <1>5
<1>7. \A e \in Entries \ begun : body'[e] = body[e]
  BY <1>2
<1>8. ASSUME NEW l \in Lanes PROVE starts(l) = {e \in begun : request'[e].lane = l}
  <2>1. ASSUME NEW e \in starts(l) PROVE e \in begun /\ request'[e].lane = l
    <3>1. l \in ls /\ e \in s(l) /\ e \in begun
      BY <2>1
    <3>2. Queued(q[l], e) /\ e \in Entries
      BY <1>4, <3>1
    <3>3. QED
      BY <1>1, <3>1, <3>2 DEF QueuesOK
  <2>2. ASSUME NEW e \in begun, request'[e].lane = l PROVE e \in starts(l)
    BY <1>5, <2>2
  <2>3. QED
    BY <2>1, <2>2
<1> HIDE DEF begun, starts
<1>9. active' = [l \in Lanes |-> a[l] \cup {e \in begun : request'[e].lane = l}]
  BY <1>2, <1>8
<1>10. ASSUME NEW e \in begun
       PROVE  Cardinality(active'[request'[e].lane]) <= m[request'[e].lane]
  <2> DEFINE l == request'[e].lane
  <2>1. l \in Lanes
    BY <1>1, <1>5
  <2>2. e \in active'[l]
    BY <1>9, <2>1
  <2>3. e \notin a[l]
    BY <1>1, <1>5, <2>1 DEF SlotsOK
  <2>4. QED
    BY <1>3, <2>1, <2>2, <2>3
<1>11. ASSUME NEW d \in DOMAIN request', body'[d] = "none", promise'[d] = "pending"
       PROVE  LET l == request'[d].lane
              IN  /\ Cardinality(active'[l]) >= m[l]
                  /\ \A e \in begun : request'[e].lane = l => Ahead(request', e, d)
  <2> DEFINE l == request'[d].lane
  <2>1. l \in Lanes /\ d \in Entries
    BY <1>1, RequestFields
  <2>2. Queued(queue'[l], d)
    BY <1>3, <1>11, <2>1 DEF QueuesOK
  <2>3. queue'[l] # <<>>
    BY <2>2 DEF Queued
  <2>4. Cardinality(active'[l]) >= m[l]
    BY <1>3, <2>1, <2>3
  <2>5. ASSUME NEW e \in begun, request'[e].lane = l PROVE Ahead(request', e, d)
    <3>1. l \in ls /\ e \in s(l)
      BY <1>5, <2>5
    <3>2. Queued(rest(l), d)
      BY <1>2, <2>1, <2>2, <3>1
    <3>3. QED
      BY <1>4, <2>1, <3>1, <3>2
  <2>6. QED
    BY <2>4, <2>5
<1>12. begun \in SUBSET DOMAIN request'
  BY <1>5
<1>13. Begins(begun, a, m)
  BY <1>5, <1>6, <1>7, <1>9, <1>10, <1>11, <1>12 DEF Begins
<1>14. QED
  BY <1>13

\* A step that begins nothing serves the lanes as well, for they were served.
LEMMA NothingBegins ==
    ASSUME IInv, Core', UNCHANGED <<active, body>>, active \in [Lanes -> SUBSET Entries],
           request' \in Seq(Request), DOMAIN request' \subseteq Entries
    PROVE  \E begun : Begins(begun, active, maxConcurrent')
<1>1. ASSUME NEW d \in DOMAIN request', body'[d] = "none", promise'[d] = "pending"
      PROVE  Cardinality(active'[request'[d].lane]) >= maxConcurrent'[request'[d].lane]
  <2> DEFINE l == request'[d].lane
  <2>1. l \in Lanes /\ d \in Entries
    BY RequestFields
  <2>2. Queued(queue'[l], d)
    BY <1>1, <2>1 DEF Core, QueuesOK
  <2>3. queue'[l] # <<>>
    BY <2>2 DEF Queued
  <2>4. QED
    BY <2>1, <2>3 DEF Core, WorkConserving
<1>2. active' = [l \in Lanes |-> active[l] \cup {e \in {} : request'[e].lane = l}]
  OBVIOUS
<1>3. Begins({}, active, maxConcurrent')
  BY <1>1, <1>2 DEF Begins
<1>4. QED
  BY <1>3

\* LanePromise counts as the queue does.
LEMMA SameCardinality == \A S : Promised!Cardinality(S) = Cardinality(S)
  BY DEF Promised!Cardinality, Cardinality

\* Where work begins like that, LanePromise sees its lanes served.
LEMMA BeginsServes ==
    ASSUME NEW a \in [Lanes -> SUBSET Entries], NEW m, NEW begun,
           Begins(begun, a, m),
           DOMAIN request' \subseteq Entries, promise' \in [Entries -> Promises]
    PROVE  Promised!Serve(Accepted(request'),
                          [e \in Entries |-> Sees(request', body, promise', e)],
                          a, m)
<1> DEFINE r == Accepted(request')
           s == [e \in Entries |-> Sees(request', body, promise', e)]
           t == [e \in Entries |-> CallerSees(e)']
<1>1. /\ DOMAIN r = DOMAIN request'
      /\ \A e \in DOMAIN request' : /\ r[e].lane = request'[e].lane
                                     /\ r[e].priority = request'[e].priority
  BY DEF Accepted
<1>2. begun \in SUBSET DOMAIN request'
  BY DEF Begins
<1>3. \A e \in begun : s[e] = "waiting" /\ e \in Entries
  BY <1>2 DEF Begins, Sees
<1>4. ASSUME NEW e \in Entries PROVE t[e] = IF e \in begun THEN "running" ELSE s[e]
  BY <1>2 DEF Begins, Sees, CallerSees, Issued
<1>5. ASSUME NEW d \in DOMAIN request', t[d] = "waiting"
      PROVE  body'[d] = "none" /\ promise'[d] = "pending"
  <2>1. promise'[d] # "waiting"
    BY DEF Promises
  <2>2. QED
    BY <1>5, <2>1 DEF CallerSees, Issued
<1> DEFINE rs == [e \in Entries |-> CallerSees(e)]'
<1>6. rs = t
  OBVIOUS
<1>7. rs = [e \in Entries |-> IF e \in begun THEN "running" ELSE s[e]]
  BY <1>4, <1>6
<1>8. /\ active' = [l \in Lanes |-> a[l] \cup {e \in begun : r[e].lane = l}]
      /\ \A e \in begun : Promised!Cardinality(active'[r[e].lane]) <= m[r[e].lane]
  <2> HIDE DEF r, s, t, rs
  <2>1. \A e \in begun : r[e].lane = request'[e].lane
    BY <1>1, <1>2
  <2>2. \A l \in Lanes : {e \in begun : r[e].lane = l} = {e \in begun : request'[e].lane = l}
    BY <2>1
  <2>3. /\ active' = [l \in Lanes |-> a[l] \cup {e \in begun : request'[e].lane = l}]
        /\ \A e \in begun : Cardinality(active'[request'[e].lane]) <= m[request'[e].lane]
    BY DEF Begins
  <2>4. active' = [l \in Lanes |-> a[l] \cup {e \in begun : r[e].lane = l}]
    BY <2>2, <2>3
  <2>5. ASSUME NEW e \in begun
        PROVE  Promised!Cardinality(active'[r[e].lane]) <= m[r[e].lane]
    BY <2>1, <2>3, SameCardinality
  <2>6. QED
    BY <2>4, <2>5
<1>9. ASSUME NEW d \in DOMAIN r, rs[d] = "waiting"
      PROVE  /\ Promised!Cardinality(active'[r[d].lane]) >= m[r[d].lane]
             /\ \A e \in begun : r[e].lane = r[d].lane => Promised!GoesFirst(r, e, d)
  <2>1. d \in DOMAIN request' /\ d \in Entries /\ t[d] = "waiting"
    BY <1>1, <1>6, <1>9
  <2>2. body'[d] = "none" /\ promise'[d] = "pending"
    BY <1>5, <2>1
  <2> HIDE DEF rs, t, r, s
  <2>3. /\ Cardinality(active'[request'[d].lane]) >= m[request'[d].lane]
        /\ \A e \in begun : request'[e].lane = request'[d].lane => Ahead(request', e, d)
    BY <2>1, <2>2 DEF Begins
  <2>4. Promised!Cardinality(active'[r[d].lane]) >= m[r[d].lane]
    <3>1. r[d].lane = request'[d].lane
      BY <1>1, <2>1
    <3>2. QED
      BY <2>3, <3>1, SameCardinality
  <2>5. ASSUME NEW e \in begun, r[e].lane = r[d].lane PROVE Promised!GoesFirst(r, e, d)
    <3>1. e \in DOMAIN request'
      BY <1>2
    <3>2. Ahead(request', e, d)
      BY <1>1, <2>1, <2>3, <2>5, <3>1
    <3>3. QED
      BY <1>1, <2>1, <3>1, <3>2 DEF Ahead, Promised!GoesFirst
  <2>6. QED
    BY <2>4, <2>5
<1> HIDE DEF r, s, t
<1>10. begun \in SUBSET DOMAIN r /\ \A e \in begun : s[e] = "waiting"
  BY <1>1, <1>2, <1>3
<1>11. Promised!Serve(r, s, a, m)
  BY <1>7, <1>8, <1>9, <1>10 DEF Promised!Serve, Promised!Entries, Entries
<1>12. QED
  BY <1>11 DEF r, s

-----------------------------------------------------------------------------
(* Each step of the queue is a step of LanePromise, or none of it.         *)

\* What LanePromise's variables stand for, and the typing of what they are
\* made from.
Readings ==
    /\ DOMAIN request \subseteq Entries /\ request \in Seq(Request)
    /\ promise \in [Entries -> Promises]
    /\ active \in [Lanes -> SUBSET Entries]
    /\ maxConcurrent \in [Lanes -> Nat]

\* The invariant says so, before a step and after it.
LEMMA IInvReadings == (IInv => Readings) /\ (IInv' => Readings')
<1>1. IInv => Readings
  BY BoundsAssumption DEF IInv, TypeInv, TypeOK, Entries, Readings
<1>2. IInv' => Readings'
  BY BoundsAssumption DEF IInv, TypeInv, TypeOK, Entries, Readings
<1>3. QED
  BY <1>1, <1>2

\* What a caller sees does not change when its function goes on or returns, nor
\* when a timer is armed or a waiter is answered.
LEMMA Unseen ==
    ASSUME IInv,
           UNCHANGED <<gatewayDraining, active, maxConcurrent, request, promise>>,
           \A e \in Entries : body'[e] = "none" <=> body[e] = "none"
    PROVE  UNCHANGED Promised!vars
<1>1. [e \in Entries |-> CallerSees(e)]' = [e \in Entries |-> CallerSees(e)]
  BY DEF CallerSees, Issued
<1>2. [e \in Issued |-> [lane |-> request[e].lane, priority |-> request[e].priority]]'
        = [e \in Issued |-> [lane |-> request[e].lane, priority |-> request[e].priority]]
  BY DEF Issued
<1>3. QED
  BY <1>1, <1>2 DEF Promised!vars

\* enqueueCommandInLane
LEMMA EnqueueAccepts ==
    ASSUME IInv, IInv', Sequence,
           NEW l \in Lanes, NEW p \in Priorities, NEW t \in Timeouts, Enqueue(l, p, t)
    PROVE  Promised!Accept(l, p)
<1> DEFINE e == Len(request) + 1
           req == [lane |-> l, priority |-> p, timed |-> t]
           acc == Accepted(request)
           r == Append(acc, [lane |-> l, priority |-> p])
           s == [[d \in Entries |-> CallerSees(d)] EXCEPT ![e] = "waiting"]
           q == [queue EXCEPT ![l] = Insert(@, e, req)]
<1>1. /\ ~gatewayDraining /\ e \in Entries
      /\ request' = Append(request, req)
      /\ UNCHANGED <<gatewayDraining, maxConcurrent, promise>>
  BY DEF Enqueue
<1>2. Readings /\ Readings'
  BY IInvReadings
<1>3. PICK begun : Begins(begun, active, maxConcurrent)
  <2>1. /\ Handed({l}, q, active, maxConcurrent, generation)
        /\ Pump({l}, q, active, maxConcurrent, generation)
    BY CoreEnqueue DEF IInv
  <2>2. InOrder(request', q, body)
    BY EnqueueInOrder
  <2> HIDE DEF q
  <2>3. QED
    BY <1>2, <2>1, <2>2, PumpBegins DEF Readings
<1>4. Promised!Serve(Accepted(request'),
                     [d \in Entries |-> Sees(request', body, promise', d)],
                     active, maxConcurrent)
  BY <1>2, <1>3, BeginsServes DEF Readings
<1>5. request \in Seq(Request) /\ Len(request) \in Nat /\ DOMAIN request = 1..Len(request)
  BY <1>2 DEF Readings
<1>6. acc \in Seq([lane : Lanes, priority : Priorities]) /\ Len(acc) = Len(request)
  <2>1. \A d \in 1..Len(request) : request[d] \in Request
    BY <1>5
  <2>2. acc \in [1..Len(request) -> [lane : Lanes, priority : Priorities]]
    BY <1>5, <2>1 DEF Accepted, Request
  <2> DEFINE Work == [lane : Lanes, priority : Priorities]
             n == Len(request)
  <2> HIDE DEF acc, Work
  <2>3. n \in Nat /\ acc \in [1..n -> Work]
    BY <1>5, <2>2 DEF Work
  <2> HIDE DEF n
  <2>4. acc \in Seq(Work) /\ Len(acc) = n
    BY <2>3
  <2>5. QED
    BY <2>4 DEF Work, n
<1>7. r = Accepted(request')
  <2>1. /\ DOMAIN request' = 1..e
        /\ request'[e] = req
        /\ \A d \in 1..Len(request) : request'[d] = request[d]
    BY <1>1, <1>5
  <2>2. /\ DOMAIN r = 1..e
        /\ r[e] = [lane |-> l, priority |-> p]
        /\ \A d \in 1..Len(request) : r[d] = acc[d]
    BY <1>5, <1>6
  <2> HIDE DEF r
  <2>3. r = [d \in 1..e |-> r[d]]
    BY <1>6, <2>2 DEF r
  <2>4. ASSUME NEW d \in 1..e
        PROVE  r[d] = [lane |-> request'[d].lane, priority |-> request'[d].priority]
    <3>1. CASE d = e
      BY <2>1, <2>2, <3>1
    <3>2. CASE d # e
      <4>1. d \in 1..Len(request)
        BY <1>5, <3>2
      <4>2. acc[d] = [lane |-> request[d].lane, priority |-> request[d].priority]
        BY <1>5, <4>1 DEF Accepted
      <4> HIDE DEF acc
      <4>3. QED
        BY <2>1, <2>2, <4>1, <4>2
    <3>3. QED
      BY <3>1, <3>2
  <2>5. QED
    BY <2>1, <2>3, <2>4 DEF Accepted
<1>8. s = [d \in Entries |-> Sees(request', body, promise', d)]
  <2>1. DOMAIN request' = DOMAIN request \cup {e} /\ e \notin DOMAIN request
    BY <1>1, <1>5
  <2>2. body[e] = "none" /\ promise[e] = "pending"
    BY <1>1, <2>1 DEF IInv, Core, EntriesOK
  <2> HIDE DEF e
  <2>3. QED
    BY <1>1, <2>1, <2>2 DEF Sees, CallerSees, Issued
<1>9. acc = [d \in Issued |-> [lane |-> request[d].lane, priority |-> request[d].priority]]
  BY DEF Accepted, Issued
<1>10. Accepted(request') = [d \in Issued |-> [lane |-> request[d].lane, priority |-> request[d].priority]]'
  BY DEF Accepted, Issued
<1> HIDE DEF s, r, acc
<1>11. Promised!Serve(r, s, active, maxConcurrent)
  BY <1>4, <1>7, <1>8
<1>12. QED
  BY <1>1, <1>6, <1>7, <1>9, <1>10, <1>11 DEF Promised!Accept, Promised!Entries, Entries, s, r

\* When no work is handed in, the lanes are served with the work there was.
LEMMA ServesAccepted ==
    ASSUME Readings, Readings', UNCHANGED request,
           NEW a \in [Lanes -> SUBSET Entries], NEW m, NEW begun, Begins(begun, a, m),
           NEW s,
           s = [e \in Entries |-> Sees(request, body, promise', e)]
    PROVE  /\ Promised!Serve(
                  [e \in Issued |-> [lane |-> request[e].lane, priority |-> request[e].priority]],
                  s, a, m)
           /\ UNCHANGED [e \in Issued |-> [lane |-> request[e].lane, priority |-> request[e].priority]]
<1>1. Promised!Serve(Accepted(request'),
                     [e \in Entries |-> Sees(request', body, promise', e)], a, m)
  BY BeginsServes DEF Readings
<1>2. s = [e \in Entries |-> Sees(request', body, promise', e)]
  OBVIOUS
<1>3. /\ Accepted(request') =
            [e \in Issued |-> [lane |-> request[e].lane, priority |-> request[e].priority]]
      /\ UNCHANGED [e \in Issued |-> [lane |-> request[e].lane, priority |-> request[e].priority]]
  BY DEF Accepted, Issued
<1>4. QED
  BY <1>1, <1>2, <1>3

\* What callers see, when no promise is settled in the step.
LEMMA SeesAsBefore ==
    UNCHANGED <<request, promise>> =>
        [e \in Entries |-> CallerSees(e)] = [e \in Entries |-> Sees(request, body, promise', e)]
  BY DEF Sees, CallerSees, Issued

\* setCommandLaneConcurrency
LEMMA SetConcurrencyLimits ==
    ASSUME IInv, IInv', Sequence,
           NEW l \in Lanes, NEW n \in Concurrency, SetConcurrency(l, n)
    PROVE  Promised!Limit(l)
<1>1. Readings /\ Readings'
  BY IInvReadings
<1>2. /\ UNCHANGED <<gatewayDraining, request, promise>>
      /\ \A k \in Lanes \ {l} : maxConcurrent'[k] = maxConcurrent[k]
  BY <1>1 DEF SetConcurrency, Readings
<1>3. PICK begun : Begins(begun, active, maxConcurrent')
  <2>1. CASE /\ Handed({l}, queue, active, maxConcurrent', generation)
             /\ Pump({l}, queue, active, maxConcurrent', generation)
    <3>1. InOrder(request', queue, body)
      BY <1>2 DEF Sequence
    <3>2. QED
      BY <1>1, <2>1, <3>1, PumpBegins DEF Readings
  <2>2. CASE Core' /\ UNCHANGED <<queue, active, body, startGeneration>>
    BY <1>1, <2>2, NothingBegins DEF Readings
  <2>3. QED
    BY <2>1, <2>2, ConcurrencyAssumption, LimitHands DEF IInv
<1>4. active \in [Lanes -> SUBSET Entries]
  BY <1>1 DEF Readings
<1>5. /\ Promised!Serve(
              [e \in Issued |-> [lane |-> request[e].lane, priority |-> request[e].priority]],
              [e \in Entries |-> CallerSees(e)], active, maxConcurrent')
      /\ UNCHANGED [e \in Issued |-> [lane |-> request[e].lane, priority |-> request[e].priority]]
  BY <1>1, <1>2, <1>3, <1>4, SeesAsBefore, ServesAccepted
<1>6. QED
  BY <1>1, <1>2, <1>5 DEF Promised!Limit, Readings

\* resetCommandLane and resetAllLanes
LEMMA IdleTakesSlots ==
    ASSUME IInv, IInv', Sequence, NEW ls \in SUBSET Lanes, Idle(ls),
           gatewayDraining' \in {gatewayDraining, FALSE}
    PROVE  Promised!TakeSlots(ls)
<1> DEFINE a == [l \in Lanes |-> IF l \in ls THEN {} ELSE active[l]]
<1>1. Readings /\ Readings'
  BY IInvReadings
<1>2. UNCHANGED <<request, promise, maxConcurrent>>
  BY DEF Idle
<1>3. a \in [Lanes -> SUBSET Entries]
  BY <1>1 DEF Readings
<1>4. PICK begun : Begins(begun, a, maxConcurrent)
  <2>1. /\ Handed(ls, queue, a, maxConcurrent, generation')
        /\ Pump(ls, queue, a, maxConcurrent, generation')
    BY IdleHands DEF IInv
  <2>2. InOrder(request', queue, body)
    BY <1>2 DEF Sequence
  <2> HIDE DEF a
  <2>3. QED
    BY <1>1, <2>1, <2>2, PumpBegins DEF Readings
<1> HIDE DEF a
<1>5. /\ Promised!Serve(
              [e \in Issued |-> [lane |-> request[e].lane, priority |-> request[e].priority]],
              [e \in Entries |-> CallerSees(e)], a, maxConcurrent)
      /\ UNCHANGED [e \in Issued |-> [lane |-> request[e].lane, priority |-> request[e].priority]]
  BY <1>1, <1>2, <1>3, <1>4, SeesAsBefore, ServesAccepted
<1>6. QED
  BY <1>2, <1>5 DEF Promised!TakeSlots, a

\* The continuation of a task
LEMMA SettleReturns ==
    ASSUME IInv, IInv', Sequence, NEW e \in Entries, Settle(e)
    PROVE  \E end \in Promised!Ends : Promised!Return(e, end)
<1> DEFINE l == request[e].lane
           b == [active EXCEPT ![l] = @ \ {e}]
           a == [k \in Lanes |-> active[k] \ {e}]
           end == IF race[e] = "task" THEN "settled" ELSE "timedOut"
           status == [d \in Entries |-> CallerSees(d)]
           s == [status EXCEPT ![e] = end]
<1>1. Readings /\ Readings'
  BY IInvReadings
<1>2. /\ e \in DOMAIN request /\ race[e] # "none" /\ promise[e] = "pending"
      /\ promise' = [promise EXCEPT ![e] = end]
      /\ UNCHANGED <<gatewayDraining, maxConcurrent, request>>
  BY DEF Settle, Issued
<1>3. status[e] = "running"
  BY <1>2 DEF CallerSees, Issued, IInv, Core, EntriesOK
<1>4. a \in [Lanes -> SUBSET Entries]
  BY <1>1 DEF Readings
<1>5. PICK begun : Begins(begun, a, maxConcurrent)
  <2>1. CASE /\ Handed({l}, queue, b, maxConcurrent, generation)
             /\ Pump({l}, queue, b, maxConcurrent, generation)
    <3>1. a = b
      <4>1. \A k \in Lanes : e \in active[k] => k = l
        BY DEF IInv, Core, SlotsOK
      <4>2. active \in [Lanes -> SUBSET Entries]
        BY <1>1 DEF Readings
      <4> HIDE DEF l
      <4>3. QED
        BY <4>1, <4>2
    <3>2. InOrder(request', queue, body)
      BY <1>2 DEF Sequence
    <3> HIDE DEF a, b, l
    <3>3. QED
      BY <1>1, <2>1, <3>1, <3>2, PumpBegins DEF Readings
  <2>2. CASE /\ \A k \in Lanes : e \notin active[k]
             /\ Core' /\ UNCHANGED <<queue, active, body, startGeneration>>
    <3>1. a = active
      BY <1>1, <2>2 DEF Readings
    <3> HIDE DEF a
    <3>2. \E begun : Begins(begun, active, maxConcurrent')
      BY <1>1, <2>2, NothingBegins DEF Readings
    <3>3. QED
      BY <1>2, <3>1, <3>2
  <2>3. QED
    BY <2>1, <2>2, SettleHands DEF IInv
<1>6. s = [d \in Entries |-> Sees(request, body, promise', d)]
  <2>1. end # "pending"
    OBVIOUS
  <2> HIDE DEF end
  <2>2. promise'[e] = end /\ \A d \in Entries : d # e => promise'[d] = promise[d]
    BY <1>1, <1>2 DEF Readings
  <2>3. s[e] = end /\ \A d \in Entries : d # e => s[d] = CallerSees(d)
    OBVIOUS
  <2>4. \A d \in Entries : s[d] = Sees(request, body, promise', d)
    BY <1>2, <2>1, <2>2, <2>3 DEF Sees, CallerSees, Issued
  <2>5. QED
    BY <2>4
<1> HIDE DEF a, s
<1>7. /\ Promised!Serve(
              [d \in Issued |-> [lane |-> request[d].lane, priority |-> request[d].priority]],
              s, a, maxConcurrent)
      /\ UNCHANGED [d \in Issued |-> [lane |-> request[d].lane, priority |-> request[d].priority]]
  BY <1>1, <1>2, <1>4, <1>5, <1>6, ServesAccepted
<1>8. Promised!Return(e, end)
  BY <1>2, <1>3, <1>7 DEF Promised!Return, a, s
<1>9. QED
  BY <1>8 DEF Promised!Ends

\* clearCommandLane
LEMMA ClearTurnsAway ==
    ASSUME IInv, NEW l \in Lanes, Clear(l)
    PROVE  Promised!TurnAway(l)
<1> DEFINE acc == [e \in Issued |-> [lane |-> request[e].lane, priority |-> request[e].priority]]
           status == [e \in Entries |-> CallerSees(e)]
<1>1. /\ promise' = [e \in Entries |-> IF e \in ToSet(queue[l]) THEN "cleared" ELSE promise[e]]
      /\ UNCHANGED <<gatewayDraining, active, maxConcurrent, request, body>>
  BY DEF Clear
<1>2. Readings
  BY IInvReadings
<1>3. ASSUME NEW e \in Entries
      PROVE  CallerSees(e)' = IF e \in DOMAIN acc /\ acc[e].lane = l /\ status[e] = "waiting"
                              THEN "cleared" ELSE status[e]
  <2>1. e \in ToSet(queue[l]) <=> /\ e \in DOMAIN request /\ request[e].lane = l
                                 /\ body[e] = "none" /\ promise[e] = "pending"
    BY ToSetQueued DEF IInv, TypeInv, TypeOK, Core, QueuesOK
  <2>2. e \in DOMAIN acc <=> e \in DOMAIN request
    BY DEF Issued
  <2>3. e \in DOMAIN request => acc[e].lane = request[e].lane
    BY DEF Issued
  <2>4. promise[e] \in Promises
    BY <1>2 DEF Readings
  <2>5. status[e] = "waiting" <=> e \in DOMAIN request /\ body[e] = "none" /\ promise[e] = "pending"
    BY <2>4 DEF CallerSees, Issued, Promises
  <2>6. CASE e \in ToSet(queue[l])
    <3>1. CallerSees(e)' = "cleared"
      BY <1>1, <2>1, <2>6 DEF CallerSees, Issued
    <3> HIDE DEF acc, status
    <3>2. QED
      BY <2>1, <2>2, <2>3, <2>5, <2>6, <3>1
  <2>7. CASE e \notin ToSet(queue[l])
    <3>1. CallerSees(e)' = status[e]
      BY <1>1, <2>7 DEF CallerSees, Issued
    <3> HIDE DEF acc, status
    <3>2. QED
      BY <2>1, <2>2, <2>3, <2>5, <2>7, <3>1
  <2>8. QED
    BY <2>6, <2>7
<1>4. status' = [e \in Entries |-> CallerSees(e)']
  OBVIOUS
<1>5. UNCHANGED acc
  BY <1>1 DEF Issued
<1>6. QED
  BY <1>1, <1>3, <1>4, <1>5 DEF Promised!TurnAway, Promised!Entries, Entries

\* A step of the queue is a step of LanePromise.
LEMMA StepKeeps ==
    ASSUME IInv, IInv', Sequence, [Next]_vars
    PROVE  [Promised!Next]_Promised!vars
<1>1. ASSUME NEW l \in Lanes, NEW p \in Priorities, NEW t \in Timeouts, Enqueue(l, p, t)
      PROVE  Promised!Next
  BY <1>1, EnqueueAccepts DEF Promised!Next
<1>2. ASSUME NEW l \in Lanes, NEW n \in Concurrency, SetConcurrency(l, n)
      PROVE  Promised!Next
  BY <1>2, SetConcurrencyLimits DEF Promised!Next
<1>3. ASSUME NEW l \in Lanes, Clear(l)
      PROVE  Promised!Next
  BY <1>3, ClearTurnsAway DEF Promised!Next
<1>4. ASSUME NEW l \in Lanes, ResetLane(l)
      PROVE  Promised!Next
  <2>1. {l} \in SUBSET Lanes /\ Idle({l}) /\ gatewayDraining' \in {gatewayDraining, FALSE}
    BY <1>4 DEF ResetLane
  <2>2. QED
    BY <2>1, IdleTakesSlots DEF Promised!Next
<1>5. ASSUME ResetAllLanes
      PROVE  Promised!Next
  <2>1. lanes \in SUBSET Lanes /\ Idle(lanes) /\ gatewayDraining' \in {gatewayDraining, FALSE}
    BY <1>5 DEF ResetAllLanes, IInv, TypeInv, TypeOK
  <2>2. QED
    BY <2>1, IdleTakesSlots DEF Promised!Next
<1>6. ASSUME MarkGatewayDraining
      PROVE  Promised!Next
  <2>1. /\ gatewayDraining' = TRUE
        /\ UNCHANGED <<active, maxConcurrent, request, promise, body>>
    BY <1>6 DEF MarkGatewayDraining, entryVars
  <2>2. UNCHANGED <<[e \in Issued |-> [lane |-> request[e].lane, priority |-> request[e].priority]],
                    [e \in Entries |-> CallerSees(e)]>>
    BY <2>1 DEF CallerSees, Issued
  <2>3. QED
    BY <2>1, <2>2 DEF Promised!Close, Promised!Next
<1>7. ASSUME NEW e \in Entries, Settle(e)
      PROVE  Promised!Next
  <2>1. PICK end \in Promised!Ends : Promised!Return(e, end)
    BY <1>7, SettleReturns
  <2>2. QED
    BY <2>1 DEF Promised!Next, Promised!Entries, Entries
<1>8. ASSUME NEW e \in Entries, FinishBody(e)
      PROVE  UNCHANGED Promised!vars
  <2>1. /\ body[e] = "running" /\ body' = [body EXCEPT ![e] = "done"]
        /\ UNCHANGED <<gatewayDraining, active, maxConcurrent, request, promise>>
    BY <1>8 DEF FinishBody, laneVars
  <2>2. body \in [Entries -> Bodies]
    BY DEF IInv, TypeInv, TypeOK
  <2>3. \A f \in Entries : body'[f] = "none" <=> body[f] = "none"
    BY <2>1, <2>2
  <2>4. QED
    BY <2>1, <2>3, Unseen
<1>9. ASSUME UNCHANGED <<gatewayDraining, active, maxConcurrent, request, promise, body>>
      PROVE  UNCHANGED Promised!vars
  BY <1>9, Unseen
<1>10. ASSUME NEW e \in Entries, Timeout(e)
       PROVE  UNCHANGED Promised!vars
  BY <1>9, <1>10 DEF Timeout, laneVars
<1>11. ASSUME NEW w \in Waiters, NEW t \in {"none", "positive", "expired"},
              WaitForActiveTasks(w, t) \/ WaiterTimeout(w)
       PROVE  UNCHANGED Promised!vars
  BY <1>9, <1>11 DEF WaitForActiveTasks, WaiterTimeout, laneVars, entryVars
<1>12. ASSUME UNCHANGED vars
       PROVE  UNCHANGED Promised!vars
  BY <1>9, <1>12 DEF vars, laneVars, entryVars
<1>13. QED
  BY <1>1, <1>2, <1>3, <1>4, <1>5, <1>6, <1>7, <1>8, <1>10, <1>11, <1>12 DEF Next, Calls, EventLoop

\* The queue starts as LanePromise does.
LEMMA InitKeeps == Init => Promised!Init
<1> SUFFICES ASSUME Init PROVE Promised!Init
  OBVIOUS
<1>1. Issued = {}
  BY DEF Init, Issued
<1>2. [e \in Issued |-> [lane |-> request[e].lane, priority |-> request[e].priority]] = <<>>
  BY <1>1
<1>3. [e \in Entries |-> CallerSees(e)] = [e \in Entries |-> "none"]
  BY <1>1 DEF CallerSees
<1>4. QED
  BY <1>2, <1>3 DEF Init, Promised!Init, Promised!Entries, Entries

\* The command queue implements LanePromise: for any lanes, limits and
\* callers, whatever is called and in whatever order the event loop delivers,
\* accepted work is begun once, in order and within the limits, is answered at
\* most once, and never waits beside a free slot.
THEOREM PromiseKept == Spec => KeepsPromise
<1>1. Spec => []Sequence
  BY OrderInit, OrderNext, Inductive, PTL DEF Spec
<1>2. Spec => Promised!Spec
  BY <1>1, Inductive, InitKeeps, StepKeeps, PTL DEF Spec, Promised!Spec
<1>3. QED
  BY <1>2 DEF KeepsPromise
=============================================================================
