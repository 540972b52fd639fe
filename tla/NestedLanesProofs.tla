-------------------------- MODULE NestedLanesProofs --------------------------
(***************************************************************************)
(* Proofs about NestedLanes, for any number of sessions, runs, jobs and    *)
(* changes of limits.  The command queue keeps its own invariant, IInv,    *)
(* although reloads, suspensions and recoveries write its limits and       *)
(* generations; on top of it stands what the nesting of tasks keeps.       *)
(***************************************************************************)
EXTENDS NestedLanes, CommandQueueProofs

\* The global lanes that a run asks for.
RunLanes == {Main, CronNested}

\* What is still to be nested in a task of each kind of lane.
Shape(lane, after) ==
    \/ lane \in RunLanes /\ after = <<>>
    \/ lane \in SessionLanes /\ \E g \in RunLanes : after = <<g>>
    \/ lane = Cron /\ \E s \in SessionLanes, g \in RunLanes : after = <<s, g>>

\* The order in which a task may hold lanes.
Rank(lane) == IF lane = Cron THEN 0 ELSE IF lane \in SessionLanes THEN 1 ELSE 2

NestedKinds ==
    /\ rest \in [Entries -> Seq(Lanes)]
    /\ inner \in [Entries -> 0..MaxEntries]
    /\ configured \in [GlobalLanes -> Limits]
    /\ resume \in [Lanes -> Limits \cup {0}]

\* What is nested: shapes, and that only a task with more to nest awaits one,
\* a later one in a lane further in.
Nesting(e) ==
    /\ e \in Issued =>
          /\ Shape(request[e].lane, rest[e])
          /\ request[e].timed => rest[e] = <<>>
    /\ e \notin Issued => inner[e] = 0
    /\ inner[e] # 0 =>
          /\ body[e] # "none" /\ rest[e] # <<>>
          /\ inner[e] \in Issued /\ e < inner[e]
          /\ Rank(request[e].lane) < Rank(request[inner[e]].lane)

\* How an entry's body, race and promise follow each other, without clears; a
\* body that awaits a task goes on until that is settled.
Progress(e) ==
    /\ race[e] = "timeout" => e \in Issued /\ request[e].timed
    /\ race[e] = "task" => body[e] = "done"
    /\ body[e] = "done" => race[e] # "none"
    /\ promise[e] # "pending" => race[e] # "none"
    /\ inner[e] # 0 /\ promise[inner[e]] = "pending" => body[e] = "running"

\* Nobody writes the limit of a session's lane.
OneSlot == \A s \in SessionLanes : maxConcurrent[s] = 1 /\ Cardinality(active[s]) <= 1

NestedInv ==
    /\ IInv /\ NestedKinds
    /\ \A e \in Entries : Nesting(e) /\ Progress(e)
    /\ OneSlot /\ SuspensionEnds

-----------------------------------------------------------------------------
(* What a step does to the entries, as far as the nesting goes.            *)

\* Entries start: nothing else happens to a body.
Starts == \A e \in Entries : body'[e] = body[e] \/ (body[e] = "none" /\ body'[e] = "running")

\* Accepted entries stay as they are.
Appends == \A e \in Issued : e \in Issued' /\ request'[e] = request[e]

\* drainLane starts entries.
LEMMA DrainStarts ==
    ASSUME NEW ls, NEW q, NEW a, NEW m, NEW g,
           Handed(ls, q, a, m, g), Pump(ls, q, a, m, g)
    PROVE  Starts
<1>1. /\ ls \in SUBSET Lanes
      /\ q \in [Lanes -> Seq(Entries)]
      /\ a \in [Lanes -> SUBSET Entries]
      /\ m \in [Lanes -> Nat]
      /\ g \in [Lanes -> Nat]
      /\ SlotsOK(a, g, request', body, startGeneration, promise')
      /\ QueuesOK(q, request', body, promise')
  BY DEF Handed
<1>2. \A e \in Entries : \/ body'[e] = body[e] /\ startGeneration'[e] = startGeneration[e]
                         \/ /\ e \in DOMAIN request'
                            /\ body[e] = "none" /\ promise'[e] = "pending"
                            /\ body'[e] = "running"
                            /\ startGeneration'[e] = g[request'[e].lane]
  BY <1>1, PumpFacts, ZenonT(120)
<1>3. QED
  BY <1>2 DEF Starts

\* A step of the queue keeps the queue's invariant.
LEMMA QueueStep ==
    ASSUME IInv, [Next]_vars
    PROVE  IInv' /\ (WithinLimit \/ UNCHANGED active)
  BY IInvNext, CoreNext DEF IInv

\* So does whoever writes limits and drains the lanes he wrote to.
LEMMA LimitStep ==
    ASSUME IInv, NEW ls \in SUBSET Lanes, NEW m \in [Lanes -> Nat],
           \A l \in Lanes : l \notin ls => m[l] = maxConcurrent[l],
           lanes' \subseteq Lanes, maxConcurrent' = m,
           UNCHANGED <<gatewayDraining, generation, request, race, promise, waiter>>,
           Pump(ls, queue, active, m, generation)
    PROVE  IInv' /\ WithinLimit /\ Starts
<1>1. TypeInv'
  BY TypeLimits DEF IInv
<1>2. Handed(ls, queue, active, m, generation)
  <2>1. /\ request \in Seq(Request)
        /\ queue \in [Lanes -> Seq(Entries)]
        /\ active \in [Lanes -> SUBSET Entries]
        /\ generation \in [Lanes -> Nat]
    BY DEF IInv, TypeInv, TypeOK
  <2>2. QED
    BY <2>1 DEF Handed, IInv, Core, WorkConserving
<1>3. Core' /\ WithinLimit /\ \A l \in Lanes : active[l] \subseteq active'[l]
  BY <1>2, PumpStep
<1>4. NoLostWakeup'
  BY <1>3, GrowthWakes DEF IInv
<1>5. QED
  BY <1>1, <1>2, <1>3, <1>4, DrainStarts DEF IInv

\* setCommandLaneConcurrency, called with any number, keeps the invariant too.
LEMMA SetConcurrencyStep ==
    ASSUME IInv, NEW l \in Lanes, NEW n \in Int, SetConcurrency(l, n)
    PROVE  /\ IInv' /\ WithinLimit /\ Starts
           /\ maxConcurrent' = [maxConcurrent EXCEPT ![l] = Slots(l, n)]
           /\ UNCHANGED <<request, race, promise>>
<1>1. TypeInv'
  BY TypeSetConcurrency DEF IInv
<1>2. /\ Core' /\ WithinLimit
      /\ \A k \in Lanes : active[k] \subseteq active'[k]
      /\ Drains \/ UNCHANGED <<queue, body>>
  BY CoreSetConcurrency DEF IInv
<1>3. NoLostWakeup'
  BY <1>2, GrowthWakes DEF IInv, SetConcurrency
<1>4. Starts
  BY <1>2, DrainStarts DEF Drains, Starts
<1>5. QED
  BY <1>1, <1>2, <1>3, <1>4 DEF IInv, SetConcurrency

\* A session's lane keeps its one slot where its limit is left alone.
LEMMA SlotKept ==
    ASSUME NestedInv, TypeInv', WithinLimit \/ UNCHANGED active,
           \A s \in SessionLanes : maxConcurrent'[s] = maxConcurrent[s]
    PROVE  OneSlot'
<1> SUFFICES ASSUME NEW s \in SessionLanes
             PROVE  maxConcurrent'[s] = 1 /\ Cardinality(active'[s]) <= 1
  BY DEF OneSlot
<1>1. maxConcurrent'[s] = 1 /\ Cardinality(active[s]) <= 1
  BY DEF NestedInv, OneSlot
<1>2. s \in Lanes
  BY NestedAssumption
<1>3. active[s] \in SUBSET Entries /\ active'[s] \in SUBSET Entries
  BY <1>2 DEF NestedInv, IInv, TypeInv, TypeOK
<1>4. CASE active'[s] \subseteq active[s]
  <2>1. IsFiniteSet(active[s]) /\ Cardinality(active[s]) \in Nat /\ Cardinality(active'[s]) \in Nat
    BY <1>3, EntriesFinite
  <2>2. Cardinality(active'[s]) <= Cardinality(active[s])
    BY <1>4, <2>1, FS_Subset
  <2>3. QED
    BY <1>1, <2>1, <2>2
<1>5. CASE ~(active'[s] \subseteq active[s])
  BY <1>1, <1>2, <1>5 DEF WithinLimit
<1>6. QED
  BY <1>1, <1>4, <1>5

\* What is nested stays so while accepted entries do and bodies only go on.
LEMMA NestingKept ==
    ASSUME \A e \in Entries : Nesting(e), UNCHANGED <<request, rest, inner>>,
           \A e \in Entries : body[e] # "none" => body'[e] # "none"
    PROVE  \A e \in Entries : Nesting(e)'
  BY DEF Nesting, Issued

\* A step that starts entries, and in which only a running entry comes to await
\* another, keeps them in progress.
LEMMA ProgressKept ==
    ASSUME \A e \in Entries : Progress(e), Starts, Appends, UNCHANGED race,
           \A e \in Entries : promise'[e] # promise[e] => race[e] # "none" /\ promise'[e] # "pending",
           inner' \in [Entries -> 0..MaxEntries],
           \A e \in Entries : inner'[e] # inner[e] => body[e] = "running"
    PROVE  \A e \in Entries : Progress(e)'
<1> SUFFICES ASSUME NEW e \in Entries
             PROVE  Progress(e)'
  OBVIOUS
<1>1. Progress(e) /\ (body'[e] = body[e] \/ (body[e] = "none" /\ body'[e] = "running"))
  BY DEF Starts
<1>2. race'[e] = "timeout" => e \in Issued' /\ request'[e].timed
  BY <1>1 DEF Progress, Appends
<1>3. /\ race'[e] = "task" => body'[e] = "done"
      /\ body'[e] = "done" => race'[e] # "none"
      /\ promise'[e] # "pending" => race'[e] # "none"
  BY <1>1 DEF Progress
<1>4. ASSUME inner'[e] # 0, promise'[inner'[e]] = "pending"
      PROVE  body'[e] = "running"
  <2>1. CASE inner'[e] # inner[e]
    BY <1>1, <2>1
  <2>2. CASE inner'[e] = inner[e]
    <3>1. inner[e] \in Entries
      BY <1>4, <2>2, BoundsAssumption DEF Entries
    <3>2. promise[inner[e]] = "pending"
      BY <1>4, <2>2, <3>1
    <3>3. QED
      BY <1>1, <1>4, <2>2, <3>2 DEF Progress
  <2>3. QED
    BY <2>1, <2>2
<1>5. QED
  BY <1>2, <1>3, <1>4 DEF Progress

-----------------------------------------------------------------------------
(* NestedInv is inductive: one lemma for each kind of step.                *)

\* Nothing is nested at first.
LEMMA NestedInvInit == NestedInit => NestedInv
<1> SUFFICES ASSUME NestedInit PROVE NestedInv
  OBVIOUS
<1>1. IInv
  BY IInvInit DEF NestedInit
<1>2. NestedKinds
  BY NestedAssumption, BoundsAssumption, EmptySeq DEF NestedInit, NestedKinds
<1>3. \A e \in Entries : Nesting(e) /\ Progress(e)
  BY DEF NestedInit, Init, Nesting, Progress, Issued
<1>4. OneSlot /\ SuspensionEnds
  BY NestedAssumption, FS_EmptySet DEF NestedInit, Init, OneSlot, SuspensionEnds
<1>5. QED
  BY <1>1, <1>2, <1>3, <1>4 DEF NestedInv

\* What the invariant says of the limits, where nobody writes one.
LEMMA LimitsKept ==
    ASSUME NestedInv, UNCHANGED <<maxConcurrent, limitVars>>, IInv', WithinLimit \/ UNCHANGED active
    PROVE  OneSlot' /\ SuspensionEnds'
  BY SlotKept DEF NestedInv, IInv, SuspensionEnds, limitVars

\* The task that is to be nested next lies further in, and so do those to be
\* nested in it.
LEMMA ShapeNext ==
    ASSUME NEW lane \in Lanes, NEW r, Shape(lane, r), r # <<>>
    PROVE  /\ Shape(Head(r), Tail(r))
           /\ Rank(lane) < Rank(Head(r))
           /\ Head(r) \in Lanes /\ Tail(r) \in Seq(Lanes)
           /\ Len(r) = 1 => Tail(r) = <<>>
<1>1. CASE lane \in SessionLanes /\ \E g \in RunLanes : r = <<g>>
  <2>1. PICK g \in RunLanes : r = <<g>>
    BY <1>1
  <2>2. Head(r) = g /\ Tail(r) = <<>>
    BY <2>1
  <2>3. Rank(lane) = 1 /\ Rank(g) = 2
    BY <1>1, NestedAssumption DEF Rank, RunLanes
  <2>4. QED
    BY <2>2, <2>3, NestedAssumption, EmptySeq DEF Shape, RunLanes
<1>2. CASE lane = Cron /\ \E s \in SessionLanes, g \in RunLanes : r = <<s, g>>
  <2>1. PICK s \in SessionLanes, g \in RunLanes : r = <<s, g>>
    BY <1>2
  <2>2. Head(r) = s /\ Tail(r) = <<g>> /\ Len(r) = 2
    BY <2>1
  <2>3. Rank(lane) = 0 /\ Rank(s) = 1
    BY <1>2, NestedAssumption DEF Rank
  <2>4. <<g>> \in Seq(Lanes) /\ s \in Lanes
    BY NestedAssumption DEF RunLanes
  <2>5. Shape(s, <<g>>)
    BY DEF Shape
  <2>6. Shape(Head(r), Tail(r))
    BY <2>2, <2>5
  <2>7. Rank(lane) < Rank(Head(r))
    BY <2>2, <2>3
  <2>8. Head(r) \in Lanes /\ Tail(r) \in Seq(Lanes)
    BY <2>2, <2>4, Zenon
  <2>9. Len(r) # 1
    BY <2>2
  <2>10. QED
    BY <2>6, <2>7, <2>8, <2>9
<1>3. QED
  BY <1>1, <1>2 DEF Shape

\* A task is handed on, by a call from outside or by the entry that awaits it.
LEMMA HandStep ==
    ASSUME NestedInv,
           NEW lane \in Lanes, NEW p \in Priorities, NEW t \in Timeouts, NEW after \in Seq(Lanes),
           Hand(lane, p, t, after), Shape(lane, after), t => after = <<>>,
           UNCHANGED limitVars,
           \/ UNCHANGED inner
           \/ \E d \in Issued : /\ body[d] = "running" /\ rest[d] # <<>>
                               /\ Rank(request[d].lane) < Rank(lane)
                               /\ inner' = [inner EXCEPT ![d] = Len(request) + 1]
    PROVE  NestedInv'
<1> DEFINE n == Len(request) + 1
           r == [lane |-> lane, priority |-> p, timed |-> t]
<1>1. /\ n \in Entries
      /\ request' = Append(request, r)
      /\ UNCHANGED <<maxConcurrent, race, promise>>
      /\ rest' = [rest EXCEPT ![n] = after]
  BY DEF Hand, Enqueue
<1>2. /\ request \in Seq(Request)
      /\ rest \in [Entries -> Seq(Lanes)]
      /\ inner \in [Entries -> 0..MaxEntries]
      /\ \A e \in Entries : Nesting(e) /\ Progress(e)
  BY DEF NestedInv, NestedKinds, IInv, TypeInv, TypeOK
<1>3. /\ DOMAIN request = 1..Len(request) /\ Len(request) \in Nat
      /\ DOMAIN request' = 1..n /\ request'[n] = r
      /\ \A e \in 1..Len(request) : request'[e] = request[e]
  BY <1>1, <1>2, r \in Request DEF Request
<1>4. Appends /\ n \notin Issued
  BY <1>3 DEF Appends, Issued
<1>5. IInv' /\ (WithinLimit \/ UNCHANGED active)
  BY QueueStep DEF NestedInv, Hand, Next, Calls
<1>6. Starts
  BY CoreEnqueue, DrainStarts DEF NestedInv, IInv, Hand
<1>7. inner' \in [Entries -> 0..MaxEntries]
  <2>1. n \in 0..MaxEntries
    BY <1>1, BoundsAssumption DEF Entries
  <2>2. inner' = inner \/ \E d \in Issued : inner' = [inner EXCEPT ![d] = n]
    OBVIOUS
  <2> HIDE DEF n
  <2>3. QED
    BY <1>2, <2>1, <2>2
<1>8. NestedKinds'
  BY <1>1, <1>2, <1>7 DEF NestedInv, NestedKinds, limitVars
<1>9. \A e \in Entries : inner'[e] # inner[e] =>
          /\ e \in Issued /\ inner'[e] = n
          /\ body[e] = "running" /\ rest[e] # <<>>
          /\ Rank(request[e].lane) < Rank(lane)
  BY <1>2
<1>10. ASSUME NEW e \in Entries
       PROVE  Nesting(e)'
  <2>1. Nesting(e) /\ (body[e] # "none" => body'[e] # "none")
    BY <1>2, <1>6 DEF Starts
  <2>2. CASE e = n
    <3>1. rest'[e] = after /\ request'[e] = r /\ inner'[e] = 0 /\ e \in Issued'
      BY <1>1, <1>2, <1>3, <1>4, <1>9, <2>1, <2>2 DEF Nesting, Issued
    <3>2. QED
      BY <3>1 DEF Nesting
  <2>3. CASE e # n
    <3>1. rest'[e] = rest[e] /\ (e \in Issued' <=> e \in Issued)
      BY <1>1, <1>2, <1>3, <2>3 DEF Issued
    <3>2. e \in Issued' => Shape(request'[e].lane, rest'[e]) /\ (request'[e].timed => rest'[e] = <<>>)
      BY <1>4, <2>1, <3>1 DEF Nesting, Appends
    <3>3. e \notin Issued' => inner'[e] = 0
      BY <1>9, <2>1, <3>1 DEF Nesting
    <3>4. ASSUME inner'[e] # 0
          PROVE  /\ body'[e] # "none" /\ rest'[e] # <<>>
                 /\ inner'[e] \in Issued' /\ e < inner'[e]
                 /\ Rank(request'[e].lane) < Rank(request'[inner'[e]].lane)
      <4>1. e \in Issued /\ request'[e] = request[e]
        BY <1>4, <3>1, <3>3, <3>4 DEF Appends
      <4>2. CASE inner'[e] = inner[e]
        BY <1>4, <2>1, <3>1, <3>4, <4>1, <4>2 DEF Nesting, Appends
      <4>3. CASE inner'[e] # inner[e]
        <5>1. /\ inner'[e] = n /\ body[e] # "none" /\ rest[e] # <<>>
              /\ Rank(request[e].lane) < Rank(lane)
          BY <1>9, <4>3
        <5>2. n \in Issued' /\ e < n /\ request'[n].lane = lane
          BY <1>3, <4>1 DEF Issued
        <5>3. QED
          BY <2>1, <3>1, <4>1, <5>1, <5>2
      <4>4. QED
        BY <4>2, <4>3
    <3>5. QED
      BY <3>2, <3>3, <3>4 DEF Nesting
  <2>4. QED
    BY <2>2, <2>3
<1>11. \A e \in Entries : Progress(e)'
  <2>1. \A e \in Entries : inner'[e] # inner[e] => body[e] = "running"
    BY <1>9
  <2>2. QED
    BY <1>1, <1>2, <1>4, <1>6, <1>7, <2>1, ProgressKept
<1>12. QED
  BY <1>1, <1>5, <1>8, <1>10, <1>11, LimitsKept DEF NestedInv

\* A body ends that awaits nothing that is still to be settled.
LEMMA FinishStep ==
    ASSUME NestedInv, NEW e \in Entries, FinishBody(e), UNCHANGED <<runVars, limitVars>>,
           inner[e] # 0 => promise[inner[e]] # "pending"
    PROVE  NestedInv'
<1>1. /\ body[e] = "running"
      /\ body' = [body EXCEPT ![e] = "done"]
      /\ race' = IF race[e] = "none" THEN [race EXCEPT ![e] = "task"] ELSE race
      /\ UNCHANGED <<maxConcurrent, request, promise, rest, inner>>
  BY DEF FinishBody, laneVars, runVars
<1>2. body \in [Entries -> Bodies] /\ race \in [Entries -> Outcomes]
  BY DEF NestedInv, IInv, TypeInv, TypeOK
<1>3. IInv' /\ (WithinLimit \/ UNCHANGED active)
  BY QueueStep DEF NestedInv, Next, EventLoop
<1>4. \A f \in Entries : body[f] # "none" => body'[f] # "none"
  BY <1>1, <1>2
<1>5. \A f \in Entries : Nesting(f)'
  BY <1>1, <1>4, NestingKept DEF NestedInv
<1>6. ASSUME NEW f \in Entries
      PROVE  Progress(f)'
  <2>1. Progress(f)
    BY DEF NestedInv
  <2>2. CASE f = e
    <3>1. body'[f] = "done" /\ race'[f] # "none" /\ (race'[f] = "timeout" => race[f] = "timeout")
      BY <1>1, <1>2, <2>2 DEF Outcomes
    <3>2. QED
      BY <1>1, <2>1, <2>2, <3>1 DEF Progress, Issued
  <2>3. CASE f # e
    <3>1. body'[f] = body[f] /\ race'[f] = race[f]
      BY <1>1, <1>2, <2>3
    <3>2. QED
      BY <1>1, <2>1, <3>1 DEF Progress, Issued
  <2>4. QED
    BY <2>2, <2>3
<1>7. NestedKinds'
  BY DEF NestedInv, NestedKinds, runVars, limitVars
<1>8. QED
  BY <1>1, <1>3, <1>5, <1>6, <1>7, LimitsKept DEF NestedInv

\* The timer of a task fires.
LEMMA TimeoutStep ==
    ASSUME NestedInv, NEW e \in Entries, Timeout(e), UNCHANGED <<runVars, limitVars>>
    PROVE  NestedInv'
<1>1. /\ e \in Issued /\ request[e].timed /\ body[e] = "running"
      /\ race' = [race EXCEPT ![e] = "timeout"]
      /\ UNCHANGED <<maxConcurrent, request, body, promise, rest, inner>>
  BY DEF Timeout, laneVars, runVars
<1>2. race \in [Entries -> Outcomes]
  BY DEF NestedInv, IInv, TypeInv, TypeOK
<1>3. IInv' /\ (WithinLimit \/ UNCHANGED active)
  BY QueueStep DEF NestedInv, Next, EventLoop
<1>4. \A f \in Entries : Nesting(f)'
  BY <1>1, NestingKept DEF NestedInv
<1>5. ASSUME NEW f \in Entries
      PROVE  Progress(f)'
  <2>1. Progress(f) /\ race'[f] = IF f = e THEN "timeout" ELSE race[f]
    BY <1>1, <1>2 DEF NestedInv
  <2>2. QED
    BY <1>1, <2>1 DEF Progress, Issued
<1>6. NestedKinds'
  BY DEF NestedInv, NestedKinds, runVars, limitVars
<1>7. QED
  BY <1>1, <1>3, <1>4, <1>5, <1>6, LimitsKept DEF NestedInv

\* A step in which entries start and at most promises are answered, by whoever.
LEMMA StartStep ==
    ASSUME NestedInv, IInv', WithinLimit \/ UNCHANGED active, Starts,
           UNCHANGED <<request, race, runVars>>, NestedKinds',
           \A e \in Entries : promise'[e] # promise[e] => race[e] # "none" /\ promise'[e] # "pending",
           \A s \in SessionLanes : maxConcurrent'[s] = maxConcurrent[s],
           SuspensionEnds'
    PROVE  NestedInv'
<1>1. UNCHANGED <<request, race, rest, inner>>
  BY DEF runVars
<1>2. \A e \in Entries : body[e] # "none" => body'[e] # "none"
  BY DEF Starts
<1>3. \A e \in Entries : Nesting(e)'
  BY <1>1, <1>2, NestingKept DEF NestedInv
<1>4. Appends
  BY <1>1 DEF Appends, Issued
<1>5. inner' \in [Entries -> 0..MaxEntries]
  BY DEF NestedKinds
<1>6. \A e \in Entries : Progress(e)'
  BY <1>1, <1>4, <1>5, ProgressKept DEF NestedInv
<1>7. OneSlot'
  BY SlotKept DEF IInv
<1>8. QED
  BY <1>3, <1>6, <1>7 DEF NestedInv

\* Writing the limit of a global lane.
LEMMA WriteStep ==
    ASSUME NestedInv, NEW l \in GlobalLanes, NEW n \in Nat, SetConcurrency(l, n),
           UNCHANGED <<runVars, configured>>, resume' \in [Lanes -> Limits \cup {0}],
           resume'[l] # 0 \/ n # 0,
           \A k \in Lanes : k # l => resume'[k] = resume[k]
    PROVE  NestedInv'
<1>1. l \in Lanes
  BY NestedAssumption DEF GlobalLanes
<1>2. /\ IInv' /\ WithinLimit /\ Starts
      /\ maxConcurrent' = [maxConcurrent EXCEPT ![l] = Slots(l, n)]
      /\ UNCHANGED <<request, race, promise>>
  BY <1>1, SetConcurrencyStep DEF NestedInv
<1>3. maxConcurrent \in [Lanes -> Nat]
  BY DEF NestedInv, IInv, TypeInv, TypeOK
<1>4. \A k \in Lanes : k # l => maxConcurrent'[k] = maxConcurrent[k]
  BY <1>2, <1>3
<1>5. maxConcurrent'[l] = 0 => resume'[l] # 0
  BY <1>1, <1>2, <1>3 DEF Slots
<1>6. SuspensionEnds'
  BY <1>4, <1>5 DEF NestedInv, SuspensionEnds
<1>7. \A s \in SessionLanes : maxConcurrent'[s] = maxConcurrent[s]
  BY <1>4, NestedAssumption DEF GlobalLanes
<1>8. NestedKinds'
  BY DEF NestedInv, NestedKinds, runVars
<1>9. QED
  BY <1>2, <1>6, <1>7, <1>8, StartStep

\* A suspension writes to the lane of a run, and leaves a timer.
LEMMA SuspendStep ==
    ASSUME NestedInv, NEW e \in Entries, Suspend(e)
    PROVE  NestedInv'
<1> DEFINE l == request[e].lane
<1>1. /\ e \in Issued /\ rest[e] = <<>>
      /\ SetConcurrency(l, 0)
      /\ resume' = [resume EXCEPT ![l] = configured[l]]
      /\ UNCHANGED <<runVars, configured>>
  BY DEF Suspend
<1>2. Shape(l, <<>>)
  BY <1>1 DEF NestedInv, Nesting
<1>3. l \in GlobalLanes
  BY <1>2 DEF Shape, RunLanes, GlobalLanes
<1> HIDE DEF l
<1>4. /\ configured[l] \in Limits /\ configured[l] # 0 /\ l \in Lanes
      /\ resume \in [Lanes -> Limits \cup {0}]
  BY <1>3, NestedAssumption DEF NestedInv, NestedKinds, GlobalLanes
<1>5. /\ resume' \in [Lanes -> Limits \cup {0}] /\ resume'[l] # 0
      /\ \A k \in Lanes : k # l => resume'[k] = resume[k]
  BY <1>1, <1>4
<1>6. 0 \in Nat
  OBVIOUS
<1>7. QED
  BY <1>1, <1>3, <1>5, <1>6, WriteStep

\* The timer that ends it writes a limit that is not 0.
LEMMA ResumeStep ==
    ASSUME NestedInv, NEW l \in GlobalLanes, Resume(l)
    PROVE  NestedInv'
<1>1. /\ resume[l] # 0
      /\ SetConcurrency(l, resume[l])
      /\ resume' = [resume EXCEPT ![l] = 0]
      /\ UNCHANGED <<runVars, configured>>
  BY DEF Resume
<1>2. l \in Lanes /\ resume \in [Lanes -> Limits \cup {0}]
  BY NestedAssumption DEF NestedInv, NestedKinds, GlobalLanes
<1>3. resume[l] \in Limits /\ resume[l] \in Nat
  BY <1>1, <1>2, NestedAssumption
<1>4. /\ resume' \in [Lanes -> Limits \cup {0}]
      /\ \A k \in Lanes : k # l => resume'[k] = resume[k]
  BY <1>1, <1>2
<1>5. QED
  BY <1>1, <1>3, <1>4, WriteStep

\* A reload writes the limits of all global lanes.
LEMMA ReloadStep ==
    ASSUME NestedInv, NEW c \in [GlobalLanes -> Limits], Reload(c)
    PROVE  NestedInv'
<1> DEFINE m == [l \in Lanes |-> IF l \in GlobalLanes THEN c[l] ELSE maxConcurrent[l]]
<1>1. /\ configured' = c
      /\ lanes' = lanes \cup GlobalLanes
      /\ maxConcurrent' = m
      /\ UNCHANGED <<gatewayDraining, generation, request, race, promise, waiter, runVars, resume>>
      /\ Pump(GlobalLanes, queue, active, m, generation)
  BY DEF Reload
<1>2. maxConcurrent \in [Lanes -> Nat] /\ lanes \subseteq Lanes
  BY DEF NestedInv, IInv, TypeInv, TypeOK
<1>3. GlobalLanes \in SUBSET Lanes /\ \A l \in GlobalLanes : c[l] \in Nat \ {0}
  BY NestedAssumption DEF GlobalLanes
<1>4. /\ m \in [Lanes -> Nat]
      /\ \A l \in Lanes : l \notin GlobalLanes => m[l] = maxConcurrent[l]
      /\ \A l \in GlobalLanes : m[l] # 0
  BY <1>2, <1>3
<1> HIDE DEF m
<1>5. lanes' \subseteq Lanes
  BY <1>1, <1>2, <1>3
<1>6. IInv' /\ WithinLimit /\ Starts
  BY <1>1, <1>3, <1>4, <1>5, LimitStep DEF NestedInv
<1>7. SuspensionEnds'
  BY <1>1, <1>4 DEF NestedInv, SuspensionEnds
<1>8. \A s \in SessionLanes : maxConcurrent'[s] = maxConcurrent[s]
  BY <1>1, <1>4, NestedAssumption DEF GlobalLanes
<1>9. NestedKinds'
  BY <1>1 DEF NestedInv, NestedKinds, runVars
<1>10. QED
  BY <1>1, <1>6, <1>7, <1>8, <1>9, StartStep

\* The queue's own steps that start entries, answer them or do neither.
LEMMA UnnestedStep ==
    ASSUME NestedInv, UNCHANGED <<runVars, limitVars>>,
           \/ \E e \in Entries : Settle(e)
           \/ \E s \in SessionLanes : ResetLane(s)
           \/ MarkGatewayDraining
           \/ UNCHANGED vars
    PROVE  NestedInv'
<1>1. [Next]_vars
  BY NestedAssumption DEF Next, Calls, EventLoop
<1>2. IInv' /\ (WithinLimit \/ UNCHANGED active)
  BY <1>1, QueueStep DEF NestedInv
<1> DEFINE Answers ==
             /\ Starts /\ UNCHANGED <<request, race, maxConcurrent>>
             /\ \A e \in Entries : promise'[e] # promise[e] => race[e] # "none" /\ promise'[e] # "pending"
<1>3. Answers
  <2>1. ASSUME NEW e \in Entries, Settle(e)
        PROVE  Answers
    <3>1. Starts
      BY <2>1, CoreSettle, DrainStarts DEF NestedInv, IInv, Drains, Starts
    <3>2. promise \in [Entries -> Promises]
      BY DEF NestedInv, IInv, TypeInv, TypeOK
    <3>3. QED
      BY <2>1, <3>1, <3>2 DEF Settle
  <2>2. ASSUME NEW s \in SessionLanes, ResetLane(s)
        PROVE  Answers
    <3>1. {s} \in SUBSET Lanes
      BY NestedAssumption
    <3>2. Starts
      BY <2>2, <3>1, CoreIdle, DrainStarts DEF NestedInv, IInv, Drains, ResetLane
    <3>3. QED
      BY <2>2, <3>2 DEF ResetLane, Idle
  <2>3. CASE MarkGatewayDraining \/ UNCHANGED vars
    BY <2>3 DEF MarkGatewayDraining, vars, laneVars, entryVars, Starts
  <2>4. QED
    BY <2>1, <2>2, <2>3
<1>4. NestedKinds' /\ SuspensionEnds'
  BY <1>3 DEF NestedInv, NestedKinds, SuspensionEnds, runVars, limitVars
<1>5. QED
  BY <1>2, <1>3, <1>4, StartStep

\* Every step keeps the invariant.
LEMMA NestedInvNext ==
    ASSUME NestedInv, [NestedNext]_nestedVars
    PROVE  NestedInv'
<1>a. FALSE \in Timeouts
  BY NestedAssumption, Zenon
<1>1. ASSUME NEW s \in SessionLanes, NEW p \in Priorities, Run(s, p)
      PROVE  NestedInv'
  <2>1. ResolveGlobalLane(Main) = Main
    BY NestedAssumption DEF ResolveGlobalLane
  <2>2. Hand(s, p, FALSE, <<Main>>) /\ UNCHANGED <<inner, limitVars>>
    BY <1>1, <2>1, Zenon DEF Run
  <2>3. s \in Lanes /\ <<Main>> \in Seq(Lanes)
    BY NestedAssumption
  <2>4. Shape(s, <<Main>>)
    BY DEF Shape, RunLanes
  <2>5. QED
    BY <1>a, <2>2, <2>3, <2>4, HandStep
<1>2. ASSUME NEW s \in SessionLanes, NEW p \in Priorities, RunJob(s, p)
      PROVE  NestedInv'
  <2>1. Hand(Cron, p, FALSE, <<s, CronNested>>) /\ UNCHANGED <<inner, limitVars>>
    BY <1>2 DEF RunJob, ResolveGlobalLane
  <2>2. Cron \in Lanes /\ <<s, CronNested>> \in Seq(Lanes)
    BY NestedAssumption
  <2>3. Shape(Cron, <<s, CronNested>>)
    BY DEF Shape, RunLanes
  <2>4. QED
    BY <1>a, <2>1, <2>2, <2>3, HandStep
<1>3. ASSUME NEW e \in Entries, NEW t \in Timeouts, Nest(e, t)
      PROVE  NestedInv'
  <2>1. /\ body[e] = "running" /\ rest[e] # <<>> /\ inner[e] = 0
        /\ t => Len(rest[e]) = 1
        /\ UNCHANGED limitVars
    BY <1>3 DEF Nest
  <2>2. CASE FinishBody(e) /\ UNCHANGED runVars
    BY <2>1, <2>2, FinishStep
  <2>3. CASE /\ Hand(Head(rest[e]), request[e].priority, t, Tail(rest[e]))
             /\ inner' = [inner EXCEPT ![e] = Len(request) + 1]
    <3>1. e \in Issued
      BY <2>1 DEF NestedInv, IInv, Core, EntriesOK, Issued
    <3>2. request[e] \in Request
      BY <3>1 DEF NestedInv, IInv, TypeInv, TypeOK, Issued
    <3>3. request[e].lane \in Lanes /\ request[e].priority \in Priorities
      BY <3>2 DEF Request
    <3>4. Shape(request[e].lane, rest[e])
      BY <3>1 DEF NestedInv, Nesting
    <3>5. /\ Shape(Head(rest[e]), Tail(rest[e]))
          /\ Rank(request[e].lane) < Rank(Head(rest[e]))
          /\ Head(rest[e]) \in Lanes /\ Tail(rest[e]) \in Seq(Lanes)
          /\ Len(rest[e]) = 1 => Tail(rest[e]) = <<>>
      BY <2>1, <3>3, <3>4, ShapeNext
    <3>6. t => Tail(rest[e]) = <<>>
      BY <2>1, <3>5
    <3>7. QED
      BY <2>1, <2>3, <3>1, <3>3, <3>5, <3>6, HandStep
  <2>4. QED
    BY <1>3, <2>2, <2>3 DEF Nest
<1>4. ASSUME NEW e \in Entries, Return(e) \/ AgentEnds(e)
      PROVE  NestedInv'
  <2>1. FinishBody(e) /\ UNCHANGED <<runVars, limitVars>>
    BY <1>4 DEF Return, AgentEnds
  <2>2. inner[e] # 0 => promise[inner[e]] # "pending"
    BY <1>4 DEF Return, AgentEnds, NestedInv, Nesting
  <2>3. QED
    BY <2>1, <2>2, FinishStep
<1>5. ASSUME NEW e \in Entries, Unnested(Timeout(e) \/ Settle(e))
      PROVE  NestedInv'
  BY <1>5, TimeoutStep, UnnestedStep DEF Unnested
<1>6. ASSUME NEW e \in Entries, Suspend(e)
      PROVE  NestedInv'
  BY <1>6, SuspendStep
<1>7. ASSUME NEW l \in GlobalLanes, Resume(l)
      PROVE  NestedInv'
  BY <1>7, ResumeStep
<1>8. ASSUME NEW c \in [GlobalLanes -> Limits], Reload(c)
      PROVE  NestedInv'
  BY <1>8, ReloadStep
<1>9. ASSUME NEW s \in SessionLanes, Unnested(ResetLane(s))
      PROVE  NestedInv'
  BY <1>9, UnnestedStep DEF Unnested
<1>10. CASE Unnested(MarkGatewayDraining)
  BY <1>10, UnnestedStep DEF Unnested
<1>11. CASE UNCHANGED nestedVars
  BY <1>11, UnnestedStep DEF nestedVars
<1>12. CASE NestedNext
  BY <1>1, <1>2, <1>3, <1>4, <1>5, <1>6, <1>7, <1>8, <1>9, <1>10, <1>12 DEF NestedNext
<1>13. QED
  BY <1>11, <1>12

-----------------------------------------------------------------------------
(* The theorems.                                                           *)

\* NestedInv holds in every state.
LEMMA AlwaysNested == NestedSpec => []NestedInv
  BY NestedInvInit, NestedInvNext, PTL DEF NestedSpec

\* Every variable keeps its type, and a task awaits a later one only.
THEOREM NestedTypes == NestedSpec => []NestedTypeOK
<1>1. NestedInv => NestedTypeOK
  BY DEF NestedInv, NestedKinds, Nesting, NestedTypeOK, IInv, TypeInv
<1>2. QED
  BY <1>1, AlwaysNested, PTL

\* The queue keeps its books where the configuration, the suspension of lanes
\* and the recovery of sessions write its limits and generations unknown to
\* each other (server-lanes.ts, session-suspension.ts, command-queue.ts).
THEOREM BooksKept == NestedSpec => [](SlotAccounting /\ QueueAccounting /\ WorkConserving)
<1>1. NestedInv => SlotAccounting /\ QueueAccounting /\ WorkConserving
  BY InvSlots, InvQueues DEF NestedInv, IInv, Core
<1>2. QED
  BY <1>1, AlwaysNested, PTL

\* A suspended lane has a timer to end its suspension, after any number of
\* reloads and suspensions (session-suspension.ts:44-62).
THEOREM SuspensionsEnd == NestedSpec => []SuspensionEnds
<1>1. NestedInv => SuspensionEnds
  BY DEF NestedInv
<1>2. QED
  BY <1>1, AlwaysNested, PTL

\* Among the runs of a session that hold its slot one at most has an agent at
\* work: those that await a task hold the one slot of the session's lane.
THEOREM OneWriter == NestedSpec => []OneRunPerSession
<1>1. NestedInv => OneRunPerSession
  <2> SUFFICES ASSUME NestedInv, NEW s \in SessionLanes
               PROVE  Cardinality({d \in LaneEntries(s) :
                          /\ startGeneration[d] = generation[s]
                          /\ inner[d] # 0
                          /\ promise[inner[d]] = "pending"}) <= 1
    BY DEF OneRunPerSession
  <2> DEFINE D == {d \in LaneEntries(s) :
                     /\ startGeneration[d] = generation[s]
                     /\ inner[d] # 0
                     /\ promise[inner[d]] = "pending"}
  <2>1. s \in Lanes /\ DOMAIN request \subseteq Entries
    BY NestedAssumption, BoundsAssumption DEF NestedInv, IInv, TypeInv, TypeOK, Entries
  <2>2. ASSUME NEW d \in D
        PROVE  d \in active[s]
    <3>1. d \in Entries /\ d \in DOMAIN request /\ request[d].lane = s
      BY <2>1 DEF LaneEntries, Issued
    <3>2. Nesting(d) /\ Progress(d)
      BY <3>1 DEF NestedInv
    <3>3. body[d] = "running" /\ rest[d] # <<>>
      BY <3>2 DEF Nesting, Progress
    <3>4. race[d] # "task" /\ race[d] # "timeout"
      BY <3>2, <3>3 DEF Nesting, Progress
    <3>5. race[d] \in Outcomes
      BY <3>1 DEF NestedInv, IInv, TypeInv, TypeOK
    <3>6. promise[d] = "pending"
      BY <3>2, <3>4, <3>5 DEF Progress, Outcomes
    <3>7. QED
      BY <2>1, <3>1, <3>3, <3>6 DEF NestedInv, IInv, Core, SlotsOK
  <2>3. active[s] \in SUBSET Entries /\ Cardinality(active[s]) <= 1
    BY <2>1 DEF NestedInv, OneSlot, IInv, TypeInv, TypeOK
  <2> HIDE DEF D
  <2>4. D \subseteq active[s] /\ D \in SUBSET Entries
    BY <2>2, <2>3
  <2>5. /\ IsFiniteSet(active[s]) /\ Cardinality(active[s]) \in Nat
        /\ Cardinality(D) \in Nat
    BY <2>3, <2>4, EntriesFinite
  <2>6. Cardinality(D) <= Cardinality(active[s])
    BY <2>4, <2>5, FS_Subset
  <2>7. Cardinality(D) <= 1
    BY <2>3, <2>5, <2>6
  <2>8. QED
    BY <2>7 DEF D
<1>2. QED
  BY <1>1, AlwaysNested, PTL

\* A task that is stuck waits for one in a lane further in: the one it handed
\* on, or the one that a holder of its lane's slot handed on.
LEMMA StuckWaitsInward ==
    ASSUME NestedInv, NEW D \in SUBSET {e \in Issued : promise[e] = "pending"},
           \A e \in D : ~Moves(e) /\ WaitsFor(e) \subseteq D,
           NEW e \in D
    PROVE  \E f \in D : Rank(request[e].lane) < Rank(request[f].lane)
<1>1. /\ DOMAIN request \subseteq Entries
      /\ \A d \in DOMAIN request : request[d].lane \in Lanes
  <2>1. request \in Seq(Request) /\ Len(request) <= MaxEntries
    BY DEF NestedInv, IInv, TypeInv, TypeOK
  <2>2. \A d \in DOMAIN request : request[d] \in Request
    BY <2>1
  <2>3. QED
    BY <2>1, <2>2, BoundsAssumption DEF Entries, Request
<1>2. \A d \in D : d \in Entries /\ d \in DOMAIN request /\ promise[d] = "pending"
  BY <1>1 DEF Issued
<1>3. ASSUME NEW d \in D, body[d] # "none"
      PROVE  inner[d] \in D /\ Rank(request[d].lane) < Rank(request[inner[d]].lane)
  <2>1. Nesting(d) /\ Progress(d) /\ ~Moves(d)
    BY <1>2 DEF NestedInv
  <2>2. body[d] \in Bodies
    BY <1>2 DEF NestedInv, IInv, TypeInv, TypeOK
  <2>3. body[d] = "running"
    BY <1>3, <2>1, <2>2 DEF Progress, Moves, Bodies
  <2>4. inner[d] # 0
    BY <2>1, <2>3 DEF Moves
  <2>5. WaitsFor(d) = {inner[d]}
    BY <1>3 DEF WaitsFor
  <2>6. QED
    BY <2>1, <2>4, <2>5 DEF Nesting
<1>4. CASE body[e] = "none"
  <2> DEFINE l == request[e].lane
  <2>1. l \in Lanes /\ e \in Entries /\ e \in DOMAIN request /\ promise[e] = "pending"
    BY <1>1, <1>2
  <2>2. queue[l] # <<>>
    <3>1. Queued(queue[l], e)
      BY <1>4, <2>1 DEF NestedInv, IInv, Core, QueuesOK
    <3>2. QED
      BY <3>1 DEF Queued
  <2>3. Cardinality(active[l]) >= maxConcurrent[l]
    BY <2>1, <2>2 DEF NestedInv, IInv, Core, WorkConserving
  <2>4. maxConcurrent[l] # 0 /\ maxConcurrent[l] \in Nat
    BY <1>4, <2>1 DEF NestedInv, SuspensionEnds, Moves, IInv, TypeInv, TypeOK
  <2>5. active[l] \in SUBSET Entries /\ active[l] \subseteq D
    BY <1>4, <2>1 DEF NestedInv, IInv, TypeInv, TypeOK, WaitsFor
  <2>6. active[l] # {}
    <3>1. Cardinality({}) = 0
      BY FS_EmptySet
    <3>2. CASE active[l] = {}
      BY <2>3, <2>4, <3>1, <3>2
    <3>3. QED
      BY <3>2
  <2>7. PICK f \in active[l] : f \in D
    BY <2>5, <2>6
  <2>8. request[f].lane = l /\ body[f] # "none"
    BY <1>2, <2>1, <2>7 DEF NestedInv, IInv, Core, SlotsOK
  <2>9. QED
    BY <1>3, <2>7, <2>8
<1>5. QED
  BY <1>3, <1>4

\* Tasks that hold slots while they wait for slots never block each other: a
\* circle of them would have to lead ever further in (lanes.ts:8-16).
THEOREM NoDeadlock == NestedSpec => []NoStandstill
<1>1. NestedInv => NoStandstill
  <2> SUFFICES ASSUME NestedInv,
                      NEW D \in SUBSET {e \in Issued : promise[e] = "pending"}, D # {},
                      \A e \in D : ~Moves(e) /\ WaitsFor(e) \subseteq D
               PROVE  FALSE
    BY DEF NoStandstill
  <2>1. \A e \in D : \E f \in D : Rank(request[e].lane) < Rank(request[f].lane)
    BY StuckWaitsInward
  <2>2. \A e \in D : Rank(request[e].lane) \in 0..2
    BY DEF Rank
  <2>3. PICK e1 \in D : TRUE
    OBVIOUS
  <2>4. PICK e2 \in D : Rank(request[e1].lane) < Rank(request[e2].lane)
    BY <2>1
  <2>5. PICK e3 \in D : Rank(request[e2].lane) < Rank(request[e3].lane)
    BY <2>1
  <2>6. PICK e4 \in D : Rank(request[e3].lane) < Rank(request[e4].lane)
    BY <2>1
  <2>7. QED
    BY <2>2, <2>4, <2>5, <2>6
<1>2. QED
  BY <1>1, AlwaysNested, PTL

=============================================================================
