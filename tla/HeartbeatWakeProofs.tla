------------------------- MODULE HeartbeatWakeProofs -------------------------
(***************************************************************************)
(* Proofs about HeartbeatWake, for every set of targets, every delay and   *)
(* every bound: the types, what `running` tells, no sleeping wake, the     *)
(* cooldown of a retry, and that no request is forgotten.                  *)
(***************************************************************************)
EXTENDS HeartbeatWake, FiniteSetTheorems, SequenceTheorems, TLAPS

-----------------------------------------------------------------------------
(* Lemmas about the operators.                                             *)

\* What stands for a target after a merge carries the requests of both wakes
\* and is as urgent as the more urgent one.
LEMMA MergedFacts ==
    ASSUME NEW v \in Wake \cup {NoWake}, NEW w \in Wake \cup {NoWake}
    PROVE  /\ Merged(v, w) \in Wake \cup {NoWake}
           /\ Merged(v, w).carries = v.carries \cup w.carries
           /\ Merged(v, w).priority >= v.priority
           /\ Merged(v, w).priority >= w.priority
           /\ v.priority \in Int /\ w.priority \in Int /\ Merged(v, w).priority \in Int
<1>1. Priorities \subseteq 0..3
  BY PrioritiesAssumption
<1>2. CASE v = NoWake /\ w = NoWake
  BY <1>2 DEF Merged, NoWake
<1>3. CASE v \in Wake /\ w = NoWake
  BY <1>1, <1>3 DEF Merged, NoWake, Wake
<1>4. CASE v = NoWake /\ w \in Wake
  BY <1>1, <1>4 DEF Merged, NoWake, Wake
<1>5. CASE v \in Wake /\ w \in Wake
  BY <1>1, <1>5 DEF Merged, Wake
<1>6. QED
  BY <1>2, <1>3, <1>4, <1>5

\* schedule leaves a timer armed, and it leaves an armed retry alone.
LEMMA ArmedFacts ==
    ASSUME NEW tm \in Timer \cup {NoTimer}, NEW ms \in Int, NEW kind \in {"normal", "retry"}
    PROVE  /\ Armed(tm, ms, kind) \in Timer
           /\ tm.kind = "retry" => Armed(tm, ms, kind) = tm
<1>1. Clamped(ms) \in Nat
  BY DEF Clamped
<1>2. QED
  BY <1>1 DEF Armed, Timer, NoTimer

\* A timer of either kind is not the absence of one.
LEMMA TimerIsArmed ==
    ASSUME NEW tm \in Timer
    PROVE  tm # NoTimer
  BY DEF Timer, NoTimer

\* A batch under way has a runner.
LEMMA RunIsUnderWay ==
    ASSUME NEW x \in Run
    PROVE  x # NoRun
  BY BoundsAssumption DEF Run, NoRun, Registrations
-----------------------------------------------------------------------------
(* The end of a callback, and the way to the next wake of a batch.         *)

RunsOK == \A r \in InFlight : runs[r].at \in runs[r].todo /\ runs[r].handler <= registrations

\* No more batches are under way than runners were registered, and one fewer
\* while `running` would let the next one start: a batch finds a place.
PlacesSuffice ==
    InFlight # {} => Cardinality(InFlight) <= registrations - (IF running THEN 0 ELSE 1)

\* What the end of the batch r leaves in `intruded`.
IntrudedBy(r) == Own \ {r} # {} /\ (intruded \/ r \notin Own)

\* The callback of r ends: its place is free, and pending wakes have a timer.
LEMMA FinallyStep ==
    ASSUME TypeOK, RunsOK,
           NEW r \in InFlight, NEW p \in Wakes, NEW tm \in Timer \cup {NoTimer},
           Finally(r, p, tm)
    PROVE  /\ pending' = p /\ running' = FALSE /\ intruded' = IntrudedBy(r)
           /\ UNCHANGED <<handler, registrations, stopped, scheduled, requests>>
           /\ timer' \in Timer \cup {NoTimer}
           /\ p # NoWakes => timer' \in Timer
           /\ tm \in Timer => timer' \in Timer
           /\ tm.kind = "retry" => timer' = tm
           /\ runs' \in [Places -> Run \cup {NoRun}]
           /\ RunsOK'
           /\ InFlight' = InFlight \ {r}
           /\ \A s \in InFlight' : runs'[s] = runs[s]
<1>1. runs[r] \in Run
  BY DEF TypeOK, InFlight
<1>2. runs[r].delay \in Int
  BY <1>1 DEF Run
<1>3. /\ Armed(tm, runs[r].delay, "normal") \in Timer
      /\ tm.kind = "retry" => Armed(tm, runs[r].delay, "normal") = tm
  BY <1>2, ArmedFacts
<1>4. /\ timer' \in Timer \cup {NoTimer}
      /\ p # NoWakes => timer' \in Timer
      /\ tm \in Timer => timer' \in Timer
      /\ tm.kind = "retry" => timer' = tm
  BY <1>3 DEF Finally
<1>5. /\ runs' \in [Places -> Run \cup {NoRun}]
      /\ \A s \in Places : runs'[s] = IF s = r THEN NoRun ELSE runs[s]
  BY DEF Finally, TypeOK, InFlight
<1>6. InFlight' = InFlight \ {r} /\ \A s \in InFlight' : runs'[s] = runs[s]
  BY <1>5 DEF InFlight
<1>7. RunsOK'
  BY <1>6 DEF RunsOK, Finally
<1>8. QED
  BY <1>4, <1>5, <1>6, <1>7 DEF Finally, IntrudedBy

\* The wake r holds is dealt with: the batch goes on without it, or is over.
LEMMA AdvanceStep ==
    ASSUME TypeOK, RunsOK,
           NEW r \in InFlight, NEW p \in Wakes, NEW tm \in Timer \cup {NoTimer},
           Advance(r, p, tm)
    PROVE  /\ pending' = p /\ running' \in BOOLEAN
           /\ UNCHANGED <<handler, registrations, stopped, scheduled, requests>>
           /\ timer' \in Timer \cup {NoTimer}
           /\ p # NoWakes => timer' \in Timer \/ timer' = tm
           /\ tm \in Timer => timer' \in Timer
           /\ tm.kind = "retry" => timer' = tm
           /\ runs' \in [Places -> Run \cup {NoRun}]
           /\ RunsOK'
           /\ \/ /\ InFlight' = InFlight /\ UNCHANGED <<running, intruded>>
                 /\ runs'[r].handler = runs[r].handler
              \/ InFlight' = InFlight \ {r} /\ running' = FALSE /\ intruded' = IntrudedBy(r)
           /\ \A s \in InFlight \ {r} : s \in InFlight' /\ runs'[s] = runs[s]
           /\ \/ ToCome(r) = {}
              \/ r \in InFlight' /\ runs'[r].batch = runs[r].batch /\ runs'[r].todo = ToCome(r)
<1>1. CASE ToCome(r) = {} /\ Finally(r, p, tm)
  BY <1>1, FinallyStep
<1>2. ASSUME NEW t \in ToCome(r),
             runs' = [runs EXCEPT ![r].at = t, ![r].todo = ToCome(r)],
             pending' = p, timer' = tm,
             UNCHANGED <<handler, registrations, stopped, scheduled, running, requests, intruded>>
      PROVE  /\ runs' \in [Places -> Run \cup {NoRun}]
             /\ RunsOK'
             /\ InFlight' = InFlight
             /\ \A s \in InFlight \ {r} : s \in InFlight' /\ runs'[s] = runs[s]
             /\ r \in InFlight' /\ runs'[r].batch = runs[r].batch /\ runs'[r].todo = ToCome(r)
             /\ runs'[r].handler = runs[r].handler
  <2> DEFINE x == [runs[r] EXCEPT !.at = t, !.todo = ToCome(r)]
  <2>1. runs[r] \in Run
    BY DEF TypeOK, InFlight
  <2>2. t \in Targets /\ ToCome(r) \in SUBSET Targets
    BY <2>1 DEF Run, ToCome
  <2>3. /\ x \in Run /\ x.batch = runs[r].batch /\ x.todo = ToCome(r) /\ x.at = t
        /\ x.handler = runs[r].handler
    BY <2>1, <2>2 DEF Run
  <2>4. x # NoRun
    BY <2>3, RunIsUnderWay
  <2>5. \A s \in Places : runs'[s] = IF s = r THEN x ELSE runs[s]
    BY <1>2 DEF TypeOK
  <2> HIDE DEF x
  <2>6. runs' \in [Places -> Run \cup {NoRun}]
    BY <1>2, <2>3, <2>5 DEF TypeOK
  <2>7. InFlight' = InFlight
    BY <2>4, <2>5 DEF InFlight
  <2>8. RunsOK'
    BY <1>2, <2>3, <2>5, <2>7, r \in Places DEF RunsOK, InFlight
  <2>9. QED
    BY <2>3, <2>5, <2>6, <2>7, <2>8 DEF InFlight
<1>3. QED
  BY <1>1, <1>2 DEF Advance, TypeOK

-----------------------------------------------------------------------------
(* The start of a batch.                                                   *)

\* The places are finitely many.
LEMMA PlacesFinite ==
    /\ IsFiniteSet(Places) /\ Cardinality(Places) = MaxRegistrations
    /\ IsFiniteSet(InFlight) /\ Cardinality(InFlight) \in Nat
<1>1. IsFiniteSet(Places) /\ Cardinality(Places) = MaxRegistrations
  BY FS_Interval, BoundsAssumption DEF Places, Registrations
<1>2. InFlight \in SUBSET Places
  BY DEF InFlight
<1>3. QED
  BY <1>1, <1>2, FS_Subset, FS_CardinalityType

\* When the timer may start a batch there is a place for it: PlacesSuffice is
\* what the fixed number of places rests on.
LEMMA FireStep ==
    ASSUME TypeOK, RunsOK, PlacesSuffice, Fire
    PROVE  /\ FreePlace \in Places \ InFlight
           /\ runs' \in [Places -> Run \cup {NoRun}]
           /\ RunsOK'
           /\ InFlight' = InFlight \cup {FreePlace}
           /\ \A s \in InFlight : runs'[s] = runs[s]
           /\ runs'[FreePlace].batch = pending /\ runs'[FreePlace].todo = InMap
           /\ runs'[FreePlace].handler = registrations
<1>1. handler \in Registrations /\ handler = registrations
  BY BoundsAssumption DEF Fire, TypeOK, Registrations
<1>2. InFlight # Places
  <2>1. SUFFICES ASSUME InFlight = Places PROVE FALSE
    OBVIOUS
  <2>2. Places # {}
    BY <1>1 DEF Places
  <2>3. MaxRegistrations <= registrations - 1
    BY <2>1, <2>2, PlacesFinite DEF PlacesSuffice, Fire
  <2>4. QED
    BY <2>3, BoundsAssumption DEF TypeOK
<1>3. \E r \in Places : runs[r] = NoRun
  BY <1>2 DEF InFlight
<1>4. FreePlace \in Places /\ runs[FreePlace] = NoRun
  BY <1>3 DEF FreePlace
<1>5. PICK t \in InMap : runs' = [runs EXCEPT ![FreePlace] =
          [handler |-> handler, batch |-> pending, at |-> t, todo |-> InMap, delay |-> timer.delay]]
  BY DEF Fire
<1> DEFINE x == [handler |-> handler, batch |-> pending, at |-> t, todo |-> InMap, delay |-> timer.delay]
<1>6. timer.delay \in Nat
  BY DEF Fire, Due, TypeOK, Timer, NoTimer
<1>7. x \in Run
  BY <1>1, <1>5, <1>6 DEF TypeOK, Run, InMap
<1>8. x # NoRun /\ x.batch = pending /\ x.todo = InMap /\ x.at = t /\ x.handler = registrations
  BY <1>1, <1>7, RunIsUnderWay
<1>9. \A s \in Places : runs'[s] = IF s = FreePlace THEN x ELSE runs[s]
  BY <1>5 DEF TypeOK
<1> HIDE DEF x
<1>10. runs' \in [Places -> Run \cup {NoRun}]
  BY <1>5, <1>7, <1>9 DEF TypeOK, x
<1>11. InFlight' = InFlight \cup {FreePlace} /\ FreePlace \notin InFlight
  BY <1>4, <1>8, <1>9 DEF InFlight
<1>12. RunsOK'
  <2>1. registrations' = registrations /\ registrations <= registrations
    BY BoundsAssumption DEF Fire, TypeOK
  <2>2. QED
    BY <1>4, <1>5, <1>8, <1>9, <1>11, <2>1 DEF RunsOK, InFlight
<1>13. QED
  BY <1>4, <1>8, <1>9, <1>10, <1>11, <1>12 DEF InFlight

-----------------------------------------------------------------------------
(* Types.                                                                  *)

\* What a settled promise puts back in the queue.
LEMMA GivenBack ==
    ASSUME TypeOK, NEW r \in InFlight
    PROVE  /\ runs[r] \in Run
           /\ HandedTo(r) \in Wake \cup {NoWake}
           /\ Queued(pending, runs[r].at, HandedTo(r)) \in Wakes
           /\ QueuedAll(pending, runs[r].batch) \in Wakes
           /\ Armed(timer, RetryDelay, "retry") \in Timer
<1>1. runs[r] \in Run
  BY DEF TypeOK, InFlight
<1>2. /\ runs[r].at \in Targets /\ runs[r].batch \in Wakes
      /\ HandedTo(r) \in Wake \cup {NoWake}
  BY <1>1 DEF Run, HandedTo, Wakes
<1>3. \A t \in Targets : pending[t] \in Wake \cup {NoWake} /\ runs[r].batch[t] \in Wake \cup {NoWake}
  BY <1>2 DEF TypeOK, Wakes
<1>4. Queued(pending, runs[r].at, HandedTo(r)) \in Wakes
  BY <1>2, <1>3, MergedFacts DEF TypeOK, Queued, Wakes
<1>5. QueuedAll(pending, runs[r].batch) \in Wakes
  BY <1>3, MergedFacts DEF QueuedAll, Wakes
<1>6. Armed(timer, RetryDelay, "retry") \in Timer
  BY ArmedFacts, DelaysAssumption DEF TypeOK
<1>7. QED
  BY <1>1, <1>2, <1>4, <1>5, <1>6

Shape == TypeOK /\ RunsOK

\* A step keeps the types, and the wake a runner holds in its batch.
LEMMA ShapeStep ==
    ASSUME Shape, PlacesSuffice, [Next]_vars
    PROVE  Shape'
<1> USE DEF Shape
<1>1. ASSUME NEW t \in Targets, NEW p \in Priorities, NEW d \in Delays, RequestHeartbeat(t, p, d)
      PROVE  Shape'
  <2> DEFINE id == Len(requests) + 1
             w  == [priority |-> p, carries |-> {id}]
  <2>1. id \in Ids
    BY <1>1, BoundsAssumption DEF RequestHeartbeat, TypeOK, Ids
  <2>2. w \in Wake
    BY <2>1 DEF Wake
  <2>3. pending[t] \in Wake \cup {NoWake}
    BY DEF TypeOK, Wakes
  <2>4. pending' \in Wakes
    <3>1. Merged(pending[t], w) \in Wake \cup {NoWake}
      BY <2>2, <2>3, MergedFacts
    <3>2. pending' = [pending EXCEPT ![t] = Merged(pending[t], w)]
      BY <1>1 DEF RequestHeartbeat, Queued
    <3>3. QED
      BY <3>1, <3>2 DEF TypeOK, Wakes
  <2>5. timer' \in Timer
    BY <1>1, ArmedFacts, DelaysAssumption DEF RequestHeartbeat, TypeOK
  <2>6. requests' \in Seq(Request)
    BY <1>1 DEF RequestHeartbeat, TypeOK, Request
  <2>7. RunsOK'
    BY <1>1 DEF RequestHeartbeat, RunsOK, InFlight
  <2>8. QED
    BY <1>1, <2>4, <2>5, <2>6, <2>7 DEF RequestHeartbeat, TypeOK
<1>2. CASE Register
  <2>1. Armed(NoTimer, DefaultDelay, "normal") \in Timer
    BY ArmedFacts, DelaysAssumption
  <2>2. registrations' \in 0..MaxRegistrations /\ handler' = registrations'
    BY <1>2, BoundsAssumption DEF Register, TypeOK
  <2>3. stopped' \subseteq 1..registrations'
    BY <1>2 DEF Register, TypeOK
  <2>4. RunsOK'
    <3>1. registrations \in Nat /\ registrations' = registrations + 1
      BY <1>2, BoundsAssumption DEF Register, TypeOK
    <3>2. \A r \in InFlight : runs[r].handler \in Nat
      BY DEF TypeOK, InFlight, Run, Registrations
    <3>3. QED
      BY <1>2, <3>1, <3>2 DEF Register, RunsOK, InFlight
  <2>5. QED
    BY <1>2, <2>1, <2>2, <2>3, <2>4 DEF Register, TypeOK
<1>3. ASSUME NEW g \in Registrations, Stop(g) PROVE Shape'
  <2>1. handler' \in {0, registrations} /\ stopped' \subseteq 1..registrations
    BY <1>3, BoundsAssumption DEF Stop, TypeOK, Registrations
  <2>2. QED
    BY <1>3, <2>1 DEF Stop, TypeOK, RunsOK, InFlight, history, flags
<1>4. CASE Tick
  <2>1. timer' \in Timer
    BY <1>4 DEF Tick, TypeOK, Timer, NoTimer
  <2>2. QED
    BY <1>4, <2>1 DEF Tick, TypeOK, RunsOK, InFlight, history
<1>5. CASE FireIdle
  BY <1>5 DEF FireIdle, TypeOK, RunsOK, InFlight, history
<1>6. CASE FireAgain
  <2>1. timer.delay \in Int /\ timer.kind \in {"normal", "retry"}
    BY <1>6 DEF FireAgain, Due, TypeOK, Timer
  <2>2. timer' \in Timer
    BY <1>6, <2>1, ArmedFacts DEF FireAgain
  <2>3. QED
    BY <1>6, <2>2 DEF FireAgain, TypeOK, RunsOK, InFlight, history
<1>7. CASE Fire
  <2>1. runs' \in [Places -> Run \cup {NoRun}] /\ RunsOK'
    BY <1>7, FireStep
  <2>2. NoWakes \in Wakes
    BY DEF NoWakes, Wakes
  <2>3. QED
    BY <1>7, <2>1, <2>2 DEF Fire, TypeOK, history
<1>8. ASSUME NEW r \in Places, Answer(r) PROVE Shape'
  <2>1. r \in InFlight /\ Advance(r, pending, timer) /\ pending \in Wakes /\ timer \in Timer \cup {NoTimer}
    BY <1>8 DEF Answer, TypeOK
  <2>2. HandedTo(r).carries \subseteq Ids
    BY <2>1, GivenBack DEF Wake, NoWake
  <2>3. /\ pending' = pending /\ running' \in BOOLEAN
        /\ UNCHANGED <<handler, registrations, stopped, scheduled, requests>>
        /\ timer' \in Timer \cup {NoTimer}
        /\ runs' \in [Places -> Run \cup {NoRun}]
        /\ RunsOK' /\ intruded' \in BOOLEAN
    BY <2>1, AdvanceStep DEF TypeOK, IntrudedBy
  <2>4. answered' = answered \cup HandedTo(r).carries /\ throws' = throws
    BY <1>8 DEF Answer
  <2>5. QED
    BY <2>2, <2>3, <2>4 DEF TypeOK
<1>9. ASSUME NEW r \in Places, Busy(r) PROVE Shape'
  <2> DEFINE p  == Queued(pending, runs[r].at, HandedTo(r))
             tm == Armed(timer, RetryDelay, "retry")
  <2>1. r \in InFlight /\ Advance(r, p, tm)
    BY <1>9 DEF Busy
  <2>2. p \in Wakes /\ tm \in Timer \cup {NoTimer}
    BY <2>1, GivenBack
  <2> HIDE DEF p, tm
  <2>3. QED
    BY <1>9, <2>1, <2>2, AdvanceStep DEF Busy, TypeOK, IntrudedBy
<1>10. ASSUME NEW r \in Places, Throw(r) PROVE Shape'
  <2> DEFINE p  == QueuedAll(pending, runs[r].batch)
             tm == Armed(timer, RetryDelay, "retry")
  <2>1. r \in InFlight /\ Finally(r, p, tm)
    BY <1>10 DEF Throw
  <2>2. p \in Wakes /\ tm \in Timer \cup {NoTimer}
    BY <2>1, GivenBack
  <2> HIDE DEF p, tm
  <2>3. throws' \in 0..MaxThrows
    BY <1>10, BoundsAssumption DEF Throw, TypeOK
  <2>4. QED
    BY <1>10, <2>1, <2>2, <2>3, FinallyStep DEF Throw, TypeOK, IntrudedBy
<1>11. CASE UNCHANGED vars
  BY <1>11 DEF vars, flags, history, TypeOK, RunsOK, InFlight
<1>12. QED
  BY <1>1, <1>2, <1>3, <1>4, <1>5, <1>6, <1>7, <1>8, <1>9, <1>10, <1>11 DEF Next

-----------------------------------------------------------------------------
(* Batches, their places, and what `running` tells.                        *)

\* A step keeps the number of batches within the registrations.
LEMMA PlacesSufficeStep ==
    ASSUME Shape, PlacesSuffice, [Next]_vars
    PROVE  PlacesSuffice'
<1> USE DEF Shape
<1>1. IsFiniteSet(InFlight) /\ Cardinality(InFlight) \in Nat /\ registrations \in Nat /\ running \in BOOLEAN
  BY PlacesFinite, BoundsAssumption DEF TypeOK
\* A batch that ends takes `running` along, and frees one place.
<1>2. ASSUME NEW r \in InFlight, InFlight' = InFlight \ {r}, running' = FALSE,
             registrations' = registrations
      PROVE  PlacesSuffice'
  <2>1. Cardinality(InFlight') = Cardinality(InFlight) - 1
    BY <1>1, <1>2, FS_RemoveElement
  <2>2. Cardinality(InFlight) <= registrations
    BY <1>1 DEF PlacesSuffice
  <2>3. QED
    BY <1>1, <1>2, <2>1, <2>2 DEF PlacesSuffice
<1>3. ASSUME NEW r \in InFlight, NEW p \in Wakes, NEW tm \in Timer \cup {NoTimer}, Advance(r, p, tm)
      PROVE  PlacesSuffice'
  <2>1. /\ registrations' = registrations
        /\ \/ InFlight' = InFlight /\ running' = running
           \/ InFlight' = InFlight \ {r} /\ running' = FALSE
    BY <1>3, AdvanceStep
  <2>2. CASE InFlight' = InFlight /\ running' = running
    BY <2>1, <2>2 DEF PlacesSuffice
  <2>3. CASE InFlight' = InFlight \ {r} /\ running' = FALSE
    BY <1>2, <2>1, <2>3
  <2>4. QED
    BY <2>1, <2>2, <2>3
<1>4. ASSUME InFlight' = InFlight, running' = running, registrations' = registrations
      PROVE  PlacesSuffice'
  BY <1>4 DEF PlacesSuffice
<1>5. ASSUME NEW t \in Targets, NEW p \in Priorities, NEW d \in Delays, RequestHeartbeat(t, p, d)
      PROVE  PlacesSuffice'
  BY <1>4, <1>5 DEF RequestHeartbeat, InFlight
\* The new registration pays for the batch that may now run beside the old one.
<1>6. CASE Register
  <2>1. InFlight' = InFlight /\ registrations' = registrations + 1 /\ running' = FALSE
    BY <1>6 DEF Register, InFlight
  <2>2. InFlight # {} => Cardinality(InFlight) <= registrations
    BY <1>1 DEF PlacesSuffice
  <2>3. QED
    BY <1>1, <2>1, <2>2 DEF PlacesSuffice
<1>7. ASSUME NEW g \in Registrations, Stop(g) PROVE PlacesSuffice'
  BY <1>4, <1>7 DEF Stop, flags, InFlight
<1>8. CASE Tick \/ FireIdle \/ FireAgain
  BY <1>4, <1>8 DEF Tick, FireIdle, FireAgain, InFlight
<1>9. CASE Fire
  <2>1. InFlight' = InFlight \cup {FreePlace} /\ FreePlace \notin InFlight
    BY <1>9, FireStep
  <2>2. Cardinality(InFlight') = Cardinality(InFlight) + 1
    BY <1>1, <2>1, FS_AddElement
  <2>3. registrations' = registrations /\ registrations >= 1 /\ running' = TRUE /\ ~running
    BY <1>9, BoundsAssumption DEF Fire, TypeOK
  <2>4. Cardinality(InFlight) <= registrations - 1
    BY <1>1, <2>3, FS_EmptySet DEF PlacesSuffice
  <2>5. QED
    BY <1>1, <2>2, <2>3, <2>4 DEF PlacesSuffice
<1>10. ASSUME NEW r \in Places, Answer(r) PROVE PlacesSuffice'
  BY <1>3, <1>10 DEF Answer, TypeOK
<1>11. ASSUME NEW r \in Places, Busy(r) PROVE PlacesSuffice'
  <2> DEFINE p  == Queued(pending, runs[r].at, HandedTo(r))
             tm == Armed(timer, RetryDelay, "retry")
  <2>1. r \in InFlight /\ Advance(r, p, tm)
    BY <1>11 DEF Busy
  <2>2. p \in Wakes /\ tm \in Timer
    BY <2>1, GivenBack
  <2> HIDE DEF p, tm
  <2>3. QED
    BY <1>3, <2>1, <2>2
<1>12. ASSUME NEW r \in Places, Throw(r) PROVE PlacesSuffice'
  <2> DEFINE p  == QueuedAll(pending, runs[r].batch)
             tm == Armed(timer, RetryDelay, "retry")
  <2>1. r \in InFlight /\ Finally(r, p, tm)
    BY <1>12 DEF Throw
  <2>2. p \in Wakes /\ tm \in Timer
    BY <2>1, GivenBack
  <2> HIDE DEF p, tm
  <2>3. InFlight' = InFlight \ {r} /\ running' = FALSE /\ registrations' = registrations
    BY <2>1, <2>2, FinallyStep
  <2>4. QED
    BY <1>2, <2>1, <2>3
<1>13. CASE UNCHANGED vars
  BY <1>4, <1>13 DEF vars, flags, InFlight
<1>14. QED
  BY <1>5, <1>6, <1>7, <1>8, <1>9, <1>10, <1>11, <1>12, <1>13 DEF Next

\* While no batch starts or ends and no runner is registered, the present
\* runner's batches stay the same.
LEMMA OwnSame ==
    ASSUME InFlight' = InFlight, registrations' = registrations,
           \A s \in InFlight : runs'[s].handler = runs[s].handler
    PROVE  Own' = Own
  BY DEF Own

\* A step keeps what `running` tells.
LEMMA RunningTellsStep ==
    ASSUME Shape, PlacesSuffice, RunningTells, [Next]_vars
    PROVE  RunningTells'
<1> USE DEF Shape
<1>1. ASSUME Own' = Own, UNCHANGED <<running, intruded>> PROVE RunningTells'
  BY <1>1 DEF RunningTells
<1>2. CASE UNCHANGED <<runs, registrations, running, intruded>>
  BY <1>1, <1>2 DEF Own, InFlight
\* The end of a batch clears `running`; the last one of its own leaves nothing
\* that `running` could tell of, the end of another is remembered.
<1>3. ASSUME NEW r \in InFlight, InFlight' = InFlight \ {r}, running' = FALSE,
             intruded' = IntrudedBy(r), registrations' = registrations,
             \A s \in InFlight' : runs'[s].handler = runs[s].handler
      PROVE  RunningTells'
  <2>1. Own' = Own \ {r}
    BY <1>3 DEF Own
  <2>2. ~intruded' => Own' = {}
    BY <1>3, <2>1 DEF IntrudedBy, RunningTells
  <2>3. QED
    BY <1>3, <2>2 DEF RunningTells
<1>4. ASSUME NEW r \in InFlight, NEW p \in Wakes, NEW tm \in Timer \cup {NoTimer}, Advance(r, p, tm)
      PROVE  RunningTells'
  <2>1. /\ registrations' = registrations
        /\ \/ /\ InFlight' = InFlight /\ UNCHANGED <<running, intruded>>
              /\ runs'[r].handler = runs[r].handler
           \/ InFlight' = InFlight \ {r} /\ running' = FALSE /\ intruded' = IntrudedBy(r)
        /\ \A s \in InFlight \ {r} : runs'[s] = runs[s]
    BY <1>4, AdvanceStep
  <2>2. CASE /\ InFlight' = InFlight /\ UNCHANGED <<running, intruded>>
             /\ runs'[r].handler = runs[r].handler
    <3>1. Own' = Own
      BY <2>1, <2>2, OwnSame
    <3>2. QED
      BY <1>1, <2>2, <3>1
  <2>3. CASE InFlight' = InFlight \ {r} /\ running' = FALSE /\ intruded' = IntrudedBy(r)
    BY <1>3, <2>1, <2>3
  <2>4. QED
    BY <2>1, <2>2, <2>3
\* A new runner has no batch yet.
<1>5. CASE Register
  <2>1. registrations \in Nat /\ registrations' = registrations + 1
    BY <1>5, BoundsAssumption DEF Register, TypeOK
  <2>2. \A s \in InFlight : runs[s].handler \in Nat /\ runs[s].handler <= registrations
    BY DEF RunsOK, TypeOK, InFlight, Run, Registrations
  <2>3. InFlight' = InFlight /\ runs' = runs
    BY <1>5 DEF Register, InFlight
  <2>4. Own' = {}
    BY <2>1, <2>2, <2>3 DEF Own
  <2>5. QED
    BY <1>5, <2>4 DEF Register, RunningTells
\* The timer starts a batch beside another of the same runner only after that.
<1>6. CASE Fire
  <2>1. /\ InFlight' = InFlight \cup {FreePlace} /\ FreePlace \notin InFlight
        /\ \A s \in InFlight : runs'[s] = runs[s]
        /\ runs'[FreePlace].handler = registrations
    BY <1>6, FireStep
  <2>2. registrations' = registrations /\ intruded' = intruded /\ running' = TRUE /\ ~running
    BY <1>6 DEF Fire, history
  <2>3. Own' = Own \cup {FreePlace}
    BY <2>1, <2>2 DEF Own
  <2>4. ~intruded => Own = {}
    BY <2>2 DEF RunningTells
  <2>5. QED
    BY <2>2, <2>3, <2>4 DEF RunningTells
<1>7. ASSUME NEW t \in Targets, NEW p \in Priorities, NEW d \in Delays, RequestHeartbeat(t, p, d)
      PROVE  RunningTells'
  BY <1>2, <1>7 DEF RequestHeartbeat
<1>8. CASE (\E g \in Registrations : Stop(g)) \/ Tick \/ FireIdle \/ FireAgain \/ UNCHANGED vars
  BY <1>2, <1>8 DEF Stop, Tick, FireIdle, FireAgain, vars, flags, history
<1>9. ASSUME NEW r \in Places, Answer(r) PROVE RunningTells'
  BY <1>4, <1>9 DEF Answer, TypeOK
<1>10. ASSUME NEW r \in Places, Busy(r) PROVE RunningTells'
  <2> DEFINE p  == Queued(pending, runs[r].at, HandedTo(r))
             tm == Armed(timer, RetryDelay, "retry")
  <2>1. r \in InFlight /\ Advance(r, p, tm)
    BY <1>10 DEF Busy
  <2>2. p \in Wakes /\ tm \in Timer
    BY <2>1, GivenBack
  <2> HIDE DEF p, tm
  <2>3. QED
    BY <1>4, <2>1, <2>2
<1>11. ASSUME NEW r \in Places, Throw(r) PROVE RunningTells'
  <2> DEFINE p  == QueuedAll(pending, runs[r].batch)
             tm == Armed(timer, RetryDelay, "retry")
  <2>1. r \in InFlight /\ Finally(r, p, tm)
    BY <1>11 DEF Throw
  <2>2. p \in Wakes /\ tm \in Timer
    BY <2>1, GivenBack
  <2> HIDE DEF p, tm
  <2>3. /\ InFlight' = InFlight \ {r} /\ running' = FALSE /\ intruded' = IntrudedBy(r)
        /\ registrations' = registrations /\ \A s \in InFlight' : runs'[s] = runs[s]
    BY <2>1, <2>2, FinallyStep
  <2>4. QED
    BY <1>3, <2>1, <2>3
<1>12. QED
  BY <1>5, <1>6, <1>7, <1>8, <1>9, <1>10, <1>11 DEF Next

-----------------------------------------------------------------------------
(* No wake sleeps.                                                         *)

\* A step leaves a timer armed where there are pending wakes and a runner.
LEMMA NoWakeSleepsStep ==
    ASSUME Shape, PlacesSuffice, NoWakeSleeps, [Next]_vars
    PROVE  NoWakeSleeps'
<1> USE DEF Shape
<1>1. ASSUME timer' \in Timer PROVE NoWakeSleeps'
  BY <1>1, TimerIsArmed DEF NoWakeSleeps
<1>2. ASSUME pending' = pending, handler' \in {handler, 0}, timer' = timer
      PROVE  NoWakeSleeps'
  BY <1>2 DEF NoWakeSleeps
<1>3. ASSUME NEW t \in Targets, NEW p \in Priorities, NEW d \in Delays, RequestHeartbeat(t, p, d)
      PROVE  NoWakeSleeps'
  <2>1. timer' \in Timer
    BY <1>3, ArmedFacts, DelaysAssumption DEF RequestHeartbeat, TypeOK
  <2>2. QED
    BY <1>1, <2>1
<1>4. CASE Register
  <2>1. Armed(NoTimer, DefaultDelay, "normal") \in Timer
    BY ArmedFacts, DelaysAssumption
  <2>2. QED
    BY <1>1, <1>4, <2>1 DEF Register, NoWakeSleeps
<1>5. ASSUME NEW g \in Registrations, Stop(g) PROVE NoWakeSleeps'
  BY <1>2, <1>5 DEF Stop, flags
<1>6. CASE Tick
  <2>1. timer' \in Timer
    BY <1>6 DEF Tick, TypeOK, Timer, NoTimer
  <2>2. QED
    BY <1>1, <2>1
\* The timer is given up only when there is no runner, or nothing pending.
<1>7. CASE FireIdle
  BY <1>7 DEF FireIdle, NoWakeSleeps
<1>8. CASE FireAgain
  <2>1. timer.delay \in Int /\ timer.kind \in {"normal", "retry"}
    BY <1>8 DEF FireAgain, Due, TypeOK, Timer
  <2>2. timer' \in Timer
    BY <1>8, <2>1, ArmedFacts DEF FireAgain
  <2>3. QED
    BY <1>1, <2>2
<1>9. CASE Fire
  BY <1>9 DEF Fire, NoWakeSleeps
<1>10. ASSUME NEW r \in Places, Answer(r) PROVE NoWakeSleeps'
  <2>1. /\ r \in InFlight /\ Advance(r, pending, timer)
        /\ pending \in Wakes /\ timer \in Timer \cup {NoTimer}
    BY <1>10 DEF Answer, TypeOK
  <2>2. /\ pending' = pending /\ handler' = handler
        /\ pending # NoWakes => timer' \in Timer \/ timer' = timer
    BY <2>1, AdvanceStep
  <2>3. QED
    BY <1>1, <2>2 DEF NoWakeSleeps
<1>11. ASSUME NEW r \in Places, Busy(r) PROVE NoWakeSleeps'
  <2> DEFINE p  == Queued(pending, runs[r].at, HandedTo(r))
             tm == Armed(timer, RetryDelay, "retry")
  <2>1. r \in InFlight /\ Advance(r, p, tm)
    BY <1>11 DEF Busy
  <2>2. p \in Wakes /\ tm \in Timer
    BY <2>1, GivenBack
  <2> HIDE DEF p, tm
  <2>3. timer' \in Timer
    BY <2>1, <2>2, AdvanceStep
  <2>4. QED
    BY <1>1, <2>3
<1>12. ASSUME NEW r \in Places, Throw(r) PROVE NoWakeSleeps'
  <2> DEFINE p  == QueuedAll(pending, runs[r].batch)
             tm == Armed(timer, RetryDelay, "retry")
  <2>1. r \in InFlight /\ Finally(r, p, tm)
    BY <1>12 DEF Throw
  <2>2. p \in Wakes /\ tm \in Timer
    BY <2>1, GivenBack
  <2> HIDE DEF p, tm
  <2>3. timer' \in Timer
    BY <2>1, <2>2, FinallyStep
  <2>4. QED
    BY <1>1, <2>3
<1>13. CASE UNCHANGED vars
  BY <1>2, <1>13 DEF vars, flags
<1>14. QED
  BY <1>3, <1>4, <1>5, <1>6, <1>7, <1>8, <1>9, <1>10, <1>11, <1>12, <1>13 DEF Next

-----------------------------------------------------------------------------
(* Nothing is forgotten.                                                   *)

\* Whether request i, of urgency n, has a wake in b for one of the targets ts.
Stands(b, ts, i, n) == \E t \in ts : i \in b[t].carries /\ b[t].priority >= n

Kept(i, n) ==
    \/ i \in answered
    \/ Stands(pending, Targets, i, n)
    \/ \E r \in InFlight : Stands(runs[r].batch, runs[r].todo, i, n)

\* Queueing w for t keeps whatever was pending, and adds what w stands for.
LEMMA QueuedKeeps ==
    ASSUME NEW p \in Wakes, NEW t \in Targets, NEW w \in Wake \cup {NoWake},
           NEW i, NEW n \in Int
    PROVE  /\ Stands(p, Targets, i, n) => Stands(Queued(p, t, w), Targets, i, n)
           /\ i \in w.carries /\ w.priority >= n => Stands(Queued(p, t, w), Targets, i, n)
<1> DEFINE q == Queued(p, t, w)
<1>1. \A u \in Targets : p[u] \in Wake \cup {NoWake} /\ p[u].priority \in Int
  BY MergedFacts DEF Wakes
<1>2. \A u \in Targets : q[u] = IF u = t THEN Merged(p[t], w) ELSE p[u]
  BY DEF Queued, Wakes
<1> HIDE DEF q
<1>3. /\ Merged(p[t], w).carries = p[t].carries \cup w.carries
      /\ Merged(p[t], w).priority >= p[t].priority /\ Merged(p[t], w).priority >= w.priority
      /\ w.priority \in Int /\ Merged(p[t], w).priority \in Int
  BY <1>1, MergedFacts
<1>4. ASSUME NEW u \in Targets, i \in p[u].carries, p[u].priority >= n
      PROVE  i \in q[u].carries /\ q[u].priority >= n
  BY <1>1, <1>2, <1>3, <1>4
<1>5. ASSUME i \in w.carries, w.priority >= n
      PROVE  i \in q[t].carries /\ q[t].priority >= n
  BY <1>2, <1>3, <1>5
<1>6. Stands(p, Targets, i, n) => Stands(q, Targets, i, n)
  BY <1>4 DEF Stands
<1>7. i \in w.carries /\ w.priority >= n => Stands(q, Targets, i, n)
  BY <1>5 DEF Stands
<1>8. QED
  BY <1>6, <1>7 DEF q

\* Queueing a batch again keeps what was pending, and what the batch stands for.
LEMMA QueuedAllKeeps ==
    ASSUME NEW p \in Wakes, NEW b \in Wakes, NEW ts \in SUBSET Targets, NEW i, NEW n \in Int
    PROVE  /\ Stands(p, Targets, i, n) => Stands(QueuedAll(p, b), Targets, i, n)
           /\ Stands(b, ts, i, n) => Stands(QueuedAll(p, b), Targets, i, n)
<1> DEFINE q == QueuedAll(p, b)
<1>1. ASSUME NEW u \in Targets
      PROVE  /\ q[u].carries = p[u].carries \cup b[u].carries
             /\ q[u].priority >= p[u].priority /\ q[u].priority >= b[u].priority
             /\ p[u].priority \in Int /\ b[u].priority \in Int /\ q[u].priority \in Int
  <2>1. p[u] \in Wake \cup {NoWake} /\ b[u] \in Wake \cup {NoWake}
    BY DEF Wakes
  <2>2. q[u] = Merged(p[u], b[u])
    BY DEF QueuedAll
  <2>3. QED
    BY <2>1, <2>2, MergedFacts
<1> HIDE DEF q
<1>2. ASSUME NEW u \in Targets, i \in p[u].carries, p[u].priority >= n
      PROVE  i \in q[u].carries /\ q[u].priority >= n
  BY <1>1, <1>2
<1>3. ASSUME NEW u \in Targets, i \in b[u].carries, b[u].priority >= n
      PROVE  i \in q[u].carries /\ q[u].priority >= n
  BY <1>1, <1>3
<1>4. QED
  BY <1>2, <1>3 DEF Stands, q

\* A step that leaves the pending wakes or adds to them, and the other batches,
\* keeps every request that is not in batch r.
LEMMA OthersKept ==
    ASSUME NEW r \in InFlight, NEW i, NEW n,
           answered \subseteq answered',
           Stands(pending, Targets, i, n) => Stands(pending', Targets, i, n),
           \A s \in InFlight \ {r} : s \in InFlight' /\ runs'[s] = runs[s],
           Stands(runs[r].batch, runs[r].todo, i, n) => Kept(i, n)',
           Kept(i, n)
    PROVE  Kept(i, n)'
  BY DEF Kept

\* The requests that were there before a step are kept by it.
LEMMA KeptStep ==
    ASSUME Shape, PlacesSuffice, [Next]_vars, NEW i, NEW n \in Int, Kept(i, n)
    PROVE  Kept(i, n)'
<1> USE DEF Shape
<1>1. ASSUME NEW t \in Targets, NEW p \in Priorities, NEW d \in Delays, RequestHeartbeat(t, p, d)
      PROVE  Kept(i, n)'
  <2> DEFINE w == [priority |-> p, carries |-> {Len(requests) + 1}]
  <2>1. w \in Wake
    BY <1>1, BoundsAssumption DEF RequestHeartbeat, TypeOK, Ids, Wake
  <2>2. pending' = Queued(pending, t, w) /\ pending \in Wakes
    BY <1>1 DEF RequestHeartbeat, TypeOK
  <2> HIDE DEF w
  <2>3. Stands(pending, Targets, i, n) => Stands(pending', Targets, i, n)
    BY <2>1, <2>2, QueuedKeeps
  <2>4. QED
    BY <1>1, <2>3 DEF RequestHeartbeat, Kept, InFlight
<1>2. CASE Register
  BY <1>2 DEF Register, history, Kept, InFlight
<1>3. ASSUME NEW g \in Registrations, Stop(g) PROVE Kept(i, n)'
  BY <1>3 DEF Stop, flags, history, Kept, InFlight
<1>4. CASE Tick \/ FireIdle \/ FireAgain
  BY <1>4 DEF Tick, FireIdle, FireAgain, history, Kept, InFlight
\* What was pending is in the new batch; a target outside it has no wake.
<1>5. CASE Fire
  <2>1. /\ InFlight' = InFlight \cup {FreePlace}
        /\ \A s \in InFlight : runs'[s] = runs[s]
        /\ runs'[FreePlace].batch = pending /\ runs'[FreePlace].todo = InMap
    BY <1>5, FireStep
  <2>2. Stands(pending, Targets, i, n) => Stands(pending, InMap, i, n)
    BY DEF Stands, InMap, NoWake
  <2>3. answered' = answered
    BY <1>5 DEF Fire, history
  <2>4. QED
    BY <2>1, <2>2, <2>3 DEF Kept
<1>6. ASSUME NEW r \in Places, Answer(r) PROVE Kept(i, n)'
  <2>1. /\ r \in InFlight /\ Advance(r, pending, timer)
        /\ pending \in Wakes /\ timer \in Timer \cup {NoTimer}
    BY <1>6 DEF Answer, TypeOK
  <2>2. /\ pending' = pending
        /\ \A s \in InFlight \ {r} : s \in InFlight' /\ runs'[s] = runs[s]
        /\ \/ ToCome(r) = {}
           \/ r \in InFlight' /\ runs'[r].batch = runs[r].batch /\ runs'[r].todo = ToCome(r)
    BY <2>1, AdvanceStep
  <2>3. answered' = answered \cup HandedTo(r).carries
    BY <1>6 DEF Answer
  <2>4. ASSUME NEW t \in runs[r].todo, i \in runs[r].batch[t].carries, runs[r].batch[t].priority >= n
        PROVE  Kept(i, n)'
    <3>1. CASE t = runs[r].at
      BY <2>3, <2>4, <3>1 DEF HandedTo, Kept
    <3>2. CASE t \in ToCome(r)
      BY <2>2, <2>4, <3>2 DEF Kept, Stands
    <3>3. QED
      BY <3>1, <3>2 DEF ToCome
  <2>5. QED
    BY <2>1, <2>2, <2>3, <2>4, OthersKept DEF Stands
<1>7. ASSUME NEW r \in Places, Busy(r) PROVE Kept(i, n)'
  <2> DEFINE p  == Queued(pending, runs[r].at, HandedTo(r))
             tm == Armed(timer, RetryDelay, "retry")
  <2>1. r \in InFlight /\ Advance(r, p, tm) /\ answered' = answered
    BY <1>7 DEF Busy
  <2>2. p \in Wakes /\ tm \in Timer
    BY <2>1, GivenBack
  <2>3. /\ Stands(pending, Targets, i, n) => Stands(p, Targets, i, n)
        /\ i \in HandedTo(r).carries /\ HandedTo(r).priority >= n => Stands(p, Targets, i, n)
    <3>1. HandedTo(r) \in Wake \cup {NoWake} /\ runs[r].at \in Targets /\ pending \in Wakes
      BY <2>1, GivenBack DEF TypeOK, Run
    <3>2. QED
      BY <3>1, QueuedKeeps
  <2> HIDE DEF p, tm
  <2>4. /\ pending' = p
        /\ \A s \in InFlight \ {r} : s \in InFlight' /\ runs'[s] = runs[s]
        /\ \/ ToCome(r) = {}
           \/ r \in InFlight' /\ runs'[r].batch = runs[r].batch /\ runs'[r].todo = ToCome(r)
    BY <2>1, <2>2, AdvanceStep
  <2>5. ASSUME NEW t \in runs[r].todo, i \in runs[r].batch[t].carries, runs[r].batch[t].priority >= n
        PROVE  Kept(i, n)'
    <3>1. CASE t = runs[r].at
      BY <2>3, <2>4, <2>5, <3>1 DEF HandedTo, Kept
    <3>2. CASE t \in ToCome(r)
      BY <2>4, <2>5, <3>2 DEF Kept, Stands
    <3>3. QED
      BY <3>1, <3>2 DEF ToCome
  <2>6. QED
    BY <2>1, <2>3, <2>4, <2>5, OthersKept DEF Stands
<1>8. ASSUME NEW r \in Places, Throw(r) PROVE Kept(i, n)'
  <2> DEFINE p  == QueuedAll(pending, runs[r].batch)
             tm == Armed(timer, RetryDelay, "retry")
  <2>1. r \in InFlight /\ Finally(r, p, tm) /\ answered' = answered
    BY <1>8 DEF Throw
  <2>2. p \in Wakes /\ tm \in Timer
    BY <2>1, GivenBack
  <2>3. /\ Stands(pending, Targets, i, n) => Stands(p, Targets, i, n)
        /\ Stands(runs[r].batch, runs[r].todo, i, n) => Stands(p, Targets, i, n)
    <3>1. runs[r].batch \in Wakes /\ runs[r].todo \in SUBSET Targets /\ pending \in Wakes
      BY <2>1, GivenBack DEF TypeOK, Run
    <3>2. QED
      BY <3>1, QueuedAllKeeps
  <2> HIDE DEF p, tm
  <2>4. /\ pending' = p
        /\ InFlight' = InFlight \ {r} /\ \A s \in InFlight' : runs'[s] = runs[s]
    BY <2>1, <2>2, FinallyStep
  <2>5. QED
    BY <2>1, <2>3, <2>4, OthersKept DEF Kept
<1>9. CASE UNCHANGED vars
  BY <1>9 DEF vars, flags, history, Kept, InFlight
<1>10. QED
  BY <1>1, <1>2, <1>3, <1>4, <1>5, <1>6, <1>7, <1>8, <1>9 DEF Next

\* The history of requests only grows.
LEMMA RequestsKept ==
    ASSUME Shape, [Next]_vars
    PROVE  \/ requests' = requests
           \/ \E t \in Targets, p \in Priorities, d \in Delays : RequestHeartbeat(t, p, d)
  BY DEF Next, Register, Stop, Tick, FireIdle, FireAgain, Fire, Answer, Busy, Throw,
         Advance, Finally, vars, flags, history

\* The priority of a request is a number.
LEMMA PrioritiesAreNumbers ==
    ASSUME NEW s \in Seq(Request), NEW i \in 1..Len(s)
    PROVE  s[i].priority \in Int
<1>1. s[i] \in Request
  BY ElementOfSeq
<1>2. s[i].priority \in Priorities
  BY <1>1 DEF Request
<1>3. \A p \in Priorities : p \in Int
  BY PrioritiesAssumption
<1>4. QED
  BY <1>2, <1>3

\* A step forgets neither an earlier request nor the one it makes.
LEMMA NothingForgottenStep ==
    ASSUME Shape, PlacesSuffice, NothingForgotten, [Next]_vars
    PROVE  NothingForgotten'
<1>1. requests \in Seq(Request) /\ Priorities \subseteq Int
  BY PrioritiesAssumption DEF Shape, TypeOK
\* The requests made before the step.
<1>2. ASSUME NEW i \in 1..Len(requests), NEW n \in Int, n = requests[i].priority
      PROVE  Kept(i, n)'
  <2>1. Kept(i, n)
    BY <1>2 DEF NothingForgotten, Carried, Kept, Stands
  <2>2. QED
    BY <2>1, KeptStep
<1>3. CASE requests' = requests
  <2>1. SUFFICES ASSUME NEW i \in 1..Len(requests), NEW n \in Int, n = requests[i].priority
                 PROVE  Kept(i, n)'
    <3>1. \A i \in 1..Len(requests) : requests[i].priority \in Int
      BY <1>1, PrioritiesAreNumbers
    <3>2. QED
      BY <1>3, <3>1 DEF NothingForgotten, Carried, Kept, Stands
  <2>2. QED
    BY <1>2, <2>1
\* The request made by the step, if it is one.
<1>4. ASSUME NEW t \in Targets, NEW p \in Priorities, NEW d \in Delays, RequestHeartbeat(t, p, d)
      PROVE  NothingForgotten'
  <2>1. SUFFICES ASSUME NEW i \in 1..Len(requests'), NEW n \in Int, n = requests'[i].priority
                 PROVE  Kept(i, n)'
    <3>1. requests' \in Seq(Request)
      BY <1>1, <1>4 DEF RequestHeartbeat, Request
    <3>2. \A i \in 1..Len(requests') : requests'[i].priority \in Int
      BY <3>1, PrioritiesAreNumbers
    <3>3. QED
      BY <3>2 DEF NothingForgotten, Carried, Kept, Stands
  <2>2. /\ requests' = Append(requests, [target |-> t, priority |-> p])
        /\ Len(requests') = Len(requests) + 1
    BY <1>1, <1>4 DEF RequestHeartbeat, Request
  <2>3. CASE i \in 1..Len(requests)
    <3>1. requests'[i] = requests[i]
      BY <1>1, <2>2, <2>3
    <3>2. QED
      BY <1>2, <2>1, <2>3, <3>1
  <2>4. CASE i = Len(requests) + 1
    <3> DEFINE w == [priority |-> p, carries |-> {i}]
    <3>1. n = p /\ p \in Int
      BY <1>1, <2>1, <2>2, <2>4
    <3>2. w \in Wake /\ pending \in Wakes
      BY <1>1, <1>4, <2>4, BoundsAssumption DEF RequestHeartbeat, Shape, TypeOK, Ids, Wake
    <3>3. i \in w.carries /\ w.priority >= n
      BY <3>1
    <3>4. pending' = Queued(pending, t, w)
      BY <1>4, <2>4 DEF RequestHeartbeat
    <3> HIDE DEF w
    <3>5. Stands(pending', Targets, i, n)
      BY <3>2, <3>3, <3>4, QueuedKeeps
    <3>6. QED
      BY <3>5 DEF Kept
  <2>5. QED
    BY <1>1, <2>1, <2>2, <2>3, <2>4
<1>5. QED
  BY <1>3, <1>4, RequestsKept

-----------------------------------------------------------------------------
(* The cooldown of a retry.                                                *)

\* A step that registers no runner leaves the cooldown of a retry, or counts it down.
LEMMA CooldownStep ==
    ASSUME Shape, [Next]_vars, timer.kind = "retry", registrations' = registrations, timer.left # 0
    PROVE  timer'.kind = "retry" /\ timer'.left \in {timer.left, timer.left - 1}
<1> USE DEF Shape
<1>1. timer \in Timer
  BY DEF TypeOK, NoTimer
<1>2. CASE timer' = timer
  BY <1>2
<1>3. ASSUME NEW t \in Targets, NEW p \in Priorities, NEW d \in Delays, RequestHeartbeat(t, p, d)
      PROVE  timer' = timer
  BY <1>1, <1>3, ArmedFacts, DelaysAssumption DEF RequestHeartbeat
<1>4. CASE Register
  BY <1>4 DEF Register, TypeOK
<1>5. CASE Tick
  BY <1>1, <1>5 DEF Tick, Timer
<1>6. CASE (\E g \in Registrations : Stop(g)) \/ UNCHANGED vars
  BY <1>2, <1>6 DEF Stop, vars, flags
<1>7. CASE FireIdle \/ FireAgain \/ Fire
  BY <1>7 DEF FireIdle, FireAgain, Fire, Due
<1>8. ASSUME NEW r \in Places, Answer(r) PROVE timer' = timer
  BY <1>1, <1>8, AdvanceStep DEF Answer, TypeOK
<1>9. Armed(timer, RetryDelay, "retry") = timer
  BY <1>1, ArmedFacts, DelaysAssumption
<1>10. ASSUME NEW r \in Places, Busy(r) PROVE timer' = timer
  <2> DEFINE p == Queued(pending, runs[r].at, HandedTo(r))
  <2>1. r \in InFlight /\ Advance(r, p, timer)
    BY <1>9, <1>10 DEF Busy
  <2>2. p \in Wakes
    BY <2>1, GivenBack
  <2> HIDE DEF p
  <2>3. QED
    BY <1>1, <2>1, <2>2, AdvanceStep
<1>11. ASSUME NEW r \in Places, Throw(r) PROVE timer' = timer
  <2> DEFINE p == QueuedAll(pending, runs[r].batch)
  <2>1. r \in InFlight /\ Finally(r, p, timer)
    BY <1>9, <1>11 DEF Throw
  <2>2. p \in Wakes
    BY <2>1, GivenBack
  <2> HIDE DEF p
  <2>3. QED
    BY <1>1, <2>1, <2>2, FinallyStep
<1>12. QED
  BY <1>2, <1>3, <1>4, <1>5, <1>6, <1>7, <1>8, <1>10, <1>11 DEF Next

-----------------------------------------------------------------------------
(* The theorems.                                                           *)

IInv == Shape /\ PlacesSuffice /\ RunningTells /\ NoWakeSleeps /\ NothingForgotten

\* The invariant holds initially.
LEMMA InitInv == Init => IInv
<1> SUFFICES ASSUME Init PROVE IInv
  OBVIOUS
<1>1. NoWakes \in Wakes
  BY DEF NoWakes, Wakes
<1>2. requests \in Seq(Request) /\ Len(requests) = 0
  BY DEF Init
<1>3. TypeOK
  <2>1. runs \in [Places -> Run \cup {NoRun}]
    BY DEF Init
  <2>2. throws \in 0..MaxThrows /\ registrations \in 0..MaxRegistrations
    BY BoundsAssumption DEF Init
  <2>3. timer \in Timer \cup {NoTimer} /\ handler \in {0, registrations}
    BY DEF Init
  <2>4. stopped \subseteq 1..registrations /\ answered \subseteq Ids
    BY DEF Init
  <2>5. QED
    BY <1>1, <1>2, <2>1, <2>2, <2>3, <2>4 DEF Init, TypeOK
<1>4. InFlight = {}
  BY DEF Init, InFlight
<1>5. QED
  BY <1>2, <1>3, <1>4 DEF Init, IInv, Shape, RunsOK, PlacesSuffice, RunningTells, Own, NoWakeSleeps, NothingForgotten

\* A step keeps the invariant.
LEMMA NextInv == IInv /\ [Next]_vars => IInv'
  BY ShapeStep, PlacesSufficeStep, RunningTellsStep, NoWakeSleepsStep, NothingForgottenStep DEF IInv

\* The invariant the other theorems rest on: the types and the wake a runner
\* holds, a place for every batch, and what the other theorems say.
THEOREM Inductive == Spec => []IInv
<1>1. QED
  BY InitInv, NextInv, PTL DEF Spec

\* Every variable of the wake queue keeps its type.
THEOREM TypeCorrect == Spec => []TypeOK
<1>1. IInv => TypeOK
  BY DEF IInv, Shape
<1>2. QED
  BY <1>1, Inductive, PTL

\* `running` stands for a batch of the present runner, and, unless the end of
\* an earlier runner's batch has cleared it under one, for the only one.
THEOREM RunningIsTrue == Spec => []RunningTells
<1>1. IInv => RunningTells
  BY DEF IInv
<1>2. QED
  BY <1>1, Inductive, PTL

\* While a runner is registered, pending wakes have a timer.
THEOREM NoneSleeps == Spec => []NoWakeSleeps
<1>1. IInv => NoWakeSleeps
  BY DEF IInv
<1>2. QED
  BY <1>1, Inductive, PTL

\* Every request is answered, pending, or in a batch, in a wake as urgent.
THEOREM NoneForgotten == Spec => []NothingForgotten
<1>1. IInv => NothingForgotten
  BY DEF IInv
<1>2. QED
  BY <1>1, Inductive, PTL

\* Only a new registration cuts the cooldown of an armed retry short.
THEOREM CooldownHolds == Spec => CooldownKept
<1>1. IInv /\ [Next]_vars =>
        [timer.kind = "retry" /\ registrations' = registrations =>
            \/ timer.left = 0
            \/ timer'.kind = "retry" /\ timer'.left \in {timer.left, timer.left - 1}]_vars
  BY CooldownStep DEF IInv
<1>2. QED
  BY <1>1, Inductive, PTL DEF Spec, CooldownKept
=============================================================================
