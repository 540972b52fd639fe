------------------------- MODULE FollowupQueueProofs -------------------------
(***************************************************************************)
(* Proofs about FollowupQueue.  Kept is what every step of every caller    *)
(* and every drain keeps: types, jobs whose messages have one sender and   *)
(* one route, and no message out of the callers' reach.  Without clears    *)
(* there is one queue at a time, and nobody leaves it idle with messages.  *)
(***************************************************************************)
EXTENDS FollowupQueue, FiniteSetTheorems, SequenceTheorems, TLAPS

\* The k-th element of a finite set of numbers.
LEMMA Ranked ==
    ASSUME NEW S \in SUBSET Nat, IsFiniteSet(S), NEW k \in 1..Cardinality(S)
    PROVE  \E x \in S : Cardinality({y \in S : y <= x}) = k
<1> DEFINE upTo(x) == {y \in S : y <= x}
           f == [x \in S |-> Cardinality(upTo(x))]
<1>1. Cardinality(S) \in Nat
  BY FS_CardinalityType
<1>2. ASSUME NEW x \in S
      PROVE  IsFiniteSet(upTo(x)) /\ Cardinality(upTo(x)) \in 1..Cardinality(S)
  <2>1. upTo(x) \in SUBSET S /\ x \in upTo(x)
    OBVIOUS
  <2>2. IsFiniteSet(upTo(x)) /\ Cardinality(upTo(x)) <= Cardinality(S)
    BY <2>1, FS_Subset
  <2>3. Cardinality(upTo(x)) \in Nat /\ Cardinality(upTo(x)) # 0
    BY <2>1, <2>2, FS_CardinalityType, FS_EmptySet
  <2>4. QED
    BY <1>1, <2>2, <2>3
<1>3. ASSUME NEW x \in S, NEW z \in S, x < z
      PROVE  Cardinality(upTo(x)) # Cardinality(upTo(z))
  <2>1. upTo(x) \in SUBSET upTo(z) /\ z \in upTo(z) /\ z \notin upTo(x)
    <3>1. x \in Nat /\ z \in Nat /\ \A y \in S : y \in Nat /\ (y <= x => y <= z)
      BY <1>3
    <3>2. z <= z /\ ~(z <= x)
      BY <1>3, <3>1
    <3>3. QED
      BY <3>1, <3>2
  <2>2. IsFiniteSet(upTo(z))
    BY <1>2
  <2>3. QED
    BY <2>1, <2>2, FS_Subset
<1>4. f \in Injection(S, 1..Cardinality(S))
  <2>1. f \in [S -> 1..Cardinality(S)]
    BY <1>2
  <2>2. ASSUME NEW x \in S, NEW z \in S, f[x] = f[z] PROVE x = z
    <3>1. Cardinality(upTo(x)) = Cardinality(upTo(z))
      BY <2>2
    <3>2. ~(x < z) /\ ~(z < x)
      BY <1>3, <3>1
    <3>3. QED
      BY <3>2
  <2>3. IsInjective(f)
    BY <2>1, <2>2 DEF IsInjective
  <2>4. QED
    BY <2>1, <2>3 DEF Injection
<1>5. IsFiniteSet(1..Cardinality(S)) /\ Cardinality(1..Cardinality(S)) = Cardinality(S)
  BY <1>1, FS_Interval
<1>6. f \in Surjection(S, 1..Cardinality(S))
  BY <1>4, <1>5, FS_Injection
<1>7. PICK x \in S : f[x] = k
  BY <1>6 DEF Surjection
<1>8. QED
  BY <1>7

LEMMA Least ==
    ASSUME NEW S \in SUBSET Nat, IsFiniteSet(S), S # {}
    PROVE  Min(S) \in S /\ \A x \in S : Min(S) <= x
<1>1. 1 \in 1..Cardinality(S)
  BY FS_CardinalityType, FS_EmptySet
<1>2. PICK x \in S : Cardinality({y \in S : y <= x}) = 1
  BY <1>1, Ranked
<1>3. IsFiniteSet({y \in S : y <= x})
  BY FS_Subset
<1>4. PICK z : {y \in S : y <= x} = {z}
  BY <1>2, <1>3, FS_Singleton
<1>5. x \in {y \in S : y <= x}
  OBVIOUS
<1>6. \A y \in S : x <= y
  <2> SUFFICES ASSUME NEW y \in S, ~(x <= y) PROVE FALSE
    OBVIOUS
  <2>1. y \in {v \in S : v <= x}
    OBVIOUS
  <2>2. QED
    BY <1>4, <1>5, <2>1
<1>7. QED
  BY <1>6 DEF Min

LEMMA Greatest ==
    ASSUME NEW S \in SUBSET Nat, IsFiniteSet(S), S # {}
    PROVE  Max(S) \in S /\ \A x \in S : x <= Max(S)
<1>1. Cardinality(S) \in 1..Cardinality(S)
  BY FS_CardinalityType, FS_EmptySet
<1>2. PICK x \in S : Cardinality({y \in S : y <= x}) = Cardinality(S)
  BY <1>1, Ranked
<1>3. {y \in S : y <= x} = S
  BY <1>2, FS_Subset
<1>4. \A y \in S : x >= y
  BY <1>3
<1>5. QED
  BY <1>4 DEF Max

-----------------------------------------------------------------------------
(* What collect makes batches of.                                          *)

\* Messages with origins o that may share a prompt.
Alike(b, o) ==
    \A m, n \in Range(b) :
        m # n => o[m].sender = o[n].sender /\ o[m].route = o[n].route /\ o[m].route # Solo

LEMMA SeqRange ==
    ASSUME NEW s \in Seq(Message)
    PROVE  Range(s) = {s[i] : i \in 1..Len(s)} /\ Range(s) \subseteq Message /\ Range(<<>>) = {}
  BY DEF Range

LEMMA IndicesFinite ==
    ASSUME NEW items \in Seq(Message)
    PROVE  IsFiniteSet(1..Len(items))
  BY FS_Interval

LEMMA StartsFinite ==
    ASSUME NEW items \in Seq(Message)
    PROVE  /\ Starts(items) \in SUBSET (1..Len(items))
           /\ Starts(items) \in SUBSET Nat
           /\ IsFiniteSet(Starts(items))
           /\ items # <<>> => 1 \in Starts(items)
<1>1. Starts(items) \in SUBSET (1..Len(items)) /\ (items # <<>> => 1 \in Starts(items))
  BY DEF Starts
<1>2. IsFiniteSet(1..Len(items))
  BY FS_Interval
<1>3. QED
  BY <1>1, <1>2, FS_Subset

\* A batch lies between two changes of sender.
LEMMA GroupSpan ==
    ASSUME NEW items \in Seq(Message), NEW i \in Starts(items)
    PROVE  \E z \in i + 1..Len(items) + 1 :
              /\ \A p \in Starts(items) : p > i => z <= p
              /\ GroupFrom(items, i) \in Seq(Message)
              /\ Len(GroupFrom(items, i)) = z - i
              /\ \A k \in 1..z - i : GroupFrom(items, i)[k] = items[i + k - 1]
              /\ z = Len(items) + 1 \/ z \in Starts(items)
<1> DEFINE ends == {j \in Starts(items) : j > i} \cup {Len(items) + 1}
           z == Min(ends)
<1>1. ends \in SUBSET (1..Len(items) + 1) /\ Len(items) + 1 \in ends /\ \A j \in ends : j > i
  BY StartsFinite
<1>2. IsFiniteSet(1..Len(items) + 1)
  BY FS_Interval
<1>3. IsFiniteSet(ends) /\ ends \in SUBSET Nat /\ ends # {}
  <2>1. IsFiniteSet(ends)
    BY <1>1, <1>2, FS_Subset
  <2>2. QED
    BY <1>1, <2>1
<1>4. z \in ends /\ \A j \in ends : z <= j
  BY <1>3, Least
<1>5. z \in Nat /\ z > i /\ z <= Len(items) + 1 /\ i \in 1..Len(items)
  BY <1>1, <1>3, <1>4, StartsFinite
<1>6. \A p \in Starts(items) : p > i => z <= p
  BY <1>4
<1>7. z = Len(items) + 1 \/ z \in Starts(items)
  BY <1>4
<1>8. GroupFrom(items, i) = SubSeq(items, i, z - 1)
  BY DEF GroupFrom
<1> HIDE DEF z
<1>9. \A p \in i..z - 1 : items[p] \in Message
  BY <1>5
<1>10. /\ GroupFrom(items, i) \in Seq(Message)
       /\ Len(GroupFrom(items, i)) = z - i
       /\ \A k \in 1..z - i : GroupFrom(items, i)[k] = items[i + k - 1]
  BY <1>5, <1>8, <1>9, SubSeqProperties
<1>11. z \in i + 1..Len(items) + 1
  BY <1>5
<1>12. QED
  BY <1>6, <1>7, <1>10, <1>11

LEMMA GroupMembers ==
    ASSUME NEW items \in Seq(Message), NEW i \in Starts(items)
    PROVE  /\ GroupFrom(items, i) \in Seq(Message)
           /\ Range(GroupFrom(items, i)) \subseteq Range(items)
           /\ \A m \in Range(GroupFrom(items, i)) : Sender(m) = Sender(items[i])
<1>1. PICK z \in i + 1..Len(items) + 1 :
         /\ \A p \in Starts(items) : p > i => z <= p
         /\ GroupFrom(items, i) \in Seq(Message)
         /\ Len(GroupFrom(items, i)) = z - i
         /\ \A k \in 1..z - i : GroupFrom(items, i)[k] = items[i + k - 1]
  BY GroupSpan
<1>5. z \in Nat /\ z > i /\ z <= Len(items) + 1 /\ i \in 1..Len(items)
  BY StartsFinite
<1>6. \A p \in Starts(items) : p > i => z <= p
  BY <1>1
<1>7. ASSUME NEW p \in i..z - 1 PROVE Sender(items[p]) = Sender(items[i])
  <2> DEFINE others == {q \in i..z - 1 : Sender(items[q]) # Sender(items[i])}
  <2> SUFFICES ASSUME others # {} PROVE FALSE
    OBVIOUS
  <2>1. IsFiniteSet(others) /\ others \in SUBSET Nat
    <3>1. IsFiniteSet(i..z - 1) /\ i..z - 1 \subseteq Nat
      BY <1>5, FS_Interval
    <3>2. QED
      BY <3>1, FS_Subset
  <2>2. PICK q \in others : \A r \in others : q <= r
    BY <2>1, Least
  <2>3. q \in i..z - 1 /\ q # i /\ q \in Nat
    BY <1>5, <2>2
  <2>4. q - 1 \in i..z - 1 /\ q - 1 \notin others
    BY <1>5, <2>2, <2>3
  <2>5. Sender(items[q - 1]) = Sender(items[i]) /\ Sender(items[q]) # Sender(items[i])
    BY <2>2, <2>4
  <2>6. q \in DOMAIN items
    BY <1>5, <2>3
  <2>7. q \in Starts(items) /\ q > i
    BY <1>5, <2>3, <2>5, <2>6 DEF Starts
  <2>8. QED
    BY <1>5, <1>6, <2>3, <2>7
<1>8. ASSUME NEW m \in Range(GroupFrom(items, i))
      PROVE  m \in Range(items) /\ Sender(m) = Sender(items[i])
  <2>1. PICK k \in 1..z - i : m = GroupFrom(items, i)[k]
    BY <1>1, SeqRange
  <2>2. m = items[i + k - 1] /\ i + k - 1 \in i..z - 1 /\ i + k - 1 \in 1..Len(items)
    BY <1>5, <1>1, <2>1
  <2>3. QED
    BY <1>7, <2>2, SeqRange
<1>9. QED
  BY <1>1, <1>8

LEMMA GroupsMembers ==
    ASSUME NEW items \in Seq(Message), items # <<>>
    PROVE  /\ Groups(items) \in Seq(Seq(Message))
           /\ Groups(items) # <<>>
           /\ \A g \in Range(Groups(items)) :
                 /\ Range(g) \subseteq Range(items)
                 /\ \A m, n \in Range(g) : Sender(m) = Sender(n)
<1> DEFINE n == Cardinality(Starts(items))
           Nth(k) == CHOOSE i \in Starts(items) : Cardinality({j \in Starts(items) : j <= i}) = k
<1>1. n \in Nat /\ n # 0
  BY StartsFinite, FS_CardinalityType, FS_EmptySet
<1>2. ASSUME NEW k \in 1..n PROVE Nth(k) \in Starts(items)
  <2>1. \E i \in Starts(items) : Cardinality({j \in Starts(items) : j <= i}) = k
    BY StartsFinite, Ranked
  <2>2. QED
    BY <2>1
<1>3. Groups(items) = [k \in 1..n |-> GroupFrom(items, Nth(k))]
  BY DEF Groups
<1> HIDE DEF n, Nth
<1>4. \A k \in 1..n : Groups(items)[k] = GroupFrom(items, Nth(k)) /\ Groups(items)[k] \in Seq(Message)
  BY <1>2, <1>3, GroupMembers
<1>5. Groups(items) \in [1..n -> Seq(Message)]
  BY <1>3, <1>4
<1>6. Groups(items) \in Seq(Seq(Message)) /\ Groups(items) # <<>>
  BY <1>1, <1>5
<1>7. ASSUME NEW g \in Range(Groups(items))
      PROVE  Range(g) \subseteq Range(items) /\ \A m, o \in Range(g) : Sender(m) = Sender(o)
  <2>1. PICK k \in 1..n : g = GroupFrom(items, Nth(k))
    BY <1>4, <1>5 DEF Range
  <2>2. QED
    BY <1>2, <2>1, GroupMembers
<1>8. QED
  BY <1>6, <1>7

\* Items without a cross-channel one have one route, and it is not Solo.
LEMMA OneRoute ==
    ASSUME NEW items \in Seq(Message), ~CrossChannel(items),
           NEW m \in Range(items), NEW n \in Range(items)
    PROVE  Route(m) = Route(n) /\ Route(m) # Solo
<1> DEFINE routes == {Route(k) : k \in Range(items)}
           f == [i \in 1..Len(items) |-> Route(items[i])]
<1>1. Route(m) \in routes /\ Route(n) \in routes /\ Solo \notin routes /\ ~(Cardinality(routes) > 1)
  BY DEF CrossChannel
<1>2. routes = {Route(items[i]) : i \in 1..Len(items)}
  BY SeqRange
<1>3. f \in Surjection(1..Len(items), routes)
  BY <1>2 DEF Surjection
<1>4. IsFiniteSet(1..Len(items))
  BY FS_Interval
<1>5. IsFiniteSet(routes)
  BY <1>3, <1>4, FS_Surjection
<1> HIDE DEF routes, f
<1>6. Cardinality(routes) = 1
  BY <1>1, <1>5, FS_CardinalityType, FS_EmptySet
<1>7. PICK r : routes = {r}
  BY <1>5, <1>6, FS_Singleton
<1>8. QED
  BY <1>1, <1>7

-----------------------------------------------------------------------------
(* The invariant.                                                          *)

QueueRecords ==
    [items : Seq(Message), mode : {"followup", "collect"},
     policy : {"new", "old", "summarize"}, dropped : Nat, lines : Seq(Message)]

\* Contents within the cap, of messages in seen.
GoodQueue(r, seen) ==
    r \in QueueRecords /\ Len(r.items) <= Cap /\ Range(r.items) \subseteq seen

\* A job whose batches, present and to come, may each share a prompt.
GoodBatch(b, seen, o) == b \in Seq(Message) /\ Range(b) \subseteq seen /\ Alike(b, o)
GoodJob(j, seen, o) ==
    /\ j \in Jobs
    /\ GoodBatch(j.batch, seen, o)
    /\ \A g \in Range(j.rest) : GoodBatch(g, seen, o)

Seen == Message \ Unseen

Kinds ==
    /\ origin \in [Message -> Origins]
    /\ table \in Queues \cup {None}
    /\ active \in Queues \cup {None, Turn}
    /\ aborted \subseteq Message
    /\ fate \in [Message -> Fates]
    /\ answers \in [Message -> 0..2]
    /\ failures \in 0..MaxFailures

Contents == queue \in [Queues -> QueueRecords] /\ \A q \in Queues : GoodQueue(queue[q], Seen)
Work     == drain \in [Queues -> Drains] /\ \A q \in Queues : GoodJob(drain[q].job, Seen, origin)
Counted  == arriving \in Nat /\ arriving <= Cardinality(Unseen)

\* There is room for a queue object when the key has none.
Room == table = None => \E q \in Queues : drain[q] = Idle

\* The run that is active is that of a drain which waits for it.
Running == \A q \in Queues : active = q => drain[q].pc = "run"

Kept == Kinds /\ Contents /\ Work /\ Counted /\ Room /\ Running /\ PendingIsReachable

LEMMA Numbers ==
    /\ Cap \in Nat /\ Cap > 0 /\ N \in Nat /\ MaxFailures \in Nat
    /\ None = 0 /\ Turn \notin Queues /\ Turn # None
    /\ \A q \in Queues : q \in Nat /\ q # None
  BY MessageAssumption, SettingsAssumption, QueuesAssumption, BoundsAssumption DEF None, Turn

LEMMA UnseenFinite ==
    /\ Unseen \subseteq Message /\ IsFiniteSet(Unseen) /\ Cardinality(Unseen) \in 0..N
    /\ \A m \in Message : m \in Unseen <=> fate[m] = "new"
<1>1. Unseen \in SUBSET Message /\ \A m \in Message : m \in Unseen <=> fate[m] = "new"
  BY DEF Unseen
<1>2. IsFiniteSet(Message) /\ Cardinality(Message) = N
  BY Numbers, FS_Interval DEF Message
<1>3. IsFiniteSet(Unseen) /\ Cardinality(Unseen) <= N
  BY <1>1, <1>2, FS_Subset
<1>4. QED
  BY <1>1, <1>3, FS_CardinalityType, Numbers

\* More seen is no harm.
LEMMA SeenGrows ==
    ASSUME NEW F, NEW G, F \subseteq G
    PROVE  /\ \A r : GoodQueue(r, F) => GoodQueue(r, G)
           /\ \A j, o : GoodJob(j, F, o) => GoodJob(j, G, o)
  BY DEF GoodQueue, GoodJob, GoodBatch

LEMMA NoJobGood ==
    /\ NoJob \in Jobs /\ Idle \in Drains
    /\ \A F, o : GoodJob(NoJob, F, o)
<1>1. NoJob \in Jobs
  BY EmptySeq DEF NoJob, Jobs
<1>2. Idle \in Drains
  BY <1>1 DEF Idle, Drains
<1>3. NoJob.batch = <<>> /\ NoJob.rest = <<>> /\ Range(<<>>) = {} /\ <<>> \in Seq(Message)
  BY EmptySeq DEF NoJob, Range
<1>4. QED
  BY <1>1, <1>2, <1>3 DEF GoodJob, GoodBatch, Alike

\* beginQueueDrain starts an idle drain, and no other is touched.
LEMMA ScheduledKeeps ==
    ASSUME NEW d \in [Queues -> Drains], NEW t \in Queues \cup {None}
    PROVE  /\ Scheduled(t, d) \in [Queues -> Drains]
           /\ \A q \in Queues : q # t \/ d[q].pc # "idle" => Scheduled(t, d)[q] = d[q]
           /\ t \in Queues => Scheduled(t, d)[t].pc # "idle"
           /\ \A q \in Queues : Scheduled(t, d)[q].job \in {d[q].job, NoJob}
<1> DEFINE begun == [Idle EXCEPT !.pc = "loop"]
<1>1. begun \in Drains /\ begun.pc = "loop" /\ begun.job = NoJob
  BY NoJobGood DEF Idle, Drains
<1>2. t \in Queues => t # None
  BY Numbers
<1>3. Scheduled(t, d) = IF t # None /\ d[t].pc = "idle" THEN [d EXCEPT ![t] = begun] ELSE d
  BY DEF Scheduled
<1> HIDE DEF begun
<1>4. QED
  BY <1>1, <1>2, <1>3

\* The seen messages do not change with what leaves the fates alone.
LEMMA SameFates ==
    ASSUME UNCHANGED fate
    PROVE  Seen' = Seen /\ Unseen' = Unseen
  BY DEF Seen, Unseen

-----------------------------------------------------------------------------
(* What callers and drains do to a queue object.                           *)

LEMMA EmptyGood ==
    /\ \A F : GoodQueue(Garbage, F) /\ Garbage.items = <<>>
    /\ \A s \in Setting : \A F : GoodQueue(EmptyQueue(s), F) /\ EmptyQueue(s).items = <<>>
<1>1. <<>> \in Seq(Message) /\ Len(<<>>) = 0 /\ Range(<<>>) = {}
  BY EmptySeq DEF Range
<1>2. \A s \in Setting : EmptyQueue(s) \in QueueRecords /\ EmptyQueue(s).items = <<>>
  BY <1>1 DEF EmptyQueue, QueueRecords, Setting
<1>3. \A s \in Setting : \A F : GoodQueue(EmptyQueue(s), F)
  BY <1>1, <1>2, Numbers DEF GoodQueue
<1>4. [mode |-> "followup", policy |-> "new"] \in Setting
  BY DEF Setting
<1>5. QED
  BY <1>2, <1>3, <1>4 DEF Garbage

\* applyQueueDropPolicy makes room for one message.
LEMMA RoomMade ==
    ASSUME NEW F, NEW r, GoodQueue(r, F)
    PROVE  /\ MakeRoom(r) \in QueueRecords
           /\ Len(MakeRoom(r).items) < Cap
           /\ Range(MakeRoom(r).items) \subseteq Range(r.items)
           /\ Range(Excess(r)) \subseteq Range(r.items)
           /\ \E n \in Nat : MakeRoom(r).items = Remaining(r.items, n)
           /\ Len(r.items) < Cap => MakeRoom(r).items = r.items /\ Range(Excess(r)) = {}
<1>1. r.items \in Seq(Message) /\ Len(r.items) \in Nat /\ Len(r.items) <= Cap /\ r \in QueueRecords
  BY DEF GoodQueue, QueueRecords
<1>2. /\ Excess(r) \in Seq(Message)
      /\ Len(Excess(r)) = IF Len(r.items) < Cap THEN 0 ELSE Len(r.items) - Cap + 1
      /\ \A i \in 1..Len(Excess(r)) : Excess(r)[i] = r.items[i]
  <2>1. CASE Len(r.items) < Cap
    BY <2>1, EmptySeq DEF Excess
  <2>2. CASE ~(Len(r.items) < Cap)
    <3>1. \A i \in 1..Len(r.items) - Cap + 1 : r.items[i] \in Message
      BY <1>1, Numbers
    <3>2. 1 <= Len(r.items) - Cap + 1 /\ Len(r.items) - Cap + 1 \in Int
      BY <1>1, <2>2, Numbers
    <3>3. Excess(r) = SubSeq(r.items, 1, Len(r.items) - Cap + 1)
      BY <2>2 DEF Excess
    <3>4. QED
      BY <1>1, <2>2, <3>1, <3>2, <3>3, SubSeqProperties, Numbers
  <2>3. QED
    BY <2>1, <2>2
<1> DEFINE n == Len(Excess(r))
           left == SubSeq(r.items, n + 1, Len(r.items))
           lines == r.lines \o Excess(r)
           from == IF Len(lines) > Cap THEN Len(lines) - Cap + 1 ELSE 1
           kept == [r EXCEPT !.items = left]
<1>3. n \in Nat /\ n <= Len(r.items) /\ Len(r.items) - n < Cap
  <2> DEFINE w == Len(r.items)
  <2>1. w \in Nat /\ w <= Cap /\ n = IF w < Cap THEN 0 ELSE w - Cap + 1
    BY <1>1, <1>2
  <2> HIDE DEF w, n
  <2>2. n \in Nat /\ n <= w /\ w - n < Cap
    BY <2>1, Numbers
  <2>3. QED
    BY <2>2 DEF w
<1>4. /\ left \in Seq(Message) /\ Len(left) = Len(r.items) - n
      /\ \A i \in 1..Len(r.items) - n : left[i] = r.items[n + i]
  <2>1. \A i \in n + 1..Len(r.items) : r.items[i] \in Message
    BY <1>1, <1>3
  <2>2. QED
    BY <1>1, <1>3, <2>1, SubSeqProperties
<1>5. Range(left) \subseteq Range(r.items) /\ Range(Excess(r)) \subseteq Range(r.items)
  <2>1. \A i \in 1..Len(left) : left[i] \in Range(r.items)
    BY <1>1, <1>3, <1>4, SeqRange
  <2>2. \A i \in 1..Len(Excess(r)) : Excess(r)[i] \in Range(r.items)
    BY <1>1, <1>2, <1>3, SeqRange
  <2>3. Range(left) = {left[i] : i \in 1..Len(left)}
    BY <1>4, SeqRange
  <2>4. Range(Excess(r)) = {Excess(r)[i] : i \in 1..Len(Excess(r))}
    BY <1>2, SeqRange
  <2>5. QED
    BY <2>1, <2>2, <2>3, <2>4
<1>6. lines \in Seq(Message) /\ SubSeq(lines, from, Len(lines)) \in Seq(Message)
  <2>1. r.lines \in Seq(Message)
    BY <1>1 DEF QueueRecords
  <2>2. lines \in Seq(Message) /\ Len(lines) \in Nat
    BY <1>2, <2>1, ConcatProperties
  <2>3. from \in Nat /\ from >= 1
    BY <2>2, Numbers
  <2>4. \A i \in from..Len(lines) : lines[i] \in Message
    BY <2>2, <2>3
  <2>5. QED
    BY <2>2, <2>3, <2>4, SubSeqProperties
<1>7. /\ MakeRoom(r) = IF r.policy # "summarize" \/ Excess(r) = <<>> THEN kept
                       ELSE [kept EXCEPT !.dropped = @ + n, !.lines = SubSeq(lines, from, Len(lines))]
  <2>1. kept.lines = r.lines
    BY <1>1 DEF QueueRecords
  <2>2. QED
    BY <2>1 DEF MakeRoom
<1>11. left = Remaining(r.items, n)
  BY DEF Remaining
<1>12. Len(r.items) < Cap => left = r.items /\ Range(Excess(r)) = {}
  <2>1. ASSUME Len(r.items) < Cap PROVE left = r.items /\ Range(Excess(r)) = {}
    <3>1. n = 0
      BY <1>2, <2>1
    <3>2. left = SubSeq(r.items, 1, Len(r.items))
      BY <3>1
    <3>3. left = r.items
      BY <1>1, <3>2, SubSeqFull
    <3>4. Excess(r) = <<>>
      BY <2>1 DEF Excess
    <3>5. QED
      BY <3>3, <3>4 DEF Range
  <2>2. QED
    BY <2>1
<1> HIDE DEF n, left, lines, from
<1>8. kept \in QueueRecords /\ kept.items = left /\ kept.dropped + n \in Nat
  <2>1. left \in Seq(Message) /\ n \in Nat /\ r \in QueueRecords
    BY <1>1, <1>3, <1>4
  <2>2. kept \in QueueRecords /\ kept.items = left
    BY <2>1 DEF QueueRecords
  <2>3. kept.dropped \in Nat
    BY <2>2 DEF QueueRecords
  <2>4. QED
    BY <2>1, <2>2, <2>3
<1> HIDE DEF kept
<1>9. MakeRoom(r) \in QueueRecords /\ MakeRoom(r).items = left
  BY <1>6, <1>7, <1>8 DEF QueueRecords
<1>10. QED
  BY <1>1, <1>3, <1>4, <1>5, <1>9, <1>11, <1>12

LEMMA RoomTaken ==
    ASSUME NEW F, NEW G, F \subseteq G, NEW r, GoodQueue(r, F), NEW m \in Message, m \in G
    PROVE  GoodQueue([MakeRoom(r) EXCEPT !.items = Append(@, m)], G)
<1> DEFINE k == MakeRoom(r)
<1>1. /\ k \in QueueRecords /\ Len(k.items) < Cap /\ Range(k.items) \subseteq G
  BY RoomMade DEF GoodQueue
<1>2. k.items \in Seq(Message)
  BY <1>1 DEF QueueRecords
<1> HIDE DEF k
<1>3. /\ Append(k.items, m) \in Seq(Message) /\ Len(Append(k.items, m)) = Len(k.items) + 1
      /\ Range(Append(k.items, m)) \subseteq G
  <2>1. /\ Append(k.items, m) \in Seq(Message) /\ Len(Append(k.items, m)) = Len(k.items) + 1
        /\ \A i \in 1..Len(k.items) : Append(k.items, m)[i] = k.items[i]
        /\ Append(k.items, m)[Len(k.items) + 1] = m
    BY <1>2, AppendProperties
  <2>2. \A i \in 1..Len(k.items) + 1 : i \in 1..Len(k.items) \/ i = Len(k.items) + 1
    BY <1>2
  <2>3. \A i \in 1..Len(k.items) + 1 : Append(k.items, m)[i] \in G
    BY <1>1, <1>2, <2>1, <2>2, SeqRange
  <2>4. Range(Append(k.items, m)) = {Append(k.items, m)[i] : i \in 1..Len(Append(k.items, m))}
    BY <2>1, SeqRange
  <2>5. QED
    BY <2>1, <2>3, <2>4
<1>4. [k EXCEPT !.items = Append(@, m)] \in QueueRecords
      /\ [k EXCEPT !.items = Append(@, m)].items = Append(k.items, m)
  BY <1>1, <1>3 DEF QueueRecords
<1>5. Len(k.items) + 1 <= Cap
  BY <1>1, <1>2, Numbers
<1>6. QED
  BY <1>3, <1>4, <1>5 DEF GoodQueue, k

\* The way out of the loop.
LEMMA ExitKeeps ==
    ASSUME Kept, NEW q \in Queues, NEW r, GoodQueue(r, Seen), r.items # <<>> => table = q,
           active' \in {active, None}, active' # q,
           Exit(q, r), UNCHANGED <<origin, fate>>
    PROVE  /\ Contents' /\ Work' /\ Room' /\ Running' /\ PendingIsReachable'
           /\ table' \in Queues \cup {None}
<1> DEFINE stopped == [drain EXCEPT ![q] = Idle]
<1>1. /\ Seen' = Seen /\ table \in Queues \cup {None}
      /\ queue \in [Queues -> QueueRecords] /\ drain \in [Queues -> Drains]
  BY SameFates DEF Kept, Kinds, Contents, Work
<1>2. table' = IF ~Pending(r) /\ table = q THEN None ELSE table
  BY DEF Exit
<1>3. drain' = IF Pending(r) THEN Scheduled(table, stopped) ELSE stopped
  BY DEF Exit
<1>4. queue' = [queue EXCEPT ![q] = IF table' = q THEN r ELSE Garbage]
  BY DEF Exit
<1>5. stopped \in [Queues -> Drains] /\ stopped[q] = Idle /\ \A p \in Queues \ {q} : stopped[p] = drain[p]
  BY <1>1, NoJobGood
<1> HIDE DEF stopped
<1>6. Contents'
  <2>1. GoodQueue(r, Seen) /\ GoodQueue(Garbage, Seen)
    BY EmptyGood
  <2>2. queue' \in [Queues -> QueueRecords]
    BY <1>1, <1>4, <2>1 DEF GoodQueue
  <2>3. \A p \in Queues : GoodQueue(queue'[p], Seen)
    BY <1>1, <1>4, <2>1 DEF Kept, Contents
  <2>4. QED
    BY <1>1, <2>2, <2>3 DEF Contents
<1>7. Work'
  <2>1. drain' \in [Queues -> Drains] /\ \A p \in Queues : drain'[p].job \in {stopped[p].job, NoJob}
    BY <1>1, <1>3, <1>5, ScheduledKeeps
  <2>2. \A p \in Queues : stopped[p].job \in {drain[p].job, NoJob}
    BY <1>5 DEF Idle
  <2>3. \A p \in Queues : GoodJob(drain'[p].job, Seen, origin)
    BY <2>1, <2>2, NoJobGood DEF Kept, Work
  <2>4. QED
    BY <1>1, <2>1, <2>3 DEF Work
<1>8. Room'
  <2>1. ASSUME table' = None PROVE drain'[q] = Idle
    <3>1. CASE Pending(r)
      <4>1. table = None /\ q # None
        BY <1>2, <2>1, <3>1, Numbers
      <4>2. QED
        BY <1>1, <1>3, <1>5, <3>1, <4>1, ScheduledKeeps
    <3>2. QED
      BY <1>3, <1>5, <3>1
  <2>2. QED
    BY <2>1 DEF Room
<1>9. PendingIsReachable'
  <2>1. ASSUME NEW p \in Queues, queue'[p].items # <<>> PROVE table' = p
    <3>1. CASE p = q
      BY <1>1, <1>4, <2>1, <3>1, EmptyGood
    <3>2. CASE p # q
      <4>1. queue[p].items # <<>>
        BY <1>1, <1>4, <2>1, <3>2
      <4>2. table = p
        BY <4>1 DEF Kept, PendingIsReachable
      <4>3. QED
        BY <1>2, <3>2, <4>2
    <3>3. QED
      BY <3>1, <3>2
  <2>2. QED
    BY <2>1 DEF PendingIsReachable
<1>10. table' \in Queues \cup {None}
  BY <1>1, <1>2
<1>11. Running'
  <2>1. ASSUME NEW p \in Queues, active' = p PROVE drain'[p].pc = "run"
    <3>1. p # q /\ active = p
      BY <2>1, Numbers
    <3>2. stopped[p] = drain[p] /\ drain[p].pc = "run"
      BY <1>5, <3>1 DEF Kept, Running
    <3>3. QED
      BY <1>1, <1>3, <1>5, <3>2, ScheduledKeeps
  <2>2. QED
    BY <2>1 DEF Running
<1>12. QED
  BY <1>6, <1>7, <1>8, <1>9, <1>10, <1>11

\* A step that leaves the objects alone.
LEMMA SameQueues ==
    ASSUME Kept, UNCHANGED <<queue, table>>, Seen' = Seen
    PROVE  Contents' /\ PendingIsReachable'
  BY DEF Kept, Contents, PendingIsReachable

\* One that gives an object other contents, and has none from nothing.
LEMMA ItemsKeep ==
    ASSUME Kept, NEW q \in Queues, NEW r, GoodQueue(r, Seen), r.items # <<>> => queue[q].items # <<>>,
           queue' = [queue EXCEPT ![q] = r], UNCHANGED table, Seen' = Seen
    PROVE  Contents' /\ PendingIsReachable'
<1>1. queue \in [Queues -> QueueRecords] /\ r \in QueueRecords
  BY DEF Kept, Contents, GoodQueue
<1>2. Contents'
  BY <1>1 DEF Kept, Contents
<1>3. PendingIsReachable'
  BY <1>1 DEF Kept, PendingIsReachable
<1>4. QED
  BY <1>2, <1>3

\* One in which drain q, which is under way, goes on with d.
LEMMA JobKeeps ==
    ASSUME Kept, NEW q \in Queues, NEW d \in Drains, drain[q].pc # "idle",
           GoodJob(d.job, Seen, origin), drain' = [drain EXCEPT ![q] = d],
           active' \in {active, None, q}, active' = q => d.pc = "run",
           UNCHANGED <<origin, table>>, Seen' = Seen
    PROVE  Work' /\ Room' /\ Running'
<1>1. drain \in [Queues -> Drains] /\ drain[q] # Idle
  BY DEF Kept, Work, Idle
<1>2. Work'
  BY <1>1 DEF Kept, Work
<1>3. Room'
  BY <1>1 DEF Kept, Room
<1>4. Running'
  BY <1>1, Numbers DEF Kept, Running
<1>5. QED
  BY <1>2, <1>3, <1>4

\* One in which a caller schedules a drain, or none.
LEMMA CallKeeps ==
    ASSUME Kept, drain' \in {drain, Scheduled(table', drain)},
           table' \in Queues \cup {table}, active' \in {active, None, Turn},
           Seen \subseteq Seen', UNCHANGED origin
    PROVE  Work' /\ Room' /\ Running'
<1>1. drain \in [Queues -> Drains] /\ table' \in Queues \cup {None}
  BY DEF Kept, Kinds, Work
<1>2. /\ drain' \in [Queues -> Drains]
      /\ \A q \in Queues : drain'[q].job \in {drain[q].job, NoJob}
      /\ \A q \in Queues : q # table' \/ drain[q].pc # "idle" => drain'[q] = drain[q]
  BY <1>1, ScheduledKeeps
<1>3. Work'
  BY <1>1, <1>2, NoJobGood, SeenGrows DEF Kept, Work
<1>4. Room'
  <2>1. ASSUME table' = None PROVE \E q \in Queues : drain'[q] = Idle
    <3>1. table = None
      BY <2>1, Numbers
    <3>2. PICK q \in Queues : drain[q] = Idle
      BY <3>1 DEF Kept, Room
    <3>3. QED
      BY <1>2, <2>1, <3>2, Numbers
  <2>2. QED
    BY <2>1 DEF Room
<1>5. Running'
  BY <1>2, Numbers DEF Kept, Running
<1>6. QED
  BY <1>3, <1>4, <1>5

\* The fates of messages that were seen may change; the others' do not.
LEMMA SeenStays ==
    ASSUME Kept, fate' \in [Message -> Fates],
           \A m \in Message : fate'[m] = "new" <=> fate[m] = "new"
    PROVE  Seen' = Seen /\ Unseen' = Unseen /\ (arriving' = arriving => Counted')
<1>1. Unseen' = Unseen
  BY DEF Unseen
<1>2. Seen' = Seen
  BY <1>1 DEF Seen
<1>3. arriving' = arriving => Counted'
  BY <1>1 DEF Kept, Counted
<1>4. QED
  BY <1>1, <1>2, <1>3

-----------------------------------------------------------------------------
(* The callers' steps.                                                     *)

LEMMA TurnsKeep ==
    ASSUME Kept, BeginTurn \/ EndTurn \/ Arrive \/ \E m \in Message : Abort(m)
    PROVE  Kept'
<1>1. /\ UNCHANGED <<origin, table, queue, fate, answers, failures>>
      /\ drain' \in {drain, Scheduled(table', drain)}
      /\ active' \in {active, None, Turn}
  BY DEF BeginTurn, EndTurn, Arrive, Abort, queues, history, signals
<1>2. Seen' = Seen /\ Unseen' = Unseen
  BY <1>1, SameFates
<1>3. Contents' /\ PendingIsReachable'
  BY <1>1, <1>2, SameQueues
<1>4. Work' /\ Room' /\ Running'
  BY <1>1, <1>2, CallKeeps
<1>5. arriving' \in {arriving} \cup {n \in {arriving + 1} : arriving < Cardinality(Unseen)}
  BY DEF BeginTurn, EndTurn, Arrive, Abort
<1>6. Counted'
  <2>1. arriving \in Nat /\ arriving <= Cardinality(Unseen) /\ Cardinality(Unseen) \in Nat
    BY UnseenFinite, Numbers DEF Kept, Counted
  <2>2. arriving' \in Nat /\ arriving' <= Cardinality(Unseen)
    BY <1>5, <2>1
  <2>3. QED
    BY <1>2, <2>2 DEF Counted
<1>7. aborted' \subseteq Message
  BY DEF Kept, Kinds, BeginTurn, EndTurn, Arrive, Abort, signals
<1>8. Kinds'
  BY <1>1, <1>7 DEF Kept, Kinds
<1>9. QED
  BY <1>3, <1>4, <1>6, <1>8 DEF Kept

\* The next message to be enqueued has not been seen before.
LEMMA NextUnseen ==
    ASSUME Kept, arriving > 0
    PROVE  NextMessage \in Unseen
<1>1. Unseen # {}
  <2>1. arriving \in Nat /\ arriving <= Cardinality(Unseen)
    BY DEF Kept, Counted
  <2>2. QED
    BY <2>1, FS_EmptySet
<1>2. Unseen \in SUBSET Nat
  BY UnseenFinite, Numbers DEF Message
<1>3. Min(Unseen) \in Unseen /\ \A n \in Unseen : Min(Unseen) <= n
  BY <1>1, <1>2, Least, UnseenFinite
<1>4. QED
  BY <1>3 DEF NextMessage

\* With it the unseen are one less.
LEMMA OneLess ==
    ASSUME Kept, arriving > 0, arriving' = arriving - 1, Unseen' = Unseen \ {NextMessage}
    PROVE  Counted' /\ Seen \subseteq Seen' /\ NextMessage \in Seen' /\ NextMessage \in Message
<1>1. NextMessage \in Unseen
  BY NextUnseen
<1>2. IsFiniteSet(Unseen) /\ Cardinality(Unseen) \in Nat /\ Unseen \subseteq Message
  BY UnseenFinite, Numbers
<1>3. Cardinality(Unseen') = Cardinality(Unseen) - 1
  BY <1>1, <1>2, FS_RemoveElement
<1>4. Counted'
  <2>1. arriving \in Nat /\ arriving <= Cardinality(Unseen)
    BY DEF Kept, Counted
  <2>2. arriving' \in Nat /\ arriving' <= Cardinality(Unseen')
    BY <1>2, <1>3, <2>1
  <2>3. QED
    BY <2>2 DEF Counted
<1>5. QED
  BY <1>1, <1>2, <1>4 DEF Seen

LEMMA EnqueueKeeps ==
    ASSUME Kept, NEW s \in Settings, Enqueue(s)
    PROVE  Kept'
<1> DEFINE m == NextMessage
           q == IF table = None THEN Fresh ELSE table
           old == IF table = None THEN EmptyQueue(s)
                  ELSE [queue[table] EXCEPT !.mode = s.mode, !.policy = s.policy]
           out == IF old.policy = "summarize" THEN "summarized" ELSE "dropped"
           grown == [MakeRoom(old) EXCEPT !.items = Append(@, m)]
           scheduled(t) == IF active = None THEN Scheduled(t, drain) ELSE drain
<1>1. /\ arriving > 0 /\ arriving' = arriving - 1
      /\ UNCHANGED <<origin, aborted, active, answers, failures>>
  BY DEF Enqueue, signals
<1>2. m \in Unseen /\ m \in Message /\ fate[m] = "new"
  BY <1>1, NextUnseen, UnseenFinite
<1>3. /\ queue \in [Queues -> QueueRecords] /\ fate \in [Message -> Fates]
      /\ table \in Queues \cup {None} /\ s \in Setting
  BY SettingsAssumption DEF Kept, Contents, Kinds
<1>4. q \in Queues
  <2>1. CASE table = None
    <3>1. \E p \in Queues \ {table} : drain[p] = Idle
      BY <2>1, Numbers DEF Kept, Room
    <3>2. QED
      BY <2>1, <3>1 DEF Fresh
  <2>2. QED
    BY <1>3, <2>1
<1>5. GoodQueue(old, Seen) /\ (old.items # <<>> => table = q /\ queue[q].items # <<>>)
  <2>1. CASE table = None
    BY <1>3, <2>1, EmptyGood
  <2>2. CASE table # None
    <3>1. table \in Queues /\ GoodQueue(queue[table], Seen)
      BY <1>3, <2>2 DEF Kept, Contents
    <3>2. old = [queue[table] EXCEPT !.mode = s.mode, !.policy = s.policy]
      BY <2>2
    <3>3. old \in QueueRecords /\ old.items = queue[table].items
      BY <1>3, <3>1, <3>2 DEF QueueRecords, Setting
    <3>4. QED
      BY <2>2, <3>1, <3>3 DEF GoodQueue
  <2>3. QED
    BY <2>1, <2>2
<1> HIDE DEF m, q, old
<1>6. Range(Excess(old)) \subseteq Seen
  BY <1>5, RoomMade DEF GoodQueue
<1>7. \/ /\ fate' = [fate EXCEPT ![m] = "aborted"]
         /\ drain' = scheduled(table)
         /\ UNCHANGED <<table, queue>>
      \/ /\ queue' = [queue EXCEPT ![q] = old]
         /\ table' = q
         /\ fate' = [fate EXCEPT ![m] = "refused"]
         /\ drain' = scheduled(q)
      \/ /\ queue' = [queue EXCEPT ![q] = grown]
         /\ table' = q
         /\ fate' = [n \in Message |-> IF n = m THEN "queued"
                                       ELSE IF n \in Range(Excess(old)) THEN out ELSE fate[n]]
         /\ drain' = scheduled(q)
  BY DEF Enqueue, m, q, old
<1>8. /\ fate' \in [Message -> Fates] /\ fate'[m] # "new"
      /\ \A n \in Message \ {m} : fate'[n] = "new" <=> fate[n] = "new"
  <2>1. out \in Fates /\ out # "new" /\ {"aborted", "refused", "queued"} \subseteq Fates
    BY DEF Fates
  <2>2. \A n \in Range(Excess(old)) : fate[n] # "new"
    BY <1>6 DEF Seen, Unseen
  <2> HIDE DEF out
  <2>3. QED
    BY <1>2, <1>3, <1>7, <2>1, <2>2
<1>9. Unseen' = Unseen \ {m}
  BY <1>2, <1>8 DEF Unseen
<1>10. Counted' /\ Seen \subseteq Seen' /\ m \in Seen'
  BY <1>1, <1>9, OneLess DEF m
<1>11. table' \in Queues \cup {table} /\ drain' \in {drain, Scheduled(table', drain)}
  BY <1>4, <1>7
<1>12. Work' /\ Room' /\ Running'
  BY <1>1, <1>10, <1>11, CallKeeps
<1>13. \A p \in Queues : GoodQueue(queue[p], Seen')
  <2>1. \A p \in Queues : GoodQueue(queue[p], Seen)
    BY DEF Kept, Contents
  <2>2. QED
    BY <1>10, <2>1, SeenGrows
<1>14. GoodQueue(old, Seen') /\ GoodQueue(grown, Seen')
  BY <1>2, <1>5, <1>10, SeenGrows, RoomTaken
<1>15. Contents'
  <2>1. old \in QueueRecords /\ grown \in QueueRecords
    BY <1>14 DEF GoodQueue
  <2>2. queue' \in [Queues -> QueueRecords] /\ \A p \in Queues : queue'[p] \in {queue[p], old, grown}
    BY <1>3, <1>4, <1>7, <2>1
  <2>3. \A p \in Queues : GoodQueue(queue'[p], Seen')
    BY <1>13, <1>14, <2>2
  <2>4. QED
    BY <2>2, <2>3 DEF Contents
<1>16. PendingIsReachable'
  <2>1. ASSUME NEW p \in Queues, queue'[p].items # <<>> PROVE table' = p
    <3>1. CASE UNCHANGED <<table, queue>>
      BY <2>1, <3>1 DEF Kept, PendingIsReachable
    <3>2. CASE ~UNCHANGED <<table, queue>> /\ p = q
      BY <1>7, <3>2
    <3>3. CASE ~UNCHANGED <<table, queue>> /\ p # q
      <4>1. queue'[p] = queue[p]
        BY <1>3, <1>4, <1>7, <3>3
      <4>2. table = p
        BY <2>1, <4>1 DEF Kept, PendingIsReachable
      <4>3. p # None /\ q = table
        BY <4>2, Numbers DEF q
      <4>4. QED
        BY <3>3, <4>2, <4>3
    <3>4. QED
      BY <3>1, <3>2, <3>3
  <2>2. QED
    BY <2>1 DEF PendingIsReachable
<1>17. Kinds'
  BY <1>1, <1>3, <1>8, <1>11 DEF Kept, Kinds
<1>18. QED
  BY <1>10, <1>12, <1>15, <1>16, <1>17 DEF Kept

LEMMA ClearKeeps ==
    ASSUME Kept, Clear
    PROVE  Kept'
<1>1. /\ table \in Queues /\ table' = None
      /\ queue \in [Queues -> QueueRecords] /\ fate \in [Message -> Fates]
      /\ UNCHANGED <<origin, aborted, drain, active, arriving, answers, failures>>
  BY DEF Kept, Kinds, Contents, Clear, signals
<1> DEFINE left == IF drain[table] = Idle THEN Garbage ELSE Emptied(queue[table])
<1>2. GoodQueue(left, Seen) /\ left.items = <<>>
  <2>1. <<>> \in Seq(Message) /\ Len(<<>>) = 0 /\ Range(<<>>) = {}
    BY EmptySeq DEF Range
  <2>2. Emptied(queue[table]) \in QueueRecords /\ Emptied(queue[table]).items = <<>>
    BY <1>1, <2>1 DEF Emptied, QueueRecords
  <2>3. GoodQueue(Emptied(queue[table]), Seen)
    BY <2>1, <2>2, Numbers DEF GoodQueue
  <2>4. QED
    BY <2>2, <2>3, EmptyGood
<1>3. queue' = [queue EXCEPT ![table] = left]
  BY <1>1 DEF Clear
<1> HIDE DEF left
<1>4. /\ fate' \in [Message -> Fates]
      /\ \A m \in Message : fate'[m] = "new" <=> fate[m] = "new"
  <2>1. fate' = [m \in Message |-> IF m \in Range(queue[table].items) THEN "cleared" ELSE fate[m]]
    BY DEF Clear
  <2>2. \A m \in Range(queue[table].items) : fate[m] # "new"
    BY <1>1 DEF Kept, Contents, GoodQueue, Seen, Unseen
  <2>3. "cleared" \in Fates
    BY DEF Fates
  <2>4. QED
    BY <1>1, <2>1, <2>2, <2>3
<1>5. Seen' = Seen /\ Counted'
  BY <1>1, <1>4, SeenStays
<1>6. Contents'
  BY <1>1, <1>2, <1>3, <1>5 DEF Kept, Contents, GoodQueue
<1>7. PendingIsReachable'
  <2>1. ASSUME NEW p \in Queues, queue'[p].items # <<>> PROVE FALSE
    <3>1. p # table /\ queue[p].items # <<>>
      BY <1>1, <1>2, <1>3, <2>1
    <3>2. QED
      BY <3>1 DEF Kept, PendingIsReachable
  <2>2. QED
    BY <2>1 DEF PendingIsReachable
<1>8. Room'
  BY <1>1 DEF Clear, Room
<1>9. Work' /\ Running'
  BY <1>1, <1>5 DEF Kept, Work, Running
<1>10. Kinds'
  BY <1>1, <1>4 DEF Kept, Kinds
<1>11. QED
  BY <1>5, <1>6, <1>7, <1>8, <1>9, <1>10 DEF Kept

-----------------------------------------------------------------------------
(* The drain's steps.                                                      *)

LEMMA FirstAndRest ==
    ASSUME NEW T, NEW s \in Seq(T), s # <<>>
    PROVE  Head(s) \in Range(s) /\ Head(s) \in T /\ Tail(s) \in Seq(T) /\ Range(Tail(s)) \subseteq Range(s)
<1>1. Len(s) \in Nat /\ Len(s) >= 1 /\ DOMAIN s = 1..Len(s) /\ Head(s) = s[1]
  OBVIOUS
<1>2. /\ Head(s) \in T /\ Tail(s) \in Seq(T) /\ Len(Tail(s)) = Len(s) - 1
      /\ \A i \in 1..Len(Tail(s)) : Tail(s)[i] = s[i + 1]
  BY HeadTailProperties
<1>3. \A i \in 1..Len(Tail(s)) : i + 1 \in 1..Len(s)
  BY <1>1, <1>2
<1>4. DOMAIN Tail(s) = 1..Len(Tail(s))
  BY <1>2
<1>5. Range(Tail(s)) \subseteq Range(s)
  BY <1>1, <1>2, <1>3, <1>4 DEF Range
<1>6. Head(s) \in Range(s)
  BY <1>1 DEF Range
<1>7. QED
  BY <1>2, <1>5, <1>6

\* A part of a queue's items.
LEMMA Part ==
    ASSUME NEW items \in Seq(Message), NEW a \in Int, NEW b \in Int, 1 <= a, b <= Len(items)
    PROVE  /\ SubSeq(items, a, b) \in Seq(Message)
           /\ Len(SubSeq(items, a, b)) = IF a <= b THEN b - a + 1 ELSE 0
           /\ Range(SubSeq(items, a, b)) \subseteq Range(items)
<1>1. \A i \in a..b : i \in 1..Len(items) /\ items[i] \in Message /\ items[i] \in Range(items)
  BY SeqRange
<1>2. /\ SubSeq(items, a, b) \in Seq(Message)
      /\ Len(SubSeq(items, a, b)) = IF a <= b THEN b - a + 1 ELSE 0
  BY <1>1, SubSeqProperties
<1>3. SubSeq(items, a, b) \in Seq(Range(items))
  BY <1>1, SubSeqProperties
<1>4. \A i \in 1..Len(SubSeq(items, a, b)) : SubSeq(items, a, b)[i] \in Range(items)
  BY <1>3
<1>5. Range(SubSeq(items, a, b)) = {SubSeq(items, a, b)[i] : i \in 1..Len(SubSeq(items, a, b))}
  BY <1>2, SeqRange
<1>6. QED
  BY <1>2, <1>4, <1>5

\* What the removal of what ran, or of one aborted item, leaves.
LEMMA LessLeft ==
    ASSUME NEW items \in Seq(Message), NEW left,
           \/ \E n \in Nat : left = Remaining(items, n)
           \/ \E i \in 1..Len(items) : left = RemoveAt(items, i)
    PROVE  /\ left \in Seq(Message) /\ Len(left) <= Len(items)
           /\ Range(left) \subseteq Range(items) /\ (left # <<>> => items # <<>>)
<1>1. Len(items) \in Nat
  OBVIOUS
<1>2. left \in Seq(Message) /\ Len(left) <= Len(items) /\ Range(left) \subseteq Range(items)
  <2>1. ASSUME NEW n \in Nat, left = Remaining(items, n)
        PROVE  left \in Seq(Message) /\ Len(left) <= Len(items) /\ Range(left) \subseteq Range(items)
    <3>1. left = SubSeq(items, n + 1, Len(items)) /\ n + 1 \in Int /\ 1 <= n + 1
      BY <2>1 DEF Remaining
    <3>2. /\ left \in Seq(Message) /\ Range(left) \subseteq Range(items)
          /\ Len(left) = IF n + 1 <= Len(items) THEN Len(items) - (n + 1) + 1 ELSE 0
      BY <1>1, <3>1, Part
    <3>3. QED
      BY <1>1, <3>2
  <2>2. ASSUME NEW i \in 1..Len(items), left = RemoveAt(items, i)
        PROVE  left \in Seq(Message) /\ Len(left) <= Len(items) /\ Range(left) \subseteq Range(items)
    <3> DEFINE before == SubSeq(items, 1, i - 1)
               after == SubSeq(items, i + 1, Len(items))
    <3>1. i \in Nat /\ 1 <= i /\ i <= Len(items)
      BY <1>1
    <3>2. /\ before \in Seq(Message) /\ Range(before) \subseteq Range(items)
          /\ Len(before) = IF 1 <= i - 1 THEN i - 1 - 1 + 1 ELSE 0
      BY <1>1, <3>1, Part
    <3>3. /\ after \in Seq(Message) /\ Range(after) \subseteq Range(items)
          /\ Len(after) = IF i + 1 <= Len(items) THEN Len(items) - (i + 1) + 1 ELSE 0
      BY <1>1, <3>1, Part
    <3>4. left = before \o after
      BY <2>2 DEF RemoveAt
    <3> HIDE DEF before, after
    <3>5. left \in Seq(Message) /\ Len(left) = Len(before) + Len(after)
      BY <3>2, <3>3, <3>4, ConcatProperties
    <3>6. Len(left) <= Len(items)
      <4>1. Len(before) = i - 1
        BY <3>1, <3>2
      <4>2. Len(after) = Len(items) - i
        BY <1>1, <3>1, <3>3
      <4>3. QED
        BY <1>1, <3>1, <3>5, <4>1, <4>2
    <3>7. Range(left) = Range(before) \cup Range(after)
      BY <3>2, <3>3, <3>4, RangeConcatenation
    <3>8. QED
      BY <3>2, <3>3, <3>5, <3>6, <3>7
  <2>3. QED
    BY <2>1, <2>2
<1>3. left # <<>> => items # <<>>
  BY <1>1, <1>2
<1>4. QED
  BY <1>2, <1>3

\* What is left is a good queue still, whatever becomes of its summary.
LEMMA LessGood ==
    ASSUME Kept, NEW q \in Queues, NEW r \in QueueRecords,
           \/ r.items = queue[q].items
           \/ \E n \in Nat : r.items = Remaining(queue[q].items, n)
           \/ \E i \in 1..Len(queue[q].items) : r.items = RemoveAt(queue[q].items, i)
    PROVE  GoodQueue(r, Seen) /\ (r.items # <<>> => queue[q].items # <<>>)
<1>1. queue[q] \in QueueRecords /\ GoodQueue(queue[q], Seen)
  BY DEF Kept, Contents
<1>2. queue[q].items \in Seq(Message) /\ Len(queue[q].items) \in Nat
  BY <1>1 DEF QueueRecords
<1>3. /\ r.items \in Seq(Message) /\ Len(r.items) <= Len(queue[q].items)
      /\ Range(r.items) \subseteq Range(queue[q].items) /\ (r.items # <<>> => queue[q].items # <<>>)
  BY <1>2, LessLeft
<1>4. Len(r.items) \in Nat
  BY <1>3
<1>5. GoodQueue(r, Seen)
  BY <1>1, <1>2, <1>3, <1>4, Numbers DEF GoodQueue
<1>6. QED
  BY <1>3, <1>5

\* A run is over: its items go, and the next batch comes.
LEMMA ReturnedKeeps ==
    ASSUME Kept, NEW q \in Queues, drain[q].pc # "idle", Returned(q),
           active' \in {active, None}, active' # q, UNCHANGED origin, Seen' = Seen
    PROVE  Contents' /\ Work' /\ Room' /\ Running' /\ PendingIsReachable' /\ table' = table
<1> DEFINE job == drain[q].job
           left == Remaining(queue[q].items, Len(job.batch))
           drop == IF job.count > 0 THEN 0 ELSE queue[q].dropped
           lines == IF job.count > 0 THEN <<>> ELSE queue[q].lines
           r == [queue[q] EXCEPT !.items = left, !.dropped = drop, !.lines = lines]
           next == [NoJob EXCEPT !.kind = "batch", !.batch = Head(job.rest), !.rest = Tail(job.rest)]
           d == IF job.rest = <<>> THEN [drain[q] EXCEPT !.pc = "loop", !.job = NoJob]
                ELSE [drain[q] EXCEPT !.pc = "admit", !.job = next]
<1>1. /\ queue \in [Queues -> QueueRecords] /\ drain[q] \in Drains /\ drain \in [Queues -> Drains]
      /\ GoodJob(job, Seen, origin)
  BY DEF Kept, Contents, Work
<1>2. job \in Jobs /\ Len(job.batch) \in Nat /\ job.rest \in Seq(Seq(Message))
  <2>1. job \in Jobs
    BY <1>1 DEF GoodJob
  <2>2. QED
    BY <2>1 DEF Jobs
<1>3. drop \in Nat /\ lines \in Seq(Message)
  <2>1. queue[q].dropped \in Nat /\ queue[q].lines \in Seq(Message)
    BY <1>1 DEF QueueRecords
  <2>2. QED
    BY <2>1, EmptySeq
<1>4. GoodQueue(r, Seen) /\ (r.items # <<>> => queue[q].items # <<>>)
  <2> HIDE DEF job, drop, lines
  <2>1. \E n \in Nat : left = Remaining(queue[q].items, n)
    BY <1>2
  <2> HIDE DEF left
  <2>2. /\ left \in Seq(Message)
        /\ queue[q] \in QueueRecords
    BY <1>1, <2>1, LessLeft DEF QueueRecords
  <2>3. r \in QueueRecords /\ r.items = left
    BY <1>3, <2>2 DEF QueueRecords
  <2> HIDE DEF r
  <2>4. \E n \in Nat : r.items = Remaining(queue[q].items, n)
    BY <2>1, <2>3
  <2>5. QED
    BY <2>3, <2>4, LessGood
<1>5. queue' = [queue EXCEPT ![q] = r] /\ drain' = [drain EXCEPT ![q] = d] /\ table' = table
  <2>1. /\ queue' = [queue EXCEPT ![q].items = left, ![q].dropped = drop, ![q].lines = lines]
        /\ drain' = [drain EXCEPT ![q] = d] /\ table' = table
    BY DEF Returned
  <2> HIDE DEF left, drop, lines, d
  <2>2. QED
    BY <1>1, <2>1
<1>6. Contents' /\ PendingIsReachable'
  <2> HIDE DEF r
  <2>1. QED
    BY <1>4, <1>5, ItemsKeep
<1>7. d \in Drains /\ GoodJob(d.job, Seen, origin) /\ d.pc # "run"
  <2>1. CASE job.rest = <<>>
    <3>1. d = [drain[q] EXCEPT !.pc = "loop", !.job = NoJob]
      BY <2>1
    <3>2. d \in Drains /\ d.job = NoJob /\ d.pc # "run"
      BY <1>1, <3>1, NoJobGood DEF Drains
    <3>3. QED
      BY <3>2, NoJobGood
  <2>2. CASE job.rest # <<>>
    <3>1. d = [drain[q] EXCEPT !.pc = "admit", !.job = next]
      BY <2>2
    <3>2. /\ Head(job.rest) \in Range(job.rest) /\ Head(job.rest) \in Seq(Message)
          /\ Tail(job.rest) \in Seq(Seq(Message)) /\ Range(Tail(job.rest)) \subseteq Range(job.rest)
      BY <1>2, <2>2, FirstAndRest
    <3>3. next \in Jobs /\ next.batch = Head(job.rest) /\ next.rest = Tail(job.rest)
      <4> HIDE DEF job
      <4>1. QED
        BY <3>2, EmptySeq DEF NoJob, Jobs
    <3> HIDE DEF next
    <3>4. GoodJob(next, Seen, origin)
      BY <1>1, <3>2, <3>3 DEF GoodJob
    <3>5. d \in Drains /\ d.job = next /\ d.pc # "run"
      BY <1>1, <3>1, <3>3 DEF Drains
    <3>6. QED
      BY <3>4, <3>5
  <2>3. QED
    BY <2>1, <2>2
<1> HIDE DEF d
<1>8. Work' /\ Room' /\ Running'
  BY <1>5, <1>7, JobKeeps
<1>9. QED
  BY <1>5, <1>6, <1>8

\* The branches of the loop: the chosen job waits for admission.
LEMMA ChooseKeeps ==
    ASSUME Kept, NEW q \in Queues, NEW kind \in {"item", "vehicle", "batch", "summary"},
           NEW batch, NEW rest \in Seq(Seq(Message)), NEW summary, NEW force \in BOOLEAN,
           GoodBatch(batch, Seen, origin), \A g \in Range(rest) : GoodBatch(g, Seen, origin),
           Choose(q, kind, batch, rest, summary, force)
    PROVE  Kept'
<1> DEFINE count == IF summary THEN queue[q].dropped ELSE 0
           lines == IF summary THEN queue[q].lines ELSE <<>>
           job == [kind |-> kind, batch |-> batch, rest |-> rest, count |-> count, lines |-> lines]
           d == [pc |-> "admit", force |-> force, at |-> 0, job |-> job]
<1>1. /\ drain[q].pc = "loop" /\ drain' = [drain EXCEPT ![q] = d]
      /\ UNCHANGED <<origin, table, queue, active, arriving, aborted, fate, answers, failures>>
  BY DEF Choose, signals, history
<1>2. count \in Nat /\ lines \in Seq(Message)
  <2>1. queue[q].dropped \in Nat /\ queue[q].lines \in Seq(Message)
    BY DEF Kept, Contents, QueueRecords
  <2>2. QED
    BY <2>1, EmptySeq
<1>3. job \in Jobs /\ job.batch = batch /\ job.rest = rest
  <2> HIDE DEF count, lines
  <2>1. QED
    BY <1>2 DEF Jobs, GoodBatch
<1>4. GoodJob(job, Seen, origin)
  <2> HIDE DEF job
  <2>1. QED
    BY <1>3 DEF GoodJob
<1>5. d \in Drains /\ d.job = job /\ d.pc = "admit"
  <2> HIDE DEF job
  <2>1. QED
    BY <1>3 DEF Drains
<1> HIDE DEF d, job
<1>6. Seen' = Seen /\ Unseen' = Unseen
  BY <1>1, SameFates
<1>7. active # q
  BY <1>1 DEF Kept, Running
<1>8. Work' /\ Room' /\ Running'
  BY <1>1, <1>4, <1>5, <1>6, <1>7, JobKeeps
<1>9. Contents' /\ PendingIsReachable'
  BY <1>1, <1>6, SameQueues
<1>10. Kinds' /\ Counted'
  BY <1>1, <1>6 DEF Kept, Kinds, Counted
<1>11. QED
  BY <1>8, <1>9, <1>10 DEF Kept

LEMMA TakesKeep ==
    ASSUME Kept, NEW q \in Queues,
           TakeItem(q) \/ TakeVehicle(q) \/ Collect(q) \/ TakeSummary(q)
    PROVE  Kept'
<1> DEFINE r == queue[q]
<1>1. /\ r.items \in Seq(Message) /\ Range(r.items) \subseteq Seen
      /\ drain[q].force \in BOOLEAN
  BY DEF Kept, Contents, GoodQueue, QueueRecords, Work, Drains
<1>2. /\ <<>> \in Seq(Seq(Message)) /\ Range(<<>>) = {}
      /\ GoodBatch(<<>>, Seen, origin)
  BY EmptySeq DEF GoodBatch, Alike, Range
<1>3. ASSUME r.items # <<>> PROVE GoodBatch(<<Head(r.items)>>, Seen, origin)
  <2>1. Head(r.items) \in Range(r.items) /\ Head(r.items) \in Message
    BY <1>1, <1>3, FirstAndRest
  <2>2. Range(<<Head(r.items)>>) = {Head(r.items)}
    BY DEF Range
  <2>3. <<Head(r.items)>> \in Seq(Message)
    BY <2>1
  <2>4. QED
    BY <1>1, <2>1, <2>2, <2>3 DEF GoodBatch, Alike
<1>4. CASE TakeItem(q)
  <2> DEFINE force == drain[q].force \/ (r.mode = "collect" /\ CrossChannel(r.items))
  <2>1. r.items # <<>> /\ Choose(q, "item", <<Head(r.items)>>, <<>>, FALSE, force)
    BY <1>4 DEF TakeItem
  <2>2. force \in BOOLEAN
    OBVIOUS
  <2> HIDE DEF force
  <2>3. QED
    BY <1>2, <1>3, <2>1, <2>2, ChooseKeeps
<1>5. CASE TakeVehicle(q)
  <2>1. r.items # <<>> /\ Choose(q, "vehicle", <<Head(r.items)>>, <<>>, TRUE, drain[q].force)
    BY <1>5 DEF TakeVehicle
  <2>2. QED
    BY <1>1, <1>2, <1>3, <2>1, ChooseKeeps
<1>6. CASE Collect(q)
  <2> DEFINE groups == Groups(r.items)
  <2>1. /\ r.items # <<>> /\ ~Individually(q)
        /\ Choose(q, "batch", Head(groups), Tail(groups), HasSummary(r), FALSE)
    BY <1>6 DEF Collect
  <2>2. ~CrossChannel(r.items)
    BY <2>1 DEF Individually
  <2>3. groups \in Seq(Seq(Message)) /\ groups # <<>>
    BY <1>1, <2>1, GroupsMembers
  <2>4. ASSUME NEW g \in Range(groups) PROVE g \in Seq(Message) => GoodBatch(g, Seen, origin)
    <3>1. Range(g) \subseteq Range(r.items) /\ \A m, n \in Range(g) : Sender(m) = Sender(n)
      BY <1>1, <2>1, GroupsMembers
    <3>2. \A m, n \in Range(g) : Route(m) = Route(n) /\ Route(m) # Solo
      BY <1>1, <2>2, <3>1, OneRoute
    <3>3. Alike(g, origin)
      BY <3>1, <3>2 DEF Alike, Sender, Route
    <3>4. QED
      BY <1>1, <3>1, <3>3 DEF GoodBatch
  <2>5. \A g \in Range(groups) : g \in Seq(Message)
    BY <2>3 DEF Range
  <2>6. /\ Head(groups) \in Range(groups) /\ Tail(groups) \in Seq(Seq(Message))
        /\ Range(Tail(groups)) \subseteq Range(groups)
    BY <2>3, FirstAndRest
  <2> HIDE DEF groups
  <2>7. GoodBatch(Head(groups), Seen, origin) /\ \A g \in Range(Tail(groups)) : GoodBatch(g, Seen, origin)
    BY <2>4, <2>5, <2>6
  <2>8. QED
    BY <2>1, <2>6, <2>7, ChooseKeeps
<1>7. CASE TakeSummary(q)
  <2>1. Choose(q, "summary", <<>>, <<>>, TRUE, drain[q].force)
    BY <1>7 DEF TakeSummary
  <2>2. QED
    BY <1>1, <1>2, <2>1, ChooseKeeps
<1>8. QED
  BY <1>4, <1>5, <1>6, <1>7

\* The ends of the loop.
LEMMA EndsKeep ==
    ASSUME Kept, NEW q \in Queues, Leave(q) \/ GiveUp(q) \/ Defer(q) \/ RunThrows(q)
    PROVE  Kept'
<1> DEFINE r == IF Defer(q) THEN Restored(queue[q], drain[q].job) ELSE queue[q]
<1>1. /\ Exit(q, r) /\ active' \in {active, None} /\ active' # q
      /\ UNCHANGED <<origin, aborted, arriving, fate, answers>>
  <2>1. CASE Defer(q)
    BY <2>1 DEF Defer, Waits, Kept, Running, signals, history
  <2>2. CASE ~Defer(q) /\ (Leave(q) \/ GiveUp(q))
    BY <2>2 DEF Leave, GiveUp, Kept, Running, signals, history
  <2>3. CASE ~Defer(q) /\ RunThrows(q)
    BY <2>3, Numbers DEF RunThrows, signals, history
  <2>4. QED
    BY <2>1, <2>2, <2>3
<1>2. GoodQueue(r, Seen) /\ r.items = queue[q].items
  <2>1. queue[q] \in QueueRecords /\ GoodQueue(queue[q], Seen)
    BY DEF Kept, Contents
  <2>2. CASE Defer(q)
    <3> DEFINE job == drain[q].job
    <3>1. job.lines \in Seq(Message) /\ job.count \in Nat
      BY DEF Kept, Work, GoodJob, Jobs
    <3> HIDE DEF job
    <3>2. queue[q].dropped \in Nat /\ queue[q].lines \in Seq(Message)
      BY <2>1 DEF QueueRecords
    <3>3. job.lines \o queue[q].lines \in Seq(Message)
      BY <3>1, <3>2, ConcatProperties
    <3> DEFINE kept == job.count = 0 \/ (queue[q].dropped >= job.count /\ IsPrefix(job.lines, queue[q].lines))
               sum == IF queue[q].dropped >= job.count THEN queue[q].dropped ELSE queue[q].dropped + job.count
    <3>4. /\ Restored(queue[q], job) = IF kept THEN queue[q]
                ELSE [queue[q] EXCEPT !.dropped = sum, !.lines = job.lines \o queue[q].lines]
          /\ sum \in Nat
      BY <3>1, <3>2 DEF Restored
    <3> HIDE DEF kept, sum
    <3>5. Restored(queue[q], job) \in QueueRecords /\ Restored(queue[q], job).items = queue[q].items
      BY <2>1, <3>3, <3>4 DEF QueueRecords
    <3>6. QED
      BY <2>1, <2>2, <3>5 DEF GoodQueue, job
  <2>3. QED
    BY <2>1, <2>2
<1>3. r.items # <<>> => table = q
  BY <1>2 DEF Kept, PendingIsReachable
<1> HIDE DEF r
<1>4. Contents' /\ Work' /\ Room' /\ Running' /\ PendingIsReachable' /\ table' \in Queues \cup {None}
  BY <1>1, <1>2, <1>3, ExitKeeps
<1>5. failures' \in 0..MaxFailures
  <2>1. failures' = failures \/ (failures < MaxFailures /\ failures' = failures + 1)
    BY DEF Leave, GiveUp, Defer, RunThrows
  <2>2. failures \in 0..MaxFailures
    BY DEF Kept, Kinds
  <2>3. QED
    BY <2>1, <2>2, Numbers
<1>6. Kinds'
  BY <1>1, <1>4, <1>5 DEF Kept, Kinds
<1>7. Counted'
  BY <1>1, SameFates DEF Kept, Counted
<1>8. QED
  BY <1>4, <1>6, <1>7 DEF Kept

LEMMA DropsKeep ==
    ASSUME Kept, NEW q \in Queues, DropAborted(q) \/ Dropped(q)
    PROVE  Kept'
<1>1. /\ UNCHANGED <<origin, table, active, arriving, aborted, answers, failures>>
      /\ drain[q].pc # "idle" /\ active # q
  BY DEF DropAborted, Dropped, Kept, Running, signals, history
<1>2. /\ queue \in [Queues -> QueueRecords] /\ drain[q] \in Drains /\ GoodQueue(queue[q], Seen)
      /\ drain \in [Queues -> Drains] /\ GoodJob(drain[q].job, Seen, origin) /\ fate \in [Message -> Fates]
  BY DEF Kept, Contents, Work, Kinds
<1>3. queue[q].items \in Seq(Message) /\ Len(queue[q].items) \in Nat
      /\ queue[q].dropped \in Nat /\ queue[q].lines \in Seq(Message)
  BY <1>2 DEF QueueRecords
<1>4. CASE DropAborted(q)
  <2> DEFINE i == Max(AbortedIn(queue[q]))
             d == [drain[q] EXCEPT !.pc = "dropping", !.at = i]
  <2>1. i \in AbortedIn(queue[q])
    <3>1. AbortedIn(queue[q]) \in SUBSET (1..Len(queue[q].items))
      BY <1>3 DEF AbortedIn
    <3>2. AbortedIn(queue[q]) # {}
      BY <1>4 DEF DropAborted
    <3>3. IsFiniteSet(AbortedIn(queue[q]))
      <4>1. IsFiniteSet(1..Len(queue[q].items))
        BY <1>3, IndicesFinite
      <4>2. QED
        BY <3>1, <4>1, FS_Subset
    <3>4. AbortedIn(queue[q]) \in SUBSET Nat
      BY <3>1
    <3>5. QED
      BY <3>2, <3>3, <3>4, Greatest
  <2>2. i \in 1..Len(queue[q].items)
    BY <1>3, <2>1 DEF AbortedIn
  <2>3. /\ drain' = [drain EXCEPT ![q].pc = "dropping", ![q].at = i]
        /\ fate' = [fate EXCEPT ![queue[q].items[i]] = "aborted"]
        /\ queue' = queue
    BY <1>4 DEF DropAborted
  <2> HIDE DEF i
  <2>4. drain' = [drain EXCEPT ![q] = d] /\ d \in Drains /\ d.job = drain[q].job /\ d.pc # "run"
    <3>1. i \in Nat
      BY <1>3, <2>2
    <3>2. drain' = [drain EXCEPT ![q] = d]
      BY <1>2, <2>3
    <3>3. d \in Drains /\ d.job = drain[q].job /\ d.pc # "run"
      BY <1>2, <3>1 DEF Drains
    <3>4. QED
      BY <3>2, <3>3
  <2>5. queue[q].items[i] \in Message /\ fate[queue[q].items[i]] # "new"
    <3>1. queue[q].items[i] \in Range(queue[q].items)
      BY <1>3, <2>2, SeqRange
    <3>2. QED
      BY <1>2, <3>1 DEF GoodQueue, Seen, Unseen
  <2>6. fate' \in [Message -> Fates] /\ \A m \in Message : fate'[m] = "new" <=> fate[m] = "new"
    BY <1>2, <2>3, <2>5 DEF Fates
  <2>7. Seen' = Seen /\ Counted'
    BY <1>1, <2>6, SeenStays
  <2> HIDE DEF d
  <2>8. Work' /\ Room' /\ Running'
    BY <1>1, <1>2, <2>4, <2>7, JobKeeps
  <2>9. Contents' /\ PendingIsReachable'
    BY <1>1, <2>3, <2>7, SameQueues
  <2>10. Kinds'
    BY <1>1, <2>6 DEF Kept, Kinds
  <2>11. QED
    BY <2>7, <2>8, <2>9, <2>10 DEF Kept
<1>5. CASE Dropped(q)
  <2> DEFINE i == drain[q].at
             rest == IF i \in DOMAIN queue[q].items THEN RemoveAt(queue[q].items, i) ELSE queue[q].items
             drop == IF rest = <<>> THEN 0 ELSE queue[q].dropped
             lines == IF rest = <<>> THEN <<>> ELSE queue[q].lines
             r == [queue[q] EXCEPT !.items = rest, !.dropped = drop, !.lines = lines]
             d == [drain[q] EXCEPT !.pc = "loop", !.at = 0]
  <2>1. /\ queue' = [queue EXCEPT ![q].items = rest, ![q].dropped = drop, ![q].lines = lines]
        /\ drain' = [drain EXCEPT ![q].pc = "loop", ![q].at = 0]
        /\ UNCHANGED fate
    BY <1>5 DEF Dropped, history
  <2>2. \/ rest = queue[q].items
        \/ \E n \in Nat : rest = Remaining(queue[q].items, n)
        \/ \E j \in 1..Len(queue[q].items) : rest = RemoveAt(queue[q].items, j)
    BY <1>3
  <2>3. drop \in Nat /\ lines \in Seq(Message)
    BY <1>3, EmptySeq
  <2> HIDE DEF rest, drop, lines
  <2>4. GoodQueue(r, Seen) /\ (r.items # <<>> => queue[q].items # <<>>)
    <3>1. rest \in Seq(Message)
      BY <1>3, <2>2, LessLeft
    <3>2. r \in QueueRecords /\ r.items = rest
      BY <1>2, <2>3, <3>1 DEF QueueRecords
    <3> HIDE DEF r
    <3>3. \/ r.items = queue[q].items
          \/ \E n \in Nat : r.items = Remaining(queue[q].items, n)
          \/ \E j \in 1..Len(queue[q].items) : r.items = RemoveAt(queue[q].items, j)
      BY <2>2, <3>2
    <3>4. QED
      BY <3>2, <3>3, LessGood
  <2>5. queue' = [queue EXCEPT ![q] = r]
    BY <1>2, <2>1
  <2>6. drain' = [drain EXCEPT ![q] = d] /\ d \in Drains /\ d.job = drain[q].job /\ d.pc # "run"
    BY <1>2, <2>1 DEF Drains
  <2>7. Seen' = Seen /\ Unseen' = Unseen
    BY <2>1, SameFates
  <2> HIDE DEF r, d
  <2>8. Work' /\ Room' /\ Running'
    BY <1>1, <1>2, <2>6, <2>7, JobKeeps
  <2>9. Contents' /\ PendingIsReachable'
    BY <1>1, <2>4, <2>5, <2>7, ItemsKeep
  <2>10. Kinds' /\ Counted'
    BY <1>1, <2>1, <2>7 DEF Kept, Kinds, Counted
  <2>11. QED
    BY <2>8, <2>9, <2>10 DEF Kept
<1>6. QED
  BY <1>4, <1>5

LEMMA RunsKeep ==
    ASSUME Kept, NEW q \in Queues, Admit(q) \/ Skip(q) \/ RunReturns(q)
    PROVE  Kept'
<1>1. CASE Admit(q)
  <2> DEFINE d == [drain[q] EXCEPT !.pc = "run"]
  <2>1. /\ drain' = [drain EXCEPT ![q].pc = "run"] /\ drain[q].pc = "admit" /\ active' = q
        /\ UNCHANGED <<origin, table, queue, arriving, aborted, fate, answers, failures>>
    BY <1>1 DEF Admit, Waits, signals, history
  <2>2. drain \in [Queues -> Drains] /\ GoodJob(drain[q].job, Seen, origin)
    BY DEF Kept, Work
  <2>3. drain' = [drain EXCEPT ![q] = d] /\ d \in Drains /\ d.job = drain[q].job /\ d.pc = "run"
    BY <2>1, <2>2 DEF Drains
  <2> HIDE DEF d
  <2>4. Seen' = Seen /\ Unseen' = Unseen
    BY <2>1, SameFates
  <2>5. Work' /\ Room' /\ Running'
    BY <2>1, <2>2, <2>3, <2>4, JobKeeps
  <2>6. Contents' /\ PendingIsReachable'
    BY <2>1, <2>4, SameQueues
  <2>7. Kinds' /\ Counted'
    BY <2>1, <2>4 DEF Kept, Kinds, Counted
  <2>8. QED
    BY <2>5, <2>6, <2>7 DEF Kept
<1>2. CASE Skip(q)
  <2>1. /\ Returned(q) /\ drain[q].pc = "admit"
        /\ UNCHANGED <<origin, active, arriving, aborted, answers, failures>>
        /\ fate' = [m \in Message |-> IF m \in Range(drain[q].job.batch) THEN "aborted" ELSE fate[m]]
    BY <1>2 DEF Skip, Waits, signals
  <2>2. active # q
    BY <2>1 DEF Kept, Running
  <2>3. Range(drain[q].job.batch) \subseteq Seen
    BY DEF Kept, Work, GoodJob, GoodBatch
  <2>4. fate' \in [Message -> Fates] /\ \A m \in Message : fate'[m] = "new" <=> fate[m] = "new"
    <3>1. \A m \in Range(drain[q].job.batch) : fate[m] # "new"
      BY <2>3 DEF Seen, Unseen
    <3>2. "aborted" \in Fates /\ fate \in [Message -> Fates]
      BY DEF Fates, Kept, Kinds
    <3>3. QED
      BY <2>1, <3>1, <3>2
  <2>5. Seen' = Seen /\ Counted'
    BY <2>1, <2>4, SeenStays
  <2>6. Contents' /\ Work' /\ Room' /\ Running' /\ PendingIsReachable' /\ table' = table
    BY <2>1, <2>2, <2>5, ReturnedKeeps
  <2>7. Kinds'
    BY <2>1, <2>4, <2>6 DEF Kept, Kinds
  <2>8. QED
    BY <2>5, <2>6, <2>7 DEF Kept
<1>3. CASE RunReturns(q)
  <2>1. /\ Returned(q) /\ active = q /\ active' = None
        /\ UNCHANGED <<origin, arriving, aborted, fate, failures>>
    BY <1>3 DEF RunReturns, signals
  <2>2. drain[q].pc # "idle" /\ active' # q
    BY <2>1, Numbers DEF Kept, Running
  <2>3. Seen' = Seen /\ Unseen' = Unseen
    BY <2>1, SameFates
  <2>4. Contents' /\ Work' /\ Room' /\ Running' /\ PendingIsReachable' /\ table' = table
    BY <2>1, <2>2, <2>3, ReturnedKeeps
  <2>5. answers' \in [Message -> 0..2]
    <3> DEFINE heard == IF drain[q].job.kind = "vehicle" THEN {} ELSE Range(drain[q].job.batch)
    <3>1. answers' = [m \in Message |-> IF m \in heard /\ answers[m] < 2 THEN answers[m] + 1 ELSE answers[m]]
      BY <1>3 DEF RunReturns
    <3>2. answers \in [Message -> 0..2]
      BY DEF Kept, Kinds
    <3> HIDE DEF heard
    <3>3. QED
      BY <3>1, <3>2
  <2>6. Kinds'
    BY <2>1, <2>4, <2>5 DEF Kept, Kinds
  <2>7. Counted'
    BY <2>1, <2>3 DEF Kept, Counted
  <2>8. QED
    BY <2>4, <2>6, <2>7 DEF Kept
<1>4. QED
  BY <1>1, <1>2, <1>3

-----------------------------------------------------------------------------
(* Every step keeps the invariant.                                         *)

LEMMA InitKept == Init => Kept
<1> SUFFICES ASSUME Init PROVE Kept
  OBVIOUS
<1>1. Kinds
  BY Numbers DEF Init, Kinds, Fates
<1>2. Contents
  <2>1. queue = [q \in Queues |-> Garbage]
    BY DEF Init
  <2>2. GoodQueue(Garbage, Seen) /\ Garbage \in QueueRecords
    BY EmptyGood DEF GoodQueue
  <2>3. QED
    BY <2>1, <2>2 DEF Contents
<1>3. Work
  <2>1. drain = [q \in Queues |-> Idle]
    BY DEF Init
  <2>2. Idle \in Drains /\ Idle.job = NoJob
    BY NoJobGood DEF Idle
  <2>3. QED
    BY <2>1, <2>2, NoJobGood DEF Work
<1>4. Counted
  BY UnseenFinite, Numbers DEF Init, Counted
<1>5. Room
  BY QueuesAssumption DEF Init, Room
<1>6. Running
  BY Numbers DEF Init, Running
<1>7. PendingIsReachable
  BY EmptyGood DEF Init, PendingIsReachable
<1>8. QED
  BY <1>1, <1>2, <1>3, <1>4, <1>5, <1>6, <1>7 DEF Kept

LEMMA NextKeeps == Kept /\ [Next]_vars => Kept'
<1> SUFFICES ASSUME Kept, [Next]_vars PROVE Kept'
  OBVIOUS
<1>1. CASE BeginTurn \/ EndTurn \/ Arrive \/ \E m \in Message : Abort(m)
  BY <1>1, TurnsKeep
<1>2. CASE Clear
  BY <1>2, ClearKeeps
<1>3. ASSUME NEW s \in Settings, Enqueue(s) PROVE Kept'
  BY <1>3, EnqueueKeeps
<1>4. ASSUME NEW q \in Queues, Leave(q) \/ GiveUp(q) \/ Defer(q) \/ RunThrows(q) PROVE Kept'
  BY <1>4, EndsKeep
<1>5. ASSUME NEW q \in Queues, DropAborted(q) \/ Dropped(q) PROVE Kept'
  BY <1>5, DropsKeep
<1>6. ASSUME NEW q \in Queues, TakeItem(q) \/ TakeVehicle(q) \/ Collect(q) \/ TakeSummary(q) PROVE Kept'
  BY <1>6, TakesKeep
<1>7. ASSUME NEW q \in Queues, Admit(q) \/ Skip(q) \/ RunReturns(q) PROVE Kept'
  BY <1>7, RunsKeep
<1>8. CASE UNCHANGED vars
  <2>1. UNCHANGED <<origin, aborted, table, queue, drain, active, arriving, fate, answers, failures>>
    BY <1>8 DEF vars, signals, queues, history
  <2>2. Seen' = Seen /\ Unseen' = Unseen
    BY <2>1, SameFates
  <2>3. QED
    BY <2>1, <2>2 DEF Kept, Kinds, Contents, Work, Counted, Room, Running, PendingIsReachable
<1>9. QED
  BY <1>1, <1>2, <1>3, <1>4, <1>5, <1>6, <1>7, <1>8 DEF Next, DrainStep

(* Without clears. *)

\* One queue at a time: a drain is under way only on the object under the key.
Solitary == \A q \in Queues : drain[q].pc # "idle" => table = q

Tended == Kept /\ Solitary /\ NotStranded

LEMMA InitTended == Init => Tended
<1> SUFFICES ASSUME Init PROVE Tended
  OBVIOUS
<1>1. Kept
  BY InitKept
<1>2. Solitary /\ NotStranded
  BY DEF Init, Solitary, NotStranded, Idle
<1>3. QED
  BY <1>1, <1>2 DEF Tended

\* A caller's step: without a queue nobody drains, and a queue that gets one has
\* a drain or an active run.
LEMMA CallTended ==
    ASSUME Tended, table' \in Queues \cup {table}, table # None => table' = table,
           \/ drain' = Scheduled(table', drain)
           \/ drain' = drain /\ active' # None
           \/ UNCHANGED <<drain, active, queue, table>>
    PROVE  Solitary' /\ NotStranded'
<1>1. drain \in [Queues -> Drains] /\ table \in Queues \cup {None} /\ table' \in Queues \cup {None}
  BY DEF Tended, Kept, Kinds, Work
<1>2. ASSUME NEW q \in Queues, drain[q].pc # "idle" PROVE table' = q
  BY <1>2, Numbers DEF Tended, Solitary
<1>3. CASE drain' = Scheduled(table', drain)
  <2>1. /\ \A q \in Queues : q # table' => drain'[q] = drain[q]
        /\ table' \in Queues => drain'[table'].pc # "idle"
    BY <1>1, <1>3, ScheduledKeeps
  <2>2. QED
    BY <1>1, <1>2, <2>1 DEF Solitary, NotStranded
<1>4. CASE drain' = drain /\ active' # None
  BY <1>2, <1>4 DEF Solitary, NotStranded
<1>5. CASE UNCHANGED <<drain, active, queue, table>>
  BY <1>5 DEF Tended, Solitary, NotStranded
<1>6. QED
  BY <1>3, <1>4, <1>5

\* A drain that goes on tends its queue.
LEMMA JobTended ==
    ASSUME Tended, NEW q \in Queues, drain[q].pc # "idle", drain'[q].pc # "idle",
           \A p \in Queues \ {q} : drain'[p] = drain[p], UNCHANGED table
    PROVE  Solitary' /\ NotStranded'
  BY DEF Tended, Solitary, NotStranded

\* A drain that leaves its loop removes an empty queue, and is started again
\* for any other.
LEMMA ExitTended ==
    ASSUME Tended, NEW q \in Queues, NEW r, drain[q].pc # "idle", Exit(q, r)
    PROVE  Solitary' /\ NotStranded'
<1> DEFINE stopped == [drain EXCEPT ![q] = Idle]
<1>1. /\ table = q /\ q # None /\ drain \in [Queues -> Drains] /\ queue \in [Queues -> QueueRecords]
      /\ \A p \in Queues \ {q} : drain[p].pc = "idle"
  BY Numbers DEF Tended, Solitary, Kept, Work, Contents
<1>2. stopped \in [Queues -> Drains] /\ \A p \in Queues : stopped[p].pc = "idle"
  <2>1. Idle.pc = "idle"
    BY DEF Idle
  <2>2. QED
    BY <1>1, <2>1, NoJobGood
<1>3. CASE Pending(r)
  <2>1. table' = q /\ drain' = Scheduled(q, stopped)
    BY <1>1, <1>3 DEF Exit
  <2> HIDE DEF stopped
  <2>2. drain'[q].pc # "idle" /\ \A p \in Queues \ {q} : drain'[p] = stopped[p]
    BY <1>2, <2>1, ScheduledKeeps
  <2>3. QED
    BY <1>2, <2>1, <2>2 DEF Solitary, NotStranded
<1>4. CASE ~Pending(r)
  <2>1. table' = None /\ drain' = stopped
    BY <1>1, <1>4 DEF Exit
  <2> HIDE DEF stopped
  <2>2. QED
    BY <1>2, <2>1 DEF Solitary, NotStranded
<1>5. QED
  BY <1>3, <1>4

LEMMA NextTended == ~MayClear => (Tended /\ [Next]_vars => Tended')
<1> SUFFICES ASSUME ~MayClear, Tended, [Next]_vars PROVE Tended'
  OBVIOUS
<1>1. Kept'
  BY NextKeeps DEF Tended
<1>2. drain \in [Queues -> Drains]
  BY DEF Tended, Kept, Work
<1>3. CASE BeginTurn \/ EndTurn \/ Arrive \/ (\E m \in Message : Abort(m)) \/ UNCHANGED vars
  <2>1. table' = table
    BY <1>3 DEF BeginTurn, EndTurn, Arrive, Abort, vars, queues
  <2>2. \/ drain' = Scheduled(table', drain)
        \/ drain' = drain /\ active' # None
        \/ UNCHANGED <<drain, active, queue, table>>
    BY <1>3, <2>1, Numbers DEF BeginTurn, EndTurn, Arrive, Abort, vars, queues
  <2>3. QED
    BY <1>1, <2>1, <2>2, CallTended DEF Tended
<1>4. CASE Clear
  BY <1>4 DEF Clear
<1>5. ASSUME NEW s \in Settings, Enqueue(s) PROVE Tended'
  <2> DEFINE q == IF table = None THEN Fresh ELSE table
  <2>1. /\ UNCHANGED active
        /\ table' \in {table, q}
        /\ drain' = IF active = None THEN Scheduled(table', drain) ELSE drain
    BY <1>5 DEF Enqueue
  <2>2. q \in Queues /\ (table # None => q = table)
    <3>1. CASE table = None
      <4>1. \E p \in Queues \ {table} : drain[p] = Idle
        BY <3>1, Numbers DEF Tended, Kept, Room
      <4>2. QED
        BY <3>1, <4>1 DEF Fresh
    <3>2. CASE table # None
      BY <3>2 DEF Tended, Kept, Kinds
    <3>3. QED
      BY <3>1, <3>2
  <2> HIDE DEF q
  <2>3. QED
    BY <1>1, <2>1, <2>2, CallTended DEF Tended
<1>6. ASSUME NEW q \in Queues, Leave(q) \/ GiveUp(q) \/ Defer(q) \/ RunThrows(q) PROVE Tended'
  <2>1. \E r : Exit(q, r)
    BY <1>6 DEF Leave, GiveUp, Defer, RunThrows
  <2>2. drain[q].pc # "idle"
    BY <1>6 DEF Leave, GiveUp, Defer, RunThrows, Waits, Tended, Kept, Running
  <2>3. QED
    BY <1>1, <2>1, <2>2, ExitTended DEF Tended
<1>7. ASSUME NEW q \in Queues,
             \/ DropAborted(q) \/ Dropped(q) \/ Admit(q) \/ Skip(q) \/ RunReturns(q)
             \/ TakeItem(q) \/ TakeVehicle(q) \/ Collect(q) \/ TakeSummary(q)
      PROVE  Tended'
  <2>1. drain[q].pc # "idle"
    BY <1>7 DEF DropAborted, Dropped, Admit, Skip, RunReturns, TakeItem, TakeVehicle, Collect,
                TakeSummary, Choose, Waits, Tended, Kept, Running
  <2>2. table' = table /\ drain'[q].pc # "idle" /\ \A p \in Queues \ {q} : drain'[p] = drain[p]
    <3>1. CASE DropAborted(q) \/ Dropped(q) \/ Admit(q)
      <4>1. \/ drain' = [drain EXCEPT ![q].pc = "dropping", ![q].at = Max(AbortedIn(queue[q]))]
            \/ drain' = [drain EXCEPT ![q].pc = "loop", ![q].at = 0]
            \/ drain' = [drain EXCEPT ![q].pc = "run"]
        BY <3>1 DEF DropAborted, Dropped, Admit
      <4>2. table' = table
        BY <3>1 DEF DropAborted, Dropped, Admit
      <4>3. drain[q] \in Drains
        BY <1>2
      <4>4. QED
        BY <1>2, <4>1, <4>2, <4>3 DEF Drains
    <3>2. CASE Skip(q) \/ RunReturns(q)
      <4>1. Returned(q)
        BY <3>2 DEF Skip, RunReturns
      <4>2. PICK d : drain' = [drain EXCEPT ![q] = d] /\ d.pc \in {"loop", "admit"}
        <5> DEFINE job == drain[q].job
                   next == [NoJob EXCEPT !.kind = "batch", !.batch = Head(job.rest), !.rest = Tail(job.rest)]
                   d == IF job.rest = <<>> THEN [drain[q] EXCEPT !.pc = "loop", !.job = NoJob]
                        ELSE [drain[q] EXCEPT !.pc = "admit", !.job = next]
        <5>1. drain' = [drain EXCEPT ![q] = d]
          BY <4>1 DEF Returned
        <5>2. d.pc \in {"loop", "admit"}
          <6> HIDE DEF next, job
          <6>1. drain[q] \in Drains
            BY <1>2
          <6>2. QED
            BY <6>1 DEF Drains
        <5> HIDE DEF d
        <5>3. QED
          BY <5>1, <5>2
      <4>3. table' = table
        BY <4>1 DEF Returned
      <4>4. QED
        BY <1>2, <4>2, <4>3
    <3>3. CASE TakeItem(q) \/ TakeVehicle(q) \/ Collect(q) \/ TakeSummary(q)
      <4>1. PICK k, b, t, u, f : Choose(q, k, b, t, u, f)
        BY <3>3 DEF TakeItem, TakeVehicle, Collect, TakeSummary
      <4>2. PICK j : drain' = [drain EXCEPT ![q] = [pc |-> "admit", force |-> f, at |-> 0, job |-> j]]
        BY <4>1 DEF Choose
      <4>3. table' = table
        BY <4>1 DEF Choose
      <4>4. QED
        BY <1>2, <4>2, <4>3
    <3>4. QED
      BY <1>7, <3>1, <3>2, <3>3
  <2>3. QED
    BY <1>1, <2>1, <2>2, JobTended DEF Tended
<1>8. QED
  BY <1>3, <1>4, <1>5, <1>6, <1>7 DEF Next, DrainStep

-----------------------------------------------------------------------------
(* The theorems.                                                           *)

LEMMA KeptImplies == Kept => TypeOK /\ PendingIsReachable /\ BatchesAreUniform
<1> SUFFICES ASSUME Kept PROVE TypeOK /\ PendingIsReachable /\ BatchesAreUniform
  OBVIOUS
<1>1. TypeOK
  <2>1. arriving \in 0..N
    <3>1. arriving \in Nat /\ arriving <= Cardinality(Unseen) /\ Cardinality(Unseen) \in 0..N
      BY UnseenFinite DEF Kept, Counted
    <3>2. QED
      BY <3>1, Numbers
  <2>2. QED
    BY <2>1 DEF TypeOK, Kept, Kinds, Contents, QueueRecords, GoodQueue, Work
<1>2. BatchesAreUniform
  BY DEF BatchesAreUniform, Kept, Work, GoodJob, GoodBatch, Alike, Sender, Route
<1>3. QED
  BY <1>1, <1>2 DEF Kept

\* The invariant holds always.
LEMMA AlwaysKept == Spec => []Kept
  BY InitKept, NextKeeps, PTL DEF Spec

\* Every variable keeps its type, and no queue outgrows its cap.
THEOREM TypeCorrect == Spec => []TypeOK
  BY AlwaysKept, KeptImplies, PTL

\* Whatever is cleared, deferred, aborted or replaced under its drain, messages
\* are only in the queue callers find under the key.
THEOREM Reachable == Spec => []PendingIsReachable
  BY AlwaysKept, KeptImplies, PTL

\* However the batches are cut, no prompt mixes senders or routes.
THEOREM OneSender == Spec => []BatchesAreUniform
  BY AlwaysKept, KeptImplies, PTL

\* As long as nobody clears the session's queues, messages are never left in an
\* idle one.
THEOREM NeverStranded == ~MayClear => (Spec => []NotStranded)
<1> SUFFICES ASSUME ~MayClear PROVE Spec => []NotStranded
  OBVIOUS
<1>1. Init => Tended
  BY InitTended
<1>2. Tended /\ [Next]_vars => Tended'
  BY NextTended
<1>3. Tended => NotStranded
  BY DEF Tended
<1>4. QED
  BY <1>1, <1>2, <1>3, PTL DEF Spec

=============================================================================
