------------------------- MODULE FollowupQueueOrder -------------------------
(***************************************************************************)
(* Proofs about FollowupQueue: what the removal by position does.  A drain *)
(* chooses messages, waits, runs them, and then removes as many from the   *)
(* front as it ran.  Nothing it ran is left to be run again, whatever was  *)
(* enqueued, dropped or cleared meanwhile; and where a full queue refuses  *)
(* newcomers what it removes is what it ran, so that nothing is lost and   *)
(* nobody is answered out of turn.                                         *)
(***************************************************************************)
EXTENDS FollowupQueueProofs

-----------------------------------------------------------------------------
(* The invariants.                                                         *)

Ascending(s) == \A i, j \in DOMAIN s : i < j => s[i] < s[j]

\* Batches that follow each other in the order of their messages.
Successive(batches) ==
    /\ \A k \in DOMAIN batches : Ascending(batches[k])
    /\ \A k, l \in DOMAIN batches : k < l =>
          \A m \in Range(batches[k]), n \in Range(batches[l]) : m < n

Together(batches) == UNION {Range(b) : b \in Range(batches)}

Later(j) == Together(j.rest)

\* The messages of a job, those of its batches to come among them.
Messages(j) == Range(j.batch) \cup Later(j)

\* A job's batches, the present one first, are successive.
Planned(j) ==
    /\ Ascending(j.batch) /\ Successive(j.rest)
    /\ \A m \in Range(j.batch), n \in Later(j) : m < n

\* Of the messages in s, those up to x.
UpTo(s, x) == {y \in s : y <= x}

\* A message of the job is no further back in the queue than in the job.
InFront(items, j) ==
    \A i \in DOMAIN items :
        items[i] \in Messages(j) => i <= Cardinality(UpTo(Messages(j), items[i]))

\* Messages are numbered as they come.
Numbered == \A m \in Seen, n \in Unseen : m < n

\* Two queue objects have no message in common, and the one that was replaced
\* has the earlier ones.
Apart ==
    \A p, q \in Queues : p # q =>
        /\ Messages(drain[p].job) \cap Messages(drain[q].job) = {}
        /\ \A m \in Messages(drain[p].job), n \in Range(queue[q].items) : m < n

\* Between two jobs a drain has none.
JobsEnd == \A q \in Queues : drain[q].pc \notin {"admit", "run"} => drain[q].job = NoJob

Lined ==
    \A q \in Queues :
        /\ Ascending(queue[q].items)
        /\ Planned(drain[q].job)
        /\ InFront(queue[q].items, drain[q].job)

\* What is still to be run, or to be queued, has not been answered.
Unanswered ==
    \A m \in Message :
        (m \in Unseen \/ \E q \in Queues : m \in Range(queue[q].items) \cup Messages(drain[q].job))
            => answers[m] = 0

Ordered == Kept /\ Numbered /\ Apart /\ JobsEnd /\ Lined /\ Unanswered /\ AnsweredOnce

\* Where full queues refuse, the queue under the key keeps all it has to run,
\* and loses what is aborted only.
NewOnly == \A s \in Settings : s.policy = "new"

Intact(q) ==
    /\ queue[q].policy = "new" /\ drain[q].job.kind # "vehicle"
    /\ table = q => Messages(drain[q].job) \subseteq Range(queue[q].items)
    /\ table = q /\ drain[q].pc = "dropping" =>
          drain[q].at \in DOMAIN queue[q].items /\ fate[queue[q].items[drain[q].at]] = "aborted"

\* What is wanted is in a queue, until its run returns.
Queued ==
    \A m \in Message : fate[m] = "queued" /\ answers[m] = 0 =>
        \E q \in Queues : m \in Range(queue[q].items)

Whole == Ordered /\ Queued /\ \A q \in Queues : Intact(q)

-----------------------------------------------------------------------------
(* Ascending sequences of messages.                                        *)

LEMMA Ordinal == Message \subseteq Nat
  BY Numbers DEF Message

\* One has as many elements as places.
LEMMA AscendingCount ==
    ASSUME NEW s \in Seq(Message), Ascending(s)
    PROVE  /\ IsFiniteSet(Range(s)) /\ Cardinality(Range(s)) = Len(s)
           /\ \A i, j \in 1..Len(s) : s[i] < s[j] => i < j
           /\ \A i, j \in 1..Len(s) : s[i] = s[j] => i = j
<1>1. \A i, j \in 1..Len(s) : i < j => s[i] < s[j]
  BY DEF Ascending
<1>2. \A i \in 1..Len(s) : s[i] \in Nat
  <2>1. \A i \in 1..Len(s) : s[i] \in Message
    OBVIOUS
  <2>2. QED
    BY <2>1, Ordinal
<1>3. \A i, j \in 1..Len(s) : s[i] = s[j] => i = j
  BY <1>1, <1>2
<1>4. \A i, j \in 1..Len(s) : s[i] < s[j] => i < j
  BY <1>1, <1>2
<1>5. Range(s) = {s[i] : i \in 1..Len(s)}
  BY SeqRange
<1>6. s \in Surjection(1..Len(s), Range(s))
  BY <1>5 DEF Surjection
<1>7. s \in Injection(1..Len(s), Range(s))
  BY <1>3, <1>6 DEF Injection, IsInjective, Surjection
<1>8. IsFiniteSet(1..Len(s)) /\ Cardinality(1..Len(s)) = Len(s)
  <2>1. Len(s) \in Nat
    OBVIOUS
  <2>2. QED
    BY <2>1, FS_Interval
<1>9. IsFiniteSet(Range(s)) /\ Cardinality(Range(s)) = Len(s)
  BY <1>6, <1>7, <1>8, FS_Surjection
<1>10. QED
  BY <1>3, <1>4, <1>9

LEMMA UpToFinite ==
    ASSUME NEW S \in SUBSET Message, NEW x
    PROVE  IsFiniteSet(UpTo(S, x)) /\ Cardinality(UpTo(S, x)) \in Nat
<1>1. IsFiniteSet(Message)
  BY Numbers, FS_Interval DEF Message
<1>2. UpTo(S, x) \in SUBSET Message
  BY DEF UpTo
<1>3. IsFiniteSet(UpTo(S, x))
  BY <1>1, <1>2, FS_Subset
<1>4. QED
  BY <1>3, FS_CardinalityType

\* The first messages of a queue are no further back in a job that has them.
LEMMA Prefixed ==
    ASSUME NEW items \in Seq(Message), Ascending(items), NEW M \in SUBSET Message,
           NEW i \in 1..Len(items), \A k \in 1..i : items[k] \in M
    PROVE  i <= Cardinality(UpTo(M, items[i]))
<1> DEFINE f == [k \in 1..i |-> items[k]]
<1>1. i \in Nat /\ \A k \in 1..i : k \in 1..Len(items) /\ items[k] \in Nat
  <2>1. i \in Nat /\ \A k \in 1..i : k \in 1..Len(items) /\ items[k] \in Message
    OBVIOUS
  <2>2. QED
    BY <2>1, Ordinal
<1>2. ASSUME NEW k \in 1..i PROVE items[k] \in UpTo(M, items[i])
  <2>1. k = i \/ items[k] < items[i]
    BY <1>1 DEF Ascending
  <2>2. items[k] <= items[i]
    BY <1>1, <2>1
  <2>3. QED
    BY <2>2 DEF UpTo
<1>3. f \in [1..i -> UpTo(M, items[i])]
  BY <1>2
<1>4. \A k, l \in 1..i : f[k] = f[l] => k = l
  BY <1>1, AscendingCount
<1>5. f \in Injection(1..i, UpTo(M, items[i]))
  BY <1>3, <1>4 DEF Injection, IsInjective
<1>6. Cardinality(1..i) = i
  BY <1>1, FS_Interval
<1>7. QED
  BY <1>5, <1>6, UpToFinite, FS_Injection

\* The messages of a batch that are all in the queue, and no further back there
\* than the batch is long, are the first ones there.
LEMMA FrontRun ==
    ASSUME NEW items \in Seq(Message), NEW B \in SUBSET Range(items), NEW n \in Nat,
           Cardinality(B) = n, \A k \in 1..Len(items) : items[k] \in B => k <= n
    PROVE  \A k \in 1..n : k \in 1..Len(items) /\ items[k] \in B
<1> DEFINE K == {k \in 1..Len(items) : items[k] \in B}
           f == [k \in K |-> items[k]]
<1>1. Len(items) \in Nat /\ Range(items) = {items[k] : k \in 1..Len(items)}
  BY SeqRange
<1>2. K \in SUBSET (1..n)
  OBVIOUS
<1>3. IsFiniteSet(1..n) /\ Cardinality(1..n) = n
  BY FS_Interval
<1>4. IsFiniteSet(K) /\ Cardinality(K) <= n
  BY <1>2, <1>3, FS_Subset
<1>5. f \in Surjection(K, B)
  BY <1>1 DEF Surjection
<1>6. Cardinality(B) <= Cardinality(K)
  BY <1>4, <1>5, FS_Surjection
<1>7. Cardinality(K) \in Nat
  BY <1>4, FS_CardinalityType
<1>8. Cardinality(K) = n
  BY <1>4, <1>6, <1>7
<1>9. K = 1..n
  BY <1>2, <1>3, <1>8, FS_Subset
<1>10. QED
  BY <1>9

\* What a step leaves of a queue: newcomers are of G, the others come no
\* further back.
Thin(new, old, G) ==
    /\ Ascending(new)
    /\ \A i \in DOMAIN new : new[i] \in G \/ \E k \in DOMAIN old : i <= k /\ new[i] = old[k]

LEMMA ThinSame ==
    ASSUME NEW s \in Seq(Message), Ascending(s), NEW G
    PROVE  Thin(s, s, G) /\ Thin(<<>>, s, G)
<1>1. \A i \in DOMAIN s : i <= i
  OBVIOUS
<1>2. QED
  BY <1>1 DEF Thin, Ascending

LEMMA ThinRemaining ==
    ASSUME NEW s \in Seq(Message), Ascending(s), NEW n \in Nat, NEW G
    PROVE  /\ Thin(Remaining(s, n), s, G)
           /\ Remaining(s, n) \in Seq(Message)
           /\ \A i \in DOMAIN Remaining(s, n) : i + n \in 1..Len(s) /\ Remaining(s, n)[i] = s[i + n]
           /\ \A k \in 1..Len(s) : k > n => s[k] \in Range(Remaining(s, n))
<1> DEFINE r == Remaining(s, n)
<1>1. Len(s) \in Nat /\ \A i \in n + 1..Len(s) : s[i] \in Message
  OBVIOUS
<1>2. /\ r \in Seq(Message)
      /\ Len(r) = IF n + 1 <= Len(s) THEN Len(s) - (n + 1) + 1 ELSE 0
      /\ \A i \in 1..Len(s) - (n + 1) + 1 : r[i] = s[n + 1 + i - 1]
  <2>1. r = SubSeq(s, n + 1, Len(s))
    BY DEF Remaining
  <2> HIDE DEF r
  <2>2. QED
    BY <1>1, <2>1, SubSeqProperties
<1> HIDE DEF r
<1>3. \A i \in DOMAIN r : i \in Nat /\ i + n \in 1..Len(s) /\ r[i] = s[i + n] /\ i <= i + n
  <2> SUFFICES ASSUME NEW i \in DOMAIN r PROVE i \in Nat /\ i + n \in 1..Len(s) /\ r[i] = s[i + n] /\ i <= i + n
    OBVIOUS
  <2>1. i \in 1..Len(r)
    BY <1>2
  <2>2. i \in 1..Len(s) - (n + 1) + 1
    BY <1>1, <1>2, <2>1
  <2>3. r[i] = s[n + 1 + i - 1] /\ n + 1 + i - 1 = i + n
    <3>1. r[i] = s[n + 1 + i - 1]
      BY <1>2, <2>2
    <3>2. i \in Int /\ n \in Int
      BY <2>2
    <3>3. QED
      BY <3>1, <3>2
  <2>4. QED
    BY <1>1, <2>2, <2>3
<1>4. Ascending(r)
  <2> SUFFICES ASSUME NEW i \in DOMAIN r, NEW j \in DOMAIN r, i < j PROVE r[i] < r[j]
    BY DEF Ascending
  <2>1. i + n < j + n
    BY <1>3
  <2>2. QED
    BY <1>3, <2>1 DEF Ascending
<1>5. Thin(r, s, G)
  BY <1>3, <1>4 DEF Thin
<1>6. ASSUME NEW k \in 1..Len(s), k > n PROVE s[k] \in Range(r)
  <2>1. k - n \in 1..Len(r) /\ k - n + n = k
    BY <1>1, <1>2, <1>6
  <2>2. r[k - n] = s[k]
    BY <1>2, <1>3, <2>1
  <2>3. QED
    BY <1>2, <2>1, <2>2, SeqRange
<1>7. QED
  BY <1>2, <1>3, <1>5, <1>6 DEF r

LEMMA ThinRemoved ==
    ASSUME NEW s \in Seq(Message), Ascending(s), NEW a \in 1..Len(s), NEW G
    PROVE  /\ Thin(RemoveAt(s, a), s, G)
           /\ \A k \in 1..Len(s) : k # a => s[k] \in Range(RemoveAt(s, a))
<1> DEFINE before == SubSeq(s, 1, a - 1)
           after == SubSeq(s, a + 1, Len(s))
           r == RemoveAt(s, a)
<1>1. Len(s) \in Nat /\ a \in Nat /\ 1 <= a /\ a <= Len(s) /\ \A i \in 1..Len(s) : s[i] \in Message
  OBVIOUS
<1>2. before \in Seq(Message) /\ Len(before) = a - 1 /\ \A i \in 1..a - 1 : before[i] = s[i]
  <2>1. \A i \in 1..a - 1 : s[i] \in Message
    BY <1>1
  <2>2. /\ before \in Seq(Message) /\ Len(before) = IF 1 <= a - 1 THEN a - 1 - 1 + 1 ELSE 0
        /\ \A i \in 1..a - 1 - 1 + 1 : before[i] = s[1 + i - 1]
    BY <1>1, <2>1, SubSeqProperties
  <2> HIDE DEF before
  <2>3. QED
    BY <1>1, <2>2
<1>3. /\ after \in Seq(Message) /\ Len(after) = Len(s) - a
      /\ \A i \in 1..Len(s) - a : after[i] = s[a + i]
  <2>1. \A i \in a + 1..Len(s) : s[i] \in Message
    BY <1>1
  <2>2. /\ after \in Seq(Message) /\ Len(after) = IF a + 1 <= Len(s) THEN Len(s) - (a + 1) + 1 ELSE 0
        /\ \A i \in 1..Len(s) - (a + 1) + 1 : after[i] = s[a + 1 + i - 1]
    BY <1>1, <2>1, SubSeqProperties
  <2> HIDE DEF after
  <2>3. QED
    BY <1>1, <2>2
<1>4. r = before \o after
  BY DEF RemoveAt
<1> HIDE DEF before, after, r
<1>5. /\ r \in Seq(Message) /\ Len(r) = Len(s) - 1
      /\ \A i \in 1..Len(s) - 1 : r[i] = IF i < a THEN s[i] ELSE s[i + 1]
  <2>1. /\ r \in Seq(Message) /\ Len(r) = Len(before) + Len(after)
        /\ \A i \in 1..Len(before) + Len(after) :
              r[i] = IF i <= Len(before) THEN before[i] ELSE after[i - Len(before)]
    BY <1>2, <1>3, <1>4, ConcatProperties
  <2>2. Len(before) + Len(after) = Len(s) - 1
    BY <1>1, <1>2, <1>3
  <2>3. ASSUME NEW i \in 1..Len(s) - 1 PROVE r[i] = IF i < a THEN s[i] ELSE s[i + 1]
    <3>1. CASE i < a
      BY <1>1, <1>2, <2>1, <2>2, <3>1
    <3>2. CASE ~(i < a)
      <4>1. i - (a - 1) \in 1..Len(s) - a /\ a + (i - (a - 1)) = i + 1 /\ ~(i <= a - 1)
        BY <1>1, <3>2
      <4>2. r[i] = after[i - (a - 1)]
        BY <1>2, <2>1, <2>2, <4>1
      <4>3. QED
        BY <1>3, <3>2, <4>1, <4>2
    <3>3. QED
      BY <3>1, <3>2
  <2>4. QED
    BY <2>1, <2>2, <2>3
<1>6. DOMAIN r = 1..Len(s) - 1
  BY <1>5
<1>7. ASSUME NEW i \in DOMAIN r PROVE \E k \in DOMAIN s : i <= k /\ r[i] = s[k] /\ k = IF i < a THEN i ELSE i + 1
  <2>1. i \in 1..Len(s) - 1 /\ i \in 1..Len(s) /\ i + 1 \in 1..Len(s) /\ DOMAIN s = 1..Len(s)
    BY <1>1, <1>6
  <2>2. QED
    BY <1>1, <1>5, <2>1
<1>8. Ascending(r)
  <2> SUFFICES ASSUME NEW i \in DOMAIN r, NEW j \in DOMAIN r, i < j PROVE r[i] < r[j]
    BY DEF Ascending
  <2>1. PICK k \in DOMAIN s : r[i] = s[k] /\ k = IF i < a THEN i ELSE i + 1
    BY <1>7
  <2>2. PICK l \in DOMAIN s : r[j] = s[l] /\ l = IF j < a THEN j ELSE j + 1
    BY <1>7
  <2>3. i \in Nat /\ j \in Nat
    BY <1>1, <1>6
  <2>4. k < l
    BY <1>1, <2>1, <2>2, <2>3
  <2>5. QED
    BY <2>1, <2>2, <2>4 DEF Ascending
<1>9. Thin(r, s, G)
  BY <1>7, <1>8 DEF Thin
<1>10. ASSUME NEW k \in 1..Len(s), k # a PROVE s[k] \in Range(r)
  <2> DEFINE i == IF k < a THEN k ELSE k - 1
  <2>1. i \in 1..Len(s) - 1 /\ (IF i < a THEN i ELSE i + 1) = k
    BY <1>1, <1>10
  <2> HIDE DEF i
  <2>2. r[i] = s[k]
    BY <1>5, <2>1
  <2>3. i \in 1..Len(r)
    BY <1>5, <2>1
  <2>4. QED
    BY <1>5, <2>2, <2>3, SeqRange
<1>11. QED
  BY <1>9, <1>10 DEF r

\* A full queue makes room, and a newcomer goes to its end.
LEMMA ThinGrown ==
    ASSUME NEW s \in Seq(Message), Ascending(s), NEW n \in Nat, NEW G, NEW m \in Message, m \in G,
           \A k \in 1..Len(s) : s[k] < m
    PROVE  Thin(Append(Remaining(s, n), m), s, G)
<1> DEFINE r == Remaining(s, n)
           a == Append(r, m)
<1>1. /\ r \in Seq(Message) /\ Ascending(r)
      /\ \A i \in DOMAIN r : \E k \in DOMAIN s : i <= k /\ r[i] = s[k]
  <2>1. r \in Seq(Message) /\ Thin(r, s, {})
    BY ThinRemaining
  <2>2. QED
    BY <2>1 DEF Thin
<1> HIDE DEF r
<1>2. /\ a \in Seq(Message) /\ Len(a) = Len(r) + 1 /\ a[Len(r) + 1] = m
      /\ \A i \in 1..Len(r) : a[i] = r[i]
  BY <1>1, AppendProperties
<1> HIDE DEF a
<1>3. DOMAIN a = 1..Len(r) + 1 /\ DOMAIN r = 1..Len(r) /\ Len(r) \in Nat
  BY <1>1, <1>2
<1>4. \A i \in DOMAIN a : i \in DOMAIN r \/ i = Len(r) + 1
  BY <1>3
<1>5. \A i \in DOMAIN r : r[i] < m
  BY <1>1
<1>6. Ascending(a)
  <2> SUFFICES ASSUME NEW i \in DOMAIN a, NEW j \in DOMAIN a, i < j PROVE a[i] < a[j]
    BY DEF Ascending
  <2>1. i \in DOMAIN r
    BY <1>3, <1>4
  <2>2. QED
    BY <1>1, <1>2, <1>3, <1>4, <1>5, <2>1 DEF Ascending
<1>7. ASSUME NEW i \in DOMAIN a PROVE a[i] \in G \/ \E k \in DOMAIN s : i <= k /\ a[i] = s[k]
  <2>1. CASE i \in DOMAIN r
    BY <1>1, <1>2, <1>3, <2>1
  <2>2. CASE i = Len(r) + 1
    BY <1>2, <2>2
  <2>3. QED
    BY <1>4, <2>1, <2>2
<1>8. QED
  BY <1>6, <1>7 DEF Thin, a, r

-----------------------------------------------------------------------------
(* The batches of a collect.                                               *)

LEMMA RankGrows ==
    ASSUME NEW S \in SUBSET Nat, IsFiniteSet(S), NEW a \in S, NEW b \in S, a < b
    PROVE  /\ Cardinality(UpTo(S, a)) < Cardinality(UpTo(S, b))
           /\ Cardinality(UpTo(S, a)) \in Nat /\ Cardinality(UpTo(S, b)) \in Nat
<1>1. a \in Nat /\ b \in Nat /\ \A y \in S : y \in Nat
  OBVIOUS
<1>2. /\ UpTo(S, a) \in SUBSET UpTo(S, b) /\ UpTo(S, b) \in SUBSET S
      /\ b \in UpTo(S, b) /\ b \notin UpTo(S, a)
  <2>1. \A y \in S : y <= a => y <= b
    BY <1>1
  <2>2. b <= b /\ ~(b <= a)
    BY <1>1
  <2>3. QED
    BY <2>1, <2>2 DEF UpTo
<1>3. IsFiniteSet(UpTo(S, b))
  BY <1>2, FS_Subset
<1>4. /\ IsFiniteSet(UpTo(S, a)) /\ Cardinality(UpTo(S, a)) <= Cardinality(UpTo(S, b))
      /\ Cardinality(UpTo(S, a)) # Cardinality(UpTo(S, b))
  BY <1>2, <1>3, FS_Subset
<1>5. Cardinality(UpTo(S, a)) \in Nat /\ Cardinality(UpTo(S, b)) \in Nat
  BY <1>3, <1>4, FS_CardinalityType
<1>6. QED
  BY <1>4, <1>5

\* splitCollectItemsByAuthorization keeps the order, and leaves nothing out.
LEMMA GroupsOrder ==
    ASSUME NEW items \in Seq(Message), Ascending(items), items # <<>>,
           NEW groups, groups = Groups(items)
    PROVE  /\ \A k \in DOMAIN groups : Ascending(groups[k])
           /\ \A k, l \in DOMAIN groups : k < l =>
                 \A x \in Range(groups[k]), y \in Range(groups[l]) : x < y
           /\ \A x \in Range(items) : \E k \in DOMAIN groups : x \in Range(groups[k])
<1> DEFINE S == Starts(items)
           c == Cardinality(S)
           nth == [k \in 1..c |-> CHOOSE i \in S : Cardinality(UpTo(S, i)) = k]
<1>1. /\ S \in SUBSET Nat /\ S \in SUBSET (1..Len(items)) /\ IsFiniteSet(S) /\ 1 \in S
      /\ c \in Nat /\ Len(items) \in Nat
  BY StartsFinite, FS_CardinalityType
<1>2. groups = [k \in 1..c |-> GroupFrom(items, nth[k])]
  <2>1. groups = [k \in 1..c |-> GroupFrom(items, CHOOSE i \in S : Cardinality(UpTo(S, i)) = k)]
    BY DEF Groups, UpTo
  <2>2. QED
    BY <2>1
<1>3. ASSUME NEW k \in 1..c PROVE nth[k] \in S /\ Cardinality(UpTo(S, nth[k])) = k
  <2>1. \E i \in S : Cardinality(UpTo(S, i)) = k
    BY <1>1, Ranked DEF UpTo
  <2>2. QED
    BY <2>1
<1> HIDE DEF S, c, nth
<1>4. ASSUME NEW k \in 1..c, NEW l \in 1..c, k < l PROVE nth[k] < nth[l]
  <2>1. /\ nth[k] \in S /\ Cardinality(UpTo(S, nth[k])) = k
        /\ nth[l] \in S /\ Cardinality(UpTo(S, nth[l])) = l
    BY <1>3
  <2>2. k \in Nat /\ l \in Nat /\ k # l /\ ~(l < k)
    BY <1>4
  <2>3. nth[k] # nth[l]
    BY <2>1, <2>2
  <2>4. ~(nth[l] < nth[k])
    <3>1. nth[l] < nth[k] => Cardinality(UpTo(S, nth[l])) < Cardinality(UpTo(S, nth[k]))
      BY <1>1, <2>1, RankGrows
    <3>2. QED
      BY <2>1, <2>2, <3>1
  <2>5. nth[k] \in Nat /\ nth[l] \in Nat
    BY <1>1, <2>1
  <2>6. QED
    BY <2>3, <2>4, <2>5
<1>5. ASSUME NEW i \in S
      PROVE  \E z \in i + 1..Len(items) + 1 :
                /\ \A p \in S : p > i => z <= p
                /\ Ascending(GroupFrom(items, i))
                /\ \A x \in Range(GroupFrom(items, i)) : \E p \in 1..Len(items) : x = items[p] /\ i <= p /\ p < z
                /\ \A p \in 1..Len(items) : i <= p /\ p < z => items[p] \in Range(GroupFrom(items, i))
                /\ z = Len(items) + 1 \/ z \in S
  <2> DEFINE g == GroupFrom(items, i)
  <2>1. PICK z \in i + 1..Len(items) + 1 :
           /\ \A p \in S : p > i => z <= p
           /\ g \in Seq(Message) /\ Len(g) = z - i
           /\ \A k \in 1..z - i : g[k] = items[i + k - 1]
           /\ z = Len(items) + 1 \/ z \in S
    BY GroupSpan DEF S
  <2> HIDE DEF g
  <2>2. i \in 1..Len(items) /\ i \in Nat /\ z \in Nat /\ z <= Len(items) + 1
    BY <1>1
  <2>3. \A k \in 1..z - i : i + k - 1 \in 1..Len(items) /\ i <= i + k - 1 /\ i + k - 1 < z
    BY <1>1, <2>2
  <2>4. Ascending(g)
    <3> SUFFICES ASSUME NEW k \in DOMAIN g, NEW l \in DOMAIN g, k < l PROVE g[k] < g[l]
      BY DEF Ascending
    <3>1. k \in 1..z - i /\ l \in 1..z - i
      BY <2>1
    <3>2. i + k - 1 < i + l - 1
      BY <2>2, <3>1
    <3>3. items[i + k - 1] < items[i + l - 1]
      BY <2>3, <3>1, <3>2 DEF Ascending
    <3>4. QED
      BY <2>1, <3>1, <3>3
  <2>5. Range(g) = {g[k] : k \in 1..z - i}
    BY <2>1, SeqRange
  <2>6. ASSUME NEW x \in Range(g) PROVE \E p \in 1..Len(items) : x = items[p] /\ i <= p /\ p < z
    <3>1. PICK k \in 1..z - i : x = g[k]
      BY <2>5
    <3>2. x = items[i + k - 1]
      BY <2>1, <3>1
    <3>3. QED
      BY <2>3, <3>2
  <2>7. ASSUME NEW p \in 1..Len(items), i <= p, p < z PROVE items[p] \in Range(g)
    <3>1. p - i + 1 \in 1..z - i /\ i + (p - i + 1) - 1 = p
      BY <2>2, <2>7
    <3>2. g[p - i + 1] = items[p]
      BY <2>1, <3>1
    <3>3. QED
      BY <2>5, <3>1, <3>2
  <2>8. QED
    BY <2>1, <2>4, <2>6, <2>7 DEF g
<1>6. DOMAIN groups = 1..c /\ \A k \in 1..c : groups[k] = GroupFrom(items, nth[k])
  BY <1>2
<1>7. ASSUME NEW k \in DOMAIN groups PROVE Ascending(groups[k])
  BY <1>3, <1>5, <1>6
<1>8. ASSUME NEW k \in DOMAIN groups, NEW l \in DOMAIN groups, k < l,
             NEW x \in Range(groups[k]), NEW y \in Range(groups[l])
      PROVE  x < y
  <2>1. k \in 1..c /\ l \in 1..c /\ nth[k] \in S /\ nth[l] \in S /\ nth[k] < nth[l]
    BY <1>3, <1>4, <1>6, <1>8
  <2>2. PICK z \in nth[k] + 1..Len(items) + 1 :
           /\ \A p \in S : p > nth[k] => z <= p
           /\ \A v \in Range(GroupFrom(items, nth[k])) :
                 \E p \in 1..Len(items) : v = items[p] /\ nth[k] <= p /\ p < z
    BY <1>5, <2>1
  <2>3. PICK p \in 1..Len(items) : x = items[p] /\ p < z
    BY <1>6, <2>1, <2>2
  <2>4. PICK w \in nth[l] + 1..Len(items) + 1 :
           \A v \in Range(GroupFrom(items, nth[l])) :
              \E o \in 1..Len(items) : v = items[o] /\ nth[l] <= o /\ o < w
    BY <1>5, <2>1
  <2>5. PICK o \in 1..Len(items) : y = items[o] /\ nth[l] <= o
    BY <1>6, <2>1, <2>4
  <2>6. z <= nth[l] /\ z \in Nat /\ nth[l] \in Nat /\ nth[k] \in Nat
    <3>1. nth[l] \in Nat /\ nth[k] \in Nat
      BY <1>1, <2>1
    <3>2. z \in Nat
      BY <1>1, <3>1
    <3>3. nth[l] > nth[k]
      BY <2>1, <3>1
    <3>4. z <= nth[l]
      BY <2>1, <2>2, <3>3
    <3>5. QED
      BY <3>1, <3>2, <3>4
  <2>7. p < o
    BY <2>3, <2>5, <2>6
  <2>8. QED
    BY <2>3, <2>5, <2>7 DEF Ascending
<1>9. ASSUME NEW x \in Range(items) PROVE \E k \in DOMAIN groups : x \in Range(groups[k])
  <2>1. PICK i \in 1..Len(items) : x = items[i]
    BY SeqRange
  <2> DEFINE P == UpTo(S, i)
             p == Max(P)
             k == Cardinality(UpTo(S, p))
  <2>2. P \in SUBSET Nat /\ P \in SUBSET S /\ 1 \in P
    <3>1. 1 <= i
      BY <1>1
    <3>2. P = {y \in S : y <= i}
      BY DEF UpTo
    <3> HIDE DEF P
    <3>3. QED
      BY <1>1, <3>1, <3>2
  <2>3. IsFiniteSet(P)
    BY <1>1, <2>2, FS_Subset
  <2>4. p \in P /\ \A y \in P : y <= p
    BY <2>2, <2>3, Greatest
  <2> HIDE DEF p
  <2>5. p \in S /\ p \in Nat /\ p <= i /\ \A y \in S : y <= i => y <= p
    BY <1>1, <2>2, <2>4 DEF UpTo
  <2>6. k \in 1..c
    <3>1. UpTo(S, p) \in SUBSET S /\ p \in UpTo(S, p)
      BY <2>5 DEF UpTo
    <3>2. IsFiniteSet(UpTo(S, p)) /\ Cardinality(UpTo(S, p)) <= Cardinality(S)
      BY <1>1, <3>1, FS_Subset
    <3>3. Cardinality(UpTo(S, p)) \in Nat /\ Cardinality(UpTo(S, p)) # 0
      BY <3>1, <3>2, FS_CardinalityType, FS_EmptySet
    <3>4. QED
      BY <1>1, <3>2, <3>3 DEF c
  <2>7. nth[k] = p
    <3>1. nth[k] \in S /\ Cardinality(UpTo(S, nth[k])) = k
      BY <1>3, <2>6
    <3>2. nth[k] \in Nat
      BY <1>1, <3>1
    <3>3. nth[k] < p => Cardinality(UpTo(S, nth[k])) < k
      BY <1>1, <2>5, <3>1, RankGrows
    <3>4. p < nth[k] => k < Cardinality(UpTo(S, nth[k]))
      BY <1>1, <2>5, <3>1, RankGrows
    <3> HIDE DEF k
    <3>5. k \in Nat
      BY <1>1, <2>6
    <3>6. ~(k < k)
      BY <3>5
    <3>7. QED
      BY <2>5, <3>1, <3>2, <3>3, <3>4, <3>6
  <2>8. PICK z \in p + 1..Len(items) + 1 :
           /\ \A o \in 1..Len(items) : p <= o /\ o < z => items[o] \in Range(GroupFrom(items, p))
           /\ z = Len(items) + 1 \/ z \in S
    BY <1>5, <2>5
  <2>9. i < z
    <3>1. CASE z = Len(items) + 1
      BY <3>1
    <3>2. CASE z \in S
      <4>1. ~(z <= p) /\ z \in Nat /\ i \in Nat
        BY <2>5, <2>8
      <4>2. QED
        BY <2>5, <3>2, <4>1
    <3>3. QED
      BY <2>8, <3>1, <3>2
  <2>10. x \in Range(groups[k])
    BY <1>6, <2>1, <2>5, <2>6, <2>7, <2>8, <2>9
  <2>11. QED
    BY <1>6, <2>6, <2>10
<1>10. QED
  BY <1>7, <1>8, <1>9

LEMMA Members ==
    ASSUME NEW b
    PROVE  \A x : x \in Together(b) <=> \E k \in DOMAIN b : x \in Range(b[k])
<1> SUFFICES ASSUME NEW x PROVE x \in Together(b) <=> \E k \in DOMAIN b : x \in Range(b[k])
  OBVIOUS
<1>1. \A g : g \in Range(b) <=> \E k \in DOMAIN b : g = b[k]
  BY DEF Range
<1>2. x \in Together(b) <=> \E g \in Range(b) : x \in Range(g)
  BY DEF Together
<1>3. QED
  BY <1>1, <1>2

\* Successive batches make a job of the first and those to come.
LEMMA FirstPlanned ==
    ASSUME NEW batches \in Seq(Seq(Message)), batches # <<>>, Successive(batches), NEW j,
           j.batch = Head(batches), j.rest = Tail(batches)
    PROVE  Planned(j) /\ Messages(j) = Together(batches)
<1>1. /\ Len(batches) \in Nat /\ Len(batches) >= 1 /\ DOMAIN batches = 1..Len(batches)
      /\ j.batch = batches[1]
  OBVIOUS
<1>2. /\ Tail(batches) \in Seq(Seq(Message)) /\ Len(Tail(batches)) = Len(batches) - 1
      /\ \A i \in 1..Len(Tail(batches)) : Tail(batches)[i] = batches[i + 1]
  BY HeadTailProperties
<1>3. DOMAIN j.rest = 1..Len(batches) - 1
  BY <1>2
<1>4. \A k \in DOMAIN j.rest : k \in Nat /\ k + 1 \in DOMAIN batches /\ j.rest[k] = batches[k + 1] /\ 1 < k + 1
  BY <1>1, <1>2, <1>3
<1>5. /\ \A k \in DOMAIN batches : Ascending(batches[k])
      /\ \A k, l \in DOMAIN batches : k < l =>
            \A m \in Range(batches[k]), n \in Range(batches[l]) : m < n
  BY DEF Successive
<1>6. \A x : x \in Later(j) <=> \E k \in DOMAIN j.rest : x \in Range(j.rest[k])
  BY Members DEF Later
<1>7. \A x : x \in Together(batches) <=> \E k \in DOMAIN batches : x \in Range(batches[k])
  BY Members
<1>8. Successive(j.rest)
  <2>1. \A k \in DOMAIN j.rest : Ascending(j.rest[k])
    BY <1>4, <1>5
  <2>2. ASSUME NEW k \in DOMAIN j.rest, NEW l \in DOMAIN j.rest, k < l,
               NEW x \in Range(j.rest[k]), NEW y \in Range(j.rest[l])
        PROVE  x < y
    <3>1. k + 1 < l + 1
      BY <1>4, <2>2
    <3>2. QED
      BY <1>4, <1>5, <2>2, <3>1
  <2>3. QED
    BY <2>1, <2>2 DEF Successive
<1>9. ASSUME NEW x \in Range(j.batch), NEW y \in Later(j) PROVE x < y
  <2>1. PICK k \in DOMAIN j.rest : y \in Range(j.rest[k])
    BY <1>6
  <2>2. 1 \in DOMAIN batches /\ x \in Range(batches[1])
    BY <1>1
  <2>3. QED
    BY <1>4, <1>5, <2>1, <2>2
<1>10. Planned(j)
  BY <1>1, <1>5, <1>8, <1>9 DEF Planned
<1>11. ASSUME NEW k \in DOMAIN batches PROVE k = 1 \/ (k - 1 \in DOMAIN j.rest /\ j.rest[k - 1] = batches[k])
  <2>1. k # 1 => k - 1 \in DOMAIN j.rest /\ k - 1 + 1 = k
    BY <1>1, <1>3
  <2>2. QED
    BY <1>4, <2>1
<1>12. Messages(j) = Together(batches)
  <2>1. ASSUME NEW x \in Messages(j) PROVE x \in Together(batches)
    <3>1. CASE x \in Range(j.batch)
      BY <1>1, <1>7, <3>1
    <3>2. CASE x \in Later(j)
      BY <1>4, <1>6, <1>7, <3>2
    <3>3. QED
      BY <3>1, <3>2 DEF Messages
  <2>2. ASSUME NEW x \in Together(batches) PROVE x \in Messages(j)
    <3>1. PICK k \in DOMAIN batches : x \in Range(batches[k])
      BY <1>7
    <3>2. k = 1 \/ (k - 1 \in DOMAIN j.rest /\ j.rest[k - 1] = batches[k])
      BY <1>11
    <3>3. x \in Range(j.batch) \/ x \in Later(j)
      BY <1>1, <1>6, <3>1, <3>2
    <3>4. QED
      BY <3>3 DEF Messages
  <2>3. QED
    BY <2>1, <2>2
<1>13. QED
  BY <1>10, <1>12

\* The first batch of a collect and those to come.
LEMMA GroupsPlanned ==
    ASSUME NEW items \in Seq(Message), Ascending(items), items # <<>>, NEW j,
           j.batch = Head(Groups(items)), j.rest = Tail(Groups(items))
    PROVE  Planned(j) /\ Messages(j) = Range(items)
<1> DEFINE groups == Groups(items)
<1>1. /\ groups \in Seq(Seq(Message)) /\ groups # <<>>
      /\ \A g \in Range(groups) : Range(g) \subseteq Range(items)
  BY GroupsMembers
<1>2. Successive(groups) /\ \A x \in Range(items) : \E k \in DOMAIN groups : x \in Range(groups[k])
  BY GroupsOrder DEF Successive
<1>3. Planned(j) /\ Messages(j) = Together(groups)
  BY <1>1, <1>2, FirstPlanned
<1> HIDE DEF groups
<1>4. Together(groups) = Range(items)
  <2>1. \A k \in DOMAIN groups : groups[k] \in Range(groups)
    BY DEF Range
  <2>2. QED
    BY <1>1, <1>2, <2>1, Members
<1>5. QED
  BY <1>3, <1>4 DEF groups

-----------------------------------------------------------------------------
(* What the steps of callers and drains keep.                              *)

LEMMA NoJobPlanned ==
    Messages(NoJob) = {} /\ Planned(NoJob) /\ \A items : InFront(items, NoJob)
<1>1. NoJob.batch = <<>> /\ NoJob.rest = <<>>
  BY DEF NoJob
<1>2. Later(NoJob) = {}
  BY <1>1, Members DEF Later
<1>3. Messages(NoJob) = {}
  BY <1>1, <1>2 DEF Messages, Range
<1>4. Planned(NoJob)
  BY <1>1, <1>2 DEF Planned, Successive, Ascending
<1>5. QED
  BY <1>3, <1>4 DEF InFront

LEMMA JobSeen ==
    ASSUME Kept, NEW q \in Queues
    PROVE  /\ Messages(drain[q].job) \in SUBSET Message
           /\ Messages(drain[q].job) \in SUBSET Seen /\ Range(drain[q].job.batch) \in SUBSET Message
           /\ drain[q].job.batch \in Seq(Message) /\ drain[q].job.rest \in Seq(Seq(Message))
           /\ queue[q].items \in Seq(Message) /\ Range(queue[q].items) \in SUBSET Seen
<1>1. GoodJob(drain[q].job, Seen, origin) /\ GoodQueue(queue[q], Seen) /\ Seen \subseteq Message
  BY DEF Kept, Work, Contents, Seen
<1>2. Messages(drain[q].job) \in SUBSET Seen
  <2>1. \A g \in Range(drain[q].job.rest) : Range(g) \subseteq Seen
    BY <1>1 DEF GoodJob, GoodBatch
  <2>2. Later(drain[q].job) \subseteq Seen
    BY <2>1 DEF Later, Together
  <2>3. QED
    BY <1>1, <2>2 DEF Messages, GoodJob, GoodBatch
<1>3. QED
  BY <1>1, <1>2 DEF GoodJob, GoodQueue, QueueRecords, Jobs, Messages

\* A step that only thins the queues, or adds newcomers at the end, and leaves
\* the jobs or ends them.
LEMMA Thinned ==
    ASSUME Ordered, Kept', Numbered', JobsEnd', Unseen' \subseteq Unseen, UNCHANGED answers,
           \A p \in Queues : Thin(queue'[p].items, queue[p].items, Unseen),
           \A p \in Queues : drain'[p].job \in {drain[p].job, NoJob}
    PROVE  Ordered'
<1>1. \A p \in Queues : /\ Messages(drain[p].job) \in SUBSET Message
                        /\ Messages(drain[p].job) \cap Unseen = {}
  BY JobSeen DEF Ordered, Seen
<1>2. \A p \in Queues : Messages(drain'[p].job) \subseteq Messages(drain[p].job)
  BY NoJobPlanned
<1>3. ASSUME NEW p \in Queues, NEW x \in Range(queue'[p].items)
      PROVE  x \in Unseen \/ x \in Range(queue[p].items)
  <2>1. PICK i \in DOMAIN queue'[p].items : x = queue'[p].items[i]
    BY <1>3 DEF Range
  <2>2. x \in Unseen \/ \E k \in DOMAIN queue[p].items : x = queue[p].items[k]
    BY <2>1 DEF Thin
  <2>3. QED
    BY <2>2 DEF Range
<1>4. Apart'
  <2> SUFFICES ASSUME NEW p \in Queues, NEW q \in Queues, p # q
               PROVE  /\ Messages(drain'[p].job) \cap Messages(drain'[q].job) = {}
                      /\ \A m \in Messages(drain'[p].job), n \in Range(queue'[q].items) : m < n
    BY DEF Apart
  <2>1. /\ Messages(drain[p].job) \cap Messages(drain[q].job) = {}
        /\ \A m \in Messages(drain[p].job), n \in Range(queue[q].items) : m < n
    BY DEF Ordered, Apart
  <2>2. \A m \in Messages(drain[p].job), n \in Unseen : m < n
    BY <1>1 DEF Ordered, Numbered, Seen
  <2>3. QED
    BY <1>2, <1>3, <2>1, <2>2
<1>5. Lined'
  <2> SUFFICES ASSUME NEW p \in Queues
               PROVE  /\ Ascending(queue'[p].items) /\ Planned(drain'[p].job)
                      /\ InFront(queue'[p].items, drain'[p].job)
    BY DEF Lined
  <2>1. Ascending(queue'[p].items)
    BY DEF Thin
  <2>2. Planned(drain'[p].job)
    BY NoJobPlanned DEF Ordered, Lined
  <2>3. CASE drain'[p].job = NoJob
    BY <2>1, <2>2, <2>3, NoJobPlanned
  <2>4. CASE drain'[p].job = drain[p].job
    <3> DEFINE M == Messages(drain[p].job)
    <3>1. ASSUME NEW i \in DOMAIN queue'[p].items, queue'[p].items[i] \in M
          PROVE  i <= Cardinality(UpTo(M, queue'[p].items[i]))
      <4>1. PICK k \in DOMAIN queue[p].items : i <= k /\ queue'[p].items[i] = queue[p].items[k]
        BY <1>1, <3>1 DEF Thin
      <4>2. k <= Cardinality(UpTo(M, queue[p].items[k]))
        BY <3>1, <4>1 DEF Ordered, Lined, InFront
      <4>3. Cardinality(UpTo(M, queue[p].items[k])) \in Nat
        BY <1>1, UpToFinite
      <4>4. k \in Nat
        BY JobSeen DEF Ordered
      <4>5. i \in Nat
        <5>1. queue'[p].items \in Seq(Message)
          BY DEF Kept, Contents, QueueRecords
        <5>2. QED
          BY <5>1
      <4> HIDE DEF M
      <4>6. QED
        BY <4>1, <4>2, <4>3, <4>4, <4>5
    <3>2. InFront(queue'[p].items, drain'[p].job)
      BY <2>4, <3>1 DEF InFront
    <3>3. QED
      BY <2>1, <2>2, <3>2
  <2>5. QED
    BY <2>3, <2>4
<1>6. Unanswered'
  BY <1>2, <1>3 DEF Ordered, Unanswered
<1>7. AnsweredOnce'
  BY DEF Ordered, AnsweredOnce
<1>8. QED
  BY <1>4, <1>5, <1>6, <1>7 DEF Ordered

\* The loop chooses a job from the front of the queue.
LEMMA Chosen ==
    ASSUME Ordered, Kept', NEW q \in Queues, NEW d, drain[q].pc = "loop",
           drain' = [drain EXCEPT ![q] = d], d.pc = "admit",
           Planned(d.job), InFront(queue[q].items, d.job), Messages(d.job) \subseteq Range(queue[q].items),
           UNCHANGED <<queue, fate, answers>>
    PROVE  Ordered'
<1>1. /\ drain'[q] = d /\ \A p \in Queues \ {q} : drain'[p] = drain[p]
      /\ Unseen' = Unseen /\ Seen' = Seen
  BY SameFates DEF Ordered, Kept, Work
<1>2. \A p \in Queues \ {q} : Messages(d.job) # {} => queue[p].items = <<>>
  <2>1. Range(<<>>) = {}
    BY DEF Range
  <2>2. Messages(d.job) # {} => table = q
    BY <2>1 DEF Ordered, Kept, PendingIsReachable
  <2>3. QED
    BY <2>2 DEF Ordered, Kept, PendingIsReachable
<1>3. Apart'
  <2> SUFFICES ASSUME NEW p \in Queues, NEW o \in Queues, p # o
               PROVE  /\ Messages(drain'[p].job) \cap Messages(drain'[o].job) = {}
                      /\ \A m \in Messages(drain'[p].job), n \in Range(queue[o].items) : m < n
    BY DEF Apart
  <2>1. /\ Messages(drain[p].job) \cap Messages(drain[o].job) = {}
        /\ \A m \in Messages(drain[p].job), n \in Range(queue[o].items) : m < n
        /\ \A m \in Messages(drain[o].job), n \in Range(queue[p].items) : m < n
    BY DEF Ordered, Apart
  <2>2. CASE p # q /\ o # q
    BY <1>1, <2>1, <2>2
  <2>3. \A r \in Queues : Messages(drain[r].job) \subseteq Nat
    BY JobSeen, Ordinal DEF Ordered
  <2>4. CASE p = q
    <3>1. drain'[p] = d /\ drain'[o] = drain[o] /\ Messages(d.job) \subseteq Range(queue[p].items)
      BY <1>1, <2>4
    <3>2. \A m \in Messages(drain[o].job) : ~(m < m)
      BY <2>3
    <3>3. Messages(d.job) \cap Messages(drain[o].job) = {}
      BY <2>1, <3>1, <3>2
    <3>4. Messages(d.job) # {} => Range(queue[o].items) = {}
      BY <1>2, <2>4 DEF Range
    <3>5. QED
      BY <3>1, <3>3, <3>4
  <2>5. CASE o = q
    <3>1. drain'[o] = d /\ drain'[p] = drain[p] /\ Messages(d.job) \subseteq Range(queue[o].items)
      BY <1>1, <2>5
    <3>2. \A m \in Messages(drain[p].job) : ~(m < m)
      BY <2>3
    <3>3. Messages(d.job) \cap Messages(drain[p].job) = {}
      BY <2>1, <3>1, <3>2
    <3>4. QED
      BY <2>1, <3>1, <3>3
  <2>6. QED
    BY <2>2, <2>4, <2>5
<1>4. JobsEnd' /\ Lined' /\ Numbered'
  BY <1>1 DEF Ordered, JobsEnd, Lined, Numbered
<1>5. Unanswered'
  BY <1>1 DEF Ordered, Unanswered
<1>6. AnsweredOnce'
  BY DEF Ordered, AnsweredOnce
<1>7. QED
  BY <1>3, <1>4, <1>5, <1>6 DEF Ordered

LEMMA ScheduledJobs ==
    ASSUME NEW d \in [Queues -> Drains], NEW t \in Queues \cup {None},
           \A q \in Queues : d[q].pc \notin {"admit", "run"} => d[q].job = NoJob
    PROVE  \A q \in Queues :
              /\ Scheduled(t, d)[q].job = d[q].job
              /\ Scheduled(t, d)[q].pc \notin {"admit", "run"} => Scheduled(t, d)[q].job = NoJob
<1> SUFFICES ASSUME NEW q \in Queues
             PROVE  /\ Scheduled(t, d)[q].job = d[q].job
                    /\ Scheduled(t, d)[q].pc \notin {"admit", "run"} => Scheduled(t, d)[q].job = NoJob
  OBVIOUS
<1>1. CASE q # t \/ d[q].pc # "idle"
  <2>1. Scheduled(t, d)[q] = d[q]
    BY <1>1, ScheduledKeeps
  <2>2. QED
    BY <2>1
<1>2. CASE q = t /\ d[q].pc = "idle"
  <2>1. d[q].job = NoJob
    BY <1>2
  <2>2. Scheduled(t, d)[q].job = NoJob
    BY <2>1, ScheduledKeeps
  <2>3. QED
    BY <2>1, <2>2
<1>3. QED
  BY <1>1, <1>2

\* The fates of the unseen stay, and the queues are thinned at most.
LEMMA SameSeen ==
    ASSUME Ordered, Kept', JobsEnd', Unseen' = Unseen, UNCHANGED answers,
           \A p \in Queues : Thin(queue'[p].items, queue[p].items, Unseen),
           \A p \in Queues : drain'[p].job \in {drain[p].job, NoJob}
    PROVE  Ordered'
<1>1. Numbered'
  BY DEF Ordered, Numbered, Seen
<1>2. QED
  BY <1>1, Thinned

LEMMA ThinQueues ==
    ASSUME Ordered, NEW p \in Queues
    PROVE  /\ Thin(queue[p].items, queue[p].items, Unseen)
           /\ Thin(<<>>, queue[p].items, Unseen)
<1>1. Ascending(queue[p].items) /\ queue[p].items \in Seq(Message)
  BY JobSeen DEF Ordered, Lined
<1>2. QED
  BY <1>1, ThinSame

LEMMA TurnsOrdered ==
    ASSUME Ordered, Kept', BeginTurn \/ EndTurn \/ Arrive \/ \E m \in Message : Abort(m)
    PROVE  Ordered'
<1>1. /\ UNCHANGED <<table, queue, fate, answers>>
      /\ drain' \in {drain, Scheduled(table, drain)}
  BY DEF BeginTurn, EndTurn, Arrive, Abort, queues, history
<1>2. /\ drain \in [Queues -> Drains] /\ table \in Queues \cup {None}
      /\ \A q \in Queues : drain[q].pc \notin {"admit", "run"} => drain[q].job = NoJob
  BY DEF Ordered, Kept, Work, Kinds, JobsEnd
<1>3. \A q \in Queues : /\ drain'[q].job = drain[q].job
                        /\ drain'[q].pc \notin {"admit", "run"} => drain'[q].job = NoJob
  BY <1>1, <1>2, ScheduledJobs
<1>4. JobsEnd' /\ Unseen' = Unseen
  BY <1>1, <1>3, SameFates DEF JobsEnd
<1>5. \A p \in Queues : Thin(queue'[p].items, queue[p].items, Unseen)
  BY <1>1, ThinQueues
<1>6. QED
  BY <1>1, <1>3, <1>4, <1>5, SameSeen

LEMMA ClearOrdered ==
    ASSUME Ordered, Kept', Clear
    PROVE  Ordered'
<1> DEFINE left == IF drain[table] = Idle THEN Garbage ELSE Emptied(queue[table])
<1>1. /\ table \in Queues /\ queue' = [queue EXCEPT ![table] = left]
      /\ queue \in [Queues -> QueueRecords]
      /\ fate' = [m \in Message |-> IF m \in Range(queue[table].items) THEN "cleared" ELSE fate[m]]
      /\ UNCHANGED <<drain, answers>>
  BY DEF Clear, Ordered, Kept, Kinds, Contents
<1>2. left.items = <<>>
  <2>1. Emptied(queue[table]).items = <<>>
    BY <1>1 DEF Emptied, QueueRecords
  <2>2. QED
    BY <2>1, EmptyGood
<1> HIDE DEF left
<1>3. \A p \in Queues : Thin(queue'[p].items, queue[p].items, Unseen)
  BY <1>1, <1>2, ThinQueues
<1>4. Unseen' = Unseen
  <2>1. Range(queue[table].items) \cap Unseen = {}
    BY <1>1, JobSeen DEF Ordered, Seen
  <2>2. QED
    BY <1>1, <2>1 DEF Unseen
<1>5. JobsEnd'
  BY <1>1 DEF Ordered, JobsEnd
<1>6. QED
  BY <1>1, <1>3, <1>4, <1>5, SameSeen

LEMMA ExitOrdered ==
    ASSUME Ordered, Kept', NEW q \in Queues, NEW r, r.items = queue[q].items,
           Exit(q, r), UNCHANGED <<fate, answers>>
    PROVE  Ordered'
<1> DEFINE stopped == [drain EXCEPT ![q] = Idle]
<1>1. /\ drain \in [Queues -> Drains] /\ table \in Queues \cup {None} /\ queue \in [Queues -> QueueRecords]
      /\ \A p \in Queues : drain[p].pc \notin {"admit", "run"} => drain[p].job = NoJob
  BY DEF Ordered, Kept, Work, Kinds, Contents, JobsEnd
<1>2. /\ stopped \in [Queues -> Drains]
      /\ \A p \in Queues : stopped[p].pc \notin {"admit", "run"} => stopped[p].job = NoJob
      /\ \A p \in Queues : stopped[p].job \in {drain[p].job, NoJob}
  <2>1. Idle \in Drains /\ Idle.job = NoJob
    BY NoJobGood DEF Idle
  <2>2. QED
    BY <1>1, <2>1
<1>3. drain' = IF Pending(r) THEN Scheduled(table, stopped) ELSE stopped
  BY DEF Exit
<1> HIDE DEF stopped
<1>4. \A p \in Queues : /\ drain'[p].job = stopped[p].job
                        /\ drain'[p].pc \notin {"admit", "run"} => drain'[p].job = NoJob
  BY <1>1, <1>2, <1>3, ScheduledJobs
<1>5. JobsEnd' /\ Unseen' = Unseen
  BY <1>4, SameFates DEF JobsEnd
<1>6. queue' = [queue EXCEPT ![q] = IF table' = q THEN r ELSE Garbage]
  BY DEF Exit
<1>7. \A p \in Queues : queue'[p].items \in {queue[p].items, <<>>}
  BY <1>1, <1>6, EmptyGood
<1>8. \A p \in Queues : Thin(queue'[p].items, queue[p].items, Unseen)
  BY <1>7, ThinQueues
<1>9. QED
  BY <1>2, <1>4, <1>5, <1>8, SameSeen

LEMMA EndsOrdered ==
    ASSUME Ordered, Kept', NEW q \in Queues, Leave(q) \/ GiveUp(q) \/ Defer(q) \/ RunThrows(q)
    PROVE  Ordered'
<1>1. UNCHANGED <<fate, answers>>
  BY DEF Leave, GiveUp, Defer, RunThrows, history
<1>2. CASE Leave(q) \/ GiveUp(q) \/ RunThrows(q)
  <2>1. Exit(q, queue[q])
    BY <1>2 DEF Leave, GiveUp, RunThrows
  <2>2. QED
    BY <1>1, <2>1, ExitOrdered
<1>3. CASE Defer(q)
  <2>1. Exit(q, Restored(queue[q], drain[q].job))
    BY <1>3 DEF Defer
  <2>2. queue[q] \in QueueRecords
    BY DEF Ordered, Kept, Contents
  <2>3. Restored(queue[q], drain[q].job).items = queue[q].items
    BY <2>2 DEF Restored, QueueRecords
  <2>4. QED
    BY <1>1, <2>1, <2>3, ExitOrdered
<1>4. QED
  BY <1>2, <1>3

LEMMA DropsOrdered ==
    ASSUME Ordered, Kept', NEW q \in Queues, DropAborted(q) \/ Dropped(q) \/ Admit(q)
    PROVE  Ordered'
<1>1. /\ drain \in [Queues -> Drains] /\ queue \in [Queues -> QueueRecords]
      /\ queue[q].items \in Seq(Message) /\ Range(queue[q].items) \in SUBSET Seen
      /\ fate \in [Message -> Fates]
  BY JobSeen DEF Ordered, Kept, Work, Contents, Kinds
<1>2. JobsEnd
  BY DEF Ordered
<1>3. CASE DropAborted(q)
  <2> DEFINE i == Max(AbortedIn(queue[q]))
  <2>1. /\ drain[q].pc = "loop" /\ UNCHANGED <<queue, answers>> /\ AbortedIn(queue[q]) # {}
        /\ drain' = [drain EXCEPT ![q].pc = "dropping", ![q].at = i]
        /\ fate' = [fate EXCEPT ![queue[q].items[i]] = "aborted"]
    BY <1>3 DEF DropAborted
  <2>2. i \in DOMAIN queue[q].items
    <3>1. AbortedIn(queue[q]) \in SUBSET (1..Len(queue[q].items)) /\ AbortedIn(queue[q]) \in SUBSET Nat
      BY <1>1 DEF AbortedIn
    <3>2. IsFiniteSet(AbortedIn(queue[q]))
      BY <1>1, <3>1, IndicesFinite, FS_Subset
    <3>3. i \in AbortedIn(queue[q])
      BY <2>1, <3>1, <3>2, Greatest
    <3>4. QED
      BY <1>1, <3>1, <3>3
  <2> HIDE DEF i
  <2>3. queue[q].items[i] \in Seen
    BY <1>1, <2>2 DEF Range
  <2>4. Unseen' = Unseen
    BY <1>1, <2>1, <2>3 DEF Unseen, Seen
  <2>5. \A p \in Queues : drain'[p].job = drain[p].job /\ (p # q => drain'[p] = drain[p])
    BY <1>1, <2>1 DEF Drains
  <2>6. JobsEnd'
    BY <1>2, <2>1, <2>5 DEF JobsEnd
  <2>7. \A p \in Queues : Thin(queue'[p].items, queue[p].items, Unseen)
    BY <2>1, ThinQueues
  <2>8. QED
    BY <2>1, <2>4, <2>5, <2>6, <2>7, SameSeen
<1>4. CASE Dropped(q)
  <2> DEFINE i == drain[q].at
             left == IF i \in DOMAIN queue[q].items THEN RemoveAt(queue[q].items, i) ELSE queue[q].items
             drop == IF left = <<>> THEN 0 ELSE queue[q].dropped
             lines == IF left = <<>> THEN <<>> ELSE queue[q].lines
  <2>1. /\ drain[q].pc = "dropping" /\ UNCHANGED <<fate, answers>>
        /\ drain' = [drain EXCEPT ![q].pc = "loop", ![q].at = 0]
        /\ queue' = [queue EXCEPT ![q].items = left, ![q].dropped = drop, ![q].lines = lines]
    BY <1>4 DEF Dropped, history
  <2>2. Thin(left, queue[q].items, Unseen)
    <3>1. Ascending(queue[q].items)
      BY DEF Ordered, Lined
    <3>2. CASE i \in DOMAIN queue[q].items
      <4>1. i \in 1..Len(queue[q].items)
        BY <1>1, <3>2
      <4> HIDE DEF i
      <4>2. QED
        BY <1>1, <3>1, <3>2, <4>1, ThinRemoved
    <3>3. CASE i \notin DOMAIN queue[q].items
      BY <3>3, ThinQueues
    <3>4. QED
      BY <3>2, <3>3
  <2> HIDE DEF left, drop, lines
  <2>3. \A p \in Queues : Thin(queue'[p].items, queue[p].items, Unseen)
    <3>1. queue'[q].items = left /\ \A p \in Queues \ {q} : queue'[p] = queue[p]
      BY <1>1, <2>1 DEF QueueRecords
    <3>2. QED
      BY <2>2, <3>1, ThinQueues
  <2>4. \A p \in Queues : drain'[p].job = drain[p].job /\ (p # q => drain'[p] = drain[p])
    BY <1>1, <2>1 DEF Drains
  <2>5. JobsEnd' /\ Unseen' = Unseen
    BY <1>2, <2>1, <2>4, SameFates DEF JobsEnd
  <2>6. QED
    BY <2>1, <2>3, <2>4, <2>5, SameSeen
<1>5. CASE Admit(q)
  <2>1. /\ UNCHANGED <<queue, fate, answers>>
        /\ drain' = [drain EXCEPT ![q].pc = "run"]
    BY <1>5 DEF Admit, history
  <2>2. /\ \A p \in Queues : drain'[p].job = drain[p].job /\ (p # q => drain'[p] = drain[p])
        /\ drain'[q].pc = "run"
    BY <1>1, <2>1 DEF Drains
  <2>3. JobsEnd' /\ Unseen' = Unseen
    BY <1>2, <2>1, <2>2, SameFates DEF JobsEnd
  <2>4. \A p \in Queues : Thin(queue'[p].items, queue[p].items, Unseen)
    BY <2>1, ThinQueues
  <2>5. QED
    BY <2>1, <2>2, <2>3, <2>4, SameSeen
<1>6. QED
  BY <1>3, <1>4, <1>5

\* What enqueueFollowupRun does to the queue under the key, or to a new one.
LEMMA Enqueued ==
    ASSUME Kept, NEW s \in Settings, Enqueue(s)
    PROVE  \E m \in Unseen, q \in Queues, old \in QueueRecords :
              /\ m \in Message /\ \A n \in Unseen : m <= n
              /\ Unseen' = Unseen \ {m}
              /\ IF table = None THEN drain[q] = Idle ELSE q = table
              /\ GoodQueue(old, Seen) /\ old.items = queue[q].items /\ old.policy = s.policy
              /\ table' \in {table, q} /\ drain' \in {drain, Scheduled(table', drain)}
              /\ UNCHANGED answers
              /\ \/ UNCHANGED <<table, queue>> /\ fate' = [fate EXCEPT ![m] = "aborted"]
                 \/ /\ table' = q /\ queue' = [queue EXCEPT ![q] = old]
                    /\ fate' = [fate EXCEPT ![m] = "refused"]
                 \/ /\ table' = q /\ ~Refuses(old)
                    /\ queue' = [queue EXCEPT ![q] = [MakeRoom(old) EXCEPT !.items = Append(@, m)]]
                    /\ \A n \in Message :
                          /\ n = m => fate'[n] = "queued"
                          /\ n # m /\ n \notin Range(Excess(old)) => fate'[n] = fate[n]
                          /\ n # m /\ n \in Range(Excess(old)) => fate'[n] \in {"summarized", "dropped"}
<1> DEFINE m == NextMessage
           q == IF table = None THEN Fresh ELSE table
           old == IF table = None THEN EmptyQueue(s)
                  ELSE [queue[table] EXCEPT !.mode = s.mode, !.policy = s.policy]
           out == IF old.policy = "summarize" THEN "summarized" ELSE "dropped"
           grown == [MakeRoom(old) EXCEPT !.items = Append(@, m)]
           scheduled(t) == IF active = None THEN Scheduled(t, drain) ELSE drain
<1>1. arriving > 0 /\ UNCHANGED answers
  BY DEF Enqueue
<1>2. /\ queue \in [Queues -> QueueRecords] /\ fate \in [Message -> Fates]
      /\ table \in Queues \cup {None} /\ s \in Setting
  BY SettingsAssumption DEF Kept, Contents, Kinds
<1>3. m \in Unseen /\ m \in Message /\ fate[m] = "new" /\ \A n \in Unseen : m <= n
  <2>1. m \in Unseen
    BY <1>1, NextUnseen
  <2>2. Unseen # {} /\ Unseen \in SUBSET Nat /\ IsFiniteSet(Unseen)
    BY <2>1, UnseenFinite, Ordinal
  <2>3. Min(Unseen) \in Unseen /\ \A n \in Unseen : Min(Unseen) <= n
    BY <2>2, Least
  <2>4. \A n \in Unseen : m <= n
    BY <2>3 DEF NextMessage
  <2>5. QED
    BY <2>1, <2>4, UnseenFinite
<1>4. q \in Queues /\ (IF table = None THEN drain[q] = Idle ELSE q = table)
  <2>1. CASE table = None
    <3>1. \E p \in Queues \ {table} : drain[p] = Idle
      BY <2>1, Numbers DEF Kept, Room
    <3>2. Fresh \in Queues /\ drain[Fresh] = Idle
      BY <3>1 DEF Fresh
    <3>3. QED
      BY <2>1, <3>2
  <2>2. CASE table # None
    BY <1>2, <2>2
  <2>3. QED
    BY <2>1, <2>2
<1>5. /\ old \in QueueRecords /\ GoodQueue(old, Seen) /\ old.policy = s.policy
      /\ old.items = queue[q].items
  <2>1. CASE table = None
    <3>1. old = EmptyQueue(s) /\ EmptyQueue(s).policy = s.policy
      BY <2>1 DEF EmptyQueue
    <3>2. GoodQueue(EmptyQueue(s), Seen) /\ EmptyQueue(s).items = <<>>
      BY <1>2, EmptyGood
    <3>3. queue[q].items = <<>>
      BY <1>4, <2>1, Numbers DEF Kept, PendingIsReachable
    <3> HIDE DEF old, q
    <3>4. QED
      BY <3>1, <3>2, <3>3 DEF GoodQueue
  <2>2. CASE table # None
    <3>1. table \in Queues /\ GoodQueue(queue[table], Seen) /\ queue[table] \in QueueRecords
      BY <1>2, <2>2 DEF Kept, Contents
    <3>2. old = [queue[table] EXCEPT !.mode = s.mode, !.policy = s.policy] /\ q = table
      BY <2>2
    <3> HIDE DEF old, q
    <3>3. old \in QueueRecords /\ old.items = queue[table].items /\ old.policy = s.policy
      BY <1>2, <3>1, <3>2 DEF QueueRecords, Setting
    <3>4. QED
      BY <3>1, <3>2, <3>3 DEF GoodQueue
  <2>3. QED
    BY <2>1, <2>2
<1>6. Range(Excess(old)) \subseteq Seen
  <2> HIDE DEF old
  <2>1. Range(Excess(old)) \subseteq Range(old.items)
    BY <1>5, RoomMade
  <2>2. QED
    BY <1>5, <2>1 DEF GoodQueue
<1>7. \/ /\ fate' = [fate EXCEPT ![m] = "aborted"]
         /\ drain' = scheduled(table)
         /\ UNCHANGED <<table, queue>>
      \/ /\ queue' = [queue EXCEPT ![q] = old]
         /\ table' = q
         /\ fate' = [fate EXCEPT ![m] = "refused"]
         /\ drain' = scheduled(q)
      \/ /\ ~Refuses(old)
         /\ queue' = [queue EXCEPT ![q] = grown]
         /\ table' = q
         /\ fate' = [n \in Message |-> IF n = m THEN "queued"
                                       ELSE IF n \in Range(Excess(old)) THEN out ELSE fate[n]]
         /\ drain' = scheduled(q)
  BY DEF Enqueue
<1> HIDE DEF m, q, old
<1>8. /\ fate'[m] # "new"
      /\ \A n \in Message \ {m} : fate'[n] = "new" <=> fate[n] = "new"
  <2>1. \A n \in Range(Excess(old)) : fate[n] # "new"
    BY <1>6 DEF Seen, Unseen
  <2>2. QED
    BY <1>2, <1>3, <1>7, <2>1
<1>9. Unseen' = Unseen \ {m}
  BY <1>3, <1>8 DEF Unseen
<1>10. table' \in {table, q} /\ drain' \in {drain, Scheduled(table', drain)}
  BY <1>7
<1>11. \/ UNCHANGED <<table, queue>> /\ fate' = [fate EXCEPT ![m] = "aborted"]
       \/ /\ table' = q /\ queue' = [queue EXCEPT ![q] = old]
          /\ fate' = [fate EXCEPT ![m] = "refused"]
       \/ /\ table' = q /\ ~Refuses(old)
          /\ queue' = [queue EXCEPT ![q] = [MakeRoom(old) EXCEPT !.items = Append(@, m)]]
          /\ \A n \in Message :
                /\ n = m => fate'[n] = "queued"
                /\ n # m /\ n \notin Range(Excess(old)) => fate'[n] = fate[n]
                /\ n # m /\ n \in Range(Excess(old)) => fate'[n] \in {"summarized", "dropped"}
  BY <1>7
<1>12. QED
  BY <1>1, <1>3, <1>4, <1>5, <1>9, <1>10, <1>11

LEMMA EnqueueOrdered ==
    ASSUME Ordered, Kept', NEW s \in Settings, Enqueue(s)
    PROVE  Ordered'
<1>1. PICK m \in Unseen, q \in Queues, old \in QueueRecords :
         /\ m \in Message /\ \A n \in Unseen : m <= n
         /\ Unseen' = Unseen \ {m}
         /\ GoodQueue(old, Seen) /\ old.items = queue[q].items
         /\ table' \in {table, q} /\ drain' \in {drain, Scheduled(table', drain)}
         /\ UNCHANGED answers
         /\ \/ UNCHANGED queue
            \/ queue' = [queue EXCEPT ![q] = old]
            \/ queue' = [queue EXCEPT ![q] = [MakeRoom(old) EXCEPT !.items = Append(@, m)]]
  BY Enqueued DEF Ordered
<1>2. /\ drain \in [Queues -> Drains] /\ table' \in Queues \cup {None}
      /\ queue \in [Queues -> QueueRecords]
      /\ \A p \in Queues : drain[p].pc \notin {"admit", "run"} => drain[p].job = NoJob
  BY <1>1 DEF Ordered, Kept, Work, Kinds, Contents, JobsEnd
<1>3. \A p \in Queues : /\ drain'[p].job = drain[p].job
                        /\ drain'[p].pc \notin {"admit", "run"} => drain'[p].job = NoJob
  BY <1>1, <1>2, ScheduledJobs
<1>4. JobsEnd'
  BY <1>3 DEF JobsEnd
<1>5. Numbered'
  <2> SUFFICES ASSUME NEW x \in Seen', NEW y \in Unseen' PROVE x < y
    BY DEF Numbered
  <2>1. y \in Unseen /\ y # m /\ m <= y /\ m \in Nat /\ y \in Nat
    BY <1>1, Ordinal, UnseenFinite
  <2>2. x \in Seen \/ x = m
    BY <1>1 DEF Seen
  <2>3. QED
    BY <2>1, <2>2 DEF Ordered, Numbered
<1>6. /\ queue[q].items \in Seq(Message) /\ Ascending(queue[q].items)
      /\ \A k \in 1..Len(queue[q].items) : queue[q].items[k] < m
  <2>1. /\ queue[q].items \in Seq(Message) /\ Ascending(queue[q].items)
        /\ Range(queue[q].items) \in SUBSET Seen
    BY JobSeen DEF Ordered, Lined
  <2>2. QED
    BY <2>1, SeqRange DEF Ordered, Numbered
<1>7. /\ MakeRoom(old) \in QueueRecords
      /\ \E n \in Nat : MakeRoom(old).items = Remaining(queue[q].items, n)
  BY <1>1, RoomMade
<1> DEFINE grown == [MakeRoom(old) EXCEPT !.items = Append(@, m)]
<1>8. grown.items = Append(MakeRoom(old).items, m)
  BY <1>7 DEF QueueRecords
<1>9. Thin(grown.items, queue[q].items, Unseen)
  <2> HIDE DEF grown
  <2>1. PICK n \in Nat : MakeRoom(old).items = Remaining(queue[q].items, n)
    BY <1>7
  <2>2. QED
    BY <1>1, <1>6, <1>8, <2>1, ThinGrown
<1>10. \/ queue' = queue
       \/ queue' = [queue EXCEPT ![q] = old]
       \/ queue' = [queue EXCEPT ![q] = grown]
  BY <1>1
<1> HIDE DEF grown
<1>11. \A p \in Queues : queue'[p].items = queue[p].items \/ (p = q /\ queue'[p].items = grown.items)
  BY <1>1, <1>2, <1>10
<1>12. \A p \in Queues : Thin(queue'[p].items, queue[p].items, Unseen)
  BY <1>9, <1>11, ThinQueues
<1>13. Unseen' \subseteq Unseen
  BY <1>1
<1>14. QED
  BY <1>1, <1>3, <1>4, <1>5, <1>12, <1>13, Thinned

\* The loop of q goes on to wait with a job from the front of its queue.
Picks(q, d) ==
    /\ drain[q].pc = "loop" /\ drain' = [drain EXCEPT ![q] = d] /\ d.pc = "admit"
    /\ Planned(d.job) /\ InFront(queue[q].items, d.job)
    /\ Messages(d.job) \subseteq Range(queue[q].items)
    /\ d.job.kind = "vehicle" => queue[q].policy = "summarize"
    /\ UNCHANGED <<table, queue, fate, answers>>

LEMMA ChoosePicks ==
    ASSUME NEW q \in Queues, NEW kind, NEW batch, NEW rest, NEW summary, NEW force,
           Choose(q, kind, batch, rest, summary, force),
           kind = "vehicle" => queue[q].policy = "summarize",
           \A j : j.batch = batch /\ j.rest = rest =>
              /\ Planned(j) /\ InFront(queue[q].items, j) /\ Messages(j) \subseteq Range(queue[q].items)
    PROVE  \E d : Picks(q, d)
<1> DEFINE count == IF summary THEN queue[q].dropped ELSE 0
           lines == IF summary THEN queue[q].lines ELSE <<>>
           job == [kind |-> kind, batch |-> batch, rest |-> rest, count |-> count, lines |-> lines]
           d == [pc |-> "admit", force |-> force, at |-> 0, job |-> job]
<1>1. /\ drain[q].pc = "loop" /\ drain' = [drain EXCEPT ![q] = d]
      /\ UNCHANGED <<table, queue, fate, answers>>
  BY DEF Choose, history
<1>2. d.pc = "admit" /\ d.job = job /\ job.batch = batch /\ job.rest = rest /\ job.kind = kind
  OBVIOUS
<1> HIDE DEF d, job
<1>3. Picks(q, d)
  BY <1>1, <1>2 DEF Picks
<1>4. QED
  BY <1>3

\* An item at the head is a job by itself.
LEMMA HeadFirst ==
    ASSUME NEW items \in Seq(Message), Ascending(items), items # <<>>, NEW j,
           j.batch = <<Head(items)>>, j.rest = <<>>
    PROVE  Planned(j) /\ InFront(items, j) /\ Messages(j) \subseteq Range(items)
<1> DEFINE h == Head(items)
<1>1. h = items[1] /\ 1 \in 1..Len(items) /\ h \in Message /\ h \in Range(items)
  <2>1. h = items[1] /\ 1 \in 1..Len(items) /\ h \in Message
    OBVIOUS
  <2>2. QED
    BY <2>1, SeqRange
<1> HIDE DEF h
<1>2. Later(j) = {}
  BY Members DEF Later
<1>3. Messages(j) = {h}
  BY <1>2 DEF Messages, Range, h
<1>4. Planned(j)
  <2>1. Ascending(j.batch)
    <3>1. DOMAIN j.batch = {1}
      OBVIOUS
    <3>2. ~(1 < 1)
      OBVIOUS
    <3>3. QED
      BY <3>1, <3>2 DEF Ascending
  <2>2. Successive(j.rest)
    BY DEF Successive
  <2>3. QED
    BY <1>2, <2>1, <2>2 DEF Planned
<1>5. InFront(items, j)
  <2> SUFFICES ASSUME NEW i \in DOMAIN items, items[i] \in Messages(j)
               PROVE  i <= Cardinality(UpTo(Messages(j), items[i]))
    BY DEF InFront
  <2>1. i \in 1..Len(items) /\ items[i] = items[1]
    BY <1>1, <1>3
  <2>2. i = 1
    BY <1>1, <2>1, AscendingCount
  <2>3. Messages(j) \in SUBSET Message /\ \A k \in 1..i : items[k] \in Messages(j)
    BY <1>1, <1>3, <2>2
  <2>4. QED
    BY <2>1, <2>3, Prefixed
<1>6. QED
  BY <1>1, <1>3, <1>4, <1>5

LEMMA TakesPick ==
    ASSUME Ordered, NEW q \in Queues,
           TakeItem(q) \/ TakeVehicle(q) \/ Collect(q) \/ TakeSummary(q)
    PROVE  \E d : Picks(q, d)
<1> DEFINE items == queue[q].items
<1>1. items \in Seq(Message) /\ Ascending(items)
  BY JobSeen DEF Ordered, Lined
<1>2. CASE TakeItem(q) \/ TakeVehicle(q)
  <2>1. /\ items # <<>>
        /\ \E kind, summary, force :
              /\ Choose(q, kind, <<Head(items)>>, <<>>, summary, force)
              /\ kind = "vehicle" => queue[q].policy = "summarize"
    <3>1. CASE TakeItem(q)
      <4>1. "item" # "vehicle"
        OBVIOUS
      <4>2. /\ items # <<>>
            /\ \E force : Choose(q, "item", <<Head(items)>>, <<>>, FALSE, force)
        BY <3>1 DEF TakeItem
      <4>3. QED
        BY <4>1, <4>2
    <3>2. CASE TakeVehicle(q)
      <4>1. /\ items # <<>>
            /\ Choose(q, "vehicle", <<Head(items)>>, <<>>, TRUE, drain[q].force)
        BY <3>2 DEF TakeVehicle
      <4>2. queue[q].policy = "summarize"
        BY <3>2 DEF TakeVehicle, HasSummary
      <4>3. QED
        BY <4>1, <4>2
    <3>3. QED
      BY <1>2, <3>1, <3>2
  <2>2. \A j : j.batch = <<Head(items)>> /\ j.rest = <<>> =>
           Planned(j) /\ InFront(items, j) /\ Messages(j) \subseteq Range(items)
    BY <1>1, <2>1, HeadFirst
  <2>3. QED
    BY <2>1, <2>2, ChoosePicks
<1>3. CASE Collect(q)
  <2>1. /\ items # <<>>
        /\ \E summary : Choose(q, "batch", Head(Groups(items)), Tail(Groups(items)), summary, FALSE)
    BY <1>3 DEF Collect
  <2> HIDE DEF items
  <2>2. ASSUME NEW j, j.batch = Head(Groups(items)), j.rest = Tail(Groups(items))
        PROVE  Planned(j) /\ InFront(items, j) /\ Messages(j) \subseteq Range(items)
    <3>1. Planned(j) /\ Messages(j) = Range(items)
      BY <1>1, <2>1, <2>2, GroupsPlanned
    <3>2. Range(items) \in SUBSET Message /\ \A k \in 1..Len(items) : items[k] \in Range(items)
      BY <1>1, SeqRange
    <3>3. ASSUME NEW i \in 1..Len(items) PROVE i <= Cardinality(UpTo(Range(items), items[i]))
      <4>1. \A k \in 1..i : items[k] \in Range(items)
        BY <1>1, <3>2
      <4>2. QED
        BY <1>1, <3>2, <4>1, Prefixed
    <3>4. InFront(items, j)
      BY <1>1, <3>1, <3>3 DEF InFront
    <3>5. QED
      BY <3>1, <3>4
  <2>3. QED
    BY <2>1, <2>2, ChoosePicks DEF items
<1>4. CASE TakeSummary(q)
  <2>1. Choose(q, "summary", <<>>, <<>>, TRUE, drain[q].force)
    BY <1>4 DEF TakeSummary
  <2>2. ASSUME NEW j, j.batch = <<>>, j.rest = <<>>
        PROVE  Planned(j) /\ InFront(items, j) /\ Messages(j) \subseteq Range(items)
    <3>1. Later(j) = {}
      BY <2>2, Members DEF Later
    <3>2. Messages(j) = {}
      BY <2>2, <3>1 DEF Messages, Range
    <3>3. Planned(j)
      BY <2>2, <3>1 DEF Planned, Successive, Ascending
    <3>4. QED
      BY <3>2, <3>3 DEF InFront
  <2> HIDE DEF items
  <2>3. QED
    BY <2>1, <2>2, ChoosePicks DEF items
<1>5. QED
  BY <1>2, <1>3, <1>4

LEMMA TakesOrdered ==
    ASSUME Ordered, Kept', NEW q \in Queues,
           TakeItem(q) \/ TakeVehicle(q) \/ Collect(q) \/ TakeSummary(q)
    PROVE  Ordered'
  BY TakesPick, Chosen DEF Picks

-----------------------------------------------------------------------------
(* The end of a run.                                                       *)

\* A job's batches to come are behind the present one.
LEMMA Ranks ==
    ASSUME NEW j, Planned(j), j.batch \in Seq(Message), Messages(j) \in SUBSET Message
    PROVE  /\ Range(j.batch) \cap Later(j) = {}
           /\ \A x \in Range(j.batch) : Cardinality(UpTo(Messages(j), x)) <= Len(j.batch)
           /\ \A x \in Later(j) : Cardinality(UpTo(Messages(j), x)) = Len(j.batch) + Cardinality(UpTo(Later(j), x))
<1> DEFINE B == Range(j.batch)
           L == Later(j)
           M == Messages(j)
<1>1. /\ B \in SUBSET Message /\ L \in SUBSET Message /\ M \in SUBSET Message /\ M = B \cup L
      /\ \A b \in B, x \in L : b < x
  BY DEF Messages, Planned
<1>2. IsFiniteSet(B) /\ Cardinality(B) = Len(j.batch) /\ Len(j.batch) \in Nat
  BY AscendingCount DEF Planned
<1> HIDE DEF B, L, M
<1>3. \A x \in M : x \in Nat
  BY <1>1, Ordinal
<1>4. B \cap L = {}
  BY <1>1, <1>3
<1>5. ASSUME NEW x \in B PROVE Cardinality(UpTo(M, x)) <= Len(j.batch)
  <2>1. UpTo(M, x) \in SUBSET B
    BY <1>1, <1>3 DEF UpTo
  <2>2. QED
    BY <1>2, <2>1, FS_Subset
<1>6. ASSUME NEW x \in L
      PROVE  Cardinality(UpTo(M, x)) = Len(j.batch) + Cardinality(UpTo(L, x))
  <2>1. UpTo(M, x) = B \cup UpTo(L, x)
    <3>1. \A b \in B : b <= x
      BY <1>1, <1>3
    <3>2. QED
      BY <1>1, <3>1 DEF UpTo
  <2>2. B \cap UpTo(L, x) = {}
    BY <1>4 DEF UpTo
  <2>3. IsFiniteSet(UpTo(L, x)) /\ Cardinality(UpTo(L, x)) \in Nat
    BY <1>1, UpToFinite
  <2>4. Cardinality(B \cup UpTo(L, x)) = Cardinality(B) + Cardinality(UpTo(L, x)) - Cardinality(B \cap UpTo(L, x))
    BY <1>2, <2>3, FS_Union
  <2>5. Cardinality(B \cap UpTo(L, x)) = 0
    BY <2>2, FS_EmptySet
  <2>6. Cardinality(UpTo(M, x)) = Cardinality(B \cup UpTo(L, x))
    BY <2>1
  <2> DEFINE b == Cardinality(B)
             c == Cardinality(UpTo(L, x))
  <2>7. b + c - 0 = b + c
    BY <1>2, <2>3
  <2>8. QED
    BY <1>2, <2>4, <2>5, <2>6, <2>7
<1>7. QED
  BY <1>4, <1>5, <1>6 DEF B, L, M

\* What Returned does: as many items go as ran, and the next batch comes.
LEMMA AfterRun ==
    ASSUME Ordered, NEW q \in Queues, Returned(q)
    PROVE  /\ queue'[q].items = Remaining(queue[q].items, Len(drain[q].job.batch))
           /\ queue'[q].policy = queue[q].policy /\ table' = table
           /\ \A p \in Queues \ {q} : queue'[p] = queue[p] /\ drain'[p] = drain[p]
           /\ Messages(drain'[q].job) = Later(drain[q].job) /\ Planned(drain'[q].job)
           /\ drain'[q].pc \in {"loop", "admit"} /\ (drain'[q].pc = "loop" => drain'[q].job = NoJob)
           /\ drain'[q].job.kind # "vehicle"
<1> DEFINE job == drain[q].job
           left == Remaining(queue[q].items, Len(job.batch))
           drop == IF job.count > 0 THEN 0 ELSE queue[q].dropped
           lines == IF job.count > 0 THEN <<>> ELSE queue[q].lines
           next == [NoJob EXCEPT !.kind = "batch", !.batch = Head(job.rest), !.rest = Tail(job.rest)]
           d == IF job.rest = <<>> THEN [drain[q] EXCEPT !.pc = "loop", !.job = NoJob]
                ELSE [drain[q] EXCEPT !.pc = "admit", !.job = next]
<1>1. /\ queue \in [Queues -> QueueRecords] /\ drain[q] \in Drains /\ drain \in [Queues -> Drains]
      /\ job.rest \in Seq(Seq(Message)) /\ Planned(job)
  BY JobSeen DEF Ordered, Kept, Contents, Work, Lined
<1>2. /\ queue' = [queue EXCEPT ![q].items = left, ![q].dropped = drop, ![q].lines = lines]
      /\ drain' = [drain EXCEPT ![q] = d] /\ table' = table
  BY DEF Returned
<1>3. /\ queue'[q].items = left /\ queue'[q].policy = queue[q].policy
      /\ \A p \in Queues \ {q} : queue'[p] = queue[p] /\ drain'[p] = drain[p]
      /\ drain'[q] = d
  <2> HIDE DEF left, drop, lines, d
  <2>1. QED
    BY <1>1, <1>2 DEF QueueRecords
<1>4. CASE job.rest = <<>>
  <2>1. d = [drain[q] EXCEPT !.pc = "loop", !.job = NoJob]
    BY <1>4
  <2>2. d.job = NoJob /\ d.pc = "loop"
    BY <1>1, <2>1 DEF Drains
  <2>3. Later(job) = {}
    BY <1>4, Members DEF Later
  <2>4. NoJob.kind # "vehicle"
    BY DEF NoJob
  <2> HIDE DEF d, left, job
  <2>5. QED
    BY <1>2, <1>3, <2>2, <2>3, <2>4, NoJobPlanned DEF left, job
<1>5. CASE job.rest # <<>>
  <2>1. d = [drain[q] EXCEPT !.pc = "admit", !.job = next]
    BY <1>5
  <2>2. next.batch = Head(job.rest) /\ next.rest = Tail(job.rest) /\ next.kind = "batch"
    BY DEF NoJob
  <2> HIDE DEF next
  <2>3. d.job = next /\ d.pc = "admit"
    BY <1>1, <2>1 DEF Drains
  <2> HIDE DEF d, left, job
  <2>4. Successive(job.rest)
    BY <1>1 DEF Planned
  <2>5. Planned(next) /\ Messages(next) = Together(job.rest)
    BY <1>1, <1>5, <2>2, <2>4, FirstPlanned
  <2>6. QED
    BY <1>2, <1>3, <2>2, <2>3, <2>5 DEF left, job, Later
<1>6. QED
  BY <1>4, <1>5

\* What ran is no longer in the queue, and what is to be run is in front.
LEMMA NoneLeft ==
    ASSUME Ordered, NEW q \in Queues, Returned(q)
    PROVE  /\ Range(queue'[q].items) \subseteq Range(queue[q].items)
           /\ Range(queue'[q].items) \cap Range(drain[q].job.batch) = {}
           /\ Ascending(queue'[q].items) /\ InFront(queue'[q].items, drain'[q].job)
<1> DEFINE j == drain[q].job
           s == queue[q].items
           n == Len(j.batch)
           r == Remaining(s, n)
<1>1. /\ s \in Seq(Message) /\ Ascending(s) /\ Planned(j) /\ j.batch \in Seq(Message)
      /\ Messages(j) \in SUBSET Message /\ InFront(s, j) /\ n \in Nat
  BY JobSeen DEF Ordered, Lined
<1>2. queue'[q].items = r /\ Messages(drain'[q].job) = Later(j)
  BY AfterRun
<1> HIDE DEF j, s, n
<1>3. /\ Ascending(r) /\ r \in Seq(Message)
      /\ \A i \in DOMAIN r : i + n \in 1..Len(s) /\ r[i] = s[i + n]
  BY <1>1, ThinRemaining DEF Thin
<1> HIDE DEF r
<1>4. /\ Range(j.batch) \subseteq Messages(j) /\ Later(j) \subseteq Messages(j)
      /\ Range(j.batch) \cap Later(j) = {}
      /\ \A x \in Range(j.batch) : Cardinality(UpTo(Messages(j), x)) <= n
      /\ \A x \in Later(j) : Cardinality(UpTo(Messages(j), x)) = n + Cardinality(UpTo(Later(j), x))
  BY <1>1, Ranks DEF Messages, n
<1>5. \A i \in DOMAIN r : i \in Nat /\ i >= 1 /\ i + n \in DOMAIN s
  BY <1>1, <1>3
<1>6. ASSUME NEW i \in DOMAIN r, r[i] \in Range(j.batch) PROVE FALSE
  <2>1. s[i + n] \in Messages(j) /\ r[i] = s[i + n]
    BY <1>3, <1>4, <1>6
  <2>2. i + n <= Cardinality(UpTo(Messages(j), s[i + n]))
    BY <1>1, <1>5, <2>1 DEF InFront
  <2>3. Cardinality(UpTo(Messages(j), s[i + n])) <= n
    BY <1>4, <1>6, <2>1
  <2>4. Cardinality(UpTo(Messages(j), s[i + n])) \in Nat
    BY <1>1, UpToFinite
  <2>5. QED
    BY <1>1, <1>5, <2>2, <2>3, <2>4
<1>7. ASSUME NEW i \in DOMAIN r, r[i] \in Later(j) PROVE i <= Cardinality(UpTo(Later(j), r[i]))
  <2>1. s[i + n] \in Messages(j) /\ r[i] = s[i + n]
    BY <1>3, <1>4, <1>7
  <2>2. i + n <= Cardinality(UpTo(Messages(j), r[i]))
    BY <1>1, <1>5, <2>1 DEF InFront
  <2>3. Cardinality(UpTo(Messages(j), r[i])) = n + Cardinality(UpTo(Later(j), r[i]))
    BY <1>4, <1>7
  <2>4. Later(j) \in SUBSET Message
    BY <1>1, <1>4
  <2>5. Cardinality(UpTo(Later(j), r[i])) \in Nat
    BY <2>4, UpToFinite
  <2>6. QED
    BY <1>1, <1>5, <2>2, <2>3, <2>5
<1>8. Range(r) \subseteq Range(s)
  BY <1>3, <1>5 DEF Range
<1>9. Range(r) \cap Range(j.batch) = {}
  BY <1>6 DEF Range
<1>10. InFront(r, drain'[q].job)
  BY <1>2, <1>7 DEF InFront
<1>11. QED
  BY <1>2, <1>3, <1>8, <1>9, <1>10 DEF s, j

LEMMA ReturnedOrdered ==
    ASSUME Ordered, Kept', NEW q \in Queues, Returned(q), Unseen' = Unseen,
           \A m \in Message : \/ answers'[m] = answers[m]
                              \/ m \in Range(drain[q].job.batch) /\ answers'[m] = answers[m] + 1
    PROVE  Ordered'
<1> DEFINE B == Range(drain[q].job.batch)
           L == Later(drain[q].job)
<1>1. /\ queue'[q].items = Remaining(queue[q].items, Len(drain[q].job.batch))
      /\ \A p \in Queues \ {q} : queue'[p] = queue[p] /\ drain'[p] = drain[p]
      /\ Messages(drain'[q].job) = L /\ Planned(drain'[q].job)
      /\ drain'[q].pc \in {"loop", "admit"} /\ (drain'[q].pc = "loop" => drain'[q].job = NoJob)
  BY AfterRun
<1>2. /\ Range(queue'[q].items) \subseteq Range(queue[q].items)
      /\ Range(queue'[q].items) \cap B = {}
      /\ Ascending(queue'[q].items) /\ InFront(queue'[q].items, drain'[q].job)
  BY NoneLeft
<1>3. /\ B \subseteq Messages(drain[q].job) /\ L \subseteq Messages(drain[q].job) /\ B \cap L = {}
      /\ B \subseteq Message /\ B \cap Unseen = {}
  <2>1. /\ Planned(drain[q].job) /\ drain[q].job.batch \in Seq(Message)
        /\ Messages(drain[q].job) \in SUBSET Message /\ Messages(drain[q].job) \in SUBSET Seen
    BY JobSeen DEF Ordered, Lined
  <2>2. B \cap L = {}
    BY <2>1, Ranks
  <2>3. B \subseteq Messages(drain[q].job) /\ L \subseteq Messages(drain[q].job)
    BY DEF Messages
  <2> HIDE DEF B, L
  <2>4. QED
    BY <2>1, <2>2, <2>3 DEF Seen
<1> HIDE DEF B, L
<1>4. \A p \in Queues : /\ Messages(drain'[p].job) \subseteq Messages(drain[p].job)
                        /\ Range(queue'[p].items) \subseteq Range(queue[p].items)
  <2>1. \A p \in Queues \ {q} : /\ Messages(drain'[p].job) = Messages(drain[p].job)
                                /\ Range(queue'[p].items) = Range(queue[p].items)
    BY <1>1
  <2>2. QED
    BY <1>1, <1>2, <1>3, <2>1
<1>5. Apart'
  BY <1>4 DEF Ordered, Apart
<1>6. Numbered'
  BY DEF Ordered, Numbered, Seen
<1>7. JobsEnd'
  BY <1>1 DEF Ordered, JobsEnd
<1>8. Lined'
  <2> SUFFICES ASSUME NEW p \in Queues
               PROVE  /\ Ascending(queue'[p].items) /\ Planned(drain'[p].job)
                      /\ InFront(queue'[p].items, drain'[p].job)
    BY DEF Lined
  <2>1. CASE p = q
    BY <1>1, <1>2, <2>1
  <2>2. CASE p # q
    BY <1>1, <2>2 DEF Ordered, Lined
  <2>3. QED
    BY <2>1, <2>2
<1>9. ASSUME NEW m \in Message, NEW p \in Queues,
             m \in Range(queue'[p].items) \cup Messages(drain'[p].job)
      PROVE  m \notin B
  <2>1. CASE p = q
    BY <1>1, <1>2, <1>3, <1>9, <2>1
  <2>2. CASE p # q
    <3>1. /\ Messages(drain[p].job) \cap Messages(drain[q].job) = {}
          /\ \A x \in Messages(drain[q].job), y \in Range(queue[p].items) : x < y
      BY <2>2 DEF Ordered, Apart
    <3>2. ~(m < m)
      BY Ordinal
    <3>3. QED
      BY <1>3, <1>4, <1>9, <3>1, <3>2
  <2>3. QED
    BY <2>1, <2>2
<1>10. Unanswered'
  <2> SUFFICES ASSUME NEW m \in Message,
                      m \in Unseen \/ \E p \in Queues : m \in Range(queue'[p].items) \cup Messages(drain'[p].job)
               PROVE  answers'[m] = 0
    BY DEF Unanswered
  <2>1. m \notin B
    BY <1>3, <1>9
  <2>2. answers'[m] = answers[m]
    BY <2>1 DEF B
  <2>3. m \in Unseen \/ \E p \in Queues : m \in Range(queue[p].items) \cup Messages(drain[p].job)
    BY <1>4
  <2>4. QED
    BY <2>2, <2>3 DEF Ordered, Unanswered
<1>11. AnsweredOnce'
  <2> SUFFICES ASSUME NEW m \in Message PROVE answers'[m] <= 1
    BY DEF AnsweredOnce
  <2>1. CASE answers'[m] = answers[m]
    BY <2>1 DEF Ordered, AnsweredOnce
  <2>2. CASE m \in B /\ answers'[m] = answers[m] + 1
    <3>1. answers[m] = 0
      BY <1>3, <2>2 DEF Ordered, Unanswered
    <3>2. QED
      BY <2>2, <3>1
  <2>3. QED
    BY <2>1, <2>2 DEF B
<1>12. QED
  BY <1>5, <1>6, <1>7, <1>8, <1>10, <1>11 DEF Ordered

LEMMA RunsOrdered ==
    ASSUME Ordered, Kept', NEW q \in Queues, Skip(q) \/ RunReturns(q)
    PROVE  Ordered'
<1>1. CASE Skip(q)
  <2>1. /\ Returned(q) /\ UNCHANGED answers
        /\ fate' = [m \in Message |-> IF m \in Range(drain[q].job.batch) THEN "aborted" ELSE fate[m]]
    BY <1>1 DEF Skip
  <2>2. Range(drain[q].job.batch) \subseteq Seen
    BY JobSeen DEF Ordered, Messages
  <2>3. Unseen' = Unseen
    BY <2>1, <2>2 DEF Unseen, Seen
  <2>4. QED
    BY <2>1, <2>3, ReturnedOrdered
<1>2. CASE RunReturns(q)
  <2>1. Returned(q) /\ UNCHANGED fate
    BY <1>2 DEF RunReturns
  <2>2. \A m \in Message : \/ answers'[m] = answers[m]
                           \/ m \in Range(drain[q].job.batch) /\ answers'[m] = answers[m] + 1
    BY <1>2 DEF RunReturns
  <2>3. QED
    BY <2>1, <2>2, SameFates, ReturnedOrdered
<1>3. QED
  BY <1>1, <1>2

-----------------------------------------------------------------------------
(* Every step keeps the order.                                             *)

LEMMA InitOrdered == Init => Ordered
<1> SUFFICES ASSUME Init PROVE Ordered
  OBVIOUS
<1>1. Kept
  BY InitKept
<1>2. /\ drain = [q \in Queues |-> Idle] /\ queue = [q \in Queues |-> Garbage]
      /\ fate = [m \in Message |-> "new"] /\ answers = [m \in Message |-> 0]
  BY DEF Init
<1>3. /\ \A q \in Queues : drain[q].job = NoJob /\ queue[q].items = <<>>
      /\ Seen = {}
  BY <1>2, EmptyGood DEF Idle, Seen, Unseen
<1>4. Numbered /\ JobsEnd /\ Apart
  BY <1>3, NoJobPlanned DEF Numbered, JobsEnd, Apart
<1>5. Lined
  BY <1>3, NoJobPlanned DEF Lined, Ascending
<1>6. Unanswered /\ AnsweredOnce
  BY <1>2 DEF Unanswered, AnsweredOnce
<1>7. QED
  BY <1>1, <1>4, <1>5, <1>6 DEF Ordered

LEMMA NextOrdered == Ordered /\ [Next]_vars => Ordered'
<1> SUFFICES ASSUME Ordered, [Next]_vars PROVE Ordered'
  OBVIOUS
<1>1. Kept'
  BY NextKeeps DEF Ordered
<1>2. CASE BeginTurn \/ EndTurn \/ Arrive \/ \E m \in Message : Abort(m)
  BY <1>1, <1>2, TurnsOrdered
<1>3. CASE Clear
  BY <1>1, <1>3, ClearOrdered
<1>4. ASSUME NEW s \in Settings, Enqueue(s) PROVE Ordered'
  BY <1>1, <1>4, EnqueueOrdered
<1>5. ASSUME NEW q \in Queues, Leave(q) \/ GiveUp(q) \/ Defer(q) \/ RunThrows(q) PROVE Ordered'
  BY <1>1, <1>5, EndsOrdered
<1>6. ASSUME NEW q \in Queues, DropAborted(q) \/ Dropped(q) \/ Admit(q) PROVE Ordered'
  BY <1>1, <1>6, DropsOrdered
<1>7. ASSUME NEW q \in Queues, TakeItem(q) \/ TakeVehicle(q) \/ Collect(q) \/ TakeSummary(q) PROVE Ordered'
  BY <1>1, <1>7, TakesOrdered
<1>8. ASSUME NEW q \in Queues, Skip(q) \/ RunReturns(q) PROVE Ordered'
  BY <1>1, <1>8, RunsOrdered
<1>9. CASE UNCHANGED vars
  <2>1. UNCHANGED <<table, queue, drain, fate, answers>>
    BY <1>9 DEF vars, queues, history
  <2>2. Seen' = Seen /\ Unseen' = Unseen
    BY <2>1, SameFates
  <2>3. Numbered' /\ Apart' /\ JobsEnd' /\ Lined'
    BY <2>1, <2>2 DEF Ordered, Numbered, Apart, JobsEnd, Lined
  <2>4. Unanswered' /\ AnsweredOnce'
    BY <2>1, <2>2 DEF Ordered, Unanswered, AnsweredOnce
  <2>5. QED
    BY <1>1, <2>3, <2>4 DEF Ordered
<1>10. QED
  BY <1>2, <1>3, <1>4, <1>5, <1>6, <1>7, <1>8, <1>9 DEF Next, DrainStep

\* A drain removes by position what it chose before it waited.  Whatever was
\* enqueued, dropped by the policy, cleared or thrown meanwhile, no message is
\* left behind that has been answered: none is answered twice.
THEOREM AnsweredAtMostOnce == Spec => []AnsweredOnce
<1>1. Ordered => AnsweredOnce
  BY DEF Ordered
<1>2. QED
  BY <1>1, InitOrdered, NextOrdered, PTL DEF Spec

-----------------------------------------------------------------------------
(* Where full queues refuse newcomers.                                     *)

LEMMA BegunNotDropping ==
    ASSUME NEW d \in [Queues -> Drains], NEW t \in Queues \cup {None}, NEW q \in Queues,
           Scheduled(t, d)[q].pc = "dropping"
    PROVE  Scheduled(t, d)[q] = d[q]
<1> DEFINE begun == [Idle EXCEPT !.pc = "loop"]
<1>1. begun.pc = "loop"
  BY DEF Idle
<1>2. Scheduled(t, d) = IF t # None /\ d[t].pc = "idle" THEN [d EXCEPT ![t] = begun] ELSE d
  BY DEF Scheduled
<1> HIDE DEF begun
<1>3. QED
  BY <1>1, <1>2

\* A step that takes nothing out of the queue under the key.
Spared(q) ==
    /\ queue'[q].policy = "new"
    /\ drain'[q].job \in {drain[q].job, NoJob}
    /\ drain'[q].pc = "dropping" => drain'[q] = drain[q]
    /\ table' = q =>
          \/ /\ table = q
             /\ \A i \in DOMAIN queue[q].items :
                   i \in DOMAIN queue'[q].items /\ queue'[q].items[i] = queue[q].items[i]
          \/ drain'[q].job = NoJob /\ drain'[q].pc # "dropping"

LEMMA SparedIntact ==
    ASSUME Whole, NEW q \in Queues, Spared(q),
           \A m \in Message : fate[m] = "aborted" => fate'[m] = "aborted"
    PROVE  Intact(q)'
<1>1. Intact(q) /\ queue[q].items \in Seq(Message)
  BY JobSeen DEF Whole, Ordered
<1>2. queue'[q].policy = "new" /\ drain'[q].job.kind # "vehicle"
  BY <1>1 DEF Spared, Intact, NoJob
<1>3. ASSUME table' = q
      PROVE  /\ Messages(drain'[q].job) \subseteq Range(queue'[q].items)
             /\ drain'[q].pc = "dropping" =>
                   /\ drain'[q].at \in DOMAIN queue'[q].items
                   /\ fate'[queue'[q].items[drain'[q].at]] = "aborted"
  <2>1. CASE drain'[q].job = NoJob /\ drain'[q].pc # "dropping"
    BY <2>1, NoJobPlanned
  <2>2. CASE /\ table = q
             /\ \A i \in DOMAIN queue[q].items :
                   i \in DOMAIN queue'[q].items /\ queue'[q].items[i] = queue[q].items[i]
    <3>1. Range(queue[q].items) \subseteq Range(queue'[q].items)
      BY <2>2 DEF Range
    <3>2. Messages(drain'[q].job) \subseteq Messages(drain[q].job)
      BY NoJobPlanned DEF Spared
    <3>3. Messages(drain'[q].job) \subseteq Range(queue'[q].items)
      BY <1>1, <2>2, <3>1, <3>2 DEF Intact
    <3>4. ASSUME drain'[q].pc = "dropping"
          PROVE  /\ drain'[q].at \in DOMAIN queue'[q].items
                 /\ fate'[queue'[q].items[drain'[q].at]] = "aborted"
      <4>1. drain'[q] = drain[q]
        BY <3>4 DEF Spared
      <4>2. /\ drain[q].at \in DOMAIN queue[q].items
            /\ fate[queue[q].items[drain[q].at]] = "aborted"
        BY <1>1, <2>2, <3>4, <4>1 DEF Intact
      <4>3. queue[q].items[drain[q].at] \in Message
        BY <1>1, <4>2
      <4>4. QED
        BY <2>2, <4>1, <4>2, <4>3
    <3>5. QED
      BY <3>3, <3>4
  <2>3. QED
    BY <1>3, <2>1, <2>2 DEF Spared
<1>4. QED
  BY <1>2, <1>3 DEF Intact

\* What is wanted after the step was before, and still is in its queue.
LEMMA StillQueued ==
    ASSUME Queued,
           \A m \in Message : fate'[m] = "queued" /\ answers'[m] = 0 => fate[m] = "queued" /\ answers[m] = 0,
           \A q \in Queues : \A m \in Range(queue[q].items) :
              fate'[m] = "queued" /\ answers'[m] = 0 => m \in Range(queue'[q].items)
    PROVE  Queued'
  BY DEF Queued

LEMMA TurnsWhole ==
    ASSUME Whole, Ordered', BeginTurn \/ EndTurn \/ Arrive \/ \E m \in Message : Abort(m)
    PROVE  Whole'
<1>1. /\ UNCHANGED <<table, queue, fate, answers>>
      /\ drain' \in {drain, Scheduled(table, drain)}
  BY DEF BeginTurn, EndTurn, Arrive, Abort, queues, history
<1>2. /\ drain \in [Queues -> Drains] /\ table \in Queues \cup {None}
      /\ \A q \in Queues : drain[q].pc \notin {"admit", "run"} => drain[q].job = NoJob
  BY DEF Whole, Ordered, Kept, Work, Kinds, JobsEnd
<1>3. ASSUME NEW q \in Queues PROVE Spared(q)
  <2>1. drain'[q].job = drain[q].job
    BY <1>1, <1>2, ScheduledJobs
  <2>2. drain'[q].pc = "dropping" => drain'[q] = drain[q]
    BY <1>1, <1>2, BegunNotDropping
  <2>3. queue[q].policy = "new"
    BY DEF Whole, Intact
  <2>4. QED
    BY <1>1, <2>1, <2>2, <2>3 DEF Spared
<1>4. Queued'
  BY <1>1, StillQueued DEF Whole
<1>5. QED
  BY <1>1, <1>3, <1>4, SparedIntact DEF Whole

LEMMA ClearWhole ==
    ASSUME Whole, Ordered', Clear
    PROVE  Whole'
<1> DEFINE left == IF drain[table] = Idle THEN Garbage ELSE Emptied(queue[table])
<1>1. /\ table \in Queues /\ queue' = [queue EXCEPT ![table] = left] /\ table' = None
      /\ queue \in [Queues -> QueueRecords]
      /\ fate' = [m \in Message |-> IF m \in Range(queue[table].items) THEN "cleared" ELSE fate[m]]
      /\ UNCHANGED <<drain, answers>>
  BY DEF Clear, Whole, Ordered, Kept, Kinds, Contents
<1>2. left.policy = "new"
  <2>1. queue[table].policy = "new"
    BY <1>1 DEF Whole, Intact
  <2>2. Emptied(queue[table]).policy = "new"
    BY <1>1, <2>1 DEF Emptied, QueueRecords
  <2>3. Garbage.policy = "new"
    BY DEF Garbage, EmptyQueue
  <2>4. QED
    BY <2>2, <2>3
<1> HIDE DEF left
<1>3. ASSUME NEW q \in Queues PROVE Intact(q)'
  <2>1. Intact(q)
    BY DEF Whole
  <2>2. queue'[q].policy = "new"
    BY <1>1, <1>2, <2>1 DEF Intact
  <2>3. table' # q
    BY <1>1, Numbers
  <2>4. QED
    BY <1>1, <2>1, <2>2, <2>3 DEF Intact
<1>4. Queued'
  <2>1. \A q \in Queues : \A m \in Range(queue[q].items) : m \in Message
    BY JobSeen DEF Whole, Ordered, Seen
  <2>2. \A q \in Queues : q # table => queue'[q] = queue[q]
    BY <1>1
  <2>3. QED
    BY <1>1, <2>1, <2>2, StillQueued DEF Whole
<1>5. QED
  BY <1>3, <1>4 DEF Whole

LEMMA ExitWhole ==
    ASSUME Whole, Ordered', NEW q \in Queues, NEW r, r.items = queue[q].items,
           r.policy = queue[q].policy, Exit(q, r), UNCHANGED <<fate, answers>>
    PROVE  Whole'
<1> DEFINE stopped == [drain EXCEPT ![q] = Idle]
<1>1. /\ drain \in [Queues -> Drains] /\ table \in Queues \cup {None} /\ queue \in [Queues -> QueueRecords]
      /\ \A p \in Queues : drain[p].pc \notin {"admit", "run"} => drain[p].job = NoJob
  BY DEF Whole, Ordered, Kept, Work, Kinds, Contents, JobsEnd
<1>2. /\ stopped \in [Queues -> Drains] /\ stopped[q] = Idle
      /\ Idle.job = NoJob /\ Idle.pc = "idle"
      /\ \A p \in Queues : stopped[p].pc \notin {"admit", "run"} => stopped[p].job = NoJob
      /\ \A p \in Queues \ {q} : stopped[p] = drain[p]
  <2>1. Idle \in Drains /\ Idle.job = NoJob /\ Idle.pc = "idle"
    BY NoJobGood DEF Idle
  <2>2. QED
    BY <1>1, <2>1
<1>3. /\ drain' = IF Pending(r) THEN Scheduled(table, stopped) ELSE stopped
      /\ table' = IF ~Pending(r) /\ table = q THEN None ELSE table
  BY DEF Exit
<1> HIDE DEF stopped
<1>4. \A p \in Queues : /\ drain'[p].job = stopped[p].job
                        /\ drain'[p].pc = "dropping" => drain'[p] = stopped[p]
  BY <1>1, <1>2, <1>3, ScheduledJobs, BegunNotDropping
<1>5. queue' = [queue EXCEPT ![q] = IF table' = q THEN r ELSE Garbage]
  BY DEF Exit
<1>6. Garbage.policy = "new"
  BY DEF Garbage, EmptyQueue
<1>7. ASSUME NEW p \in Queues PROVE Spared(p)
  <2>1. queue[p].policy = "new" /\ queue[q].policy = "new"
    BY DEF Whole, Intact
  <2>2. queue'[p].policy = "new"
    BY <1>1, <1>5, <1>6, <2>1
  <2>3. CASE p = q
    BY <1>2, <1>4, <2>2, <2>3 DEF Spared
  <2>4. CASE p # q
    <3>1. queue'[p] = queue[p] /\ (table' = p => table = p)
      BY <1>1, <1>3, <1>5, <2>4, Numbers
    <3>2. QED
      BY <1>2, <1>4, <2>2, <2>4, <3>1 DEF Spared
  <2>5. QED
    BY <2>3, <2>4
<1>8. \A p \in Queues : queue[p].items # <<>> => queue'[p].items = queue[p].items
  <2>1. ASSUME NEW p \in Queues, queue[p].items # <<>> PROVE queue'[p].items = queue[p].items
    <3>1. table = p
      BY <2>1 DEF Whole, Ordered, Kept, PendingIsReachable
    <3>2. CASE p = q
      <4>1. Pending(r)
        BY <2>1, <3>2 DEF Pending
      <4>2. table' = q
        BY <1>3, <3>1, <3>2, <4>1
      <4>3. QED
        BY <1>1, <1>5, <3>2, <4>2
    <3>3. CASE p # q
      BY <1>1, <1>5, <3>3
    <3>4. QED
      BY <3>2, <3>3
  <2>2. QED
    BY <2>1
<1>9. Queued'
  <2>1. Range(<<>>) = {}
    BY DEF Range
  <2>2. QED
    BY <1>8, <2>1, StillQueued DEF Whole
<1>10. QED
  BY <1>7, <1>9, SparedIntact DEF Whole

LEMMA EndsWhole ==
    ASSUME Whole, Ordered', NEW q \in Queues, Leave(q) \/ GiveUp(q) \/ Defer(q) \/ RunThrows(q)
    PROVE  Whole'
<1>1. UNCHANGED <<fate, answers>>
  BY DEF Leave, GiveUp, Defer, RunThrows, history
<1>2. CASE Leave(q) \/ GiveUp(q) \/ RunThrows(q)
  <2>1. Exit(q, queue[q])
    BY <1>2 DEF Leave, GiveUp, RunThrows
  <2>2. QED
    BY <1>1, <2>1, ExitWhole
<1>3. CASE Defer(q)
  <2> DEFINE r == Restored(queue[q], drain[q].job)
  <2>1. Exit(q, r)
    BY <1>3 DEF Defer
  <2>2. queue[q] \in QueueRecords
    BY DEF Whole, Ordered, Kept, Contents
  <2>3. r.items = queue[q].items /\ r.policy = queue[q].policy
    BY <2>2 DEF Restored, QueueRecords
  <2> HIDE DEF r
  <2>4. QED
    BY <1>1, <2>1, <2>3, ExitWhole
<1>4. QED
  BY <1>2, <1>3

LEMMA DropsWhole ==
    ASSUME Whole, Ordered', NEW q \in Queues, DropAborted(q) \/ Dropped(q) \/ Admit(q)
    PROVE  Whole'
<1>1. /\ drain \in [Queues -> Drains] /\ queue \in [Queues -> QueueRecords]
      /\ queue[q].items \in Seq(Message) /\ fate \in [Message -> Fates]
      /\ \A p \in Queues : Intact(p) /\ \A m \in Range(queue[p].items) : m \in Message
  BY JobSeen DEF Whole, Ordered, Kept, Work, Contents, Kinds, Seen
<1>2. \A p \in Queues : drain[p].pc \notin {"admit", "run"} => drain[p].job = NoJob
  BY DEF Whole, Ordered, JobsEnd
<1>3. CASE DropAborted(q)
  <2> DEFINE i == Max(AbortedIn(queue[q]))
  <2>1. /\ drain[q].pc = "loop" /\ UNCHANGED <<table, queue, answers>> /\ AbortedIn(queue[q]) # {}
        /\ drain' = [drain EXCEPT ![q].pc = "dropping", ![q].at = i]
        /\ fate' = [fate EXCEPT ![queue[q].items[i]] = "aborted"]
    BY <1>3 DEF DropAborted
  <2>2. i \in DOMAIN queue[q].items
    <3>1. AbortedIn(queue[q]) \in SUBSET (1..Len(queue[q].items)) /\ AbortedIn(queue[q]) \in SUBSET Nat
      BY <1>1 DEF AbortedIn
    <3>2. IsFiniteSet(AbortedIn(queue[q]))
      BY <1>1, <3>1, IndicesFinite, FS_Subset
    <3>3. i \in AbortedIn(queue[q])
      BY <2>1, <3>1, <3>2, Greatest
    <3>4. QED
      BY <1>1, <3>1, <3>3
  <2> HIDE DEF i
  <2>3. queue[q].items[i] \in Message
    BY <1>1, <2>2
  <2>4. /\ drain'[q].at = i /\ drain'[q].job = NoJob
        /\ \A p \in Queues \ {q} : drain'[p] = drain[p]
        /\ fate'[queue[q].items[i]] = "aborted"
        /\ \A m \in Message : fate[m] = "aborted" => fate'[m] = "aborted"
    BY <1>1, <1>2, <2>1, <2>3 DEF Drains
  <2>5. ASSUME NEW p \in Queues PROVE Intact(p)'
    <3>1. CASE p = q
      BY <1>1, <2>1, <2>2, <2>4, <3>1, NoJobPlanned DEF Intact, NoJob
    <3>2. CASE p # q
      <4>1. Spared(p)
        BY <1>1, <2>1, <2>4, <3>2 DEF Spared, Intact
      <4>2. QED
        BY <2>4, <4>1, SparedIntact
    <3>3. QED
      BY <3>1, <3>2
  <2>6. Queued'
    <3>1. \A m \in Message : fate'[m] = "queued" => fate[m] = "queued"
      BY <1>1, <2>1, <2>3
    <3>2. QED
      BY <2>1, <3>1, StillQueued DEF Whole
  <2>7. QED
    BY <2>5, <2>6 DEF Whole
<1>4. CASE Dropped(q)
  <2> DEFINE i == drain[q].at
             left == IF i \in DOMAIN queue[q].items THEN RemoveAt(queue[q].items, i) ELSE queue[q].items
             drop == IF left = <<>> THEN 0 ELSE queue[q].dropped
             lines == IF left = <<>> THEN <<>> ELSE queue[q].lines
  <2>1. /\ drain[q].pc = "dropping" /\ UNCHANGED <<table, fate, answers>>
        /\ drain' = [drain EXCEPT ![q].pc = "loop", ![q].at = 0]
        /\ queue' = [queue EXCEPT ![q].items = left, ![q].dropped = drop, ![q].lines = lines]
    BY <1>4 DEF Dropped, history
  <2>2. ASSUME NEW m \in Range(queue[q].items), fate[m] = "queued" PROVE m \in Range(left)
    <3>1. table = q
      <4>1. Range(<<>>) = {}
        BY DEF Range
      <4>2. queue[q].items # <<>>
        BY <2>2, <4>1
      <4>3. QED
        BY <4>2 DEF Whole, Ordered, Kept, PendingIsReachable
    <3>2. i \in 1..Len(queue[q].items) /\ fate[queue[q].items[i]] = "aborted"
      BY <1>1, <2>1, <3>1 DEF Intact
    <3>3. PICK k \in 1..Len(queue[q].items) : m = queue[q].items[k]
      BY <1>1, <2>2, SeqRange
    <3>4. k # i
      BY <2>2, <3>2, <3>3
    <3>5. Ascending(queue[q].items) /\ left = RemoveAt(queue[q].items, i)
      BY <1>1, <3>2 DEF Whole, Ordered, Lined
    <3> HIDE DEF i, left
    <3>6. QED
      BY <1>1, <3>2, <3>3, <3>4, <3>5, ThinRemoved
  <2> HIDE DEF left, drop, lines
  <2>3. /\ queue'[q].items = left /\ queue'[q].policy = queue[q].policy
        /\ \A p \in Queues \ {q} : queue'[p] = queue[p] /\ drain'[p] = drain[p]
        /\ drain'[q].pc = "loop" /\ drain'[q].job = NoJob
    BY <1>1, <1>2, <2>1 DEF QueueRecords, Drains
  <2>4. ASSUME NEW p \in Queues PROVE Spared(p)
    <3>1. queue[p].policy = "new"
      BY <1>1 DEF Intact
    <3>2. QED
      BY <2>1, <2>3, <3>1 DEF Spared
  <2>5. Queued'
    BY <2>1, <2>2, <2>3, StillQueued DEF Whole
  <2>6. QED
    BY <2>1, <2>4, <2>5, SparedIntact DEF Whole
<1>5. CASE Admit(q)
  <2>1. /\ UNCHANGED <<table, queue, fate, answers>>
        /\ drain' = [drain EXCEPT ![q].pc = "run"]
    BY <1>5 DEF Admit, history
  <2>2. /\ \A p \in Queues : drain'[p].job = drain[p].job /\ (p # q => drain'[p] = drain[p])
        /\ drain'[q].pc = "run"
    BY <1>1, <2>1 DEF Drains
  <2>3. ASSUME NEW p \in Queues PROVE Spared(p)
    BY <1>1, <2>1, <2>2 DEF Spared, Intact
  <2>4. Queued'
    BY <2>1, StillQueued DEF Whole
  <2>5. QED
    BY <2>1, <2>3, <2>4, SparedIntact DEF Whole
<1>6. QED
  BY <1>3, <1>4, <1>5

\* A newcomer that is not refused finds room, and nothing is taken out for it.
LEMMA EnqueueWhole ==
    ASSUME NewOnly, Whole, Ordered', NEW s \in Settings, Enqueue(s)
    PROVE  Whole'
<1>1. PICK m \in Unseen, q \in Queues, old \in QueueRecords :
         /\ m \in Message /\ Unseen' = Unseen \ {m}
         /\ IF table = None THEN drain[q] = Idle ELSE q = table
         /\ GoodQueue(old, Seen) /\ old.items = queue[q].items /\ old.policy = s.policy
         /\ table' \in {table, q} /\ drain' \in {drain, Scheduled(table', drain)}
         /\ UNCHANGED answers
         /\ \/ UNCHANGED <<table, queue>> /\ fate' = [fate EXCEPT ![m] = "aborted"]
            \/ /\ table' = q /\ queue' = [queue EXCEPT ![q] = old]
               /\ fate' = [fate EXCEPT ![m] = "refused"]
            \/ /\ table' = q /\ ~Refuses(old)
               /\ queue' = [queue EXCEPT ![q] = [MakeRoom(old) EXCEPT !.items = Append(@, m)]]
               /\ \A n \in Message :
                     /\ n = m => fate'[n] = "queued"
                     /\ n # m /\ n \notin Range(Excess(old)) => fate'[n] = fate[n]
                     /\ n # m /\ n \in Range(Excess(old)) => fate'[n] \in {"summarized", "dropped"}
  BY Enqueued DEF Whole, Ordered
<1>2. /\ drain \in [Queues -> Drains] /\ table' \in Queues \cup {None} /\ table \in Queues \cup {None}
      /\ queue \in [Queues -> QueueRecords] /\ fate \in [Message -> Fates]
      /\ \A p \in Queues : drain[p].pc \notin {"admit", "run"} => drain[p].job = NoJob
  BY <1>1 DEF Whole, Ordered, Kept, Work, Kinds, Contents, JobsEnd
<1>3. /\ old.policy = "new" /\ fate[m] = "new" /\ old.items \in Seq(Message)
  BY <1>1, UnseenFinite DEF NewOnly, QueueRecords
<1> DEFINE grown == [MakeRoom(old) EXCEPT !.items = Append(@, m)]
<1>4. ~Refuses(old) => /\ grown.items = Append(old.items, m) /\ grown.policy = "new"
                       /\ Range(Excess(old)) = {}
  <2>1. ASSUME ~Refuses(old)
        PROVE  MakeRoom(old).items = old.items /\ Range(Excess(old)) = {}
    <3>1. Len(old.items) < Cap
      BY <1>3, <2>1, Numbers DEF Refuses
    <3>2. QED
      BY <1>1, <3>1, RoomMade
  <2>2. MakeRoom(old).policy = "new"
    <3>1. MakeRoom(old) = [old EXCEPT !.items = SubSeq(@, Len(Excess(old)) + 1, Len(@))]
      BY <1>3 DEF MakeRoom
    <3>2. QED
      BY <1>3, <3>1 DEF QueueRecords
  <2>3. MakeRoom(old) \in QueueRecords
    BY <1>1, RoomMade
  <2>4. QED
    BY <2>1, <2>2, <2>3 DEF QueueRecords
<1>5. /\ \A n \in Message : fate[n] # "new" => fate'[n] = fate[n]
      /\ fate'[m] = "queued" => ~Refuses(old) /\ queue' = [queue EXCEPT ![q] = grown]
      /\ \A n \in Message \ {m} : fate'[n] = fate[n]
  <2>1. ~Refuses(old) => Range(Excess(old)) = {}
    BY <1>4
  <2> HIDE DEF grown
  <2>2. CASE fate' = [fate EXCEPT ![m] = "aborted"]
    BY <1>1, <1>2, <1>3, <2>2
  <2>3. CASE fate' = [fate EXCEPT ![m] = "refused"]
    BY <1>1, <1>2, <1>3, <2>3
  <2>4. CASE /\ ~Refuses(old) /\ queue' = [queue EXCEPT ![q] = grown]
             /\ \A n \in Message :
                   /\ n = m => fate'[n] = "queued"
                   /\ n # m /\ n \notin Range(Excess(old)) => fate'[n] = fate[n]
    BY <1>3, <2>1, <2>4
  <2>5. QED
    BY <1>1, <2>2, <2>3, <2>4 DEF grown
<1>6. /\ m \in Range(Append(old.items, m))
      /\ \A i \in DOMAIN old.items : i \in DOMAIN Append(old.items, m) /\ Append(old.items, m)[i] = old.items[i]
  <2>1. /\ Append(old.items, m) \in Seq(Message) /\ Len(Append(old.items, m)) = Len(old.items) + 1
        /\ \A i \in 1..Len(old.items) : Append(old.items, m)[i] = old.items[i]
        /\ Append(old.items, m)[Len(old.items) + 1] = m
    BY <1>1, <1>3, AppendProperties
  <2>2. Len(old.items) \in Nat /\ Len(old.items) + 1 \in 1..Len(Append(old.items, m))
        /\ \A i \in 1..Len(old.items) : i \in 1..Len(Append(old.items, m))
    BY <1>3, <2>1
  <2> DEFINE a == Append(old.items, m)
             last == Len(old.items) + 1
  <2>3. a \in Seq(Message) /\ last \in 1..Len(a) /\ a[last] = m
    BY <2>1, <2>2
  <2>4. DOMAIN old.items = 1..Len(old.items) /\ DOMAIN a = 1..Len(a)
    BY <1>3, <2>3
  <2>5. m \in Range(a)
    <3> HIDE DEF a, last
    <3>1. QED
      BY <2>3, SeqRange
  <2>6. QED
    BY <2>1, <2>2, <2>4, <2>5
<1>7. \/ UNCHANGED <<table, queue>>
      \/ table' = q /\ queue' = [queue EXCEPT ![q] = old]
      \/ table' = q /\ queue' = [queue EXCEPT ![q] = grown] /\ ~Refuses(old)
  BY <1>1
<1> HIDE DEF grown
<1>8. /\ \A p \in Queues \ {q} : queue'[p] = queue[p]
      /\ \A i \in DOMAIN queue[q].items :
            i \in DOMAIN queue'[q].items /\ queue'[q].items[i] = queue[q].items[i]
      /\ queue'[q].policy \in {queue[q].policy, "new"}
  <2>1. CASE UNCHANGED <<table, queue>>
    BY <2>1
  <2>2. CASE queue' = [queue EXCEPT ![q] = old]
    BY <1>1, <1>2, <1>3, <2>2
  <2>3. CASE queue' = [queue EXCEPT ![q] = grown] /\ ~Refuses(old)
    <3>1. queue'[q] = grown /\ \A p \in Queues \ {q} : queue'[p] = queue[p]
      BY <1>2, <2>3
    <3>2. grown.items = Append(old.items, m) /\ grown.policy = "new"
      BY <1>4, <2>3
    <3>3. QED
      BY <1>1, <1>6, <3>1, <3>2
  <2>4. QED
    BY <1>7, <2>1, <2>2, <2>3
<1>9. ASSUME NEW p \in Queues PROVE Spared(p)
  <2>1. drain'[p].job = drain[p].job /\ (drain'[p].pc = "dropping" => drain'[p] = drain[p])
    BY <1>1, <1>2, ScheduledJobs, BegunNotDropping
  <2>2. queue'[p].policy = "new"
    BY <1>8 DEF Whole, Intact
  <2>3. ASSUME table' = p, table # p PROVE drain'[p].job = NoJob /\ drain'[p].pc # "dropping"
    <3>1. p = q /\ table = None
      BY <1>1, <1>2, <2>3
    <3>2. drain[p] = Idle /\ Idle.job = NoJob /\ Idle.pc = "idle"
      BY <1>1, <3>1 DEF Idle
    <3>3. QED
      BY <2>1, <3>2
  <2>4. \A i \in DOMAIN queue[p].items :
           i \in DOMAIN queue'[p].items /\ queue'[p].items[i] = queue[p].items[i]
    BY <1>8
  <2>5. QED
    BY <2>1, <2>2, <2>3, <2>4 DEF Spared
<1>10. Queued'
  <2> SUFFICES ASSUME NEW n \in Message, fate'[n] = "queued", answers'[n] = 0
               PROVE  \E p \in Queues : n \in Range(queue'[p].items)
    BY DEF Queued
  <2>1. CASE n = m
    <3>1. queue'[q] = grown
      BY <1>2, <1>5, <2>1
    <3>2. ~Refuses(old)
      BY <1>5, <2>1
    <3>3. n \in Range(queue'[q].items)
      BY <1>4, <1>6, <2>1, <3>1, <3>2
    <3>4. QED
      BY <3>3
  <2>2. CASE n # m
    <3>1. fate[n] = "queued" /\ answers[n] = 0
      BY <1>1, <1>5, <2>2
    <3>2. PICK p \in Queues : n \in Range(queue[p].items)
      BY <3>1 DEF Whole, Queued
    <3>3. n \in Range(queue'[p].items)
      BY <1>8, <3>2 DEF Range
    <3>4. QED
      BY <3>3
  <2>3. QED
    BY <2>1, <2>2
<1>11. \A n \in Message : fate[n] = "aborted" => fate'[n] = "aborted"
  BY <1>5
<1>12. QED
  BY <1>9, <1>10, <1>11, SparedIntact DEF Whole

LEMMA TakesWhole ==
    ASSUME Whole, Ordered', NEW q \in Queues,
           TakeItem(q) \/ TakeVehicle(q) \/ Collect(q) \/ TakeSummary(q)
    PROVE  Whole'
<1>1. PICK d : Picks(q, d)
  BY TakesPick DEF Whole
<1>2. /\ drain'[q] = d /\ \A p \in Queues \ {q} : drain'[p] = drain[p]
      /\ UNCHANGED <<table, queue, fate, answers>>
      /\ d.pc = "admit" /\ Messages(d.job) \subseteq Range(queue[q].items)
      /\ d.job.kind = "vehicle" => queue[q].policy = "summarize"
  BY <1>1 DEF Picks, Whole, Ordered, Kept, Work
<1>3. \A p \in Queues : Intact(p)'
  BY <1>2 DEF Whole, Intact
<1>4. Queued'
  BY <1>2, StillQueued DEF Whole
<1>5. QED
  BY <1>3, <1>4 DEF Whole

\* The batch that runs is what the queue begins with.
LEMMA RunsInFront ==
    ASSUME Whole, NEW q \in Queues, table = q
    PROVE  /\ \A k \in 1..Len(drain[q].job.batch) :
                 k \in 1..Len(queue[q].items) /\ queue[q].items[k] \in Range(drain[q].job.batch)
           /\ \A k \in 1..Len(queue[q].items) :
                 queue[q].items[k] \in Range(drain[q].job.batch) => k <= Len(drain[q].job.batch)
           /\ Range(drain[q].job.batch) \subseteq Range(queue[q].items)
<1> DEFINE j == drain[q].job
           s == queue[q].items
           n == Len(j.batch)
<1>1. /\ s \in Seq(Message) /\ Planned(j) /\ j.batch \in Seq(Message)
      /\ Messages(j) \in SUBSET Message /\ InFront(s, j)
  BY JobSeen DEF Whole, Ordered, Lined
<1>2. Messages(j) \subseteq Range(s)
  BY DEF Whole, Intact
<1> HIDE DEF j, s
<1>3. Range(j.batch) \in SUBSET Range(s) /\ Range(j.batch) \subseteq Messages(j)
  BY <1>2 DEF Messages
<1>4. n \in Nat /\ Cardinality(Range(j.batch)) = n
  BY <1>1, AscendingCount DEF Planned
<1>5. ASSUME NEW k \in 1..Len(s), s[k] \in Range(j.batch) PROVE k <= n
  <2>1. Cardinality(UpTo(Messages(j), s[k])) <= n
    BY <1>1, <1>5, Ranks
  <2>2. k <= Cardinality(UpTo(Messages(j), s[k]))
    BY <1>1, <1>3, <1>5 DEF InFront
  <2>3. Cardinality(UpTo(Messages(j), s[k])) \in Nat
    BY <1>1, UpToFinite
  <2> HIDE DEF n
  <2>4. QED
    BY <1>4, <2>1, <2>2, <2>3
<1> HIDE DEF n
<1>6. \A k \in 1..n : k \in 1..Len(s) /\ s[k] \in Range(j.batch)
  BY <1>1, <1>3, <1>4, <1>5, FrontRun
<1>7. QED
  BY <1>3, <1>5, <1>6 DEF n, s, j

\* So what is removed is what ran.
LEMMA ReturnedWhole ==
    ASSUME Whole, Ordered', NEW q \in Queues, Returned(q),
           \A m \in Message : fate'[m] = "queued" /\ answers'[m] = 0 =>
              fate[m] = "queued" /\ answers[m] = 0 /\ m \notin Range(drain[q].job.batch),
           \A m \in Message : fate[m] = "aborted" => fate'[m] = "aborted"
    PROVE  Whole'
<1> DEFINE B == Range(drain[q].job.batch)
           s == queue[q].items
           n == Len(drain[q].job.batch)
<1>1. /\ queue'[q].items = Remaining(s, n)
      /\ queue'[q].policy = queue[q].policy /\ table' = table
      /\ \A p \in Queues \ {q} : queue'[p] = queue[p] /\ drain'[p] = drain[p]
      /\ Messages(drain'[q].job) = Later(drain[q].job)
      /\ drain'[q].pc \in {"loop", "admit"} /\ drain'[q].job.kind # "vehicle"
  BY AfterRun DEF Whole
<1>2. /\ s \in Seq(Message) /\ Ascending(s) /\ n \in Nat /\ Planned(drain[q].job)
      /\ drain[q].job.batch \in Seq(Message) /\ Messages(drain[q].job) \in SUBSET Message
      /\ Intact(q) /\ \A m \in Range(s) : m \in Message
  BY JobSeen, SeqRange DEF Whole, Ordered, Lined
<1>3. Later(drain[q].job) \subseteq Messages(drain[q].job) /\ B \cap Later(drain[q].job) = {}
  BY <1>2, Ranks DEF Messages
<1>4. ASSUME table = q, NEW x \in Range(s), x \notin B PROVE x \in Range(queue'[q].items)
  <2>1. PICK k \in 1..Len(s) : x = s[k]
    BY <1>2, SeqRange
  <2>2. k \notin 1..n
    BY <1>4, <2>1, RunsInFront
  <2> HIDE DEF s, n
  <2>3. k > n
    BY <1>2, <2>1, <2>2
  <2>4. QED
    BY <1>1, <1>2, <2>1, <2>3, ThinRemaining
<1>5. s # <<>> => table = q
  BY DEF Whole, Ordered, Kept, PendingIsReachable
<1>6. Intact(q)'
  <2>1. table = q => Later(drain[q].job) \subseteq Range(queue'[q].items)
    <3>1. table = q => Messages(drain[q].job) \subseteq Range(s)
      BY <1>2 DEF Intact
    <3> HIDE DEF s, B
    <3>2. QED
      BY <1>3, <1>4, <3>1
  <2>2. QED
    BY <1>1, <1>2, <2>1 DEF Intact
<1>7. ASSUME NEW p \in Queues, p # q PROVE Spared(p)
  <2>1. queue[p].policy = "new"
    BY DEF Whole, Intact
  <2>2. QED
    BY <1>1, <1>7, <2>1 DEF Spared
<1>8. Queued'
  <2>1. Range(<<>>) = {}
    BY DEF Range
  <2>2. ASSUME NEW x \in Range(s), fate'[x] = "queued", answers'[x] = 0
        PROVE  x \in Range(queue'[q].items)
    <3>1. table = q
      BY <1>5, <2>1, <2>2
    <3>2. x \notin B
      BY <1>2, <2>2
    <3>3. QED
      BY <1>4, <2>2, <3>1, <3>2
  <2>3. QED
    BY <1>1, <2>2, StillQueued DEF Whole
<1>9. QED
  BY <1>6, <1>7, <1>8, SparedIntact DEF Whole

\* A run has its batch in its prompt: there are no vehicles.
LEMMA Heard ==
    ASSUME Whole, NEW q \in Queues, RunReturns(q)
    PROVE  /\ Returned(q) /\ UNCHANGED fate
           /\ \A m \in Message : /\ m \in Range(drain[q].job.batch) => answers'[m] > 0
                                 /\ m \notin Range(drain[q].job.batch) => answers'[m] = answers[m]
                                 /\ answers[m] > 0 => answers'[m] > 0
<1>1. /\ Returned(q) /\ UNCHANGED fate
      /\ answers' = [m \in Message |->
            IF m \in (IF drain[q].job.kind = "vehicle" THEN {} ELSE Range(drain[q].job.batch)) /\ answers[m] < 2
            THEN answers[m] + 1 ELSE answers[m]]
  BY DEF RunReturns
<1>2. drain[q].job.kind # "vehicle" /\ \A m \in Message : answers[m] \in 0..2
  BY DEF Whole, Intact, Ordered, Kept, Kinds
<1>3. QED
  BY <1>1, <1>2

LEMMA RunsWhole ==
    ASSUME Whole, Ordered', NEW q \in Queues, Skip(q) \/ RunReturns(q)
    PROVE  Whole'
<1>1. CASE Skip(q)
  <2>1. /\ Returned(q) /\ UNCHANGED answers
        /\ fate' = [m \in Message |-> IF m \in Range(drain[q].job.batch) THEN "aborted" ELSE fate[m]]
    BY <1>1 DEF Skip
  <2>2. QED
    BY <2>1, ReturnedWhole
<1>2. CASE RunReturns(q)
  BY <1>2, Heard, ReturnedWhole
<1>3. QED
  BY <1>1, <1>2

LEMMA InitWhole == NewOnly /\ Init => Whole
<1> SUFFICES ASSUME Init PROVE Whole
  OBVIOUS
<1>1. Ordered
  BY InitOrdered
<1>2. /\ drain = [q \in Queues |-> Idle] /\ queue = [q \in Queues |-> Garbage]
      /\ fate = [m \in Message |-> "new"]
  BY DEF Init
<1>3. Garbage.policy = "new" /\ Idle.job = NoJob /\ Idle.pc = "idle" /\ NoJob.kind = "summary"
  BY DEF Garbage, EmptyQueue, Idle, NoJob
<1>4. \A q \in Queues : Intact(q)
  BY <1>2, <1>3, NoJobPlanned DEF Intact
<1>5. Queued
  BY <1>2 DEF Queued
<1>6. QED
  BY <1>1, <1>4, <1>5 DEF Whole

LEMMA NextWhole == NewOnly /\ Whole /\ [Next]_vars => Whole'
<1> SUFFICES ASSUME NewOnly, Whole, [Next]_vars PROVE Whole'
  OBVIOUS
<1>1. Ordered'
  BY NextOrdered DEF Whole
<1>2. CASE BeginTurn \/ EndTurn \/ Arrive \/ \E m \in Message : Abort(m)
  BY <1>1, <1>2, TurnsWhole
<1>3. CASE Clear
  BY <1>1, <1>3, ClearWhole
<1>4. ASSUME NEW s \in Settings, Enqueue(s) PROVE Whole'
  BY <1>1, <1>4, EnqueueWhole
<1>5. ASSUME NEW q \in Queues, Leave(q) \/ GiveUp(q) \/ Defer(q) \/ RunThrows(q) PROVE Whole'
  BY <1>1, <1>5, EndsWhole
<1>6. ASSUME NEW q \in Queues, DropAborted(q) \/ Dropped(q) \/ Admit(q) PROVE Whole'
  BY <1>1, <1>6, DropsWhole
<1>7. ASSUME NEW q \in Queues, TakeItem(q) \/ TakeVehicle(q) \/ Collect(q) \/ TakeSummary(q) PROVE Whole'
  BY <1>1, <1>7, TakesWhole
<1>8. ASSUME NEW q \in Queues, Skip(q) \/ RunReturns(q) PROVE Whole'
  BY <1>1, <1>8, RunsWhole
<1>9. CASE UNCHANGED vars
  <2>1. UNCHANGED <<table, queue, drain, fate, answers>>
    BY <1>9 DEF vars, queues, history
  <2>2. QED
    BY <1>1, <2>1 DEF Whole, Queued, Intact
<1>10. QED
  BY <1>2, <1>3, <1>4, <1>5, <1>6, <1>7, <1>8, <1>9 DEF Next, DrainStep

\* Where full queues refuse newcomers, and whatever is cleared, aborted,
\* deferred or thrown: a message the queue accepted stays in it until a run that
\* had it in its prompt returns.  Removal by position takes out what ran and no
\* other.
THEOREM AcceptedStays == NewOnly => (Spec => []NothingLost)
<1> SUFFICES ASSUME NewOnly PROVE Spec => []NothingLost
  OBVIOUS
<1>1. Init => Whole
  BY InitWhole
<1>2. Whole /\ [Next]_vars => Whole'
  BY NextWhole
<1>3. Whole => NothingLost
  BY DEF Whole, Queued, NothingLost
<1>4. QED
  BY <1>1, <1>2, <1>3, PTL DEF Spec

\* There, too, an earlier message that is still wanted has been answered when a
\* later one is: batches and retries overtake nobody.
THEOREM AnsweredInTurn == NewOnly => (Spec => InOrder)
<1> SUFFICES ASSUME NewOnly PROVE Spec => InOrder
  OBVIOUS
<1>1. Init => Whole
  BY InitWhole
<1>2. Whole /\ [Next]_vars => Whole'
  BY NextWhole
<1>3. ASSUME Whole, NEW q \in Queues, RunReturns(q), NEW m \in Message, NEW n \in Message,
             m < n, answers'[n] > answers[n], fate[m] = "queued"
      PROVE  answers'[m] > 0
  <2> DEFINE B == Range(drain[q].job.batch)
             s == queue[q].items
  <2>1. /\ \A x \in Message : answers[x] \in 0..2
        /\ n \in B \/ answers'[n] = answers[n]
        /\ m \in B => answers'[m] > 0
        /\ answers[m] > 0 => answers'[m] > 0
    BY <1>3, Heard DEF Whole, Ordered, Kept, Kinds
  <2>2. n \in B
    BY <1>3, <2>1
  <2>3. CASE answers[m] = 0
    <3>1. PICK p \in Queues : m \in Range(queue[p].items)
      BY <1>3, <2>3 DEF Whole, Queued
    <3>2. p = q
      <4>1. p # q => n < m
        BY <1>3, <2>2, <3>1 DEF Whole, Ordered, Apart, Messages
      <4>2. m \in Nat /\ n \in Nat
        BY Ordinal
      <4>3. QED
        BY <1>3, <4>1, <4>2
    <3>3. table = q
      <4>1. Range(<<>>) = {}
        BY DEF Range
      <4>2. QED
        BY <1>3, <3>1, <3>2, <4>1 DEF Whole, Ordered, Kept, PendingIsReachable
    <3>4. s \in Seq(Message) /\ Ascending(s)
      BY <1>3, JobSeen DEF Whole, Ordered, Lined
    <3>5. B \subseteq Range(s) /\ (\A k \in 1..Len(drain[q].job.batch) : s[k] \in B)
          /\ \A k \in 1..Len(s) : s[k] \in B => k <= Len(drain[q].job.batch)
      BY <1>3, <3>3, RunsInFront
    <3>6. PICK k \in 1..Len(s) : m = s[k]
      BY <3>1, <3>2, <3>4, SeqRange
    <3>7. PICK l \in 1..Len(s) : n = s[l]
      BY <2>2, <3>4, <3>5, SeqRange
    <3>8. Len(drain[q].job.batch) \in Nat
      <4>1. drain[q].job.batch \in Seq(Message)
        BY <1>3, JobSeen DEF Whole, Ordered
      <4>2. QED
        BY <4>1
    <3> HIDE DEF s, B
    <3>9. k < l
      BY <1>3, <3>4, <3>6, <3>7, AscendingCount
    <3>10. k \in 1..Len(drain[q].job.batch)
      BY <2>2, <3>4, <3>5, <3>7, <3>8, <3>9
    <3>11. m \in B
      BY <3>5, <3>6, <3>10
    <3>12. QED
      BY <2>1, <3>11
  <2>4. QED
    BY <2>1, <2>3
<1>4. Whole /\ [Next]_vars =>
         [\A m, n \in Message :
             m < n /\ answers'[n] > answers[n] /\ fate[m] = "queued" /\ m \notin aborted
                 => answers'[m] > 0]_vars
  <2> SUFFICES ASSUME Whole, [Next]_vars, NEW m \in Message, NEW n \in Message,
                      m < n, answers'[n] > answers[n], fate[m] = "queued"
               PROVE  answers'[m] > 0
    OBVIOUS
  <2>1. answers[n] \in 0..2
    BY DEF Whole, Ordered, Kept, Kinds
  <2>2. answers' # answers
    BY <2>1
  <2>3. PICK q \in Queues : RunReturns(q)
    BY <2>2 DEF Next, DrainStep, vars, history, BeginTurn, EndTurn, Arrive, Clear, Abort, Enqueue,
       Leave, DropAborted, Dropped, TakeItem, TakeVehicle, Collect, TakeSummary, Choose, GiveUp, Skip,
       Admit, Defer, RunThrows
  <2>4. QED
    BY <1>3, <2>3
<1>5. QED
  BY <1>1, <1>2, <1>4, PTL DEF Spec, InOrder

=============================================================================
