----------------------------- MODULE LanePromise -----------------------------
(***************************************************************************)
(* What the command queue promises those who hand work to it, without its  *)
(* queues, generations, timers and continuations.                          *)
(*                                                                         *)
(* Accepted work waits, is begun at most once, and comes back at most      *)
(* once; work that waits may be turned away instead.  Whatever happens to  *)
(* a lane, the lane is served in the same step: work begins while a slot   *)
(* is free, the most urgent and then the oldest first.                     *)
(*                                                                         *)
(* CommandQueue is shown to implement this module in LaneRefinement.       *)
(***************************************************************************)
EXTENDS Integers, Sequences, FiniteSets

CONSTANTS
    Lanes,       \* lane names
    Priorities,  \* of the work that is handed in
    MaxEntries   \* bound: how much work is accepted

VARIABLES
    closed,    \* is new work refused?
    accepted,  \* the work, in the order of its acceptance
    status,    \* entry -> what became of it
    holding,   \* lane -> the entries that hold a slot of it
    limit      \* lane -> slots

vars == <<closed, accepted, status, holding, limit>>

Entries == 1..MaxEntries
Ends    == {"settled", "timedOut"}

Init ==
    /\ closed = FALSE
    /\ accepted = <<>>
    /\ status = [e \in Entries |-> "none"]
    /\ holding = [l \in Lanes |-> {}]
    /\ limit = [l \in Lanes |-> 1]

\* Of two entries of the list r, does e go first?
GoesFirst(r, e, d) ==
    \/ r[e].priority > r[d].priority
    \/ r[e].priority = r[d].priority /\ e < d

\* Entries that wait according to s begin, as many as the limits m allow.
Serve(r, s, h, m) ==
    \E begun \in SUBSET DOMAIN r :
        /\ \A e \in begun : s[e] = "waiting"
        /\ status' = [e \in Entries |-> IF e \in begun THEN "running" ELSE s[e]]
        /\ holding' = [l \in Lanes |-> h[l] \cup {e \in begun : r[e].lane = l}]
        /\ \A e \in begun : Cardinality(holding'[r[e].lane]) <= m[r[e].lane]
        /\ \A d \in DOMAIN r : status'[d] = "waiting" =>
              /\ Cardinality(holding'[r[d].lane]) >= m[r[d].lane]
              /\ \A e \in begun : r[e].lane = r[d].lane => GoesFirst(r, e, d)

\* Work is handed in.
Accept(l, p) ==
    LET e == Len(accepted) + 1
        r == Append(accepted, [lane |-> l, priority |-> p])
    IN  /\ ~closed
        /\ e \in Entries
        /\ accepted' = r
        /\ Serve(r, [status EXCEPT ![e] = "waiting"], holding, limit)
        /\ UNCHANGED <<closed, limit>>

\* The limit of a lane changes.
Limit(l) ==
    /\ limit' \in [Lanes -> Nat]
    /\ \A k \in Lanes \ {l} : limit'[k] = limit[k]
    /\ Serve(accepted, status, holding, limit')
    /\ UNCHANGED <<closed, accepted>>

\* The work that waits in a lane is turned away.
TurnAway(l) ==
    /\ status' = [e \in Entries |->
          IF e \in DOMAIN accepted /\ accepted[e].lane = l /\ status[e] = "waiting"
          THEN "cleared" ELSE status[e]]
    /\ UNCHANGED <<closed, accepted, holding, limit>>

\* The slots of some lanes are taken from those that hold them, who go on;
\* the queue may open again with it.
TakeSlots(ls) ==
    /\ closed' \in {closed, FALSE}
    /\ Serve(accepted, status,
             [l \in Lanes |-> IF l \in ls THEN {} ELSE holding[l]], limit)
    /\ UNCHANGED <<accepted, limit>>

\* Work comes back to its caller, and gives its slot back if it still has one.
Return(e, end) ==
    /\ status[e] = "running"
    /\ Serve(accepted, [status EXCEPT ![e] = end],
             [l \in Lanes |-> holding[l] \ {e}], limit)
    /\ UNCHANGED <<closed, accepted, limit>>

\* New work is refused from now on.
Close ==
    /\ closed' = TRUE
    /\ UNCHANGED <<accepted, status, holding, limit>>

Next ==
    \/ \E l \in Lanes, p \in Priorities : Accept(l, p)
    \/ \E l \in Lanes : Limit(l) \/ TurnAway(l)
    \/ \E ls \in SUBSET Lanes : TakeSlots(ls)
    \/ \E e \in Entries, end \in Ends : Return(e, end)
    \/ Close

Spec == Init /\ [][Next]_vars

=============================================================================
