--------------------------- MODULE LaneRefinement ---------------------------
(***************************************************************************)
(* The command queue implements LanePromise: its queues are the work that  *)
(* waits, its active sets the slots, and what body, race, generation and   *)
(* promise say together of an entry is the status its caller sees.         *)
(***************************************************************************)
EXTENDS CommandQueue

\* What the caller of an entry can know of it.
CallerSees(e) ==
    IF e \notin Issued THEN "none"
    ELSE IF promise[e] # "pending" THEN promise[e]
    ELSE IF body[e] = "none" THEN "waiting" ELSE "running"

Promised == INSTANCE LanePromise WITH
    closed   <- gatewayDraining,
    accepted <- [e \in Issued |-> [lane |-> request[e].lane, priority |-> request[e].priority]],
    status   <- [e \in Entries |-> CallerSees(e)],
    holding  <- active,
    limit    <- maxConcurrent

\* Every behaviour of the command queue is one that LanePromise allows: no
\* sequence of calls, timeouts, resets and settlements begins work twice,
\* out of order or beyond a limit, answers a caller twice, drops accepted
\* work, or leaves a slot free beside work that waits.
KeepsPromise == Promised!Spec

=============================================================================
