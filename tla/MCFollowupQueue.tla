--------------------------- MODULE MCFollowupQueue ---------------------------
(***************************************************************************)
(* Instances of FollowupQueue for TLC.                                     *)
(***************************************************************************)
EXTENDS FollowupQueue

CONSTANTS ann, bob, room, thread

TwoQueues == 1..2

SetTo(modes, policies) == {[mode |-> m, policy |-> p] : m \in modes, p \in policies}

Refusing    == SetTo({"followup", "collect"}, {"new"})
AnyPolicy   == SetTo({"followup", "collect"}, {"summarize"})
                   \cup SetTo({"collect"}, {"old"}) \cup SetTo({"followup"}, {"new"})
Summarizing == SetTo({"followup"}, {"summarize"})

From(sender, route) == [sender |-> sender, route |-> route]

\* Two senders in one place, one of them elsewhere and with an abort signal.
Everyone == {From(ann, room), From(bob, room), From(ann, thread), From(bob, Solo)}
Mixed    == {From(ann, room), From(bob, room), From(bob, Solo)}
Alone    == {From(ann, room)}
=============================================================================
