--------------------------- MODULE MCDeliveryQueue ---------------------------
(***************************************************************************)
(* Instances of DeliveryQueue for TLC.                                     *)
(***************************************************************************)
EXTENDS DeliveryQueue, TLC

CONSTANTS d1, d2, drain, drain2

TwoDrains == {drain, drain2}
Symmetry  == Permutations(Drains)

Strict(required, reconciles) ==
    [required |-> required, bestEffort |-> FALSE, reconciles |-> reconciles]

\* Deliveries whose payload errors throw.
StrictProfiles == {Strict(q, r) : q, r \in BOOLEAN}
TwoProfiles    == {Strict(TRUE, TRUE), Strict(FALSE, FALSE)}
BestEffort     == {[p EXCEPT !.bestEffort = TRUE] : p \in TwoProfiles}
=============================================================================
