---------------------------- MODULE MCKLightLock ----------------------------
(* Instances of KLightLock for TLC. *)
EXTENDS KLightLock, TLC

CONSTANTS low, mid, high, outer, inner

\* Three threads of three different priorities.
MCInitialPriority == [t \in Threads |-> CASE t = high -> 1 [] t = mid -> 2 [] OTHER -> 3]

\* The locks are taken in one order.
MCMayNest == {<<outer, inner>>}
=============================================================================
