-------------------------- MODULE MCKHardwareTimer --------------------------
(* Instances of KHardwareTimer for TLC. *)
EXTENDS KHardwareTimer, TLC

CONSTANTS t1, t2

\* A task is registered behind the next one and before it.
MCTimeouts == (t1 :> {2}) @@ (t2 :> {1})
=============================================================================
