---------------------- MODULE MCKSynchronizationObject ----------------------
(* Instances of KSynchronizationObject for TLC. *)
EXTENDS KSynchronizationObject, TLC

CONSTANTS t1, t2, e1
=============================================================================
