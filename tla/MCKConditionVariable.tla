---------------------- MODULE MCKConditionVariable ----------------------
(* Instances of KConditionVariable for TLC. *)
EXTENDS KConditionVariable, TLC

CONSTANTS low, mid, high, other, m1

\* Three threads of three different priorities, and one more of the lowest.
MCInitialPriority == [t \in Threads |-> CASE t = high -> 1 [] t = mid -> 2 [] OTHER -> 3]

\* SetBasePriority is called for one thread, and the condition variable is used
\* with one of the mutexes.
MCNext ==
  /\ Next
  /\ \A t \in Threads \ {low} : base'[t] \in {base[t], TerminatingPriority}
  /\ sleep' # NoSleep => sleep'.key = m1
MCSpec == Init /\ [][MCNext]_vars /\ Fairness
=============================================================================
