---------------------------- MODULE MCKScheduler ----------------------------
(***************************************************************************)
(* KScheduler on two cores.  With two threads every interleaving of the    *)
(* cores is explored; with four, which the yields and the preemption need  *)
(* to have a choice, the switches are over before the next operation.      *)
(***************************************************************************)
EXTENDS KScheduler

CONSTANTS t1, t2, t3, t4

\* Priority 1 is above HighestCoreMigrationAllowedPriority, 3 is preempted.
MCPriority == [t \in Threads |-> 3]
MCAffinity == [t \in Threads |-> IF t = t4 THEN {1} ELSE {0, 1}]
MCPriorities == [t \in Threads |-> IF t = t3 THEN {1, 3, 4} ELSE {}]
MCMasks == [t \in Threads |-> IF t = t1 THEN {{0}, {0, 1}} ELSE IF t = t3 THEN {{1}, {0, 1}} ELSE {}]

MCPreemption == [c \in Cores |-> 3]

\* For three cores and three threads: t3 changes the mask of t1.
MaskAffinity == [t \in Threads |-> IF t = t1 THEN {0, 1} ELSE IF t = t2 THEN {0, 1, 2} ELSE {2}]
MaskPriorities == [t \in Threads |-> {}]
MaskMasks == [t \in Threads |-> IF t = t1 THEN {{0}} ELSE {}]

Settled == \A c \in Cores : pc[c] = "run" /\ current[c] = highest[c]

\* All of the switches, the interrupts for them and the callers that wait for
\* them: the steps of the cores one after the other.
Settle ==
  /\ ~Settled
  /\ pc' = [c \in Cores |-> "run"]
  /\ current' = highest
  /\ guarded' = ((guarded \ {t \in {current[c] : c \in Cores} \ {NoThread} : state[t] # "Terminated"})
                  \cup {highest[c] : c \in Cores}) \ {NoThread}
  /\ needs' = [c \in Cores |-> FALSE]
  /\ interrupted' = [c \in Cores |-> FALSE]
  /\ toInterrupt' = [a \in Cores \cup {Host} |-> {}]
  /\ retrying' = [t \in Threads |-> NoRetry]
  /\ UNCHANGED <<locked, next, finishing>>

MCInit == InitWith({t1, t2}) \/ InitWith(Threads)

Few == state[t3] = "Terminated" /\ finishing[t3] = NumCores

MCNext ==
  \/ Few /\ Next
  \/ ~Few /\ Settle
  \/ ~Few /\ Settled /\ (HostStep \/ \E c \in Cores : Call(c))

MCSpec == MCInit /\ [][MCNext]_vars
=============================================================================
