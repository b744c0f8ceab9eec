------------------------------- MODULE Mutex -------------------------------
(***************************************************************************)
(* What a kernel lock promises to its users: a lock has one holder, and a  *)
(* thread that has queued for it gets it from the holder, before any thread *)
(* that has not queued.                                                    *)
(***************************************************************************)
CONSTANTS Threads, NoThread, Keys

VARIABLES
  holder,  \* the thread that holds each lock, or NoThread
  queue    \* the threads that have queued for each lock

mutexVars == <<holder, queue>>

MutexInit ==
  /\ holder = [k \in Keys |-> NoThread]
  /\ queue = [k \in Keys |-> {}]

Queued(t) == \E k \in Keys : t \in queue[k]

\* t takes a free lock; nobody has queued for it.
Acquire(t, k) ==
  /\ ~Queued(t) /\ holder[k] = NoThread /\ queue[k] = {}
  /\ holder' = [holder EXCEPT ![k] = t]
  /\ UNCHANGED queue

\* t queues for a lock another thread holds.
Enqueue(t, k) ==
  /\ ~Queued(t) /\ holder[k] \notin {t, NoThread}
  /\ queue' = [queue EXCEPT ![k] = @ \cup {t}]
  /\ UNCHANGED holder

\* t gives up a lock nobody has queued for.
Release(t, k) ==
  /\ ~Queued(t) /\ holder[k] = t /\ queue[k] = {}
  /\ holder' = [holder EXCEPT ![k] = NoThread]
  /\ UNCHANGED queue

\* t passes a lock on to a thread that has queued for it.
HandOver(t, k) ==
  /\ ~Queued(t) /\ holder[k] = t
  /\ \E next \in queue[k] :
       /\ holder' = [holder EXCEPT ![k] = next]
       /\ queue' = [queue EXCEPT ![k] = @ \ {next}]

MutexNext == \E t \in Threads, k \in Keys :
  Acquire(t, k) \/ Enqueue(t, k) \/ Release(t, k) \/ HandOver(t, k)

MutexSafety == MutexInit /\ [][MutexNext]_mutexVars

\* A holder that runs passes the lock on.
MutexSpec == MutexSafety /\ \A t \in Threads, k \in Keys : WF_mutexVars(HandOver(t, k))
=============================================================================
