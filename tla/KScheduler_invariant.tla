------------------------ MODULE KScheduler_invariant ------------------------
(***************************************************************************)
(* The inductive invariant of the scheduler, for any number of cores and   *)
(* any threads, and the steps that its proof tells apart.                  *)
(***************************************************************************)
EXTENDS KScheduler

----------------------------------------------------------------------------
(* The data under the lock. *)

Runnables == {t \in Threads : Queued(t)}

\* The only thread of its core.
Alone(z, threads, t) == z.core[t] \in Cores /\ ScheduledOn(z, threads, z.core[t]) = {t}

NoUrgent(z, threads) == \A t \in threads : z.priority[t] >= HighestCoreMigrationAllowedPriority

\* A core is idle only if all of its suggestions have a core for themselves, or
\* there is an urgent thread.
IdleOK(z, threads) ==
  NoUrgent(z, threads) =>
    \A c \in Cores : Tops(z)[c] = NoThread => \A t \in SuggestedFor(z, threads, c) : Alone(z, threads, t)

\* These threads share their core with no thread of their priority.
QuietOK(z, threads, some) ==
  \A t \in some : t \in threads =>
    /\ z.core[t] \in Cores
    /\ \A u \in threads : z.core[u] = z.core[t] /\ z.priority[u] = z.priority[t] => u = t

\* The queues hold the threads that can run, and the cores' choices are the
\* tops of the queues.
QueueInv ==
  /\ TypeOK /\ Holds(q, Runnables) /\ highest = Tops(q)
  /\ IdleOK(q, Runnables) /\ QuietOK(q, Runnables, quiet)

----------------------------------------------------------------------------
(* The cores. *)

\* Core c has the context of thread t.
Has(c, t) == current[c] = t /\ pc[c] \in {"run", "ipi", "read", "check"}

\* A context is locked for the one core that has it; a terminated thread keeps
\* its context locked, and no core is about to give it back.
GuardInv ==
  /\ \A c, d \in Cores, t \in Threads : Has(c, t) /\ Has(d, t) => c = d
  /\ \A c \in Cores, t \in Threads : Has(c, t) => t \in guarded
  /\ \A t \in guarded : state[t] # "Terminated" => \E c \in Cores : Has(c, t)
  /\ \A c \in Cores : pc[c] = "check" => current[c] = next[c]
  /\ \A t \in Threads : state[t] = "Terminated" =>
       t \in guarded /\ \A c \in Cores : ~(pc[c] = "check" /\ current[c] = t)

\* The cores that FinishTermination has passed do not have the thread.
FinishInv ==
  \A t \in Threads : /\ finishing[t] > 0 => state[t] = "Terminated"
                     /\ \A c \in Cores : c < finishing[t] => current[c] # t

\* Some actor has yet to interrupt core c.
Pending(c) == \E a \in Cores \cup {Host} : c \in toInterrupt[a]

\* A core that is not about to read its choice has the present one, or has been
\* told of another.
Told(c) ==
  /\ pc[c] = "run" => current[c] = highest[c] \/ (needs[c] /\ (interrupted[c] \/ Pending(c)))
  /\ pc[c] = "ipi" => current[c] = highest[c] \/ needs[c]
  /\ pc[c] \in {"lock", "check"} => next[c] = highest[c] \/ needs[c]
  /\ pc[c] # "ipi" => toInterrupt[c] = {}

ToldInv == \A c \in Cores : Told(c)

\* A thread that calls has an active core: only its own yield takes it away.
RunnersHaveCores ==
  \A c \in Cores : pc[c] = "run" /\ current[c] \in Threads => q.core[current[c]] \in Cores

SchedulerInv == QueueInv /\ GuardInv /\ FinishInv /\ ToldInv /\ RunnersHaveCores

----------------------------------------------------------------------------
(* The steps. *)

IsCurrent(actor, t) == actor \in Cores /\ current[actor] = t

\* What the cores see of the update that ends an operation.
Effects(actor) ==
  /\ highest' \in [Cores -> Threads \cup {NoThread}] /\ needs' \in [Cores -> BOOLEAN]
  /\ toInterrupt' \in [Cores \cup {Host} -> SUBSET Cores] /\ quiet' \subseteq Threads
  /\ \A c \in Cores : needs[c] => needs'[c]
  /\ \A c \in Cores : highest'[c] # highest[c] => needs'[c] /\ (c = actor \/ c \in toInterrupt'[actor])
  /\ \A b \in Cores \cup {Host} : b # actor => toInterrupt'[b] = toInterrupt[b]

\* An operation under the lock, by a core or by the timer thread: what every one
\* of them is shown to do.
LockedStep(actor) ==
  /\ actor \in Cores => pc[actor] = "run" /\ current[actor] \in Threads
  /\ actor = Host => toInterrupt[Host] = {}
  /\ pc' = [c \in Cores |-> IF c = actor THEN "ipi" ELSE pc[c]]
  /\ UNCHANGED <<interrupted, current, next, guarded, finishing>>
  /\ Effects(actor)
  /\ QueueInv'
  /\ \A t \in Threads : state[t] = "Terminated" => state'[t] = "Terminated"
  /\ \A t \in Threads : state'[t] = "Terminated" => state[t] = "Terminated" \/ IsCurrent(actor, t)
  /\ \A t \in Threads : q.core[t] \in Cores => q'.core[t] \in Cores \/ IsCurrent(actor, t)

\* A step of a core outside the lock.
Unlocked(c) ==
  \/ EnableScheduling(c) \/ HandleInterrupt(c) \/ ReadHighest(c)
  \/ LockContext(c) \/ GiveUp(c) \/ CheckSwitch(c) \/ RereadHighest(c)

Step ==
  \/ \E actor \in Cores \cup {Host} : LockedStep(actor)
  \/ \E c \in Cores : Unlocked(c)
  \/ RescheduleCores
  \/ \E t \in Threads : FinishTermination(t)
  \/ UNCHANGED vars
=============================================================================
