----------------------------- MODULE MultiWait -----------------------------
(***************************************************************************)
(* The wait of a server for any of its objects (core/hle/service/os/        *)
(* multi_wait.cpp, multi_wait_holder.cpp), and what NotifyAvailable means   *)
(* to it.  KSynchronizationObject is modelled in a module of its own; here  *)
(* a wait looks at the objects and blocks in one step, and a blocked wait   *)
(* ends only when NotifyAvailable is called for one of its objects.         *)
(***************************************************************************)
EXTENDS SequencesExt, FiniteSetsExt, Integers

CONSTANTS
  NoHolder,   \* no object is selected
  Blocked     \* the wait has found no signalled object

VARIABLES
  multiWait,     \* m_wait_list of m_multi_wait
  deferredList,  \* m_wait_list of m_deferred_list
  selected       \* what the wait has returned, or Blocked while it sleeps

waitVars == <<multiWait, deferredList, selected>>

\* MultiWait::WaitAny, up to the point where the thread sleeps: the first of
\* the signalled objects ends a wait at once.
WaitAny(ready) ==
  LET found == {i \in DOMAIN multiWait : multiWait[i] \in ready}
  IN  /\ selected' = IF found = {} THEN Blocked ELSE multiWait[Min(found)]
      /\ UNCHANGED <<multiWait, deferredList>>

\* What NotifyAvailable of object o does to the wait.
Notified(o) ==
  IF selected = Blocked /\ o \in ToSet(multiWait) THEN o ELSE selected

\* NotifyAvailable of object o, if the condition holds.
NotifyIf(condition, o) ==
  /\ selected' = IF condition THEN Notified(o) ELSE selected
  /\ UNCHANGED <<multiWait, deferredList>>

\* MultiWait::MoveAll
MoveAll ==
  /\ multiWait' = multiWait \o deferredList
  /\ deferredList' = <<>>
=============================================================================
