----------------------------- MODULE CoreTiming -----------------------------
(***************************************************************************)
(* The timer thread of the emulator and its queue of timed events          *)
(* (core/core_timing.cpp, common/thread.h), in multicore mode.             *)
(*                                                                         *)
(* Everything done under basic_lock is one step.  Advance gives that lock  *)
(* up while a callback runs and keeps advance_lock, so the steps of other  *)
(* threads come between.  The callbacks are the business of the modules    *)
(* that extend this one.                                                   *)
(***************************************************************************)
EXTENDS Integers, Sequences, Functions

CONSTANTS
  TimerEvent,    \* the event type of KHardwareTimer, scheduled once at a time
  LoopingEvent,  \* an event type that is scheduled with a period
  Period,        \* its reschedule_time
  NoEvent,       \* no event type
  MaxTime,       \* the clock stops here
  LastSchedule   \* the looping event is scheduled until then

ASSUME TimingAssumption ==
  /\ TimerEvent # LoopingEvent /\ NoEvent \notin {TimerEvent, LoopingEvent}
  /\ Period \in Nat \ {0} /\ {MaxTime, LastSchedule} \subseteq Nat \ {0}

VARIABLES
  now,        \* GetGlobalTimeNs
  queue,      \* event_queue: a sequence in the order of time and fifo_order
  host,       \* where the timer thread is
  running,    \* the type whose callback runs
  stale,      \* its sequence_number has changed since the callback was called
  deadline,   \* next_time, which the timer thread waits for
  eventSet,   \* event is set
  pauseSet,   \* pause_event is set
  paused, pausedSet, pauseEnd,  \* paused, paused_set, pause_end_time
  stop,       \* stop_requested
  control,    \* where a thread is in SyncPause or Reset
  client      \* what the user of LoopingEvent has done with it

pauseVars == <<pauseSet, paused, pausedSet, pauseEnd, stop, control>>
timingVars == <<now, queue, host, running, stale, deadline, eventSet, pauseVars, client>>

TimingInit ==
  /\ now = 1
  /\ queue = <<>>
  /\ host = "outer"
  /\ running = NoEvent
  /\ stale = FALSE
  /\ deadline = 0
  /\ eventSet = TRUE /\ pauseSet = TRUE   \* by the Reset that Initialize calls
  /\ paused = TRUE /\ pausedSet = FALSE /\ pauseEnd = 0
  /\ stop = FALSE
  /\ control = "idle"
  /\ client = "unscheduled"

----------------------------------------------------------------------------
(* The queue. *)

\* As in SequencesExt, which the provers are slow to take in with its Bags.
InsertAt(s, i, e) == SubSeq(s, 1, i - 1) \o <<e>> \o SubSeq(s, i, Len(s))

\* The first of some positions, the one behind the last when there is none.
FirstOf(s, some) == IF some = {} THEN Len(s) + 1 ELSE CHOOSE i \in some : \A j \in some : i <= j

\* event_queue.emplace: behind the events of the same time.
Emplace(q, event) ==
  InsertAt(q, FirstOf(q, {i \in DOMAIN q : q[i].time > event.time}), event)

\* The events of other types.
Without(q, type) ==
  LET Others[i \in 0 .. Len(q)] ==
        IF i = 0 THEN <<>>
        ELSE IF q[i].type = type THEN Others[i - 1] ELSE Append(Others[i - 1], q[i])
  IN  Others[Len(q)]

\* ScheduleEvent and ScheduleLoopingEvent, up to the call of event.Set.
Schedule(type, time, period) ==
  queue' = Emplace(queue, [time |-> time, type |-> type, period |-> period])

\* UnscheduleEvent, but for the wait for the callback.
Unschedule(type) ==
  /\ queue' = Without(queue, type)
  /\ stale' = (stale \/ running = type)

\* A callback is under way or Advance looks for the next one: advance_lock.
InAdvance == host \in {"advance", "callback", "after"}

----------------------------------------------------------------------------
(* The timer thread. *)

Go(place) == host' = place

\* The outer loop looks at the stop token.
OuterLoop ==
  /\ host = "outer"
  /\ Go(IF stop THEN "done" ELSE "inner")
  /\ UNCHANGED <<now, queue, running, stale, deadline, eventSet, pauseVars, client>>

\* Mutant: paused_set is not cleared.
InnerLoop_KeepsFlag ==
  /\ host = "inner"
  /\ Go(IF paused \/ stop THEN "pause" ELSE "advance")
  /\ pausedSet' = (pausedSet \/ paused \/ stop)
  /\ UNCHANGED <<now, queue, running, stale, deadline, eventSet, client>>
  /\ UNCHANGED <<pauseSet, paused, pauseEnd, stop, control>>

\* The inner loop looks at paused and the stop token.
InnerLoop ==
  /\ host = "inner"
  /\ Go(IF paused \/ stop THEN "pause" ELSE "advance")
  /\ pausedSet' = (paused \/ stop)
  /\ UNCHANGED <<now, queue, running, stale, deadline, eventSet, client>>
  /\ UNCHANGED <<pauseSet, paused, pauseEnd, stop, control>>

\* pause_event.Wait
PauseWait ==
  /\ host = "pause" /\ pauseSet
  /\ Go("outer") /\ pauseSet' = FALSE
  /\ UNCHANGED <<now, queue, running, stale, deadline, eventSet, client>>
  /\ UNCHANGED <<paused, pausedSet, pauseEnd, stop, control>>

HeadIsDue == queue # <<>> /\ Head(queue).time <= now

\* Advance takes the first event that is due; one without a period leaves the
\* queue before its callback is called.
AdvanceCall ==
  /\ host = "advance" /\ HeadIsDue
  /\ Go("callback")
  /\ running' = Head(queue).type /\ stale' = FALSE
  /\ queue' = IF Head(queue).period = 0 THEN Tail(queue) ELSE queue
  /\ UNCHANGED <<now, deadline, eventSet, pauseVars, client>>

\* Advance returns; the timer thread waits for the next event or for event.
AdvanceReturn ==
  /\ host = "advance" /\ ~HeadIsDue
  /\ Go(IF queue = <<>> THEN "wait" ELSE "waitFor")
  /\ deadline' = IF queue = <<>> THEN 0 ELSE Head(queue).time
  /\ UNCHANGED <<now, queue, running, stale, eventSet, pauseVars, client>>

\* event.Wait and event.WaitFor
EventWait ==
  /\ \/ host \in {"wait", "waitFor"} /\ eventSet /\ eventSet' = FALSE
     \/ host = "waitFor" /\ deadline <= now /\ UNCHANGED eventSet
  /\ Go("inner") /\ deadline' = 0
  /\ UNCHANGED <<now, queue, running, stale, pauseVars, client>>

\* When the next call of a looping event that was due at `time' is due.
NextTime(time) == Period + IF time < pauseEnd THEN pauseEnd ELSE time

\* Mutant: the event is put back although it was unscheduled meanwhile.
AfterCallback_Always(q, event, isStale) ==
  Emplace(Without(q, event), [time |-> now + Period, type |-> event, period |-> Period])

\* What becomes of the queue after the callback of a looping event.
AfterCallback(q, event, isStale) ==
  IF isStale THEN q
  ELSE LET i == CHOOSE j \in DOMAIN q : q[j].type = event
       IN  Emplace(Without(q, event), [q[i] EXCEPT !.time = NextTime(@)])

\* Advance after a callback.
AdvanceAfter ==
  /\ host = "after"
  /\ queue' = IF running = LoopingEvent THEN AfterCallback(queue, running, stale) ELSE queue
  /\ Go("advance") /\ running' = NoEvent /\ stale' = FALSE
  /\ UNCHANGED <<now, deadline, eventSet, pauseVars, client>>

TimerThreadStep ==
  OuterLoop \/ InnerLoop \/ PauseWait \/ AdvanceCall \/ AdvanceReturn \/ EventWait \/ AdvanceAfter

----------------------------------------------------------------------------
(* Other threads. *)

Tick ==
  /\ now < MaxTime /\ now' = now + 1
  /\ UNCHANGED <<queue, host, running, stale, deadline, eventSet, pauseVars, client>>

\* Mutant: paused_set is set by the thread that asks for the pause.
SyncPause_SetsFlag(isPaused) ==
  /\ control = "idle" /\ ~(paused = isPaused /\ pausedSet = isPaused)
  /\ paused' = isPaused /\ pausedSet' = isPaused /\ control' = "pause_event"
  /\ UNCHANGED <<now, queue, host, running, stale, deadline, eventSet, client>>
  /\ UNCHANGED <<pauseSet, pauseEnd, stop>>

\* SyncPause, and Pause which it calls, up to the first event.
SyncPause(isPaused) ==
  /\ control = "idle" /\ ~(paused = isPaused /\ pausedSet = isPaused)
  /\ paused' = isPaused /\ control' = "pause_event"
  /\ UNCHANGED <<now, queue, host, running, stale, deadline, eventSet, client>>
  /\ UNCHANGED <<pauseSet, pausedSet, pauseEnd, stop>>

\* It sets pause_event, notes the time and sets it again when a pause ends, and
\* then sets event.
SyncPauseSet ==
  /\ \/ /\ control = "pause_event" /\ control' = IF paused THEN "event" ELSE "again"
        /\ pauseSet' = TRUE /\ UNCHANGED <<pauseEnd, eventSet>>
     \/ /\ control = "again" /\ control' = "event"
        /\ pauseSet' = TRUE /\ pauseEnd' = now /\ UNCHANGED eventSet
     \/ /\ control = "event" /\ control' = "spin"
        /\ eventSet' = TRUE /\ UNCHANGED <<pauseSet, pauseEnd>>
  /\ UNCHANGED <<now, queue, host, running, stale, deadline, client>>
  /\ UNCHANGED <<paused, pausedSet, stop>>

\* It spins until the timer thread agrees.
SyncPauseReturn ==
  /\ control = "spin" /\ pausedSet = paused
  /\ control' = "idle" /\ pauseEnd' = IF paused THEN pauseEnd ELSE now
  /\ UNCHANGED <<now, queue, host, running, stale, deadline, eventSet, client>>
  /\ UNCHANGED <<pauseSet, paused, pausedSet, stop>>

\* ClearPendingEvents, when a game ends; the guest does not run any more.
ClearPendingEvents ==
  /\ control = "idle" /\ ~paused /\ client \in {"unscheduled", "scheduled"}
  /\ ~InAdvance
  /\ queue' = <<>> /\ eventSet' = TRUE /\ control' = "cleared"
  /\ UNCHANGED <<now, host, running, stale, deadline, client>>
  /\ UNCHANGED <<pauseSet, paused, pausedSet, pauseEnd, stop>>

\* Reset: paused, pause_event, event, request_stop and join.
Reset ==
  /\ \/ control = "finalized" /\ control' = "reset1" /\ paused' = TRUE /\ UNCHANGED <<pauseSet, eventSet, stop>>
     \/ control = "reset1" /\ control' = "reset2" /\ pauseSet' = TRUE /\ UNCHANGED <<paused, eventSet, stop>>
     \/ control = "reset2" /\ control' = "reset3" /\ eventSet' = TRUE /\ UNCHANGED <<paused, pauseSet, stop>>
     \/ control = "reset3" /\ control' = "join" /\ stop' = TRUE /\ UNCHANGED <<paused, pauseSet, eventSet>>
     \/ control = "join" /\ host = "done" /\ control' = "joined" /\ UNCHANGED <<paused, pauseSet, eventSet, stop>>
  /\ UNCHANGED <<now, queue, host, running, stale, deadline, client, pausedSet, pauseEnd>>

Exiting ==
  control \in {"cleared", "finalize", "finalized", "reset1", "reset2", "reset3", "join", "joined"}

\* Mutant: ScheduleLoopingEvent does not set event.
ClientSchedule_NoSet ==
  /\ client = "unscheduled" /\ now <= LastSchedule /\ ~Exiting /\ client' = "scheduled"
  /\ Schedule(LoopingEvent, now + Period, Period)
  /\ UNCHANGED <<now, host, running, stale, deadline, eventSet, pauseVars>>

\* The user of a looping event schedules it, and unschedules it with
\* UnscheduleEventType::Wait.
ClientSchedule ==
  /\ client = "unscheduled" /\ now <= LastSchedule /\ ~Exiting /\ client' = "signal"
  /\ Schedule(LoopingEvent, now + Period, Period)
  /\ UNCHANGED <<now, host, running, stale, deadline, eventSet, pauseVars>>

ClientSignal ==
  /\ client = "signal" /\ client' = "scheduled" /\ eventSet' = TRUE
  /\ UNCHANGED <<now, queue, host, running, stale, deadline, pauseVars>>

ClientUnschedule ==
  /\ client = "scheduled" /\ ~Exiting /\ client' = "waiting"
  /\ Unschedule(LoopingEvent)
  /\ UNCHANGED <<now, host, running, deadline, eventSet, pauseVars>>

ClientReturn ==
  /\ client = "waiting" /\ ~InAdvance /\ client' = "unscheduled"
  /\ UNCHANGED <<now, queue, host, running, stale, deadline, eventSet, pauseVars>>

ControlStep == SyncPauseSet \/ SyncPauseReturn
ClientStep == ClientSchedule \/ ClientSignal \/ ClientUnschedule \/ ClientReturn
=============================================================================
