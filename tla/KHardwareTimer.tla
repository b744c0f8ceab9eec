--------------------------- MODULE KHardwareTimer ---------------------------
(***************************************************************************)
(* The kernel's timer: tasks of waiting threads, and one event of          *)
(* CoreTiming that is armed for the earliest (core/hle/kernel/             *)
(* k_hardware_timer.cpp, k_hardware_timer.h, k_hardware_timer_base.h).     *)
(*                                                                         *)
(* Tasks are registered and cancelled, and DoTask runs, under the          *)
(* scheduler lock and the timer's own lock.  EnableInterrupt calls         *)
(* CoreTiming twice, and the timer thread may take steps between.          *)
(***************************************************************************)
EXTENDS CoreTiming

CONSTANTS
  Threads,   \* every thread has one task
  NoThread,
  Timeouts   \* how long each thread may ask to wait

ASSUME TimerAssumption == NoThread \notin Threads /\ Timeouts \in [Threads -> SUBSET (Nat \ {0})]

VARIABLES
  tree,      \* m_task_tree: a sequence in the order of time
  time,      \* m_time of each task, 0 when it is not in the tree
  nextTask,  \* m_next_task
  wakeup,    \* m_wakeup_time
  arm,       \* where a thread is in EnableInterrupt, with which time
  waiting    \* the threads that wait

timerVars == <<tree, time, nextTask, wakeup, arm>>

Never == MaxTime + 1   \* numeric_limits<s64>::max()
NoArm == [at |-> "none", time |-> 0, by |-> "core"]

\* No thread is in EnableInterrupt.
TimerUnlocked == arm = NoArm

TimerInit ==
  /\ tree = <<>>
  /\ time = [t \in Threads |-> 0]
  /\ nextTask = NoThread
  /\ wakeup = Never
  /\ arm = NoArm
  /\ waiting = {}

----------------------------------------------------------------------------
(* The tree. *)

Index(s, t) == CHOOSE i \in DOMAIN s : s[i] = t

\* Without the tasks from one position up to another.
Erase(s, i, j) == SubSeq(s, 1, i - 1) \o SubSeq(s, j, Len(s))

\* The task behind t in the tree, the `it' of RemoveTaskFromTree.
Behind(t) == LET i == Index(tree, t) IN IF i = Len(tree) THEN NoThread ELSE tree[i + 1]

\* RemoveTaskFromTree
RemoveTaskFromTree(t) ==
  /\ tree' = Erase(tree, Index(tree, t), Index(tree, t) + 1)
  /\ time' = [time EXCEPT ![t] = 0]
  /\ nextTask' = IF nextTask = t THEN Behind(t) ELSE nextTask

----------------------------------------------------------------------------
(* Registering a task and arming the interrupt. *)

\* EnableInterrupt begins: who is the timer thread or one of a core.
EnableInterrupt(who, t) == arm' = [at |-> "unschedule", time |-> t, by |-> who]

\* m_task_tree.insert: behind the tasks of the same time.
Inserted(t, taskTime) ==
  InsertAt(tree, FirstOf(tree, {i \in DOMAIN tree : time[tree[i]] > taskTime}), t)

\* RegisterAbsoluteTaskImpl returns true.
BecomesNext(taskTime) == nextTask = NoThread \/ time[nextTask] > taskTime

RegisterAbsoluteTaskImpl(t, taskTime) ==
  /\ time' = [time EXCEPT ![t] = taskTime]
  /\ tree' = Inserted(t, taskTime)
  /\ nextTask' = IF BecomesNext(taskTime) THEN t ELSE nextTask

\* Mutant: the interrupt is armed only when none is.
RegisterAbsoluteTask_OnlyFirst(t, taskTime) ==
  /\ RegisterAbsoluteTaskImpl(t, taskTime)
  /\ IF BecomesNext(taskTime) /\ wakeup = Never THEN EnableInterrupt("core", taskTime) ELSE UNCHANGED arm
  /\ UNCHANGED wakeup

\* RegisterAbsoluteTask, up to EnableInterrupt.
RegisterAbsoluteTask(t, taskTime) ==
  /\ RegisterAbsoluteTaskImpl(t, taskTime)
  /\ IF BecomesNext(taskTime) /\ taskTime <= wakeup THEN EnableInterrupt("core", taskTime) ELSE UNCHANGED arm
  /\ UNCHANGED wakeup

\* CancelTask.  The interrupt stays armed.
CancelTask(t) ==
  IF time[t] > 0 THEN RemoveTaskFromTree(t) ELSE UNCHANGED <<tree, time, nextTask>>

\* Mutant: UnscheduleEvent with Wait.
DisableInterrupt_Wait ==
  /\ arm.at = "unschedule" /\ ~InAdvance /\ arm' = [arm EXCEPT !.at = "schedule"]
  /\ Unschedule(TimerEvent) /\ wakeup' = Never
  /\ UNCHANGED <<now, host, running, deadline, eventSet, pauseVars, client, tree, time, nextTask>>

\* Mutant: the event stays in the queue.
DisableInterrupt_Keeps ==
  /\ arm.at = "unschedule" /\ arm' = [arm EXCEPT !.at = "schedule"]
  /\ wakeup' = Never
  /\ UNCHANGED <<now, queue, host, running, stale, deadline, eventSet, pauseVars, client>>
  /\ UNCHANGED <<tree, time, nextTask>>

\* DisableInterrupt: UnscheduleEvent with NoWait.
DisableInterrupt ==
  /\ arm.at = "unschedule" /\ arm' = [arm EXCEPT !.at = "schedule"]
  /\ Unschedule(TimerEvent) /\ wakeup' = Never
  /\ UNCHANGED <<now, host, running, deadline, eventSet, pauseVars, client, tree, time, nextTask>>

\* ScheduleEvent with an absolute time.
ScheduleInterrupt ==
  /\ arm.at = "schedule" /\ arm' = [arm EXCEPT !.at = "signal"]
  /\ Schedule(TimerEvent, arm.time, 0) /\ wakeup' = arm.time
  /\ UNCHANGED <<now, host, running, stale, deadline, eventSet, pauseVars, client, tree, time, nextTask>>

\* Its event.Set, and the return of EnableInterrupt.
SignalInterrupt ==
  /\ arm.at = "signal" /\ arm' = NoArm
  /\ eventSet' = TRUE /\ host' = IF arm.by = "host" THEN "after" ELSE host
  /\ UNCHANGED <<now, queue, running, stale, deadline, pauseVars, client, tree, time, nextTask, wakeup>>

EnableInterruptStep == DisableInterrupt \/ ScheduleInterrupt \/ SignalInterrupt

----------------------------------------------------------------------------
(* The callback. *)

\* The positions of the tasks that DoInterruptTaskImpl takes out of the tree: from
\* m_next_task on, up to the first one in the future.
FirstDue == IF nextTask = NoThread THEN Len(tree) + 1 ELSE Index(tree, nextTask)
BehindDue == FirstOf(tree, {i \in FirstDue .. Len(tree) : time[tree[i]] > now})

Due == {tree[i] : i \in FirstDue .. BehindDue - 1}

\* DoTask, but for OnTimer of the tasks in Due, up to EnableInterrupt.
DoTask ==
  /\ host = "callback" /\ running = TimerEvent /\ TimerUnlocked
  /\ IF wakeup = Never
     THEN Go("after") /\ UNCHANGED timerVars
     ELSE LET next == IF BehindDue > Len(tree) THEN NoThread ELSE tree[BehindDue]
          IN  /\ tree' = Erase(tree, FirstDue, BehindDue)
              /\ time' = [t \in Threads |-> IF t \in Due THEN 0 ELSE time[t]]
              /\ nextTask' = next
              /\ wakeup' = Never
              /\ IF next = NoThread THEN Go("after") /\ UNCHANGED arm
                 ELSE EnableInterrupt("host", time[next]) /\ UNCHANGED host
  /\ UNCHANGED <<now, queue, running, stale, deadline, eventSet, pauseVars, client>>

\* The threads whose OnTimer DoTask calls.
TimedOut == IF wakeup = Never THEN {} ELSE Due

\* Finalize, when a game ends: UnscheduleEvent with Wait, and no wakeup.
Finalize ==
  /\ \/ control = "cleared" /\ control' = "finalize" /\ Unschedule(TimerEvent) /\ UNCHANGED wakeup
     \/ control = "finalize" /\ control' = "finalized" /\ ~InAdvance /\ wakeup' = Never
        /\ UNCHANGED <<queue, stale>>
  /\ UNCHANGED <<now, host, running, deadline, eventSet, client, tree, time, nextTask, arm>>
  /\ UNCHANGED <<pauseSet, paused, pausedSet, pauseEnd, stop>>

----------------------------------------------------------------------------
(* The threads that wait with a timeout. *)

\* KThread::Sleep: BeginWait, and RegisterAbsoluteTask when the lock is released.
Sleep(t, timeout) ==
  /\ TimerUnlocked /\ ~Exiting /\ t \notin waiting /\ now + timeout <= MaxTime
  /\ waiting' = waiting \cup {t}
  /\ RegisterAbsoluteTask(t, now + timeout)
  /\ UNCHANGED timingVars

\* KThreadQueue::CancelWait with cancel_timer_task, or EndWait: another thread
\* ends the wait.
EndWait(t) ==
  /\ TimerUnlocked /\ ~Exiting /\ t \in waiting
  /\ waiting' = waiting \ {t}
  /\ CancelTask(t)
  /\ UNCHANGED <<wakeup, arm, timingVars>>

\* DoTask, with KThread::OnTimer of every task that is due.
TimerCallback == DoTask /\ waiting' = waiting \ TimedOut

\* The callback of the looping event.  That of the preemption event takes the
\* scheduler lock.
LoopingCallback ==
  /\ host = "callback" /\ running = LoopingEvent /\ TimerUnlocked /\ Go("after")
  /\ UNCHANGED <<now, queue, running, stale, deadline, eventSet, pauseVars, client, timerVars, waiting>>

HostStep == (TimerThreadStep /\ UNCHANGED <<timerVars, waiting>>) \/ TimerCallback \/ LoopingCallback

Init == TimingInit /\ TimerInit

vars == <<timingVars, timerVars, waiting>>

OutsideTimer == UNCHANGED <<timerVars, waiting>>

Next ==
  \/ HostStep
  \/ EnableInterruptStep /\ UNCHANGED waiting
  \/ \E t \in Threads : EndWait(t) \/ \E timeout \in Timeouts[t] : Sleep(t, timeout)
  \/ (Tick \/ ControlStep \/ ClientStep \/ Reset) /\ OutsideTimer
  \/ (\E isPaused \in BOOLEAN : SyncPause(isPaused)) /\ OutsideTimer
  \/ ClearPendingEvents /\ TimerUnlocked /\ OutsideTimer
  \/ Finalize /\ UNCHANGED waiting

\* Host threads run, and time passes.
Fairness ==
  /\ WF_vars(HostStep)
  /\ WF_vars(EnableInterruptStep /\ UNCHANGED waiting)
  /\ WF_vars(ControlStep /\ OutsideTimer)
  /\ WF_vars(ClientSignal /\ OutsideTimer)
  /\ WF_vars(Tick /\ OutsideTimer)

Spec == Init /\ [][Next]_vars /\ Fairness

----------------------------------------------------------------------------

TypeOK ==
  /\ now \in 1..MaxTime /\ wakeup \in 1..Never /\ deadline \in 0..(MaxTime + Period)
  /\ \A i \in DOMAIN queue : queue[i].type \in {TimerEvent, LoopingEvent}
  /\ host \in {"outer", "inner", "pause", "advance", "callback", "after", "wait", "waitFor", "done"}
  /\ running \in {TimerEvent, LoopingEvent, NoEvent}
  /\ {stale, eventSet, pauseSet, paused, pausedSet, stop} \subseteq BOOLEAN
  /\ client \in {"unscheduled", "signal", "scheduled", "waiting"}
  /\ time \in [Threads -> 0..MaxTime] /\ waiting \subseteq Threads

\* The tree holds exactly the tasks of the waiting threads, in the order of
\* their times, and m_next_task is the first (RemoveTaskFromTree).
TreeIsRight ==
  /\ Range(tree) = waiting
  /\ \A t \in Threads : t \in waiting <=> time[t] > 0
  /\ \A i, j \in DOMAIN tree : i < j => tree[i] # tree[j] /\ time[tree[i]] <= time[tree[j]]
  /\ nextTask = IF tree = <<>> THEN NoThread ELSE Head(tree)

\* The tree is right, and while a task is in it and no thread is arming the
\* interrupt, the queue of CoreTiming holds the event of the timer at the time of
\* the earliest task or before, or its callback has been called and has yet to look
\* (RegisterAbsoluteTask, DoTask, EnableInterrupt).
InterruptIsArmed ==
  /\ TypeOK /\ TreeIsRight
  /\ TimerUnlocked /\ tree # <<>> /\ ~Exiting =>
       \/ \E i \in DOMAIN queue : queue[i].type = TimerEvent /\ queue[i].time <= time[Head(tree)]
       \/ host = "callback" /\ running = TimerEvent

\* EnableInterrupt leaves no event of the timer behind, so the queue holds at most
\* one, and while m_wakeup_time says that the interrupt is enabled the event is
\* in the queue at that time or its callback has been called: RegisterAbsoluteTask
\* relies on it when it does not arm the interrupt.
WakeupIsQueued ==
  TimerUnlocked /\ ~Exiting =>
    LET events == {i \in DOMAIN queue : queue[i].type = TimerEvent}
    IN  /\ \A i, j \in events : i = j
        /\ wakeup # Never =>
             \/ \E i \in events : queue[i].time = wakeup
             \/ host = "callback" /\ running = TimerEvent

\* A looping event is in the queue exactly while it is scheduled, also when it is
\* unscheduled, and scheduled again, while its callback runs (sequence_number in
\* Advance), and its callback does not run once UnscheduleEvent has returned.
LoopingIsRight ==
  ~Exiting =>
    LET events == {i \in DOMAIN queue : queue[i].type = LoopingEvent}
    IN  /\ \A i, j \in events : i = j
        /\ events # {} <=> client \in {"signal", "scheduled"}
        /\ client = "unscheduled" => running # LoopingEvent

\* Once SyncPause has returned no callback runs until the next SyncPause, and the
\* timer thread is at its loop's pause_event or on its way to it.
PausedIsQuiet ==
  control = "idle" /\ paused /\ pausedSet => host \in {"outer", "inner", "pause"}

\* The timer thread never sleeps past an event: it waits for a time at or before
\* that of the first event, or event is set, or is about to be.
NoOversleep ==
  host \in {"wait", "waitFor"} /\ queue # <<>> =>
    \/ host = "waitFor" /\ deadline <= Head(queue).time
    \/ eventSet \/ arm.at = "signal" \/ client = "signal"

\* A wait with a timeout ends, unless the emulator is paused or exits.
TimedWaitEnds == \A t \in Threads : t \in waiting ~> t \notin waiting \/ paused \/ Exiting

\* SyncPause returns.
SyncPauseReturns == control = "spin" ~> control # "spin"
=============================================================================
