SPECIFICATION Spec
CONSTANTS
  t1 = t1
  t2 = t2
  Threads = {t1, t2}
  NoThread = NoThread
  Timeouts <- MCTimeouts
  TimerEvent = TimerEvent
  LoopingEvent = LoopingEvent
  NoEvent = NoEvent
  Period = 2
  MaxTime = 3
  LastSchedule = 1
INVARIANTS
  InterruptIsArmed
  WakeupIsQueued
  LoopingIsRight
  
  NoOversleep
CHECK_DEADLOCK FALSE
PROPERTIES
  TimedWaitEnds
  SyncPauseReturns
