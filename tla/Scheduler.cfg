SPECIFICATION MCSpec
CONSTANTS
  t1 = t1
  t2 = t2
  t3 = t3
  t4 = t4
  Threads = {t1, t2, t3, t4}
  NumCores = 2
  NoThread = NoThread
  Host = Host
  Priority <- MCPriority
  Affinity <- MCAffinity
  Priorities <- MCPriorities
  Masks <- MCMasks
  MayPause = {t2}
  MayExit = {t2}
  Preemption <- MCPreemption
INVARIANTS
  QueuesAreRight
  NoIdleCore
  OneCorePerThread
  RescheduleIsNotLost
  SpinEnds
  ChangeIsSeen
  TerminatedIsOff
  
