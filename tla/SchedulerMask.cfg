SPECIFICATION Spec
CONSTANTS
  t1 = t1
  t2 = t2
  t3 = t3
  t4 = t4
  Threads = {t1, t2, t3}
  NumCores = 3
  NoThread = NoThread
  Host = Host
  Priority <- MCPriority
  Affinity <- MaskAffinity
  Priorities <- MaskPriorities
  Masks <- MaskMasks
  MayPause = {}
  MayExit = {}
  Preemption <- MCPreemption
INVARIANTS
  ChangeIsSeen
