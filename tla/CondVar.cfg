CONSTANTS
  low = low
  mid = mid
  high = high
  other = other
  m1 = m1
  Threads = {low, mid, high}
  NoThread = NoThread
  Keys = {m1,m2}
  KernelKeys = {}
  CondVarKeys = {cv}
  NoKey = NoKey
  InitialPriority <- MCInitialPriority
  Priorities = {2}
  TerminatingPriority = 0
  Timeouts = {"zero", "finite"}
  Counts = {0, 1}
  MayTerminate = {mid}
  MayClose = {mid}
SPECIFICATION MCSpec
CHECK_DEADLOCK FALSE
INVARIANTS MutualExclusion WaitersAreVisible WaitingIsQueued NoStaleTimer CondVarFlag PriorityIsInherited
PROPERTIES SchedulerLockIsReleased
