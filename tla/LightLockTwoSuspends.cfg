CONSTANTS
  low = low
  mid = mid
  high = high
  outer = outer
  inner = inner
  Threads = {low, mid, high}
  NoThread = NoThread
  Keys = {outer, inner}
  KernelKeys = {outer, inner}
  CondVarKeys = {}
  NoKey = NoKey
  InitialPriority <- MCInitialPriority
  Priorities = {}
  TerminatingPriority = 0
  MayNest = {}
  SuspendTypes = {"Thread", "System"}
  MaySuspend = {low, mid, high}
  MayTerminate = {}
SPECIFICATION SafetySpec
INVARIANTS KernelWaitersAreNotSuspended
