CONSTANTS
  low = low
  mid = mid
  high = high
  outer = outer
  inner = inner
  Threads = {low, mid, high}
  NoThread = NoThread
  Keys = {outer, inner}
  KernelKeys = {outer, inner}
  CondVarKeys = {}
  NoKey = NoKey
  InitialPriority <- MCInitialPriority
  Priorities = {4}
  TerminatingPriority = 0
  MayNest <- MCMayNest
  SuspendTypes = {"Thread"}
  MaySuspend = {mid}
  MayTerminate = {mid}
SPECIFICATION SafetySpec
INVARIANTS PriorityIsInherited KernelWaitersAreCounted
