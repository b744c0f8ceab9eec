CONSTANTS
  low = low
  mid = mid
  high = high
  other = other
  m1 = m1
  Threads = {low, mid, high, other}
  NoThread = NoThread
  Keys = {m1, m2}
  KernelKeys = {}
  CondVarKeys = {cv}
  NoKey = NoKey
  InitialPriority <- MCInitialPriority
  Priorities = {}
  TerminatingPriority = 0
  Timeouts = {"infinite"}
  Counts = {0}
  MayTerminate = {}
  MayClose = {}
SPECIFICATION SafetySpec
INVARIANTS CondVarFlag
CHECK_DEADLOCK FALSE
