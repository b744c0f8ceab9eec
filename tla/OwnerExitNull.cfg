CONSTANTS
  low = low
  mid = mid
  high = high
  other = other
  m1 = m1
  Threads = {low, mid, high}
  NoThread = NoThread
  Keys = {m1}
  KernelKeys = {}
  CondVarKeys = {cv}
  NoKey = NoKey
  InitialPriority <- MCInitialPriority
  Priorities = {}
  TerminatingPriority = 0
  Timeouts = {"finite"}
  Counts = {0}
  MayTerminate = {low, mid, high}
  MayClose = {low, mid, high}
SPECIFICATION SafetySpec
INVARIANTS NoNullOwner
CHECK_DEADLOCK FALSE
