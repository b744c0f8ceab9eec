CONSTANTS
  t1 = t1
  t2 = t2
  e1 = e1
  Null = Null
  Threads = {t1, t2}
  Events = {e1}
  MaxObjects = 2
  Waitable = {t1, e1}
  Timeouts = {"zero", "finite", "infinite"}
  MayEnd = {t1}
SPECIFICATION Spec
INVARIANTS ListsAreRight NoMissedSignal CancelIsForSyncWaits
PROPERTIES JoinEnds
