SPECIFICATION Spec
CONSTANTS
  h1 = h1
  c1 = c1
  c2 = c2
  h2 = h2
  Clients = {c1, c2}
  Servers = {h1, h2}
  Main = Main
  Sessions = {s1}
  Port = Port
  MaxSessions = 1
  Kinds = {"call", "getService", "close"}
  MaySendAsync = {c1}
  MayTerminate = {c2}
  NoSession = NoSession
  NoRequest = NoRequest
  NoActor = NoActor
  NoHolder = NoHolder
  Blocked = Blocked
  Wakeup = Wakeup
  Deferral = Deferral
INVARIANTS
  OnePlace
  AssertsHold
  AnsweredOnce
  NothingLeaks
  NoMissedRequest
PROPERTIES
  RequestIsAnswered
CHECK_DEADLOCK FALSE
