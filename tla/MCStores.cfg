SPECIFICATION Spec
CONSTANTS
  chat = chat
  search = search
  k1 = k1
  k2 = k2
  e1 = e1
  e2 = e2
  e3 = e3
  e4 = e4
  a = a
  b = b
  r1 = r1
  r2 = r2
  plain = plain
  accented = accented
  broken = broken
  listed = listed
  mail = mail
  audit = audit
  send = send
  scan = scan
  Namespace <- Namespaces
  UserKey <- Keys
  Value <- Pair
  Ttl = {0, 1}
  MaxSize = 2
  Missing = Missing
  Never = Never
  MaxTime = 2
  Event <- FourEvents
  Instance <- Pair
  Wiring = {"contract", "vendored", "none"}
  Genesis = Genesis
  Faults = {"insert", "crash"}
  Entities <- ThreeEntities
  Runner <- TwoRunners
  Profile <- Profiles
  Releases <- Earlier
  Note <- FourNotes
  Wide <- NotAscii
  Separated <- WithSeparator
  Scalar <- WithScalar
  Queue <- TwoQueues
  JobType <- JobTypes
  Handled <- WithHandler
  Priority = {0, 1}
  Retries <- AskedRetries
  MaxJobs = 3
  MaxMillis = 1
SYMMETRY Symmetry
CHECK_DEADLOCK FALSE
INVARIANT CacheInv
INVARIANT AuditInv
INVARIANT ServingHasTables
INVARIANT SchemaInv
INVARIANT NotesFound
INVARIANT QueueInv
PROPERTY EvictsLeastRecent
PROPERTY CacheIsLossyMap
PROPERTY ServerNeverStamps
