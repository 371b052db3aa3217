SPECIFICATION Spec
CONSTANTS
  t1 = t1
  t2 = t2
  t3 = t3
  caller = caller
  loop1 = loop1
  loop2 = loop2
  rates = rates
  rooms = rooms
  any = any
  plain = plain
  coroutine = coroutine
  id1 = id1
  mail = mail
  audit = audit
  Thread <- ThreeThreads
  Wanted = {"notification", "knowledge", "other"}
  Pipeline = {rates}
  Caller = {caller}
  Loop <- Loops
  Definition <- Definitions
  MaxSteps = 2
  HistoryCap = 1
  Topic = {rooms, any}
  Target = {rooms}
  Matches <- Patterns
  Plain = {plain}
  Coroutine = {coroutine}
  Cid = {id1}
  MaxHandlers = 2
INVARIANT LoaderInv
INVARIANT WorkflowInv
INVARIANT BusInv
PROPERTY NoFailureAlone
PROPERTY RunsAreRecorded
PROPERTY CallEnds
PROPERTY RunsGoOn
PROPERTY PendingLeaves
CHECK_DEADLOCK FALSE
