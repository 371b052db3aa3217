SPECIFICATION MCSpec
CONSTANTS
  t1 = t1
  t2 = t2
  p1 = p1
  p2 = p2
  p3 = p3
  listing = listing
  search = search
  Thread <- MCThread
  Post <- MCPost
  Capability <- MCCapability
  CapabilityOf <- MCCapabilityOf
  BlocksOf <- MCBlocksOf
  Lasting <- MCLasting
  Nothing = Nothing
  Faults = {"block", "commit", "exit", "crash"}
INVARIANT OkIsStored
INVARIANT StoredAfterBlocks
INVARIANT StoredOnce
INVARIANT RefusedNeverStoredIfCommitted
PROPERTY ListsOnlyGrow
PROPERTY TakenIsAnswered
