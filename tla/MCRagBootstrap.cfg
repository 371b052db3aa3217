SPECIFICATION BootSpec
CONSTANTS
  a = a
  b = b
  Layer = {1, 2}
  Doc = {"a", "b"}
  Version = {"fixture", "user"}
  NoDoc = NoDoc
  Asker <- Two
  Service <- Two
  Fixtures <- OnePerLayer
  UserDocs <- OneUserDoc
  Mishaps = {"crash", "store"}
  NoService = NoService
  NoAsker = NoAsker
  NoWrite = NoWrite
  Torn = Torn
SYMMETRY Symmetry
CHECK_DEADLOCK FALSE
INVARIANT BootInv
