SPECIFICATION MCSpec
CONSTANTS
  a1 = a1
  a2 = a2
  c1 = c1
  c2 = c2
  viewer = viewer
  editor = editor
  pilot = pilot
  tv = tv
  tc = tc
  tp = tp
  ta = ta
  tb = tb
  e1 = e1
  e2 = e2
  common = common
  prebuilt = prebuilt
  d1 = d1
  d2 = d2
  old = old
  da = da
  dt = dt
  dn = dn
  Principal = {viewer, editor, pilot}
  Token = {tv, tc, tp}
  Tenant = {ta, tb}
  Estate = {e1, e2}
  Pilot = pilot
  PilotToken = tp
  PilotTenant = ta
  PilotEstate = e1
  Blank = Blank
  NoToken = NoToken
  DemoUser = DemoUser
  DemoBypass = FALSE
  AuthFaults = {}
  PlatformTenant = common
  PlatformProject = prebuilt
  VectorCandidates = 2
  LexicalCandidates = 1
  NoPack = NoPack
  NoSource = NoSource
  ApiSession = {a1, a2}
  CliSession = {c1, c2}
  ApiCall <- Calls
  LoadCall <- Loads
  CoreDocs <- TwoDocs
  CorePack = "core"
  IntentPack = "intents"
  AssetPack = "assets"
  VehiclePack = "vehicles"
  Utterances = 2
  Lines <- TwoLines
  Corpora <- EmptyCorpus
  Enrolled <- TwoPilots
  Backend = {"hash", "fastembed"}
  NoProvider = NoProvider
  RequireProduction = FALSE
  AdminRoutes = TRUE
  Faults = {"restart"}
  MaxCalls = 2
  MaxDisturbed = 1
CHECK_DEADLOCK FALSE
SYMMETRY Symmetry
INVARIANT HitsMatchEmbedder
