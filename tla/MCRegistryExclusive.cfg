CONSTANTS
  a1 = a1
  a2 = a2
  Clients = {c1, c2, c3}
  Addresses = {a1, a2}
  InitialPool <- SmallPool
  Nobody = Nobody
  Handlers = {h1, h2, h3}
  Admins = {}
  MayOverlap = FALSE
SYMMETRY Interchangeable
SPECIFICATION CoreSpec
INVARIANTS
  CoreTypeOK
  LeaseIsKept
  NoConnLeak
  StatusIsTruthful
  LateWritesBounded
  GaugeAgreesWithStatus
PROPERTIES
  ReuseInReleaseOrder
  RegisteredLeasesSpec
  SourceIsLeased
  StaleLookupIsHarmless
