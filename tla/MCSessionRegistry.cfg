CONSTANTS
  a1 = a1
  a2 = a2
  Clients = {c1, c2}
  Addresses = {a1, a2}
  InitialPool <- SmallPool
  Nobody = Nobody
  Handlers = {h1, h2, h3}
  Admins = {d1}
  MayOverlap = TRUE
SPECIFICATION Spec
INVARIANTS
  TypeOK
  PoolPartition
  RoutesAreServed
  NoStaleAssignment
  NoAddressLeak
PROPERTIES
  LeasesSpec
  AddressReturned
