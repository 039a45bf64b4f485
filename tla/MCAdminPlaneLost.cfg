SPECIFICATION Spec
CONSTANTS
  a1 = a1
  a2 = a2
  k1 = k1
  alice = alice
  bob = bob
  site = site
  r1 = r1
  r2 = r2
  Apps = {a1}
  Keys = {k1}
  Wallets = {alice, bob}
  Sites = {}
  Origins = {}
  Bootstrap = {alice}
  Requests = {r1, r2}
  Ops <- PatchOps
  NoApp = NoApp
  NoKey = NoKey
  NoOrigin = NoOrigin
  GoneOrigin = GoneOrigin
  NoOp = NoOp
  Nothing = Nothing
PROPERTIES
  PatchKeepsTheRest
CHECK_DEADLOCK FALSE
