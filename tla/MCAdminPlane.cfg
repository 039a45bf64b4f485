SPECIFICATION FairSpec
CONSTANTS
  a1 = a1
  a2 = a2
  k1 = k1
  alice = alice
  bob = bob
  site = site
  r1 = r1
  r2 = r2
  Apps = {a1, a2}
  Keys = {k1}
  Wallets = {alice, bob}
  Sites = {site}
  Origins = {1, 2}
  Bootstrap = {}
  Requests = {r1, r2}
  Ops <- MixedOps
  NoApp = NoApp
  NoKey = NoKey
  NoOrigin = NoOrigin
  GoneOrigin = GoneOrigin
  NoOp = NoOp
  Nothing = Nothing
INVARIANTS
  AnswersAreTrue
PROPERTIES
  ChangesAreAuthorised
  FreshAppsAreClosed
  RequestsAreAnswered
CHECK_DEADLOCK FALSE
