SPECIFICATION Spec
CONSTANTS
  alice = alice
  bob = bob
  here = here
  elsewhere = elsewhere
  n1 = n1
  n2 = n2
  r1 = r1
  r2 = r2
  Wallets = {alice, bob}
  Bootstrap = {alice}
  Domains = {here, elsewhere}
  AuthDomain = here
  Replicas = {n1, n2}
  Requests = {r1, r2}
  PayloadTTL = 1
  TokenTTL = 2
  Second = 2
  Skew = 1
  MaxTime = 5
  Nobody = Nobody
  NoDate = NoDate
  NoTime = NoTime
  NoRequest = NoRequest
  NoToken = NoToken
SYMMETRY Same
INVARIANTS
  SessionsEnd
  LiveSessionsLast
  OnlyAdministratorsEnter
CHECK_DEADLOCK FALSE
