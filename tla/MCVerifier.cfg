SPECIFICATION Spec
CONSTANTS
  alice = alice
  vault = vault
  c1 = c1
  h1 = h1
  n1 = n1
  n2 = n2
  v1 = v1
  v2 = v2
  Wallets = {alice, vault}
  Contracts = {vault}
  Channels = {c1}
  Hosts = {h1}
  Replicas = {n1, n2}
  Checks = {v1, v2}
  TTL = 2
  Skew = 1
  MaxTime = 4
  Nobody = Nobody
  NoDate = NoDate
  NoTime = NoTime
  NoProof = NoProof
SYMMETRY Alike
INVARIANTS
  GoodProofsAreNotInvalid
  ChallengesExpire
  UnavailableHasACause
CHECK_DEADLOCK FALSE
