SPECIFICATION Spec
CONSTANTS
  alice = alice
  bob = bob
  shop = shop
  wiki = wiki
  phone = phone
  laptop = laptop
  r1 = r1
  r2 = r2
  Apps = {shop, wiki}
  Endpoints = {phone, laptop}
  Wallets = {alice, bob}
  Requests = {r1, r2}
  Arrivals <- Posts
  NoUser = NoUser
  NoRow = NoRow
  NoProof = NoProof
  NoBody = NoBody
INVARIANTS
  VerifiedMeansUserProved
