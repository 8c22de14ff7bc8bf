SPECIFICATION Spec
CONSTANTS
  Runs = {north, south}
  Addresses = {street, corner, lane, yard}
  NoAddress = NoAddress
  NoRun = NoRun
  History <- MCHistory
  NoModel = NoModel
  Torn = Torn
  MaxPlans = 1
  Skus = {combo, single, odd}
  Dims <- MCDims
  Locations = {face, r1, r2}
  Layout <- MCLayout
  Unallocated = Unallocated
  Consignees = {shop, hub}
  Slug <- Colliding
  Threshold = 51
  EarlyRelease = 5
  MinFullCartons = 1
  Orders = {o1, o2}
  States = {vic}
  Worlds <- TwoRuns
  Settings <- MCSettings
  o1 = o1
  o2 = o2
  north = north
  south = south
  street = street
  corner = corner
  lane = lane
  yard = yard
  shop = shop
  hub = hub
  vic = vic
  combo = combo
  single = single
  odd = odd
  face = face
  r1 = r1
  r2 = r2
INVARIANT
  CountedOnce
CHECK_DEADLOCK FALSE
