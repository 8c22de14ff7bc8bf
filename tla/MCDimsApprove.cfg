SPECIFICATION Spec
CONSTANTS
  Callers = {c1, c2, c3}
  Ids = {p1}
  Registries = {r1, r2}
  RegistryOf <- TwoProcesses
  Free = Free
  ea = ea
  ct = ct
  len = len
  wgt = wgt
  v1 = v1
  v2 = v2
  p1 = p1
  c1 = c1
  c3 = c3
  r1 = r1
  r2 = r2
  other = other
  Fields = {len, wgt}
  Values = {v1, v2}
  Unset = Unset
  NaN = NaN
  Sandbox = Sandbox
  Live = Live
  Customers = {Sandbox, Live, other}
  NoCustomer = NoCustomer
  Uoms = {ea, ct}
  Situations <- MCSituations
  Droppable = {len}
  Burst = 1
  MaxTurns = 2
INVARIANTS
  TypeOK
  VerifiedStands
  Sanctioned
PROPERTY
  OnlyWantedChanges
CHECK_DEADLOCK FALSE
