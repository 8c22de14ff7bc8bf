SPECIFICATION FairSpec
CONSTANTS
  Callers = {c1, c2}
  Ids = {p1}
  Registries = {r1}
  RegistryOf <- MCRegistryOf
  Free = Free
  Fields = {length, width}
  Values = {v1, v2}
  Unset = Unset
  NaN = NaN
  MaxCalls = 1
INVARIANTS
  TypeOK
  Serialised
PROPERTIES
  ImplementsUpsert
  EveryCallReturns
CHECK_DEADLOCK FALSE
