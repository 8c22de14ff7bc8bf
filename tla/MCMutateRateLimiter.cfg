SPECIFICATION Spec
CONSTANTS
  Callers = {c1, c2}
  Endpoints = {products, orders}
  PerMinute <- MCPerMinute
  Minute <- MCMinute
  MaxTime <- MCMaxTime
  Free = Free
INVARIANTS
  TypeOK
  WindowBound
PROPERTIES
  ImplementsBudget
