SPECIFICATION Spec
CONSTANTS
  Ids = {p1, p2}
  Uoms = {ea, ct}
  Carton = ct
  NoUom = NoUom
  Catalogues <- MCCatalogues
  Environments <- MCEnvironments
  KindsUsed = {"sandbox", "roundtrip", "carton", "each", "proving"}
  Scopes <- MCScopes
  PerMinute = 1
  Minute = 2
  Pace = 2
  Droppable = {len}
  MaxRuns = 2
  MaxEdits = 1
  MaxTotal = 2
  Fields = {len, wgt}
  Lengths = {len}
  Measures = {m1, m2}
  ToCm <- MCToCm
  Codes = {a1, a2, sa1, sb1}
  Strip <- MCStrip
  NoBase = NoBase
  Prefix <- MCPrefix
  CodeRank <- MCCodeRank
  Values = {v1, m1}
  Unset = Unset
  NaN = NaN
  Sandbox = Sandbox
  Live = Live
  Customers = {Sandbox, Live}
  NoCustomer = NoCustomer
  ea = ea
  ct = ct
  len = len
  wgt = wgt
  v1 = v1
  m1 = m1
  m2 = m2
  a1 = a1
  a2 = a2
  sa1 = sa1
  sb1 = sb1
  p1 = p1
  p2 = p2
INVARIANTS
  TypeOK
  ReportAccounts
  PacedUnderLimit
  PoisonAvoided
  OnTarget
  OnlyConfirmedIsSent
  ResumeSkipsWritten
  ZeroIsClean
CHECK_DEADLOCK FALSE
