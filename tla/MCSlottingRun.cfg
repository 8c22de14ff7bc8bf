SPECIFICATION Spec
CONSTANTS
  NaN = NaN
  NA = NA
  NoFile = NoFile
  CodeOrder <- MCCodeOrder
  Brand <- MCBrand
  FullPalletBrands = {"TC"}
  Lost = {"LOST", "MISSING", "DAMAGED", "DAMAGED_BY_CARRIER"}
  WindowDays <- MCWindowDays
  TopSkus <- MCTopSkus
  TargetZoneSize <- MCTargetZoneSize
  AisleOrder <- MCAisleOrder
  Options <- MCOptions
  Eras <- MCEras
  Sheets <- MCSheets
  Exports <- MCExports
  MaxExtracts = 2
INVARIANTS
  TypeOK
  OneSnapshot
  NothingLost
  PlacedRight
  ZonesCohere
CHECK_DEADLOCK FALSE
