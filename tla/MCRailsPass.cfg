SPECIFICATION Spec
CONSTANTS
  A = A
  B = B
  Tech = Tech
  Symbols = {A, B}
  NoSector = NoSector
  SectorOf <- Sectors
  StopAt <- Stops
  Configs <- Sections
  Equities = {9, 10}
  Prices = {2, 3}
  Quantities = {1, 2}
  MaxCount = 2
  MaxCorruptions = 1
INVARIANTS TypeOK ExitsRun DailyCapHolds
PROPERTIES RailsBind LatchHoldsUndamaged
