SPECIFICATION MCSpec
CONSTANTS
  Order <- MCOrder
  Ensemble <- MCNames
  DayBars <- MCBars
  NoBar = NoBar
  Rails = {"heat"}
  Filters = {"credit", "rvol"}
  Sizes = {2}
  Sides <- MCSides
  Slip = 1
  Fee = 1
  StartCash = 10
  Cap = 1
  MinDays = 1
  Cooldown = 2
  EntryCap = 1
  Width = 2
  Reach = 3
  Trail = 2
  Trailing = {"dip"}
  Charge = 1
  MaxBars = 3
  MaxMarks = 6
  Equities = {14, 16, 18, 20}
  CapPct = 10
  Grace = 1
  Specs <- MCSpecs
  Measured <- MCMeasured
  Missing <- MCMissing
  Datas = {1, 2}
  Registrars = {g1}
  Runners = {r1}
  MaxRows = 2
  Keys = {1, 2, 3}
  Pnls <- MCPnls
  BarPrices <- MCPrices
  Histograms <- MCHistograms
  Resamples = 4
  AlphaInverse = 2
  Comparisons = {1, 2}
  Redraws = 2
  Vetoes = {0, 2}
  Versions = {1, 2}
  Dates = {1, 2, 3, 4}
  SpecKeys <- MCKeys
  Headers <- MCHeaders
  Trailered = {"S1"}
  Sections = {"S1"}
  MaxEdits = 2
  MaxPriors = 2
  MaxVerdicts = 2
  MaxReadings = 1
  MaxFlight = 2
  None = None
  Profits = {0, 1}
  Confidences = {0, 6}
  Unstated = 0
  MinN = 1
  MaxResolutions = 3
  Listed <- MCListed
  Paths <- MCPaths
  Calendar <- MCCalendar
  Bills <- MCBills
  Sectors <- MCSectors
  Params <- MCParams
  MaxEvents = 1
CHECK_DEADLOCK FALSE
INVARIANTS SimulatorsHonest VerdictsHonest RecordHonest StrategiesSound
PROPERTY GoalpostStays
