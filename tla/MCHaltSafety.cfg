SPECIFICATION MCSpec
CONSTANTS
  c1 = c1
  c2 = c2
  AAPL = AAPL
  MSFT = MSFT
  Job = Job
  Operator = Operator
  Cycles = {c1}
  Symbols = {AAPL, MSFT}
  MaxAttempts = 2
  Tries = 2
  Overlap = FALSE
  AtomicCommands = FALSE
  MaxCrashes = 1
  MaxCommands = 3
  MaxBreaches = 2
  Weekdays = {0, 1}
  LastDay = 1
  Levels = {90, 100}
  LimitPct = 10
  Webhooks = {"unset", "up"}
  Torn = Torn
  Never = Never
  Damaged = Damaged
  MaxCycles = 2
  MaxKills = 1
  MaxChanges = 1
  MaxRecords = 4
SYMMETRY Symmetry
INVARIANTS MarkedUnlessKilled SpentBounded WatchHonest
PROPERTY KillNeverReenters
