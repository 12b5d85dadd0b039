SPECIFICATION MCSpec
CONSTANTS
  Job = Job
  Operator = Operator
  HaltCycles = {c1}
  JOBS <- Table
  Cycles = {open, close}
  Close = close
  CatchUp = catchUp
  Watchdog = watchdog
  DueAt <- Firings
  MarketOpen <- Session
  Symbols = {AAPL}
  MaxAttempts = 2
  Tries = 2
  Overlap = TRUE
  AtomicCommands = TRUE
  MaxCrashes = 1
  MaxCommands = 1
  MaxBreaches = 1
  open = open
  close = close
  catchUp = catchUp
  watchdog = watchdog
  retry = retry
  scan = scan
  Late = Late
  Idle = Idle
  Last = 25
  Limit = 6
  MaxOutages = 1
PROPERTIES RetriesEnd NoDaySlips SchedulerReturns
