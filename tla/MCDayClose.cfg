SPECIFICATION Spec
CONSTANTS
  open = open
  close = close
  catchUp = catchUp
  watchdog = watchdog
  retry = retry
  scan = scan
  JOBS <- Table
  Cycles = {open, close}
  Close = close
  CatchUp = catchUp
  Watchdog = watchdog
  Late = Late
  Idle = Idle
  DueAt <- Firings
  Last = 25
  MarketOpen <- Session
  Limit = 6
  MaxOutages = 1
PROPERTY CloseRescued
