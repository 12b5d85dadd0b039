SPECIFICATION Spec
CONSTANTS
  Runs = {cycle, catchup}
  Scans = {}
  Symbols = {s1}
  Days = 2
  MaxStarts = 3
  MaxPositions = 0
  Faults = {"overlap"}
  MaxFaults = 0
CHECK_DEADLOCK FALSE
INVARIANT OutcomeOnce
