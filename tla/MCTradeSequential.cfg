SPECIFICATION MCSpec
CONSTANTS
  Runs = {cycle}
  Scans = {}
  Reruns = {cycle, scan}
  Rescans = {scan}
  RerunFaults = {"late", "crash", "lost", "refused", "dies", "manual", "error"}
  Symbols = {s1, s2}
  Days = 2
  MaxStarts = 4
  MaxPositions = 1
  Faults = {"crash", "lost", "refused", "dies", "manual"}
  MaxFaults = 3
SYMMETRY Symmetry
CHECK_DEADLOCK FALSE
INVARIANTS OutcomeOnce LedgerAgrees BookCap OneLot OneLotRerun
