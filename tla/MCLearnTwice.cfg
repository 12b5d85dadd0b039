SPECIFICATION Spec
CONSTANTS
  Trades = {t1, t2}
  Lessons = {l1, l2, l3}
  Book = {l1}
  NoTrade = NoTrade
  Readable = {{t2}, {t1, t2}}
  MaxCites = 1
  Limit = 1
  PromoteAt = 2
  Ratio = 2
  RefuteAt = 2
  Stale = 0
  MaxFaults = 0
INVARIANT EvidenceOnce
