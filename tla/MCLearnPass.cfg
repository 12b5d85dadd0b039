SPECIFICATION LiveSpec
CONSTANTS
  Trades = {t1, t2}
  Lessons = {l1, l2, l3}
  Book = {l1}
  NoTrade = NoTrade
  Readable = {{t2}}
  MaxCites = 2
  Limit = 1
  PromoteAt = 2
  Ratio = 2
  RefuteAt = 2
  Stale = 1
  MaxFaults = 1
INVARIANTS TypeOK EvidenceKept EvidenceEmbargoed
PROPERTIES ImplementsLife EvaluatorCatchesUp
