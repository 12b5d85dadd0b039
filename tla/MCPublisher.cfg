SPECIFICATION MCSpec
CONSTANTS
  ann = ann
  r1 = r1
  People = {ann, bob}
  Runs = {r1, r2}
  Everyone = Everyone
  Days = 1
  TTL = 1
  Cap = 0
  MaxRows = 2
  MaxPending = 2
  MaxFaults = 1
  Clients = {c1, c2}
  Absent = Absent
  Buckets = {"global", "auth"}
  Rate <- MCRate
  Burst <- MCBurst
  Unit = 1
  MaxKeys = 1
  Keep = 2
  MaxTime = 3
  Workers = {w1, w2}
  Trades = {t1}
  PostDays = 2
  MaxRuns = 3
  MaxTroubles = 1
CHECK_DEADLOCK FALSE
INVARIANTS LinksWork MailedOnce TierAgrees BucketBound PostsHonest
