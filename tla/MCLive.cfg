SPECIFICATION MCSpec
CONSTANTS
  Symbols = {"SPY", "a", "w"}
  Cores <- MCCores
  Outside = {"w"}
  Enabled <- MCEnabled
  Disabled = {"xs"}
  Unknown = "gone"
  DefaultOwner = "dip"
  Wide <- MCWide
  CrossSection = {"xs"}
  Cooldown <- MCCooldown
  EntryCap <- MCCap
  NewsCap = 1
  MinKept = 1
  OfAsked = 2
  MinTrades = 2
  None = None
  Untracked = Untracked
  MaxNow = 2
  MaxClosed = 1
  MaxLost = 1
  Stocks = {"a"}
  Cycles = {"c1", "c2"}
  Levels = {1, 2, 3}
  MaxId = 4
  MaxErrors = 2
  Settings <- MCSettings
  Equities = {40, 100}
  Powers = {5, 60}
  Prices = {4, 9}
  Atrs = {0, 1, 3}
  Vols = {0, 10, 60}
  Scales = {1, 3, 4}
  Models <- MCModels
  Replies <- MCReplies
  Entered = {1, 3}
  MaxSignals = 1
  Timeout = 2
  Attempts = 2
  Budget = 5
  Backoff = 1
  SdkRetries = 1
  SdkWait = 1
  MaxCalls = 3
  Weekdays = {0, 1, 3}
  Days = 3
  Limit = 1
  MaxEvents = 4
  Order <- MCOrder
  Zone = {2}
  Quotes = {2, 4}
  MaxDrift = 1
  MaxOpen = 1
  MaxTrades = 2
  NoQuote = NoQuote
  MaxPasses = 2
  MaxFaults = 1
  MaxHalts = 1
  Listed = {"a", "w"}
  Funds = {"SPY", "w"}
  Sound <- MCSound
  MaxEdits = 2
  Universe = {"u"}
  Flaggable = {{"u"}}
  Nominations <- MCNominations
  Wires = {0, 4}
  Feeds <- MCFeeds
  Dead = Dead
  Total = 4
  Reserved = 2
  MaxItems = 3
  MaxNominations = 1
  Retention = 0
  MaxNewsItems = 1
  NoContext = NoContext
  Torn = Torn
  MaxDay = 1
  MaxRefreshes = 1
  MaxCloses = 1
  Failed = Failed
  SampleSize = 3
  Quota = 7
  Lookback = 4
  RecallCap = 2
  DossierCap = 4
  Note = 1
  MaxSample = 4
CHECK_DEADLOCK FALSE
INVARIANTS ScansKept InputsHonest StopsRest EntriesSafe JudgeKept RetriesBounded SignalsTrue
PROPERTY NoStepBack
