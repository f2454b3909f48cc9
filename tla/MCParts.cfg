\* Three producers and a ring of two cells, each of which is used several times; or two
\* venues, of which the second costs five hundredths more, books of up to three levels,
\* and venues with and without a state of their own; or a history of up to eight ticks.
CONSTANTS
  Producers = {p1, p2, p3}
  Values = {v1, v2}
  Capacity = 2
  Nobody = Nobody
  MaxPosition = 5
  Venues = {1, 2}
  Cost <- MCCost
  Latency <- MCLatency
  Cases <- MCCases
  Loop = Loop  Strategy = Strategy  Symbol = Symbol
  Threads <- MCThreads
  Strategies <- MCStrategies
  Symbols <- MCSymbols
  Candidates <- MCCandidates
  Answers <- MCAnswers
  Estimates <- MCEstimates
  TickKinds <- MCTickKinds
  MaxResolved = 3
  MaxHistory = 8
  Duration = 2
  Log <- MCLog
  Warmup = 3
  VolWindow = 2
  PercentileWindow = 3
  MinSamples = 3
  DmiPeriod = 2
  DmiScale = 64
  AdxTrend = 25
  StressZ <- MCStressZ
  ExpansionZ <- MCExpansionZ
  RangeCeiling <- MCRangeCeiling
  StressFloor <- MCStressFloor
  FastWindow = 1
  SlowWindow = 3
  ReturnWindow = 1
  ConfirmationTicks = 1
  Threshold <- MCThreshold
  SharpeFloor <- MCSharpeFloor
  AllowedRegimes = {"unknown", "trend", "range", "vol_expansion"}
  Unit = 2
  MinConfidence = 1
  Prices = {1, 2, 4}
  FirstTime = 0
  MaxTime = 0
  BpsScale = 4
  PhScale = 12
  CusumDelta = 0
  CusumLambda = 0
  SharpeWindow = 2
  DecayWindow = 2
  DecayMinSamples = 2
  DecayT = 1
  MaxDrawdown = 3
  RecoveryClean = 2
  MaxQuarantines = 2
  Lookback = 1
  MaxCandidates = 8
  MaxOverrides = 0
  MaxTicks = 0
SYMMETRY Symmetry
SPECIFICATION PartsSpec
CHECK_DEADLOCK FALSE
INVARIANTS
  NoRace
  ExecutedOnce PricedAsQuoted RouteIsSound
  MarketIsMeasured FiresWhenConfirmed SampleIsSound
PROPERTIES RefusedIsFull ImplementsQueue
