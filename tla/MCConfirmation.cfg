CONSTANTS
  Loop = Loop  Strategy = Strategy  Symbol = Symbol
  Threads <- MCThreads
  Strategies <- MCStrategies
  Symbols <- MCSymbols
  Candidates <- MCCandidates
  Answers <- MCAnswers
  Estimates <- MCEstimates
  TickKinds <- MCTickKinds
  MaxResolved = 3
  MaxHistory = 8
  Duration = 2
  Log <- MCLog
  Warmup = 3
  VolWindow = 2
  PercentileWindow = 3
  MinSamples = 3
  DmiPeriod = 2
  DmiScale = 64
  AdxTrend = 25
  StressZ <- MCStressZ
  ExpansionZ <- MCExpansionZ
  RangeCeiling <- MCRangeCeiling
  StressFloor <- MCStressFloor
  FastWindow = 1
  SlowWindow = 3
  ReturnWindow = 1
  ConfirmationTicks = 1
  Threshold <- MCThreshold
  SharpeFloor <- MCSharpeFloor
  AllowedRegimes = {"unknown", "trend", "range", "vol_expansion"}
  Unit = 2
  MinConfidence = 1
  Prices = {1, 2, 4}
  FirstTime = 0
  MaxTime = 0
  BpsScale = 4
  PhScale = 12
  CusumDelta = 0
  CusumLambda = 0
  SharpeWindow = 2
  DecayWindow = 2
  DecayMinSamples = 2
  DecayT = 1
  MaxDrawdown = 3
  RecoveryClean = 2
  MaxQuarantines = 2
  Lookback = 1
  MaxCandidates = 8
  MaxOverrides = 0
  MaxTicks = 0
SPECIFICATION BacktestSpec
CHECK_DEADLOCK FALSE
INVARIANTS FiresAsDocumented
