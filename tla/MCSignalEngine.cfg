CONSTANTS
  t1 = t1  t2 = t2  sma = sma  btc = btc  eth = eth
  Threads <- MCThreads
  Strategies <- MCStrategies
  Symbols <- MCSymbols
  Candidates <- MCCandidates
  Answers <- MCAnswers
  Threshold <- MCThreshold
  SharpeFloor <- MCSharpeFloor
  AllowedRegimes = {"trend"}
  Unit = 2
  MinConfidence = 1
  Prices = {1, 2}
  FirstTime = 2
  MaxTime = 3
  BpsScale = 2
  PhScale = 12
  CusumDelta = 0
  CusumLambda = 0
  SharpeWindow = 2
  DecayWindow = 2
  DecayMinSamples = 2
  DecayT = 1
  MaxDrawdown = 3
  RecoveryClean = 2
  MaxQuarantines = 2
  Lookback = 0
  MaxCandidates = 2
  MaxOverrides = 2
  MaxTicks = 3
SPECIFICATION EngineSpec
SYMMETRY Symmetric
CHECK_DEADLOCK FALSE
INVARIANTS EachCountedOnce OnlyHealthyTrade
PROPERTIES LifecycleIsDeserved
