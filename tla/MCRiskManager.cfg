CONSTANTS
    OrderIds = {o1, o2, o3}
    s1 = s1
    Symbols <- OneSymbol
    Prices <- TwoPrices
    MaxLots = 2
    MaxUnits = 7
    MaxOrderValue = 5
    MaxExposure = 8
    SymbolLimit <- Limited
    NoReservation = NoReservation
    MaxDailyLoss = 1
    MaxFills = 3
    MaxDay = 2
SYMMETRY Symmetry
SPECIFICATION Spec
INVARIANTS LedgerSound PnlIsCashPlusHoldings
PROPERTIES BreachStopsTrading
