CONSTANTS
    OrderIds = {o1, o2, x}
    ExternalIds = {x}
    Prices <- TwoPrices
    MaxLots = 2
    OrderTypes = {"LIMIT"}
    PoolSize = 2
    MaxLevels = 1
    NoOrder = NoOrder
    NoTaker = NoTaker
    Symbol = Symbol
    MaxUnits = 100
    MaxOrderValue = 4
    MaxExposure = 4
    SymbolLimit <- Limited
    NoReservation = NoReservation
    Tifs = {"GTC", "FOK"}
    HistoryCap = 1
    NoState = NoState
    Idle = Idle
    NoEvent = NoEvent
    MaxCalls = 4
SYMMETRY Symmetry
VIEW View
SPECIFICATION ReplaySpec
INVARIANTS OrdersAgree BookIsSound LedgerAgrees FokAllOrNone ReplayAgrees CallGoesOn
