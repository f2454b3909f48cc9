CONSTANTS
    OrderIds = {o1, o2, o3}
    Prices <- ThreePrices
    MaxLots = 2
    OrderTypes = {"LIMIT"}
    PoolSize = 3
    MaxLevels = 2
    NoOrder = NoOrder
    NoTaker = NoTaker
SYMMETRY Symmetry
SPECIFICATION Spec
INVARIANTS StructureSound ExecutableIsExact
PROPERTIES ImplementsPriceTimeBook OperationsCorrespond
