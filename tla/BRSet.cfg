SPECIFICATION Spec
CONSTANTS
    Sets = {"s", "o"}
    Items <- MCItems
    Key <- MCKey
    Hash <- MCHash
    tableSizes <- MCTableSizes
    Capacities = {0, 2}
INVARIANTS TypeOK ProbeEnds
PROPERTIES ImplementsItemSet
