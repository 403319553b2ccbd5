SPECIFICATION Spec
CONSTANTS
    Ids <- SmallIds
    Explicit = {3, 6}
    Removable = {3, 6}
    Values = {v, w}
    FirstValues = {v}
    None = None
    Hash <- MCHash
    Primes <- SmallPrimes
    MinSize = 4
    ShrinkAbove = 8
    MaxCount = 5
INVARIANTS
    TableInv
PROPERTIES
    FoundUnlessRemoved
    IsNodeMap
