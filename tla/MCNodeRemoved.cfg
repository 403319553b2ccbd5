SPECIFICATION Spec
CONSTANTS
    Ids <- SmallIds
    Explicit = {3, 6, 9}
    Removable = {3, 6, 9}
    Values = {v}
    FirstValues = {v}
    None = None
    Hash <- MCHash
    Primes <- SmallPrimes
    MinSize = 4
    ShrinkAbove = 8
    MaxCount = 4
INVARIANTS EveryNodeFound
