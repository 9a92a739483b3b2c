SPECIFICATION HeapFairSpec
CONSTANTS
    Size = 10
    Sizes = {1, 2}
    EndReserve = 2
    Ops <- OpsDef
    None = None
INVARIANTS HeapKept
PROPERTIES FixedStays Returns
