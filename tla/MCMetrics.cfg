CONSTANTS
    Setups <- MCSetups
    Callback = {c1, c2}
    Interval = 2
    Name = {good, bad}
    Bad = bad
    CflSize = 2
    UIntMod = 8
    Scale = 6
    None = None
SYMMETRY Symmetry
SPECIFICATION Spec
INVARIANTS
    TypeOK
    RequestsAccounted
    AvgWithinExtremes
    
    FewDuplicates
