SPECIFICATION Spec
CONSTANTS
    Handles = {h1, h2}
    Keys = {k1, k2}
    Vals = {v1}
    None = none
    Same = same
    MaxBatch = 2
PROPERTY ImplementsStore
