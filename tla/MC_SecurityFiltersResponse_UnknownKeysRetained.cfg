CONSTANTS
    d1 = d1
    d2 = d2
    m1 = m1
    DataVals <- MCDataVals
    MetaVals <- MCMetaVals
SPECIFICATION Spec
INVARIANT UnknownKeysRetained
