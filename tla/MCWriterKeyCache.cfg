SPECIFICATION FairCacheSpec
CONSTANTS
    k1 = k1
    k2 = k2
    m1 = m1
    m2 = m2
    c1 = c1
    c2 = c2
    null = null
    Keys = {k1, k2}
    Mutations = {m1, m2}
    Calls = {c1, c2}
    None = null
    MaxVersion = 3
INVARIANTS
    CacheTypeOK
    CacheCoherent
    FetchCoherent
PROPERTIES
    ReturnsCurrentKeys
    CallsReturn
