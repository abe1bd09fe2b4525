SPECIFICATION CacheSpec
CONSTANTS
    CacheKey = {k1, k2, k3}
    Tag = {t1, t2}
    Setter = {s1, s2}
    MaxBytes = 5
    MaxItems = 2
    Metadata = {1, 2}
    Body = {0, 3, 4}
    Ttl = {1}
    MaxTime = 1
SYMMETRY Symmetry
INVARIANTS
    CacheTypeOK
    BytesAreExact
    BodyIsKeptAsPromised
PROPERTIES
    EvictsLeastRecentlyUsed
