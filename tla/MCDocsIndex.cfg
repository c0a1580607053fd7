\* Two /reindex commands, one run of the indexer beside them, and two searches
\* of one query, the second of which the cache may answer.
SPECIFICATION Spec
CONSTANTS
    r1 = r1
    r2 = r2
    c1 = c1
    s1 = s1
    s2 = s2
    s3 = s3
    q1 = q1
    q2 = q2
    Reindexes = {r1, r2}
    Indexers = {c1}
    Searches = {s1, s2}
    Queries = {q1}
    QueryOf <- MCQueryOf
    CacheSize = 1
    Original = original
    NoIndex = no_index
    Free = free
SYMMETRY MCAlike
CHECK_DEADLOCK FALSE
INVARIANTS
    StoreWhole
    CacheCurrentUnlessCut
    LockGuards
