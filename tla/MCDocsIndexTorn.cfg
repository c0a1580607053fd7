\* A search during a reload.
SPECIFICATION Spec
CONSTANTS
    r1 = r1
    r2 = r2
    c1 = c1
    s1 = s1
    s2 = s2
    s3 = s3
    q1 = q1
    q2 = q2
    Reindexes = {r1}
    Indexers = {}
    Searches = {s1}
    Queries = {q1}
    QueryOf <- MCQueryOf
    CacheSize = 1
    Original = original
    NoIndex = no_index
    Free = free
CHECK_DEADLOCK FALSE
INVARIANT
    AnswersWhole
