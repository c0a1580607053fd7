\* One call at a time, or calls of two threads at a time; a failing statement, a
\* crash.
SPECIFICATION MCSpec
CONSTANTS
    t1 = t1
    t2 = t2
    d1 = d1
    s1 = s1
    scheduler = scheduler
    long_ago = long_ago
    Turns = {t1, t2}
    Deletes = {d1}
    Pruner = scheduler
    Past = long_ago
    SessionOf <- MCSessionOf
    Overlaps = {1, 2}
    MaxFailures = 1
    MaxCrashes = 1
INVARIANTS
    DbTypeOK
    AppendsKeptOneByOne
    RemovalsKept
    QuestionBeforeAnswer
    NothingPending
PROPERTIES
    ImplementsStore
    BacklogPruned
