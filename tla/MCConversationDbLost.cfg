\* Two threads, nothing fails: an append that returned is lost.
SPECIFICATION Spec
CONSTANTS
    t1 = t1
    t2 = t2
    d1 = d1
    s1 = s1
    scheduler = scheduler
    long_ago = long_ago
    Turns = {t1, t2}
    Deletes = {}
    Pruner = scheduler
    Past = long_ago
    SessionOf <- MCSessionOf
    Overlaps = {2}
    MaxFailures = 0
    MaxCrashes = 0
INVARIANT
    AppendsKept
