\* Two keys, a burst of two, two sevenths of a token a tick, two ticks a second
\* (so that waits of one second and of two are asked for), and time enough for
\* gc() to drop a bucket and for the key to come back.
SPECIFICATION MCSpec
CONSTANTS
    Keys = {k1, k2}
    Capacity = 2
    Period = 7
    IdleTicks = 7
    TicksPerSecond = 2
    MaxClock = 8
INVARIANTS
    RateLimiterTypeOK
    WindowBound
    RetryAfterShortByHalfSecond
PROPERTY
    ImplementsTokenBucket
