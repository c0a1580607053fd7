\* Slots that no stream holds can refuse a request.
SPECIFICATION Spec
CONSTANTS
    r1 = r1
    r2 = r2
    r3 = r3
    caller = caller
    Requests = {r1, r2, r3}
    Callers = {caller}
    KeyOf <- MCKeyOf
    PerMinute = 2
    Minute = 2
    Limit = 2
    Origins = {listed, foreign}
    NoOrigin = none
    AllowList = {listed}
PROPERTY
    RefusedOnlyByStreams
