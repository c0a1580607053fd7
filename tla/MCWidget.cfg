\* Two tabs, three messages, two page loads.
SPECIFICATION MCSpec
CONSTANTS
    a = a
    b = b
    Tabs = {a, b}
    MaxSessions = 3
    MaxTurns = 3
    MaxLoads = 2
    MaxHistory = 2
    Window = 3
INVARIANTS
    WidgetTypeOK
    TokensMatch
    HistoryOfSession
    CardsPaired
PROPERTIES
    TabFree
CHECK_DEADLOCK FALSE
