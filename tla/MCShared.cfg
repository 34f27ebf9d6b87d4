\* Two bots share the project and die under their runs.
CONSTANTS
    b1 = b1
    b2 = b2
    t1 = t1
    t2 = t2
    p1 = p1
    NoTask = NoTask
    Bots = {b1, b2}
    Projects = {p1}
    Shared = {p1}
    Tasks = {t1, t2}
    BotOf <- MCBotOf
    ProjectOf <- MCProjectOf
    MaxMessages = 2
    MaxCrashes = 2
    MaxOrphans = 1
    Retried = {}
SPECIFICATION Spec
INVARIANTS
    SharedRunsHoldTheLock
PROPERTIES
    SessionKept
