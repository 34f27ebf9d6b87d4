\* A bridge that dies and recovers, an agent that outlives its failed run.
CONSTANTS
    b1 = b1
    p1 = p1
    NoTask = NoTask
    Bots = {b1}
    Projects = {p1}
    Shared = {}
    Tasks = {t1, t2}
    BotOf <- MCBotOf
    ProjectOf <- MCProjectOf
    MaxMessages = 2
    MaxCrashes = 1
    MaxOrphans = 1
    Retried = {t1}
SPECIFICATION LiveSpec
INVARIANTS
    RunningHasCoroutine
PROPERTIES
    SettledForGood
    StoppedUntilRevived
    ImplementsSerialTurns
    QueuedSettles
