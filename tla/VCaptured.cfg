\* A task stopped and a bridge that dies before its run is finished.
CONSTANTS
    b1 = b1
    p1 = p1
    NoTask = NoTask
    Bots = {b1}
    Projects = {p1}
    Shared = {}
    Tasks = {t1, t2}
    BotOf <- MCBotOf
    ProjectOf <- MCProjectOf
    MaxMessages = 2
    MaxRequests = 1
    MaxRecords = 1
    MaxCommands = 1
    MaxDeaths = 1
SPECIFICATION FairSpec
PROPERTY
    CapturedIsAnswered
CHECK_DEADLOCK FALSE
