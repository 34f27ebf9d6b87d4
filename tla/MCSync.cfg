\* Two messages, one request, two terminal commands, one death.
CONSTANTS
    b1 = b1
    p1 = p1
    NoTask = NoTask
    Bots = {b1}
    Projects = {p1}
    Shared = {}
    Tasks = {t1, t2}
    BotOf <- MCBotOf
    ProjectOf <- MCProjectOf
    MaxMessages = 2
    MaxRequests = 1
    MaxRecords = 2
    MaxCommands = 2
    MaxDeaths = 1
SPECIFICATION FairSpec
INVARIANTS
    OneTaskPerSession
    LossWindow
    Repairable
    SuccessIsVisible
PROPERTIES
    WorkUndisturbed
    ArchivedUntouched
    SettledIsAnswered
CHECK_DEADLOCK FALSE
