\* A claim in a project whose agent is still alive.
CONSTANTS
    b1 = b1
    p1 = p1
    NoTask = NoTask
    Bots = {b1}
    Projects = {p1}
    Shared = {}
    Tasks = {t1}
    BotOf <- MCBotOf
    ProjectOf <- MCProjectOf
    MaxMessages = 2
    MaxCrashes = 0
    MaxOrphans = 0
    Retried = {}
SPECIFICATION Spec
PROPERTY
    NoClaimInBusyProject
