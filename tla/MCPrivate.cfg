\* One private project: stops, revivals and late finishes.
CONSTANTS
    b1 = b1
    p1 = p1
    NoTask = NoTask
    Bots = {b1}
    Projects = {p1}
    Shared = {}
    Tasks = {t1, t2}
    BotOf <- MCBotOf
    ProjectOf <- MCProjectOf
    MaxMessages = 3
    MaxCrashes = 0
    MaxOrphans = 0
    Retried = {}
SYMMETRY TaskSymmetry
SPECIFICATION Spec
INVARIANTS
    TypeOK
    QueueConsistent
    CompactResumes
