\* A message delivered again, replies that fail, files that are gone.
CONSTANTS
    e1 = e1
    NoEvent = NoEvent
    Events = {e1}
    MaxRows = 3
    MaxSendAttempts = 2
    MaxCrashes = 1
SPECIFICATION FairSpec
INVARIANTS
    TypeOK
    CarriedOnce
    CopiesBounded
    NoticeOnce
    DropsReported
PROPERTIES
    ImplementsReplyQueue
    PendingDecided
