\* A message acknowledged that was never carried out.
CONSTANTS
    e1 = e1
    NoEvent = NoEvent
    Events = {e1}
    MaxRows = 1
    MaxSendAttempts = 1
    MaxCrashes = 1
SPECIFICATION Spec
INVARIANT
    AckedIsCarried
