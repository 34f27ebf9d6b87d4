\* Two scripts that get in each other's way, a bridge that dies.
CONSTANTS
    s1 = s1
    s2 = s2
    n1 = n1
    NoScript = NoScript
    Scripts = {s1, s2}
    Nonces = {n1}
    NonceOf <- SameNonce
    Undeletable = {s2}
    MaxRuns = 2
    MaxCrashes = 1
SPECIFICATION FairSpec
INVARIANTS
    SentOnce
    OkIsSent
    NotToAnEarlierRun
PROPERTY
    RequestConsumed
