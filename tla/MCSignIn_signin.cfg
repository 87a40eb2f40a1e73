\* Two browsers sign in to one account, enrolled or not.
SPECIFICATION Spec
CONSTANTS
    anna = anna  p1 = p1  p2 = p2  r1 = r1
    Accounts = {anna}
    Guest = Guest
    Pages = {p1, p2}
    HostOf <- OneHost
    RecoveryCodes = {r1}
    MaxLoginAttempts = 2
    MaxChallengeTries = 2
    MaxGuests = 1
    MaxGuestsPerHost = 2
    ChallengeLife = 2
    AttemptWindow = 1
    SessionLife = 1
    PruneInterval = 1
    Lockout = 1
    MaxLockout = 1
    FailureTTL = 2
    MaxTime = 2
    MaxTokens = 4
    MaxRequests = 5
    MaxMishaps = 1
SYMMETRY Browsers
CHECK_DEADLOCK FALSE
INVARIANTS
    CodesOnce
    SessionsOfEnabled
    GuestCountExact
    TriesBounded
    NoReservationLeaks
