SPECIFICATION FairSpec
CONSTANTS
    k1 = k1
    k2 = k2
    c1 = c1
    c2 = c2
    NoEntry = NoEntry
    Key = {k1, k2}
    AllowAfter <- MCAllowAfter
    MinRetryAfter <- MCMinRetryAfter
    ResetAfter <- MCResetAfter
    Client = {c1, c2}
    KeysOf <- MCKeysOf
    Persistent = {c1}
    RetryGap <- MCRetryGap
    Horizon = 4
    MaxFaults = 2
INVARIANTS TypeOK
PROPERTIES PassEarned GetsThrough
