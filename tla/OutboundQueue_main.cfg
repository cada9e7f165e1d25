SPECIFICATION FairSpec
CONSTANTS
    d1 = d1
    d2 = d2
    MaxId = 3
    Domain <- MCDomain
    DomainOf <- MCDomainOf
    BatchLimit = 2
    RetryDelay <- MCRetryDelay
    MaxFaults = 2
    MaxElapsed = 2
    MaxLag = 1
    MaxOverdue = 10
INVARIANTS TypeOK NeverLost DuplicatesNeedFaults
PROPERTIES NoEarlyAttempt NeverMovedEarlier ImplementsOutbox EventuallyDelivered
\* Every report may be delivered and no more come: the system then rests.
CHECK_DEADLOCK FALSE
