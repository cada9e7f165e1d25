SPECIFICATION FairSpec
CONSTANTS
    d1 = d1
    d2 = d2
    MaxId = 2
    Domain <- MCDomain
    DomainOf <- MCDomainOf
    BatchLimit = 2
    RetryDelay <- MCRetryDelay
    MaxFaults = 0
    MaxElapsed = 1
    MaxLag = 1
    MaxOverdue = 10
PROPERTIES EveryReportIsTried
CHECK_DEADLOCK FALSE
