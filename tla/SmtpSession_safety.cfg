CONSTANTS
    x1 = x1
    x2 = x2
    d1 = d1
    d2 = d2
    ip = ip
    ip2 = ip2
    re = re
    u1 = u1
    Address = {x1, x2}
    Domain = {d1, d2}
    NoDomain = NoDomain
    AddressDomain <- MCDomainOf
    Probe <- MCProbe
    Pattern = {re}
    Hits <- MCHits
    Remote = {ip, ip2}
    NoSender = NoSender
    Conn = {c1}
    User = {u1, u2}
    Admin = Admin
    NoRow = NoRow
    Settings <- MCSettings
    Initial <- MCInitial
    Bootstraps <- MCBootstraps
    RemoteOf <- MCRemoteOf
    Sender = {x1, x2, NoSender}
    Recipient = {x1, x2}
    MaxChanges = 2
    MaxMessages = 1
SPECIFICATION Spec
INVARIANTS
    TypeOK
    AckedIsStored
PROPERTIES
    NoStrayMail
    DataRulesApplied
    NoFallThrough
    ReportsAreDue
