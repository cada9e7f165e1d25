SPECIFICATION Spec
CONSTANTS
    x1 = x1
    x2 = x2
    d1 = d1
    d2 = d2
    re = re
    jo = jo
    Jo = Jo
    ann = ann
    root = root
    Address = {x1, x2}
    Domain = {d1, d2}
    NoDomain = NoDomain
    AddressDomain <- MCDomainOf
    Probe <- MCProbe
    Pattern = {re}
    Hits <- MCHits
    Remote = {}
    NoSender = NoSender
    MaxUser = 2
    Name = {jo, Jo, ann, root}
    Fold <- MCFold
    Reserved = root
    Settings <- MCSettings
    NoName = NoName
    NoRow = NoRow
    Request = {r1}
    Delivery = {s1}
    Receiving = {0, 1}
    MaxMessages = 2
INVARIANTS TypeOK ExclusiveOwnership NamesDistinct RetentionFollows
PROPERTIES ImplementsDirectory
