SPECIFICATION Spec
CONSTANTS
    MaxUser = 2
    Request = {r1, r2}
    Delivery = {d1}
    Client = {k1}
    Cookie = {c1, c2}
    AttemptId = {a1, a2}
    MessageId = {m1}
    MaxTime = 1
    LoginLimit = 1
    LoginWindow = 1
    SessionLife = 1
    Settings = {s1, s2}
    Env = env
    Limits = {lim, open}
    EnvLimits = lim
    Open = open
    NoClient = NoClient
    NoSession = NoSession
    NoMail = NoMail
    NoRow = NoRow
SYMMETRY Symmetry
INVARIANTS TypeOK OwnMailOnly NothingSurvivesItsUser Throttled NoOldSettings
