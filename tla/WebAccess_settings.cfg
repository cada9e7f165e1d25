SPECIFICATION Spec
CONSTANTS
    MaxUser = 1
    Request = {r1, r2}
    Delivery = {d1}
    Client = {k1}
    Cookie = {c1}
    AttemptId = {a1}
    MessageId = {m1}
    MaxTime = 0
    LoginLimit = 1
    LoginWindow = 1
    SessionLife = 1
    Settings = {s1, s2}
    Env = env
    Limits = {open}
    EnvLimits = open
    Open = open
    NoClient = NoClient
    NoSession = NoSession
    NoMail = NoMail
    NoRow = NoRow
SYMMETRY Symmetry
INVARIANTS AppliedLive
