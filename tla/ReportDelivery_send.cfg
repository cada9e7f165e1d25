SPECIFICATION Spec
CONSTANTS
    h1 = h1
    h2 = h2
    self = self
    null = null
    Host = {h1, h2, self, null}
    Self = self
    Null = {null}
    Pref <- MCPref
    Mode = {"direct", "relay"}
    Bodies <- MCBodies
    MaxLine = 5
    MaxSize = 9
    NoHost = NoHost
CHECK_DEADLOCK FALSE
INVARIANTS TypeOK InStep StoredIntact CopiesAccounted Classified
PROPERTIES ImplementsHandover
