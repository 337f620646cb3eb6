SPECIFICATION FairSpec
CONSTANTS
    Client = {c1, c2}
    Caster = {sensor}
    Cancellable = {}
    MaxClients = 1
    NFds = 3
    NoClient = NoClient
    NoFd = NoFd
PROPERTIES SocketReleased ClientDecided
INVARIANTS NoFdLeak
