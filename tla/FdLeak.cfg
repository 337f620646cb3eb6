SPECIFICATION FairSpec
CONSTANTS
    Client = {c1, c2}
    Caster = {countdown}
    Cancellable = {countdown}
    MaxClients = 1
    NFds = 3
    NoClient = NoClient
    NoFd = NoFd
PROPERTIES SocketReleased
