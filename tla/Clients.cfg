SPECIFICATION Spec
CONSTANTS
    Client = {c1, c2, c3}
    Caster = {countdown}
    Cancellable = {countdown}
    MaxClients = 2
    NFds = 4
    NoClient = NoClient
    NoFd = NoFd
SYMMETRY ClientSymmetry
INVARIANTS TypeOK CountMatches SlotsNameOpenClients HandlerOwnsFd
PROPERTIES ImplementsEventBus
