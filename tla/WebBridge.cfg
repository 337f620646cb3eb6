SPECIFICATION FairSpec
CONSTANTS
    Page = {p1, p2}
    Payload <- Payloads
    Socket = {s1, s2}
    NoSocket = NoSocket
    Nobody = Nobody
    FrameSize = 3
    KernelRoom = 0
    HighWater = 2
    MaxClicks = 1
    MaxUp = 3
    MaxDown = 1
INVARIANTS TypeOK NoMixedFrames OneConnection
PROPERTIES ImplementsStatusFeed Reconnects EveryClickAnswered
