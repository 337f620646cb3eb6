SPECIFICATION FairSpec
CONSTANTS
    Connections <- AllConnections
    Capacity = 5
    MaxMessages = 3
INVARIANTS TypeOK WholeFrames EofVerdict BytesInOrder
PROPERTIES ImplementsFifo AllDelivered
