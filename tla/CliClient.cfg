SPECIFICATION FairSpec
CONSTANTS
    Lines <- TypedLines
    MaxWaiting = 2
    MaxEvents = 2
INVARIANTS TypeOK
PROPERTIES EveryRequestAnswered LossNoticed EndOfInput
