SPECIFICATION FairSpec
CONSTANTS
    Dispatcher = {d1, d2}
    Action = {on, off}
    Value = {v1, v2}
    Zero = Zero
    NoThread = NoThread
    NoCommand = NoCommand
INVARIANTS TypeOK NoLostWakeup
PROPERTIES ImplementsMailbox CommandTaken
