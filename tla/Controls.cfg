SPECIFICATION MCHistorySpec
CONSTANTS
    Handler = {h1, h2}
    Workloads <- ControlWorkloads
    Request <- AllRequests
    Reading = {"light", "dark", "error"}
    Notes = 2
    Free = Free
INVARIANTS TypeOK OneMelody OneCountdown OffSilences CountdownsLeaveSilence
    ThreeDarkReadings UncrossedLedStatus
PROPERTIES StoppedMelodyEnds EveryCommandAnswered
