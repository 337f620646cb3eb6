SPECIFICATION AlarmSpec
CONSTANTS
    Handler = {h1}
    Workloads <- AlarmWorkloads
    Request <- AllRequests
    Reading = {"light", "dark"}
    Notes = 1
    Free = Free
INVARIANTS OffSilences LockComesBack
PROPERTIES AlarmReleased
