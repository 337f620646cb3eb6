SPECIFICATION MCSpec
CONSTANTS
    Handler = {h1}
    Workloads <- AlarmOffWorkload
    Request <- AllRequests
    Reading = {"light", "dark"}
    Notes = 1
    Free = Free
INVARIANTS AlarmOffIsComplete
