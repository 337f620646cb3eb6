SPECIFICATION MCSpec
CONSTANTS
    Handler = {h1}
    Workloads <- PlayWorkload
    Request <- AllRequests
    Reading = {"dark"}
    Notes = 3
    Free = Free
INVARIANTS BuzzerStatusTruthful
