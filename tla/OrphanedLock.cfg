SPECIFICATION ControlSpec
CONSTANTS
    Handler = {h1}
    Workloads <- CancelWorkload
    Request <- AllRequests
    Reading = {"light"}
    Notes = 1
    Free = Free
PROPERTIES EveryCommandAnswered
