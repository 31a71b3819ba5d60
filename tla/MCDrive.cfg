SPECIFICATION FairDriveSpec
CONSTANTS
    None = None
    Jobs = {d1, d2, b1}
    DriverJobs <- MCDriverJobs
    BrowserJobs = {b1}
    d1 = d1
    d2 = d2
    Requests = {r1}
    MaxToolCalls = 0
    Runs = 2
    Sessions <- MCSessions
    Asked = {"abandon"}
PROPERTIES
    OneRunAtATime
    WaitsEnd
    DueStartsAreMade
CHECK_DEADLOCK FALSE
