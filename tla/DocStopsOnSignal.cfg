SPECIFICATION FairSpec
CONSTANTS
    Connection = {c1}
    Sent <- SentOn
    Curious = c1
    MinCode = 2
    MaxCode = 3
    Files <- StaticFiles
CHECK_DEADLOCK FALSE
PROPERTY
    StopsOnSignal
