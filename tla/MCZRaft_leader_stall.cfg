\* leader_stall
CONSTANTS
    s1 = s1
    s2 = s2
    s3 = s3
    v1 = v1
    Server <- MCServer2
    Value <- MCValue
    Nil = Nil
    PreVote = FALSE
    NoOp = FALSE
    InflightThreshold = 0
    MaxTerm = 1
    MaxLogLen = 2
    MaxIOFailures = 0
    MaxSendFailures = 0
    MaxRestarts = 0
    LeaderTimeouts = FALSE
    Lossy = FALSE
    MaxInFlight = 2
SPECIFICATION FairSpec
CONSTRAINT NetworkBound
PROPERTY LeaderApplies
