\* failed_write_commit
CONSTANTS
    s1 = s1
    s2 = s2
    s3 = s3
    v1 = v1
    Server <- MCServer
    Value <- MCValue
    Nil = Nil
    PreVote = FALSE
    NoOp = FALSE
    InflightThreshold = 0
    MaxTerm = 1
    MaxLogLen = 2
    MaxIOFailures = 1
    MaxSendFailures = 1
    MaxRestarts = 0
    LeaderTimeouts = FALSE
    Lossy = FALSE
    MaxInFlight = 2
SPECIFICATION Spec
SYMMETRY Symmetry
VIEW View
CONSTRAINT NetworkBound
INVARIANT StateMachineSafety
