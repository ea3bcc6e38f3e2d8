\* apply_candidate
CONSTANTS
    s1 = s1
    s2 = s2
    s3 = s3
    v1 = v1
    Server <- MCServer
    Value <- MCValue
    Nil = Nil
    PreVote = FALSE
    NoOp = FALSE
    InflightThreshold = 0
    MaxTerm = 2
    MaxLogLen = 1
    MaxIOFailures = 0
    MaxSendFailures = 0
    MaxRestarts = 0
    LeaderTimeouts = TRUE
    Lossy = FALSE
    MaxInFlight = 2
SPECIFICATION Spec
SYMMETRY Symmetry
VIEW View
CONSTRAINT NetworkBound
INVARIANT ApplyStateAssertion
