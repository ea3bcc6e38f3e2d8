\* io_failure
CONSTANTS
    s1 = s1
    s2 = s2
    s3 = s3
    v1 = v1
    Server <- MCServer2
    Value <- MCValue
    Nil = Nil
    PreVote = FALSE
    NoOp = FALSE
    InflightThreshold = 0
    MaxTerm = 1
    MaxLogLen = 2
    MaxIOFailures = 1
    MaxSendFailures = 1
    MaxRestarts = 0
    LeaderTimeouts = TRUE
    Lossy = FALSE
    MaxInFlight = 2
SPECIFICATION Spec
SYMMETRY Symmetry2
VIEW View
CONSTRAINT NetworkBound
INVARIANT TypeOK
INVARIANT IndexOrder
INVARIANT AppendIndexAssertion
