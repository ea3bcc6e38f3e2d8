\* prevote
CONSTANTS
    s1 = s1
    s2 = s2
    s3 = s3
    v1 = v1
    Server <- MCServer
    Value <- MCValue
    Nil = Nil
    PreVote = TRUE
    NoOp = FALSE
    InflightThreshold = 0
    MaxTerm = 2
    MaxLogLen = 0
    MaxIOFailures = 0
    MaxSendFailures = 0
    MaxRestarts = 1
    LeaderTimeouts = FALSE
    Lossy = FALSE
    MaxInFlight = 3
SPECIFICATION Spec
SYMMETRY Symmetry
VIEW View
CONSTRAINT NetworkBound
INVARIANT ElectionSafety
INVARIANT VoteOncePerTerm
PROPERTY TermMonotone
