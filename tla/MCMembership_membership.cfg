\* membership
CONSTANTS
    s1 = s1
    s2 = s2
    s3 = s3
    s4 = s4
    Nil = Nil
    Server <- MCServer
    Self = s1
    InitVoters = {s1, s2, s3}
    MaxLogLen = 4
    Threshold = 2
    Trailing = 0
SPECIFICATION Spec
SYMMETRY MCSymmetry
INVARIANTS
    TypeOK
    UncommittedChangeSound
    ApplyCallbackAssertion
