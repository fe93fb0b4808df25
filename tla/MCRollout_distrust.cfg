SPECIFICATION FairSpec
CONSTANTS
    Namespace = "shoot--foo--bar"
    MaxCA = 3
    Options = {""}
INVARIANTS
    RotationInv
    DistrustIsTransient
PROPERTIES
    ImplementsRotation
    TrustReturns
