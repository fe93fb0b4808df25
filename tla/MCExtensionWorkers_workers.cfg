SPECIFICATION FairSpec
CONSTANTS
    Extensions = {e1, e2, e3}
    Workers = {w1, w2}
    None = None
INVARIANTS
    WorkersInv
    NoRequestForgotten
PROPERTIES
    ImplementsLoops
    LoopsArePrompt
    HealthyServed
