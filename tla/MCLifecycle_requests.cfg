SPECIFICATION Spec
CONSTANTS
    Scans = {s1}
    MaxCA = 1
    BaseConfigs = {FALSE, TRUE}
    HibernationModes = {FALSE, TRUE}
INVARIANTS
    NoRequestLost
\* The system may stop for good: after a forced deletion, and after a deletion
\* once MaxCA lets nobody enable the extension again.
CHECK_DEADLOCK FALSE
