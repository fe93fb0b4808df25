SPECIFICATION FairSpec
CONSTANTS
    Scans = {s1}
    MaxCA = 1
    BaseConfigs = {FALSE}
    HibernationModes = {FALSE, TRUE}
PROPERTIES
    ReconcileConverges
    DeletionFinishes
    MigrationFinishes
    ForceDeletionFinishes
\* The system may stop for good: after a forced deletion, and after a deletion
\* once MaxCA lets nobody enable the extension again.
CHECK_DEADLOCK FALSE
