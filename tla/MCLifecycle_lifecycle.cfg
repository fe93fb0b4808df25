SPECIFICATION Spec
CONSTANTS
    Scans = {s1}
    MaxCA = 2
    BaseConfigs = {FALSE}
    HibernationModes = {FALSE}
INVARIANTS
    TypeOK
    IInv
    OperatorOutlivesScans
    SecretsOutliveOperator
    DeleteLeavesNothing
PROPERTIES
    MigrationKeepsShoot
    ImplementsService
\* The system may stop for good: after a forced deletion, and after a deletion
\* once MaxCA lets nobody enable the extension again.
CHECK_DEADLOCK FALSE
