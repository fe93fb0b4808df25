SPECIFICATION Spec
CONSTANTS
    Scans = {s1}
    MaxCA = 3
    BaseConfigs = {FALSE}
    HibernationModes = {FALSE}
INVARIANTS
    WebhookTrust
    KnownCATrusted
PROPERTIES
    CAReplacedByRotationOnly
\* The system may stop for good: after a forced deletion, and after a deletion
\* once MaxCA lets nobody enable the extension again.
CHECK_DEADLOCK FALSE
