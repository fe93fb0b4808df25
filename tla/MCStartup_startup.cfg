SPECIFICATION FairSpec
CONSTANTS
    Files = {"unset", "malformed", "nil", "", "options"}
    Deployments <- MCDeployments
INVARIANTS
    StartupInv
    RunsAsValidated
    OptionsInForce
PROPERTIES
    ConfigTakesEffect
