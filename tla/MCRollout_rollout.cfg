SPECIFICATION Spec
CONSTANTS
    Namespace = "shoot--foo--bar"
    MaxCA = 2
    Options = {"", "options"}
INVARIANTS
    ReferencesResolve
    OptionsFollow
    OperatorIsFound
    AccountsStayApart
PROPERTIES
    OnlyOptionsVanish
