SPECIFICATION Spec
CONSTANTS
    Levels <- SomeLevels
INVARIANT ExitCodeTellsOutcome
INVARIANT OnlyUsableOptionsAct
INVARIANT AllFaultsLogged
