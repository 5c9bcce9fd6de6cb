CONSTANTS
    PoolSize = 2
    Configs <- MCConfigs
SPECIFICATION Spec
INVARIANTS
    Conserved
    NoOops
    SkbOnce
    HomeAgain
PROPERTY Moving
CHECK_DEADLOCK FALSE
