SPECIFICATION Spec
CONSTANTS
    Validators = {"v1", "v2"}
    Users = {"u"}
    RedCoastBlock = 2
    MaxTxs = 2
    MaxNumber = 4
    MaxIds = 6
INVARIANTS
    AssembledIsAccepted
    ExecutedOnce
PROPERTIES
    PassedExecuted
