SPECIFICATION Spec
CONSTANTS
    Calls = {c1}
    Payments <- MCPayments
    MaxTime = 2
    MaxRestarts = 1
INVARIANTS
    SettleExecutes
