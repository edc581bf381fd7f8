SPECIFICATION Spec
CONSTANTS
    Calls = {c1, c2, c3}
    Payments <- MCPayments
    MaxTime = 2
    MaxRestarts = 1
INVARIANTS
    SettledOnce
