SPECIFICATION FairSpec
CONSTANTS
    Request <- MCRequest
    NoHeader = "no header"
    Squeezed <- MCSqueezed
    Burst = 3
    Windows = {3000, 1500}
    TickMs = 1000
    MaxOverrun = 2
INVARIANTS PaidFor SlidingBound
PROPERTY Recovers
