\* Lock commands against a stalling handler, a stepping clock and a restart.
CONSTANTS
    Nonces = {n1, n2}
    NoNonce = NoNonce
    MaxSkew = 1
    MaxStall = 1
    MaxStepBack = 1
    Horizon = 3
    MaxRestarts = 1
SPECIFICATION Spec
SYMMETRY NonceSymmetry
INVARIANTS
    TypeOK
    AtMostOnce
    ReplayRefusalMeansAsked
PROPERTIES
    LockedOnce
