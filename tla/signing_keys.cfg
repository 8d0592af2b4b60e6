\* Three keys, two instances and a consumer that keeps its copy: rotations and retirements.
SPECIFICATION Spec
CONSTANTS
    Key = {k1, k2, k3}
    Instance = {i1, i2}
    Consumer = {c1}
    NoKey = NoKey
    TTL = 2
    Grace = 1
    CacheAge = 2
    Lifetime = 2
    Publish = 5
    Overlap = 5
    Careful = TRUE
SYMMETRY Symmetric
INVARIANTS LiveTokensVerify RotationLands
