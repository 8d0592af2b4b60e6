\* Two attempts at once; the address allows one failure, the ip two.
SPECIFICATION LimiterSpec
CONSTANTS
    addr = addr
    ip = ip
    Attempt = {r1, r2}
    Address = addr
    Ip = ip
    Free <- FreeOf
    Window = 4
    Base = 1
    Cap = 4
    Rounds = 3
    Lag = 1
SYMMETRY Symmetric
INVARIANTS  CooldownEnds
PROPERTY CooldownKept
