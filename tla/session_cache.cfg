\* Two requests for one session race a revoker and the deletion of the
\* organization, with every call that may be lost, past the idle timeout and up
\* to the expiry of the session.
SPECIFICATION FairSpec
CONSTANTS
    s1 = s1
    Sessions = {s1}
    Lookups = {p1, p2}
    Cookie <- OneCookie
    Revokers = {r1}
    Absolute = 3
    MaxAbsolute = 3
    Idle = 1
    TTL = 1
    TouchInterval = 1
    Lag = 1
    Retain = 0
    MaxTime = 3
INVARIANTS
    
    StalenessBounded
PROPERTIES
    IdleIsFinal
    
    ImplementsFairAuthority
