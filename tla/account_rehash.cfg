\* A password is replaced while a login upgrades the hash of the old one.
SPECIFICATION Spec
CONSTANTS
    Requests = {q1, q2}
    Sessions = {s1}
    Links = {l1, l2}
    Passwords = {p1, p2}
    NoPassword = NoPassword
    NoSession = NoSession
    NoLink = NoLink
PROPERTIES
    RehashKeepsPassword
CHECK_DEADLOCK FALSE
