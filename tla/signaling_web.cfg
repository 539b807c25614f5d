SPECIFICATION Spec
CONSTANTS
    None = None
    a1 = a1  a2 = a2  v1 = v1  v2 = v2
    h1 = h1  h2 = h2  h3 = h3  s1 = s1  s2 = s2  s3 = s3
    q1 = q1  q2 = q2  q3 = q3
    Agents = {a1, a2}
    Viewers = {v1, v2}
    Sockets = {h1, h2, h3, s1, s2, s3}
    Requests = {q1, q2, q3}
    Passwords = {p1}
    Subscribers = {}
    SameMillisecond = FALSE
    Dto <- WebDto
    Hosts <- WebHosts
INVARIANTS
    OneSocketPerViewer NoSeatWithoutGrant MapsAgree
PROPERTIES
    HostHearsOfDeparture CleanupIsExact
CHECK_DEADLOCK FALSE
