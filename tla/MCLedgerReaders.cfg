\* Two events, three attempts, two sync loops; two agents and an auditor,
\* two calls each, two peers, an event and a model with one id.
SPECIFICATION Spec
CONSTANTS
    e1 = e1
    e2 = e2
    a1 = a1
    a2 = a2
    a3 = a3
    l1 = l1
    l2 = l2
    c1 = c1
    c2 = c2
    aud = aud
    p1 = p1
    p2 = p2
    x = x
    dA = dA
    v1 = v1
    None = None
    NoState = NoState
    User = User
    Events = {e1, e2}
    Attempts = {a1, a2, a3}
    EventOf <- MCEventOf
    Loops = {l1, l2}
    Callers = {c1, c2, aud}
    Agents = {c1, c2}
    Peers = {p1, p2}
    EventIds = {x}
    PayloadDigests = {dA}
    Models = {x}
    Provenances = {v1}
    MaxCalls = 2
INVARIANTS
    EvidenceIsWhole
    ReportIsJust
    CacheIsOneSnapshot
    ReceiptsNameTheRecord
PROPERTIES
    CacheGoesForward
    LoggedIsCached
    ChannelIsAppendOnlyLog
    VerdictsAgree
CHECK_DEADLOCK FALSE
