\* Two events, one agent with two keys, one model anchored twice, three blocks
\* after the genesis block.
SPECIFICATION Spec
CONSTANTS
    e1 = e1
    e2 = e2
    d1 = d1
    d2 = d2
    k1 = k1
    k2 = k2
    EventIds <- TwoEvents
    Digests <- TwoDigests
    Keys <- TwoKeys
    Agents = {a}
    Models = {m}
    Provenances = {p, q}
    MaxBlocks = 4
SYMMETRY Symmetry
INVARIANTS
    TamperEvident
    TablesMatchChain
    FileFollowsChain
PROPERTY
    LogSpec
