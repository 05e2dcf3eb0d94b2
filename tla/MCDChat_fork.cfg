CONSTANTS
    alice = alice
    bob = bob
    carol = carol
    m1 = m1
    m2 = m2
    m3 = m3
    g = g
    NoHash = NoHash
    None = None
    Nodes = {alice, bob}
    Msgs = {m1, m2}
    Peers <- FullMesh
    InitialChain <- Genesis
    Size <- AllShort
    BufferSize <- SizeLimit
    BadKeys <- Nobody
    Ahead <- Nobody
    MaxFaults = 0
    MaxCuts = 0
SPECIFICATION Spec
INVARIANT LocalChainsValid
CHECK_DEADLOCK FALSE
