CONSTANTS
    alice = alice
    bob = bob
    carol = carol
    dave = dave
    m1 = m1
    m2 = m2
    g1 = g1
    g2 = g2
    g3 = g3
    NoHash = NoHash
    None = None
    BadKeys <- Nobody
    Ahead <- Nobody
    Nodes = {alice, bob, carol}
    Msgs = {}
    Hosts <- TrustAlice
    Known <- Joined
    Running = {alice, bob}
    Tables <- Behind
    PEERS_BATCH_SIZE = 2
    BLOCKS_BATCH_SIZE = 2
    Leavers = {bob}
    OneAtATime = FALSE
    MaxStarts = 1
    MaxFaults = 0
    MaxLost = 0
SPECIFICATION Spec
INVARIANT
    PeersAreOnline
CHECK_DEADLOCK FALSE
