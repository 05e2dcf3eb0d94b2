CONSTANTS
    alice = alice
    bob = bob
    carol = carol
    dave = dave
    m1 = m1
    m2 = m2
    g1 = g1
    g2 = g2
    g3 = g3
    NoHash = NoHash
    None = None
    BadKeys <- Nobody
    Ahead <- Nobody
    Nodes = {alice, bob, carol, dave}
    Msgs = {}
    Hosts <- TrustAlice
    Known <- Alone
    Running = {alice}
    Tables <- Behind
    PEERS_BATCH_SIZE = 1
    BLOCKS_BATCH_SIZE = 2
    Leavers = {bob, carol, dave}
    OneAtATime = TRUE
    MaxStarts = 4
    MaxFaults = 0
    MaxLost = 0
SPECIFICATION Spec
INVARIANTS
    PeersAreOnline
    OnlineInv
CHECK_DEADLOCK FALSE
