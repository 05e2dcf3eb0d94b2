CONSTANTS
    alice = alice
    bob = bob
    carol = carol
    dave = dave
    m1 = m1
    m2 = m2
    g1 = g1
    g2 = g2
    g3 = g3
    NoHash = NoHash
    None = None
    BadKeys <- Nobody
    Ahead <- Nobody
    Nodes = {alice, bob}
    Msgs = {}
    Hosts <- TrustAlice
    Known <- Alone
    Running = {alice}
    Tables <- Empty
    PEERS_BATCH_SIZE = 2
    BLOCKS_BATCH_SIZE = 2
    Leavers = {}
    OneAtATime = FALSE
    MaxStarts = 1
    MaxFaults = 1
    MaxLost = 1
SPECIFICATION Spec
INVARIANT
    SyncedChainValid
CHECK_DEADLOCK FALSE
