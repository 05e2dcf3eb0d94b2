CONSTANTS
    alice = alice
    bob = bob
    carol = carol
    dave = dave
    m1 = m1
    m2 = m2
    g1 = g1
    g2 = g2
    g3 = g3
    NoHash = NoHash
    None = None
    BadKeys <- Nobody
    Ahead <- Nobody
    Nodes = {alice, bob, carol}
    Msgs = {m1}
    Hosts <- TrustAlice
    Known <- Joined
    Running = {alice, bob}
    Tables <- Behind
    PEERS_BATCH_SIZE = 1
    BLOCKS_BATCH_SIZE = 2
    Leavers = {bob}
    OneAtATime = FALSE
    MaxStarts = 2
    MaxFaults = 1
    MaxLost = 1
SPECIFICATION FairSpec
INVARIANT
    ListsWellFormed
PROPERTY
    JobsFinish
CHECK_DEADLOCK FALSE
