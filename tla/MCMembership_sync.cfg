CONSTANTS
    alice = alice
    bob = bob
    carol = carol
    dave = dave
    m1 = m1
    m2 = m2
    g1 = g1
    g2 = g2
    g3 = g3
    NoHash = NoHash
    None = None
    BadKeys <- Nobody
    Ahead <- Nobody
    Nodes = {alice, bob, carol}
    Msgs = {m1}
    Hosts <- TrustTwo
    Known <- Joined
    Running = {alice, bob}
    Tables <- Behind
    PEERS_BATCH_SIZE = 2
    BLOCKS_BATCH_SIZE = 1
    Leavers = {alice}
    OneAtATime = FALSE
    MaxStarts = 2
    MaxFaults = 1
    MaxLost = 1
SPECIFICATION Spec
INVARIANTS
    TypeOK
    NoGapAfterStart
    SyncInv
PROPERTIES
    SyncFollowsPeer
    NothingAnnouncedMissed
CHECK_DEADLOCK FALSE
