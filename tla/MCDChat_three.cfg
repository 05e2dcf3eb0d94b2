CONSTANTS
    alice = alice
    bob = bob
    carol = carol
    m1 = m1
    m2 = m2
    m3 = m3
    g = g
    NoHash = NoHash
    None = None
    Nodes = {alice, bob, carol}
    Msgs = {m1, m2}
    Peers <- BobUnawareOfAlice
    InitialChain <- EmptyChain
    Size <- EdgeSizes
    BufferSize <- SizeLimit
    BadKeys <- Nobody
    Ahead <- Nobody
    MaxFaults = 1
    MaxCuts = 0
SPECIFICATION FairSpec
INVARIANTS
    TypeOK
    IInv
    ParentsStored
    ForkOnlyWithOwnBlock
    AcknowledgedOrOutrun
    SentMessagesMatchOwnBlocks
    InvalidOnlyIfUnlisted
PROPERTIES
    TablesImplementStore
    SendTerminates
    ConnectionsServed
CHECK_DEADLOCK FALSE
