CONSTANTS
    alice = alice
    bob = bob
    carol = carol
    m1 = m1
    m2 = m2
    m3 = m3
    g = g
    NoHash = NoHash
    None = None
    Nodes = {alice, bob, carol}
    Msgs = {m1, m2, m3}
    Peers <- CarolKnowsAlice
    InitialChain <- Genesis
    Size <- EdgeSizes
    BufferSize <- SizeLimit
    BadKeys <- OnlyCarol
    Ahead <- BobAheadOfAlice
    MaxFaults = 1
    MaxCuts = 1
SPECIFICATION Spec
INVARIANTS
    ReceivedChainValid
    WithdrawnAtBothEnds
    StoredMessagesShown
    CrashLeavesOneMessage
    UnsignedStaysAlone
    SingleSenderConverges
CHECK_DEADLOCK FALSE
