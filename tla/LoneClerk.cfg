SPECIFICATION FairClerkSpec
CONSTANTS
    k1 = k1  k2 = k2  kx = kx  m1 = m1
    n1 = n1  n2 = n2
    c1 = c1  c2 = c2
    Depth = 3
    Key = {k1, k2, kx, m1}
    User <- MCUser
    Body <- MCBody
    GenesisTx = genesis
    GenesisKeys <- MCGenesisKeys
    Nil = Nil
    UintMod = 65536
    Node = {n1}
    MinerKey <- MCMinerKey
    Boot <- MCBoot
    Threshold = 1
    Killable = {}
    ClerkPorts <- MCClerkPorts
    MaxBlocks = 4
    Clerk = {c1}
    ClerkKey <- MCClerkKey
    Servers <- AllServers
    Ops <- OwnOps
    MaxOps = 3
INVARIANTS
    FeesPaid
    OwnWalletServed
    ThreadsWellFormed
PROPERTY OperationReturns
CHECK_DEADLOCK FALSE
