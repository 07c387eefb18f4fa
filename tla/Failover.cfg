SPECIFICATION SpecApart
CONSTANTS
    k1 = k1  k2 = k2  kx = kx  m1 = m1
    n1 = n1  n2 = n2
    c1 = c1  c2 = c2
    Depth = 2
    Key = {k1, k2, kx, m1}
    User <- MCUser
    Body <- MCBody
    GenesisTx = genesis
    GenesisKeys <- MCGenesisKeys
    Nil = Nil
    UintMod = 65536
    Node = {n1, n2}
    MinerKey <- MCMinerKey
    Boot <- MCBoot
    Threshold = 1
    Killable = {n1}
    ClerkPorts <- MCClerkPorts
    MaxBlocks = 3
    Clerk = {c1}
    ClerkKey <- MCClerkKey
    Servers <- AllServers
    Ops <- FewOps
    MaxOps = 2
INVARIANTS
    ClerkTypeOK
    TrueMeansOnChain
    ThreadsWellFormed
    WalletFromChain
CHECK_DEADLOCK FALSE
