SPECIFICATION Spec
CONSTANTS
    k1 = k1  k2 = k2  kx = kx  m1 = m1  m2 = m2
    post = post  move = move  again = again
    rival = rival  spend = spend
    n1 = n1  n2 = n2  n3 = n3  n4 = n4
    Key = {k1, k2, kx, m1, m2}
    User = {post, rival}
    Body <- MCBody
    GenesisTx = genesis
    GenesisKeys <- MCGenesisKeys
    Nil = Nil
    UintMod = 65536
    Node = {n1}
    MinerKey <- MCMinerKey
    Boot <- MCBoot
    Threshold = 1
    Killable = {}
    ClerkPorts = {}
    MaxBlocks = 3
INVARIANT BlockSpendsOnce
CHECK_DEADLOCK FALSE
