SPECIFICATION FairSpec
CONSTANTS
    Miner = mine
    Receivers = {block}
    Appenders = {tx}
    Loggers = {log}
    Viewers = {view}
    Gossipers = {gossip}
    Nobody = nobody
    MaxLength = 2
INVARIANTS
    LocksOK
    NoRace
    TipStillNew
    WalletUpToDate
    HoldersAdvance
PROPERTIES
    HandlersReturn
    ImplementsAtomic
