SPECIFICATION FairSpec
CONSTANTS
    Calls = {c1, c2}
    EndNames = {e1}
    Names = {a}
    Servers = {s1, s2}
    Nil = Nil
INVARIANTS
    TypeOK
    CountExact
    NoLateReply
    FailsOnlyIfDisturbed
PROPERTY
    AtMostOnce
    CallReturns
