------------------------------ MODULE MCClient ------------------------------
(***************************************************************************)
(* Small instances of Client, with the transactions of MCClerk.            *)
(***************************************************************************)
EXTENDS Client, MCClerk

\* What the clients may be told: posts, and comments and upvotes on what is there.
ClientOps == [c \in Clerk |->
    {Post, Comment(FirstPost), Upvote(FirstPost, PKHash(k1)), Upvote(GenesisTx, Nil)}]

\* client.go runs n1 and client2.go n2, which boots from n1.  Both read the same
\* list of keys: their clerks share a wallet.
OneKey == [c \in Clerk |-> k1]
OwnServer == [c \in Clerk |-> IF c = c1 THEN <<n1>> ELSE <<n2>>]

\* StartDRNode has returned in both programs and the nodes know each other.
InitJoined ==
    /\ blocks = <<GenerateGenesisBlock>>
    /\ node = [n \in Node |-> IF n = n1 THEN bootstrap ELSE [bootstrap EXCEPT !.Log = <<1, 1>>]]
    /\ phase = [n \in Node |-> "up"]
    /\ todo = [n \in Node |-> <<>>] /\ replay = [n \in Node |-> <<>>]
    /\ servers = [n \in Node |-> Node \ {n}]
    /\ closed = [n \in Node |-> {}]
    /\ blockMsgs = {} /\ txMsgs = {}
    /\ handler = [n \in Node |-> [t \in User |-> "none"]]
    /\ clerk = [c \in Clerk |-> InitClerk(c)]
    /\ hashMap = [c \in Clerk |-> <<>>]
    /\ page = [c \in Clerk |-> <<>>]

SpecJoined == InitJoined /\ [][ClientNext]_allvars
=============================================================================
