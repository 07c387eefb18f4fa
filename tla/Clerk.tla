------------------------------- MODULE Clerk -------------------------------
(***************************************************************************)
(* Clerks (clerk/clerk.go, clerk/bad_clerk.go) and the nodes they talk to. *)
(* An operation of a clerk asks a node for its wallet, builds and signs a  *)
(* transaction, and hands it to a node; on any error it goes on to the     *)
(* next server it knows.  Each of these calls may be overtaken by whatever *)
(* the nodes do in between.                                                *)
(***************************************************************************)
EXTENDS Miner

CONSTANTS
    Clerk,     \* clerks
    ClerkKey,  \* the private key of each clerk
    Servers,   \* the servers argument of MakeClerk, for each clerk
    Ops,       \* the operations each clerk may be asked for
    MaxOps     \* bound: operations of one clerk

ASSUME ClerkAssumption ==
    /\ ClerkKey \in [Clerk -> Key]
    /\ Servers \in [Clerk -> Seq(Node)]
    /\ \A c \in Clerk : ToSet(Servers[c]) \in ClerkPorts
    /\ MaxOps \in Nat

VARIABLE clerk  \* the state of each clerk

cvars == <<vars, clerk>>

TX_UPVOTE == 10

InitClerk(c) ==
    [todo    |-> Servers[c],  \* the servers MakeClerk has still to dial
     servers |-> <<>>,        \* the servers that answered
     pc      |-> "idle",      \* idle, query, call, wait or panicked
     op      |-> Nil,         \* the operation under way, or the last one
     current |-> 1,           \* the server it talks to
     tx      |-> Nil,         \* the transaction it built
     answer  |-> "none",      \* what the operation returned
     asked   |-> 0]

ClerkInit == Init /\ clerk = [c \in Clerk |-> InitClerk(c)]

\* One turn of the loop of MakeClerk.
MakeClerk(c) ==
    LET ck == clerk[c] IN
    /\ ck.todo # <<>>
    /\ clerk' = [clerk EXCEPT
          ![c].todo = Tail(@),
          ![c].servers = IF Running(Head(ck.todo)) THEN Append(@, Head(ck.todo)) ELSE @]
    /\ UNCHANGED vars

\* The clerk's gossip reaches node k.  Its reply is sent on a channel that was
\* never made, so Merge is never called and the clerk keeps the servers it has.
GossipProtocol(c, k) ==
    LET ck == clerk[c] IN
    /\ ck.todo = <<>> /\ ck.pc # "panicked"
    /\ ClerkGossip(ToSet(ck.servers), k)
    /\ UNCHANGED clerk
-----------------------------------------------------------------------------
(* The transaction an operation makes of the wallet. *)

\* Faulty variant: a transfer takes one output only.
TakenFirst(op, utxos, need) == <<utxos[1]>>

\* The outputs it spends: any one for a post or a comment; otherwise one after
\* the other until their sum exceeds what is needed.
Taken(op, utxos, need) ==
    LET sum(i) == SumUint([j \in 1..i |-> utxos[j].value])
        enough == {i \in DOMAIN utxos : sum(i) > need}
    IN  IF op.type \in {"POST", "COMMENT"} THEN <<utxos[1]>>
        ELSE IF enough = {} THEN utxos
        ELSE SubSeq(utxos, 1, CHOOSE i \in enough : \A j \in enough : i <= j)

\* SignTx leaves the signatures out when the transaction cannot be hashed.
SignTx(tx, k) ==
    IF validateComponents(tx)
    THEN [tx EXCEPT !.ins = [i \in DOMAIN @ |-> [@[i] EXCEPT !.sig = k]]]
    ELSE tx

\* What the operation sends to somebody else.
Amount(op) == CASE op.type = "TRANSFER" -> op.value
                [] op.type = "UPVOTE"   -> TX_UPVOTE
                [] OTHER                -> 0

\* The output to whom the operation is for, and what Transfer, Post, Comment and
\* Upvote add to it: what is left of the inputs goes back to oneself.
ToOther(op) ==
    IF op.type \in {"TRANSFER", "UPVOTE"}
    THEN <<[value |-> Amount(op), addr |-> op.dest]>> ELSE <<>>

Outputs(k, op, left) == Append(ToOther(op), [value |-> left, addr |-> PKHash(k)])

\* The operations of BadClerk leave that last output out.
BadOutputs(op) == ToOther(op)

\* A transfer of nothing, or more than the wallet has.  Posts and comments do not look.
GivesUp(op, sum) ==
    \/ op.type = "TRANSFER" /\ op.value = 0
    \/ op.type \in {"TRANSFER", "UPVOTE"} /\ sum < (Amount(op) + TX_FEE) % UintMod

\* The transaction, or Nil when the operation gives up.
BuildPaying(k, op, utxos, fee) ==
    LET taken == Taken(op, utxos, (Amount(op) + TX_FEE) % UintMod)
        sum == SumUint([i \in DOMAIN taken |-> taken[i].value])
    IN  IF GivesUp(op, sum) THEN Nil
        ELSE SignTx([type |-> op.type, parent |-> op.parent, content |-> op.content,
                     ins |-> [i \in DOMAIN taken |->
                        [prev |-> taken[i].prev, idx |-> taken[i].idx, key |-> k, sig |-> Nil]],
                     outs |-> IF op.bad THEN BadOutputs(op)
                              ELSE Outputs(k, op, (sum - fee - Amount(op)) % UintMod)],
                    k)

\* Faulty variant: the fee is not taken out of the inputs.
BuildKeepingFee(k, op, utxos) == BuildPaying(k, op, utxos, 0)

Build(k, op, utxos) == BuildPaying(k, op, utxos, TX_FEE)
-----------------------------------------------------------------------------
(* An operation. *)

\* Each of its loops starts at ck.current, which is never moved.
Invoke(c, op) ==
    LET ck == clerk[c] IN
    /\ ck.todo = <<>> /\ ck.pc = "idle" /\ ck.asked < MaxOps
    /\ clerk' = [clerk EXCEPT ![c] = [ck EXCEPT !.pc = "query", !.op = op, !.current = 1,
                                                !.tx = Nil, !.answer = "none", !.asked = @ + 1]]
    /\ UNCHANGED vars

Returning(ck, success) == [ck EXCEPT !.pc = "idle", !.answer = success]

\* Faulty variant: the list does not wrap.
NextServerNoWrap(ck) == [ck EXCEPT !.current = @ + 1]

NextServer(ck) == [ck EXCEPT !.current = (@ % Len(ck.servers)) + 1]

\* QueryUtxo, and what is built of its result.  The wallet is an iteration over a
\* map: its order is any.
QueryUtxo(c) ==
    LET ck == clerk[c]
        k == ClerkKey[c]
        s == ck.servers[ck.current]
    IN
    /\ ck.pc = "query"
    /\ IF ck.servers = <<>>
       THEN clerk' = [clerk EXCEPT ![c].pc = "panicked"]
       ELSE IF ~Serving(s)
       THEN clerk' = [clerk EXCEPT ![c] = NextServer(ck)]
       ELSE \E utxos \in SetToSeqs(GetUnspentTxs(node[s].Utxo, PKHash(k))) :
              LET tx == IF utxos = <<>> THEN Nil ELSE Build(k, ck.op, utxos)
              IN  clerk' = [clerk EXCEPT ![c] =
                     IF tx = Nil THEN Returning(ck, "false")
                     ELSE [ck EXCEPT !.pc = "call", !.tx = tx, !.current = 1]]
    /\ UNCHANGED vars

\* The call of AppendTx; t is the hash the node computes.
Call(c) ==
    LET ck == clerk[c]
        s == ck.servers[ck.current]
    IN
    /\ ck.pc = "call"
    /\ \/ /\ ~Serving(s)
          /\ clerk' = [clerk EXCEPT ![c] = NextServer(ck)]
          /\ UNCHANGED vars
       \/ \E t \in User :
             /\ Body[t] = ck.tx
             /\ Submit(s, t)
             /\ clerk' = [clerk EXCEPT ![c].pc = "wait"]
       \/ /\ Serving(s)
          /\ \/ ~validateComponents(ck.tx)
             \/ \E t \in User : Body[t] = ck.tx /\ node[s].PendingTxs[t] # "UNSEEN"
          /\ clerk' = [clerk EXCEPT ![c] = Returning(ck, "false")]
          /\ UNCHANGED vars

\* Faulty variant: an error counts as a success.
ReplyOnErrorToo(c) ==
    LET ck == clerk[c]
        s == ck.servers[ck.current]
    IN
    /\ ck.pc = "wait"
    /\ \E t \in User :
          /\ Body[t] = ck.tx
          /\ handler[s][t] \in {"true", "false"} \/ ~Serving(s)
          /\ clerk' = [clerk EXCEPT ![c] =
                Returning(ck, IF handler[s][t] = "false" THEN "false" ELSE "true")]
    /\ UNCHANGED vars

\* The reply arrives, or the connection breaks: then the same transaction goes to
\* the next server.  A node that ends after it answered may have done either.
Reply(c) ==
    LET ck == clerk[c]
        s == ck.servers[ck.current]
    IN
    /\ ck.pc = "wait"
    /\ \/ /\ ~Serving(s)
          /\ clerk' = [clerk EXCEPT ![c] = [NextServer(ck) EXCEPT !.pc = "call"]]
       \/ \E t \in User :
             /\ Body[t] = ck.tx
             /\ handler[s][t] \in {"true", "false"}
             /\ clerk' = [clerk EXCEPT ![c] = Returning(ck, handler[s][t])]
    /\ UNCHANGED vars

ClerkNext ==
    \/ NodesNext /\ UNCHANGED clerk
    \/ \E c \in Clerk :
          \/ MakeClerk(c) \/ QueryUtxo(c) \/ Call(c) \/ Reply(c)
          \/ \E op \in Ops[c] : Invoke(c, op)
          \/ \E k \in ToSet(clerk[c].servers) : GossipProtocol(c, k)

ClerkSpec == ClerkInit /\ [][ClerkNext]_cvars
-----------------------------------------------------------------------------
(* Properties *)

\* The hash of the transaction a clerk built.
Sent(c) == {t \in User : Body[t] = clerk[c].tx}

\* A clerk knows servers of its list only and talks to one of them, and what it
\* sends is a transaction with a hash.
ClerkTypeOK ==
    \A c \in Clerk : LET ck == clerk[c] IN
        /\ ck.pc \in {"idle", "query", "call", "wait", "panicked"}
        /\ ck.answer \in {"none", "true", "false"}
        /\ ck.asked \in 0..MaxOps
        /\ ck.servers \in Seq(Node) /\ ToSet(ck.servers) \subseteq ToSet(Servers[c])
        /\ ck.current \in Nat \ {0}
        /\ ck.pc \in {"call", "wait"} => ck.current <= Len(ck.servers) /\ Sent(c) # {}

\* An operation that returned true is on the main chain of a server of the clerk,
\* also when the transaction was sent to several servers, and it stays there.
TrueMeansOnChain ==
    \A c \in Clerk : clerk[c].answer = "true" =>
        \E n \in ToSet(clerk[c].servers) : Sent(c) \cap TxsOf(blocks, node[n].Blockchain) # {}

\* What node n holds of the money that is not a miner's.
Held(n) ==
    LET others == Key \ {MinerKey[m] : m \in Node}
        coins == UNION {GetUnspentTxs(node[n].Utxo, PKHash(k)) : k \in others}
    IN  MapThenSumSet(LAMBDA u : u.value, coins)

\* Every operation costs its clerk the fee and moves the rest: of what the genesis
\* block gave out only the fees are missing, though nodes do not enforce the fee
\* (it is added to the inputs) and clerks spend what a node told them earlier.
FeesPaid ==
    \A n \in Node : Alive(n) =>
        Held(n) = Len(GenesisKeys) * GenesisValue
                    - TX_FEE * Cardinality(User \cap TxsOf(blocks, node[n].Blockchain))

\* On every main chain a comment or an upvote comes in a later block than the post
\* or comment it is about, the author of which an upvote pays; posts and comments
\* keep all their money.
ThreadsWellFormed ==
    \A n \in Node : LET chain == node[n].Blockchain IN
        \A i \in DOMAIN chain : \A t \in ToSet(blocks[chain[i]].txs) \cap User :
            LET tx == Body[t]
                before == TxsOf(blocks, SubSeq(chain, 1, i - 1))
            IN  /\ tx.type \in {"COMMENT", "UPVOTE"} =>
                      /\ tx.parent \in before
                      /\ Contents(tx.parent).type \in {"POST", "COMMENT"}
                /\ tx.type \in {"POST", "COMMENT"} =>
                      [j \in DOMAIN tx.outs |-> tx.outs[j].addr] = <<PKHash(tx.ins[1].key)>>
                /\ tx.type = "UPVOTE" =>
                      [j \in DOMAIN tx.outs |-> tx.outs[j].addr] =
                         <<Contents(tx.parent).outs[1].addr, PKHash(tx.ins[1].key)>>

\* The operation itself is one that dreddit must refuse, by what n knows.
Refusable(op, k, n) ==
    LET balance == MapThenSumSet(LAMBDA u : u.value, GetUnspentTxs(node[n].Utxo, PKHash(k)))
    IN  \/ op.bad
        \/ balance < Amount(op) + TX_FEE
        \/ op.type = "TRANSFER" /\ (op.value = 0 \/ op.dest = Nil)
        \/ op.type \in {"COMMENT", "UPVOTE"} /\
              \/ op.parent \notin TxsOf(blocks, node[n].Blockchain)
              \/ Contents(op.parent).type \notin {"POST", "COMMENT"}
              \/ op.type = "UPVOTE" /\ op.dest # Contents(op.parent).outs[1].addr

\* A user whose wallet nobody else spends is never refused what he may do: the
\* next operation already finds the outputs of the one before, in whatever order
\* the node lists them.  The exception is a post or a comment when one of them
\* is worth less than the fee.
OwnWalletServed ==
    \A c \in Clerk : clerk[c].answer = "false" =>
        LET n == clerk[c].servers[1]
            wallet == GetUnspentTxs(node[n].Utxo, PKHash(ClerkKey[c]))
        IN  \/ Refusable(clerk[c].op, ClerkKey[c], n)
            \/ /\ clerk[c].op.type \in {"POST", "COMMENT"}
               /\ \E u \in wallet : u.value < TX_FEE

\* The loops of a clerk never wait for anything but a reply, and its gossip timer
\* is always reset.  Of the nodes no more is assumed than that mine() comes round
\* (as in Fairness) and that the handlers as a whole are scheduled.
ClerkFairness ==
    /\ \A c \in Clerk :
          /\ WF_cvars(MakeClerk(c)) /\ WF_cvars(QueryUtxo(c))
          /\ WF_cvars(Call(c)) /\ WF_cvars(Reply(c))
          /\ \A k \in Node : WF_cvars(k \in ToSet(clerk[c].servers) /\ GossipProtocol(c, k))
    /\ \A n \in Node :
          /\ []<>~CanMine(n) \/ []<><<Mine(n)>>_vars
          /\ WF_vars(\E t \in User : Flood(n, t) \/ Poll(n, t))

FairClerkSpec == ClerkSpec /\ ClerkFairness

\* Every operation returns, at a node without peers and with a threshold of one,
\* whatever became of its transaction, unless the bound on mining is reached while
\* the transaction waits.
OperationReturns ==
    \A c \in Clerk :
        clerk[c].pc \in {"query", "call", "wait"} ~>
            \/ clerk[c].pc \in {"idle", "panicked"}
            \/ /\ Len(blocks) >= MaxBlocks
               /\ \E t \in Sent(c), n \in Node : node[n].PendingTxs[t] = "PENDING"
=============================================================================
