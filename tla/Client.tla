------------------------------- MODULE Client -------------------------------
(***************************************************************************)
(* The terminal programs (client/client.go, client/client2.go): a node, a  *)
(* clerk and a reader of commands in one process.  "view" fetches the main *)
(* chain and renders the front page; "comment" and "upvote" name a         *)
(* transaction by the abbreviation of its hash that view has put in        *)
(* hashMap.  Abbreviations are taken to be free of collisions.             *)
(***************************************************************************)
EXTENDS Clerk

VARIABLES
    hashMap,  \* for each client: score and address of the transactions it saw
    page      \* the posts and comments of its last view: <<hash, indent>>

allvars == <<cvars, hashMap, page>>

\* The servers argument of MakeClerk starts with the node of the same process.
ASSUME ClientAssumption == \A c \in Clerk : Servers[c] # <<>>

\* A client reads from the node of its own process.
Home(c) == Servers[c][1]

ClientInit ==
    /\ ClerkInit
    /\ hashMap = [c \in Clerk |-> <<>>]
    /\ page = [c \in Clerk |-> <<>>]
-----------------------------------------------------------------------------
(* renderFrontPage *)

\* Faulty variants: every transaction is given an address; a known one keeps its
\* entry and so its score.
TxClientsAddressed(old, txs) ==
    [h \in DOMAIN old \cup ToSet(txs) |->
        IF h \notin ToSet(txs) THEN old[h]
        ELSE [score |-> 0, address |-> Contents(h).outs[1].addr]]

TxClientsKept(old, txs) ==
    [h \in DOMAIN old \cup ToSet(txs) |->
        IF h \in DOMAIN old THEN old[h]
        ELSE [score |-> 0, address |-> IF Contents(h).type \in {"POST", "COMMENT"}
                                       THEN Contents(h).outs[1].addr ELSE Nil]]

\* Every transaction of the chain gets a new entry, with its author's address if
\* it is a post or a comment.
TxClients(old, txs) ==
    [h \in DOMAIN old \cup ToSet(txs) |->
        IF h \notin ToSet(txs) THEN old[h]
        ELSE [score |-> 0, address |-> IF Contents(h).type \in {"POST", "COMMENT"}
                                       THEN Contents(h).outs[1].addr ELSE Nil]]

Upvotes(txs) == {h \in ToSet(txs) : Contents(h).type = "UPVOTE"}

CountUpvotes(entries, txs) ==
    LET count[i \in 0..Len(txs)] ==
            IF i = 0 THEN entries
            ELSE IF txs[i] \in Upvotes(txs)
            THEN [count[i - 1] EXCEPT ![Contents(txs[i]).parent].score = @ + 1]
            ELSE count[i - 1]
    IN  count[Len(txs)]

\* renderContent: a transaction, and under it the comments that name it.
renderContent(txs, h) ==
    LET comments(g) == SelectSeq(txs, LAMBDA t : /\ Contents(t).type = "COMMENT"
                                                 /\ Contents(t).parent = g)
        content[indent \in 0..Len(txs), g \in ToSet(txs)] ==
            LET below == comments(g)
            IN  <<<<g, indent>>>> \o FlattenSeq([i \in DOMAIN below |-> content[indent + 1, below[i]]])
    IN  content[0, h]

renderFrontPage(txs) ==
    LET posts == SelectSeq(txs, LAMBDA h : Contents(h).type = "POST")
    IN  FlattenSeq([i \in DOMAIN posts |-> renderContent(txs, posts[i])])
-----------------------------------------------------------------------------
(* Commands.  The reader waits for each to return. *)

AtPrompt(c) == clerk[c].todo = <<>> /\ clerk[c].pc = "idle"

\* "view".  An upvote of a transaction that hashMap does not hold dereferences nil.
QueryBlockchain(c) ==
    LET chain == node[Home(c)].Blockchain
        txs == FlattenSeq([i \in DOMAIN chain |-> blocks[chain[i]].txs])
        entries == TxClients(hashMap[c], txs)
    IN
    /\ AtPrompt(c)
    /\ IF \A h \in Upvotes(txs) : Contents(h).parent \in DOMAIN entries
       THEN /\ hashMap' = [hashMap EXCEPT ![c] = CountUpvotes(entries, txs)]
            /\ page' = [page EXCEPT ![c] = renderFrontPage(txs)]
            /\ UNCHANGED clerk
       ELSE /\ clerk' = [clerk EXCEPT ![c].pc = "panicked"]
            /\ UNCHANGED <<hashMap, page>>
    /\ UNCHANGED vars

\* "post", "comment" and "upvote".
Command(c, op) ==
    /\ AtPrompt(c)
    /\ op.type \in {"COMMENT", "UPVOTE"} => op.parent \in DOMAIN hashMap[c]
    /\ op.type = "UPVOTE" => op.dest = hashMap[c][op.parent].address
    /\ Invoke(c, op)
    /\ UNCHANGED <<hashMap, page>>

\* main calls MakeClerk when StartDRNode has returned, and never Kill; a panic of the
\* node ends the client with it.  The clerk knows one server, which its gossip tells
\* nothing.
ClientNext ==
    \/ /\ NodesNext
       /\ \A c \in Clerk : ~Kill(Home(c))
       /\ UNCHANGED <<clerk, hashMap, page>>
    \/ \E c \in {d \in Clerk : Serving(Home(d))} :
          \/ /\ MakeClerk(c) \/ QueryUtxo(c) \/ Call(c) \/ Reply(c)
             /\ UNCHANGED <<hashMap, page>>
          \/ QueryBlockchain(c)
          \/ \E op \in Ops[c] : Command(c, op)

ClientSpec == ClientInit /\ [][ClientNext]_allvars
-----------------------------------------------------------------------------
(* Properties *)

\* The posts and comments among transactions, and the upvotes of one of them.
Contributions(txs) == {h \in txs : Contents(h).type \in {"POST", "COMMENT"}}
Votes(txs, h) == {t \in txs : Contents(t).type = "UPVOTE" /\ Contents(t).parent = h}

\* What a client shows is the state of its node's main chain at one moment, now
\* or earlier: every post and comment up to there once, comments one step in from
\* what they are about, and as score the number of upvotes.  No later view, block
\* or operation, of this or of the other client, makes it show anything else.
FrontPageTrue ==
    \A c \in Clerk :
        \E i \in 0..Len(node[Home(c)].Blockchain) :
            LET txs == TxsOf(blocks, SubSeq(node[Home(c)].Blockchain, 1, i))
                indent(h) == {page[c][j][2] : j \in {k \in DOMAIN page[c] : page[c][k][1] = h}}
            IN  /\ Len(page[c]) = Cardinality(Contributions(txs))
                /\ \A h \in Contributions(txs) :
                      /\ Cardinality(indent(h)) = 1
                      /\ Contents(h).type = "COMMENT" =>
                            indent(h) = {d + 1 : d \in indent(Contents(h).parent)}
                      /\ hashMap[c][h].score = Cardinality(Votes(txs, h))

\* view never dereferences nil, and an upvote it offers an address for is one that
\* its node accepts, now and after any block that follows: the post or comment is
\* on the chain, with this author.
ParentsKnown ==
    \A c \in Clerk :
        /\ clerk[c].pc # "panicked"
        /\ \A h \in DOMAIN hashMap[c] : hashMap[c][h].address # Nil =>
              validParent([type |-> "UPVOTE", parent |-> h,
                           outs |-> <<[addr |-> hashMap[c][h].address]>>],
                          TxsOf(blocks, node[Home(c)].Blockchain))
=============================================================================
