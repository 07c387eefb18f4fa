# dreddit in TLA+

dreddit is a forum on a block chain: nodes keep a chain of blocks whose
transactions are posts, comments, upvotes and transfers of dkarma; clerks build
transactions and send them to nodes; terminal clients show the result. This
directory models all of these, and the simulated RPC network that comes with
them, model-checks them on small instances and proves the main results for
systems of any size.

Source paths below are relative to the repository (`src/node/miner.go` ...).

## The system

| part | state | operations |
|---|---|---|
| transactions (`node/transaction.go`, `miner.go` 752-825, 854-863) | none | `Hash`, `validateComponents`, `ValidateStructure`, `validateTransaction` |
| UTXO database (`node/utxodb.go`, `miner.go` 507-544) | hash to outputs with a `Spent` flag | `updateUtxoDb`, `GetUnspentTxs`/`GetUtxo` |
| Merkle root (`node/merkle.go`) | none | `BuildMerkleTreeStore` |
| blocks (`node/block.go`) | none | `GenerateBlock`, `ValidateBlock`, coinbases, proof of work |
| node (`node/miner.go`) | `Blockchain`, `SideChains`, `OrphanChains`, `Log`, `Utxo`, `PendingTxs`, `SeenTxs`, `numPending`, `servers`/`ports` | RPCs `AppendTx`, `SendBlock`, `GetBlockLog`, `GetBlockchain`, `GetUtxo`, `Gossip`, `Kill`; goroutines `mine`, `gossipProtocol`; `StartDRNode` |
| locks of a node (`miner.go`, `utxodb.go`) | `mu`, `bcmu`, `utxoMu`, `peermu` | taken by `mine` and the handlers |
| clerk (`clerk/clerk.go`) | key, servers that answered | `Transfer`, `Post`, `Comment`, `Upvote`, `QueryUtxo`, gossip |
| bad clerk (`clerk/bad_clerk.go`) | as a clerk | the same operations without the output to oneself |
| clients (`client/*.go`) | `hashMap`: score and author of what was seen | `view`, `post`, `comment`, `upvote` |
| `labrpc/labrpc.go` | ends, connections, servers, calls under way | `Call`, `MakeEnd`, `AddServer`, `DeleteServer`, `Connect`, `Enable`, `Reliable` |
| `tests/`, `util/pk_pairs.go` | | integration tests, key file |

How they interact. A clerk asks a node for its unspent outputs, builds and signs
a transaction of them and calls `AppendTx` on a node, and on the next one when
the connection breaks; the handler registers the
transaction, floods it to the peers with one goroutine per call and then polls
its status until `mine` or `SendBlock` has decided it. `mine` collects what is
pending once `numPending` reaches the threshold, validates it, searches a nonce
and sends the block to all peers, again with one goroutine per call. `SendBlock`
at a peer validates the block and either extends the chain or files the block as
a side chain or orphan. A node that starts asks the first peer that answers for
its `Log` and replays it through `SendBlock`. Peers learn of each other by
gossip, also from clerks. A client is a node, a clerk and a reader of commands in
one process. Nothing but its own test uses `labrpc`.

What is hard. Calls are delivered in any order or not at all, so children come
before parents and forks appear whenever two nodes mine at once; a block reaches
a node by three different pieces of code (mining, `SendBlock`, replay) that must
agree on the ledger; the status of a transaction is decided in one goroutine and
reported in another; counters are kept by three rules; nodes start, crash
(panic) and are killed at any time; a clerk does not know what became of a call
that broke; what it builds on may have been spent; the peer list is read without
its lock.
`PROJECT.json` lists each of these under "hazards" at its line, with the
properties that would notice it going wrong.

What makes each part correct:
- transactions and database: an output is spent once (the code keeps this between
  blocks, not inside one: run `double_spend`); the database follows from the
  chain; a wallet shows what the chain paid;
- Merkle root: as the protocol describes, and it fixes the transactions;
- blocks: what a miner produces, every node in the same position accepts;
- node: nodes with the same tip have the same chain and database, whether blocks were
  mined, received or replayed; the longest chain wins (it does not: run `forked`); a reported success is on the chain and stays there;
  every accepted call is answered; linked nodes come to know each other;
- locks: no data race, no deadlock, no work on a stale tip, no half-applied wallet;
- clerk: true means on the chain, false means not; money is moved and fees are
  paid exactly; nothing a user may do is refused; every operation returns;
- clients: the page is the chain at one moment;
- simulated network: a call is executed at most once, a reply of a deleted server
  is never delivered, a call fails only for a reason and always returns.

## Modules

| module | models | extends |
|---|---|---|
| `Merkle` | `merkle.go` | |
| `Transactions` | `transaction.go`, `utxodb.go`, validation and `updateUtxoDb` of `miner.go` | |
| `DRNode` | `block.go`; `SendBlock`, `mine`, `bootstrap` as operators on the record of one node | `Transactions`, `Merkle` |
| `Miner` | the network: start-up, replay, `AppendTx`, gossip, mining, delivery, `Kill` | `DRNode` |
| `Chain` | abstract: an append-only ledger that nodes extend with blocks that fit | |
| `AtomicNode` | abstract: one node whose handlers are single steps | |
| `MinerLocks` | one node's threads between any two lock operations | |
| `Clerk` | `clerk.go`, `bad_clerk.go`, composed with the nodes | `Miner` |
| `Client` | `client.go`, `client2.go`, composed with clerks and nodes | `Clerk` |
| `RPC` | abstract: an at-most-once remote call | |
| `LabRPC` | `labrpc.go` | |
| `MerkleRows` | the blocks a miner may make, and the tree of the protocol row by row | `Miner` |
| `MCMiner`, `MCClerk`, `MCClient`, `MCSolo` | instances for TLC; `MCSolo` is `MCMiner` with `MerkleRows` | |
| `MinerProofs`, `LedgerProofs`, `WalletProofs` | proofs | `Miner` |
| `ClerkProofs`, `ClientProofs` | proofs | `Clerk` and `WalletProofs`; `Client` and `ClerkProofs` |
| `LocksProofs`, `LabRPCProofs` | proofs | `MinerLocks`; `LabRPC` |
| `MerkleProofs` | proofs | `MerkleRows` and `LedgerProofs` |

**Names for hashes.** scrypt is taken to be free of collisions. A user
transaction is a member of `User` with its fields in `Body`; a coinbase is named
by exactly what `Hash` packs of it, address and value, so equal coinbases are
the same transaction, as in the code. A block is named by its place in
`blocks`, the sequence of all blocks ever mined; header hash, nonce and
timestamp are part of that naming, since every block in the model was mined. A
Merkle root is a tree of pairs.

**`DRNode`.** A node is a record with the fields of the Go struct. `PendingTxs`
and `SeenTxs` always have the same keys and are one map with the extra value
`"UNSEEN"`. `tree` holds the `SideChain` records that are reachable from
`SideChains` or `OrphanChains`; a record that no list refers to when the handler
returns is garbage and is left out. `panicked` stands for the end of the
process: a panic in an RPC handler or a goroutine is not recovered by `net/rpc`.
`SendBlock` is modelled to its end: `Extend` (lines 311-326), `Attach` (the two
searches through the trees), `Settle` (adoption of orphans, with the loop that
indexes past a shrinking list), `Reorganise` and `Heal` (the switch to a longer
chain).

**`Miner`.** `SendBlock`, the first section of `AppendTx`, each turn of its
polling loop and each turn of `mine` hold `node.mu` from beginning to end; what
they share with operations that do not take `mu` is read or written under
`bcmu`, `utxoMu` or `peermu`, so each is one action. `mine` releases `bcmu`
during the proof of work, but everything that writes the chain takes `mu` first,
so the tip it read is still the tip (`TipStillNew`); that the steps may be taken as
wholes is what `ImplementsAtomic` of `MinerLocks` shows. `StartDRNode` is split at
its network calls: `StartDRNode`, `Dial`, `GetBlockLog`, `replayLog` (one block a step) and
`Listen`. A message that is lost is one that is never handled; messages are sets
of `<<from, to, what>>`, so order is free. `Kill` happens at most once per node;
it closes the listener and the outgoing connections there are (`closed`), but calls on
open incoming connections are still served, as in Go, gossip among them: a killed
node may dial again, and floods transactions over what it dialled after `Kill`, and a call of `mine` that was under way
is the same as a `Mine` just before `Kill`. AppendTx and `mine` read `ports` and
`servers` without `peermu`: when a merge may be running (`Torn`), the step may
also crash the node. A second call with a transaction that was seen changes
nothing, so `Submit` leaves it out; `RecvTx` still consumes the message. `Crash`
is the end of the process at any moment, for the nodes in `Killable`; its peers
and clerks go on with the next server. `ClerkGossip` is a `Gossip` call with a
list of ports some clerk may have (`ClerkPorts`).

**`Chain`.** Blocks, and for each node a chain and a database. A node mines a
block that fits its chain and database, or takes over any block that does;
nothing else changes. `Fits` and `After` are constants of `Chain`; `Miner`
gives them the two validations and `updateAll`.

**`MinerLocks`.** Each thread has a label, and two tables say which label takes
or releases which lock. Between them the chain is its length and the database
counts what was applied of it, so that a block half applied can be told. What
`numPending` and the validations decide is free, since `Miner` is about that.
`Reads` and `Writes` list what the code at a label accesses; a race is two
threads at conflicting labels. `local` is what a turn or a call remembers, in
Go its local variables: the tip of `mine`, and how much of the database the answer
of a reader goes with (two entries for each block of a chain or a log).

**`AtomicNode`.** The height of a node, its decisions and the answers its readers
hold. A turn of `mine` is two steps, the choice of the transactions and the block;
nothing is taken in or decided between them, and its block is never too late.
`MinerLocks` implements it with the height read off the database
(`(utxo + 1) \div 2`): a block counts from the step that marks its transactions
as successes, and every answer, of `GetUtxo` too, is about a whole number of blocks.

**`Clerk`.** A clerk is a record: the servers that answered `MakeClerk`, the
operation under way, the server it talks to, the transaction it built and what
it returned. An operation is `Invoke`, `QueryUtxo` (which also builds, since
nothing is shared in between), `Call` and `Reply`; nodes and other clerks move
between any two. The wallet comes in any order, as from a Go map. Arithmetic is
modulo `UintMod`. The operations of `BadClerk` are the same with `BadOutputs`.
A clerk without servers panics at `servers[0]`. Replies to its gossip are sent
on a channel that was never made, so `Merge` has no action.

**`Client`.** `view` (`QueryBlockchain`) renews an entry of `hashMap` for every
transaction of the chain, counts upvotes and shows posts with the comments under
them; `comment` and `upvote` need an entry. Abbreviated hashes are taken to be
free of collisions. `client2.go` differs from `client.go` in its ports and in
that its node boots from the other's; both read the same keys, so in `clients`
the two share a wallet. `main` gives the clerk the node of its own process first
(`ClientAssumption`) and never calls `Kill`, so `ClientNext` has no `Kill` of
such a node.

**`LabRPC`.** A call is split at the places where `ProcessReq` takes the lock of
the network or waits: reading the configuration, dropping or delivering the
request, dispatch, the handler's return, receiving it, the periodic check and
the final one. The reading of the reliability flag at the start and its use at
the end are kept apart. Delays only reorder, which the interleaving does.
`late` and `disturbed` record history for the properties.

Bounds: `MaxBlocks` stops mining and `MaxOps` a clerk; the rest of `Miner` is
finite because each transaction is submitted to a node at most once and each node
starts once. `MaxLength` bounds the chain of `MinerLocks`.

## Runs

Times are for two workers.

| run | instance | states | checks |
|---|---|---|---|
| `pair` | 2 nodes, `post` and `move`, 3 blocks, n1 may be killed or end | 0.65 M, 120 s | `TypeOK`, `TipDeterminesLedger`, `ExtendingBlockAccepted`, `SuccessOnChain`, `DecisionStands`, `ImplementsChain` |
| `solo` | 1 node, 5 transactions, 4 blocks, fair | 0.12 M, 180 s | `NeverSpentLater`, `PanicsOnConflict`, `PendingCounted`, `WalletFromChain`, `Answered`; of the blocks mined and all of up to 5 transactions, against lists of up to 6: `RootFollowsProtocol`, `RootFixesTxs` |
| `gossip` | 4 nodes, each started through the one before, n2 may be killed or end, a clerk that knows n1 and n4, fair | 4413, 13 s | `GossipConnects` |
| `locks` | `mine` and a handler of each kind, chain up to 2, fair | 74 K, 50 s | `LocksOK`, `NoRace`, `TipStillNew`, `WalletUpToDate`, `HoldersAdvance`, `ImplementsAtomic`, `HandlersReturn`, no deadlock |
| `lone_clerk` | 1 clerk, 1 node, 3 of 6 operations in a row, fair | 3424, 75 s | `FeesPaid`, `OwnWalletServed`, `ThreadsWellFormed`, `OperationReturns` |
| `failover` | 1 clerk, 2 nodes, 2 of 3 operations, n1 may be killed or end | 0.13 M, 45 s | `ClerkTypeOK`, `TrueMeansOnChain`, `ThreadsWellFormed`, `WalletFromChain` |
| `clients` | 2 clients with their nodes, a command each, 3 blocks, any number of views | 0.1 M, 90 s | `FrontPageTrue`, `ParentsKnown` |
| `lab_rpc` | 2 calls, 1 end, 1 name, 2 servers, fair | 0.17 M, 40 s | `TypeOK`, `CountExact`, `NoLateReply`, `FailsOnlyIfDisturbed`, `AtMostOnce`, `CallReturns`, no deadlock |

Blocks are counted with the genesis block. The threshold is one, as in the
repository's tests. `move` spends an output of `post`, so a node that has not
accepted the block of `post` rejects `move`, and the two can be mined in one
block only in separate turns. Three blocks in `pair` give forks of equal height,
children before parents, and replay after a drop. A fork that outgrows the main
chain needs a fourth block, which two nodes that also start, stop and gossip put
out of TLC's reach; run `forked` reaches it with two nodes that are connected from
the start, and the theorems bound nothing. In `solo`, `post` and `rival` compete
for one of several outputs of an entry, `move` and `again` for the only output of
theirs, both depend on `post`, and `spend` spends a reward, which brings about the
repeated coinbase. No instance sends a transaction with a wrong signature: it is
refused like one whose input does not exist. The blocks of the two Merkle
properties are made of `post` and `move` in any order and number up to four; with
the coinbase they go past a power of two on both sides, and the lists they are
compared with include those that repeat their end. The same two properties say the
like of the blocks the node alone mines, and so are part of its run. Three operations in `lone_clerk` let the second and the
third spend what the one before left, in wallets of up to three outputs; one
of the six pays the wrong author. `failover` has an upvote of `BadClerk`. In the clerk runs `User` is
every transaction some sequence of the operations can build (`MCClerk`), so no
transaction a clerk makes is missing. `failover` and `retry` start with both
nodes up and alone, `clients` and `starved` with both connected, states that
start-up and gossip lead to; start-up itself is what `pair` explores. In `locks`
one handler of each kind is enough to hold any lock against any other, and a
block after the genesis block lets a receiver overtake `mine`. Two calls in
`lab_rpc` share an end and may meet different servers under one name; further
names add connections that lead elsewhere, which the theorems cover.

Deadlock checking is off where the instances end: there are finitely many
transactions, blocks and operations. It is on in `locks` and `lab_rpc`, whose
systems never stop.

*Fairness*. `solo`: `mine` and the `AppendTx` handlers are loops with a sleep in
goroutines of their own, and every lock they take is released after a bounded
section, so each is executed again and again: weak fairness of `Flood`, `Poll`
and `Mine`. For `Mine` it is written out as "infinitely often not possible, or
taken infinitely often", which is the same formula and cheaper for TLC. Nothing
is assumed about clerks, start-up, delivery, gossip or `Kill`. `lone_clerk` adds
the clerk's own loops, which wait for nothing but a reply; a user need not ask
for anything. `starved` adds to the nodes' fairness that a call to a node that
serves is handled: the violation remains though nothing is lost. `gossip`: the
timer of `gossipProtocol` is always reset and each turn calls every peer, so each
call that can change something is made again and again (weak fairness), and
`StartDRNode` goes on once begun; nobody must start a node. `lab_rpc`: the
goroutine of `ProcessReq` is scheduled; handlers need not return. `locks`: every
thread between two lock operations is scheduled, and `mine`, a `SendBlock` or a
query that waits for a lock gets it eventually (strong fairness of `Acquire`):
Go's mutexes hand themselves to a waiter that has starved for a millisecond, and
every loop that retakes a lock sleeps first. The other handlers need not be
lucky, and nobody must begin a call.

Runs in which the code does otherwise than its comments say (each is a finding
in `PROJECT.json`):

| run | comment | what happens |
|---|---|---|
| `double_spend` | `miner.go:683` "remember to validate against the entire blockchain PLUS all transactions currently in txNodes!" | two pending transactions spend one output, both enter a block and both are reported true; if the entry has no other output, the node panics instead, where `miner.go:528` says "This shouldn't happen" |
| `forked` | `miner.go:394` "now that the block has been added to the system, we need to see if the main chain has changed", and the comments at 50-51 and 160-161 | blocks off the main chain are stored nowhere, so a node that receives a longer chain, in order, stays on its own |
| `starved` | `miner.go:674` "Check if we have enough pending transactions to make a block" | a block with a transaction the node had not seen takes `numPending` below zero; the transaction then waits for ever |
| `retry` | `miner.go:93` "whether or not the request was successful" | a transaction the node has seen is answered false, and mined |

Other places where the code is not what its comments lead one to expect are
stated as what it does, or as a named exception of a property that holds:
- equal coinbases overwrite each other in the database, so a wallet can be a
  reward short (exception of `WalletFromChain` and `NeverSpentLater`);
- rejected transactions stay counted in `numPending`, so a node may mine blocks of
  the coinbase alone (`PendingCounted` is an inequality);
- a rejected transaction stays in `SeenTxs` and is refused when it is sent again
  after it has become valid (`DecisionStands`);
- "any utxo will do" (`clerk.go:257`) fails for an output below the fee, which a
  transfer of all but the fee leaves (exception of `OwnWalletServed`);
- `mine`, `AppendTx`, `Kill` and `GetPeerSize` read the peer list without its lock
  (exception of `NoRace`, which has the first two; the crash it can cause is `Torn` in
  `Miner`);
- the clerk's channel of gossip replies is never made, so it never learns of a
  node (`Merge` has no action);
- `Log` is assigned before it is replayed (`miner.go:162`), so each join doubles
  the log, and a node that joins through a joined node may accept a block its peer
  dropped; the ledgers stay consistent (`ImplementsChain`, `TipDeterminesLedger`).

## Proofs

All theorems are about specifications with arbitrary constants: any nodes, keys,
transactions, boot lists, thresholds, clerks, handlers, calls and servers.
Assumptions: `BodyAssumption` (clerks make no coinbases and name outputs that
exist; inputs and outputs are lists of what the Go structs hold),
`HashAssumption` (`User` is finite and distinct transactions have distinct
hashes), `UintAssumption` (a block with all user transactions has a reward below
the modulus), `NodeAssumption` and `ClerkAssumption` (types), `ClientAssumption`
(a client's clerk is given a node), `ThreadAssumption` (the kinds of thread are
disjoint), `CallsAssumption` and `NilAssumption` (finitely many calls, and no
name, server or end is `Nil`), `BoundAssumption` (how long the lists of transactions
are: numbers, of any size). TLC evaluates them in every run that has the
constants.

| theorem | states | argument |
|---|---|---|
| `MinerProofs!TypeCorrect` | `[]TypeOK` | from `Shape` |
| `SuccessIsFinal` | `[]SuccessOnChain` | inductive relative to `Shape /\ Fresh` |
| `LedgerDetermined` | `[]TipDeterminesLedger` | from `Ledgered` |
| `ExtensionAccepted` | `[]ExtendingBlockAccepted` | from `Ledgered` |
| `Implements` | `ImplementsChain` | refinement, from `Ledgered` and `StepMoves` |
| `DecisionsStand` | `DecisionStands` | from `Fresh`, action by action: `AppendTx` touches only what is unseen, `mine` rejects only what is pending |
| `AloneCounted` | `NoPeers => []PendingCounted` | inductive with `Alone`, by counting the waiting |
| `NoLaterSpend`, `WalletTraced` | `[]NeverSpentLater`, `[]WalletFromChain` | from `Traced` |
| `ClerksUseNodes` | `ClerkSpec => Spec` | every step of a clerk is a step of `Miner` |
| `TrueIsTrue` | `[]TrueMeansOnChain` | from `SuccessIsFinal` through `ClerksUseNodes` |
| `ThreadsFollow` | `[]ThreadsWellFormed` | from what `validateBlockTxs` checks of a block that is appended |
| `ClerkTypeCorrect` | `[]Hashed => []ClerkTypeOK` | inductive |
| `ClientsAreClerks` | `ClientSpec => ClerkSpec` | every step of a client is a step of its clerk or none, as `view` never panics |
| `ViewIsSound` | `[]ParentsKnown` | from `Sound` |
| `RootIsProtocol` | `[]RootFollowsProtocol` | from `Rooted` and `RootIsTop`: the array holds the rows of the protocol |
| `SameRoot`, `RootIsBinding` | `[]RootFixesTxs` | from `Rooted` and `SameTop`: equal roots have equal rows, down to the leaves |
| `LocksHeld` | `[]LocksOK` | inductive |
| `RaceFree` | `[]NoRace` | from `LocksOK`: conflicting labels share a lock |
| `NoCircle` | `[]HoldersAdvance` | from `LocksOK`: the owner of the highest lock taken |
| `WorkNotWasted`, `WalletFollowsChain` | `[]TipStillNew`, `[]WalletUpToDate` | inductive relative to `LocksOK` |
| `Atomic` | `ImplementsAtomic` | refinement, from `LocksOK`, `TipOK` and `WalletOK` |
| `LabRPCProofs!TypeCorrect`, `NeverLate`, `FailuresExplained` | `[]TypeOK`, `[]NoLateReply`, `[]FailsOnlyIfDisturbed` | one inductive invariant |
| `Refinement` | `AtMostOnce` | from that invariant |
| `CountsExactly` | `[]CountExact` | its step adds one call to one set |

*`Shape == TypeOK /\ ForkStoresEmpty`* is inductive, and neither half is alone. That
the stores are empty is no promise of the code but the defect run `forked` shows;
the proofs have to know it, and would have to be made anew with its repair:
`Reorganise` would put a nil block into a chain, which breaks the types, and
only the empty stores exclude it. The key lemmas show that at a node with empty
stores a block whose parent is not the tip makes a side chain that is not longer
than the main chain (`NewSideChainShort`), so `OffMainChain` gives back the node
it got (`OffMainChainDrops`); hence `SendBlock` logs and drops, or accepts
(`SendBlockCases`).

*`Fresh`* says a node that was not started is as `bootstrap` makes it, so that
starting does not shorten a chain.

*`Ledgered`* is the strengthening for the properties of ledgers. `TipDeterminesLedger` is not
inductive: after a step, two nodes may agree on a tip they reached from parents
about which nothing is known. `Ledgered` says there is one function L from
blocks to chains and databases such that L at a block is L at its parent
extended by the block, every block passes both validations at L of its parent,
and every node is at L of its tip. `MinedBlockValid` supplies the second part
when a block is mined: what `mine` checks of its selection, the coinbase it adds
and the Merkle root it computes satisfy `ValidateBlock` and `validateBlockTxs`.
The witness for the next state is L itself, or L with the new block's entry.

*`Implements`.* The chain of a node moves only when `StepMoves` says it appends a
block, mined or received; `Ledgered` supplies that the block fits the node's
chain and database, which is what a step of `Chain` demands.

*`Traced`* relates a node to the history of its chain, the list of its blocks'
transactions: every input on the chain names an output that was made before it and
not spent since (`SpendsPaid`), and, unless the node panicked, the database holds
an output as unspent exactly if it was made and not spent since (`FromChain`).
`NeverSpentLater` alone is not inductive, since without the database nothing says what
the next block may spend, and `WalletFromChain` alone is not, since it says
nothing of transactions that are on the chain twice. The two loops of
`updateUtxoDb` and the loop over a block are recursive functions; `SpendInputs`,
`AddOutputs` and `UpdateAll` state exactly what they leave in the database, proved
turn by turn along `0..n` (`UpTo`: a set of numbers up to n that holds 0 and with
every k < n also k + 1 holds them all, by a least counterexample). A block whose
transactions `updateAll` does not complete panics the node, and then nothing is
claimed of its database.

*`AloneCounted`* assumes `NoPeers`, constants that give no node a server to
dial and no clerk two servers to tell each other of; this is the instance `solo`
checks. Then no block or transaction ever comes from outside (`Alone`), and every
change to `PendingTxs` is matched by one to `numPending`. With peers it is false,
as `starved` shows.

*`TrueIsTrue`.* A clerk's answer true is the value of a `handler` at one of its
servers, which by `SuccessOnChain` is recorded only for a transaction on that
server's chain; the chain only grows (`StepMoves`), so the answer stays
true through every later failover and block.

*`ThreadsFollow`.* A block enters a chain only past `validateBlockTxs`, which finds
parents on the chain so far; earlier places of a chain are never changed. It holds
of transactions of a `BadClerk` too.

*`ClerkTypeCorrect`* is about a state in which a clerk has sent something that
`User` holds. `User` is finite and a parameter, so the theorem supposes `Hashed`:
`User` holds what a clerk that is about to build may build. `lone_clerk` and
`failover` choose `User` so that this is true.

*Clients.* `Sound` adds to the invariants of nodes, threads and clerks that a
client's node is not killed, that its clerk has dialled it or is about to, and
that every entry of `hashMap` is about a transaction on the chain, with the right
author if it is a post or a comment. Its parts need each other: `view` finds the
parent of every upvote because threads are well formed, so it does not panic, so
the client's steps are those of a clerk, so its node's steps keep threads well
formed. `Flattened` and `VotesCounted` say what the two loops of `view` compute.
`page` is not part of it.

*Locks.* `LocksOK` ties the owner of every lock to the labels of all threads
(`Held`), which makes it inductive. What `TipStillNew` needs besides is that
between reading the tip and appending `mine` holds `mu`, and that every label
that writes the chain is under `mu` (`TipOK`); what `WalletUpToDate` needs is how
much of the last block was applied at each label (`WalletOK`). `Atomic` needs all
three: whoever holds `mu` shuts `mine` out of its turn (`NotInTurn`), a reader's
lock keeps out whoever has a block half applied (`NotBehind`), and so the database
says the height (`Height`); only six kinds of step then change what is seen.

*Decisions.* `DecisionStands` is an action property of one node at a time. A block
changes a status only to success (`ConfirmedStands`), and `StartDRNode`, which
forgets every status, is taken only by a node that has none (`Fresh`).

*Merkle root.* `BuildMerkleTreeStore` puts the rows of the protocol one after the
other into its array (`HoldsAbove`), each half as long as the power of two before, so
that its last place is the top row (`RootIsTop`). Two lists with one root have the
same rows from the top down: a pair of trees fixes the two trees it is made of, and a
leaf is no pair, so both have the same height (`AgreeBelow`, `SameTop`). What is left
is how often the end of the list is repeated, and the one coinbase of a block, in its
last place, tells (`SameTxs`); `Rooted`, an invariant that follows from `StepMoves`, says
that every block mined is such a list with its root. Nothing is assumed of the hash but that it is a constructor of
trees. The recursive functions of `Merkle` are shown to exist row by row and cell by
cell (`RowsExist`, `CellsExist`), the induction being `UpTo` again.

*Simulated network.* The strengthening relates each call's place in `ProcessReq`
to its handler and to the history: a call that has read its server is disturbed as
soon as the server is not what its end leads to, so the last check can fail only
for disturbed calls and never passes for late ones.

Only model-checked: `PanicsOnConflict`, and `Answered`, `GossipConnects`, `HandlersReturn`,
`OperationReturns`, `CallReturns` (liveness under fairness is beyond the prover).
`FeesPaid` and `OwnWalletServed` are statements about the users of one instance and
not true of all: a `BadClerk` pays what it likes, a transfer to a miner leaves the
money that is counted, and users with a shared wallet refuse each other; they are
about sums over sets besides, a recursion that no theorem here reaches. For any clerks
nodes bound the money not at all: they add the fee to the inputs, and sums wrap.
`FrontPageTrue` is a recursion over trees, and holds as long as no user transaction
is on a chain twice, which takes an output of a coinbase that an equal coinbase made
again and is beyond the bounds of `clients`. No module uses `RECURSIVE`.

## Not modelled

`GetPeerSize` (no state change); the byte layout of packed transactions and
headers, scrypt and ECDSA themselves and the nonce search; a second `Kill` of the
same node and restarts of a node under the same port; collisions of abbreviated
hashes in the clients and the drawing of their page; argument encoding and
reflection in `labrpc`, and the length of its delays; key files
(`util/pk_pairs.go`, pure input); the integration tests, which were used as a
source of expectations and bounds. Sums that wrap are modelled but reached only
through a post from an output of value zero, in `lone_clerk`. Goroutines blocked for
ever on the nil channels are left out: they hold nothing.

## Plan

Done: the nodes with their ledger and its refinement of `Chain`, the Merkle root, the
locks and their refinement of `AtomicNode`, gossip, clerks, clients and the simulated
network, with the proofs above.

Left: `FrontPageTrue` for any commands, with the exception that a transaction is on the
chain twice, and `OwnWalletServed` for any number of users who do not share a wallet,
which need lemmas about trees and about sums over sets. A handler of `AppendTx` on a
connection that outlives `Kill` polls for ever; `Answered` excepts it, and nothing in
the code says what should become of it.
