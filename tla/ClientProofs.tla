---------------------------- MODULE ClientProofs ----------------------------
(***************************************************************************)
(* Terminal clients are clerks: what is proved of clerks and nodes holds   *)
(* for the two programs, view never panics, and what it offers can be      *)
(* upvoted.  For any clients, keys, commands and bounds.                   *)
(***************************************************************************)
EXTENDS Client, ClerkProofs

\* f holds the value of a loop after each of n turns; it begins with v.
LoopOf(n, V, v, G, f) ==
    f \in [0..n -> V] /\ f[0] = v /\ \A i \in 1..n : f[i] = G[i][f[i - 1]]

\* There is such a value, when a turn maps a set of values to itself.
LEMMA Turns ==
    ASSUME NEW n \in Nat, NEW V, NEW v \in V, NEW G \in [1..n -> [V -> V]]
    PROVE  \E f : LoopOf(n, V, v, G, f)
<1> DEFINE Loops(k) == \E f \in [0..k -> V] : f[0] = v /\ \A i \in 1..k : f[i] = G[i][f[i - 1]]
           T == {k \in 0..n : Loops(k)}
<1>1. 0 \in T
  <2>1. PICK f : f = [i \in 0..0 |-> v]
    OBVIOUS
  <2>2. f \in [0..0 -> V] /\ f[0] = v /\ 1..0 = {}
    BY <2>1
  <2>3. Loops(0)
    BY <2>2
  <2> QED
    BY <2>3
<1>2. ASSUME NEW k \in 0..(n - 1), k \in T PROVE k + 1 \in T
  <2>1. PICK f \in [0..k -> V] : f[0] = v /\ \A i \in 1..k : f[i] = G[i][f[i - 1]]
    BY <1>2
  <2>2. PICK w : w = G[k + 1][f[k]]
    OBVIOUS
  <2>3. w \in V
    <3>1. k + 1 \in 1..n /\ f[k] \in V
      BY <2>1
    <3> QED
      BY <2>2, <3>1
  <2>4. PICK g : g = [i \in 0..(k + 1) |-> IF i = k + 1 THEN w ELSE f[i]]
    OBVIOUS
  <2>5. g \in [0..(k + 1) -> V] /\ g[0] = v
    BY <2>1, <2>3, <2>4
  <2>6. ASSUME NEW i \in 1..(k + 1) PROVE g[i] = G[i][g[i - 1]]
    <3>1. CASE i = k + 1
      <4>1. g[i] = w /\ g[i - 1] = f[k]
        BY <2>4, <3>1
      <4> QED
        BY <2>2, <3>1, <4>1
    <3>2. CASE i # k + 1
      <4>1. i \in 1..k /\ g[i] = f[i] /\ g[i - 1] = f[i - 1]
        BY <2>4, <3>2
      <4> QED
        BY <2>1, <4>1
    <3> QED
      BY <3>1, <3>2
  <2>7. Loops(k + 1)
    BY <2>5, <2>6
  <2> HIDE DEF Loops
  <2> QED
    BY <1>2, <2>7
<1>3. T \in SUBSET (0..n)
  OBVIOUS
<1> HIDE DEF T
<1>4. \A k \in 0..n : k \in T
  BY <1>1, <1>2, <1>3, UpTo
<1>5. Loops(n)
  <2> HIDE DEF Loops
  <2> QED
    BY <1>4 DEF T
<1> QED
  BY <1>5, Zenon DEF LoopOf

\* Two lists, one after the other, hold what either holds.
LEMMA Concatenated ==
    ASSUME NEW S, NEW s \in Seq(S), NEW t \in Seq(S)
    PROVE  s \o t \in Seq(S) /\ \A x : x \in ToSet(s \o t) <=> x \in ToSet(s) \/ x \in ToSet(t)
<1>1. PICK u : u = s \o t
  OBVIOUS
<1>2. /\ u \in Seq(S) /\ Len(u) = Len(s) + Len(t) /\ Len(s) \in Nat /\ Len(t) \in Nat
      /\ DOMAIN u = 1..(Len(s) + Len(t)) /\ DOMAIN s = 1..Len(s) /\ DOMAIN t = 1..Len(t)
  BY <1>1
<1>3. /\ \A i \in 1..Len(s) : u[i] = s[i]
      /\ \A i \in 1..Len(t) : u[Len(s) + i] = t[i]
      /\ \A i \in (Len(s) + 1)..(Len(s) + Len(t)) : u[i] = t[i - Len(s)]
  BY <1>1, <1>2
<1>4. ASSUME NEW x, x \in ToSet(u) PROVE x \in ToSet(s) \/ x \in ToSet(t)
  <2>1. PICK i \in 1..(Len(s) + Len(t)) : u[i] = x
    BY <1>2, <1>4 DEF ToSet
  <2>2. CASE i \in 1..Len(s)
    BY <1>2, <1>3, <2>1, <2>2 DEF ToSet
  <2>3. CASE i \notin 1..Len(s)
    <3>1. i \in (Len(s) + 1)..(Len(s) + Len(t)) /\ i - Len(s) \in 1..Len(t)
      BY <1>2, <2>1, <2>3
    <3> QED
      BY <1>2, <1>3, <2>1, <3>1 DEF ToSet
  <2> QED
    BY <2>2, <2>3
<1>5. ASSUME NEW x, x \in ToSet(s) PROVE x \in ToSet(u)
  <2>1. PICK i \in 1..Len(s) : s[i] = x
    BY <1>2, <1>5 DEF ToSet
  <2>2. i \in DOMAIN u
    BY <1>2, <2>1
  <2> QED
    BY <1>3, <2>1, <2>2 DEF ToSet
<1>6. ASSUME NEW x, x \in ToSet(t) PROVE x \in ToSet(u)
  <2>1. PICK i \in 1..Len(t) : t[i] = x
    BY <1>2, <1>6 DEF ToSet
  <2>2. Len(s) + i \in DOMAIN u
    BY <1>2, <2>1
  <2> QED
    BY <1>3, <2>1, <2>2 DEF ToSet
<1> QED
  BY <1>1, <1>2, <1>4, <1>5, <1>6

\* FlattenSeq keeps every element of the lists it is given, and adds none.
LEMMA Flattened ==
    ASSUME NEW S, NEW seqs \in Seq(Seq(S))
    PROVE  /\ FlattenSeq(seqs) \in Seq(S)
           /\ \A x : x \in ToSet(FlattenSeq(seqs)) <=> \E i \in 1..Len(seqs) : x \in ToSet(seqs[i])
<1> DEFINE n == Len(seqs)
           V == Seq(S)
<1>1. n \in Nat /\ \A i \in 1..n : seqs[i] \in V
  OBVIOUS
<1>2. CASE n = 0
  <2>1. FlattenSeq(seqs) = seqs
    BY <1>2 DEF FlattenSeq
  <2>2. seqs = <<>>
    BY <1>2
  <2>3. <<>> \in Seq(S) /\ \A x : x \notin ToSet(<<>>)
    BY DEF ToSet
  <2> QED
    BY <1>2, <2>1, <2>2, <2>3
<1>3. CASE n # 0
  <2>1. PICK G : G = [i \in 1..n |-> [s \in V |-> s \o seqs[i]]]
    OBVIOUS
  <2>2. G \in [1..n -> [V -> V]] /\ <<>> \in V
    <3>1. \A i \in 1..n : \A s \in V : s \o seqs[i] \in V
      BY <1>1, Concatenated
    <3> HIDE DEF V, n
    <3>2. \A i \in 1..n : [s \in V |-> s \o seqs[i]] \in [V -> V]
      BY <3>1
    <3> QED
      BY <2>1, <3>2 DEF V
  <2>3. PICK f \in [0..n -> V] : f[0] = <<>> /\ \A i \in 1..n : f[i] = G[i][f[i - 1]]
    <3>1. n \in Nat
      BY <1>1
    <3> HIDE DEF V, n
    <3>2. \E f : LoopOf(n, V, <<>>, G, f)
      BY <2>2, <3>1, Turns
    <3> QED
      BY <3>2 DEF LoopOf
  <2>4. ASSUME NEW i \in 1..n PROVE f[i] = f[i - 1] \o seqs[i] /\ f[i - 1] \in V
    <3>1. i - 1 \in 0..n
      BY <1>1
    <3> HIDE DEF V, n
    <3> QED
      BY <2>1, <2>3, <3>1
  <2>5. f[1] = seqs[1]
    <3>1. 1 \in 1..n /\ 1 - 1 = 0 /\ seqs[1] \in V
      BY <1>1, <1>3
    <3>2. f[1] = <<>> \o seqs[1]
      BY <2>3, <2>4, <3>1
    <3> QED
      BY <3>1, <3>2
  <2>6. PICK g : g = [i \in 1..n |-> f[i]]
    OBVIOUS
  <2>7. g = [i \in 1..n |-> IF i = 1 THEN seqs[i] ELSE g[i - 1] \o seqs[i]]
    <3>1. ASSUME NEW i \in 1..n PROVE g[i] = IF i = 1 THEN seqs[i] ELSE g[i - 1] \o seqs[i]
      <4>1. i # 1 => i - 1 \in 1..n
        BY <1>1
      <4> HIDE DEF n
      <4> QED
        BY <2>4, <2>5, <2>6, <4>1
    <3>2. g = [i \in 1..n |-> g[i]]
      BY <2>6
    <3> QED
      BY <3>1, <3>2, Zenon
  <2>8. PICK flat : /\ flat = [i \in 1..n |-> IF i = 1 THEN seqs[i] ELSE flat[i - 1] \o seqs[i]]
                    /\ FlattenSeq(seqs) = flat[n]
    BY <1>3, <2>7, Zenon DEF FlattenSeq
  <2> DEFINE Whole(k) == /\ flat[k] \in V
                         /\ \A x : x \in ToSet(flat[k]) <=> \E i \in 1..k : x \in ToSet(seqs[i])
             T == {k \in 0..n : k = 0 \/ Whole(k)}
  <2>9. ASSUME NEW k \in 0..(n - 1), k \in T PROVE k + 1 \in T
    <3>1. k + 1 \in 0..n /\ k + 1 \in 1..n
      BY <1>1
    <3>2. CASE k = 0
      <4>1. flat[1] = seqs[1] /\ seqs[1] \in V
        BY <1>1, <2>8, <3>1, <3>2
      <4>2. \A i \in 1..1 : i = 1
        OBVIOUS
      <4>3. Whole(1)
        BY <4>1, <4>2
      <4> QED
        BY <3>1, <3>2, <4>3
    <3>3. CASE k # 0
      <4>1. Whole(k) /\ k \in 1..n
        BY <1>1, <2>9, <3>3
      <4>2. PICK s, t : s = flat[k] /\ t = seqs[k + 1]
        OBVIOUS
      <4>3. flat[k + 1] = s \o t /\ s \in Seq(S) /\ t \in Seq(S)
        <5>1. k + 1 # 1 /\ (k + 1) - 1 = k
          BY <3>3
        <5>2. flat[k + 1] = flat[(k + 1) - 1] \o seqs[k + 1]
          BY <2>8, <3>1, <5>1
        <5> QED
          BY <1>1, <3>1, <4>1, <4>2, <5>1, <5>2
      <4>4. flat[k + 1] \in V /\ \A x : x \in ToSet(flat[k + 1]) <=> x \in ToSet(s) \/ x \in ToSet(t)
        BY <4>3, Concatenated
      <4>5. 1..(k + 1) = 1..k \cup {k + 1}
        BY <4>1
      <4>6. \A x : x \in ToSet(flat[k + 1]) <=> \E i \in 1..(k + 1) : x \in ToSet(seqs[i])
        BY <4>1, <4>2, <4>4, <4>5
      <4>7. Whole(k + 1)
        BY <4>4, <4>6
      <4> HIDE DEF Whole
      <4> QED
        BY <3>1, <4>7
    <3> QED
      BY <3>2, <3>3
  <2>10. 0 \in T /\ T \in SUBSET (0..n)
    BY <1>1
  <2> HIDE DEF T
  <2>11. \A k \in 0..n : k \in T
    BY <1>1, <2>9, <2>10, UpTo
  <2>12. Whole(n)
    <3> HIDE DEF Whole
    <3> QED
      BY <1>1, <1>3, <2>11 DEF T
  <2> QED
    BY <2>8, <2>12
<1> QED
  BY <1>2, <1>3

\* Entries for the transactions H with the addresses that entries has.
Entries(H, A, entries) ==
    {m \in [H -> [score : Nat, address : A]] : \A h \in H : m[h].address = entries[h].address}

\* A vote is counted.
LEMMA CountTurn ==
    ASSUME NEW H, NEW A, NEW entries, NEW m \in Entries(H, A, entries), NEW h
    PROVE  [m EXCEPT ![h].score = @ + 1] \in Entries(H, A, entries)
<1>1. PICK new : new = [m EXCEPT ![h].score = @ + 1]
  OBVIOUS
<1>2. m \in [H -> [score : Nat, address : A]] /\ \A g \in H : m[g].address = entries[g].address
  BY DEF Entries
<1>3. CASE h \notin H
  <2>1. new = m
    BY <1>1, <1>2, <1>3
  <2> QED
    BY <1>1, <2>1
<1>4. CASE h \in H
  <2>1. PICK e : e = [m[h] EXCEPT !.score = @ + 1]
    OBVIOUS
  <2>2. m[h] \in [score : Nat, address : A]
    BY <1>2, <1>4
  <2>3. e \in [score : Nat, address : A] /\ e.address = m[h].address
    BY <2>1, <2>2
  <2>4. new = [m EXCEPT ![h] = e]
    BY <1>1, <2>1
  <2>5. new \in [H -> [score : Nat, address : A]]
        /\ \A g \in H : new[g] = IF g = h THEN e ELSE m[g]
    BY <1>2, <1>4, <2>3, <2>4
  <2>6. \A g \in H : new[g].address = m[g].address
    BY <2>3, <2>5
  <2> QED
    BY <1>1, <1>2, <2>5, <2>6 DEF Entries
<1> QED
  BY <1>3, <1>4

\* The loop that counts upvotes changes scores only.
LEMMA VotesCounted ==
    ASSUME NEW H, NEW A, NEW entries \in [H -> [score : Nat, address : A]],
           NEW S, NEW txs \in Seq(S)
    PROVE  CountUpvotes(entries, txs) \in Entries(H, A, entries)
<1> DEFINE n == Len(txs)
           V == Entries(H, A, entries)
           vote(m, i) == [m EXCEPT ![Contents(txs[i]).parent].score = @ + 1]
           turn(m, i) == IF txs[i] \in Upvotes(txs) THEN vote(m, i) ELSE m
<1>1. n \in Nat /\ entries \in V
  BY DEF Entries
<1>2. \A m \in V : \A i : turn(m, i) \in V
  BY CountTurn
<1>3. PICK G : G = [i \in 1..n |-> [m \in V |-> turn(m, i)]]
  OBVIOUS
<1>4. G \in [1..n -> [V -> V]]
  <2> HIDE DEF V, n, turn
  <2>1. \A i \in 1..n : [m \in V |-> turn(m, i)] \in [V -> V]
    BY <1>2
  <2> QED
    BY <1>3, <2>1
<1>5. PICK f : LoopOf(n, V, entries, G, f)
  <2>1. n \in Nat
    BY <1>1
  <2> HIDE DEF V, n
  <2> QED
    BY <1>1, <1>4, <2>1, Turns
<1>6. ASSUME NEW i \in 0..n PROVE f[i] = IF i = 0 THEN entries ELSE turn(f[i - 1], i)
  <2>1. f \in [0..n -> V] /\ f[0] = entries /\ \A j \in 1..n : f[j] = G[j][f[j - 1]]
    BY <1>5 DEF LoopOf
  <2>2. i # 0 => i \in 1..n /\ i - 1 \in 0..n
    BY <1>1
  <2> HIDE DEF V, n, turn
  <2> QED
    BY <1>3, <2>1, <2>2
<1>7. f = [i \in 0..n |-> IF i = 0 THEN entries ELSE turn(f[i - 1], i)]
  <2>1. f = [i \in 0..n |-> f[i]]
    BY <1>5 DEF LoopOf
  <2> HIDE DEF turn
  <2> QED
    BY <1>6, <2>1, Zenon
<1>8. PICK count : /\ count = [i \in 0..n |-> IF i = 0 THEN entries ELSE turn(count[i - 1], i)]
                   /\ CountUpvotes(entries, txs) = count[n]
  BY <1>7, Zenon DEF CountUpvotes
<1> DEFINE T == {k \in 0..n : count[k] \in V}
<1> HIDE DEF V, n, turn
<1>9. count[0] = entries /\ \A k \in 1..n : count[k] = turn(count[k - 1], k)
  <2>1. 0 \in 0..n
    BY <1>1
  <2> QED
    BY <1>1, <1>8, <2>1
<1>10. 0 \in T /\ T \in SUBSET (0..n)
  BY <1>1, <1>9
<1>11. ASSUME NEW k \in 0..(n - 1), k \in T PROVE k + 1 \in T
  <2>1. k + 1 \in 1..n /\ (k + 1) - 1 = k
    BY <1>1
  <2>2. count[k + 1] = turn(count[k], k + 1)
    BY <1>9, <2>1
  <2> QED
    BY <1>1, <1>2, <1>11, <2>1, <2>2
<1> HIDE DEF T
<1>12. \A k \in 0..n : k \in T
  BY <1>1, <1>10, <1>11, UpTo
<1>13. count[n] \in V
  BY <1>1, <1>12 DEF T
<1> QED
  BY <1>8, <1>13 DEF V
-----------------------------------------------------------------------------
(* What view sees. *)

\* The transactions view collects are those of the main chain.
LEMMA Viewed ==
    ASSUME Shape, NEW n \in Node, NEW txs,
           txs = FlattenSeq([i \in DOMAIN node[n].Blockchain |-> blocks[node[n].Blockchain[i]].txs])
    PROVE  txs \in Seq(TxHash) /\ ToSet(txs) = TxsOf(blocks, node[n].Blockchain)
<1>1. PICK chain, lists : /\ chain = node[n].Blockchain
                          /\ lists = [i \in DOMAIN chain |-> blocks[chain[i]].txs]
  OBVIOUS
<1>2. chain \in Seq(1..Len(blocks)) /\ \A b \in 1..Len(blocks) : blocks[b].txs \in Seq(TxHash)
  BY <1>1 DEF Shape, TypeOK, BlocksOK, IsBlock, NodesOK, IsNode
<1>3. /\ DOMAIN chain = 1..Len(chain) /\ Len(chain) \in Nat
      /\ \A i \in 1..Len(chain) : chain[i] \in 1..Len(blocks)
  BY <1>2
<1>4. /\ lists \in Seq(Seq(TxHash)) /\ Len(lists) = Len(chain)
      /\ \A i \in 1..Len(chain) : lists[i] = blocks[chain[i]].txs
  <2>0. PICK k \in Nat : k = Len(chain)
    BY <1>3
  <2>1. PICK V : V = Seq(TxHash)
    OBVIOUS
  <2>2. lists = [i \in 1..k |-> blocks[chain[i]].txs] /\ \A i \in 1..k : blocks[chain[i]].txs \in V
    BY <1>1, <1>2, <1>3, <2>0, <2>1
  <2>3. lists \in [1..k -> V] /\ \A i \in 1..k : lists[i] = blocks[chain[i]].txs
    BY <2>2
  <2>4. lists \in Seq(V) /\ Len(lists) = k
    BY <2>3
  <2> QED
    BY <2>0, <2>1, <2>3, <2>4
<1>5. /\ txs \in Seq(TxHash)
      /\ \A x : x \in ToSet(txs) <=> \E i \in 1..Len(lists) : x \in ToSet(lists[i])
  <2>1. txs = FlattenSeq(lists)
    BY <1>1
  <2> QED
    BY ONLY <1>4, <2>1, Flattened
<1>6. \A x : x \in ToSet(txs) <=> \E i \in DOMAIN chain : x \in ToSet(blocks[chain[i]].txs)
  BY <1>3, <1>4, <1>5
<1>7. \A x : x \in TxsOf(blocks, chain) <=> \E i \in DOMAIN chain : x \in ToSet(blocks[chain[i]].txs)
  BY DEF TxsOf
<1>8. ToSet(txs) = TxsOf(blocks, chain)
  BY <1>6, <1>7, Zenon
<1> QED
  BY <1>1, <1>5, <1>8

\* What an upvote on a main chain is for is there too.
LEMMA ParentThere ==
    ASSUME Shape, NEW n \in Node, WellThreaded(blocks, node[n].Blockchain),
           NEW h \in TxsOf(blocks, node[n].Blockchain), Contents(h).type = "UPVOTE"
    PROVE  Contents(h).parent \in TxsOf(blocks, node[n].Blockchain)
<1>1. PICK chain : chain = node[n].Blockchain
  OBVIOUS
<1>2. chain \in Seq(1..Len(blocks))
  BY <1>1 DEF Shape, TypeOK, NodesOK, IsNode
<1>3. h \in User /\ Contents(h) = Body[h]
  <2>1. h \notin User => Contents(h).type = "COINBASE"
    BY DEF Contents
  <2> QED
    BY <2>1 DEF Contents
<1>4. PICK i \in DOMAIN chain : h \in ToSet(blocks[chain[i]].txs)
  BY <1>1 DEF TxsOf
<1>5. Follows(Body[h], TxsOf(blocks, SubSeq(chain, 1, i - 1)))
  BY <1>1, <1>3, <1>4 DEF WellThreaded
<1>6. Body[h].parent \in TxsOf(blocks, SubSeq(chain, 1, i - 1))
  BY <1>3, <1>5 DEF Follows
<1>7. PICK j \in DOMAIN SubSeq(chain, 1, i - 1) :
         Body[h].parent \in ToSet(blocks[SubSeq(chain, 1, i - 1)[j]].txs)
  BY <1>6 DEF TxsOf
<1>8. j \in DOMAIN chain /\ SubSeq(chain, 1, i - 1)[j] = chain[j]
  BY <1>2, <1>7
<1> QED
  BY <1>1, <1>3, <1>7, <1>8 DEF TxsOf

\* An entry of hashMap is about a transaction on the chain; it has the address of
\* the author if it is a post or a comment.
Remembered(h, e, onChain) ==
    /\ h \in onChain
    /\ e \in [score : Nat, address : {e.address}]
    /\ e.address # Nil => /\ Contents(h).type \in {"POST", "COMMENT"}
                          /\ e.address = Contents(h).outs[1].addr

Remembers(map, onChain) == \A h \in DOMAIN map : Remembered(h, map[h], onChain)

\* view writes such entries.
LEMMA ViewRemembers ==
    ASSUME NEW S, NEW txs \in Seq(S), NEW old, Remembers(old, ToSet(txs))
    PROVE  Remembers(CountUpvotes(TxClients(old, txs), txs), ToSet(txs))
<1>1. PICK entries, H : entries = TxClients(old, txs) /\ H = DOMAIN old \cup ToSet(txs)
  OBVIOUS
<1>2. entries = [h \in H |->
                   IF h \notin ToSet(txs) THEN old[h]
                   ELSE [score |-> 0, address |-> IF Contents(h).type \in {"POST", "COMMENT"}
                                                  THEN Contents(h).outs[1].addr ELSE Nil]]
  BY <1>1, Zenon DEF TxClients
<1>3. ASSUME NEW h \in H PROVE Remembered(h, entries[h], ToSet(txs))
  <2>1. CASE h \in ToSet(txs)
    BY <1>2, <2>1 DEF Remembered
  <2>2. CASE h \notin ToSet(txs)
    BY <1>1, <1>2, <2>2 DEF Remembers
  <2> QED
    BY <2>1, <2>2
<1>4. PICK A : A = {entries[h].address : h \in H}
  OBVIOUS
<1>5. entries \in [H -> [score : Nat, address : A]]
  <2>1. \A h \in H : entries[h] \in [score : Nat, address : A]
    BY <1>3, <1>4 DEF Remembered
  <2> QED
    BY <1>2, <2>1
<1>6. PICK new : new = CountUpvotes(entries, txs)
  OBVIOUS
<1>7. new \in Entries(H, A, entries)
  BY <1>5, <1>6, VotesCounted
<1>8. /\ DOMAIN new = H
      /\ \A h \in H : new[h] \in [score : Nat, address : A] /\ new[h].address = entries[h].address
  BY <1>7 DEF Entries
<1>9. ASSUME NEW h \in H PROVE Remembered(h, new[h], ToSet(txs))
  <2>1. new[h] \in [score : Nat, address : {new[h].address}]
    BY <1>8
  <2> QED
    BY <1>3, <1>8, <2>1 DEF Remembered
<1> QED
  BY <1>1, <1>6, <1>8, <1>9 DEF Remembers
-----------------------------------------------------------------------------
(* Clients. *)

Threaded == \A n \in Node : WellThreaded(blocks, node[n].Blockchain)

\* A client and its own node: the node is not killed, the clerk has dialled it or
\* is about to, and hashMap holds what the chain does.
ClientOK(c) ==
    /\ phase[Home(c)] # "killed"
    /\ clerk[c].pc # "panicked"
    /\ clerk[c].servers # <<>> \/ clerk[c].todo = Servers[c]
    /\ Remembers(hashMap[c], TxsOf(blocks, node[Home(c)].Blockchain))

ClientsOK ==
    /\ hashMap = [c \in Clerk |-> hashMap[c]]
    /\ \A c \in Clerk : ClientOK(c)

\* The inductive invariant.
Sound == Shape /\ Fresh /\ Threaded /\ ClerksOK /\ ClientsOK

\* The first server of a client is a node.
LEMMA HomeIsNode ==
    ASSUME NEW c \in Clerk
    PROVE  Home(c) \in Node /\ Home(c) = Head(Servers[c])
<1>1. Servers[c] \in Seq(Node) /\ Servers[c] # <<>>
  BY ClerkAssumption, ClientAssumption
<1> QED
  BY <1>1 DEF Home

\* view finds the parent of every upvote, and writes what the chain holds.
LEMMA ViewStep ==
    ASSUME Sound, NEW c \in Clerk, QueryBlockchain(c)
    PROVE  /\ UNCHANGED cvars
           /\ \E new : /\ hashMap' = [hashMap EXCEPT ![c] = new]
                       /\ Remembers(new, TxsOf(blocks, node[Home(c)].Blockchain))
<1>1. PICK txs : txs = FlattenSeq([i \in DOMAIN node[Home(c)].Blockchain |->
                                      blocks[node[Home(c)].Blockchain[i]].txs])
  OBVIOUS
<1>2. txs \in Seq(TxHash) /\ ToSet(txs) = TxsOf(blocks, node[Home(c)].Blockchain)
  BY <1>1, HomeIsNode, Viewed DEF Sound
<1>3. PICK old : old = hashMap[c] /\ Remembers(old, ToSet(txs))
  BY <1>2 DEF Sound, ClientsOK, ClientOK
<1>4. PICK entries : entries = TxClients(old, txs)
  OBVIOUS
<1>5. ToSet(txs) \subseteq DOMAIN entries
  BY <1>4 DEF TxClients
<1>6. \A h \in Upvotes(txs) : Contents(h).parent \in DOMAIN entries
  BY <1>2, <1>5, HomeIsNode, ParentThere DEF Sound, Threaded, Upvotes
<1>7. hashMap' = [hashMap EXCEPT ![c] = CountUpvotes(entries, txs)] /\ UNCHANGED <<clerk, vars>>
  BY <1>1, <1>3, <1>4, <1>6, Zenon DEF QueryBlockchain
<1>8. Remembers(CountUpvotes(entries, txs), ToSet(txs))
  BY <1>2, <1>3, <1>4, ViewRemembers
<1> QED
  BY <1>2, <1>7, <1>8 DEF cvars

\* To its node and to others a client is a clerk.
LEMMA ClientIsClerk ==
    ASSUME Sound, [ClientNext]_allvars
    PROVE  [ClerkNext]_cvars
<1>1. ASSUME NEW c \in Clerk, QueryBlockchain(c) PROVE UNCHANGED cvars
  BY <1>1, ViewStep
<1>2. ASSUME NEW c \in Clerk, NEW op \in Ops[c], Command(c, op) PROVE ClerkNext
  BY <1>2 DEF Command, ClerkNext
<1>3. CASE UNCHANGED allvars
  BY <1>3 DEF allvars
<1>4. ASSUME NEW c \in Clerk, MakeClerk(c) \/ QueryUtxo(c) \/ Call(c) \/ Reply(c) PROVE ClerkNext
  BY <1>4 DEF ClerkNext
<1>5. ASSUME NodesNext, UNCHANGED clerk PROVE ClerkNext
  BY <1>5 DEF ClerkNext
<1> QED
  BY <1>1, <1>2, <1>3, <1>4, <1>5 DEF ClientNext

\* Nothing but Kill ends the mining of a node that goes on serving.
LEMMA NeverKilled ==
    ASSUME Sound, [ClientNext]_allvars, NEW c \in Clerk
    PROVE  phase'[Home(c)] # "killed"
<1>1. phase = [m \in Node |-> phase[m]] /\ phase[Home(c)] # "killed" /\ Home(c) \in Node
  BY HomeIsNode DEF Sound, ClientsOK, ClientOK, Shape, TypeOK, NetworkOK
<1>2. CASE UNCHANGED phase
  BY <1>1, <1>2
<1>3. ASSUME NEW n \in Node, StartDRNode(n) \/ Dial(n) \/ GetBlockLog(n) \/ Listen(n)
      PROVE  phase'[Home(c)] # "killed"
  BY <1>1, <1>3 DEF StartDRNode, Dial, GetBlockLog, Listen
<1>4. ASSUME NEW n \in Node, Kill(n), ~Kill(Home(c)) PROVE phase'[Home(c)] # "killed"
  BY <1>1, <1>4 DEF Kill
<1>5. ASSUME NodesNext, ~Kill(Home(c)) PROVE phase'[Home(c)] # "killed"
  <2>1. ASSUME NEW n \in Node, replayLog(n) \/ Crash(n) \/ Mine(n) PROVE UNCHANGED phase
    BY <2>1 DEF replayLog, Crash, Mine
  <2>2. ASSUME NEW n \in Node, NEW k \in Node, Gossip(n, k) PROVE UNCHANGED phase
    BY <2>2 DEF Gossip
  <2>3. ASSUME NEW n \in Node, NEW t \in User, Flood(n, t) \/ Poll(n, t) PROVE UNCHANGED phase
    BY <2>3 DEF Flood, Poll
  <2>4. (\E m \in txMsgs : RecvTx(m)) \/ (\E m \in blockMsgs : RecvBlock(m)) => UNCHANGED phase
    BY DEF RecvTx, RecvBlock
  <2> QED
    BY <1>2, <1>3, <1>4, <1>5, <2>1, <2>2, <2>3, <2>4 DEF NodesNext
<1>6. ASSUME NEW d \in Clerk, \/ MakeClerk(d) \/ QueryUtxo(d) \/ Call(d) \/ Reply(d)
                              \/ QueryBlockchain(d) \/ \E op \in Ops[d] : Command(d, op)
      PROVE  UNCHANGED phase
  BY <1>6 DEF MakeClerk, QueryUtxo, Call, Reply, QueryBlockchain, Command, Invoke, Submit, vars
<1>7. CASE UNCHANGED allvars
  BY <1>2, <1>7 DEF allvars, cvars, vars
<1> QED
  BY <1>2, <1>5, <1>6, <1>7 DEF ClientNext

\* A clerk that goes on with the servers it has.
Keeps(ck, new) == new.pc # "panicked" /\ new.servers = ck.servers

\* A clerk that has found its node keeps it and never lacks a server to ask.
LEMMA ConnectedStep ==
    ASSUME Sound, [ClientNext]_allvars, NEW c \in Clerk
    PROVE  /\ clerk'[c].pc # "panicked"
           /\ clerk'[c].servers # <<>> \/ clerk'[c].todo = Servers[c]
<1>1. /\ clerk = [d \in Clerk |-> clerk[d]] /\ IsClerk(c, clerk[c])
      /\ clerk[c].pc # "panicked"
      /\ clerk[c].servers # <<>> \/ clerk[c].todo = Servers[c]
      /\ Servers[c] # <<>>
  BY ClientAssumption DEF Sound, ClerksOK, ClientsOK, ClientOK
<1>2. CASE clerk'[c] = clerk[c]
  BY <1>1, <1>2
<1>3. ASSUME NEW d \in Clerk, d # c, \/ MakeClerk(d) \/ QueryUtxo(d) \/ Call(d) \/ Reply(d)
                                     \/ \E op \in Ops[d] : Command(d, op)
      PROVE  clerk'[c] = clerk[c]
  BY <1>1, <1>3 DEF MakeClerk, QueryUtxo, Call, Reply, Command, Invoke
<1>4. ASSUME Serving(Home(c)), MakeClerk(c)
      PROVE  clerk'[c].pc # "panicked" /\ clerk'[c].servers # <<>>
  <2>1. Running(Home(c))
    BY <1>4 DEF Serving, Running, Sound, ClientsOK, ClientOK
  <2>2. PICK s : s = Head(clerk[c].todo)
    OBVIOUS
  <2>3. clerk[c].servers = <<>> => s = Home(c)
    BY <1>1, <2>2, HomeIsNode
  <2>4. clerk'[c].pc = clerk[c].pc
        /\ clerk'[c].servers = IF Running(s) THEN Append(clerk[c].servers, s) ELSE clerk[c].servers
    BY <1>1, <1>4, <2>2 DEF MakeClerk, IsClerk
  <2>5. Append(clerk[c].servers, s) # <<>>
    <3>1. PICK known, S : known = clerk[c].servers /\ S = ToSet(Servers[c]) \cup {s}
      OBVIOUS
    <3>2. known \in Seq(S) /\ s \in S
      BY <1>1, <3>1 DEF IsClerk
    <3>3. Len(Append(known, s)) = Len(known) + 1 /\ Len(known) \in Nat
      BY <3>2
    <3>4. Len(<<>>) = 0
      OBVIOUS
    <3>5. Len(Append(known, s)) # Len(<<>>)
      BY <3>3, <3>4
    <3> QED
      BY <3>1, <3>5, Zenon
  <2> QED
    BY <1>1, <2>1, <2>3, <2>4, <2>5
<1>5. ASSUME \/ QueryUtxo(c) \/ Call(c) \/ Reply(c) \/ \E op \in Ops[c] : Command(c, op)
      PROVE  clerk'[c].pc # "panicked" /\ clerk'[c].servers # <<>>
  <2>1. PICK ck : ck = clerk[c] /\ IsClerk(c, ck)
    BY <1>1
  <2>2. ck.servers # <<>>
    <3>1. ck.todo = <<>>
      BY <1>5, <2>1 DEF QueryUtxo, Call, Reply, Command, Invoke, IsClerk
    <3> QED
      BY <1>1, <2>1, <3>1
  <2>3. /\ \A x : Keeps(ck, Returning(ck, x))
        /\ Keeps(ck, NextServer(ck))
        /\ Keeps(ck, [ck EXCEPT !.pc = "wait"])
        /\ Keeps(ck, [NextServer(ck) EXCEPT !.pc = "call"])
        /\ \A tx : Keeps(ck, [ck EXCEPT !.pc = "call", !.tx = tx, !.current = 1])
        /\ \A op : Keeps(ck, [ck EXCEPT !.pc = "query", !.op = op, !.current = 1, !.tx = Nil,
                                        !.answer = "none", !.asked = ck.asked + 1])
    <3>1. ck.pc # "panicked" /\ ck = [todo |-> ck.todo, servers |-> ck.servers, pc |-> ck.pc,
                                     op |-> ck.op, current |-> ck.current, tx |-> ck.tx,
                                     answer |-> ck.answer, asked |-> ck.asked]
      BY <1>1, <2>1 DEF IsClerk
    <3> QED
      BY <3>1 DEF Keeps, Returning, NextServer
  <2>4. QueryUtxo(c) => \E new : clerk' = [clerk EXCEPT ![c] = new] /\ Keeps(ck, new)
    BY <2>1, <2>2, <2>3 DEF QueryUtxo
  <2>5. Call(c) => \E new : clerk' = [clerk EXCEPT ![c] = new] /\ Keeps(ck, new)
    <3> SUFFICES ASSUME Call(c)
                 PROVE  \E new : clerk' = [clerk EXCEPT ![c] = new] /\ Keeps(ck, new)
      OBVIOUS
    <3>1. \/ clerk' = [clerk EXCEPT ![c] = NextServer(ck)]
          \/ clerk' = [clerk EXCEPT ![c].pc = "wait"]
          \/ clerk' = [clerk EXCEPT ![c] = Returning(ck, "false")]
      BY <2>1 DEF Call
    <3>2. [clerk EXCEPT ![c].pc = "wait"] = [clerk EXCEPT ![c] = [ck EXCEPT !.pc = "wait"]]
      BY <2>1
    <3> QED
      BY <2>3, <3>1, <3>2
  <2>6. Reply(c) => \E new : clerk' = [clerk EXCEPT ![c] = new] /\ Keeps(ck, new)
    BY <2>1, <2>3 DEF Reply
  <2>7. ASSUME NEW op \in Ops[c], Command(c, op)
        PROVE  \E new : clerk' = [clerk EXCEPT ![c] = new] /\ Keeps(ck, new)
    <3>1. clerk' = [clerk EXCEPT ![c] = [ck EXCEPT !.pc = "query", !.op = op, !.current = 1,
                                         !.tx = Nil, !.answer = "none", !.asked = ck.asked + 1]]
      BY <2>1, <2>7 DEF Command, Invoke
    <3> QED
      BY <2>3, <3>1
  <2>8. PICK new : clerk' = [clerk EXCEPT ![c] = new] /\ Keeps(ck, new)
    BY <1>5, <2>4, <2>5, <2>6, <2>7
  <2> QED
    BY <1>1, <2>1, <2>2, <2>8 DEF Keeps
<1>6. ASSUME NEW d \in Clerk, QueryBlockchain(d) PROVE clerk'[c] = clerk[c]
  BY <1>6, ViewStep DEF cvars
<1>7. CASE UNCHANGED clerk
  BY <1>2, <1>7
<1>8. CASE \E d \in Clerk : /\ Serving(Home(d))
                            /\ \/ MakeClerk(d) \/ QueryUtxo(d) \/ Call(d) \/ Reply(d)
                               \/ \E op \in Ops[d] : Command(d, op)
  <2>1. PICK d \in Clerk : /\ Serving(Home(d))
                           /\ \/ MakeClerk(d) \/ QueryUtxo(d) \/ Call(d) \/ Reply(d)
                              \/ \E op \in Ops[d] : Command(d, op)
    BY <1>8
  <2>2. CASE d # c
    BY <1>2, <1>3, <2>1, <2>2
  <2>3. CASE d = c
    BY <1>4, <1>5, <2>1, <2>3
  <2> QED
    BY <2>2, <2>3
<1>9. CASE UNCHANGED allvars
  BY <1>7, <1>9 DEF allvars, cvars
<1> QED
  BY <1>2, <1>6, <1>7, <1>8, <1>9 DEF ClientNext

\* What is on the chain stays there, and view writes what it reads.
LEMMA HashMapStep ==
    ASSUME Sound, [ClientNext]_allvars
    PROVE  /\ hashMap' = [c \in Clerk |-> hashMap'[c]]
           /\ \A c \in Clerk : Remembers(hashMap'[c], TxsOf(blocks', node'[Home(c)].Blockchain))
<1>1. /\ hashMap = [c \in Clerk |-> hashMap[c]]
      /\ \A c \in Clerk : Remembers(hashMap[c], TxsOf(blocks, node[Home(c)].Blockchain))
  BY DEF Sound, ClientsOK, ClientOK
<1>2. [Next]_vars
  BY ClientIsClerk, ClerkStep DEF Sound
<1>3. \A c \in Clerk : TxsOf(blocks, node[Home(c)].Blockchain)
                          \subseteq TxsOf(blocks', node'[Home(c)].Blockchain)
  BY <1>2, HomeIsNode, OnChainStays DEF Sound
<1>4. CASE UNCHANGED hashMap
  BY <1>1, <1>3, <1>4 DEF Remembers, Remembered
<1>5. ASSUME NEW c \in Clerk, QueryBlockchain(c)
      PROVE  /\ hashMap' = [d \in Clerk |-> hashMap'[d]]
             /\ \A d \in Clerk : Remembers(hashMap'[d], TxsOf(blocks', node'[Home(d)].Blockchain))
  <2>1. PICK new : /\ hashMap' = [hashMap EXCEPT ![c] = new]
                   /\ Remembers(new, TxsOf(blocks, node[Home(c)].Blockchain))
    BY <1>5, ViewStep
  <2>2. UNCHANGED <<blocks, node>>
    BY <1>5, ViewStep DEF cvars, vars
  <2>3. \A d \in Clerk : hashMap'[d] = IF d = c THEN new ELSE hashMap[d]
    BY <1>1, <2>1
  <2>4. hashMap' = [d \in Clerk |-> hashMap'[d]]
    BY <1>1, <2>1
  <2> QED
    BY <1>1, <2>1, <2>2, <2>3, <2>4
<1>6. ClientNext => UNCHANGED hashMap \/ \E c \in Clerk : QueryBlockchain(c)
  BY DEF ClientNext, Command
<1> QED
  BY <1>4, <1>5, <1>6 DEF allvars

\* The invariant is inductive.
LEMMA SoundStep == Sound /\ [ClientNext]_allvars => Sound'
<1> SUFFICES ASSUME Sound, [ClientNext]_allvars PROVE Sound'
  OBVIOUS
<1>1. [ClerkNext]_cvars /\ ClerksOK'
  BY ClientIsClerk, ClerksStep DEF Sound
<1>2. [Next]_vars
  BY <1>1, ClerkStep DEF Sound
<1>3. Shape' /\ Fresh' /\ Threaded'
  BY <1>2, ShapeStep, FreshStep, ThreadedStep DEF Sound, Threaded
<1>4. ClientsOK'
  BY NeverKilled, ConnectedStep, HashMapStep DEF ClientsOK, ClientOK, Home
<1> QED
  BY <1>1, <1>3, <1>4 DEF Sound

\* A client begins with nothing seen and its own node to dial.
LEMMA SoundInit == ClientInit => Sound
<1> SUFFICES ASSUME ClientInit PROVE Sound
  OBVIOUS
<1>1. Init /\ ClerkInit
  BY DEF ClientInit, ClerkInit
<1>2. Shape /\ Fresh /\ Threaded /\ ClerksOK
  BY <1>1, ShapeInit, FreshInit, ThreadedInit, ClerksInit DEF Threaded
<1>3. hashMap = [c \in Clerk |-> hashMap[c]] /\ \A c \in Clerk : DOMAIN hashMap[c] = {}
  BY DEF ClientInit
<1>4. \A c \in Clerk : clerk[c].pc # "panicked" /\ clerk[c].todo = Servers[c]
  BY <1>1 DEF ClerkInit, InitClerk
<1>5. \A c \in Clerk : phase[Home(c)] # "killed"
  BY <1>1, HomeIsNode DEF Init
<1>6. ClientsOK
  BY <1>3, <1>4, <1>5 DEF ClientsOK, ClientOK, Remembers
<1> QED
  BY <1>2, <1>6 DEF Sound
-----------------------------------------------------------------------------
(* Theorems *)

\* The terminal programs use nodes and clerks as Clerk describes: every theorem
\* about ClerkSpec, and so every theorem about Spec, is one about ClientSpec.
THEOREM ClientsAreClerks == ClientSpec => ClerkSpec
<1>1. ClientInit => ClerkInit /\ Sound
  BY SoundInit DEF ClientInit
<1>2. Sound /\ [ClientNext]_allvars => Sound'
  BY SoundStep
<1>3. Sound /\ [ClientNext]_allvars => [ClerkNext]_cvars
  BY ClientIsClerk
<1> QED
  BY <1>1, <1>2, <1>3, PTL DEF ClientSpec, ClerkSpec

\* view never dereferences nil, and what it offers an address for can be upvoted:
\* the post or comment is on the main chain of the client's node, with this author,
\* whatever the network, the other clients and the blocks that follow do.
THEOREM ViewIsSound == ClientSpec => []ParentsKnown
<1>1. ClientInit => Sound
  BY SoundInit
<1>2. Sound /\ [ClientNext]_allvars => Sound'
  BY SoundStep
<1>3. Sound => ParentsKnown
  <2> SUFFICES ASSUME Sound, NEW c \in Clerk
               PROVE  /\ clerk[c].pc # "panicked"
                      /\ \A h \in DOMAIN hashMap[c] : hashMap[c][h].address # Nil =>
                            validParent([type |-> "UPVOTE", parent |-> h,
                                         outs |-> <<[addr |-> hashMap[c][h].address]>>],
                                        TxsOf(blocks, node[Home(c)].Blockchain))
    BY Zenon DEF ParentsKnown
  <2>1. clerk[c].pc # "panicked" /\ Remembers(hashMap[c], TxsOf(blocks, node[Home(c)].Blockchain))
    BY DEF Sound, ClientsOK, ClientOK
  <2> QED
    BY <2>1 DEF Remembers, Remembered, validParent
<1> QED
  BY <1>1, <1>2, <1>3, PTL DEF ClientSpec
=============================================================================
