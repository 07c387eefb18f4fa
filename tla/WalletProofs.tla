---------------------------- MODULE WalletProofs ----------------------------
(***************************************************************************)
(* The database of unspent outputs as a function of the main chain, for    *)
(* any nodes, transactions, keys and bounds: what updateUtxoDb computes    *)
(* and what follows for wallets and for outputs spent twice.               *)
(***************************************************************************)
EXTENDS LedgerProofs, WellFoundedInduction

\* Induction along 0..n, from the least element that is missing.
LEMMA UpTo ==
    ASSUME NEW n \in Nat, NEW T \in SUBSET (0..n), 0 \in T,
           \A k \in 0..(n - 1) : k \in T => k + 1 \in T
    PROVE  \A k \in 0..n : k \in T
<1> DEFINE R == {ss \in Nat \X Nat : ss[1] < ss[2]}
           missing == (0..n) \ T
<1>1. IsWellFoundedOn(R, Nat)
  BY NatLessThanWellFounded DEF OpToRel
<1>2. SUFFICES ASSUME missing # {} PROVE FALSE
  OBVIOUS
<1>3. missing \subseteq Nat
  OBVIOUS
<1>4. PICK x \in missing : \A y \in missing : ~(<<y, x>> \in R)
  <2> HIDE DEF missing, R
  <2> QED
    BY <1>1, <1>2, <1>3, WFMin
<1>5. \A y \in missing : ~(y < x)
  BY <1>3, <1>4
<1>6. x # 0 /\ x - 1 \in 0..(n - 1) /\ x - 1 \notin missing
  BY <1>5
<1>7. (x - 1) + 1 \in T
  BY <1>6
<1> QED
  BY <1>7
-----------------------------------------------------------------------------
(* The database. *)

\* An entry of the database: the outputs of its transaction, each spent or not.
IsEntry(h, entry) ==
    LET outs == Contents(h).outs
    IN  /\ DOMAIN entry = DOMAIN outs
        /\ \A i \in DOMAIN outs :
              /\ {"spent", "addr", "value"} \subseteq DOMAIN entry[i]
              /\ entry[i].spent \in BOOLEAN
              /\ entry[i].addr = outs[i].addr /\ entry[i].value = outs[i].value

IsDb(db) == \A h \in DOMAIN db : IsEntry(h, db[h])

\* Output i of transaction h can be spent.
Free(db, h, i) ==
    h \in DOMAIN db /\ i \in DOMAIN Contents(h).outs /\ ~db[h][i].spent

\* Transaction t spends output i of transaction h.
Spends(t, h, i) ==
    \E j \in DOMAIN Contents(t).ins : Contents(t).ins[j].prev = h /\ Contents(t).ins[j].idx = i

\* The inputs of t name outputs that exist.
NamesOutputs(t) ==
    LET ins == Contents(t).ins
    IN  /\ Len(ins) \in Nat /\ DOMAIN ins = 1..Len(ins)
        /\ \A j \in 1..Len(ins) : ins[j].idx \in DOMAIN Contents(ins[j].prev).outs

\* A result of the two loops.
IsRes(res) == res = [ok |-> res.ok, db |-> res.db] /\ res.ok \in BOOLEAN

Marked(entry, i) == [entry EXCEPT ![i].spent = TRUE]

\* The flag of one output is set.
LEMMA SpendEntry ==
    ASSUME NEW h, NEW e, NEW x, NEW new, IsEntry(h, e), x \in DOMAIN Contents(h).outs,
           new = Marked(e, x)
    PROVE  /\ IsEntry(h, new)
           /\ \A i \in DOMAIN Contents(h).outs : new[i].spent <=> i = x \/ e[i].spent
<1>1. PICK outs : outs = Contents(h).outs
  OBVIOUS
<1>2. /\ DOMAIN e = DOMAIN outs
      /\ \A i \in DOMAIN outs :
            /\ {"spent", "addr", "value"} \subseteq DOMAIN e[i]
            /\ e[i].spent \in BOOLEAN
            /\ e[i].addr = outs[i].addr /\ e[i].value = outs[i].value
  BY <1>1 DEF IsEntry
<1>3. PICK q, r : q = e[x] /\ r = [q EXCEPT !.spent = TRUE]
  OBVIOUS
<1>4. /\ {"spent", "addr", "value"} \subseteq DOMAIN q
      /\ q.addr = outs[x].addr /\ q.value = outs[x].value
  BY <1>1, <1>2, <1>3
<1>5. /\ r.spent = TRUE /\ r.addr = q.addr /\ r.value = q.value
      /\ {"spent", "addr", "value"} \subseteq DOMAIN r
  <2>1. r.spent = TRUE
    BY <1>3, <1>4
  <2>2. r.addr = q.addr
    BY <1>3, <1>4
  <2>3. r.value = q.value
    BY <1>3, <1>4
  <2>4. DOMAIN r = DOMAIN q
    BY <1>3
  <2> QED
    BY <1>4, <2>1, <2>2, <2>3, <2>4
<1>6. /\ DOMAIN new = DOMAIN outs
      /\ \A i \in DOMAIN outs : new[i] = IF i = x THEN r ELSE e[i]
  <2>1. new = [e EXCEPT ![x].spent = TRUE]
    BY DEF Marked
  <2> QED
    BY <1>2, <1>3, <2>1
<1>7. ASSUME NEW i \in DOMAIN outs
      PROVE  /\ {"spent", "addr", "value"} \subseteq DOMAIN new[i]
             /\ new[i].spent \in BOOLEAN
             /\ new[i].addr = outs[i].addr /\ new[i].value = outs[i].value
             /\ new[i].spent = IF i = x THEN TRUE ELSE e[i].spent
  BY <1>2, <1>4, <1>5, <1>6
<1> QED
  BY <1>1, <1>6, <1>7 DEF IsEntry

\* An input takes the output it names out of the database, and nothing else.
LEMMA SpendInput ==
    ASSUME NEW res, IsRes(res), res.ok => IsDb(res.db), NEW in, in.idx \in DOMAIN Contents(in.prev).outs,
           NEW new, new = spendInput(res, in)
    PROVE  /\ IsRes(new)
           /\ new.ok => /\ res.ok /\ IsDb(new.db)
                        /\ \A h, i : Free(new.db, h, i) <=>
                                        Free(res.db, h, i) /\ ~(in.prev = h /\ in.idx = i)
<1> DEFINE db == res.db
           p == in.prev
           x == in.idx
           outs == Contents(p).outs
           entry == Marked(db[p], x)
<1>1. CASE ~res.ok \/ p \notin DOMAIN db
  <2>1. new = [res EXCEPT !.ok = FALSE]
    BY <1>1 DEF spendInput
  <2> QED
    BY <2>1 DEF IsRes
<1>2. CASE res.ok /\ p \in DOMAIN db
  <2>1. IsEntry(p, db[p])
    BY <1>2 DEF IsDb
  <2>2. /\ IsEntry(p, entry) /\ DOMAIN entry = DOMAIN outs
        /\ \A i \in DOMAIN outs : entry[i].spent <=> i = x \/ db[p][i].spent
    <3>1. PICK e, made : e = db[p] /\ made = Marked(e, x)
      OBVIOUS
    <3>2. IsEntry(p, e) /\ x \in DOMAIN Contents(p).outs /\ made = Marked(e, x)
      BY <2>1, <3>1
    <3> HIDE DEF x, p
    <3>3. /\ IsEntry(p, made)
          /\ \A i \in DOMAIN Contents(p).outs : made[i].spent <=> i = x \/ e[i].spent
      BY ONLY <3>2, SpendEntry
    <3>4. entry = made /\ db[p] = e
      BY <3>1
    <3>5. DOMAIN made = DOMAIN outs
      BY <3>3 DEF IsEntry
    <3> QED
      BY <3>3, <3>4, <3>5
  <2> HIDE DEF entry
  <2>3. CASE \A i \in DOMAIN entry : entry[i].spent
    <3>1. new = [res EXCEPT !.db = Restrict(db, DOMAIN db \ {p})]
      BY <1>2, <2>3, Zenon DEF spendInput, entry, Marked
    <3>2. new = [ok |-> res.ok, db |-> [h \in DOMAIN db \ {p} |-> db[h]]]
      BY <3>1 DEF Restrict, IsRes
    <3>3. IsRes(new) /\ new.ok = res.ok /\ new.db = [h \in DOMAIN db \ {p} |-> db[h]]
      BY <3>2 DEF IsRes
    <3>4. IsDb(new.db)
      BY <1>2, <3>3 DEF IsDb
    <3>5. ASSUME NEW h, NEW i
          PROVE  Free(new.db, h, i) <=> Free(db, h, i) /\ ~(p = h /\ x = i)
      BY <2>2, <2>3, <3>3 DEF Free
    <3> QED
      BY <1>2, <3>3, <3>4, <3>5
  <2>4. CASE ~(\A i \in DOMAIN entry : entry[i].spent)
    <3>1. new = [res EXCEPT !.db = [db EXCEPT ![p] = entry]]
      BY <1>2, <2>4, Zenon DEF spendInput, entry, Marked
    <3>2. \A h \in DOMAIN db : IsEntry(h, db[h])
      BY <1>2 DEF IsDb
    <3>3. IsRes(new) /\ new.ok = res.ok /\ new.db = [db EXCEPT ![p] = entry]
      BY <3>1 DEF IsRes
    <3>4. /\ new.db = [h \in DOMAIN db |-> IF h = p THEN entry ELSE db[h]]
          /\ DOMAIN new.db = DOMAIN db
          /\ \A h \in DOMAIN db : new.db[h] = IF h = p THEN entry ELSE db[h]
      BY <3>2, <3>3
    <3>5. IsDb(new.db)
      BY <2>2, <3>2, <3>4 DEF IsDb
    <3>6. ASSUME NEW h, NEW i
          PROVE  Free(new.db, h, i) <=> Free(db, h, i) /\ ~(p = h /\ x = i)
      BY <1>2, <2>2, <3>4 DEF Free
    <3> QED
      BY <1>2, <3>3, <3>5, <3>6
  <2> QED
    BY <2>3, <2>4
<1> QED
  BY <1>1, <1>2 DEF IsRes
-----------------------------------------------------------------------------
(* The loops of updateUtxoDb and its callers, as runs of states.           *)

\* f is what the first k turns of the loop over inputs compute.
SpentBy(f, res, ins, k) ==
    f = [i \in 0..k |-> IF i = 0 THEN res ELSE spendInput(f[i - 1], ins[i])]

\* The loop over inputs computes what its turns compute one after another.
LEMMA SpendInputsRun ==
    ASSUME NEW res, NEW ins, Len(ins) \in Nat
    PROVE  \E f : /\ f[0] = res /\ spendInputs(res, ins) = f[Len(ins)]
                 /\ \A i \in 1..Len(ins) : f[i] = spendInput(f[i - 1], ins[i])
<1> DEFINE n == Len(ins)
           T == {k \in 0..n : \E f : SpentBy(f, res, ins, k)}
<1>1. 0 \in T
  <2>1. SpentBy([i \in 0..0 |-> res], res, ins, 0)
    BY DEF SpentBy
  <2> QED
    BY <2>1
<1>2. ASSUME NEW k \in 0..(n - 1), k \in T PROVE k + 1 \in T
  <2>1. PICK f : SpentBy(f, res, ins, k)
    BY <1>2
  <2>2. PICK next : next = spendInput(f[k], ins[k + 1])
    OBVIOUS
  <2>3. PICK g : g = [i \in 0..(k + 1) |-> IF i = k + 1 THEN next ELSE f[i]]
    OBVIOUS
  <2>4. ASSUME NEW i \in 0..(k + 1)
        PROVE  g[i] = IF i = 0 THEN res ELSE spendInput(g[i - 1], ins[i])
    <3>1. CASE i = k + 1
      <4>1. g[i] = next /\ g[i - 1] = f[k] /\ i - 1 = k /\ i # 0
        BY <2>3, <3>1
      <4> QED
        BY <2>2, <3>1, <4>1
    <3>2. CASE i = 0
      BY <2>1, <2>3, <3>2 DEF SpentBy
    <3>3. CASE i # k + 1 /\ i # 0
      <4>1. i \in 0..k /\ i - 1 \in 0..k /\ g[i] = f[i] /\ g[i - 1] = f[i - 1]
        BY <2>3, <3>3
      <4>2. f[i] = spendInput(f[i - 1], ins[i])
        BY <2>1, <3>3, <4>1 DEF SpentBy
      <4> QED
        BY <3>3, <4>1, <4>2
    <3> QED
      BY <3>1, <3>2, <3>3
  <2>5. g = [i \in 0..(k + 1) |-> g[i]]
    BY <2>3
  <2>6. g = [i \in 0..(k + 1) |-> IF i = 0 THEN res ELSE spendInput(g[i - 1], ins[i])]
    BY <2>4, <2>5, Zenon
  <2> QED
    BY <1>2, <2>6 DEF SpentBy
<1>3. \E f : SpentBy(f, res, ins, n)
  <2>1. T \in SUBSET (0..n)
    OBVIOUS
  <2> HIDE DEF T
  <2>2. \A k \in 0..n : k \in T
    BY <1>1, <1>2, <2>1, UpTo
  <2> QED
    BY <2>2 DEF T
<1>4. PICK f : SpentBy(f, res, ins, n) /\ spendInputs(res, ins) = f[n]
  BY <1>3, Zenon DEF SpentBy, spendInputs
<1> QED
  BY <1>4 DEF SpentBy

\* After k turns an output is free if it was and none of the k inputs names it.
FreeAfter(res, ins, new, k) ==
    /\ IsRes(new)
    /\ new.ok => /\ res.ok /\ IsDb(new.db)
                 /\ \A h, i : Free(new.db, h, i) <=>
                        /\ Free(res.db, h, i)
                        /\ ~\E j \in 1..k : ins[j].prev = h /\ ins[j].idx = i

\* Inputs take the outputs they name out of the database, and nothing else.
LEMMA SpendInputs ==
    ASSUME NEW res, IsRes(res), res.ok => IsDb(res.db), NEW ins, Len(ins) \in Nat,
           \A j \in 1..Len(ins) : ins[j].idx \in DOMAIN Contents(ins[j].prev).outs
    PROVE  FreeAfter(res, ins, spendInputs(res, ins), Len(ins))
<1> DEFINE n == Len(ins)
<1>1. PICK f : /\ f[0] = res /\ spendInputs(res, ins) = f[n]
               /\ \A i \in 1..n : f[i] = spendInput(f[i - 1], ins[i])
  BY SpendInputsRun
<1> DEFINE T == {k \in 0..n : FreeAfter(res, ins, f[k], k)}
<1>2. 0 \in T
  BY <1>1 DEF FreeAfter
<1>3. ASSUME NEW k \in 0..(n - 1), k \in T PROVE k + 1 \in T
  <2>1. PICK old, new, in : old = f[k] /\ new = f[k + 1] /\ in = ins[k + 1]
    OBVIOUS
  <2>2. FreeAfter(res, ins, old, k) /\ k + 1 \in 1..n
    BY <1>3, <2>1
  <2>3. new = spendInput(old, in) /\ in.idx \in DOMAIN Contents(in.prev).outs
    <3>1. f[k + 1] = spendInput(f[(k + 1) - 1], ins[k + 1]) /\ (k + 1) - 1 = k
      BY <1>1, <2>2
    <3> QED
      BY <2>1, <2>2, <3>1
  <2>4. IsRes(old) /\ (old.ok => IsDb(old.db))
    BY <2>2 DEF FreeAfter
  <2>5. /\ IsRes(new)
        /\ new.ok => /\ old.ok /\ IsDb(new.db)
                     /\ \A h, i : Free(new.db, h, i) <=>
                                     Free(old.db, h, i) /\ ~(in.prev = h /\ in.idx = i)
    BY <2>3, <2>4, SpendInput
  <2>6. ASSUME new.ok, NEW h, NEW i
        PROVE  Free(new.db, h, i) <=>
                 /\ Free(res.db, h, i)
                 /\ ~\E j \in 1..(k + 1) : ins[j].prev = h /\ ins[j].idx = i
    <3>1. Free(old.db, h, i) <=>
            Free(res.db, h, i) /\ ~\E j \in 1..k : ins[j].prev = h /\ ins[j].idx = i
      BY <2>2, <2>5, <2>6 DEF FreeAfter
    <3>2. (\E j \in 1..(k + 1) : ins[j].prev = h /\ ins[j].idx = i) <=>
            \/ \E j \in 1..k : ins[j].prev = h /\ ins[j].idx = i
            \/ in.prev = h /\ in.idx = i
      <4>1. 1..(k + 1) = 1..k \cup {k + 1}
        OBVIOUS
      <4> QED
        BY <2>1, <4>1
    <3> QED
      BY <2>5, <2>6, <3>1, <3>2
  <2>7. FreeAfter(res, ins, new, k + 1)
    BY <2>2, <2>5, <2>6 DEF FreeAfter
  <2> QED
    BY <1>3, <2>1, <2>7
<1>4. T \in SUBSET (0..n)
  OBVIOUS
<1> HIDE DEF T
<1>5. \A k \in 0..n : k \in T
  BY <1>2, <1>3, <1>4, UpTo
<1> QED
  BY <1>1, <1>5 DEF T

\* The outputs of a transaction enter the database.
LEMMA AddOutputs ==
    ASSUME NEW db, IsDb(db), NEW t, NEW new, new = addOutputs(db, t)
    PROVE  /\ IsDb(new)
           /\ \A h, i : Free(new, h, i) <=>
                           IF h = t THEN i \in DOMAIN Contents(t).outs ELSE Free(db, h, i)
<1> DEFINE outs == Contents(t).outs
           entry == [i \in DOMAIN outs |->
                       [spent |-> FALSE, addr |-> outs[i].addr, value |-> outs[i].value]]
<1>1. CASE outs = <<>>
  <2>1. new = db /\ DOMAIN outs = {}
    BY <1>1 DEF addOutputs
  <2> QED
    BY <2>1 DEF Free
<1>2. CASE outs # <<>>
  <2>1. new = [x \in DOMAIN db \cup {t} |-> IF x = t THEN entry ELSE db[x]]
    BY <1>2, Zenon DEF addOutputs
  <2>2. IsEntry(t, entry)
    <3>1. PICK made : made = entry
      OBVIOUS
    <3>2. DOMAIN made = DOMAIN outs
      BY <3>1
    <3>3. ASSUME NEW i \in DOMAIN outs
          PROVE  /\ {"spent", "addr", "value"} \subseteq DOMAIN made[i]
                 /\ made[i].spent = FALSE
                 /\ made[i].addr = outs[i].addr /\ made[i].value = outs[i].value
      BY <3>1
    <3> QED
      BY <3>1, <3>2, <3>3 DEF IsEntry
  <2>3. \A i \in DOMAIN outs : ~entry[i].spent
    OBVIOUS
  <2> HIDE DEF entry
  <2>4. IsDb(new)
    BY <2>1, <2>2 DEF IsDb
  <2>5. ASSUME NEW h, NEW i
        PROVE  Free(new, h, i) <=> IF h = t THEN i \in DOMAIN outs ELSE Free(db, h, i)
    BY <2>1, <2>3 DEF Free
  <2> QED
    BY <2>4, <2>5
<1> QED
  BY <1>1, <1>2

\* A transaction makes its own outputs free and takes those it spends.
LEMMA UpdateUtxo ==
    ASSUME NEW res, IsRes(res), res.ok => IsDb(res.db), NEW t, NamesOutputs(t),
           NEW new, new = updateUtxoDb(res, t)
    PROVE  /\ IsRes(new)
           /\ new.ok => /\ res.ok /\ IsDb(new.db)
                        /\ \A h, i : Free(new.db, h, i) <=>
                              IF h = t THEN i \in DOMAIN Contents(t).outs
                              ELSE Free(res.db, h, i) /\ ~Spends(t, h, i)
<1>1. PICK ins, mid : ins = Contents(t).ins /\ mid = spendInputs(res, ins)
  OBVIOUS
<1>2. /\ Len(ins) \in Nat /\ DOMAIN ins = 1..Len(ins)
      /\ \A j \in 1..Len(ins) : ins[j].idx \in DOMAIN Contents(ins[j].prev).outs
  BY <1>1 DEF NamesOutputs
<1>3. FreeAfter(res, ins, mid, Len(ins))
  BY <1>1, <1>2, SpendInputs
<1>4. \A h, i : Spends(t, h, i) <=> \E j \in 1..Len(ins) : ins[j].prev = h /\ ins[j].idx = i
  BY <1>1, <1>2 DEF Spends
<1>5. new = IF mid.ok THEN [mid EXCEPT !.db = addOutputs(@, t)] ELSE mid
  BY <1>1 DEF updateUtxoDb
<1>6. CASE ~mid.ok
  BY <1>3, <1>5, <1>6 DEF FreeAfter
<1>7. CASE mid.ok
  <2>1. PICK db, after : db = mid.db /\ after = addOutputs(db, t)
    OBVIOUS
  <2>2. /\ IsDb(db) /\ res.ok /\ mid = [ok |-> mid.ok, db |-> db] /\ mid.ok \in BOOLEAN
        /\ \A h, i : Free(db, h, i) <=>
              Free(res.db, h, i) /\ ~\E j \in 1..Len(ins) : ins[j].prev = h /\ ins[j].idx = i
    BY <1>3, <1>7, <2>1 DEF FreeAfter, IsRes
  <2>3. new.ok = mid.ok /\ new.db = after /\ IsRes(new)
    <3>1. PICK ok : ok = mid.ok
      OBVIOUS
    <3>2. mid = [ok |-> ok, db |-> db] /\ ok \in BOOLEAN
      BY <2>2, <3>1
    <3>3. new = [ok |-> ok, db |-> after]
      <4>1. new = [mid EXCEPT !.db = addOutputs(mid.db, t)]
        BY <1>5, <1>7
      <4>2. new = [mid EXCEPT !.db = after]
        BY <2>1, <4>1
      <4> QED
        BY ONLY <3>2, <4>2
    <3> QED
      BY <3>1, <3>2, <3>3 DEF IsRes
  <2>4. /\ IsDb(after)
        /\ \A h, i : Free(after, h, i) <=>
                        IF h = t THEN i \in DOMAIN Contents(t).outs ELSE Free(db, h, i)
    BY <2>1, <2>2, AddOutputs
  <2> QED
    BY <1>4, <2>2, <2>3, <2>4
<1> QED
  BY <1>6, <1>7

\* f is what the first k transactions of a block make of the database.
UpdatedBy(f, db, txs, k) ==
    f = [i \in 0..k |-> IF i = 0 THEN [ok |-> TRUE, db |-> db] ELSE updateUtxoDb(f[i - 1], txs[i])]

\* The transactions of a block are entered one after another.
LEMMA UpdateAllRun ==
    ASSUME NEW db, NEW txs, Len(txs) \in Nat
    PROVE  \E f : /\ f[0] = [ok |-> TRUE, db |-> db] /\ updateAll(db, txs) = f[Len(txs)]
                 /\ \A i \in 1..Len(txs) : f[i] = updateUtxoDb(f[i - 1], txs[i])
<1> DEFINE n == Len(txs)
           T == {k \in 0..n : \E f : UpdatedBy(f, db, txs, k)}
<1>1. 0 \in T
  <2>1. UpdatedBy([i \in 0..0 |-> [ok |-> TRUE, db |-> db]], db, txs, 0)
    BY DEF UpdatedBy
  <2> QED
    BY <2>1
<1>2. ASSUME NEW k \in 0..(n - 1), k \in T PROVE k + 1 \in T
  <2>1. PICK f : UpdatedBy(f, db, txs, k)
    BY <1>2
  <2>2. PICK next : next = updateUtxoDb(f[k], txs[k + 1])
    OBVIOUS
  <2>3. PICK g : g = [i \in 0..(k + 1) |-> IF i = k + 1 THEN next ELSE f[i]]
    OBVIOUS
  <2>4. ASSUME NEW i \in 0..(k + 1)
        PROVE  g[i] = IF i = 0 THEN [ok |-> TRUE, db |-> db] ELSE updateUtxoDb(g[i - 1], txs[i])
    <3>1. CASE i = k + 1
      <4>1. g[i] = next /\ g[i - 1] = f[k] /\ i - 1 = k /\ i # 0
        BY <2>3, <3>1
      <4> QED
        BY <2>2, <3>1, <4>1
    <3>2. CASE i = 0
      BY <2>1, <2>3, <3>2 DEF UpdatedBy
    <3>3. CASE i # k + 1 /\ i # 0
      <4>1. i \in 0..k /\ i - 1 \in 0..k /\ g[i] = f[i] /\ g[i - 1] = f[i - 1]
        BY <2>3, <3>3
      <4>2. f[i] = updateUtxoDb(f[i - 1], txs[i])
        BY <2>1, <3>3, <4>1 DEF UpdatedBy
      <4> QED
        BY <3>3, <4>1, <4>2
    <3> QED
      BY <3>1, <3>2, <3>3
  <2>5. g = [i \in 0..(k + 1) |-> g[i]]
    BY <2>3
  <2>6. g = [i \in 0..(k + 1) |->
               IF i = 0 THEN [ok |-> TRUE, db |-> db] ELSE updateUtxoDb(g[i - 1], txs[i])]
    BY <2>4, <2>5, Zenon
  <2> QED
    BY <1>2, <2>6 DEF UpdatedBy
<1>3. \E f : UpdatedBy(f, db, txs, n)
  <2>1. T \in SUBSET (0..n)
    OBVIOUS
  <2> HIDE DEF T
  <2>2. \A k \in 0..n : k \in T
    BY <1>1, <1>2, <2>1, UpTo
  <2> QED
    BY <2>2 DEF T
<1>4. PICK f : UpdatedBy(f, db, txs, n) /\ updateAll(db, txs) = f[n]
  BY <1>3, Zenon DEF UpdatedBy, updateAll
<1>5. PICK first : first = [ok |-> TRUE, db |-> db]
  OBVIOUS
<1>6. f = [i \in 0..n |-> IF i = 0 THEN first ELSE updateUtxoDb(f[i - 1], txs[i])]
  BY <1>4, <1>5, Zenon DEF UpdatedBy
<1>7. f[0] = first /\ \A i \in 1..n : f[i] = updateUtxoDb(f[i - 1], txs[i])
  BY <1>6
<1> QED
  BY <1>4, <1>5, <1>7

\* Output i of h is made by one of the first k transactions of txs, and none of
\* those after it spends the output.
MadeIn(txs, k, h, i) ==
    \E p \in 1..k : txs[p] = h /\ \A q \in (p + 1)..k : ~Spends(txs[q], h, i)

\* The database after the first k transactions of txs.
DbAfter(db, txs, new, k) ==
    /\ IsRes(new)
    /\ new.ok => /\ IsDb(new.db)
                 /\ \A h, i : Free(new.db, h, i) <=>
                        /\ i \in DOMAIN Contents(h).outs
                        /\ \/ Free(db, h, i) /\ \A q \in 1..k : ~Spends(txs[q], h, i)
                           \/ MadeIn(txs, k, h, i)

\* A block leaves free what it makes or finds free, and does not spend after that.
LEMMA UpdateAll ==
    ASSUME NEW db, IsDb(db), NEW txs, Len(txs) \in Nat,
           \A q \in 1..Len(txs) : NamesOutputs(txs[q])
    PROVE  DbAfter(db, txs, updateAll(db, txs), Len(txs))
<1> DEFINE n == Len(txs)
<1>1. PICK f : /\ f[0] = [ok |-> TRUE, db |-> db] /\ updateAll(db, txs) = f[n]
               /\ \A i \in 1..n : f[i] = updateUtxoDb(f[i - 1], txs[i])
  BY UpdateAllRun
<1> DEFINE T == {k \in 0..n : DbAfter(db, txs, f[k], k)}
<1>2. 0 \in T
  <2>1. \A h, i : ~MadeIn(txs, 0, h, i) /\ (Free(db, h, i) => i \in DOMAIN Contents(h).outs)
    BY DEF MadeIn, Free
  <2>2. IsRes(f[0]) /\ f[0].db = db
    BY <1>1 DEF IsRes
  <2>3. 1..0 = {}
    OBVIOUS
  <2> QED
    BY <2>1, <2>2, <2>3 DEF DbAfter
<1>3. ASSUME NEW k \in 0..(n - 1), k \in T PROVE k + 1 \in T
  <2>1. PICK old, new, t : old = f[k] /\ new = f[k + 1] /\ t = txs[k + 1]
    OBVIOUS
  <2>2. DbAfter(db, txs, old, k) /\ k + 1 \in 1..n
    BY <1>3, <2>1
  <2>3. new = updateUtxoDb(old, t) /\ NamesOutputs(t)
    <3>1. f[k + 1] = updateUtxoDb(f[(k + 1) - 1], txs[k + 1]) /\ (k + 1) - 1 = k
      BY <1>1, <2>2
    <3> QED
      BY <2>1, <2>2, <3>1
  <2>4. IsRes(old) /\ (old.ok => IsDb(old.db))
    BY <2>2 DEF DbAfter
  <2>5. /\ IsRes(new)
        /\ new.ok => /\ old.ok /\ IsDb(new.db)
                     /\ \A h, i : Free(new.db, h, i) <=>
                           IF h = t THEN i \in DOMAIN Contents(t).outs
                           ELSE Free(old.db, h, i) /\ ~Spends(t, h, i)
    BY <2>3, <2>4, UpdateUtxo
  <2>6. ASSUME new.ok, NEW h, NEW i
        PROVE  Free(new.db, h, i) <=>
                 /\ i \in DOMAIN Contents(h).outs
                 /\ \/ Free(db, h, i) /\ \A q \in 1..(k + 1) : ~Spends(txs[q], h, i)
                    \/ MadeIn(txs, k + 1, h, i)
    <3>1. Free(old.db, h, i) <=>
            /\ i \in DOMAIN Contents(h).outs
            /\ \/ Free(db, h, i) /\ \A q \in 1..k : ~Spends(txs[q], h, i)
               \/ MadeIn(txs, k, h, i)
      BY <2>2, <2>5, <2>6 DEF DbAfter
    <3>2. (\A q \in 1..(k + 1) : ~Spends(txs[q], h, i)) <=>
            (\A q \in 1..k : ~Spends(txs[q], h, i)) /\ ~Spends(t, h, i)
      <4>1. 1..(k + 1) = 1..k \cup {k + 1}
        OBVIOUS
      <4> QED
        BY <2>1, <4>1
    <3>3. CASE h = t
      <4>1. k + 1 \in 1..(k + 1) /\ txs[k + 1] = h /\ ((k + 1) + 1)..(k + 1) = {}
        BY <2>1, <3>3
      <4>2. MadeIn(txs, k + 1, h, i)
        BY <4>1 DEF MadeIn
      <4> QED
        BY <2>5, <2>6, <3>3, <4>2
    <3>4. CASE h # t
      <4>1. ASSUME MadeIn(txs, k + 1, h, i) PROVE MadeIn(txs, k, h, i) /\ ~Spends(t, h, i)
        <5>1. PICK p \in 1..(k + 1) :
                txs[p] = h /\ \A q \in (p + 1)..(k + 1) : ~Spends(txs[q], h, i)
          BY <4>1 DEF MadeIn
        <5>2. p \in 1..k /\ k + 1 \in (p + 1)..(k + 1) /\ (p + 1)..k \subseteq (p + 1)..(k + 1)
          BY <2>1, <3>4, <5>1
        <5> QED
          BY <2>1, <5>1, <5>2 DEF MadeIn
      <4>2. ASSUME MadeIn(txs, k, h, i), ~Spends(t, h, i) PROVE MadeIn(txs, k + 1, h, i)
        <5>1. PICK p \in 1..k : txs[p] = h /\ \A q \in (p + 1)..k : ~Spends(txs[q], h, i)
          BY <4>2 DEF MadeIn
        <5>2. p \in 1..(k + 1) /\ (p + 1)..(k + 1) = (p + 1)..k \cup {k + 1}
          BY <5>1
        <5> QED
          BY <2>1, <4>2, <5>1, <5>2 DEF MadeIn
      <4> QED
        BY <2>5, <2>6, <3>1, <3>2, <3>4, <4>1, <4>2
    <3> QED
      BY <3>3, <3>4
  <2>7. DbAfter(db, txs, new, k + 1)
    BY <2>5, <2>6 DEF DbAfter
  <2> QED
    BY <1>3, <2>1, <2>7
<1>4. T \in SUBSET (0..n)
  OBVIOUS
<1> HIDE DEF T
<1>5. \A k \in 0..n : k \in T
  BY <1>2, <1>3, <1>4, UpTo
<1> QED
  BY <1>1, <1>5 DEF T
-----------------------------------------------------------------------------
(* The main chain as a history of transactions. *)

History(bs, chain) == [a \in DOMAIN chain |-> bs[chain[a]].txs]

\* After n blocks output i of h is made and not spent since.
Unspent(hist, n, h, i) ==
    \E a \in 1..n : \E p \in 1..Len(hist[a]) :
        /\ hist[a][p] = h
        /\ \A c \in a..n : \A q \in 1..Len(hist[c]) :
              (c > a \/ q > p) => ~Spends(hist[c][q], h, i)

\* Every block spends what was made and not spent before it.
SpendsPaid(hist, n) ==
    \A c \in 1..n : \A q \in 1..Len(hist[c]) : \A h, i :
        Spends(hist[c][q], h, i) => Unspent(hist, c - 1, h, i)

\* The database says of each output what the first n blocks say.
FromChain(hist, n, db) ==
    /\ IsDb(db)
    /\ \A h, i : Free(db, h, i) <=> i \in DOMAIN Contents(h).outs /\ Unspent(hist, n, h, i)

\* The inductive invariant of a node: its chain spends what is there, and its
\* database is derived from its chain until it panics.
Traced(bs, st) ==
    LET hist == History(bs, st.Blockchain)
        n == Len(st.Blockchain)
    IN  SpendsPaid(hist, n) /\ (~st.panicked => FromChain(hist, n, st.Utxo))

\* Blocks mined later do not change a history.
LEMMA HistoryLater ==
    ASSUME NEW len \in Nat, NEW bs, NEW more, \A i \in 1..len : more[i] = bs[i],
           NEW chain \in Seq(1..len)
    PROVE  History(more, chain) = History(bs, chain)
<1>1. \A i \in DOMAIN chain : chain[i] \in 1..len
  OBVIOUS
<1>2. \A i \in DOMAIN chain : more[chain[i]] = bs[chain[i]]
  BY <1>1
<1> QED
  BY <1>2 DEF History

\* The history of a chain with one more block.
LEMMA HistoryAppend ==
    ASSUME NEW S, NEW bs, NEW chain \in Seq(S), NEW b, NEW new,
           new = History(bs, Append(chain, b))
    PROVE  /\ Len(chain) \in Nat /\ Len(Append(chain, b)) = Len(chain) + 1
           /\ new[Len(chain) + 1] = bs[b].txs
           /\ \A a \in 1..Len(chain) : new[a] = History(bs, chain)[a]
<1>1. PICK T, more : T = S \cup {b} /\ more = Append(chain, b)
  OBVIOUS
<1>2. chain \in Seq(T) /\ b \in T
  BY <1>1
<1>3. /\ Len(chain) \in Nat /\ Len(more) = Len(chain) + 1 /\ DOMAIN more = 1..(Len(chain) + 1)
      /\ DOMAIN chain = 1..Len(chain) /\ more[Len(chain) + 1] = b
      /\ \A a \in 1..Len(chain) : more[a] = chain[a]
  BY <1>1, <1>2
<1> QED
  BY <1>1, <1>3 DEF History

\* What is unspent depends on the blocks counted only.
LEMMA UnspentAlike ==
    ASSUME NEW hist, NEW other, NEW n \in Int, \A a \in 1..n : other[a] = hist[a],
           NEW h, NEW i, Unspent(hist, n, h, i)
    PROVE  Unspent(other, n, h, i)
<1>1. PICK a \in 1..n : \E p \in 1..Len(hist[a]) :
        /\ hist[a][p] = h
        /\ \A c \in a..n : \A q \in 1..Len(hist[c]) :
              (c > a \/ q > p) => ~Spends(hist[c][q], h, i)
  BY DEF Unspent
<1>2. PICK p \in 1..Len(hist[a]) :
        /\ hist[a][p] = h
        /\ \A c \in a..n : \A q \in 1..Len(hist[c]) :
              (c > a \/ q > p) => ~Spends(hist[c][q], h, i)
  BY <1>1
<1>3. other[a] = hist[a] /\ \A c \in a..n : other[c] = hist[c]
  OBVIOUS
<1>4. p \in 1..Len(other[a]) /\ other[a][p] = h
  BY <1>2, <1>3
<1>5. \A c \in a..n : \A q \in 1..Len(other[c]) :
        (c > a \/ q > p) => ~Spends(other[c][q], h, i)
  BY <1>2, <1>3
<1> QED
  BY <1>4, <1>5 DEF Unspent

\* What is unspent after one more block.
LEMMA UnspentNext ==
    ASSUME NEW hist, NEW n \in Nat, NEW txs, txs = hist[n + 1], Len(txs) \in Nat, NEW h, NEW i
    PROVE  Unspent(hist, n + 1, h, i) <=>
             \/ Unspent(hist, n, h, i) /\ \A q \in 1..Len(txs) : ~Spends(txs[q], h, i)
             \/ MadeIn(txs, Len(txs), h, i)
<1>1. ASSUME Unspent(hist, n + 1, h, i)
      PROVE  \/ Unspent(hist, n, h, i) /\ \A q \in 1..Len(txs) : ~Spends(txs[q], h, i)
             \/ MadeIn(txs, Len(txs), h, i)
  <2>0. PICK a \in 1..(n + 1) : \E p \in 1..Len(hist[a]) :
          /\ hist[a][p] = h
          /\ \A c \in a..(n + 1) : \A q \in 1..Len(hist[c]) :
                (c > a \/ q > p) => ~Spends(hist[c][q], h, i)
    BY <1>1 DEF Unspent
  <2>1. PICK p \in 1..Len(hist[a]) :
          /\ hist[a][p] = h
          /\ \A c \in a..(n + 1) : \A q \in 1..Len(hist[c]) :
                (c > a \/ q > p) => ~Spends(hist[c][q], h, i)
    BY <2>0
  <2>2. CASE a = n + 1
    <3>1. p \in 1..Len(txs) /\ txs[p] = h
      BY <2>1, <2>2
    <3>2. ASSUME NEW q \in (p + 1)..Len(txs) PROVE ~Spends(txs[q], h, i)
      <4>1. q \in 1..Len(hist[a]) /\ q > p /\ a \in a..(n + 1)
        BY <2>2, <3>1
      <4> QED
        BY <2>1, <2>2, <4>1
    <3> QED
      BY <3>1, <3>2 DEF MadeIn
  <2>3. CASE a # n + 1
    <3>1. a \in 1..n /\ n + 1 \in a..(n + 1) /\ n + 1 > a /\ a..n \subseteq a..(n + 1)
      BY <2>3
    <3>2. \A q \in 1..Len(txs) : ~Spends(txs[q], h, i)
      BY <2>1, <3>1
    <3>3. Unspent(hist, n, h, i)
      BY <2>1, <3>1 DEF Unspent
    <3> QED
      BY <3>2, <3>3
  <2> QED
    BY <2>2, <2>3
<1>2. ASSUME MadeIn(txs, Len(txs), h, i) PROVE Unspent(hist, n + 1, h, i)
  <2>1. PICK p \in 1..Len(txs) : txs[p] = h /\ \A q \in (p + 1)..Len(txs) : ~Spends(txs[q], h, i)
    BY <1>2 DEF MadeIn
  <2>2. ASSUME NEW c \in (n + 1)..(n + 1), NEW q \in 1..Len(hist[c]), c > n + 1 \/ q > p
        PROVE  ~Spends(hist[c][q], h, i)
    <3>1. c = n + 1
      BY <2>2
    <3>2. q \in (p + 1)..Len(txs)
      BY <2>2, <3>1
    <3> QED
      BY <2>1, <3>1, <3>2
  <2>3. n + 1 \in 1..(n + 1) /\ p \in 1..Len(hist[n + 1]) /\ hist[n + 1][p] = h
    BY <2>1
  <2> QED
    BY <2>2, <2>3 DEF Unspent
<1>3. ASSUME Unspent(hist, n, h, i), \A q \in 1..Len(txs) : ~Spends(txs[q], h, i)
      PROVE  Unspent(hist, n + 1, h, i)
  <2>0. PICK a \in 1..n : \E p \in 1..Len(hist[a]) :
          /\ hist[a][p] = h
          /\ \A c \in a..n : \A q \in 1..Len(hist[c]) :
                (c > a \/ q > p) => ~Spends(hist[c][q], h, i)
    BY <1>3 DEF Unspent
  <2>1. PICK p \in 1..Len(hist[a]) :
          /\ hist[a][p] = h
          /\ \A c \in a..n : \A q \in 1..Len(hist[c]) :
                (c > a \/ q > p) => ~Spends(hist[c][q], h, i)
    BY <2>0
  <2>2. a \in 1..(n + 1) /\ a..(n + 1) = a..n \cup {n + 1}
    OBVIOUS
  <2> QED
    BY <1>3, <2>1, <2>2 DEF Unspent
<1> QED
  BY <1>1, <1>2, <1>3

\* The transactions of a block that passes validateBlockTxs name outputs that
\* exist, and those they spend are free.
LEMMA ValidBlockInputs ==
    ASSUME NEW bs, NEW st, IsDb(st.Utxo), NEW block, block.txs \in Seq(TxHash),
           validateBlockTxs(bs, st, block), NEW q \in 1..Len(block.txs)
    PROVE  /\ NamesOutputs(block.txs[q])
           /\ \A h, i : Spends(block.txs[q], h, i) => Free(st.Utxo, h, i)
<1>1. PICK t, tx, db : t = block.txs[q] /\ tx = Contents(t) /\ db = st.Utxo
  OBVIOUS
<1>2. tx.type # "COINBASE" => validTx(bs, st, t)
  BY <1>1 DEF validateBlockTxs
<1>3. CASE t \notin User
  <2>1. tx.ins = <<>>
    BY <1>1, <1>3 DEF Contents
  <2>2. Len(<<>>) = 0 /\ DOMAIN <<>> = 1..0 /\ 1..0 = {}
    OBVIOUS
  <2> QED
    BY <1>1, <2>1, <2>2 DEF NamesOutputs, Spends
<1>4. CASE t \in User
  <2>1. tx = Body[t]
    BY <1>1, <1>4, Zenon DEF Contents
  <2>2. /\ tx.type # "COINBASE"
        /\ tx.ins \in Seq([prev : TxHash \cup {Nil}, idx : Nat, key : Key, sig : Key \cup {Nil}])
        /\ \A j \in DOMAIN tx.ins :
              tx.ins[j].prev # Nil => tx.ins[j].idx \in DOMAIN Contents(tx.ins[j].prev).outs
    BY <1>4, <2>1, BodyAssumption
  <2>3. PICK ins : ins = tx.ins
    OBVIOUS
  <2>4. Len(ins) \in Nat /\ DOMAIN ins = 1..Len(ins)
    BY <2>2, <2>3
  <2>5. ASSUME NEW j \in DOMAIN ins
        PROVE  /\ ins[j].idx \in DOMAIN Contents(ins[j].prev).outs
               /\ Free(db, ins[j].prev, ins[j].idx)
    <3>1. validInput(tx, ins[j], db)
      BY <1>1, <1>2, <2>2, <2>3 DEF validTx, validateTransaction
    <3>2. ins[j].prev # Nil /\ ins[j].prev \in DOMAIN db /\ ~db[ins[j].prev][ins[j].idx].spent
      BY <2>3, <3>1 DEF validInput, validateComponents
    <3> QED
      BY <2>2, <2>3, <3>2 DEF Free
  <2>6. NamesOutputs(t)
    BY <1>1, <2>3, <2>4, <2>5 DEF NamesOutputs
  <2>7. \A h, i : Spends(t, h, i) => Free(db, h, i)
    BY <1>1, <2>3, <2>5 DEF Spends
  <2> QED
    BY <1>1, <2>6, <2>7
<1> QED
  BY <1>3, <1>4

\* A block that is accepted keeps a node traced, also when it makes it panic.
LEMMA AcceptsTraced ==
    ASSUME NEW S, NEW bs, NEW st, NEW new, NEW b, st.Blockchain \in Seq(S),
           bs[b].txs \in Seq(TxHash), Traced(bs, st), Accepts(bs, st, new, b)
    PROVE  Traced(bs, new)
<1>1. PICK chain, n, hist, after, txs, block, db :
        /\ chain = st.Blockchain /\ n = Len(chain) /\ hist = History(bs, chain)
        /\ after = History(bs, Append(chain, b)) /\ block = bs[b] /\ txs = block.txs
        /\ db = st.Utxo
  OBVIOUS
<1>2. /\ n \in Nat /\ Len(Append(chain, b)) = n + 1 /\ after[n + 1] = txs
      /\ \A a \in 1..n : after[a] = hist[a]
  BY <1>1, HistoryAppend
<1>3. SpendsPaid(hist, n) /\ FromChain(hist, n, db)
  BY <1>1 DEF Traced, Accepts
<1>4. txs \in Seq(TxHash) /\ Len(txs) \in Nat
  BY <1>1
<1>5. \A q \in 1..Len(txs) : /\ NamesOutputs(txs[q])
                             /\ \A h, i : Spends(txs[q], h, i) => Free(db, h, i)
  <2>1. IsDb(st.Utxo) /\ block.txs \in Seq(TxHash) /\ validateBlockTxs(bs, st, block)
    BY <1>1, <1>3, <1>4 DEF FromChain, Accepts
  <2> QED
    BY <1>1, <2>1, ValidBlockInputs
<1>6. \A m \in 0..n : \A h, i : Unspent(hist, m, h, i) <=> Unspent(after, m, h, i)
  <2> SUFFICES ASSUME NEW m \in 0..n, NEW h, NEW i
               PROVE  Unspent(hist, m, h, i) <=> Unspent(after, m, h, i)
    OBVIOUS
  <2>1. m \in Int /\ \A a \in 1..m : after[a] = hist[a] /\ hist[a] = after[a]
    BY <1>2
  <2> QED
    BY <2>1, UnspentAlike
<1>7. SpendsPaid(after, n + 1)
  <2> SUFFICES ASSUME NEW c \in 1..(n + 1), NEW q \in 1..Len(after[c]), NEW h, NEW i,
                      Spends(after[c][q], h, i)
               PROVE  Unspent(after, c - 1, h, i)
    BY DEF SpendsPaid
  <2>1. CASE c = n + 1
    <3>1. Free(db, h, i)
      BY <1>2, <1>5, <2>1
    <3>2. Unspent(hist, n, h, i) /\ n \in 0..n
      BY <1>2, <1>3, <3>1 DEF FromChain
    <3>3. c - 1 = n
      BY <1>2, <2>1
    <3> QED
      BY <1>6, <3>2, <3>3
  <2>2. CASE c # n + 1
    <3>1. c \in 1..n /\ c - 1 \in 0..n /\ after[c] = hist[c]
      BY <1>2, <2>2
    <3>2. Unspent(hist, c - 1, h, i)
      BY <1>3, <3>1 DEF SpendsPaid
    <3> QED
      BY <1>6, <3>1, <3>2
  <2> QED
    BY <2>1, <2>2
<1>8. ASSUME ~new.panicked PROVE FromChain(after, n + 1, new.Utxo)
  <2>1. PICK res : res = updateAll(db, txs)
    OBVIOUS
  <2>2. res.ok /\ new.Utxo = res.db
    BY <1>1, <1>8, <2>1 DEF Accepts
  <2>3. DbAfter(db, txs, res, Len(txs))
    <3>1. IsDb(db)
      BY <1>3 DEF FromChain
    <3> QED
      BY <1>4, <1>5, <2>1, <3>1, UpdateAll
  <2>4. ASSUME NEW h, NEW i
        PROVE  Free(res.db, h, i) <=> i \in DOMAIN Contents(h).outs /\ Unspent(after, n + 1, h, i)
    <3>1. Free(res.db, h, i) <=>
            /\ i \in DOMAIN Contents(h).outs
            /\ \/ Free(db, h, i) /\ \A q \in 1..Len(txs) : ~Spends(txs[q], h, i)
               \/ MadeIn(txs, Len(txs), h, i)
      BY <2>2, <2>3 DEF DbAfter
    <3>2. Free(db, h, i) <=> i \in DOMAIN Contents(h).outs /\ Unspent(after, n, h, i)
      <4>1. n \in 0..n
        BY <1>2
      <4> QED
        BY <1>3, <1>6, <4>1 DEF FromChain
    <3>3. Unspent(after, n + 1, h, i) <=>
            \/ Unspent(after, n, h, i) /\ \A q \in 1..Len(txs) : ~Spends(txs[q], h, i)
            \/ MadeIn(txs, Len(txs), h, i)
      BY <1>2, <1>4, UnspentNext
    <3> QED
      BY <3>1, <3>2, <3>3
  <2>5. IsDb(res.db)
    BY <2>2, <2>3 DEF DbAfter
  <2> QED
    BY <2>2, <2>4, <2>5 DEF FromChain
<1>9. new.Blockchain = Append(chain, b)
  BY <1>1 DEF Accepts
<1> QED
  BY <1>1, <1>2, <1>7, <1>8, <1>9 DEF Traced

\* The genesis transaction spends nothing.
LEMMA GenesisSpends ==
    /\ Contents(GenesisTx).ins = <<>> /\ NamesOutputs(GenesisTx)
    /\ \A h, i : ~Spends(GenesisTx, h, i)
<1>1. Contents(GenesisTx).ins = <<>>
  BY HashAssumption DEF Contents
<1>2. Len(<<>>) = 0 /\ DOMAIN <<>> = 1..0 /\ 1..0 = {}
  OBVIOUS
<1> QED
  BY <1>1, <1>2 DEF NamesOutputs, Spends

\* The database of the genesis block is the one its transaction makes.
LEMMA GenesisDb == DbAfter(<<>>, <<GenesisTx>>, updateAll(<<>>, <<GenesisTx>>), 1)
                   /\ updateAll(<<>>, <<GenesisTx>>).ok
<1>1. PICK txs, none : txs = <<GenesisTx>> /\ none = <<>>
  OBVIOUS
<1>2. /\ Len(txs) = 1 /\ Len(txs) \in Nat /\ txs[1] = GenesisTx /\ 1..1 = {1}
      /\ IsDb(none)
  BY <1>1 DEF IsDb
<1>3. DbAfter(none, txs, updateAll(none, txs), Len(txs))
  <2>1. \A q \in 1..Len(txs) : NamesOutputs(txs[q])
    BY <1>2, GenesisSpends
  <2> QED
    BY ONLY <1>2, <2>1, UpdateAll
<1>4. PICK f : /\ f[0] = [ok |-> TRUE, db |-> none] /\ updateAll(none, txs) = f[1]
               /\ f[1] = updateUtxoDb(f[0], GenesisTx)
  <2>1. PICK f : /\ f[0] = [ok |-> TRUE, db |-> none] /\ updateAll(none, txs) = f[Len(txs)]
                 /\ \A i \in 1..Len(txs) : f[i] = updateUtxoDb(f[i - 1], txs[i])
    BY ONLY <1>2, UpdateAllRun
  <2>2. f[1] = updateUtxoDb(f[1 - 1], txs[1]) /\ 1 - 1 = 0
    BY <1>2, <2>1
  <2> QED
    BY <1>2, <2>1, <2>2
<1>5. PICK first, ins : first = f[0] /\ ins = Contents(GenesisTx).ins
  OBVIOUS
<1>6. ins = <<>> /\ Len(ins) = 0
  BY <1>5, GenesisSpends
<1>7. spendInputs(first, ins) = first
  <2>1. PICK g : g[0] = first /\ spendInputs(first, ins) = g[Len(ins)]
    BY <1>6, SpendInputsRun
  <2> QED
    BY <1>6, <2>1
<1>8. first.ok = TRUE
  BY <1>4, <1>5
<1>9. f[1] = [first EXCEPT !.db = addOutputs(first.db, GenesisTx)]
  BY <1>4, <1>5, <1>7, <1>8 DEF updateUtxoDb
<1>10. f[1].ok
  BY <1>4, <1>5, <1>9
<1> QED
  BY <1>1, <1>2, <1>3, <1>4, <1>10

\* At first every node is traced.
LEMMA TracedInit == Init => \A n \in Node : Traced(blocks, node[n])
<1> SUFFICES ASSUME Init, NEW n \in Node PROVE Traced(blocks, node[n])
  OBVIOUS
<1>1. blocks[1].txs = <<GenesisTx>>
  BY DEF Init, GenerateGenesisBlock, Block
<1>2. node[n].Blockchain = <<1>> /\ node[n].Utxo = updateAll(<<>>, <<GenesisTx>>).db
  BY DEF Init, bootstrap, GenesisUtxo
<1>3. PICK hist, txs : hist = History(blocks, <<1>>) /\ txs = <<GenesisTx>>
  OBVIOUS
<1>4. hist[1] = txs /\ Len(txs) = 1 /\ txs[1] = GenesisTx /\ Len(<<1>>) = 1
  BY <1>1, <1>3 DEF History
<1>5. SpendsPaid(hist, 1)
  BY <1>4, GenesisSpends DEF SpendsPaid
<1>6. PICK res : res = updateAll(<<>>, txs)
  OBVIOUS
<1>7. res.ok /\ DbAfter(<<>>, txs, res, 1)
  BY <1>3, <1>6, GenesisDb
<1>8. FromChain(hist, 1, res.db)
  <2>1. ASSUME NEW h, NEW i
        PROVE  Free(res.db, h, i) <=> i \in DOMAIN Contents(h).outs /\ Unspent(hist, 1, h, i)
    <3>1. Free(res.db, h, i) <=>
            /\ i \in DOMAIN Contents(h).outs
            /\ \/ Free(<<>>, h, i) /\ \A q \in 1..1 : ~Spends(txs[q], h, i)
               \/ MadeIn(txs, 1, h, i)
      BY <1>7 DEF DbAfter
    <3>2. ~Free(<<>>, h, i) /\ ~Unspent(hist, 0, h, i)
      BY DEF Free, Unspent
    <3>3. txs = hist[0 + 1] /\ Len(txs) \in Nat /\ 0 + 1 = 1 /\ 0 \in Nat
      BY <1>4
    <3>4. Unspent(hist, 0 + 1, h, i) <=>
            \/ Unspent(hist, 0, h, i) /\ \A q \in 1..Len(txs) : ~Spends(txs[q], h, i)
            \/ MadeIn(txs, Len(txs), h, i)
      BY <3>3, UnspentNext
    <3> QED
      BY <1>4, <3>1, <3>2, <3>3, <3>4
  <2> QED
    BY <1>7, <2>1 DEF FromChain, DbAfter
<1> QED
  BY <1>2, <1>3, <1>4, <1>5, <1>6, <1>8 DEF Traced

\* No step of the network makes a database differ from its chain.
LEMMA TracedStep ==
    ASSUME Shape, Fresh, \A n \in Node : Traced(blocks, node[n]), [Next]_vars
    PROVE  \A n \in Node : Traced(blocks', node'[n])
<1> SUFFICES ASSUME NEW n \in Node PROVE Traced(blocks', node'[n])
  OBVIOUS
<1>1. Shape'
  BY ShapeStep
<1>2. /\ Len(blocks) \in Nat /\ node[n].Blockchain \in Seq(1..Len(blocks))
      /\ Len(blocks') \in Nat /\ \A b \in 1..Len(blocks') : blocks'[b].txs \in Seq(TxHash)
  BY <1>1 DEF Shape, TypeOK, BlocksOK, NodesOK, IsNode, IsBlock
<1>3. /\ \A i \in 1..Len(blocks) : blocks'[i] = blocks[i]
      /\ Len(blocks') = Len(blocks) \/ Len(blocks') = Len(blocks) + 1
  BY StepMoves DEF Mines, Moves
<1>4. Traced(blocks', node[n])
  <2>1. PICK len, bs, more, chain : /\ len = Len(blocks) /\ bs = blocks /\ more = blocks'
                                    /\ chain = node[n].Blockchain
    OBVIOUS
  <2>2. len \in Nat /\ chain \in Seq(1..len) /\ \A i \in 1..len : more[i] = bs[i]
    BY <1>2, <1>3, <2>1
  <2>3. History(more, chain) = History(bs, chain)
    BY ONLY <2>2, HistoryLater
  <2> QED
    BY <2>1, <2>3 DEF Traced
<1>5. \/ Idle(node[n], node'[n])
      \/ \E b \in 1..Len(blocks') : Accepts(blocks', node[n], node'[n], b)
  <2>1. ASSUME NEW m \in Node, Mines(m)
        PROVE  \/ Idle(node[n], node'[n])
               \/ \E b \in 1..Len(blocks') : Accepts(blocks', node[n], node'[n], b)
    <3>1. Len(blocks') \in 1..Len(blocks') /\ Len(blocks') = Len(blocks) + 1
      BY <1>2, <2>1 DEF Mines
    <3> QED
      BY <2>1, <3>1 DEF Mines, Idle
  <2> QED
    BY <2>1, StepMoves DEF Moves
<1>6. CASE Idle(node[n], node'[n])
  BY <1>4, <1>6 DEF Idle, Traced
<1>7. ASSUME NEW b \in 1..Len(blocks'), Accepts(blocks', node[n], node'[n], b)
      PROVE  Traced(blocks', node'[n])
  BY <1>2, <1>4, <1>7, AcceptsTraced
<1> QED
  BY <1>5, <1>6, <1>7

\* Every node is traced in every state.
LEMMA TracedInvariant == Spec => [](Shape /\ \A n \in Node : Traced(blocks, node[n]))
<1>1. Shape /\ Fresh /\ (\A n \in Node : Traced(blocks, node[n])) /\ [Next]_vars =>
        (\A n \in Node : Traced(blocks, node[n]))'
  BY TracedStep
<1> QED
  BY <1>1, TracedInit, FreshInvariant, PTL DEF Spec
-----------------------------------------------------------------------------
(* Theorems about outputs. *)

\* What a block spends, output by output.
LEMMA OutpointsAre ==
    ASSUME NEW b, blocks[b].txs \in Seq(TxHash), NEW h, NEW i
    PROVE  <<h, i>> \in Outpoints(b) <=>
             \E q \in 1..Len(blocks[b].txs) : Spends(blocks[b].txs[q], h, i)
<1>1. PICK txs : txs = blocks[b].txs
  OBVIOUS
<1>2. DOMAIN txs = 1..Len(txs)
  BY <1>1
<1>3. <<h, i>> \in Outpoints(b) <=>
        \E t \in ToSet(txs) : \E in \in ToSet(Contents(t).ins) : <<h, i>> = <<in.prev, in.idx>>
  BY <1>1 DEF Outpoints
<1>4. \A t : Spends(t, h, i) <=> \E in \in ToSet(Contents(t).ins) : in.prev = h /\ in.idx = i
  BY DEF Spends, ToSet
<1>5. \A x, y : <<h, i>> = <<x, y>> <=> x = h /\ y = i
  OBVIOUS
<1>6. <<h, i>> \in Outpoints(b) <=> \E t \in ToSet(txs) : Spends(t, h, i)
  BY <1>3, <1>4, <1>5
<1> QED
  BY <1>1, <1>2, <1>6 DEF ToSet

\* What a block spends are pairs.
LEMMA OutpointsPairs ==
    ASSUME NEW b, NEW o \in Outpoints(b)
    PROVE  o = <<o[1], o[2]>>
BY DEF Outpoints

\* An output spent in one block of a main chain is not spent in a later one, at
\* any number of nodes, miners and clerks and in whatever order blocks arrive,
\* unless a second coinbase made it again in between. Of two spends in the same
\* block it says nothing: mine() puts them there (run double_spend).
THEOREM NoLaterSpend == Spec => []NeverSpentLater
<1>1. ASSUME Shape, \A n \in Node : Traced(blocks, node[n])
      PROVE  NeverSpentLater
  <2> SUFFICES ASSUME NEW n \in Node,
                      NEW i \in DOMAIN node[n].Blockchain, NEW j \in DOMAIN node[n].Blockchain, i < j,
                      NEW o \in Outpoints(node[n].Blockchain[i]) \cap Outpoints(node[n].Blockchain[j])
               PROVE  \E k \in i..(j - 1) : o[1] \in ToSet(blocks[node[n].Blockchain[k]].txs)
    BY DEF NeverSpentLater
  <2>1. PICK chain, hist, len : /\ chain = node[n].Blockchain /\ hist = History(blocks, chain)
                                /\ len = Len(chain)
    OBVIOUS
  <2>2. /\ chain \in Seq(1..Len(blocks)) /\ len \in Nat /\ DOMAIN chain = 1..len
        /\ \A b \in 1..Len(blocks) : blocks[b].txs \in Seq(TxHash)
    <3>1. chain \in Seq(1..Len(blocks)) /\ \A b \in 1..Len(blocks) : blocks[b].txs \in Seq(TxHash)
      BY <1>1, <2>1 DEF Shape, TypeOK, BlocksOK, NodesOK, IsNode, IsBlock
    <3> QED
      BY <2>1, <3>1
  <2>3. \A a \in 1..len : hist[a] = blocks[chain[a]].txs /\ hist[a] \in Seq(TxHash)
    <3>1. \A a \in 1..len : chain[a] \in 1..Len(blocks)
      BY ONLY <2>2
    <3>2. hist = [a \in 1..len |-> blocks[chain[a]].txs]
      BY <2>1, <2>2 DEF History
    <3> QED
      BY <2>2, <3>1, <3>2
  <2>4. SpendsPaid(hist, len)
    BY <1>1, <2>1 DEF Traced
  <2>5. PICK h, x : o = <<h, x>>
    BY OutpointsPairs
  <2>6. PICK q \in 1..Len(hist[i]), r \in 1..Len(hist[j]) :
          Spends(hist[i][q], h, x) /\ Spends(hist[j][r], h, x)
    <3>1. /\ i \in 1..len /\ j \in 1..len
          /\ chain[i] \in 1..Len(blocks) /\ chain[j] \in 1..Len(blocks)
      <4>1. i \in 1..len /\ j \in 1..len
        BY <2>1, <2>2
      <4>2. \A a \in 1..len : chain[a] \in 1..Len(blocks)
        BY ONLY <2>2
      <4> QED
        BY <4>1, <4>2
    <3>2. /\ blocks[chain[i]].txs \in Seq(TxHash) /\ blocks[chain[j]].txs \in Seq(TxHash)
          /\ <<h, x>> \in Outpoints(chain[i]) /\ <<h, x>> \in Outpoints(chain[j])
      BY <2>1, <2>2, <2>5, <3>1
    <3>3. /\ \E q \in 1..Len(blocks[chain[i]].txs) : Spends(blocks[chain[i]].txs[q], h, x)
          /\ \E q \in 1..Len(blocks[chain[j]].txs) : Spends(blocks[chain[j]].txs[q], h, x)
      BY <3>2, OutpointsAre
    <3> QED
      BY <2>3, <3>1, <3>3
  <2>7. Unspent(hist, j - 1, h, x)
    BY <2>1, <2>2, <2>4, <2>6 DEF SpendsPaid
  <2>8. PICK a \in 1..(j - 1) : \E p \in 1..Len(hist[a]) :
          /\ hist[a][p] = h
          /\ \A c \in a..(j - 1) : \A s \in 1..Len(hist[c]) :
                (c > a \/ s > p) => ~Spends(hist[c][s], h, x)
    BY <2>7 DEF Unspent
  <2>9. i \in 1..len /\ j \in 1..len
    BY <2>1, <2>2
  <2>10. a \in i..(j - 1)
    <3>1. ASSUME ~(i <= a) PROVE FALSE
      <4>1. i \in a..(j - 1) /\ i > a
        BY <2>9, <3>1
      <4> QED
        BY <2>6, <2>8, <4>1
    <3> QED
      BY <2>9, <3>1
  <2>11. h \in ToSet(blocks[chain[a]].txs)
    <3>1. a \in 1..len
      BY <2>2, <2>9, <2>10
    <3>2. DOMAIN hist[a] = 1..Len(hist[a])
      BY <2>3, <3>1
    <3> QED
      BY <2>3, <2>8, <3>1, <3>2 DEF ToSet
  <2> QED
    BY <2>1, <2>5, <2>10, <2>11
<1> QED
  BY <1>1, TracedInvariant, PTL

\* The wallet of an address, output by output.
LEMMA WalletIs ==
    ASSUME NEW db, IsDb(db), NEW addr, NEW u
    PROVE  u \in GetUnspentTxs(db, addr) <=>
             \E h, i : /\ Free(db, h, i) /\ Contents(h).outs[i].addr = addr
                      /\ u = [prev |-> h, idx |-> i, value |-> Contents(h).outs[i].value]
<1>1. u \in GetUnspentTxs(db, addr) <=>
        \E h \in DOMAIN db : \E i \in DOMAIN db[h] :
            /\ ~db[h][i].spent /\ db[h][i].addr = addr
            /\ u = [prev |-> h, idx |-> i, value |-> db[h][i].value]
  BY DEF GetUnspentTxs
<1>2. \A h \in DOMAIN db :
        /\ DOMAIN db[h] = DOMAIN Contents(h).outs
        /\ \A i \in DOMAIN db[h] : /\ db[h][i].addr = Contents(h).outs[i].addr
                                   /\ db[h][i].value = Contents(h).outs[i].value
  BY DEF IsDb, IsEntry
<1> QED
  BY <1>1, <1>2 DEF Free

\* Transaction h is at place p of block a and nowhere else.
OnlyAt(hist, n, h, a, p) ==
    /\ a \in 1..n /\ p \in 1..Len(hist[a]) /\ hist[a][p] = h
    /\ \A c \in 1..n : \A q \in 1..Len(hist[c]) : hist[c][q] = h => c = a /\ q = p

\* An output of a transaction that is on the chain once is unspent if no block
\* spends it: none can before it is made.
LEMMA OncePaid ==
    ASSUME NEW n, NEW hist, NEW h, NEW i, NEW a, NEW p,
           n \in Nat, SpendsPaid(hist, n), OnlyAt(hist, n, h, a, p)
    PROVE  Unspent(hist, n, h, i) <=>
             \A c \in 1..n : \A q \in 1..Len(hist[c]) : ~Spends(hist[c][q], h, i)
<1> USE DEF OnlyAt
<1>1. ASSUME Unspent(hist, n, h, i), NEW c \in 1..n, NEW q \in 1..Len(hist[c]),
             Spends(hist[c][q], h, i)
      PROVE  FALSE
  <2>1. Unspent(hist, c - 1, h, i)
    BY <1>1 DEF SpendsPaid
  <2>2. PICK b \in 1..(c - 1) : \E r \in 1..Len(hist[b]) : hist[b][r] = h
    BY <2>1 DEF Unspent
  <2>3. b = a
    BY <2>2
  <2>4. PICK d \in 1..n : \E r \in 1..Len(hist[d]) :
          /\ hist[d][r] = h
          /\ \A e \in d..n : \A s \in 1..Len(hist[e]) :
                (e > d \/ s > r) => ~Spends(hist[e][s], h, i)
    BY <1>1 DEF Unspent
  <2>5. d = a /\ c \in d..n /\ c > d
    BY <2>2, <2>3, <2>4
  <2> QED
    BY <1>1, <2>4, <2>5
<1>2. ASSUME \A c \in 1..n : \A q \in 1..Len(hist[c]) : ~Spends(hist[c][q], h, i)
      PROVE  Unspent(hist, n, h, i)
  <2>1. a..n \subseteq 1..n
    OBVIOUS
  <2> QED
    BY <1>2, <2>1 DEF Unspent
<1> QED
  BY <1>1, <1>2

\* The database of a node is derived from its main chain: a wallet is what the
\* chain paid to the key and spent nowhere, whichever of mine, SendBlock and
\* replayLog brought the blocks in.
THEOREM WalletTraced == Spec => []WalletFromChain
<1>1. ASSUME Shape, \A n \in Node : Traced(blocks, node[n])
      PROVE  WalletFromChain
  <2> SUFFICES ASSUME NEW n \in Node, Alive(n)
               PROVE  LET chain == node[n].Blockchain
                          places == UNION {{<<i, p, blocks[chain[i]].txs[p]>> :
                                              p \in DOMAIN blocks[chain[i]].txs} : i \in DOMAIN chain}
                          txs == {a[3] : a \in places}
                          once == {a[3] : a \in {b \in places :
                                                   \A c \in places : c[3] = b[3] => c = b}}
                          spent == UNION {Outpoints(b) : b \in ToSet(chain)}
                          paid(k) == UNION {{[prev |-> h, idx |-> i,
                                              value |-> Contents(h).outs[i].value] :
                                     i \in {j \in DOMAIN Contents(h).outs :
                                               /\ Contents(h).outs[j].addr = PKHash(k)
                                               /\ <<h, j>> \notin spent}} : h \in once}
                      IN  \A k \in Key : LET wallet == GetUnspentTxs(node[n].Utxo, PKHash(k)) IN
                             /\ {u \in wallet : u.prev \in once} = paid(k)
                             /\ \A u \in wallet : u.prev \in txs
    BY DEF WalletFromChain
  <2> DEFINE chain == node[n].Blockchain
             places == UNION {{<<i, p, blocks[chain[i]].txs[p]>> :
                                 p \in DOMAIN blocks[chain[i]].txs} : i \in DOMAIN chain}
             txs == {a[3] : a \in places}
             once == {a[3] : a \in {b \in places : \A c \in places : c[3] = b[3] => c = b}}
             spent == UNION {Outpoints(b) : b \in ToSet(chain)}
             paid(k) == UNION {{[prev |-> h, idx |-> i, value |-> Contents(h).outs[i].value] :
                                  i \in {j \in DOMAIN Contents(h).outs :
                                            /\ Contents(h).outs[j].addr = PKHash(k)
                                            /\ <<h, j>> \notin spent}} : h \in once}
             wallet(k) == GetUnspentTxs(node[n].Utxo, PKHash(k))
             hist == History(blocks, chain)
             len == Len(chain)
  <2>1. /\ chain \in Seq(1..Len(blocks)) /\ len \in Nat /\ DOMAIN chain = 1..len
        /\ \A b \in 1..Len(blocks) : blocks[b].txs \in Seq(TxHash)
    BY <1>1 DEF Shape, TypeOK, BlocksOK, NodesOK, IsNode, IsBlock
  <2>2. \A a \in 1..len : /\ chain[a] \in 1..Len(blocks)
                          /\ hist[a] = blocks[chain[a]].txs /\ hist[a] \in Seq(TxHash)
                          /\ DOMAIN hist[a] = 1..Len(hist[a])
    BY <2>1 DEF History
  <2>3. SpendsPaid(hist, len) /\ FromChain(hist, len, node[n].Utxo)
    BY <1>1 DEF Traced, Alive
  <2> HIDE DEF hist, len
  <2>4. \A x : x \in places <=>
          \E a \in 1..len : \E p \in 1..Len(hist[a]) : x = <<a, p, hist[a][p]>>
    <3>1. \A x : x \in places <=>
            \E a \in DOMAIN chain : \E p \in DOMAIN blocks[chain[a]].txs :
                x = <<a, p, blocks[chain[a]].txs[p]>>
      OBVIOUS
    <3> HIDE DEF places
    <3>2. \A a \in 1..len : DOMAIN blocks[chain[a]].txs = 1..Len(hist[a])
      BY <2>2
    <3>3. ASSUME NEW x, NEW a \in 1..len
          PROVE  (\E p \in DOMAIN blocks[chain[a]].txs : x = <<a, p, blocks[chain[a]].txs[p]>>) <=>
                 (\E p \in 1..Len(hist[a]) : x = <<a, p, hist[a][p]>>)
      BY <2>2, <3>2
    <3>4. DOMAIN chain = 1..len
      BY <2>1
    <3> HIDE DEF chain
    <3> QED
      BY <3>1, <3>3, <3>4
  <2> HIDE DEF places
  <2>5. ASSUME NEW a \in 1..len, NEW p \in 1..Len(hist[a]) PROVE hist[a][p] \in txs
    <3>1. PICK x : x = <<a, p, hist[a][p]>>
      OBVIOUS
    <3>2. x \in places /\ x[3] = hist[a][p]
      BY <2>4, <3>1
    <3> QED
      BY <3>2
  <2>6. ASSUME NEW h \in once
        PROVE  \E a, p : OnlyAt(hist, len, h, a, p)
    <3>1. PICK b \in places : h = b[3] /\ \A c \in places : c[3] = b[3] => c = b
      OBVIOUS
    <3>2. PICK a \in 1..len : \E p \in 1..Len(hist[a]) : b = <<a, p, hist[a][p]>>
      BY <2>4, <3>1
    <3>3. PICK p \in 1..Len(hist[a]) : b = <<a, p, hist[a][p]>>
      BY <3>2
    <3>4. ASSUME NEW c \in 1..len, NEW q \in 1..Len(hist[c]), hist[c][q] = h
          PROVE  c = a /\ q = p
      <4>1. <<c, q, hist[c][q]>> \in places
        BY <2>4
      <4>2. <<c, q, hist[c][q]>> = b
        BY <3>1, <3>4, <4>1
      <4> QED
        BY <3>3, <4>2
    <3> QED
      BY <3>1, <3>3, <3>4 DEF OnlyAt
  <2>7. \A h, i : <<h, i>> \in spent <=>
          \E c \in 1..len : \E q \in 1..Len(hist[c]) : Spends(hist[c][q], h, i)
    <3>1. \A x : x \in spent <=> \E c \in 1..len : x \in Outpoints(chain[c])
      BY <2>1 DEF ToSet
    <3>2. \A c \in 1..len : \A h, i : <<h, i>> \in Outpoints(chain[c]) <=>
            \E q \in 1..Len(hist[c]) : Spends(hist[c][q], h, i)
      BY <2>1, <2>2, OutpointsAre
    <3> HIDE DEF spent
    <3> QED
      BY <3>1, <3>2
  <2> HIDE DEF txs, spent, once
  <2>8. \A h \in once : \A i : Unspent(hist, len, h, i) <=> <<h, i>> \notin spent
    <3> SUFFICES ASSUME NEW h \in once, NEW i
                 PROVE  Unspent(hist, len, h, i) <=> <<h, i>> \notin spent
      OBVIOUS
    <3>1. PICK a, p : OnlyAt(hist, len, h, a, p)
      BY <2>6
    <3>2. len \in Nat /\ SpendsPaid(hist, len)
      BY <2>1, <2>3
    <3>3. Unspent(hist, len, h, i) <=>
            \A c \in 1..len : \A q \in 1..Len(hist[c]) : ~Spends(hist[c][q], h, i)
      BY ONLY <3>1, <3>2, OncePaid
    <3> QED
      BY <2>7, <3>3
  <2>9. ASSUME NEW k \in Key
        PROVE  {u \in wallet(k) : u.prev \in once} = paid(k) /\ \A u \in wallet(k) : u.prev \in txs
    <3>1. ASSUME NEW u
          PROVE  u \in wallet(k) <=>
            \E h, i : /\ i \in DOMAIN Contents(h).outs /\ Unspent(hist, len, h, i)
                     /\ Contents(h).outs[i].addr = PKHash(k)
                     /\ u = [prev |-> h, idx |-> i, value |-> Contents(h).outs[i].value]
      BY <2>3, WalletIs DEF FromChain
    <3>2. ASSUME NEW u
          PROVE  u \in paid(k) <=>
            \E h \in once : \E i \in DOMAIN Contents(h).outs :
                /\ Contents(h).outs[i].addr = PKHash(k) /\ <<h, i>> \notin spent
                /\ u = [prev |-> h, idx |-> i, value |-> Contents(h).outs[i].value]
      <4> DEFINE open(h) == {j \in DOMAIN Contents(h).outs :
                               /\ Contents(h).outs[j].addr = PKHash(k)
                               /\ <<h, j>> \notin spent}
                 own(h) == {[prev |-> h, idx |-> i, value |-> Contents(h).outs[i].value] :
                               i \in open(h)}
      <4>1. u \in paid(k) <=> \E h \in once : u \in own(h)
        <5>1. paid(k) = UNION {own(h) : h \in once}
          OBVIOUS
        <5> HIDE DEF own, paid
        <5> QED
          BY <5>1
      <4>2. \A h : u \in own(h) <=>
              \E i \in open(h) :
                 u = [prev |-> h, idx |-> i, value |-> Contents(h).outs[i].value]
        <5> HIDE DEF open
        <5> QED
          OBVIOUS
      <4> HIDE DEF own, paid
      <4> QED
        BY <4>1, <4>2
    <3> HIDE DEF wallet, paid
    <3>3. \A h, i, v : [prev |-> h, idx |-> i, value |-> v].prev = h
      OBVIOUS
    <3>4. ASSUME NEW u PROVE (u \in wallet(k) /\ u.prev \in once) <=> u \in paid(k)
      <4>1. ASSUME u \in wallet(k), u.prev \in once PROVE u \in paid(k)
        <5>1. PICK h, i : /\ i \in DOMAIN Contents(h).outs /\ Unspent(hist, len, h, i)
                          /\ Contents(h).outs[i].addr = PKHash(k)
                          /\ u = [prev |-> h, idx |-> i, value |-> Contents(h).outs[i].value]
          BY <3>1, <4>1
        <5>2. h \in once
          BY <3>3, <4>1, <5>1
        <5> QED
          BY <2>8, <3>2, <5>1, <5>2
      <4>2. ASSUME u \in paid(k) PROVE u \in wallet(k) /\ u.prev \in once
        <5>1. PICK h \in once : \E i \in DOMAIN Contents(h).outs :
                /\ Contents(h).outs[i].addr = PKHash(k) /\ <<h, i>> \notin spent
                /\ u = [prev |-> h, idx |-> i, value |-> Contents(h).outs[i].value]
          BY <3>2, <4>2
        <5>2. PICK i \in DOMAIN Contents(h).outs :
                /\ Contents(h).outs[i].addr = PKHash(k) /\ <<h, i>> \notin spent
                /\ u = [prev |-> h, idx |-> i, value |-> Contents(h).outs[i].value]
          BY <5>1
        <5> QED
          BY <2>8, <3>1, <3>3, <5>2
      <4> QED
        BY <4>1, <4>2
    <3>5. ASSUME NEW u \in wallet(k) PROVE u.prev \in txs
      <4>1. Unspent(hist, len, u.prev, u.idx)
        BY <3>1
      <4> QED
        BY <2>5, <4>1 DEF Unspent
    <3> QED
      BY <3>4, <3>5
  <2> QED
    BY <2>9 DEF places, txs, once, spent
<1> QED
  BY <1>1, TracedInvariant, PTL
=============================================================================
