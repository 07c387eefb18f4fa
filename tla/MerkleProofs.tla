---------------------------- MODULE MerkleProofs ----------------------------
(***************************************************************************)
(* The linear array of BuildMerkleTreeStore holds the rows of the tree one *)
(* after the other, and the root fixes the transactions of a block, for    *)
(* any lists of transactions.                                              *)
(***************************************************************************)
EXTENDS MerkleRows, LedgerProofs, WellFoundedInduction, SequenceTheorems

\* Induction up to n, as the least element that is missing.
LEMMA UpTo ==
    ASSUME NEW n \in Nat, NEW T \in SUBSET (0..n), 0 \in T,
           \A m \in 0..(n - 1) : m \in T => m + 1 \in T
    PROVE  \A m \in 0..n : m \in T
<1> DEFINE R == {ss \in Nat \X Nat : ss[1] < ss[2]}
           missing == (0..n) \ T
<1>1. IsWellFoundedOn(R, Nat)
  BY NatLessThanWellFounded DEF OpToRel
<1>2. SUFFICES ASSUME missing # {} PROVE FALSE
  OBVIOUS
<1>3. missing \subseteq Nat
  OBVIOUS
<1>4. PICK x \in missing : \A y \in missing : ~(<<y, x>> \in R)
  <2> HIDE DEF missing, R
  <2> QED
    BY <1>1, <1>2, <1>3, WFMin
<1>5. \A y \in missing : ~(y < x)
  BY <1>3, <1>4
<1>6. x # 0 /\ x - 1 \in 0..(n - 1) /\ x - 1 \notin missing
  BY <1>5
<1>7. (x - 1) + 1 \in T
  BY <1>6
<1> QED
  BY <1>7
-----------------------------------------------------------------------------
(* The powers of two. *)

LEMMA Powers ==
    ASSUME NEW n \in Nat
    PROVE  /\ powers(n) \in [0..n -> Nat \ {0}] /\ powers(n)[0] = 1
           /\ \A e \in 1..n : powers(n)[e] = 2 * powers(n)[e - 1]
<1> DEFINE Upto(m, f) == f \in [0..m -> Nat \ {0}] /\ f[0] = 1 /\ \A e \in 1..m : f[e] = 2 * f[e - 1]
           T == {m \in 0..n : \E f : Upto(m, f)}
<1>1. 0 \in T
  <2>1. PICK g : g = [e \in 0..0 |-> 1]
    OBVIOUS
  <2>2. g \in [0..0 -> Nat \ {0}] /\ g[0] = 1
    BY <2>1
  <2>3. Upto(0, g)
    BY <2>2
  <2> QED
    BY <2>3
<1>2. ASSUME NEW m \in 0..(n - 1), m \in T PROVE m + 1 \in T
  <2>1. PICK f : Upto(m, f)
    BY <1>2
  <2>2. PICK g : g = [e \in 0..(m + 1) |-> IF e <= m THEN f[e] ELSE 2 * f[m]]
    OBVIOUS
  <2>3. \A e \in 0..m : g[e] = f[e] /\ f[e] \in Nat \ {0}
    BY <2>1, <2>2
  <2>4. g[m + 1] = 2 * f[m] /\ f[m] \in Nat \ {0}
    BY <2>1, <2>2
  <2>5. g \in [0..(m + 1) -> Nat \ {0}]
    <3>1. \A e \in 0..(m + 1) : g[e] \in Nat \ {0}
      BY <2>3, <2>4
    <3> QED
      BY <2>2, <3>1
  <2>6. g[0] = 1
    BY <2>1, <2>3
  <2>7. ASSUME NEW e \in 1..(m + 1) PROVE g[e] = 2 * g[e - 1]
    <3>1. CASE e \in 1..m
      <4>1. e - 1 \in 0..m /\ e \in 0..m
        BY <3>1
      <4> QED
        BY <2>1, <2>3, <3>1, <4>1
    <3>2. CASE e = m + 1
      <4>1. e - 1 = m /\ m \in 0..m
        BY <3>2
      <4> QED
        BY <2>3, <2>4, <3>2, <4>1
    <3> QED
      BY <3>1, <3>2
  <2>8. Upto(m + 1, g)
    BY <2>5, <2>6, <2>7
  <2>9. m + 1 \in 0..n
    OBVIOUS
  <2> HIDE DEF Upto
  <2> QED
    BY <2>8, <2>9
<1>3. PICK f : Upto(n, f)
  <2>1. T \in SUBSET (0..n)
    OBVIOUS
  <2> HIDE DEF T
  <2>2. \A m \in 0..n : m \in T
    BY <1>1, <1>2, <2>1, UpTo
  <2>3. n \in 0..n
    OBVIOUS
  <2> QED
    BY <2>2, <2>3 DEF T
<1>4. f = [e \in 0..n |-> IF e = 0 THEN 1 ELSE 2 * f[e - 1]]
  <2>1. f = [e \in 0..n |-> f[e]]
    BY <1>3
  <2>2. \A e \in 0..n : f[e] = IF e = 0 THEN 1 ELSE 2 * f[e - 1]
    BY <1>3
  <2> QED
    BY <2>1, <2>2, Zenon
<1>5. PICK power : /\ power = [e \in 0..n |-> IF e = 0 THEN 1 ELSE 2 * power[e - 1]]
                   /\ powers(n) = power
  BY <1>4, Zenon DEF powers
<1>6. power[0] = 1 /\ \A e \in 1..n : power[e] = 2 * power[e - 1]
  BY <1>5
<1> DEFINE P == {m \in 0..n : power[m] \in Nat \ {0}}
<1>7. 0 \in P /\ P \in SUBSET (0..n)
  BY <1>6
<1>8. ASSUME NEW m \in 0..(n - 1), m \in P PROVE m + 1 \in P
  <2>1. m + 1 \in 1..n /\ (m + 1) - 1 = m
    OBVIOUS
  <2>2. power[m + 1] = 2 * power[m]
    BY <1>6, <2>1
  <2> QED
    BY <1>8, <2>2
<1>9. \A m \in 0..n : power[m] \in Nat \ {0}
  <2> HIDE DEF P
  <2>1. \A m \in 0..n : m \in P
    BY <1>7, <1>8, UpTo
  <2> QED
    BY <2>1 DEF P
<1> QED
  BY <1>5, <1>6, <1>9

\* nextPowerOfTwo finds a power of two between its argument and its double.
LEMMA NextPower ==
    ASSUME NEW n \in Nat \ {0}
    PROVE  \E E \in 0..n : /\ nextPowerOfTwo(n) = powers(n)[E]
                           /\ n <= powers(n)[E] /\ powers(n)[E] < 2 * n
<1>1. PICK p : p = powers(n)
  OBVIOUS
<1>2. /\ p \in [0..n -> Nat \ {0}] /\ p[0] = 1
      /\ \A e \in 1..n : p[e] = 2 * p[e - 1]
  BY <1>1, Powers
<1> DEFINE T == {m \in 0..(n - 1) : \E e \in 0..m : m + 1 <= p[e] /\ p[e] < 2 * (m + 1)}
<1>3. 0 \in T /\ T \in SUBSET (0..(n - 1))
  <2>1. 0 \in 0..(n - 1) /\ 0 \in 0..0 /\ 0 + 1 <= p[0] /\ p[0] < 2 * (0 + 1)
    BY <1>2
  <2> QED
    BY <2>1
<1>4. ASSUME NEW m \in 0..((n - 1) - 1), m \in T PROVE m + 1 \in T
  <2>1. PICK e \in 0..m : m + 1 <= p[e] /\ p[e] < 2 * (m + 1)
    BY <1>4
  <2>2. m + 1 \in 0..(n - 1) /\ e \in 0..(m + 1) /\ e \in 0..n
    OBVIOUS
  <2>0. p[e] \in Nat
    BY <1>2, <2>2
  <2>3. CASE p[e] >= m + 2
    BY <2>0, <2>1, <2>2, <2>3
  <2>4. CASE p[e] = m + 1
    <3>1. e + 1 \in 1..n /\ (e + 1) - 1 = e /\ e + 1 \in 0..(m + 1)
      OBVIOUS
    <3>2. p[e + 1] = 2 * p[e]
      BY <1>2, <3>1
    <3>3. m + 2 <= p[e + 1] /\ p[e + 1] < 2 * (m + 2)
      BY <2>4, <3>2
    <3> QED
      BY <2>2, <3>1, <3>3
  <2> QED
    BY <2>0, <2>1, <2>2, <2>3, <2>4
<1>5. PICK e \in 0..n : n <= p[e] /\ p[e] < 2 * n
  <2>1. n - 1 \in T
    <3> HIDE DEF T
    <3>1. n - 1 \in Nat
      OBVIOUS
    <3>2. \A m \in 0..(n - 1) : m \in T
      BY <1>3, <1>4, <3>1, UpTo
    <3>3. n - 1 \in 0..(n - 1)
      BY <3>1
    <3> QED
      BY <3>2, <3>3
  <2>2. (n - 1) + 1 = n
    OBVIOUS
  <2> QED
    BY <2>1, <2>2
<1>6. /\ nextPowerOfTwo(n) \in {p[x] : x \in 0..n}
      /\ nextPowerOfTwo(n) >= n /\ nextPowerOfTwo(n) < 2 * n
  <2>1. nextPowerOfTwo(n) = CHOOSE q \in {p[x] : x \in 0..n} : q >= n /\ q < 2 * n
    BY <1>1 DEF nextPowerOfTwo
  <2>2. \E q \in {p[x] : x \in 0..n} : q >= n /\ q < 2 * n
    BY <1>2, <1>5
  <2> QED
    BY <2>1, <2>2
<1> QED
  BY <1>1, <1>2, <1>6
-----------------------------------------------------------------------------
(* The two recursions: the rows of the tree, and the cells of the array. *)

Leaves(hashes) == [i \in DOMAIN hashes |-> <<hashes[i]>>]

Rows(hashes, row) ==
    /\ row[0] = Leaves(hashes)
    /\ \A d \in 1..Len(hashes) : row[d] = RowAbove(row[d - 1])

TopRow(n, row) ==
    CHOOSE d \in 0..n : Len(row[d]) = 1 /\ \A e \in 0..(d - 1) : Len(row[e]) > 1

\* RootByRows is computed from rows that exist.
LEMMA RowsExist ==
    ASSUME NEW hashes, NEW n \in Nat, n = Len(hashes)
    PROVE  \E row : Rows(hashes, row) /\ RootByRows(hashes) = row[TopRow(n, row)][1]
<1> DEFINE first == Leaves(hashes)
           Upto(m, f) == /\ f = [d \in 0..m |-> f[d]]
                         /\ f[0] = first /\ \A d \in 1..m : f[d] = RowAbove(f[d - 1])
           T == {m \in 0..n : \E f : Upto(m, f)}
<1> HIDE DEF first
<1>1. 0 \in T /\ T \in SUBSET (0..n)
  <2>1. PICK g : g = [d \in 0..0 |-> first]
    OBVIOUS
  <2>2. g = [d \in 0..0 |-> g[d]] /\ g[0] = first
    BY <2>1
  <2>3. Upto(0, g)
    BY <2>2
  <2> QED
    BY <2>3
<1>2. ASSUME NEW m \in 0..(n - 1), m \in T PROVE m + 1 \in T
  <2>1. PICK f : Upto(m, f)
    BY <1>2
  <2>2. PICK g : g = [d \in 0..(m + 1) |-> IF d <= m THEN f[d] ELSE RowAbove(f[m])]
    OBVIOUS
  <2>3. \A d \in 0..m : g[d] = f[d]
    BY <2>2
  <2>4. g[m + 1] = RowAbove(f[m])
    BY <2>2
  <2>5. g = [d \in 0..(m + 1) |-> g[d]]
    BY <2>2
  <2>6. g[0] = first
    BY <2>1, <2>3
  <2>7. ASSUME NEW d \in 1..(m + 1) PROVE g[d] = RowAbove(g[d - 1])
    <3>1. CASE d \in 1..m
      <4>1. d - 1 \in 0..m /\ d \in 0..m
        BY <3>1
      <4> QED
        BY <2>1, <2>3, <3>1, <4>1
    <3>2. CASE d = m + 1
      <4>1. d - 1 = m /\ m \in 0..m
        BY <3>2
      <4> QED
        BY <2>3, <2>4, <3>2, <4>1
    <3> QED
      BY <3>1, <3>2
  <2>8. Upto(m + 1, g)
    BY <2>5, <2>6, <2>7
  <2>9. m + 1 \in 0..n
    OBVIOUS
  <2> HIDE DEF Upto
  <2> QED
    BY <2>8, <2>9
<1>3. PICK f : Upto(n, f)
  <2> HIDE DEF T
  <2>1. \A m \in 0..n : m \in T
    BY <1>1, <1>2, UpTo
  <2>2. n \in 0..n
    OBVIOUS
  <2> QED
    BY <2>1, <2>2 DEF T
<1>4. f = [d \in 0..n |-> IF d = 0 THEN first ELSE RowAbove(f[d - 1])]
  <2>1. f = [d \in 0..n |-> f[d]]
    BY <1>3
  <2>2. \A d \in 0..n : f[d] = IF d = 0 THEN first ELSE RowAbove(f[d - 1])
    BY <1>3
  <2> QED
    BY <2>1, <2>2, Zenon
<1>5. PICK row : /\ row = [d \in 0..n |-> IF d = 0 THEN first ELSE RowAbove(row[d - 1])]
                 /\ RootByRows(hashes) = row[TopRow(n, row)][1]
  BY <1>4, Zenon DEF RootByRows, first, Leaves, TopRow
<1>6. row[0] = first /\ \A d \in 1..n : row[d] = RowAbove(row[d - 1])
  BY <1>5
<1>7. Rows(hashes, row)
  BY <1>6 DEF Rows, first
<1> QED
  BY <1>5, <1>7

Parent(left, right) ==
    IF left = <<>> THEN <<>>
    ELSE HashMerkleBranches(left, IF right = <<>> THEN left ELSE right)

Cells(hashes, P, m) ==
    /\ \A i \in 1..P : m[i] = IF i <= Len(hashes) THEN <<hashes[i]>> ELSE <<>>
    /\ \A i \in (P + 1)..(2 * P - 1) : m[i] = Parent(m[2 * (i - P) - 1], m[2 * (i - P)])

ArrayOf(hashes, P) ==
    LET m[i \in 1..(2 * P - 1)] ==
            IF i <= P THEN IF i <= Len(hashes) THEN <<hashes[i]>> ELSE <<>>
            ELSE Parent(m[2 * (i - P) - 1], m[2 * (i - P)])
    IN  m

\* BuildMerkleTreeStore is computed from cells that exist.
LEMMA CellsExist ==
    ASSUME NEW hashes, NEW P \in Nat \ {0}, P = nextPowerOfTwo(Len(hashes))
    PROVE  \E m : Cells(hashes, P, m) /\ BuildMerkleTreeStore(hashes) = m[2 * P - 1]
<1> DEFINE size == 2 * P - 1
           leaf(i) == IF i <= Len(hashes) THEN <<hashes[i]>> ELSE <<>>
           cell(f, i) == IF i <= P THEN leaf(i) ELSE Parent(f[2 * (i - P) - 1], f[2 * (i - P)])
           Upto(n, f) == f = [i \in 1..n |-> f[i]] /\ \A i \in 1..n : f[i] = cell(f, i)
           T == {n \in 0..size : \E f : Upto(n, f)}
<1> HIDE DEF leaf
<1>1. 0 \in T /\ T \in SUBSET (0..size)
  <2>1. PICK g : g = [i \in 1..0 |-> 0]
    OBVIOUS
  <2>2. g = [i \in 1..0 |-> g[i]]
    BY <2>1
  <2>3. Upto(0, g)
    BY <2>2
  <2>4. 0 \in 0..size
    OBVIOUS
  <2> HIDE DEF Upto
  <2> QED
    BY <2>3, <2>4
<1>2. ASSUME NEW n \in 0..(size - 1), n \in T PROVE n + 1 \in T
  <2>1. PICK f : Upto(n, f)
    BY <1>2
  <2>2. PICK g : g = [i \in 1..(n + 1) |-> IF i <= n THEN f[i] ELSE cell(f, n + 1)]
    OBVIOUS
  <2>3. \A i \in 1..n : g[i] = f[i]
    BY <2>2
  <2>4. g[n + 1] = cell(f, n + 1)
    BY <2>2
  <2>5. g = [i \in 1..(n + 1) |-> g[i]]
    BY <2>2
  <2>6. ASSUME NEW i \in 1..(n + 1) PROVE cell(g, i) = cell(f, i)
    <3>1. CASE i <= P
      BY <3>1
    <3>2. CASE i > P
      <4>1. 2 * (i - P) - 1 \in 1..n /\ 2 * (i - P) \in 1..n
        BY <3>2
      <4>2. /\ g[2 * (i - P) - 1] = f[2 * (i - P) - 1]
            /\ g[2 * (i - P)] = f[2 * (i - P)]
        BY <2>3, <4>1
      <4> QED
        BY <3>2, <4>2
    <3> QED
      BY <3>1, <3>2
  <2>7. ASSUME NEW i \in 1..(n + 1) PROVE g[i] = cell(g, i)
    <3>1. CASE i \in 1..n
      <4> HIDE DEF cell
      <4> QED
        BY <2>1, <2>3, <2>6, <3>1
    <3>2. CASE i = n + 1
      <4> HIDE DEF cell
      <4> QED
        BY <2>4, <2>6, <3>2
    <3> QED
      BY <3>1, <3>2
  <2>8. Upto(n + 1, g)
    BY <2>5, <2>7
  <2>9. n + 1 \in 0..size
    OBVIOUS
  <2> HIDE DEF Upto
  <2> QED
    BY <2>8, <2>9
<1>3. PICK f : Upto(size, f)
  <2>1. size \in Nat
    OBVIOUS
  <2> HIDE DEF T, size
  <2>2. \A n \in 0..size : n \in T
    BY <1>1, <1>2, <2>1, UpTo
  <2>3. size \in 0..size
    BY <2>1
  <2> QED
    BY <2>2, <2>3 DEF T
<1>4. f = [i \in 1..size |-> cell(f, i)]
  <2>1. f = [i \in 1..size |-> f[i]] /\ \A i \in 1..size : f[i] = cell(f, i)
    BY <1>3
  <2> HIDE DEF cell
  <2> QED
    BY <2>1, Zenon
<1>5. PICK m : m = [i \in 1..size |-> cell(m, i)] /\ MerkleArray(hashes) = m
  <2>1. MerkleArray(hashes) = ArrayOf(hashes, P)
    BY DEF MerkleArray, ArrayOf, Parent
  <2>2. \E m : m = [i \in 1..size |-> cell(m, i)] /\ ArrayOf(hashes, P) = m
    BY <1>4, Zenon DEF ArrayOf, leaf
  <2> HIDE DEF cell, size
  <2> QED
    BY <2>1, <2>2
<1>6. \A i \in 1..size : m[i] = cell(m, i)
  <2> HIDE DEF cell
  <2> QED
    BY <1>5
<1>7. Cells(hashes, P, m)
  <2>1. \A i \in 1..P : i \in 1..size /\ i <= P
    OBVIOUS
  <2>2. \A i \in (P + 1)..size : i \in 1..size /\ ~(i <= P)
    OBVIOUS
  <2>3. \A i \in 1..P : m[i] = leaf(i)
    BY <1>6, <2>1
  <2>4. \A i \in (P + 1)..size : m[i] = Parent(m[2 * (i - P) - 1], m[2 * (i - P)])
    BY <1>6, <2>2
  <2> QED
    BY <2>3, <2>4 DEF Cells, leaf
<1>8. Len(m) = size
  <2>1. m \in [1..size -> {m[i] : i \in 1..size}]
    BY <1>5
  <2>2. size \in Nat
    OBVIOUS
  <2> HIDE DEF size, cell
  <2> QED
    BY <2>1, <2>2
<1>9. BuildMerkleTreeStore(hashes) = m[size]
  BY <1>5, <1>8 DEF BuildMerkleTreeStore
<1> QED
  BY <1>7, <1>9
-----------------------------------------------------------------------------
(* The array holds the rows one after the other. *)

IsRow(row) ==
    /\ Len(row) \in Nat /\ DOMAIN row = 1..Len(row)
    /\ \A i \in 1..Len(row) : row[i] # <<>>

\* The i-th cell of a row that is padded with nil.
Cell(row, i) == IF i <= Len(row) THEN row[i] ELSE <<>>

\* The width cells of the array from offset on hold a row that fills more than
\* half of them.
Holds(m, offset, width, row) ==
    /\ IsRow(row) /\ Len(row) <= width /\ width < 2 * Len(row)
    /\ \A i \in 1..width : m[offset + i] = Cell(row, i)

\* A tuple is not nil.
LEMMA NotNil ==
    ASSUME NEW x, NEW y
    PROVE  <<x>> # <<>> /\ <<x, y>> # <<>> /\ <<x>> # <<x, y>>
<1>1. Len(<<x>>) = 1 /\ Len(<<x, y>>) = 2 /\ Len(<<>>) = 0
  OBVIOUS
<1> QED
  BY <1>1

LEMMA SamePair ==
    ASSUME NEW x, NEW y, NEW u, NEW v, <<x, y>> = <<u, v>>
    PROVE  x = u /\ y = v
OBVIOUS

LEMMA LenIs ==
    ASSUME NEW n \in Nat, NEW f, f = [i \in 1..n |-> f[i]]
    PROVE  Len(f) = n /\ DOMAIN f = 1..n
<1>1. f \in [1..n -> {f[i] : i \in 1..n}]
  OBVIOUS
<1> QED
  BY <1>1

\* RowAbove makes the parents of neighbouring cells.
LEMMA Above ==
    ASSUME NEW row, IsRow(row), NEW n \in Nat, n = Len(row),
           NEW half \in Nat, half = (n + 1) \div 2
    PROVE  /\ IsRow(RowAbove(row)) /\ Len(RowAbove(row)) = half
           /\ \A i \in 1..half :
                RowAbove(row)[i] = Parent(Cell(row, 2 * i - 1), Cell(row, 2 * i))
<1>1. PICK up : up = RowAbove(row)
  OBVIOUS
<1> DEFINE pair(i) == <<row[2 * i - 1], IF 2 * i > n THEN row[2 * i - 1] ELSE row[2 * i]>>
<1>2. up = [i \in 1..half |-> pair(i)]
  BY <1>1 DEF RowAbove
<1>3. \A i \in 1..half : up[i] = pair(i)
  BY <1>2
<1>4. Len(up) = half /\ DOMAIN up = 1..half
  <2>1. up = [i \in 1..half |-> up[i]]
    BY <1>2
  <2> QED
    BY <2>1, LenIs
<1>5. \A i \in 1..half : up[i] # <<>>
  BY <1>3, NotNil, Zenon
<1>6. ASSUME NEW i \in 1..half PROVE up[i] = Parent(Cell(row, 2 * i - 1), Cell(row, 2 * i))
  <2>1. 2 * i - 1 \in 1..n /\ (2 * i <= n => 2 * i \in 1..n) /\ (2 * i > n <=> ~(2 * i <= n))
    OBVIOUS
  <2>2. PICK left, right : left = Cell(row, 2 * i - 1) /\ right = Cell(row, 2 * i)
    OBVIOUS
  <2>3. left = row[2 * i - 1] /\ left # <<>>
    BY <2>1, <2>2 DEF Cell, IsRow
  <2>4. up[i] = pair(i)
    BY <1>3
  <2>5. CASE 2 * i > n
    <3>1. right = <<>>
      BY <2>1, <2>2, <2>5 DEF Cell
    <3>2. up[i] = <<left, left>>
      BY <2>3, <2>4, <2>5
    <3>3. Parent(left, right) = <<left, left>>
      BY <2>3, <3>1 DEF Parent, HashMerkleBranches
    <3> QED
      BY <2>2, <3>2, <3>3
  <2>6. CASE ~(2 * i > n)
    <3>1. right = row[2 * i] /\ right # <<>>
      BY <2>1, <2>2, <2>6 DEF Cell, IsRow
    <3>2. up[i] = <<left, right>>
      BY <2>3, <2>4, <2>6, <3>1
    <3>3. Parent(left, right) = <<left, right>>
      BY <2>3, <3>1 DEF Parent, HashMerkleBranches
    <3> QED
      BY <2>2, <3>2, <3>3
  <2> QED
    BY <2>5, <2>6
<1> QED
  BY <1>1, <1>4, <1>5, <1>6 DEF IsRow

\* Behind a row the array holds the row above it.
LEMMA HoldsAbove ==
    ASSUME NEW hashes, NEW P \in Nat \ {0}, NEW m, Cells(hashes, P, m),
           NEW w \in Nat \ {0}, 2 * w <= P,
           NEW row, Holds(m, 2 * P - 4 * w, 2 * w, row)
    PROVE  Holds(m, 2 * P - 2 * w, w, RowAbove(row))
<1>1. PICK n \in Nat : n = Len(row)
  BY DEF Holds, IsRow
<1>2. n <= 2 * w /\ 2 * w < 2 * n /\ IsRow(row)
  BY <1>1 DEF Holds
<1>3. PICK half \in Nat : half = (n + 1) \div 2
  OBVIOUS
<1>4. half <= w /\ w < 2 * half /\ \A i \in 1..w : i <= half <=> 2 * i - 1 <= n
  BY <1>2, <1>3
<1>5. PICK up : up = RowAbove(row)
  OBVIOUS
<1>6. /\ IsRow(up) /\ Len(up) = half
      /\ \A i \in 1..half : up[i] = Parent(Cell(row, 2 * i - 1), Cell(row, 2 * i))
  BY <1>1, <1>2, <1>3, <1>5, Above
<1>7. ASSUME NEW i \in 1..w PROVE m[(2 * P - 2 * w) + i] = Cell(up, i)
  <2>1. PICK j : j = (2 * P - 2 * w) + i
    OBVIOUS
  <2>2. /\ j \in (P + 1)..(2 * P - 1)
        /\ 2 * (j - P) - 1 = (2 * P - 4 * w) + (2 * i - 1)
        /\ 2 * (j - P) = (2 * P - 4 * w) + 2 * i
        /\ 2 * i - 1 \in 1..(2 * w) /\ 2 * i \in 1..(2 * w)
    BY <2>1
  <2>3. m[j] = Parent(m[2 * (j - P) - 1], m[2 * (j - P)])
    BY <2>2 DEF Cells
  <2>4. /\ m[2 * (j - P) - 1] = Cell(row, 2 * i - 1)
        /\ m[2 * (j - P)] = Cell(row, 2 * i)
    BY <2>2 DEF Holds
  <2>5. m[j] = Parent(Cell(row, 2 * i - 1), Cell(row, 2 * i))
    BY <2>3, <2>4
  <2>6. CASE i <= half
    <3>1. i \in 1..half
      BY <2>6
    <3> QED
      BY <1>6, <2>1, <2>5, <2>6, <3>1 DEF Cell
  <2>7. CASE ~(i <= half)
    <3>1. Cell(row, 2 * i - 1) = <<>>
      BY <1>1, <1>4, <2>7 DEF Cell
    <3>2. m[j] = <<>>
      BY <2>5, <3>1 DEF Parent
    <3> QED
      BY <1>6, <2>1, <2>7, <3>2 DEF Cell
  <2> QED
    BY <2>6, <2>7
<1> QED
  BY <1>4, <1>5, <1>6, <1>7 DEF Holds

\* The rows of a tree of height E.
Tree(hashes, E, row) ==
    /\ E \in 0..Len(hashes) /\ Rows(hashes, row)
    /\ \A d \in 0..E : IsRow(row[d])
    /\ \A d \in 0..(E - 1) : Len(row[d]) > 1
    /\ Len(row[E]) = 1

\* Cell by cell and row by row, the root is the only hash of the last row.
LEMMA RootIsTop ==
    ASSUME NEW S, NEW hashes \in Seq(S), hashes # <<>>
    PROVE  \E E, row : /\ Tree(hashes, E, row)
                       /\ BuildMerkleTreeStore(hashes) = row[E][1]
                       /\ RootByRows(hashes) = row[E][1]
<1>1. PICK n \in Nat \ {0} : n = Len(hashes)
  OBVIOUS
<1>2. PICK p, P, E : /\ p = powers(n) /\ P = nextPowerOfTwo(n)
                     /\ E \in 0..n /\ P = p[E] /\ n <= P /\ P < 2 * n
  BY NextPower
<1>3. p \in [0..n -> Nat \ {0}] /\ p[0] = 1 /\ \A e \in 1..n : p[e] = 2 * p[e - 1]
  BY <1>2, Powers
<1>4. P \in Nat \ {0}
  BY <1>2, <1>3
<1>5. PICK m : Cells(hashes, P, m) /\ BuildMerkleTreeStore(hashes) = m[2 * P - 1]
  BY <1>1, <1>2, <1>4, CellsExist
<1>6. PICK row : Rows(hashes, row) /\ RootByRows(hashes) = row[TopRow(n, row)][1]
  BY <1>1, RowsExist
<1> DEFINE T == {d \in 0..E : p[E - d] <= P /\ Holds(m, 2 * P - 2 * p[E - d], p[E - d], row[d])}
<1>7. 0 \in T /\ T \in SUBSET (0..E)
  <2>1. row[0] = [i \in 1..n |-> <<hashes[i]>>]
    BY <1>1, <1>6 DEF Rows, Leaves
  <2>2. Len(row[0]) = n /\ DOMAIN row[0] = 1..n
    <3>1. PICK r : r = row[0]
      OBVIOUS
    <3>2. r = [i \in 1..n |-> r[i]]
      BY <2>1, <3>1
    <3> QED
      BY <3>1, <3>2, LenIs
  <2>3. \A i \in 1..n : row[0][i] = <<hashes[i]>>
    BY <2>1
  <2>4. IsRow(row[0])
    <3>1. \A i \in 1..n : row[0][i] # <<>>
      BY <2>3, NotNil, Zenon
    <3> QED
      BY <2>2, <3>1 DEF IsRow
  <2>5. ASSUME NEW i \in 1..P PROVE m[0 + i] = Cell(row[0], i)
    <3>1. m[i] = IF i <= n THEN <<hashes[i]>> ELSE <<>>
      BY <1>1, <1>5 DEF Cells
    <3>2. i <= n => i \in 1..n
      BY <1>4
    <3> QED
      BY <1>4, <2>2, <2>3, <3>1, <3>2 DEF Cell
  <2>6. Holds(m, 0, P, row[0])
    BY <1>2, <2>2, <2>4, <2>5 DEF Holds
  <2>7. E - 0 = E /\ 2 * P - 2 * P = 0 /\ P <= P /\ 0 \in 0..E
    BY <1>2, <1>4
  <2>8. p[E - 0] <= P /\ Holds(m, 2 * P - 2 * p[E - 0], p[E - 0], row[0])
    BY <1>2, <2>6, <2>7
  <2> QED
    BY <2>7, <2>8
<1>8. ASSUME NEW d \in 0..(E - 1), d \in T PROVE d + 1 \in T
  <2>1. PICK w \in Nat \ {0} : w = p[E - (d + 1)]
    <3>1. E - (d + 1) \in 0..n
      BY <1>2
    <3> QED
      BY <1>3, <3>1
  <2>2. p[E - d] = 2 * w
    <3>1. E - d \in 1..n /\ (E - d) - 1 = E - (d + 1)
      BY <1>2
    <3> QED
      BY <1>3, <2>1, <3>1
  <2>3. 2 * P - 2 * (2 * w) = 2 * P - 4 * w
    BY <1>4
  <2>4. 2 * w <= P /\ Holds(m, 2 * P - 4 * w, 2 * w, row[d])
    BY <1>8, <2>2, <2>3
  <2>5. Holds(m, 2 * P - 2 * w, w, RowAbove(row[d]))
    <3>1. PICK r : r = row[d]
      OBVIOUS
    <3>2. Holds(m, 2 * P - 4 * w, 2 * w, r) /\ 2 * w <= P /\ Cells(hashes, P, m)
      BY <1>5, <2>4, <3>1
    <3>3. Holds(m, 2 * P - 2 * w, w, RowAbove(r))
      BY ONLY <1>4, <2>1, <3>2, HoldsAbove
    <3> QED
      BY <3>1, <3>3
  <2>6. row[d + 1] = RowAbove(row[d])
    <3>1. d + 1 \in 1..Len(hashes) /\ (d + 1) - 1 = d
      BY <1>1, <1>2
    <3> QED
      BY <1>6, <3>1 DEF Rows
  <2>7. d + 1 \in 0..E /\ w <= P
    BY <1>2, <1>4, <2>4
  <2> QED
    BY <2>1, <2>5, <2>6, <2>7
<1>9. \A d \in 0..E : p[E - d] <= P /\ Holds(m, 2 * P - 2 * p[E - d], p[E - d], row[d])
  <2>1. E \in Nat
    BY <1>2
  <2> HIDE DEF T
  <2>2. \A d \in 0..E : d \in T
    BY <1>7, <1>8, <2>1, UpTo
  <2> QED
    BY <2>2 DEF T
<1>10. ASSUME NEW d \in 0..(E - 1) PROVE Len(row[d]) > 1
  <2>1. d \in 0..E /\ E - d \in 1..n /\ (E - d) - 1 \in 0..n
    BY <1>2
  <2>2. p[E - d] = 2 * p[(E - d) - 1] /\ p[(E - d) - 1] \in Nat \ {0}
    BY <1>3, <2>1
  <2>3. Len(row[d]) \in Nat /\ p[E - d] < 2 * Len(row[d])
    BY <1>9, <2>1 DEF Holds, IsRow
  <2> QED
    BY <2>2, <2>3
<1>11. Len(row[E]) = 1 /\ m[2 * P - 1] = row[E][1]
  <2>1. E \in 0..E /\ E - E = 0
    BY <1>2
  <2>2. Holds(m, 2 * P - 2 * 1, 1, row[E])
    BY <1>3, <1>9, <2>1
  <2>3. Len(row[E]) = 1
    <3>1. PICK len \in Nat : len = Len(row[E]) /\ len <= 1 /\ 1 < 2 * len
      BY <2>2 DEF Holds, IsRow
    <3>2. len <= 1 /\ 1 < 2 * len
      BY <3>1
    <3>3. len = 1
      BY <3>2
    <3> QED
      BY <3>1, <3>3
  <2>4. (2 * P - 2 * 1) + 1 = 2 * P - 1 /\ 1 \in 1..1
    BY <1>4
  <2>5. m[2 * P - 1] = Cell(row[E], 1)
    BY <2>2, <2>4 DEF Holds
  <2> QED
    BY <2>3, <2>5 DEF Cell
<1>12. \A d \in 0..E : IsRow(row[d])
  BY <1>9 DEF Holds
<1>13. TopRow(n, row) = E
  <2> DEFINE Top(d) == Len(row[d]) = 1 /\ \A e \in 0..(d - 1) : Len(row[e]) > 1
  <2>1. Top(E)
    BY <1>10, <1>11
  <2>2. ASSUME NEW d \in 0..n, Top(d) PROVE d = E
    <3>1. CASE d < E
      <4>1. d \in 0..(E - 1) /\ Len(row[d]) = 1
        BY <1>2, <2>2, <3>1
      <4>2. Len(row[d]) > 1
        BY <1>10, <4>1
      <4> QED
        BY <4>1, <4>2
    <3>2. CASE d > E
      <4>1. E \in 0..(d - 1)
        BY <1>2, <3>2
      <4>2. Len(row[E]) > 1
        BY <2>2, <4>1
      <4> QED
        BY <1>11, <4>2
    <3> QED
      BY <1>2, <3>1, <3>2
  <2> HIDE DEF Top
  <2>3. (CHOOSE d \in 0..n : Top(d)) = E
    BY <1>2, <2>1, <2>2
  <2> QED
    BY <2>3 DEF TopRow, Top
<1>14. Tree(hashes, E, row)
  BY <1>1, <1>2, <1>6, <1>10, <1>11, <1>12 DEF Tree
<1> QED
  BY <1>5, <1>6, <1>11, <1>13, <1>14
-----------------------------------------------------------------------------
(* Trees with the same root. *)

\* Two rows, the second cut to the length of the first, hold the same hashes.
Agree(row, other) == \A i \in 1..Len(row) : i <= Len(other) => row[i] = other[i]

\* Rows agree when the rows above them do.
LEMMA AgreeBelow ==
    ASSUME NEW row, NEW other, IsRow(row), IsRow(other),
           Agree(RowAbove(row), RowAbove(other))
    PROVE  Agree(row, other)
<1>1. PICK n \in Nat, l \in Nat : n = Len(row) /\ l = Len(other)
  BY DEF IsRow
<1>2. PICK half \in Nat : half = (n + 1) \div 2
  OBVIOUS
<1>3. PICK rest \in Nat : rest = (l + 1) \div 2
  OBVIOUS
<1>4. PICK up, vp : up = RowAbove(row) /\ vp = RowAbove(other)
  OBVIOUS
<1>5. Len(up) = half /\ Len(vp) = rest
  BY <1>1, <1>2, <1>3, <1>4, Above
<1>6. ASSUME NEW i \in 1..n, i <= l PROVE row[i] = other[i]
  <2>1. PICK j : j = (i + 1) \div 2
    OBVIOUS
  <2>2. j \in 1..half /\ j \in 1..rest /\ (i = 2 * j - 1 \/ i = 2 * j)
    BY <1>2, <1>3, <1>6, <2>1
  <2>3. up[j] = vp[j]
    BY <1>4, <1>5, <2>2 DEF Agree
  <2>4. up[j] = <<row[2 * j - 1], IF 2 * j > n THEN row[2 * j - 1] ELSE row[2 * j]>>
    BY <1>1, <1>2, <1>4, <2>2 DEF RowAbove
  <2>5. vp[j] = <<other[2 * j - 1], IF 2 * j > l THEN other[2 * j - 1] ELSE other[2 * j]>>
    BY <1>1, <1>3, <1>4, <2>2 DEF RowAbove
  <2>6. row[2 * j - 1] = other[2 * j - 1]
    <3>1. PICK y, z : up[j] = <<row[2 * j - 1], y>> /\ vp[j] = <<other[2 * j - 1], z>>
      BY <2>4, <2>5
    <3>2. <<row[2 * j - 1], y>> = <<other[2 * j - 1], z>>
      BY <2>3, <3>1
    <3> QED
      BY ONLY <3>2, SamePair
  <2>7. CASE i = 2 * j
    <3>1. ~(2 * j > n) /\ ~(2 * j > l)
      BY <1>6, <2>7
    <3>2. up[j] = <<row[2 * j - 1], row[2 * j]>> /\ vp[j] = <<other[2 * j - 1], other[2 * j]>>
      BY <2>4, <2>5, <3>1
    <3>3. <<row[2 * j - 1], row[2 * j]>> = <<other[2 * j - 1], other[2 * j]>>
      BY <2>3, <3>2
    <3>4. row[2 * j] = other[2 * j]
      BY ONLY <3>3, SamePair
    <3> QED
      BY <2>7, <3>4
  <2> QED
    BY <2>2, <2>6, <2>7
<1> QED
  BY <1>1, <1>6 DEF Agree

\* The rows of two trees with the same root agree, counted from the top, and the
\* lower tree is as high as the other: a leaf is not a pair.
LEMMA SameTop ==
    ASSUME NEW S, NEW a \in Seq(S), NEW b \in Seq(S), a # <<>>, b # <<>>,
           NEW ea, NEW eb, NEW ra, NEW rb, Tree(a, ea, ra), Tree(b, eb, rb),
           ea <= eb, ra[ea][1] = rb[eb][1]
    PROVE  Agree(Leaves(a), Leaves(b))
<1>1. ea \in Nat /\ eb \in Nat /\ ea \in 0..Len(a) /\ eb \in 0..Len(b)
  BY DEF Tree
<1>2. \A d \in 0..ea : IsRow(ra[d])
  BY DEF Tree
<1>3. \A d \in 0..eb : IsRow(rb[d])
  BY DEF Tree
<1> DEFINE T == {x \in 0..ea : Agree(ra[ea - x], rb[eb - x])}
<1>4. 0 \in T /\ T \in SUBSET (0..ea)
  <2>1. Len(ra[ea]) = 1 /\ Len(rb[eb]) = 1
    BY DEF Tree
  <2>2. Agree(ra[ea], rb[eb])
    BY <2>1 DEF Agree
  <2>3. ea - 0 = ea /\ eb - 0 = eb /\ 0 \in 0..ea
    BY <1>1
  <2> QED
    BY <2>2, <2>3
<1>5. ASSUME NEW x \in 0..(ea - 1), x \in T PROVE x + 1 \in T
  <2>1. PICK c, d : c = ea - (x + 1) /\ d = eb - (x + 1)
    OBVIOUS
  <2>2. /\ c + 1 = ea - x /\ c \in 0..ea /\ c + 1 \in 1..Len(a) /\ (c + 1) - 1 = c
        /\ d + 1 = eb - x /\ d \in 0..eb /\ d + 1 \in 1..Len(b) /\ (d + 1) - 1 = d
        /\ x + 1 \in 0..ea
    BY <1>1, <2>1
  <2>3. ra[c + 1] = RowAbove(ra[c]) /\ rb[d + 1] = RowAbove(rb[d])
    BY <2>2 DEF Tree, Rows
  <2>4. Agree(RowAbove(ra[c]), RowAbove(rb[d]))
    BY <1>5, <2>2, <2>3
  <2>5. PICK r, s : r = ra[c] /\ s = rb[d]
    OBVIOUS
  <2>6. IsRow(r) /\ IsRow(s) /\ Agree(RowAbove(r), RowAbove(s))
    BY <1>2, <1>3, <2>2, <2>4, <2>5
  <2>7. Agree(r, s)
    BY ONLY <2>6, AgreeBelow
  <2> QED
    BY <2>1, <2>2, <2>5, <2>7
<1>6. Agree(ra[0], rb[eb - ea])
  <2> HIDE DEF T
  <2>1. \A x \in 0..ea : x \in T
    BY <1>1, <1>4, <1>5, UpTo
  <2>2. ea \in T
    BY <1>1, <2>1
  <2>3. ea - ea = 0
    BY <1>1
  <2> QED
    BY <2>2, <2>3 DEF T
<1>7. ra[0] = Leaves(a) /\ rb[0] = Leaves(b)
  BY DEF Tree, Rows
<1>8. CASE ea = eb
  BY <1>1, <1>6, <1>7, <1>8
<1>9. CASE ea # eb
  <2>1. PICK d : d = eb - ea
    OBVIOUS
  <2>2. d \in 1..Len(b) /\ d \in 0..eb /\ d - 1 \in 0..eb /\ 0 \in 0..ea
    BY <1>1, <1>9, <2>1
  <2>3. rb[d] = RowAbove(rb[d - 1])
    BY <2>2 DEF Tree, Rows
  <2>4. PICK s : s = rb[d - 1] /\ IsRow(s)
    BY <1>3, <2>2
  <2>5. PICK n \in Nat : n = Len(s)
    BY <2>4 DEF IsRow
  <2>6. PICK half \in Nat : half = (n + 1) \div 2
    OBVIOUS
  <2>7. Len(rb[d]) = half
    <3>1. Len(RowAbove(s)) = half
      BY ONLY <2>5, <2>4, <2>6, Above
    <3> QED
      BY <2>3, <2>4, <3>1
  <2>8. half >= 1
    <3>1. CASE d = eb
      <4>1. Len(rb[d]) = 1
        BY <3>1 DEF Tree
      <4> QED
        BY <2>7, <4>1
    <3>2. CASE d # eb
      <4>1. d \in 0..(eb - 1)
        BY <1>1, <2>1, <2>2, <3>2
      <4>2. Len(rb[d]) > 1
        BY <4>1 DEF Tree
      <4> QED
        BY <2>7, <4>2
    <3> QED
      BY <3>1, <3>2
  <2>9. Len(a) >= 1 /\ 1 \in DOMAIN a
    OBVIOUS
  <2>10. ra[0][1] = <<a[1]>> /\ Len(ra[0]) = Len(a)
    <3>1. PICK n1 \in Nat : n1 = Len(a)
      OBVIOUS
    <3>2. PICK r0 : r0 = ra[0]
      OBVIOUS
    <3>3. r0 = [i \in 1..n1 |-> <<a[i]>>]
      BY <1>7, <3>1, <3>2 DEF Leaves
    <3>4. r0 = [i \in 1..n1 |-> r0[i]]
      BY <3>3
    <3> QED
      BY <2>9, <3>1, <3>2, <3>3, <3>4, LenIs
  <2>11. ra[0][1] = rb[d][1]
    BY <1>6, <2>1, <2>7, <2>8, <2>9, <2>10 DEF Agree
  <2>12. PICK y, z : rb[d][1] = <<y, z>>
    <3>1. 1 \in 1..half
      BY <2>6, <2>8
    <3>2. 1 \in 1..((Len(s) + 1) \div 2)
      BY <2>5, <2>6, <3>1
    <3> QED
      BY <2>3, <2>4, <3>2 DEF RowAbove
  <2>13. Len(<<a[1]>>) = 1 /\ Len(<<y, z>>) = 2
    OBVIOUS
  <2>14. <<a[1]>> = <<y, z>>
    BY <2>10, <2>11, <2>12
  <2> QED
    BY <2>13, <2>14, Zenon
<1> QED
  BY <1>8, <1>9

\* Lists of transactions with the same root differ only in how far they reach.
THEOREM SameRoot ==
    ASSUME NEW S, NEW a \in Seq(S), NEW b \in Seq(S), a # <<>>, b # <<>>,
           BuildMerkleTreeStore(a) = BuildMerkleTreeStore(b)
    PROVE  \A i \in 1..Len(a) : i <= Len(b) => a[i] = b[i]
<1>1. PICK ea, ra : Tree(a, ea, ra) /\ BuildMerkleTreeStore(a) = ra[ea][1]
  BY RootIsTop
<1>2. PICK eb, rb : Tree(b, eb, rb) /\ BuildMerkleTreeStore(b) = rb[eb][1]
  BY RootIsTop
<1>3. ra[ea][1] = rb[eb][1] /\ ea \in Nat /\ eb \in Nat
  <2>1. ea \in 0..Len(a) /\ eb \in 0..Len(b)
    BY <1>1, <1>2 DEF Tree
  <2>2. Len(a) \in Nat /\ Len(b) \in Nat
    OBVIOUS
  <2>3. ea \in Nat /\ eb \in Nat
    BY <2>1, <2>2
  <2>4. ra[ea][1] = rb[eb][1]
    BY <1>1, <1>2, Zenon
  <2> QED
    BY <2>3, <2>4
<1>4. Agree(Leaves(a), Leaves(b)) \/ Agree(Leaves(b), Leaves(a))
  <2>1. CASE ea <= eb
    BY <1>1, <1>2, <1>3, <2>1, SameTop
  <2>2. CASE eb <= ea
    BY <1>1, <1>2, <1>3, <2>2, SameTop
  <2> QED
    BY <1>3, <2>1, <2>2
<1>5. /\ Len(Leaves(a)) = Len(a) /\ \A i \in 1..Len(a) : Leaves(a)[i] = <<a[i]>>
      /\ Len(Leaves(b)) = Len(b) /\ \A i \in 1..Len(b) : Leaves(b)[i] = <<b[i]>>
  <2>1. ASSUME NEW l \in Seq(S)
        PROVE  Len(Leaves(l)) = Len(l) /\ \A i \in 1..Len(l) : Leaves(l)[i] = <<l[i]>>
    <3>1. PICK n \in Nat : n = Len(l)
      OBVIOUS
    <3>2. PICK f : f = Leaves(l)
      OBVIOUS
    <3>3. f = [i \in 1..n |-> <<l[i]>>]
      BY <3>1, <3>2 DEF Leaves
    <3>4. f = [i \in 1..n |-> f[i]]
      BY <3>3
    <3> QED
      BY <3>1, <3>2, <3>3, <3>4, LenIs
  <2> QED
    BY <2>1
<1>6. ASSUME NEW i \in 1..Len(a), i <= Len(b) PROVE a[i] = b[i]
  <2>1. i \in 1..Len(b) /\ i <= Len(a)
    BY <1>6
  <2>2. <<a[i]>> = <<b[i]>>
    BY <1>4, <1>5, <1>6, <2>1 DEF Agree
  <2>3. <<a[i]>>[1] = a[i] /\ <<b[i]>>[1] = b[i]
    OBVIOUS
  <2> QED
    BY <2>2, <2>3, Zenon
<1> QED
  BY <1>6
-----------------------------------------------------------------------------
(* The blocks there are, and those a miner may make. *)

\* The one coinbase of a block is its last transaction.
OneCoinbase(txs) ==
    /\ txs # <<>> /\ Contents(txs[Len(txs)]).type = "COINBASE"
    /\ \A i \in 1..(Len(txs) - 1) : Contents(txs[i]).type # "COINBASE"

\* Then neither of two lists with one root goes on where the other has ended.
LEMMA SameTxs ==
    ASSUME NEW S, NEW a \in Seq(S), NEW b \in Seq(S), OneCoinbase(a), OneCoinbase(b),
           BuildMerkleTreeStore(a) = BuildMerkleTreeStore(b)
    PROVE  a = b
<1>1. PICK n \in Nat, l \in Nat : n = Len(a) /\ l = Len(b)
  OBVIOUS
<1>2. a # <<>> /\ b # <<>> /\ n > 0 /\ l > 0
  BY <1>1 DEF OneCoinbase
<1>3. \A i \in 1..n : i <= l => a[i] = b[i]
  BY <1>1, <1>2, SameRoot
<1>4. /\ Contents(a[n]).type = "COINBASE" /\ Contents(b[l]).type = "COINBASE"
      /\ \A i \in 1..(n - 1) : Contents(a[i]).type # "COINBASE"
      /\ \A i \in 1..(l - 1) : Contents(b[i]).type # "COINBASE"
  BY <1>1 DEF OneCoinbase
<1>5. CASE n < l
  <2>1. n \in 1..n /\ n <= l /\ n \in 1..(l - 1)
    BY <1>2, <1>5
  <2>2. a[n] = b[n]
    BY <1>3, <2>1
  <2> QED
    BY <1>4, <2>1, <2>2
<1>6. CASE l < n
  <2>1. l \in 1..n /\ l <= l /\ l \in 1..(n - 1)
    BY <1>2, <1>6
  <2>2. a[l] = b[l]
    BY <1>3, <2>1
  <2> QED
    BY <1>4, <2>1, <2>2
<1>7. CASE n = l
  <2>1. \A i \in 1..n : a[i] = b[i]
    BY <1>3, <1>7
  <2>2. Len(a) = Len(b) /\ \A i \in 1..Len(a) : a[i] = b[i]
    BY <1>1, <1>7, <2>1
  <2> QED
    BY <2>2, SeqEqual
<1> QED
  BY <1>5, <1>6, <1>7

\* What passes ValidateBlock has its root and one coinbase.
LEMMA ValidatedTxs ==
    ASSUME NEW b, ValidateBlock(b)
    PROVE  b.root = BuildMerkleTreeStore(b.txs) /\ OneCoinbase(b.txs)
BY DEF ValidateBlock, VerifyCoinbaseTx, OneCoinbase

\* Every block has its root and one coinbase, the genesis block too.
Rooted ==
    \A b \in 1..Len(blocks) :
        blocks[b].root = BuildMerkleTreeStore(blocks[b].txs) /\ OneCoinbase(blocks[b].txs)

LEMMA RootedInvariant == Spec => [](Shape /\ Rooted)
<1>1. Init => Rooted
  <2> SUFFICES ASSUME Init PROVE Rooted
    OBVIOUS
  <2>1. Len(blocks) = 1 /\ blocks[1] = Block(0, <<GenesisTx>>)
    BY DEF Init, GenerateGenesisBlock
  <2>2. blocks[1].txs = <<GenesisTx>> /\ blocks[1].root = BuildMerkleTreeStore(<<GenesisTx>>)
    BY <2>1 DEF Block
  <2>3. Contents(GenesisTx).type = "COINBASE"
    BY HashAssumption DEF Contents
  <2>4. OneCoinbase(<<GenesisTx>>)
    BY <2>3 DEF OneCoinbase
  <2> QED
    BY <2>1, <2>2, <2>4 DEF Rooted
<1>2. Shape /\ Fresh /\ Rooted /\ [Next]_vars => Rooted'
  <2> SUFFICES ASSUME Shape, Fresh, Rooted, [Next]_vars PROVE Rooted'
    OBVIOUS
  <2>1. CASE blocks' = blocks
    BY <2>1 DEF Rooted
  <2>2. ASSUME NEW n \in Node, Mines(n) PROVE Rooted'
    <3>1. PICK len \in Nat : len = Len(blocks)
      BY DEF Shape, TypeOK, BlocksOK
    <3>2. Len(blocks') = len + 1 /\ ValidateBlock(blocks'[len + 1])
      BY <2>2, <3>1 DEF Mines, Accepts
    <3>3. \A i \in 1..len : blocks'[i] = blocks[i]
      BY <2>2, <3>1 DEF Mines
    <3>4. ASSUME NEW b \in 1..(len + 1)
          PROVE  /\ blocks'[b].root = BuildMerkleTreeStore(blocks'[b].txs)
                 /\ OneCoinbase(blocks'[b].txs)
      <4>1. CASE b \in 1..len
        BY <3>1, <3>3, <4>1 DEF Rooted
      <4>2. CASE b = len + 1
        BY <3>2, <4>2, ValidatedTxs
      <4> QED
        BY <4>1, <4>2
    <3> QED
      BY <3>2, <3>4 DEF Rooted
  <2> QED
    BY <2>1, <2>2, StepMoves DEF Moves
<1> QED
  BY <1>1, <1>2, FreshInvariant, PTL DEF Spec

\* The block made of a selection.
LEMMA BlockTxs ==
    ASSUME NEW txs \in Selections, NEW cb, cb = MakeCoinbaseTx(txs, rewarded)
    PROVE  /\ block(txs).txs \in Seq(User \cup {cb}) /\ block(txs).txs # <<>>
           /\ block(txs).txs = Append(txs, cb) /\ txs \in Seq(User)
           /\ block(txs).bits = DIFFICULTY
           /\ block(txs).root = BuildMerkleTreeStore(block(txs).txs)
<1>1. PICK n \in 0..MaxTxs : txs \in [1..n -> Selectable]
  BY DEF Selections
<1>2. n \in Nat /\ txs \in [1..n -> User]
  BY <1>1, BoundAssumption
<1>3. txs \in Seq(User)
  BY <1>2
<1>4. PICK list : list = Append(txs, cb)
  OBVIOUS
<1>5. block(txs) = [prev |-> 1, root |-> BuildMerkleTreeStore(list), bits |-> DIFFICULTY, txs |-> list]
  BY <1>4 DEF block, GenerateBlock, Block
<1>6. list \in Seq(User \cup {cb}) /\ list # <<>>
  BY <1>3, <1>4
<1> QED
  BY <1>3, <1>4, <1>5, <1>6

\* BuildMerkleTreeStore computes the root of the protocol, for any number of
\* transactions, powers of two or not, in all blocks there are and may be.
THEOREM RootIsProtocol == Spec => []RootFollowsProtocol
<1>1. Misrooted = {}
  <2> SUFFICES ASSUME NEW txs \in Selections
               PROVE  BuildMerkleTreeStore(block(txs).txs) = RootByRows(block(txs).txs)
    BY DEF Misrooted
  <2>1. PICK cb, list : cb = MakeCoinbaseTx(txs, rewarded) /\ list = block(txs).txs
    OBVIOUS
  <2>2. list \in Seq(User \cup {cb}) /\ list # <<>>
    BY <2>1, BlockTxs
  <2>3. BuildMerkleTreeStore(list) = RootByRows(list)
    BY ONLY <2>2, RootIsTop
  <2> QED
    BY <2>1, <2>3
<1>2. Shape /\ Rooted => RootFollowsProtocol
  <2> SUFFICES ASSUME Shape, Rooted, NEW b \in 1..Len(blocks)
               PROVE  blocks[b].root = RootByRows(blocks[b].txs)
    BY <1>1 DEF RootFollowsProtocol
  <2>1. PICK list : list = blocks[b].txs
    OBVIOUS
  <2>2. list \in Seq(TxHash) /\ list # <<>> /\ blocks[b].root = BuildMerkleTreeStore(list)
    BY <2>1 DEF Shape, TypeOK, BlocksOK, IsBlock, Rooted, OneCoinbase
  <2>3. BuildMerkleTreeStore(list) = RootByRows(list)
    BY ONLY <2>2, RootIsTop
  <2> QED
    BY <2>1, <2>2, <2>3
<1> QED
  BY <1>2, RootedInvariant, PTL

\* A header fixes the transactions of its block: of two blocks, and of all lists
\* that pass ValidateBlock with the header of a block that may be made, since the
\* one coinbase ends the list and so no list is longer or shorter.
THEOREM RootIsBinding == Spec => []RootFixesTxs
<1>1. Forged = {}
  <2> SUFFICES ASSUME NEW txs \in Selections, NEW n \in 0..MaxOther,
                      NEW other \in [1..n -> Selectable \cup {MakeCoinbaseTx(txs, rewarded)}],
                      ValidateBlock([block(txs) EXCEPT !.txs = other])
               PROVE  other = block(txs).txs
    BY DEF Forged
  <2>1. PICK cb, list : cb = MakeCoinbaseTx(txs, rewarded) /\ list = block(txs).txs
    OBVIOUS
  <2>2. /\ list \in Seq(User \cup {cb}) /\ list = Append(txs, cb) /\ txs \in Seq(User)
        /\ block(txs).root = BuildMerkleTreeStore(list)
    BY <2>1, BlockTxs
  <2>3. n \in Nat /\ Selectable \subseteq User
    BY BoundAssumption
  <2>4. other \in Seq(User \cup {cb}) /\ Len(other) = n
    BY <2>1, <2>3
  <2>5. BuildMerkleTreeStore(list) = BuildMerkleTreeStore(other) /\ OneCoinbase(other)
    <3>1. PICK fake : fake = [block(txs) EXCEPT !.txs = other]
      OBVIOUS
    <3>2. fake.txs = other /\ fake.root = BuildMerkleTreeStore(list)
      BY <2>2, <3>1 DEF block, GenerateBlock, Block
    <3>3. ValidateBlock(fake)
      BY <3>1
    <3> QED
      BY <3>2, <3>3, ValidatedTxs
  <2>6. \A t \in User : Contents(t).type # "COINBASE"
    BY BodyAssumption DEF Contents
  <2>7. Contents(cb).type = "COINBASE"
    <3>1. n \in 1..n
      BY <2>3, <2>4, <2>5 DEF OneCoinbase
    <3>2. other[n] \in User \cup {cb} /\ Contents(other[n]).type = "COINBASE"
      BY <2>4, <2>5, <3>1 DEF OneCoinbase
    <3> QED
      BY <2>6, <3>2
  <2>8. OneCoinbase(list)
    <3>1. PICK l \in Nat : l = Len(txs)
      BY <2>2
    <3>2. list # <<>> /\ Len(list) = l + 1 /\ list[l + 1] = cb /\ \A i \in 1..l : list[i] \in User
      BY <2>2, <3>1
    <3>3. (l + 1) - 1 = l
      OBVIOUS
    <3> QED
      BY <2>6, <2>7, <3>2, <3>3 DEF OneCoinbase
  <2>9. list = other
    BY ONLY <2>2, <2>4, <2>5, <2>8, SameTxs
  <2> QED
    BY <2>1, <2>9
<1>2. Shape /\ Rooted => RootFixesTxs
  <2> SUFFICES ASSUME Shape, Rooted, NEW a \in 1..Len(blocks), NEW b \in 1..Len(blocks),
                      blocks[a].root = blocks[b].root
               PROVE  blocks[a].txs = blocks[b].txs
    BY <1>1 DEF RootFixesTxs
  <2>1. PICK s, t : s = blocks[a].txs /\ t = blocks[b].txs
    OBVIOUS
  <2>2. /\ s \in Seq(TxHash) /\ t \in Seq(TxHash) /\ OneCoinbase(s) /\ OneCoinbase(t)
        /\ BuildMerkleTreeStore(s) = BuildMerkleTreeStore(t)
    BY <2>1 DEF Shape, TypeOK, BlocksOK, IsBlock, Rooted
  <2>3. s = t
    BY ONLY <2>2, SameTxs
  <2> QED
    BY <2>1, <2>3
<1> QED
  BY <1>2, RootedInvariant, PTL
=============================================================================
