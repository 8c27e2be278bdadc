------------------------- MODULE ColumnVectorProofs -------------------------
(***************************************************************************)
(* emplace, remove and reorder keep a column's three vectors consistent,   *)
(* and what each does to the set of rows that have a value and to the      *)
(* values.  The proofs about the table cite these lemmas and do not look   *)
(* into a column.                                                          *)
(***************************************************************************)
EXTENDS ColumnVector, SequenceTheorems, FiniteSetTheorems,
        WellFoundedInduction, TLAPS

-----------------------------------------------------------------------------
(* Vectors, by the indices of the code.                                    *)

(* A function on 1 .. n is a vector of length n.                           *)
LEMMA FunctionIsVector ==
  ASSUME NEW S, NEW n \in Nat, NEW f \in [1 .. n -> S]
  PROVE  f \in Seq(S) /\ Len(f) = n
<1>1. f \in UNION {[1 .. k -> S] : k \in Nat}
  OBVIOUS
<1>2. f \in Seq(S)
  BY <1>1, SeqDef, Zenon
<1>3. 1 .. n = 1 .. Len(f) /\ Len(f) \in Nat
  BY <1>2, LenProperties
<1>q. QED  BY <1>2, <1>3

(* A vector of S holds members of S.                                       *)
LEMMA VectorAt ==
  ASSUME NEW S, NEW v \in Seq(S), NEW i \in 0 .. Len(v) - 1
  PROVE  At(v, i) \in S
BY ElementOfSeq, i + 1 \in 1 .. Len(v), LenProperties DEF At

(* Overwriting element i changes that element and no other.                *)
LEMMA VectorPut ==
  ASSUME NEW S, NEW v \in Seq(S), NEW i \in 0 .. Len(v) - 1, NEW x \in S
  PROVE  /\ Put(v, i, x) \in Seq(S)
         /\ Len(Put(v, i, x)) = Len(v)
         /\ At(Put(v, i, x), i) = x
         /\ \A j \in 0 .. Len(v) - 1 : j # i => At(Put(v, i, x), j) = At(v, j)
<1>1. Len(v) \in Nat
  BY LenProperties
<1>2. i + 1 \in 1 .. Len(v)
  BY <1>1
<1>3. /\ Put(v, i, x) \in Seq(S)
      /\ Len(Put(v, i, x)) = Len(v)
      /\ \A k \in 1 .. Len(v) :
           Put(v, i, x)[k] = IF k = i + 1 THEN x ELSE v[k]
  BY <1>2, ExceptSeq DEF Put
<1>4. ASSUME NEW j \in 0 .. Len(v) - 1, j # i
      PROVE  At(Put(v, i, x), j) = At(v, j)
  BY <1>1, <1>3, <1>4, j + 1 \in 1 .. Len(v) DEF At
<1>5. At(Put(v, i, x), i) = x
  BY <1>2, <1>3 DEF At
<1>q. QED  BY <1>3, <1>4, <1>5

(* push_back adds one element at the end.                                  *)
LEMMA VectorAppend ==
  ASSUME NEW S, NEW v \in Seq(S), NEW x \in S
  PROVE  /\ Append(v, x) \in Seq(S)
         /\ Len(Append(v, x)) = Len(v) + 1
         /\ At(Append(v, x), Len(v)) = x
         /\ \A j \in 0 .. Len(v) - 1 : At(Append(v, x), j) = At(v, j)
<1>1. Len(v) \in Nat
  BY LenProperties
<1>2. /\ Append(v, x) \in Seq(S)
      /\ Len(Append(v, x)) = Len(v) + 1
      /\ \A k \in 1 .. Len(v) : Append(v, x)[k] = v[k]
      /\ Append(v, x)[Len(v) + 1] = x
  BY AppendProperties
<1>3. ASSUME NEW j \in 0 .. Len(v) - 1
      PROVE  At(Append(v, x), j) = At(v, j)
  BY <1>1, <1>2, j + 1 \in 1 .. Len(v) DEF At
<1>q. QED  BY <1>2, <1>3 DEF At

(* back() is the last element, and pop_back drops it and no other.         *)
LEMMA VectorFront ==
  ASSUME NEW S, NEW v \in Seq(S), Len(v) # 0
  PROVE  /\ Front(v) \in Seq(S)
         /\ Len(Front(v)) = Len(v) - 1
         /\ Last(v) = At(v, Len(v) - 1)
         /\ \A j \in 0 .. Len(v) - 2 : At(Front(v), j) = At(v, j)
<1>1. Len(v) \in Nat
  BY LenProperties
<1>2. \A k \in 1 .. Len(v) - 1 : v[k] \in S
  BY <1>1, ElementOfSeq
<1>3. /\ Front(v) \in Seq(S)
      /\ Len(Front(v)) = Len(v) - 1
      /\ \A k \in 1 .. Len(v) - 1 : Front(v)[k] = v[k]
  <2> DEFINE n == Len(v) - 1
  <2>1. n \in Nat /\ 1 \in Int /\ \A k \in 1 .. n : v[k] \in S
    BY <1>1, <1>2
  <2>2. /\ SubSeq(v, 1, n) \in Seq(S)
        /\ Len(SubSeq(v, 1, n)) = IF 1 <= n THEN n - 1 + 1 ELSE 0
        /\ \A k \in 1 .. n - 1 + 1 : SubSeq(v, 1, n)[k] = v[1 + k - 1]
    <3> HIDE DEF n
    <3> QED  BY <2>1, SubSeqProperties, n \in Int
  <2>3. \A k \in 1 .. n : SubSeq(v, 1, n)[k] = v[k]
    BY <2>1, <2>2
  <2>4. Front(v) = SubSeq(v, 1, n)
    BY DEF Front
  <2>5. Len(SubSeq(v, 1, n)) = n
    <3> DEFINE l == Len(SubSeq(v, 1, n))
    <3>1. l = IF 1 <= n THEN n - 1 + 1 ELSE 0
      BY <2>2
    <3> HIDE DEF n, l
    <3> QED  BY <2>1, <3>1
  <2>q. QED  BY <2>2, <2>3, <2>4, <2>5
<1>4. ASSUME NEW j \in 0 .. Len(v) - 2
      PROVE  At(Front(v), j) = At(v, j)
  BY <1>1, <1>3, j + 1 \in 1 .. Len(v) - 1 DEF At
<1>5. Last(v) = At(v, Len(v) - 1)
  BY <1>1 DEF Last, At
<1>q. QED  BY <1>3, <1>4, <1>5

(* The sparse vector after resize: the old slots, then npos up to n.       *)
LEMMA SparseResized ==
  ASSUME NEW s \in Seq(IndexOrNpos), NEW n \in Nat
  PROVE  /\ Resized(s, n) \in Seq(IndexOrNpos)
         /\ Len(Resized(s, n)) = IF n > Len(s) THEN n ELSE Len(s)
         /\ \A i \in 0 .. Len(Resized(s, n)) - 1 :
              At(Resized(s, n), i) = IF i < Len(s) THEN At(s, i) ELSE npos
<1> DEFINE m == IF n > Len(s) THEN n ELSE Len(s)
<1>1. Len(s) \in Nat /\ m \in Nat
  BY LenProperties
<1>2. \A k \in 1 .. m : (IF k <= Len(s) THEN s[k] ELSE npos) \in IndexOrNpos
  BY <1>1, ElementOfSeq, NposAssumption DEF IndexOrNpos
<1>3. Resized(s, n) = [k \in 1 .. m |-> IF k <= Len(s) THEN s[k] ELSE npos]
  BY DEF Resized
<1>4. Resized(s, n) \in [1 .. m -> IndexOrNpos]
  BY <1>2, <1>3
<1>5. Resized(s, n) \in Seq(IndexOrNpos) /\ Len(Resized(s, n)) = m
  BY <1>1, <1>4, FunctionIsVector
<1>6. ASSUME NEW i \in 0 .. m - 1
      PROVE  At(Resized(s, n), i) = IF i < Len(s) THEN At(s, i) ELSE npos
  BY <1>1, <1>3, i + 1 \in 1 .. m DEF At
<1>q. QED  BY <1>5, <1>6

-----------------------------------------------------------------------------
(* Column operations.                                                      *)

(* The types of a column's parts, for use below.                           *)
LEMMA ColumnParts ==
  ASSUME NEW c \in Column
  PROVE  /\ c.sparse \in Seq(IndexOrNpos) /\ Len(c.sparse) \in Nat
         /\ c.dense \in Seq(Index) /\ Len(c.dense) \in Nat
         /\ c.data \in Seq(Values) /\ Len(c.data) \in Nat
         /\ \A i \in 0 .. Len(c.sparse) - 1 : At(c.sparse, i) \in IndexOrNpos
         /\ \A d \in 0 .. Len(c.dense) - 1 : At(c.dense, d) \in Index
         /\ \A d \in 0 .. Len(c.data) - 1 : At(c.data, d) \in Values
<1>1. /\ c.sparse \in Seq(IndexOrNpos)
      /\ c.dense \in Seq(Index)
      /\ c.data \in Seq(Values)
  BY DEF Column
<1>q. QED  BY <1>1, VectorAt, LenProperties

(* An empty column is consistent and has no rows.                          *)
LEMMA EmptyColumnConsistent ==
  EmptyColumn \in Column /\ SparseSet(EmptyColumn) /\ RowsIn(EmptyColumn) = {}
<1>1. /\ EmptyColumn.sparse = <<>> /\ EmptyColumn.dense = <<>>
      /\ EmptyColumn.data = <<>>
  BY DEF EmptyColumn
<1>2. EmptyColumn \in Column
  BY EmptySeq DEF EmptyColumn, Column
<1>3. \A r \in Index : ~contains(EmptyColumn, r)
  BY <1>1, EmptySeq, NposAssumption DEF contains, Index
<1>4. SparseSet(EmptyColumn)
  BY <1>1, <1>3, EmptySeq DEF SparseSet
<1>q. QED  BY <1>2, <1>3, <1>4 DEF RowsIn

(* A vector of rows that lists none twice is at most as long as the index  *)
(* space.                                                                  *)
LEMMA InjectiveFits ==
  ASSUME NEW d \in Seq(Index), IsInjective(d)
  PROVE  Len(d) <= npos
<1> DEFINE n == Len(d)
<1>1. n \in Nat /\ d \in [1 .. n -> Index]
  BY LenProperties
<1>2. d \in Injection(1 .. n, Index)
  BY <1>1 DEF Injection
<1>3. /\ IsFiniteSet(Index) /\ Cardinality(Index) = npos
      /\ Cardinality(1 .. n) = n
  <2>1. 0 \in Int /\ npos - 1 \in Int /\ 1 \in Int /\ n \in Int
    BY <1>1, NposAssumption
  <2>2. /\ IsFiniteSet(0 .. npos - 1)
        /\ Cardinality(0 .. npos - 1) =
             IF 0 > npos - 1 THEN 0 ELSE npos - 1 - 0 + 1
        /\ Cardinality(1 .. n) = IF 1 > n THEN 0 ELSE n - 1 + 1
    BY <2>1, FS_Interval
  <2>q. QED  BY <1>1, <2>2, NposAssumption DEF Index
<1>4. Cardinality(1 .. n) <= Cardinality(Index)
  BY <1>2, <1>3, FS_Injection
<1>q. QED  BY <1>3, <1>4

(* No row is listed twice, so the dense vectors are at most as long as the *)
(* index space.                                                            *)
LEMMA DenseBounded ==
  ASSUME NEW c \in Column, SparseSet(c)
  PROVE  /\ Len(c.dense) <= npos
         /\ \A k \in 1 .. Len(c.dense) : /\ c.dense[k] < Len(c.sparse)
                                         /\ At(c.sparse, c.dense[k]) = k - 1
         /\ IsInjective(c.dense)
<1> DEFINE n == Len(c.dense)
<1>1. /\ n \in Nat
      /\ c.dense \in [1 .. n -> Index]
  BY ColumnParts, LenProperties
<1>2. ASSUME NEW k \in 1 .. n
      PROVE  /\ c.dense[k] < Len(c.sparse)
             /\ At(c.sparse, c.dense[k]) = k - 1
  <2>1. k - 1 \in 0 .. n - 1 /\ (k - 1) + 1 = k
    BY <1>1
  <2>2. At(c.dense, k - 1) = c.dense[k]
    BY <2>1 DEF At
  <2>q. QED  BY <2>1, <2>2 DEF SparseSet
<1>3. IsInjective(c.dense)
  <2>1. ASSUME NEW i \in 1 .. n, NEW j \in 1 .. n, c.dense[i] = c.dense[j]
        PROVE  i = j
    <3>1. i - 1 = j - 1
      BY <1>2, <2>1
    <3>q. QED  BY <1>1, <3>1
  <2>q. QED  BY <1>1, <2>1 DEF IsInjective
<1>4. n <= npos
  BY <1>3, ColumnParts, InjectiveFits
<1>q. QED  BY <1>2, <1>3, <1>4

(* While some row has no value there is room for one more: the sentinel    *)
(* npos is never needed as a dense index.                                  *)
LEMMA DenseFits ==
  ASSUME NEW c \in Column, SparseSet(c), NEW r \in Index, ~contains(c, r)
  PROVE  Len(c.dense) < npos
<1> DEFINE n == Len(c.dense)
           others == Index \ {r}
<1>1. /\ n \in Nat
      /\ c.dense \in [1 .. n -> Index]
      /\ n <= npos
  BY ColumnParts, LenProperties, DenseBounded
<1>2. ASSUME NEW k \in 1 .. n
      PROVE  c.dense[k] \in others
  <2>1. c.dense[k] < Len(c.sparse) /\ At(c.sparse, c.dense[k]) = k - 1
    BY DenseBounded
  <2>2. k - 1 # npos
    BY <1>1, NposAssumption
  <2>3. c.dense[k] \in Index
    BY <1>1
  <2>q. QED  BY <2>1, <2>2, <2>3 DEF contains
<1>3. c.dense \in [1 .. n -> others]
  BY <1>1, <1>2
<1>4. c.dense \in Injection(1 .. n, others)
  BY <1>3, DenseBounded DEF Injection
<1>5. /\ IsFiniteSet(others) /\ Cardinality(others) = npos - 1
      /\ Cardinality(1 .. n) = n
  <2>1. 0 \in Int /\ npos - 1 \in Int /\ 1 \in Int /\ n \in Int
    BY <1>1, NposAssumption
  <2>2. /\ IsFiniteSet(0 .. npos - 1)
        /\ Cardinality(0 .. npos - 1) =
             IF 0 > npos - 1 THEN 0 ELSE npos - 1 - 0 + 1
        /\ Cardinality(1 .. n) = IF 1 > n THEN 0 ELSE n - 1 + 1
    BY <2>1, FS_Interval
  <2>3. IsFiniteSet(Index) /\ Cardinality(Index) = npos
    BY <2>2, NposAssumption DEF Index
  <2>4. IsFiniteSet(others) /\ Cardinality(others) = Cardinality(Index) - 1
    BY <2>3, FS_RemoveElement
  <2>q. QED  BY <1>1, <2>2, <2>3, <2>4
<1>6. Cardinality(1 .. n) <= Cardinality(others)
  BY <1>4, <1>5, FS_Injection
<1>q. QED  BY <1>1, <1>5, <1>6, NposAssumption

(* emplace gives row r the value v and touches no other row.               *)
LEMMA EmplaceCorrect ==
  ASSUME NEW c \in Column, SparseSet(c), NEW r \in Index, NEW v \in Values
  PROVE  /\ emplace(c, r, v) \in Column
         /\ SparseSet(emplace(c, r, v))
         /\ RowsIn(emplace(c, r, v)) = RowsIn(c) \cup {r}
         /\ get(emplace(c, r, v), r) = v
         /\ \A q \in RowsIn(c) \ {r} : get(emplace(c, r, v), q) = get(c, q)
<1> DEFINE e == emplace(c, r, v)
           sparse == Resized(c.sparse, r + 1)
           slot == At(sparse, r)
           n == Len(c.dense)
<1>1. r \in Nat /\ r < npos /\ npos \in Nat
  BY NposAssumption DEF Index
<1>2. /\ c.sparse \in Seq(IndexOrNpos) /\ Len(c.sparse) \in Nat
      /\ c.dense \in Seq(Index) /\ n \in Nat
      /\ c.data \in Seq(Values) /\ Len(c.data) = n
      /\ \A i \in 0 .. Len(c.sparse) - 1 : At(c.sparse, i) \in IndexOrNpos
      /\ \A d \in 0 .. n - 1 : At(c.dense, d) \in Index
  BY ColumnParts DEF SparseSet
<1>3. /\ sparse \in Seq(IndexOrNpos)
      /\ Len(sparse) = IF r + 1 > Len(c.sparse) THEN r + 1 ELSE Len(c.sparse)
      /\ \A i \in 0 .. Len(sparse) - 1 :
           At(sparse, i) = IF i < Len(c.sparse) THEN At(c.sparse, i) ELSE npos
  BY <1>1, <1>2, SparseResized, r + 1 \in Nat
<1>4. e = IF slot # npos
          THEN [c EXCEPT !.sparse = sparse, !.data = Put(@, slot, v)]
          ELSE [sparse |-> Put(sparse, r, n), dense |-> Append(c.dense, r),
                data |-> Append(c.data, v)]
  BY DEF emplace
<1> HIDE DEF e, sparse
<1>5. /\ Len(sparse) \in Nat /\ Len(sparse) >= Len(c.sparse) /\ r < Len(sparse)
      /\ \A i \in Nat : i < Len(sparse) =>
           At(sparse, i) = IF i < Len(c.sparse) THEN At(c.sparse, i) ELSE npos
  BY <1>1, <1>2, <1>3
<1>6. ASSUME NEW q \in Index
      PROVE  /\ q \in Nat
             /\ contains(c, q) <=> q < Len(sparse) /\ At(sparse, q) # npos
             /\ contains(c, q) => /\ At(sparse, q) = At(c.sparse, q)
                                  /\ At(c.sparse, q) \in 0 .. n - 1
                                  /\ At(c.dense, At(c.sparse, q)) = q
  <2>1. q \in Nat
    BY <1>1 DEF Index
  <2>2. contains(c, q) => q < Len(sparse) /\ At(sparse, q) = At(c.sparse, q)
    BY <1>2, <1>5, <2>1 DEF contains
  <2>3. q < Len(sparse) /\ At(sparse, q) # npos => contains(c, q)
    BY <1>5, <2>1 DEF contains
  <2>4. contains(c, q) => At(c.sparse, q) \in IndexOrNpos
    BY <1>2, <2>1 DEF contains
  <2>5. contains(c, q) => /\ At(c.sparse, q) < n
                          /\ At(c.dense, At(c.sparse, q)) = q
    BY DEF SparseSet
  <2>q. QED  BY <1>1, <1>2, <2>1, <2>2, <2>3, <2>4, <2>5 DEF contains, IndexOrNpos
<1>7. ASSUME NEW d \in 0 .. n - 1
      PROVE  /\ At(c.dense, d) \in Index
             /\ At(c.dense, d) < Len(sparse)
             /\ At(sparse, At(c.dense, d)) = d
  <2>1. /\ At(c.dense, d) < Len(c.sparse) /\ At(c.sparse, At(c.dense, d)) = d
    BY DEF SparseSet
  <2>2. At(c.dense, d) \in Index /\ At(c.dense, d) \in Nat
    BY <1>1, <1>2 DEF Index
  <2>q. QED  BY <1>2, <1>5, <2>1, <2>2
<1>8. CASE slot # npos
  <2>1. /\ e.sparse = sparse /\ e.dense = c.dense
        /\ e.data = Put(c.data, slot, v)
        /\ e = [sparse |-> e.sparse, dense |-> e.dense, data |-> e.data]
    BY <1>4, <1>8 DEF Column
  <2>2. contains(c, r) /\ slot \in 0 .. n - 1
    BY <1>5, <1>6, <1>8
  <2>3. /\ e.data \in Seq(Values) /\ Len(e.data) = n
        /\ \A d \in 0 .. n - 1 :
             At(e.data, d) = IF d = slot THEN v ELSE At(c.data, d)
    <3> HIDE DEF slot
    <3>1. c.data \in Seq(Values) /\ slot \in 0 .. Len(c.data) - 1
      BY <1>2, <2>2
    <3>2. Put(c.data, slot, v) \in Seq(Values)
      BY <3>1, VectorPut
    <3>3. Len(Put(c.data, slot, v)) = Len(c.data)
      BY <3>1, VectorPut
    <3>4. At(Put(c.data, slot, v), slot) = v
      BY <3>1, VectorPut
    <3>5. \A d \in 0 .. Len(c.data) - 1 :
            d # slot => At(Put(c.data, slot, v), d) = At(c.data, d)
      BY <3>1, VectorPut
    <3>q. QED  BY <1>2, <2>1, <3>2, <3>3, <3>4, <3>5
  <2>4. e \in Column
    BY <1>2, <1>3, <2>1, <2>3 DEF Column
  <2>5. \A q \in Index : contains(e, q) <=> contains(c, q)
    BY <1>6, <2>1 DEF contains
  <2>6. SparseSet(e)
    BY <1>2, <1>6, <1>7, <2>1, <2>3, <2>5 DEF SparseSet
  <2>7. RowsIn(e) = RowsIn(c) \cup {r}
    BY <2>2, <2>5 DEF RowsIn
  <2>8. get(e, r) = v
    BY <2>1, <2>2, <2>3 DEF get
  <2>9. ASSUME NEW q \in RowsIn(c) \ {r}
        PROVE  get(e, q) = get(c, q)
    <3>1. contains(c, q) /\ q \in Index
      BY DEF RowsIn
    <3>2. At(c.sparse, q) # slot
      BY <1>6, <2>2, <3>1
    <3>q. QED  BY <1>6, <2>1, <2>3, <3>1, <3>2 DEF get
  <2>q. QED  BY <2>4, <2>6, <2>7, <2>8, <2>9 DEF e
<1>9. CASE slot = npos
  <2>1. /\ e.sparse = Put(sparse, r, n)
        /\ e.dense = Append(c.dense, r)
        /\ e.data = Append(c.data, v)
        /\ e = [sparse |-> e.sparse, dense |-> e.dense, data |-> e.data]
    BY <1>4, <1>9
  <2>2. ~contains(c, r)
    BY <1>6, <1>9
  <2>3. n \in 0 .. npos - 1
    BY <1>1, <1>2, <2>2, DenseFits
  <2>4. /\ e.sparse \in Seq(IndexOrNpos) /\ Len(e.sparse) = Len(sparse)
        /\ \A i \in Nat : i < Len(sparse) =>
             At(e.sparse, i) = IF i = r THEN n ELSE At(sparse, i)
    <3>1. sparse \in Seq(IndexOrNpos) /\ n \in IndexOrNpos /\ r \in 0 .. Len(sparse) - 1
      BY <1>1, <1>3, <1>5, <2>3 DEF IndexOrNpos
    <3> HIDE DEF n
    <3>2. Put(sparse, r, n) \in Seq(IndexOrNpos)
      BY <3>1, VectorPut
    <3>3. Len(Put(sparse, r, n)) = Len(sparse)
      BY <3>1, VectorPut
    <3>4. At(Put(sparse, r, n), r) = n
      BY <3>1, VectorPut
    <3>5. \A i \in 0 .. Len(sparse) - 1 :
            i # r => At(Put(sparse, r, n), i) = At(sparse, i)
      BY <3>1, VectorPut
    <3>q. QED  BY <1>5, <2>1, <3>2, <3>3, <3>4, <3>5
  <2>5. /\ e.dense \in Seq(Index) /\ Len(e.dense) = n + 1
        /\ At(e.dense, n) = r
        /\ \A d \in 0 .. n - 1 : At(e.dense, d) = At(c.dense, d)
    BY <1>2, <2>1, VectorAppend
  <2>6. /\ e.data \in Seq(Values) /\ Len(e.data) = n + 1
        /\ At(e.data, n) = v
        /\ \A d \in 0 .. n - 1 : At(e.data, d) = At(c.data, d)
    BY <1>2, <2>1, VectorAppend
  <2>7. e \in Column
    BY <2>1, <2>4, <2>5, <2>6 DEF Column
  <2>8. ASSUME NEW q \in Index, q # r
        PROVE  /\ contains(e, q) <=> contains(c, q)
               /\ contains(c, q) => At(e.sparse, q) = At(c.sparse, q)
    BY <1>6, <2>4, <2>8 DEF contains
  <2>9. contains(e, r) /\ At(e.sparse, r) = n
    BY <1>1, <1>5, <2>3, <2>4 DEF contains
  <2>10. SparseSet(e)
    <3>1. ASSUME NEW q \in Index, contains(e, q)
          PROVE  /\ At(e.sparse, q) < Len(e.dense)
                 /\ At(e.dense, At(e.sparse, q)) = q
      <4>1. CASE q = r
        BY <1>2, <2>5, <2>9, <4>1
      <4>2. CASE q # r
        BY <1>2, <1>6, <2>5, <2>8, <3>1, <4>2
      <4>q. QED  BY <4>1, <4>2
    <3>2. ASSUME NEW d \in 0 .. Len(e.dense) - 1
          PROVE  /\ At(e.dense, d) < Len(e.sparse)
                 /\ At(e.sparse, At(e.dense, d)) = d
      <4>1. CASE d = n
        BY <1>1, <1>5, <2>4, <2>5, <2>9, <4>1
      <4>2. CASE d # n
        <5>1. d \in 0 .. n - 1
          BY <1>2, <2>5, <4>2
        <5>2. /\ At(e.dense, d) = At(c.dense, d)
              /\ At(c.dense, d) \in Nat
              /\ At(c.dense, d) < Len(sparse)
              /\ At(sparse, At(c.dense, d)) = d
          BY <1>6, <1>7, <2>5, <5>1
        <5>3. At(c.dense, d) # r
          BY <1>9, <2>3, <5>1, <5>2
        <5>q. QED  BY <2>4, <5>2, <5>3
      <4>q. QED  BY <4>1, <4>2
    <3>q. QED  BY <2>5, <2>6, <3>1, <3>2 DEF SparseSet
  <2>11. RowsIn(e) = RowsIn(c) \cup {r}
    BY <2>8, <2>9 DEF RowsIn
  <2>12. get(e, r) = v
    BY <2>6, <2>9 DEF get
  <2>13. ASSUME NEW q \in RowsIn(c) \ {r}
         PROVE  get(e, q) = get(c, q)
    <3>1. q \in Index /\ contains(c, q) /\ q # r
      BY DEF RowsIn
    <3>q. QED  BY <1>6, <2>6, <2>8, <3>1 DEF get
  <2>q. QED  BY <2>7, <2>10, <2>11, <2>12, <2>13 DEF e
<1>q. QED  BY <1>8, <1>9

(* What a consistent column says of a row that has a value and of a dense  *)
(* position.                                                               *)
LEMMA ColumnFacts ==
  ASSUME NEW c \in Column, SparseSet(c)
  PROVE  /\ npos \in Nat /\ Len(c.sparse) \in Nat /\ Len(c.dense) \in Nat
         /\ Len(c.data) = Len(c.dense)
         /\ Len(c.dense) <= npos
         /\ \A q \in Index : contains(c, q) =>
              /\ q \in 0 .. Len(c.sparse) - 1
              /\ At(c.sparse, q) \in 0 .. Len(c.dense) - 1
              /\ At(c.dense, At(c.sparse, q)) = q
         /\ \A d \in 0 .. Len(c.dense) - 1 :
              /\ At(c.dense, d) \in Index
              /\ contains(c, At(c.dense, d))
              /\ At(c.sparse, At(c.dense, d)) = d
<1>1. /\ npos \in Nat /\ Len(c.sparse) \in Nat /\ Len(c.dense) \in Nat
      /\ Len(c.data) = Len(c.dense)
      /\ Len(c.dense) <= npos
  BY ColumnParts, NposAssumption, DenseBounded DEF SparseSet
<1>2. ASSUME NEW q \in Index, contains(c, q)
      PROVE  /\ q \in 0 .. Len(c.sparse) - 1
             /\ At(c.sparse, q) \in 0 .. Len(c.dense) - 1
             /\ At(c.dense, At(c.sparse, q)) = q
  <2>1. q \in 0 .. Len(c.sparse) - 1
    BY <1>1, <1>2 DEF contains, Index
  <2>2. At(c.sparse, q) \in Nat
    BY <1>1, <2>1, ColumnParts DEF IndexOrNpos
  <2>3. /\ At(c.sparse, q) < Len(c.dense)
        /\ At(c.dense, At(c.sparse, q)) = q
    BY <1>2 DEF SparseSet
  <2>q. QED  BY <1>1, <2>1, <2>2, <2>3
<1>3. ASSUME NEW d \in 0 .. Len(c.dense) - 1
      PROVE  /\ At(c.dense, d) \in Index
             /\ contains(c, At(c.dense, d))
             /\ At(c.sparse, At(c.dense, d)) = d
  <2>1. At(c.dense, d) \in Index
    BY ColumnParts
  <2>2. /\ At(c.dense, d) < Len(c.sparse)
        /\ At(c.sparse, At(c.dense, d)) = d
    BY DEF SparseSet
  <2>3. d # npos
    BY <1>1
  <2>q. QED  BY <2>1, <2>2, <2>3 DEF contains
<1>q. QED  BY <1>1, <1>2, <1>3

(* The two ways remove leaves the vectors: the last dense element moves    *)
(* into the hole, or the hole is the last element.                         *)
LEMMA FillHoleCorrect ==
  ASSUME NEW c \in Column, SparseSet(c), NEW r \in Index, contains(c, r)
  PROVE  LET f    == FillHole(c, At(c.sparse, r))
             hole == At(c.sparse, r)
             n    == Len(c.dense)
             last == At(c.dense, n - 1)
         IN  /\ f.sparse \in Seq(IndexOrNpos) /\ Len(f.sparse) = Len(c.sparse)
             /\ f.dense \in Seq(Index) /\ Len(f.dense) = n
             /\ f.data \in Seq(Values) /\ Len(f.data) = n
             /\ last \in Index /\ contains(c, last)
             /\ At(c.sparse, last) = n - 1
             /\ last # r => At(f.sparse, last) = hole
             /\ \A i \in 0 .. Len(c.sparse) - 1 :
                  i # last => At(f.sparse, i) = At(c.sparse, i)
             /\ hole # n - 1 =>
                  At(f.dense, hole) = last /\ At(f.data, hole) = At(c.data, n - 1)
             /\ \A d \in 0 .. n - 1 : d # hole =>
                  At(f.dense, d) = At(c.dense, d) /\ At(f.data, d) = At(c.data, d)
<1> DEFINE hole == At(c.sparse, r)
           n    == Len(c.dense)
           last == At(c.dense, n - 1)
           f    == FillHole(c, hole)
<1>1. /\ n \in Nat /\ Len(c.data) = n
      /\ hole \in 0 .. n - 1
      /\ At(c.dense, hole) = r
      /\ n - 1 \in 0 .. n - 1
      /\ last \in Index /\ contains(c, last)
      /\ At(c.sparse, last) = n - 1
      /\ last \in 0 .. Len(c.sparse) - 1
  <2>1. n \in Nat /\ Len(c.data) = n /\ hole \in 0 .. n - 1 /\ At(c.dense, hole) = r
    BY ColumnFacts
  <2>2. n - 1 \in 0 .. n - 1
    BY <2>1
  <2>3. last \in Index /\ contains(c, last) /\ At(c.sparse, last) = n - 1
    BY <2>2, ColumnFacts
  <2>4. last \in 0 .. Len(c.sparse) - 1
    BY <2>3, ColumnFacts
  <2>q. QED  BY <2>1, <2>2, <2>3, <2>4
<1>2. /\ c.sparse \in Seq(IndexOrNpos)
      /\ c.dense \in Seq(Index)
      /\ c.data \in Seq(Values)
  BY ColumnParts
<1>3. CASE hole = n - 1
  <2>1. f = c
    BY <1>1, <1>3 DEF FillHole
  <2>2. last = r
    BY <1>1, <1>3
  <2>q. QED  BY <1>1, <1>2, <1>3, <2>1, <2>2
<1>4. CASE hole # n - 1
  <2>1. Last(c.dense) = last /\ Last(c.data) = At(c.data, n - 1)
    <3>1. Len(c.dense) # 0 /\ Len(c.data) # 0
      BY <1>1
    <3>2. Last(c.dense) = At(c.dense, Len(c.dense) - 1)
      BY <1>2, <3>1, VectorFront
    <3>3. Last(c.data) = At(c.data, Len(c.data) - 1)
      BY <1>2, <3>1, VectorFront
    <3>q. QED  BY <1>1, <3>2, <3>3
  <2>2. /\ f.sparse = Put(c.sparse, last, hole)
        /\ f.dense = Put(c.dense, hole, last)
        /\ f.data = Put(c.data, hole, At(c.data, n - 1))
    BY <1>1, <1>4, <2>1 DEF FillHole
  <2>3. /\ hole \in IndexOrNpos
        /\ At(c.data, n - 1) \in Values
        /\ hole \in 0 .. Len(c.data) - 1 /\ hole \in 0 .. Len(c.dense) - 1
    BY <1>1, ColumnFacts, ColumnParts DEF IndexOrNpos
  <2> DEFINE back == At(c.data, n - 1)
  <2> HIDE DEF hole, last, f, back
  <2>5. /\ f.sparse \in Seq(IndexOrNpos)
        /\ Len(f.sparse) = Len(c.sparse)
        /\ At(f.sparse, last) = hole
        /\ \A i \in 0 .. Len(c.sparse) - 1 :
             i # last => At(f.sparse, i) = At(c.sparse, i)
    <3>0. /\ c.sparse \in Seq(IndexOrNpos)
          /\ last \in 0 .. Len(c.sparse) - 1
          /\ hole \in IndexOrNpos
      BY <1>1, <1>2, <2>3
    <3>1. Put(c.sparse, last, hole) \in Seq(IndexOrNpos)
      BY <3>0, VectorPut
    <3>2. Len(Put(c.sparse, last, hole)) = Len(c.sparse)
      BY <3>0, VectorPut
    <3>3. At(Put(c.sparse, last, hole), last) = hole
      BY <3>0, VectorPut
    <3>4. \A i \in 0 .. Len(c.sparse) - 1 :
            i # last => At(Put(c.sparse, last, hole), i) = At(c.sparse, i)
      BY <3>0, VectorPut
    <3>q. QED  BY <2>2, <3>1, <3>2, <3>3, <3>4
  <2>6. /\ f.dense \in Seq(Index)
        /\ Len(f.dense) = Len(c.dense)
        /\ At(f.dense, hole) = last
        /\ \A d \in 0 .. Len(c.dense) - 1 :
             d # hole => At(f.dense, d) = At(c.dense, d)
    <3>0. /\ c.dense \in Seq(Index)
          /\ hole \in 0 .. Len(c.dense) - 1
          /\ last \in Index
      BY <1>1, <1>2, <2>3
    <3>1. Put(c.dense, hole, last) \in Seq(Index)
      BY <3>0, VectorPut
    <3>2. Len(Put(c.dense, hole, last)) = Len(c.dense)
      BY <3>0, VectorPut
    <3>3. At(Put(c.dense, hole, last), hole) = last
      BY <3>0, VectorPut
    <3>4. \A d \in 0 .. Len(c.dense) - 1 :
            d # hole => At(Put(c.dense, hole, last), d) = At(c.dense, d)
      BY <3>0, VectorPut
    <3>q. QED  BY <2>2, <3>1, <3>2, <3>3, <3>4
  <2>7. /\ f.data \in Seq(Values)
        /\ Len(f.data) = Len(c.data)
        /\ At(f.data, hole) = back
        /\ \A d \in 0 .. Len(c.data) - 1 :
             d # hole => At(f.data, d) = At(c.data, d)
    <3>0. /\ c.data \in Seq(Values)
          /\ hole \in 0 .. Len(c.data) - 1
          /\ back \in Values
      BY <1>2, <2>3 DEF back
    <3>1. Put(c.data, hole, back) \in Seq(Values)
      BY <3>0, VectorPut
    <3>2. Len(Put(c.data, hole, back)) = Len(c.data)
      BY <3>0, VectorPut
    <3>3. At(Put(c.data, hole, back), hole) = back
      BY <3>0, VectorPut
    <3>4. \A d \in 0 .. Len(c.data) - 1 :
            d # hole => At(Put(c.data, hole, back), d) = At(c.data, d)
      BY <3>0, VectorPut
    <3>q. QED  BY <2>2, <3>1, <3>2, <3>3, <3>4 DEF back
  <2>q. QED  BY <1>1, <2>5, <2>6, <2>7 DEF hole, last, f, back
<1>q. QED  BY <1>3, <1>4

(* remove takes the value of row r away and touches no other row.          *)
LEMMA RemoveCorrect ==
  ASSUME NEW c \in Column, SparseSet(c), NEW r \in Index
  PROVE  /\ remove(c, r) \in Column
         /\ SparseSet(remove(c, r))
         /\ RowsIn(remove(c, r)) = RowsIn(c) \ {r}
         /\ \A q \in RowsIn(c) \ {r} : get(remove(c, r), q) = get(c, q)
<1>1. CASE ~contains(c, r)
  BY <1>1 DEF remove, RowsIn
<1>2. CASE contains(c, r)
  <2> DEFINE hole == At(c.sparse, r)
             n    == Len(c.dense)
             last == At(c.dense, n - 1)
             f    == FillHole(c, hole)
             g    == remove(c, r)
  <2>1. /\ f.sparse \in Seq(IndexOrNpos) /\ Len(f.sparse) = Len(c.sparse)
        /\ f.dense \in Seq(Index) /\ Len(f.dense) = n
        /\ f.data \in Seq(Values) /\ Len(f.data) = n
        /\ last \in Index /\ contains(c, last)
        /\ At(c.sparse, last) = n - 1
        /\ last # r => At(f.sparse, last) = hole
        /\ \A i \in 0 .. Len(c.sparse) - 1 :
             i # last => At(f.sparse, i) = At(c.sparse, i)
        /\ hole # n - 1 =>
             At(f.dense, hole) = last /\ At(f.data, hole) = At(c.data, n - 1)
        /\ \A d \in 0 .. n - 1 : d # hole =>
             At(f.dense, d) = At(c.dense, d) /\ At(f.data, d) = At(c.data, d)
    BY <1>2, FillHoleCorrect
  <2>2. /\ g.sparse = Put(f.sparse, r, npos)
        /\ g.dense = Front(f.dense)
        /\ g.data = Front(f.data)
        /\ g = [sparse |-> g.sparse, dense |-> g.dense, data |-> g.data]
    BY <1>2 DEF remove
  <2>3. /\ n \in Nat /\ Len(c.sparse) \in Nat /\ npos \in Nat
        /\ r \in 0 .. Len(c.sparse) - 1
        /\ hole \in 0 .. n - 1
        /\ At(c.dense, hole) = r
        /\ n <= npos
    BY <1>2, ColumnFacts
  <2>4. hole = n - 1 => last = r
    BY <2>3
  <2> HIDE DEF hole, last, f, g
  <2>5. /\ g.sparse \in Seq(IndexOrNpos) /\ Len(g.sparse) = Len(c.sparse)
        /\ At(g.sparse, r) = npos
        /\ \A i \in 0 .. Len(c.sparse) - 1 :
             i # r => At(g.sparse, i) = At(f.sparse, i)
    <3>0. /\ f.sparse \in Seq(IndexOrNpos)
          /\ r \in 0 .. Len(f.sparse) - 1
          /\ npos \in IndexOrNpos
      BY <2>1, <2>3 DEF IndexOrNpos
    <3>1. Put(f.sparse, r, npos) \in Seq(IndexOrNpos)
      BY <3>0, VectorPut
    <3>2. Len(Put(f.sparse, r, npos)) = Len(f.sparse)
      BY <3>0, VectorPut
    <3>3. At(Put(f.sparse, r, npos), r) = npos
      BY <3>0, VectorPut
    <3>4. \A i \in 0 .. Len(f.sparse) - 1 :
            i # r => At(Put(f.sparse, r, npos), i) = At(f.sparse, i)
      BY <3>0, VectorPut
    <3>q. QED  BY <2>1, <2>2, <3>1, <3>2, <3>3, <3>4
  <2>6. /\ g.dense \in Seq(Index) /\ Len(g.dense) = n - 1
        /\ \A d \in 0 .. n - 2 : At(g.dense, d) = At(f.dense, d)
    BY <2>1, <2>2, <2>3, VectorFront
  <2>7. /\ g.data \in Seq(Values) /\ Len(g.data) = n - 1
        /\ \A d \in 0 .. n - 2 : At(g.data, d) = At(f.data, d)
    BY <2>1, <2>2, <2>3, VectorFront
  <2>8. g \in Column
    BY <2>2, <2>5, <2>6, <2>7 DEF Column
  <2>9. ~contains(g, r)
    BY <2>5 DEF contains
  \* every other row that had a value: where it was, or moved into the hole
  <2>10. ASSUME NEW q \in Index, q # r, contains(c, q)
         PROVE  /\ contains(g, q)
                /\ At(g.sparse, q) \in 0 .. n - 2
                /\ At(g.dense, At(g.sparse, q)) = q
                /\ get(g, q) = get(c, q)
    <3>1. /\ q \in 0 .. Len(c.sparse) - 1
          /\ At(c.sparse, q) \in 0 .. n - 1
          /\ At(c.dense, At(c.sparse, q)) = q
      BY <2>10, ColumnFacts
    <3>2. CASE q = last
      <4>1. hole \in 0 .. n - 2 /\ hole # n - 1
        BY <2>3, <2>4, <2>10, <3>2
      <4>2. At(g.sparse, q) = hole
        BY <2>1, <2>5, <2>10, <3>1, <3>2
      <4>3. At(g.dense, hole) = q /\ At(g.data, hole) = At(c.data, n - 1)
        BY <2>1, <2>6, <2>7, <3>2, <4>1
      <4>4. contains(g, q)
        BY <2>3, <2>5, <3>1, <4>1, <4>2 DEF contains
      <4>q. QED  BY <2>1, <3>2, <4>1, <4>2, <4>3, <4>4 DEF get
    <3>3. CASE q # last
      <4> DEFINE k == At(c.sparse, q)
      <4>1. k # n - 1 /\ k # hole
        BY <2>3, <2>10, <3>1, <3>3 DEF last
      <4>2. k \in 0 .. n - 2
        BY <2>3, <3>1, <4>1
      <4>3. At(g.sparse, q) = k
        BY <2>1, <2>5, <2>10, <3>1, <3>3
      <4>4. At(g.dense, k) = q /\ At(g.data, k) = At(c.data, k)
        BY <2>1, <2>6, <2>7, <3>1, <4>1, <4>2
      <4>5. contains(g, q)
        BY <2>3, <2>5, <3>1, <4>2, <4>3 DEF contains
      <4>q. QED  BY <4>2, <4>3, <4>4, <4>5 DEF get
    <3>q. QED  BY <3>2, <3>3
  <2>11. ASSUME NEW q \in Index, contains(g, q)
         PROVE  q # r /\ contains(c, q)
    <3>1. q # r
      BY <2>9, <2>11
    <3>2. q \in 0 .. Len(c.sparse) - 1
      BY <2>3, <2>5, <2>11 DEF contains, Index
    <3>3. CASE q = last
      BY <2>1, <3>1, <3>3
    <3>4. CASE q # last
      BY <2>1, <2>3, <2>5, <2>11, <3>1, <3>2, <3>4 DEF contains
    <3>q. QED  BY <3>1, <3>3, <3>4
  <2>12. ASSUME NEW d \in 0 .. n - 2
         PROVE  /\ At(g.dense, d) < Len(g.sparse)
                /\ At(g.sparse, At(g.dense, d)) = d
    <3>1. d \in 0 .. n - 1 /\ d # n - 1
      BY <2>3
    <3>2. CASE d = hole
      <4>1. At(g.dense, d) = last
        BY <2>1, <2>6, <3>1, <3>2
      <4>2. last # r
        BY <2>1, <3>1, <3>2 DEF hole
      <4>3. last \in 0 .. Len(c.sparse) - 1
        BY <2>1, ColumnFacts
      <4>q. QED  BY <2>1, <2>3, <2>5, <3>2, <4>1, <4>2, <4>3
    <3>3. CASE d # hole
      <4> DEFINE q == At(c.dense, d)
      <4>1. q \in Index /\ contains(c, q) /\ At(c.sparse, q) = d
        BY <3>1, ColumnFacts
      <4>2. At(g.dense, d) = q
        BY <2>1, <2>6, <3>1, <3>3
      <4>3. q \in 0 .. Len(c.sparse) - 1
        BY <4>1, ColumnFacts
      <4>4. q # last /\ q # r
        BY <2>1, <3>1, <3>3, <4>1 DEF hole
      <4> HIDE DEF q
      <4>q. QED  BY <2>1, <2>3, <2>5, <4>1, <4>2, <4>3, <4>4
    <3>q. QED  BY <3>2, <3>3
  <2>13. SparseSet(g)
    <3>1. Len(g.data) = Len(g.dense)
      BY <2>6, <2>7
    <3>2. \A q \in Index : contains(g, q) => /\ At(g.sparse, q) < Len(g.dense)
                                             /\ At(g.dense, At(g.sparse, q)) = q
      BY <2>3, <2>6, <2>10, <2>11
    <3>3. \A d \in 0 .. Len(g.dense) - 1 :
            /\ At(g.dense, d) < Len(g.sparse)
            /\ At(g.sparse, At(g.dense, d)) = d
      BY <2>3, <2>6, <2>12
    <3>q. QED  BY <3>1, <3>2, <3>3 DEF SparseSet
  <2>14. RowsIn(g) = RowsIn(c) \ {r}
    BY <2>10, <2>11 DEF RowsIn
  <2>15. \A q \in RowsIn(c) \ {r} : get(g, q) = get(c, q)
    BY <2>10 DEF RowsIn
  <2>q. QED  BY <2>8, <2>13, <2>14, <2>15 DEF g
<1>q. QED  BY <1>1, <1>2

-----------------------------------------------------------------------------
(* reorder.                                                                *)

(* A nonempty set of naturals has a least member; what the proofs about    *)
(* the loop in Kept use for induction.                                     *)
LEMMA LeastNatural ==
  ASSUME NEW B, B \subseteq Nat, B # {}
  PROVE  \E m \in B : \A k \in B : m <= k
<1>1. IsWellFoundedOn(OpToRel(<, Nat), Nat)
  BY NatLessThanWellFounded
<1>2. PICK m \in B : \A k \in B : <<k, m>> \notin OpToRel(<, Nat)
  BY <1>1, WFMin
<1>3. ASSUME NEW k \in B
      PROVE  m <= k
  <2>1. m \in Nat /\ k \in Nat
    OBVIOUS
  <2>2. ~(k < m)
    BY <1>2, <2>1 DEF OpToRel
  <2>q. QED  BY <2>1, <2>2
<1>q. QED  BY <1>3

(* The loop in Kept defines a function on the whole vector.                *)
LEMMA KeptRecursion ==
  ASSUME NEW T, NEW s \in Seq(T), NEW S
  PROVE  \E f : /\ f = [i \in 0 .. Len(s) |->
                          IF i = 0 THEN <<>>
                          ELSE IF s[i] \in S THEN Append(f[i - 1], s[i])
                          ELSE f[i - 1]]
                /\ Kept(s, S) = f[Len(s)]
<1> DEFINE Step(f, i) == IF i = 0 THEN <<>>
                         ELSE IF s[i] \in S THEN Append(f[i - 1], s[i])
                         ELSE f[i - 1]
           Rec(f, n) == f = [i \in 0 .. n |-> Step(f, i)]
           bad == {n \in Nat : ~\E f : Rec(f, n)}
<1>1. Len(s) \in Nat
  BY LenProperties
<1>2. bad = {}
  <2>1. SUFFICES ASSUME bad # {} PROVE FALSE
    OBVIOUS
  <2>2. PICK m \in bad : \A k \in bad : m <= k
    <3>1. bad \subseteq Nat
      OBVIOUS
    <3> HIDE DEF bad
    <3>q. QED  BY <2>1, <3>1, LeastNatural
  <2>3. m \in Nat
    OBVIOUS
  <2>4. CASE m = 0
    <3> DEFINE f == [i \in 0 .. 0 |-> <<>>]
    <3>1. Rec(f, 0)
      OBVIOUS
    <3>q. QED  BY <2>4, <3>1
  <2>5. CASE m # 0
    <3>1. m - 1 \in Nat /\ m - 1 \notin bad
      <4> HIDE DEF bad
      <4>q. QED  BY <2>2, <2>3, <2>5
    <3>2. PICK f : Rec(f, m - 1)
      BY <3>1
    <3> DEFINE g == [i \in 0 .. m |-> Step(f, i)]
    <3>3. \A i \in 0 .. m - 1 : g[i] = f[i]
      <4> HIDE DEF Step
      <4>1. \A i \in 0 .. m - 1 : i \in 0 .. m /\ f[i] = Step(f, i)
        BY <2>3, <3>2
      <4>q. QED  BY <4>1
    <3>4. \A i \in 0 .. m : Step(g, i) = Step(f, i)
      <4>1. \A i \in 0 .. m : i # 0 => i - 1 \in 0 .. m - 1
        BY <2>3
      <4> HIDE DEF g
      <4>q. QED  BY <3>3, <4>1
    <3>5. Rec(g, m)
      BY <3>4
    <3>q. QED  BY <3>5
  <2>q. QED  BY <2>4, <2>5
<1>3. \E f : Rec(f, Len(s))
  BY <1>1, <1>2
<1>4. Rec(CHOOSE f : Rec(f, Len(s)), Len(s))
  BY <1>3
<1>5. Kept(s, S) = (CHOOSE f : Rec(f, Len(s)))[Len(s)]
  BY DEF Kept
<1>q. QED  BY <1>4, <1>5

(* Kept lists exactly the entries of s that are in S, each once if s does. *)
LEMMA KeptCorrect ==
  ASSUME NEW T, NEW s \in Seq(T), NEW S, IsInjective(s)
  PROVE  /\ Kept(s, S) \in Seq(T)
         /\ IsInjective(Kept(s, S))
         /\ ToSet(Kept(s, S)) = ToSet(s) \cap S
<1> DEFINE n == Len(s)
           Seen(i) == {s[j] : j \in 1 .. i}
           Good(d, i) == /\ d \in Seq(T)
                         /\ \A j, k \in 1 .. Len(d) : d[j] = d[k] => j = k
                         /\ \A x : (\E j \in 1 .. Len(d) : d[j] = x)
                                     <=> (x \in Seen(i) /\ x \in S)
<1>1. /\ n \in Nat /\ DOMAIN s = 1 .. n
      /\ \A j \in 1 .. n : s[j] \in T
      /\ \A j, k \in 1 .. n : s[j] = s[k] => j = k
  BY LenProperties, ElementOfSeq DEF IsInjective
<1>2. PICK f : /\ f = [i \in 0 .. n |->
                         IF i = 0 THEN <<>>
                         ELSE IF s[i] \in S THEN Append(f[i - 1], s[i])
                         ELSE f[i - 1]]
               /\ Kept(s, S) = f[n]
  BY KeptRecursion
<1>3. f[0] = <<>> /\ \A i \in 1 .. n :
        f[i] = IF s[i] \in S THEN Append(f[i - 1], s[i]) ELSE f[i - 1]
  <2> HIDE DEF n
  <2>1. 0 \in 0 .. n /\ \A i \in 1 .. n : i \in 0 .. n /\ i # 0
    BY <1>1
  <2>2. f[0] = <<>>
    BY <1>2, <2>1
  <2>3. ASSUME NEW i \in 1 .. n
        PROVE  f[i] = IF s[i] \in S THEN Append(f[i - 1], s[i]) ELSE f[i - 1]
    BY <1>2, <2>1
  <2>q. QED  BY <2>2, <2>3
<1>4. Good(f[0], 0)
  BY <1>3, EmptySeq
<1>5. ASSUME NEW i \in 1 .. n, Good(f[i - 1], i - 1)
      PROVE  Good(f[i], i)
  <2> DEFINE d == f[i - 1]
             x == s[i]
  <2>1. Seen(i) = Seen(i - 1) \cup {x}
    <3>1. 1 .. i = (1 .. i - 1) \cup {i}
      OBVIOUS
    <3>q. QED  BY <3>1
  <2>2. x \notin Seen(i - 1) /\ x \in T
    BY <1>1
  <2>3. CASE x \notin S
    BY <1>3, <1>5, <2>1, <2>3
  <2>4. CASE x \in S
    <3> DEFINE e == Append(d, x)
    <3>1. f[i] = e
      BY <1>3, <2>4
    <3>2. d \in Seq(T) /\ Len(d) \in Nat
      BY <1>5, LenProperties
    <3>3. /\ e \in Seq(T) /\ Len(e) = Len(d) + 1
          /\ \A j \in 1 .. Len(d) : e[j] = d[j]
          /\ e[Len(d) + 1] = x
      BY <2>2, <3>2, AppendProperties
    <3>4. \A j \in 1 .. Len(d) : d[j] \in Seen(i - 1)
      BY <1>5
    <3> HIDE DEF e, d, x, Seen
    <3>5. ASSUME NEW j \in 1 .. Len(e), NEW k \in 1 .. Len(e), e[j] = e[k]
          PROVE  j = k
      <4>1. CASE j \in 1 .. Len(d) /\ k \in 1 .. Len(d)
        BY <1>5, <3>3, <3>5, <4>1 DEF d
      <4>2. CASE j \notin 1 .. Len(d) /\ k \notin 1 .. Len(d)
        BY <3>2, <3>3, <4>2
      <4>3. CASE j \in 1 .. Len(d) /\ k \notin 1 .. Len(d)
        <5>1. k = Len(d) + 1
          BY <3>2, <3>3, <4>3
        <5>q. QED  BY <2>2, <3>3, <3>4, <3>5, <4>3, <5>1
      <4>4. CASE j \notin 1 .. Len(d) /\ k \in 1 .. Len(d)
        <5>1. j = Len(d) + 1
          BY <3>2, <3>3, <4>4
        <5>q. QED  BY <2>2, <3>3, <3>4, <3>5, <4>4, <5>1
      <4>q. QED  BY <4>1, <4>2, <4>3, <4>4
    <3>6. ASSUME NEW y
          PROVE  (\E j \in 1 .. Len(e) : e[j] = y) <=> y \in Seen(i) /\ y \in S
      <4>1. (\E j \in 1 .. Len(d) : d[j] = y) <=> y \in Seen(i - 1) /\ y \in S
        BY <1>5 DEF d
      <4>2. (\E j \in 1 .. Len(e) : e[j] = y)
              <=> (\E j \in 1 .. Len(d) : d[j] = y) \/ y = x
        <5>1. \A j \in 1 .. Len(e) : j \in 1 .. Len(d) \/ j = Len(d) + 1
          BY <3>2, <3>3
        <5>2. \A j \in 1 .. Len(d) : j \in 1 .. Len(e)
          BY <3>2, <3>3
        <5>3. Len(d) + 1 \in 1 .. Len(e)
          BY <3>2, <3>3
        <5>q. QED  BY <3>3, <5>1, <5>2, <5>3
      <4>q. QED  BY <2>1, <2>4, <4>1, <4>2
    <3>q. QED  BY <3>1, <3>3, <3>5, <3>6
  <2>q. QED  BY <2>3, <2>4
<1>6. Good(f[n], n)
  <2> DEFINE bad == {i \in 0 .. n : ~Good(f[i], i)}
  <2>1. SUFFICES ASSUME bad # {} PROVE FALSE
    <3>1. n \in 0 .. n
      BY <1>1
    <3> HIDE DEF Good
    <3>q. QED  BY <3>1
  <2>2. PICK m \in bad : \A k \in bad : m <= k
    <3>1. bad \subseteq Nat
      BY <1>1
    <3> HIDE DEF bad
    <3>q. QED  BY <2>1, <3>1, LeastNatural
  <2>3. m \in 0 .. n /\ ~Good(f[m], m)
    OBVIOUS
  <2> HIDE DEF Good
  <2>4. m # 0
    BY <1>4, <2>3
  <2>5. m \in 1 .. n /\ m - 1 \in 0 .. n
    BY <1>1, <2>3, <2>4
  <2>6. m - 1 \notin bad
    <3> HIDE DEF bad
    <3>q. QED  BY <2>2, <2>5
  <2>q. QED  BY <1>5, <2>3, <2>5, <2>6
<1>7. /\ Kept(s, S) \in Seq(T)
      /\ DOMAIN Kept(s, S) = 1 .. Len(Kept(s, S))
  BY <1>2, <1>6, LenProperties
<1>8. IsInjective(Kept(s, S))
  BY <1>2, <1>6, <1>7 DEF IsInjective
<1>9. ToSet(s) = Seen(n)
  BY <1>1 DEF ToSet
<1>10. ToSet(Kept(s, S)) = Seen(n) \cap S
  <2> DEFINE d == Kept(s, S)
  <2> HIDE DEF Seen, d
  <2>1. \A x : (\E j \in 1 .. Len(d) : d[j] = x) <=> (x \in Seen(n) /\ x \in S)
    BY <1>2, <1>6 DEF d
  <2>2. ToSet(d) = {d[j] : j \in 1 .. Len(d)}
    BY <1>7 DEF ToSet, d
  <2>3. ToSet(d) = Seen(n) \cap S
    BY <2>1, <2>2
  <2>q. QED  BY <2>3 DEF d
<1>q. QED  BY <1>7, <1>8, <1>9, <1>10

(* What S has all of is kept whole.                                        *)
LEMMA KeptWhole ==
  ASSUME NEW T, NEW s \in Seq(T), NEW S, \A i \in 1 .. Len(s) : s[i] \in S
  PROVE  Kept(s, S) = s
<1> DEFINE n == Len(s)
           Good(d, i) == /\ d \in Seq(T) /\ Len(d) = i
                         /\ \A j \in 1 .. i : d[j] = s[j]
<1>1. n \in Nat /\ \A j \in 1 .. n : s[j] \in T
  BY LenProperties, ElementOfSeq
<1>2. PICK f : /\ f = [i \in 0 .. n |->
                         IF i = 0 THEN <<>>
                         ELSE IF s[i] \in S THEN Append(f[i - 1], s[i])
                         ELSE f[i - 1]]
               /\ Kept(s, S) = f[n]
  BY KeptRecursion
<1>3. f[0] = <<>> /\ \A i \in 1 .. n : f[i] = Append(f[i - 1], s[i])
  <2>1. 0 \in 0 .. n /\ \A i \in 1 .. n : i \in 0 .. n /\ i # 0 /\ s[i] \in S
    BY <1>1
  <2> HIDE DEF n
  <2>2. f[0] = <<>>
    BY <1>2, <2>1
  <2>3. ASSUME NEW i \in 1 .. n
        PROVE  f[i] = Append(f[i - 1], s[i])
    BY <1>2, <2>1
  <2> QED
    BY <2>2, <2>3
<1>4. Good(f[0], 0)
  BY <1>3, EmptySeq
<1>5. ASSUME NEW i \in 1 .. n, Good(f[i - 1], i - 1)
      PROVE  Good(f[i], i)
  <2> DEFINE d == f[i - 1]
             e == Append(d, s[i])
  <2>1. /\ e \in Seq(T) /\ Len(e) = Len(d) + 1
        /\ \A j \in 1 .. Len(d) : e[j] = d[j]
        /\ e[Len(d) + 1] = s[i] /\ Len(d) = i - 1
    BY <1>1, <1>5, AppendProperties
  <2>2. \A j \in 1 .. i : j \in 1 .. i - 1 \/ j = i
    OBVIOUS
  <2>3. f[i] = e
    BY <1>3
  <2> HIDE DEF e, d
  <2>4. \A j \in 1 .. i - 1 : d[j] = s[j]
    BY <1>5 DEF d
  <2>5. Len(e) = i
    BY <2>1
  <2>6. \A j \in 1 .. i : e[j] = s[j]
    BY <2>1, <2>2, <2>4
  <2> QED
    BY <2>1, <2>3, <2>5, <2>6
<1> HIDE DEF Good, n
<1>6. Good(f[n], n)
  <2> DEFINE bad == {i \in 0 .. n : ~Good(f[i], i)}
  <2>1. SUFFICES ASSUME bad # {} PROVE FALSE
    BY <1>1
  <2>a. bad \subseteq Nat
    BY <1>1
  <2>2. PICK m \in bad : \A k \in bad : m <= k
    <3> HIDE DEF bad
    <3> QED
      BY <2>1, <2>a, LeastNatural
  <2>3. m # 0
    BY <1>4, <2>2
  <2>4. m \in 1 .. n /\ m - 1 \in 0 .. n /\ ~(m <= m - 1)
    BY <1>1, <2>2, <2>3
  <2>5. Good(f[m - 1], m - 1)
    BY <2>2, <2>4
  <2> QED
    BY <1>5, <2>2, <2>4, <2>5
<1> QED
  BY <1>1, <1>2, <1>6, SeqEqual DEF Good, n

(* reorder keeps the values of exactly the rows that the order names.  The *)
(* rows it does not name lose theirs: a column is only as complete after   *)
(* a sort as the row order it was given.                                   *)
LEMMA ReorderCorrect ==
  ASSUME NEW c \in Column, SparseSet(c),
         NEW order \in Seq(Index), IsInjective(order)
  PROVE  /\ reorder(c, order) \in Column
         /\ SparseSet(reorder(c, order))
         /\ RowsIn(reorder(c, order)) = RowsIn(c) \cap ToSet(order)
         /\ \A q \in RowsIn(c) \cap ToSet(order) :
              get(reorder(c, order), q) = get(c, q)
<1> DEFINE dense == Kept(order, RowsIn(c))
           n     == Len(dense)
           g     == reorder(c, order)
<1>1. /\ dense \in Seq(Index) /\ n \in Nat
      /\ DOMAIN dense = 1 .. n
      /\ \A i \in 1 .. n : dense[i] \in Index
      /\ IsInjective(dense)
      /\ ToSet(dense) = ToSet(order) \cap RowsIn(c)
  BY KeptCorrect, LenProperties, ElementOfSeq
<1>2. n <= npos
  BY <1>1, InjectiveFits
<1>3. /\ Len(c.sparse) \in Nat /\ npos \in Nat
      /\ \A i \in 1 .. n :
           /\ contains(c, dense[i])
           /\ dense[i] \in 0 .. Len(c.sparse) - 1
           /\ get(c, dense[i]) \in Values
  <2>1. ASSUME NEW i \in 1 .. n
        PROVE  /\ contains(c, dense[i])
               /\ dense[i] \in 0 .. Len(c.sparse) - 1
               /\ get(c, dense[i]) \in Values
    <3> DEFINE q == dense[i]
    <3>1. q \in ToSet(dense)
      BY <1>1 DEF ToSet
    <3>2. q \in Index /\ contains(c, q)
      BY <1>1, <3>1 DEF RowsIn
    <3> HIDE DEF q
    <3>3. /\ q \in 0 .. Len(c.sparse) - 1
          /\ At(c.sparse, q) \in 0 .. Len(c.data) - 1
      BY <3>2, ColumnFacts
    <3>q. QED  BY <3>2, <3>3, ColumnParts DEF get, q
  <2>q. QED  BY <2>1, ColumnFacts
<1>4. /\ g.sparse = [k \in 1 .. Len(c.sparse) |->
                       IF \E i \in 1 .. n : dense[i] = k - 1
                       THEN (CHOOSE i \in 1 .. n : dense[i] = k - 1) - 1
                       ELSE npos]
      /\ g.dense = dense
      /\ g.data = [i \in 1 .. n |-> get(c, dense[i])]
      /\ g = [sparse |-> g.sparse, dense |-> g.dense, data |-> g.data]
  BY DEF reorder
<1> HIDE DEF dense, n, g
<1>5. ASSUME NEW i \in 1 .. n
      PROVE  (CHOOSE j \in 1 .. n : dense[j] = dense[i]) = i
  BY <1>1 DEF IsInjective
<1>6. g.sparse \in Seq(IndexOrNpos) /\ Len(g.sparse) = Len(c.sparse)
  <2>1. ASSUME NEW k \in 1 .. Len(c.sparse)
        PROVE  (IF \E i \in 1 .. n : dense[i] = k - 1
                THEN (CHOOSE i \in 1 .. n : dense[i] = k - 1) - 1
                ELSE npos) \in IndexOrNpos
    <3>1. CASE \E i \in 1 .. n : dense[i] = k - 1
      <4>1. PICK i \in 1 .. n : dense[i] = k - 1
        BY <3>1
      <4>2. (CHOOSE j \in 1 .. n : dense[j] = k - 1) = i
        BY <1>5, <4>1
      <4>3. i - 1 \in IndexOrNpos
        BY <1>1, <1>2, <1>3 DEF IndexOrNpos
      <4>q. QED  BY <3>1, <4>2, <4>3
    <3>2. CASE ~\E i \in 1 .. n : dense[i] = k - 1
      BY <1>3, <3>2 DEF IndexOrNpos
    <3>q. QED  BY <3>1, <3>2
  <2>2. g.sparse \in [1 .. Len(c.sparse) -> IndexOrNpos]
    BY <1>4, <2>1
  <2>q. QED  BY <1>3, <2>2, FunctionIsVector
<1>7. g.data \in Seq(Values) /\ Len(g.data) = n
  <2>1. g.data \in [1 .. n -> Values]
    BY <1>3, <1>4
  <2>q. QED  BY <1>1, <2>1, FunctionIsVector
<1>8. g \in Column
  BY <1>1, <1>4, <1>6, <1>7 DEF Column
\* a row of the new order points to its place, any other row to npos
<1>9. ASSUME NEW i \in 1 .. n
      PROVE  At(g.sparse, dense[i]) = i - 1
  <2>1. /\ dense[i] + 1 \in 1 .. Len(c.sparse)
        /\ (dense[i] + 1) - 1 = dense[i]
    BY <1>3
  <2>2. PICK k \in 1 .. Len(c.sparse) : k = dense[i] + 1 /\ k - 1 = dense[i]
    BY <2>1
  <2>3. g.sparse[k] = (CHOOSE j \in 1 .. n : dense[j] = k - 1) - 1
    <3>1. \E j \in 1 .. n : dense[j] = k - 1
      BY <2>2
    <3>q. QED  BY <1>4, <3>1
  <2>4. (CHOOSE j \in 1 .. n : dense[j] = k - 1) = i
    BY <1>5, <2>2
  <2>q. QED  BY <2>2, <2>3, <2>4 DEF At
<1>10. ASSUME NEW q \in 0 .. Len(c.sparse) - 1, ~\E i \in 1 .. n : dense[i] = q
       PROVE  At(g.sparse, q) = npos
  <2>1. q + 1 \in 1 .. Len(c.sparse) /\ (q + 1) - 1 = q
    BY <1>3
  <2>q. QED  BY <1>4, <1>10, <2>1 DEF At
<1>11. ASSUME NEW q \in Index
       PROVE  contains(g, q) <=> \E i \in 1 .. n : dense[i] = q
  <2>1. ASSUME NEW i \in 1 .. n, dense[i] = q
        PROVE  contains(g, q)
    <3>1. At(g.sparse, q) = i - 1
      BY <1>9, <2>1
    <3>2. i - 1 # npos
      BY <1>1, <1>2, <1>3
    <3>q. QED  BY <1>3, <1>6, <2>1, <3>1, <3>2 DEF contains
  <2>2. ASSUME contains(g, q)
        PROVE  \E i \in 1 .. n : dense[i] = q
    <3>1. q \in 0 .. Len(c.sparse) - 1 /\ At(g.sparse, q) # npos
      BY <1>3, <1>6, <2>2 DEF contains, Index
    <3>q. QED  BY <1>10, <3>1
  <2>q. QED  BY <2>1, <2>2
<1>12. SparseSet(g)
  <2>1. ASSUME NEW q \in Index, contains(g, q)
        PROVE  /\ At(g.sparse, q) < Len(g.dense)
               /\ At(g.dense, At(g.sparse, q)) = q
    <3>1. PICK i \in 1 .. n : dense[i] = q
      BY <1>11, <2>1
    <3>2. At(g.sparse, q) = i - 1
      BY <1>9, <3>1
    <3>3. At(dense, i - 1) = q
      BY <1>1, <3>1, (i - 1) + 1 = i DEF At
    <3>q. QED  BY <1>1, <1>4, <3>2, <3>3 DEF n
  <2>2. ASSUME NEW d \in 0 .. Len(g.dense) - 1
        PROVE  /\ At(g.dense, d) < Len(g.sparse)
               /\ At(g.sparse, At(g.dense, d)) = d
    <3>1. d + 1 \in 1 .. n /\ (d + 1) - 1 = d
      BY <1>1, <1>4 DEF n
    <3>2. At(g.dense, d) = dense[d + 1]
      BY <1>4 DEF At
    <3>q. QED  BY <1>3, <1>6, <1>9, <3>1, <3>2
  <2>q. QED  BY <1>4, <1>7, <2>1, <2>2 DEF SparseSet, n
<1>13. RowsIn(g) = RowsIn(c) \cap ToSet(order)
  <2>1. ASSUME NEW q \in Index
        PROVE  contains(g, q) <=> q \in ToSet(dense)
    BY <1>1, <1>11 DEF ToSet
  <2>2. RowsIn(g) = Index \cap ToSet(dense)
    BY <2>1 DEF RowsIn
  <2>q. QED  BY <1>1, <2>2 DEF RowsIn
<1>14. ASSUME NEW q \in RowsIn(c) \cap ToSet(order)
       PROVE  get(g, q) = get(c, q)
  <2>1. PICK i \in 1 .. n : dense[i] = q
    BY <1>1 DEF ToSet
  <2>2. At(g.sparse, q) = i - 1
    BY <1>9, <2>1
  <2>3. At(g.data, i - 1) = get(c, q)
    BY <1>1, <1>4, <2>1, (i - 1) + 1 = i DEF At
  <2>q. QED  BY <2>2, <2>3 DEF get
<1>q. QED  BY <1>8, <1>12, <1>13, <1>14 DEF g
=============================================================================
