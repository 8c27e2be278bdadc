--------------------------- MODULE SoaTableProofs ---------------------------
(***************************************************************************)
(* Invariants of the table, for every set of columns and values and every  *)
(* npos and max_generation, and what a user of it sees: joins, the order   *)
(* of sort_by_multi, and that it implements TablePromise.  The slots, the free list and the columns need *)
(* each other: an insert is safe because what the free list's head names   *)
(* is a slot, dead and without values; an erase because the slot it puts   *)
(* in front is not on the list yet.  So one inductive invariant holds      *)
(* them all.                                                               *)
(***************************************************************************)
EXTENDS SoaTable, ColumnVectorProofs

-----------------------------------------------------------------------------
(* Orders of a finite set.                                                 *)

(* The sequences that SetToSeqs enumerates list every member once.         *)
LEMMA OrdersOfSet ==
  ASSUME NEW S, IsFiniteSet(S), NEW f
  PROVE  f \in SetToSeqs(S) <=> /\ f \in Seq(S)
                                /\ IsInjective(f)
                                /\ ToSet(f) = S
<1> DEFINE n == Cardinality(S)
<1>1. n \in Nat
  BY FS_CardinalityType
<1>2. f \in SetToSeqs(S) <=> f \in [1 .. n -> S] /\ IsInjective(f)
  BY DEF SetToSeqs, IsInjective
<1> HIDE DEF n
<1>3. ASSUME f \in [1 .. n -> S], IsInjective(f)
      PROVE  f \in Seq(S) /\ ToSet(f) = S
  <2>1. Cardinality(1 .. n) = n
    <3>1. Cardinality(1 .. n) = IF 1 > n THEN 0 ELSE n - 1 + 1
      BY <1>1, 1 \in Int, n \in Int, FS_Interval
    <3>q. QED  BY <1>1, <3>1
  <2>2. f \in Injection(1 .. n, S)
    BY <1>3 DEF Injection
  <2>3. f \in Surjection(1 .. n, S)
    <3>1. Cardinality(1 .. n) = Cardinality(S)
      BY <2>1 DEF n
    <3>q. QED  BY <2>2, <3>1, FS_Injection
  <2>4. ToSet(f) = S
    BY <1>3, <2>3 DEF Surjection, ToSet
  <2>5. f \in Seq(S)
    BY <1>1, <1>3, FunctionIsVector
  <2>q. QED  BY <2>4, <2>5
<1>4. ASSUME f \in Seq(S), IsInjective(f), ToSet(f) = S
      PROVE  f \in [1 .. n -> S]
  <2> DEFINE m == Len(f)
  <2>1. m \in Nat /\ f \in [1 .. m -> S] /\ DOMAIN f = 1 .. m
    BY <1>4, LenProperties
  <2>2. f \in Bijection(1 .. m, S)
    BY <1>4, <2>1 DEF Bijection, Injection, Surjection, ToSet
  <2>3. ExistsBijection(1 .. m, S)
    BY <2>2 DEF ExistsBijection
  <2>4. n = m
    BY <2>1, <2>3, FS_CountingElements DEF n
  <2>q. QED  BY <2>1, <2>4
<1>q. QED  BY <1>2, <1>3, <1>4

(* SetToAllKPermutations enumerates the sequences that list some members   *)
(* once.                                                                   *)
LEMMA PartialOrdersOfSet ==
  ASSUME NEW S, IsFiniteSet(S), NEW f
  PROVE  f \in SetToAllKPermutations(S) <=> f \in Seq(S) /\ IsInjective(f)
<1>1. ASSUME NEW s \in SUBSET S, f \in SetToSeqs(s)
      PROVE  f \in Seq(S) /\ IsInjective(f)
  <2>1. IsFiniteSet(s)
    BY FS_Subset
  <2>2. f \in Seq(s) /\ IsInjective(f)
    BY <1>1, <2>1, OrdersOfSet
  <2>q. QED  BY <2>2, SeqMonotonic
<1>2. ASSUME f \in Seq(S), IsInjective(f)
      PROVE  \E s \in SUBSET S : f \in SetToSeqs(s)
  <2> DEFINE s == ToSet(f)
             n == Len(f)
  <2>1. n \in Nat /\ f \in [1 .. n -> S] /\ DOMAIN f = 1 .. n
    BY <1>2, LenProperties
  <2>2. s \in SUBSET S /\ f \in [1 .. n -> s]
    BY <2>1 DEF ToSet
  <2>3. IsFiniteSet(s)
    BY <2>2, FS_Subset
  <2>4. f \in Seq(s)
    BY <2>1, <2>2, FunctionIsVector
  <2>5. f \in SetToSeqs(s)
    BY <1>2, <2>3, <2>4, OrdersOfSet
  <2>q. QED  BY <2>2, <2>5
<1>q. QED  BY <1>1, <1>2 DEF SetToAllKPermutations

-----------------------------------------------------------------------------
(* The inductive invariant, in the words of SoaTable's invariants, but for *)
(* the free list, which is given as a sequence of dead slots.              *)

SlotsFit == Len(m_rows) <= npos /\ Len(m_free_links) = Len(m_rows)

FreeChain(chain) ==
  /\ chain \in Seq(Slots \ AliveSlots)
  /\ IsInjective(chain)
  /\ m_free_head = IF Len(chain) = 0 THEN npos ELSE chain[1]
  /\ \A k \in 1 .. Len(chain) :
       At(m_free_links, chain[k]) =
         IF k = Len(chain) THEN npos ELSE chain[k + 1]
  /\ \A i \in Slots \ AliveSlots :
       \/ At(m_rows, i).generation = max_generation
       \/ \E k \in 1 .. Len(chain) : chain[k] = i

IInv ==
  /\ TypeOK
  /\ SlotsFit
  /\ ColumnsConsistent
  /\ PooledIsSigned
  /\ AliveCounted
  /\ \E chain : FreeChain(chain)

-----------------------------------------------------------------------------
(* Slots.                                                                  *)

(* A slot's number is an index, never npos, and there are finitely many.   *)
LEMMA SlotFacts ==
  ASSUME TypeOK, SlotsFit
  PROVE  /\ npos \in Nat /\ max_generation \in Nat /\ Len(m_rows) \in Nat
         /\ Slots = 0 .. Len(m_rows) - 1
         /\ Slots \subseteq Index /\ AliveSlots \subseteq Slots
         /\ \A i \in Slots : At(m_rows, i) \in RowMeta
         /\ IsFiniteSet(Slots) /\ IsFiniteSet(AliveSlots)
<1>1. /\ npos \in Nat /\ max_generation \in Nat /\ Len(m_rows) \in Nat
      /\ m_rows \in Seq(RowMeta)
  BY NposAssumption, GenerationAssumption, LenProperties DEF TypeOK
<1>2. Slots \subseteq Index /\ AliveSlots \subseteq Slots
  BY <1>1 DEF Slots, AliveSlots, Index, SlotsFit
<1>3. \A i \in Slots : At(m_rows, i) \in RowMeta
  BY <1>1, VectorAt DEF Slots
<1>4. IsFiniteSet(Slots)
  BY <1>1, 0 \in Int, Len(m_rows) - 1 \in Int, FS_Interval DEF Slots
<1>5. IsFiniteSet(AliveSlots)
  BY <1>2, <1>4, FS_Subset
<1>q. QED  BY <1>1, <1>2, <1>3, <1>4, <1>5 DEF Slots

(* Overwriting a slot changes that slot and no other.                      *)
LEMMA SlotPut ==
  ASSUME TypeOK, SlotsFit,
         NEW i \in Slots, NEW x \in RowMeta, m_rows' = Put(m_rows, i, x)
  PROVE  /\ m_rows' \in Seq(RowMeta)
         /\ Len(m_rows') = Len(m_rows)
         /\ Slots' = Slots
         /\ At(m_rows', i) = x
         /\ \A j \in Slots : j # i => At(m_rows', j) = At(m_rows, j)
         /\ x.alive => AliveSlots' = AliveSlots \cup {i}
         /\ ~x.alive => AliveSlots' = AliveSlots \ {i}
<1>1. m_rows \in Seq(RowMeta) /\ i \in 0 .. Len(m_rows) - 1
  BY SlotFacts DEF TypeOK
<1>2. /\ m_rows' \in Seq(RowMeta)
      /\ Len(m_rows') = Len(m_rows)
      /\ At(m_rows', i) = x
      /\ \A j \in 0 .. Len(m_rows) - 1 : j # i => At(m_rows', j) = At(m_rows, j)
  <2> DEFINE p == Put(m_rows, i, x)
  <2>1. /\ p \in Seq(RowMeta)
        /\ Len(p) = Len(m_rows)
        /\ At(p, i) = x
        /\ \A j \in 0 .. Len(m_rows) - 1 : j # i => At(p, j) = At(m_rows, j)
    BY <1>1, VectorPut
  <2>2. m_rows' = p
    OBVIOUS
  <2> HIDE DEF p
  <2>q. QED  BY <2>1, <2>2
<1>3. Slots' = Slots
  BY <1>2 DEF Slots
<1>4. \A j \in Slots : j # i => At(m_rows', j) = At(m_rows, j)
  BY <1>2 DEF Slots
<1>5. AliveSlots' = {j \in Slots : At(m_rows', j).alive}
  BY <1>3 DEF AliveSlots
<1>6. AliveSlots' = {j \in Slots : IF j = i THEN x.alive ELSE j \in AliveSlots}
  BY <1>2, <1>4, <1>5 DEF AliveSlots
<1>7. AliveSlots \subseteq Slots
  BY SlotFacts
<1>q. QED  BY <1>2, <1>3, <1>4, <1>6, <1>7

-----------------------------------------------------------------------------
(* The free list.                                                          *)

RestOf(chain) == [k \in 1 .. Len(chain) - 1 |-> chain[k + 1]]

PushedOn(i, chain) ==
  [k \in 1 .. Len(chain) + 1 |-> IF k = 1 THEN i ELSE chain[k - 1]]

(* What a chain is, element by element.                                    *)
LEMMA ChainFacts ==
  ASSUME TypeOK, SlotsFit, NEW chain, FreeChain(chain)
  PROVE  /\ Len(chain) \in Nat /\ DOMAIN chain = 1 .. Len(chain)
         /\ \A k \in 1 .. Len(chain) : /\ chain[k] \in Slots
                                       /\ chain[k] \notin AliveSlots
                                       /\ chain[k] # npos
         /\ \A k, l \in 1 .. Len(chain) : chain[k] = chain[l] => k = l
         /\ m_free_head # npos => Len(chain) # 0 /\ m_free_head = chain[1]
<1>1. /\ chain \in Seq(Slots \ AliveSlots) /\ Len(chain) \in Nat
      /\ DOMAIN chain = 1 .. Len(chain)
  BY LenProperties DEF FreeChain
<1>2. \A k \in 1 .. Len(chain) : chain[k] \in Slots \ AliveSlots
  BY <1>1, ElementOfSeq
<1>3. npos \notin Slots
  BY SlotFacts DEF Index
<1>4. m_free_head # npos => Len(chain) # 0 /\ m_free_head = chain[1]
  BY DEF FreeChain
<1>5. \A k, l \in 1 .. Len(chain) : chain[k] = chain[l] => k = l
  <2>1. IsInjective(chain)
    BY DEF FreeChain
  <2>q. QED  BY <1>1, <2>1 DEF IsInjective
<1>q. QED  BY <1>1, <1>2, <1>3, <1>4, <1>5

(* insert pops a dead slot off the list, and the rest is a free list.      *)
LEMMA PopChain ==
  ASSUME TypeOK, SlotsFit, NEW chain, FreeChain(chain), InsertRecycled
  PROVE  /\ m_free_head \in Slots /\ m_free_head \notin AliveSlots
         /\ At(m_rows, m_free_head) \in RowMeta
         /\ m_free_links[m_free_head + 1] \in IndexOrNpos
         /\ m_rows' \in Seq(RowMeta) /\ Len(m_rows') = Len(m_rows)
         /\ At(m_rows', m_free_head).generation =
              At(m_rows, m_free_head).generation
         /\ At(m_rows', m_free_head).signature = {}
         /\ \A j \in Slots :
              j # m_free_head => At(m_rows', j) = At(m_rows, j)
         /\ Slots' = Slots /\ AliveSlots' = AliveSlots \cup {m_free_head}
         /\ FreeChain(RestOf(chain))'
<1> DEFINE h == m_free_head
           n == Len(chain)
           x == [At(m_rows, h) EXCEPT !.alive = TRUE, !.signature = {}]
           rest == RestOf(chain)
<1>1. /\ n \in Nat /\ n # 0 /\ h = chain[1] /\ 1 \in 1 .. n
      /\ h \in Slots /\ h \notin AliveSlots
  BY ChainFacts DEF InsertRecycled
<1>2. At(m_rows, h) \in RowMeta
  BY <1>1, SlotFacts
<1>3. /\ x \in RowMeta /\ x.alive
      /\ x.generation = At(m_rows, h).generation /\ x.signature = {}
  BY <1>2 DEF RowMeta
<1>4. m_free_links[h + 1] \in IndexOrNpos
  <2>1. h \in 0 .. Len(m_free_links) - 1
    BY <1>1, SlotFacts DEF SlotsFit
  <2>2. At(m_free_links, h) \in IndexOrNpos
    BY <2>1, VectorAt DEF TypeOK
  <2>q. QED  BY <2>2 DEF At
<1>5. m_rows' = Put(m_rows, h, x)
  BY DEF InsertRecycled
<1> HIDE DEF x
<1>6. /\ m_rows' \in Seq(RowMeta)
      /\ Len(m_rows') = Len(m_rows)
      /\ Slots' = Slots
      /\ At(m_rows', h) = x
      /\ \A j \in Slots : j # h => At(m_rows', j) = At(m_rows, j)
      /\ AliveSlots' = AliveSlots \cup {h}
  BY <1>1, <1>3, <1>5, SlotPut
<1>7. FreeChain(rest)'
  <2>1. /\ \A k \in 1 .. n : chain[k] \in Slots /\ chain[k] \notin AliveSlots
        /\ \A k, l \in 1 .. n : chain[k] = chain[l] => k = l
    BY ChainFacts
  <2>2. ASSUME NEW k \in 1 .. n - 1
        PROVE  chain[k + 1] \in Slots \ (AliveSlots \cup {h})
    BY <1>1, <2>1, k + 1 \in 1 .. n, k + 1 # 1
  <2>3. rest \in [1 .. n - 1 -> Slots \ (AliveSlots \cup {h})]
    BY <2>2 DEF RestOf
  <2>4. rest \in Seq(Slots \ (AliveSlots \cup {h})) /\ Len(rest) = n - 1
    BY <1>1, <2>3, n - 1 \in Nat, FunctionIsVector
  <2>5. \A k \in 1 .. n - 1 : rest[k] = chain[k + 1]
    BY DEF RestOf
  <2>6. IsInjective(rest)
    <3>1. ASSUME NEW k \in 1 .. n - 1, NEW l \in 1 .. n - 1, rest[k] = rest[l]
          PROVE  k = l
      <4>1. k + 1 \in 1 .. n /\ l + 1 \in 1 .. n
        BY <1>1
      <4>2. k + 1 = l + 1
        BY <2>1, <2>5, <3>1, <4>1
      <4>q. QED  BY <4>2
    <3>q. QED  BY <2>3, <3>1 DEF IsInjective
  <2>7. \A k \in 1 .. n : At(m_free_links, chain[k]) =
                            IF k = n THEN npos ELSE chain[k + 1]
    BY DEF FreeChain
  <2>8. m_free_links' = m_free_links /\ m_free_head' = At(m_free_links, h)
    BY DEF InsertRecycled
  <2>9. m_free_head' = IF n - 1 = 0 THEN npos ELSE rest[1]
    <3>1. m_free_head' = IF 1 = n THEN npos ELSE chain[1 + 1]
      BY <1>1, <2>7, <2>8
    <3>2. CASE n = 1
      BY <3>1, <3>2
    <3>3. CASE n # 1
      <4>1. 1 \in 1 .. n - 1
        BY <1>1, <3>3
      <4>2. rest[1] = chain[1 + 1]
        BY <2>5, <4>1
      <4>q. QED  BY <1>1, <3>1, <3>3, <4>2
    <3>q. QED  BY <3>2, <3>3
  <2>10. ASSUME NEW k \in 1 .. n - 1
         PROVE  At(m_free_links', rest[k]) =
                  IF k = n - 1 THEN npos ELSE rest[k + 1]
    <3>1. k + 1 \in 1 .. n /\ (k + 1 = n <=> k = n - 1)
      BY <1>1
    <3>2. At(m_free_links, chain[k + 1]) =
            IF k = n - 1 THEN npos ELSE chain[(k + 1) + 1]
      BY <2>7, <3>1
    <3>3. k # n - 1 => rest[k + 1] = chain[(k + 1) + 1]
      BY <1>1, <2>5
    <3>q. QED  BY <2>5, <2>8, <3>2, <3>3
  <2>11. ASSUME NEW i \in Slots \ (AliveSlots \cup {h})
         PROVE  \/ At(m_rows', i).generation = max_generation
                \/ \E k \in 1 .. n - 1 : rest[k] = i
    <3>1. \/ At(m_rows, i).generation = max_generation
          \/ \E k \in 1 .. n : chain[k] = i
      BY DEF FreeChain
    <3>2. ASSUME NEW k \in 1 .. n, chain[k] = i
          PROVE  \E l \in 1 .. n - 1 : rest[l] = i
      <4>1. k # 1
        BY <1>1, <3>2
      <4>2. k - 1 \in 1 .. n - 1 /\ (k - 1) + 1 = k
        BY <1>1, <4>1
      <4>3. rest[k - 1] = chain[k]
        BY <2>5, <4>2
      <4>q. QED  BY <3>2, <4>2, <4>3
    <3>q. QED  BY <1>6, <3>1, <3>2
  <2> HIDE DEF n, rest
  <2>q. QED  BY <1>6, <2>4, <2>6, <2>9, <2>10, <2>11 DEF FreeChain
<1>q. QED  BY <1>1, <1>2, <1>3, <1>4, <1>6, <1>7

(* A slot retired at max_generation is not on the list and not missed.     *)
LEMMA RetireChain ==
  ASSUME TypeOK, SlotsFit, NEW chain, FreeChain(chain),
         NEW i \in AliveSlots, Released(i),
         At(m_rows, i).generation = max_generation
  PROVE  /\ m_rows' \in Seq(RowMeta) /\ Len(m_rows') = Len(m_rows)
         /\ \A j \in Slots : j # i => At(m_rows', j) = At(m_rows, j)
         /\ At(m_rows', i).generation = At(m_rows, i).generation
         /\ Slots' = Slots /\ AliveSlots' = AliveSlots \ {i}
         /\ m_free_links' = m_free_links /\ m_free_head' = m_free_head
         /\ FreeChain(chain)'
<1> DEFINE x == [At(m_rows, i) EXCEPT !.alive = FALSE, !.signature = {}]
<1>1. i \in Slots /\ At(m_rows, i) \in RowMeta
  BY SlotFacts
<1>2. /\ x \in RowMeta /\ ~x.alive
      /\ x.generation = At(m_rows, i).generation
  BY <1>1 DEF RowMeta
<1>3. /\ m_rows' = Put(m_rows, i, x)
      /\ m_free_links' = m_free_links /\ m_free_head' = m_free_head
  BY DEF Released
<1> HIDE DEF x
<1>4. /\ m_rows' \in Seq(RowMeta)
      /\ Len(m_rows') = Len(m_rows)
      /\ Slots' = Slots
      /\ At(m_rows', i) = x
      /\ \A j \in Slots : j # i => At(m_rows', j) = At(m_rows, j)
      /\ AliveSlots' = AliveSlots \ {i}
  BY <1>1, <1>2, <1>3, SlotPut
<1>5. FreeChain(chain)'
  <2>1. chain \in Seq(Slots \ AliveSlots) /\ IsInjective(chain)
    BY DEF FreeChain
  <2>2. Slots \ AliveSlots \subseteq Slots \ (AliveSlots \ {i})
    OBVIOUS
  <2>3. chain \in Seq(Slots \ (AliveSlots \ {i}))
    BY <2>1, <2>2, SeqMonotonic
  <2>4. ASSUME NEW j \in Slots \ (AliveSlots \ {i})
        PROVE  \/ At(m_rows', j).generation = max_generation
               \/ \E k \in 1 .. Len(chain) : chain[k] = j
    BY <1>2, <1>4 DEF FreeChain
  <2>q. QED  BY <1>3, <1>4, <2>1, <2>3, <2>4 DEF FreeChain
<1>q. QED  BY <1>2, <1>3, <1>4, <1>5

(* Any other erased slot is put in front of the list: it was alive, so it  *)
(* is not on the list yet.                                                 *)
LEMMA PushChain ==
  ASSUME TypeOK, SlotsFit, NEW chain, FreeChain(chain),
         NEW i \in AliveSlots, Released(i),
         At(m_rows, i).generation # max_generation
  PROVE  /\ m_rows' \in Seq(RowMeta) /\ Len(m_rows') = Len(m_rows)
         /\ \A j \in Slots : j # i => At(m_rows', j) = At(m_rows, j)
         /\ At(m_rows', i).generation = At(m_rows, i).generation + 1
         /\ Slots' = Slots /\ AliveSlots' = AliveSlots \ {i}
         /\ m_free_links' \in Seq(IndexOrNpos)
         /\ Len(m_free_links') = Len(m_free_links)
         /\ m_free_head' = i
         /\ FreeChain(PushedOn(i, chain))'
<1> DEFINE g == At(m_rows, i).generation
           x == [At(m_rows, i) EXCEPT !.alive = FALSE, !.signature = {},
                                      !.generation = @ + 1]
           n == Len(chain)
           pushed == PushedOn(i, chain)
<1>1. /\ i \in Slots /\ i \in 0 .. Len(m_free_links) - 1
      /\ At(m_rows, i) \in RowMeta
  BY SlotFacts DEF SlotsFit
<1>2. g + 1 \in Generation
  BY <1>1, GenerationAssumption DEF RowMeta, Generation
<1>3. x \in RowMeta /\ ~x.alive /\ x.generation = g + 1
  <2> HIDE DEF Generation
  <2>q. QED  BY <1>1, <1>2 DEF RowMeta
<1>4. m_rows' = Put(m_rows, i, x)
  <2>1. m_rows' = Put(m_rows, i,
                    [[At(m_rows, i) EXCEPT !.alive = FALSE, !.signature = {}]
                       EXCEPT !.generation = @ + 1])
    BY DEF Released
  <2>q. QED  BY <1>1, <2>1 DEF RowMeta
<1>5. m_free_links' = Put(m_free_links, i, m_free_head) /\ m_free_head' = i
  BY DEF Released
<1> HIDE DEF x
<1>6. /\ m_rows' \in Seq(RowMeta)
      /\ Len(m_rows') = Len(m_rows)
      /\ Slots' = Slots
      /\ At(m_rows', i) = x
      /\ \A j \in Slots : j # i => At(m_rows', j) = At(m_rows, j)
      /\ AliveSlots' = AliveSlots \ {i}
  BY <1>1, <1>3, <1>4, SlotPut
<1>7. /\ m_free_links' \in Seq(IndexOrNpos)
      /\ Len(m_free_links') = Len(m_free_links)
      /\ At(m_free_links', i) = m_free_head
      /\ \A j \in Slots : j # i => At(m_free_links', j) = At(m_free_links, j)
  <2> DEFINE p == Put(m_free_links, i, m_free_head)
  <2>1. m_free_links \in Seq(IndexOrNpos) /\ m_free_head \in IndexOrNpos
    BY DEF TypeOK
  <2>2. /\ p \in Seq(IndexOrNpos)
        /\ Len(p) = Len(m_free_links)
        /\ At(p, i) = m_free_head
        /\ \A j \in 0 .. Len(m_free_links) - 1 :
             j # i => At(p, j) = At(m_free_links, j)
    BY <1>1, <2>1, VectorPut
  <2>3. m_free_links' = p /\ Slots = 0 .. Len(m_free_links) - 1
    BY <1>5, SlotFacts DEF SlotsFit
  <2> HIDE DEF p
  <2>q. QED  BY <2>2, <2>3
<1>8. FreeChain(pushed)'
  <2>1. /\ n \in Nat
        /\ \A k \in 1 .. n : chain[k] \in Slots /\ chain[k] \notin AliveSlots
        /\ \A k, l \in 1 .. n : chain[k] = chain[l] => k = l
    BY ChainFacts
  <2>2. /\ m_free_head = IF n = 0 THEN npos ELSE chain[1]
        /\ \A k \in 1 .. n : At(m_free_links, chain[k]) =
                               IF k = n THEN npos ELSE chain[k + 1]
    BY DEF FreeChain
  <2>3. \A k \in 1 .. n + 1 : pushed[k] = IF k = 1 THEN i ELSE chain[k - 1]
    BY DEF PushedOn
  <2>4. pushed \in Seq(Slots \ (AliveSlots \ {i})) /\ Len(pushed) = n + 1
    <3>1. ASSUME NEW k \in 1 .. n + 1
          PROVE  (IF k = 1 THEN i ELSE chain[k - 1])
                    \in Slots \ (AliveSlots \ {i})
      <4>1. CASE k = 1
        BY <1>1, <4>1
      <4>2. CASE k # 1
        BY <2>1, <4>2, k - 1 \in 1 .. n
      <4>q. QED  BY <4>1, <4>2
    <3>2. pushed \in [1 .. n + 1 -> Slots \ (AliveSlots \ {i})]
      BY <3>1 DEF PushedOn
    <3>q. QED  BY <2>1, <3>2, n + 1 \in Nat, FunctionIsVector
  <2>5. \A k \in 1 .. n : k + 1 \in 1 .. n + 1 /\ pushed[k + 1] = chain[k]
    <3>1. ASSUME NEW k \in 1 .. n
          PROVE  k + 1 \in 1 .. n + 1 /\ pushed[k + 1] = chain[k]
      <4>1. k + 1 \in 1 .. n + 1 /\ k + 1 # 1 /\ (k + 1) - 1 = k
        BY <2>1
      <4>2. pushed[k + 1] = chain[(k + 1) - 1]
        BY <2>3, <4>1
      <4>q. QED  BY <4>1, <4>2
    <3>q. QED  BY <3>1
  <2>6. /\ 1 \in 1 .. n + 1 /\ pushed[1] = i
        /\ \A k \in 1 .. n + 1 : k = 1 \/ \E l \in 1 .. n : k = l + 1
    <3>1. ASSUME NEW k \in 1 .. n + 1, k # 1
          PROVE  \E l \in 1 .. n : k = l + 1
      BY <2>1, <3>1, k - 1 \in 1 .. n, k = (k - 1) + 1
    <3>2. 1 \in 1 .. n + 1
      BY <2>1
    <3>q. QED  BY <2>3, <3>1, <3>2
  <2> HIDE DEF n, pushed
  <2>7. IsInjective(pushed)
    <3>1. ASSUME NEW k \in 1 .. n + 1, NEW l \in 1 .. n + 1,
                 pushed[k] = pushed[l]
          PROVE  k = l
      BY <2>1, <2>5, <2>6, <3>1
    <3>2. DOMAIN pushed = 1 .. n + 1
      BY <2>4, LenProperties
    <3>q. QED  BY <3>1, <3>2 DEF IsInjective
  <2>8. ASSUME NEW k \in 1 .. n + 1
        PROVE  At(m_free_links', pushed[k]) =
                 IF k = n + 1 THEN npos ELSE pushed[k + 1]
    <3>1. CASE k = 1
      <4>1. At(m_free_links', pushed[k]) = m_free_head
        BY <1>7, <2>6, <3>1
      <4>2. CASE n = 0
        BY <2>2, <3>1, <4>1, <4>2
      <4>3. CASE n # 0
        <5>1. 1 \in 1 .. n /\ k + 1 = 1 + 1 /\ k # n + 1
          BY <2>1, <3>1, <4>3
        <5>2. pushed[k + 1] = chain[1]
          BY <2>5, <5>1
        <5>q. QED  BY <2>2, <4>1, <4>3, <5>1, <5>2
      <4>q. QED  BY <4>2, <4>3
    <3>2. CASE k # 1
      <4>1. PICK l \in 1 .. n : k = l + 1
        BY <2>6, <3>2
      <4>2. pushed[k] = chain[l] /\ chain[l] \in Slots /\ chain[l] # i
        BY <2>1, <2>5, <4>1
      <4>3. At(m_free_links', pushed[k]) =
              IF l = n THEN npos ELSE chain[l + 1]
        BY <1>7, <2>2, <4>2
      <4>4. l # n => pushed[k + 1] = chain[l + 1]
        <5>1. SUFFICES ASSUME l # n PROVE pushed[k + 1] = chain[l + 1]
          OBVIOUS
        <5>2. l + 1 \in 1 .. n
          BY <2>1, <5>1
        <5>q. QED  BY <2>5, <4>1, <5>2
      <4>5. l = n <=> k = n + 1
        BY <2>1, <4>1
      <4>q. QED  BY <4>3, <4>4, <4>5
    <3>q. QED  BY <3>1, <3>2
  <2>9. ASSUME NEW j \in Slots \ (AliveSlots \ {i})
        PROVE  \/ At(m_rows', j).generation = max_generation
               \/ \E k \in 1 .. n + 1 : pushed[k] = j
    <3>1. CASE j = i
      BY <2>6, <3>1
    <3>2. CASE j # i
      <4>1. \/ At(m_rows, j).generation = max_generation
            \/ \E k \in 1 .. n : chain[k] = j
        BY <3>2 DEF FreeChain, n
      <4>q. QED  BY <1>6, <2>5, <3>2, <4>1
    <3>q. QED  BY <3>1, <3>2
  <2>10. n + 1 # 0
    BY <2>1
  <2>q. QED  BY <1>5, <1>6, <2>4, <2>6, <2>7, <2>8, <2>9, <2>10 DEF FreeChain
<1>q. QED  BY <1>3, <1>5, <1>6, <1>7, <1>8

(* A slot that insert appends is alive: the list does not change.          *)
LEMMA GrowChain ==
  ASSUME TypeOK, SlotsFit, NEW chain, FreeChain(chain), InsertGrown
  PROVE  LET i == Len(m_rows)
         IN  /\ i \in Index /\ i \notin Slots
             /\ m_rows' \in Seq(RowMeta) /\ Len(m_rows') = Len(m_rows) + 1
             /\ m_free_links' \in Seq(IndexOrNpos)
             /\ Len(m_free_links') = Len(m_free_links) + 1
             /\ At(m_rows', i).signature = {}
             /\ \A j \in Slots : At(m_rows', j) = At(m_rows, j)
             /\ Slots' = Slots \cup {i} /\ AliveSlots' = AliveSlots \cup {i}
             /\ FreeChain(chain)'
<1> DEFINE i == Len(m_rows)
           x == [generation |-> 0, signature |-> {}, alive |-> TRUE]
<1>1. /\ m_rows \in Seq(RowMeta) /\ i \in Nat /\ npos \in Nat
      /\ Slots = 0 .. i - 1 /\ AliveSlots \subseteq Slots
      /\ m_free_links \in Seq(IndexOrNpos) /\ Len(m_free_links) = i
  BY SlotFacts DEF TypeOK, SlotsFit
<1>2. x \in RowMeta /\ npos \in IndexOrNpos
  BY <1>1, GenerationAssumption DEF RowMeta, Generation, IndexOrNpos
<1>3. /\ m_rows' = Append(m_rows, x)
      /\ m_free_links' = Append(m_free_links, npos)
      /\ m_free_head' = m_free_head
      /\ i + 1 <= npos
  BY DEF InsertGrown, can_address_rows
<1>4. i \in Index /\ i \notin Slots
  BY <1>1, <1>3 DEF Index
<1>5. /\ m_rows' \in Seq(RowMeta) /\ Len(m_rows') = i + 1
      /\ At(m_rows', i) = x
      /\ \A j \in 0 .. i - 1 : At(m_rows', j) = At(m_rows, j)
  BY <1>1, <1>2, <1>3, VectorAppend
<1>6. /\ m_free_links' \in Seq(IndexOrNpos) /\ Len(m_free_links') = i + 1
      /\ \A j \in 0 .. i - 1 : At(m_free_links', j) = At(m_free_links, j)
  BY <1>1, <1>2, <1>3, VectorAppend
<1>7. Slots' = 0 .. i
  BY <1>1, <1>5, (i + 1) - 1 = i DEF Slots
<1>8. Slots' = Slots \cup {i}
  BY <1>1, <1>7
<1>9. x.alive /\ x.signature = {}
  OBVIOUS
<1> HIDE DEF x
<1>10. AliveSlots' = AliveSlots \cup {i}
  <2>1. AliveSlots' = {j \in Slots \cup {i} : At(m_rows', j).alive}
    BY <1>8 DEF AliveSlots
  <2>2. \A j \in Slots : At(m_rows', j) = At(m_rows, j)
    BY <1>1, <1>5
  <2>q. QED  BY <1>4, <1>5, <1>9, <2>1, <2>2 DEF AliveSlots
<1>11. FreeChain(chain)'
  <2>1. (Slots \ AliveSlots)' = Slots \ AliveSlots
    BY <1>4, <1>8, <1>10
  <2>2. \A k \in 1 .. Len(chain) : chain[k] \in 0 .. i - 1
    BY <1>1, ChainFacts
  <2>3. \A k \in 1 .. Len(chain) :
          At(m_free_links', chain[k]) = At(m_free_links, chain[k])
    BY <1>6, <2>2
  <2>4. \A j \in Slots \ AliveSlots : At(m_rows', j) = At(m_rows, j)
    BY <1>1, <1>5
  <2> HIDE DEF i
  <2>q. QED  BY <1>3, <2>1, <2>3, <2>4 DEF FreeChain
<1>q. QED  BY <1>1, <1>4, <1>5, <1>6, <1>8, <1>9, <1>10, <1>11

(* A new signature in an alive slot disturbs neither slots nor list.       *)
LEMMA SignatureStep ==
  ASSUME TypeOK, SlotsFit, NEW chain, FreeChain(chain),
         NEW i \in AliveSlots, NEW sig \in SUBSET Columns,
         SignatureWith(i, sig),
         m_free_links' = m_free_links, m_free_head' = m_free_head
  PROVE  /\ m_rows' \in Seq(RowMeta) /\ Len(m_rows') = Len(m_rows)
         /\ At(m_rows', i).signature = sig
         /\ \A j \in Slots : j # i => At(m_rows', j) = At(m_rows, j)
         /\ \A j \in Slots : At(m_rows', j).generation =
                               At(m_rows, j).generation
         /\ Slots' = Slots /\ AliveSlots' = AliveSlots
         /\ FreeChain(chain)'
<1> DEFINE x == [At(m_rows, i) EXCEPT !.signature = sig]
<1>1. /\ i \in Slots /\ At(m_rows, i) \in RowMeta /\ At(m_rows, i).alive
      /\ AliveSlots \subseteq Slots
  BY SlotFacts DEF AliveSlots
<1>2. /\ x \in RowMeta /\ x.alive /\ x.signature = sig
      /\ x.generation = At(m_rows, i).generation
  BY <1>1 DEF RowMeta
<1>3. m_rows' = Put(m_rows, i, x)
  BY DEF SignatureWith
<1> HIDE DEF x
<1>4. /\ m_rows' \in Seq(RowMeta)
      /\ Len(m_rows') = Len(m_rows)
      /\ Slots' = Slots
      /\ At(m_rows', i) = x
      /\ \A j \in Slots : j # i => At(m_rows', j) = At(m_rows, j)
      /\ AliveSlots' = AliveSlots \cup {i}
  BY <1>1, <1>2, <1>3, SlotPut
<1>5. AliveSlots' = AliveSlots
  BY <1>4
<1>6. \A j \in Slots : At(m_rows', j).generation = At(m_rows, j).generation
  BY <1>2, <1>4
<1>7. FreeChain(chain)'
  BY <1>4, <1>5, <1>6 DEF FreeChain
<1>q. QED  BY <1>2, <1>4, <1>5, <1>6, <1>7

-----------------------------------------------------------------------------
(* Columns.                                                                *)

(* erase: every column loses the row.                                      *)
LEMMA ErasedColumns ==
  ASSUME TypeOK, ColumnsConsistent, NEW i \in Index,
         m_columns' = [C \in Columns |-> remove(m_columns[C], i)]
  PROVE  /\ m_columns' \in [Columns -> Column]
         /\ ColumnsConsistent'
         /\ \A C \in Columns :
              RowsIn(m_columns'[C]) = RowsIn(m_columns[C]) \ {i}
<1>1. ASSUME NEW C \in Columns
      PROVE  /\ m_columns'[C] \in Column
             /\ SparseSet(m_columns'[C])
             /\ RowsIn(m_columns'[C]) = RowsIn(m_columns[C]) \ {i}
  <2>1. m_columns[C] \in Column /\ SparseSet(m_columns[C])
    BY DEF TypeOK, ColumnsConsistent
  <2>q. QED  BY <2>1, RemoveCorrect
<1>q. QED  BY <1>1 DEF ColumnsConsistent

(* assign: one column gains the row, unless it has it already.             *)
LEMMA AssignedColumns ==
  ASSUME TypeOK, ColumnsConsistent, NEW i \in Index,
         NEW D \in Columns, NEW v \in Values,
         m_columns' = [m_columns EXCEPT ![D] = emplace(@, i, v)]
  PROVE  /\ m_columns' \in [Columns -> Column]
         /\ ColumnsConsistent'
         /\ RowsIn(m_columns'[D]) = RowsIn(m_columns[D]) \cup {i}
         /\ \A C \in Columns : C # D => m_columns'[C] = m_columns[C]
<1>1. \A C \in Columns : m_columns[C] \in Column /\ SparseSet(m_columns[C])
  BY DEF TypeOK, ColumnsConsistent
<1>2. /\ \A C \in Columns : C # D => m_columns'[C] = m_columns[C]
      /\ m_columns'[D] = emplace(m_columns[D], i, v)
      /\ m_columns' = [C \in Columns |-> m_columns'[C]]
  BY DEF TypeOK
<1>3. /\ m_columns'[D] \in Column /\ SparseSet(m_columns'[D])
      /\ RowsIn(m_columns'[D]) = RowsIn(m_columns[D]) \cup {i}
  BY <1>1, <1>2, EmplaceCorrect
<1>4. \A C \in Columns : m_columns'[C] \in Column /\ SparseSet(m_columns'[C])
  BY <1>1, <1>2, <1>3
<1>q. QED  BY <1>2, <1>3, <1>4 DEF ColumnsConsistent

(* unassign: one column loses the row.                                     *)
LEMMA UnassignedColumns ==
  ASSUME TypeOK, ColumnsConsistent, NEW i \in Index, NEW D \in Columns,
         m_columns' = [m_columns EXCEPT ![D] = remove(@, i)]
  PROVE  /\ m_columns' \in [Columns -> Column]
         /\ ColumnsConsistent'
         /\ RowsIn(m_columns'[D]) = RowsIn(m_columns[D]) \ {i}
         /\ \A C \in Columns : C # D => m_columns'[C] = m_columns[C]
<1>1. \A C \in Columns : m_columns[C] \in Column /\ SparseSet(m_columns[C])
  BY DEF TypeOK, ColumnsConsistent
<1>2. /\ \A C \in Columns : C # D => m_columns'[C] = m_columns[C]
      /\ m_columns'[D] = remove(m_columns[D], i)
      /\ m_columns' = [C \in Columns |-> m_columns'[C]]
  BY DEF TypeOK
<1>3. /\ m_columns'[D] \in Column /\ SparseSet(m_columns'[D])
      /\ RowsIn(m_columns'[D]) = RowsIn(m_columns[D]) \ {i}
  BY <1>1, <1>2, RemoveCorrect
<1>4. \A C \in Columns : m_columns'[C] \in Column /\ SparseSet(m_columns'[C])
  BY <1>1, <1>2, <1>3
<1>q. QED  BY <1>2, <1>3, <1>4 DEF ColumnsConsistent

(* A sort: every column keeps the rows that the order names.               *)
LEMMA ReorderedColumns ==
  ASSUME TypeOK, ColumnsConsistent,
         NEW order \in Seq(Index), IsInjective(order), ReorderAll(order)
  PROVE  /\ m_columns' \in [Columns -> Column]
         /\ ColumnsConsistent'
         /\ \A C \in Columns : RowsIn(m_columns'[C]) =
                                 RowsIn(m_columns[C]) \cap ToSet(order)
<1>1. m_columns' = [C \in Columns |-> reorder(m_columns[C], order)]
  BY DEF ReorderAll
<1>2. ASSUME NEW C \in Columns
      PROVE  /\ m_columns'[C] \in Column
             /\ SparseSet(m_columns'[C])
             /\ RowsIn(m_columns'[C]) = RowsIn(m_columns[C]) \cap ToSet(order)
  <2>1. m_columns[C] \in Column /\ SparseSet(m_columns[C])
    BY DEF TypeOK, ColumnsConsistent
  <2>2. m_columns'[C] = reorder(m_columns[C], order)
    BY <1>1
  <2>q. QED  BY <2>1, <2>2, ReorderCorrect
<1>q. QED  BY <1>1, <1>2 DEF ColumnsConsistent

-----------------------------------------------------------------------------
(* Every operation keeps the inductive invariant.                          *)

(* A handle that is valid names an alive slot.                             *)
LEMMA ValidIsAlive ==
  ASSUME TypeOK, SlotsFit, NEW id \in Handles, is_valid(id)
  PROVE  /\ id.index \in AliveSlots /\ id.index \in Index
         /\ id = Handle(id.index)
<1>1. id.index \in Nat
  BY NposAssumption DEF Handles, IndexOrNpos
<1>2. id.index \in Slots /\ id.index \in AliveSlots
  BY <1>1, SlotFacts DEF is_valid, AliveSlots
<1>3. id = Handle(id.index)
  BY DEF Handles, Handle, is_valid
<1>q. QED  BY <1>2, <1>3, SlotFacts

(* The handles of the slots in use are handles.                            *)
LEMMA LiveHandlesAreHandles ==
  ASSUME TypeOK, SlotsFit
  PROVE  LiveHandles \subseteq Handles
<1>1. ASSUME NEW i \in AliveSlots
      PROVE  Handle(i) \in Handles
  <2>1. i \in Index /\ At(m_rows, i) \in RowMeta
    BY SlotFacts
  <2>2. i \in IndexOrNpos
    BY <2>1, NposAssumption DEF Index, IndexOrNpos
  <2>q. QED  BY <2>1, <2>2 DEF Handle, Handles, RowMeta
<1>q. QED  BY <1>1 DEF LiveHandles

(* The empty table satisfies the invariant.                                *)
LEMMA InitKeeps ==
  ASSUME Init
  PROVE  IInv
<1>1. /\ m_rows = <<>> /\ m_free_links = <<>> /\ m_free_head = npos
      /\ m_alive_count = 0 /\ stale = {}
      /\ m_columns = [C \in Columns |-> EmptyColumn]
  BY DEF Init
<1>2. Slots = {} /\ AliveSlots = {} /\ Len(m_rows) = 0
  BY <1>1, EmptySeq DEF Slots, AliveSlots
<1>3. TypeOK
  BY <1>1, EmptySeq, EmptyColumnConsistent, NposAssumption
     DEF TypeOK, IndexOrNpos
<1>4. SlotsFit
  BY <1>1, <1>2, NposAssumption DEF SlotsFit
<1>5. ColumnsConsistent /\ PooledIsSigned
  BY <1>1, EmptyColumnConsistent DEF ColumnsConsistent, PooledIsSigned
<1>6. AliveCounted
  BY <1>1, <1>2, FS_EmptySet DEF AliveCounted
<1>7. FreeChain(<<>>)
  <2>1. <<>> \in Seq(Slots \ AliveSlots) /\ Len(<<>>) = 0
    BY EmptySeq
  <2>2. IsInjective(<<>>)
    BY DEF IsInjective
  <2>q. QED  BY <1>1, <1>2, <2>1, <2>2 DEF FreeChain
<1>q. QED  BY <1>3, <1>4, <1>5, <1>6, <1>7 DEF IInv

(* insert into a recycled slot: the slot was dead, so no column has it.    *)
LEMMA InsertRecycledKeeps ==
  ASSUME IInv, InsertRecycled
  PROVE  IInv'
<1> DEFINE h == m_free_head
<1>1. /\ TypeOK /\ SlotsFit /\ ColumnsConsistent /\ PooledIsSigned
      /\ AliveCounted
  BY DEF IInv
<1>2. PICK chain : FreeChain(chain)
  BY DEF IInv
<1>3. /\ h \in Slots /\ h \notin AliveSlots
      /\ m_free_links[h + 1] \in IndexOrNpos
      /\ m_rows' \in Seq(RowMeta) /\ Len(m_rows') = Len(m_rows)
      /\ \A j \in Slots : j # h => At(m_rows', j) = At(m_rows, j)
      /\ Slots' = Slots /\ AliveSlots' = AliveSlots \cup {h}
      /\ FreeChain(RestOf(chain))'
  BY <1>1, <1>2, PopChain
<1>4. /\ m_free_head' = m_free_links[h + 1]
      /\ m_alive_count' = m_alive_count + 1
      /\ m_free_links' = m_free_links /\ m_columns' = m_columns
      /\ stale' = stale
  BY DEF InsertRecycled, At
<1>5. TypeOK'
  BY <1>1, <1>3, <1>4 DEF TypeOK
<1>6. SlotsFit'
  BY <1>1, <1>3, <1>4 DEF SlotsFit
<1>7. ColumnsConsistent'
  BY <1>1, <1>4 DEF ColumnsConsistent
<1>8. PooledIsSigned'
  <2>1. AliveSlots \subseteq Slots
    BY <1>1, SlotFacts
  <2>q. QED  BY <1>1, <1>3, <1>4, <2>1 DEF PooledIsSigned
<1>9. AliveCounted'
  BY <1>1, <1>3, <1>4, SlotFacts, FS_AddElement DEF AliveCounted
<1>q. QED  BY <1>3, <1>5, <1>6, <1>7, <1>8, <1>9 DEF IInv

(* insert into a new slot: no column has it, it was not a slot.            *)
LEMMA InsertGrownKeeps ==
  ASSUME IInv, InsertGrown
  PROVE  IInv'
<1> DEFINE i == Len(m_rows)
<1>1. /\ TypeOK /\ SlotsFit /\ ColumnsConsistent /\ PooledIsSigned
      /\ AliveCounted
  BY DEF IInv
<1>2. PICK chain : FreeChain(chain)
  BY DEF IInv
<1>3. /\ i \in Index /\ i \notin Slots
      /\ m_rows' \in Seq(RowMeta) /\ Len(m_rows') = i + 1
      /\ m_free_links' \in Seq(IndexOrNpos)
      /\ Len(m_free_links') = Len(m_free_links) + 1
      /\ \A j \in Slots : At(m_rows', j) = At(m_rows, j)
      /\ Slots' = Slots \cup {i} /\ AliveSlots' = AliveSlots \cup {i}
      /\ FreeChain(chain)'
  BY <1>1, <1>2, GrowChain
<1>4. /\ i + 1 <= npos
      /\ m_alive_count' = m_alive_count + 1
      /\ m_free_head' = m_free_head /\ m_columns' = m_columns
      /\ stale' = stale
  BY DEF InsertGrown, can_address_rows
<1> HIDE DEF i
<1>5. TypeOK'
  BY <1>1, <1>3, <1>4 DEF TypeOK
<1>6. SlotsFit'
  BY <1>1, <1>3, <1>4 DEF SlotsFit, i
<1>7. ColumnsConsistent'
  BY <1>1, <1>4 DEF ColumnsConsistent
<1>8. AliveSlots \subseteq Slots /\ IsFiniteSet(AliveSlots)
  BY <1>1, SlotFacts
<1>9. PooledIsSigned'
  BY <1>1, <1>3, <1>4, <1>8 DEF PooledIsSigned
<1>10. AliveCounted'
  BY <1>1, <1>3, <1>4, <1>8, FS_AddElement DEF AliveCounted
<1>q. QED  BY <1>3, <1>5, <1>6, <1>7, <1>9, <1>10 DEF IInv

(* erase: no column keeps the row, and the slot is retired or free.        *)
LEMMA EraseKeeps ==
  ASSUME IInv, NEW id \in Handles, erase(id)
  PROVE  IInv'
<1> DEFINE i == id.index
<1>1. /\ TypeOK /\ SlotsFit /\ ColumnsConsistent /\ PooledIsSigned
      /\ AliveCounted
  BY DEF IInv
<1>2. PICK chain : FreeChain(chain)
  BY DEF IInv
<1>3. i \in AliveSlots /\ i \in Index
  BY <1>1, ValidIsAlive DEF erase
<1>4. /\ m_columns' \in [Columns -> Column]
      /\ ColumnsConsistent'
      /\ \A C \in Columns : RowsIn(m_columns'[C]) = RowsIn(m_columns[C]) \ {i}
  BY <1>1, <1>3, ErasedColumns DEF erase
<1>5. /\ Released(i) /\ m_alive_count' = m_alive_count - 1
      /\ stale' = stale \cup {id}
  BY DEF erase
<1> HIDE DEF i
<1>6. /\ m_rows' \in Seq(RowMeta) /\ Len(m_rows') = Len(m_rows)
      /\ \A j \in Slots : j # i => At(m_rows', j) = At(m_rows, j)
      /\ Slots' = Slots /\ AliveSlots' = AliveSlots \ {i}
      /\ m_free_links' \in Seq(IndexOrNpos)
      /\ Len(m_free_links') = Len(m_free_links)
      /\ m_free_head' \in IndexOrNpos
      /\ \E newChain : FreeChain(newChain)'
  <2>1. m_free_links \in Seq(IndexOrNpos) /\ m_free_head \in IndexOrNpos
    BY <1>1 DEF TypeOK
  <2>2. CASE At(m_rows, i).generation = max_generation
    BY <1>1, <1>2, <1>3, <1>5, <2>1, <2>2, RetireChain
  <2>3. CASE At(m_rows, i).generation # max_generation
    <3>1. i \in IndexOrNpos
      BY <1>3, NposAssumption DEF Index, IndexOrNpos
    <3>q. QED  BY <1>1, <1>2, <1>3, <1>5, <2>3, <3>1, PushChain
  <2>q. QED  BY <2>2, <2>3
<1>7. /\ AliveSlots \subseteq Slots /\ IsFiniteSet(AliveSlots)
      /\ Cardinality(AliveSlots) \in Nat
  BY <1>1, SlotFacts, FS_CardinalityType
<1>8. AliveCounted' /\ m_alive_count' \in Nat
  <2>1. /\ Cardinality(AliveSlots \ {i}) = Cardinality(AliveSlots) - 1
        /\ Cardinality(AliveSlots \ {i}) \in Nat
    BY <1>3, <1>7, FS_RemoveElement, FS_CardinalityType
  <2>q. QED  BY <1>1, <1>5, <1>6, <2>1 DEF AliveCounted
<1>9. TypeOK'
  BY <1>1, <1>4, <1>5, <1>6, <1>8 DEF TypeOK
<1>10. SlotsFit'
  BY <1>1, <1>6 DEF SlotsFit
<1>11. PooledIsSigned'
  BY <1>1, <1>4, <1>6, <1>7 DEF PooledIsSigned
<1>q. QED  BY <1>4, <1>6, <1>8, <1>9, <1>10, <1>11 DEF IInv

(* assign: the row enters one column and its bit is set.                   *)
LEMMA AssignKeeps ==
  ASSUME IInv, NEW id \in Handles, NEW D \in Columns, NEW v \in Values,
         assign(D, id, v)
  PROVE  IInv'
<1> DEFINE i   == id.index
           sig == At(m_rows, i).signature \cup {D}
<1>1. /\ TypeOK /\ SlotsFit /\ ColumnsConsistent /\ PooledIsSigned
      /\ AliveCounted
  BY DEF IInv
<1>2. PICK chain : FreeChain(chain)
  BY DEF IInv
<1>3. i \in AliveSlots /\ i \in Index /\ i \in Slots
  BY <1>1, ValidIsAlive, SlotFacts DEF assign
<1>4. sig \in SUBSET Columns
  BY <1>1, <1>3, SlotFacts DEF RowMeta
<1>5. /\ m_columns' \in [Columns -> Column]
      /\ ColumnsConsistent'
      /\ RowsIn(m_columns'[D]) = RowsIn(m_columns[D]) \cup {i}
      /\ \A C \in Columns : C # D => m_columns'[C] = m_columns[C]
  BY <1>1, <1>3, AssignedColumns DEF assign
<1>6. /\ SignatureWith(i, sig) /\ m_free_links' = m_free_links
      /\ m_free_head' = m_free_head /\ m_alive_count' = m_alive_count
      /\ stale' = stale
  BY DEF assign
<1> HIDE DEF i, sig
<1>7. /\ m_rows' \in Seq(RowMeta) /\ Len(m_rows') = Len(m_rows)
      /\ At(m_rows', i).signature = sig
      /\ \A j \in Slots : j # i => At(m_rows', j) = At(m_rows, j)
      /\ Slots' = Slots /\ AliveSlots' = AliveSlots
      /\ FreeChain(chain)'
  BY <1>1, <1>2, <1>3, <1>4, <1>6, SignatureStep
<1>8. TypeOK'
  BY <1>1, <1>5, <1>6, <1>7 DEF TypeOK
<1>9. SlotsFit' /\ AliveCounted'
  BY <1>1, <1>6, <1>7 DEF SlotsFit, AliveCounted
<1>10. PooledIsSigned'
  <2>1. ASSUME NEW C \in Columns, NEW r \in RowsIn(m_columns'[C])
        PROVE  r \in AliveSlots /\ C \in At(m_rows', r).signature
    <3>1. CASE C = D /\ r = i
      BY <1>3, <1>7, <3>1 DEF sig
    <3>2. CASE ~(C = D /\ r = i)
      <4>1. r \in RowsIn(m_columns[C])
        BY <1>5, <2>1, <3>2
      <4>2. r \in AliveSlots /\ r \in Slots /\ C \in At(m_rows, r).signature
        BY <1>1, <4>1, SlotFacts DEF PooledIsSigned
      <4>q. QED  BY <1>7, <4>2 DEF sig
    <3>q. QED  BY <3>1, <3>2
  <2>q. QED  BY <1>7, <2>1 DEF PooledIsSigned
<1>q. QED  BY <1>5, <1>7, <1>8, <1>9, <1>10 DEF IInv

(* unassign: the row leaves one column and its bit is reset.               *)
LEMMA UnassignKeeps ==
  ASSUME IInv, NEW id \in Handles, NEW D \in Columns, unassign(D, id)
  PROVE  IInv'
<1> DEFINE i   == id.index
           sig == At(m_rows, i).signature \ {D}
<1>1. /\ TypeOK /\ SlotsFit /\ ColumnsConsistent /\ PooledIsSigned
      /\ AliveCounted
  BY DEF IInv
<1>2. PICK chain : FreeChain(chain)
  BY DEF IInv
<1>3. i \in AliveSlots /\ i \in Index /\ i \in Slots
  BY <1>1, ValidIsAlive, SlotFacts DEF unassign
<1>4. sig \in SUBSET Columns
  BY <1>1, <1>3, SlotFacts DEF RowMeta
<1>5. /\ m_columns' \in [Columns -> Column]
      /\ ColumnsConsistent'
      /\ RowsIn(m_columns'[D]) = RowsIn(m_columns[D]) \ {i}
      /\ \A C \in Columns : C # D => m_columns'[C] = m_columns[C]
  BY <1>1, <1>3, UnassignedColumns DEF unassign
<1>6. /\ SignatureWith(i, sig) /\ m_free_links' = m_free_links
      /\ m_free_head' = m_free_head /\ m_alive_count' = m_alive_count
      /\ stale' = stale
  BY DEF unassign
<1> HIDE DEF i, sig
<1>7. /\ m_rows' \in Seq(RowMeta) /\ Len(m_rows') = Len(m_rows)
      /\ At(m_rows', i).signature = sig
      /\ \A j \in Slots : j # i => At(m_rows', j) = At(m_rows, j)
      /\ Slots' = Slots /\ AliveSlots' = AliveSlots
      /\ FreeChain(chain)'
  BY <1>1, <1>2, <1>3, <1>4, <1>6, SignatureStep
<1>8. TypeOK'
  BY <1>1, <1>5, <1>6, <1>7 DEF TypeOK
<1>9. SlotsFit' /\ AliveCounted'
  BY <1>1, <1>6, <1>7 DEF SlotsFit, AliveCounted
<1>10. PooledIsSigned'
  <2>1. ASSUME NEW C \in Columns, NEW r \in RowsIn(m_columns'[C])
        PROVE  r \in AliveSlots /\ C \in At(m_rows', r).signature
    <3>1. r \in RowsIn(m_columns[C]) /\ ~(C = D /\ r = i)
      BY <1>5, <2>1
    <3>2. r \in AliveSlots /\ r \in Slots /\ C \in At(m_rows, r).signature
      BY <1>1, <3>1, SlotFacts DEF PooledIsSigned
    <3>q. QED  BY <1>7, <3>1, <3>2 DEF sig
  <2>q. QED  BY <1>7, <2>1 DEF PooledIsSigned
<1>q. QED  BY <1>5, <1>7, <1>8, <1>9, <1>10 DEF IInv

(* clear: an empty table.                                                  *)
LEMMA ClearKeeps ==
  ASSUME IInv, clear
  PROVE  IInv'
<1>1. /\ m_rows' = <<>> /\ m_free_links' = <<>> /\ m_free_head' = npos
      /\ m_alive_count' = 0
      /\ m_columns' = [C \in Columns |-> EmptyColumn]
      /\ stale' = stale \cup LiveHandles
  BY DEF clear
<1>2. Slots' = {} /\ AliveSlots' = {} /\ Len(m_rows') = 0
  BY <1>1, EmptySeq DEF Slots, AliveSlots
<1>3. TypeOK'
  <2>1. stale' \subseteq Handles
    BY <1>1, LiveHandlesAreHandles DEF IInv, TypeOK
  <2>q. QED  BY <1>1, <2>1, EmptySeq, EmptyColumnConsistent, NposAssumption
             DEF TypeOK, IndexOrNpos
<1>4. SlotsFit'
  BY <1>1, <1>2, NposAssumption DEF SlotsFit
<1>5. ColumnsConsistent' /\ PooledIsSigned'
  BY <1>1, EmptyColumnConsistent DEF ColumnsConsistent, PooledIsSigned
<1>6. AliveCounted'
  BY <1>1, <1>2, FS_EmptySet DEF AliveCounted
<1>7. FreeChain(<<>>)'
  <2>1. <<>> \in Seq((Slots \ AliveSlots)') /\ Len(<<>>) = 0
    BY EmptySeq
  <2>2. IsInjective(<<>>)
    BY DEF IsInjective
  <2>q. QED  BY <1>1, <1>2, <2>1, <2>2 DEF FreeChain
<1>q. QED  BY <1>3, <1>4, <1>5, <1>6, <1>7 DEF IInv

(* Reordering by any order of distinct rows only ever drops values.        *)
LEMMA ReorderKeeps ==
  ASSUME IInv, NEW order \in Seq(Index), IsInjective(order), ReorderAll(order)
  PROVE  IInv'
<1>1. /\ TypeOK /\ SlotsFit /\ ColumnsConsistent /\ PooledIsSigned
      /\ AliveCounted
  BY DEF IInv
<1>2. /\ m_columns' \in [Columns -> Column]
      /\ ColumnsConsistent'
      /\ \A C \in Columns : RowsIn(m_columns'[C]) =
                              RowsIn(m_columns[C]) \cap ToSet(order)
  BY <1>1, ReorderedColumns
<1>3. /\ m_rows' = m_rows /\ m_free_links' = m_free_links
      /\ m_free_head' = m_free_head /\ m_alive_count' = m_alive_count
      /\ stale' = stale
  BY DEF ReorderAll
<1>4. Slots' = Slots /\ AliveSlots' = AliveSlots
  BY <1>3 DEF Slots, AliveSlots
<1>5. TypeOK' /\ SlotsFit' /\ AliveCounted'
  BY <1>1, <1>2, <1>3, <1>4 DEF TypeOK, SlotsFit, AliveCounted
<1>6. PooledIsSigned'
  BY <1>1, <1>2, <1>3, <1>4 DEF PooledIsSigned
<1>7. \E chain : FreeChain(chain)'
  <2>1. PICK chain : FreeChain(chain)
    BY DEF IInv
  <2>2. FreeChain(chain)'
    BY <1>3, <1>4, <2>1 DEF FreeChain
  <2>q. QED  BY <2>2
<1>q. QED  BY <1>2, <1>5, <1>6, <1>7 DEF IInv

(* The order of sort_by_column names the rows of the column, each once.    *)
LEMMA ColumnOrder ==
  ASSUME IInv, NEW C \in Columns,
         NEW order \in SetToSeqs(ToSet(m_columns[C].dense))
  PROVE  /\ order \in Seq(Index) /\ IsInjective(order)
         /\ ToSet(order) = RowsIn(m_columns[C])
<1> DEFINE c == m_columns[C]
           S == ToSet(c.dense)
<1>1. c \in Column /\ SparseSet(c)
  BY DEF IInv, TypeOK, ColumnsConsistent
<1>2. c.dense \in Seq(Index) /\ DOMAIN c.dense = 1 .. Len(c.dense)
  BY <1>1, LenProperties DEF Column
<1> HIDE DEF c
<1>3. S \subseteq Index
  BY <1>2, ElementOfSeq DEF ToSet
<1>4. IsFiniteSet(S)
  <2>1. IsFiniteSet(Index)
    BY NposAssumption, 0 \in Int, npos - 1 \in Int, FS_Interval DEF Index
  <2>q. QED  BY <1>3, <2>1, FS_Subset
<1>5. S = RowsIn(c)
  <2>1. /\ npos \in Nat /\ Len(c.dense) \in Nat
        /\ \A q \in Index : contains(c, q) =>
             /\ At(c.sparse, q) \in 0 .. Len(c.dense) - 1
             /\ At(c.dense, At(c.sparse, q)) = q
        /\ \A d \in 0 .. Len(c.dense) - 1 : contains(c, At(c.dense, d))
    BY <1>1, ColumnFacts
  <2>2. ASSUME NEW q \in RowsIn(c)
        PROVE  q \in S
    <3>1. q \in Index /\ contains(c, q)
      BY DEF RowsIn
    <3> DEFINE d == At(c.sparse, q)
    <3>2. d \in 0 .. Len(c.dense) - 1 /\ At(c.dense, d) = q
      BY <2>1, <3>1
    <3> HIDE DEF d
    <3>3. d + 1 \in DOMAIN c.dense /\ c.dense[d + 1] = q
      BY <1>2, <2>1, <3>2 DEF At
    <3>q. QED  BY <3>3 DEF ToSet
  <2>3. ASSUME NEW k \in DOMAIN c.dense
        PROVE  c.dense[k] \in RowsIn(c)
    <3>1. k - 1 \in 0 .. Len(c.dense) - 1 /\ (k - 1) + 1 = k
      BY <1>2, <2>1
    <3>2. contains(c, At(c.dense, k - 1)) /\ At(c.dense, k - 1) = c.dense[k]
      BY <2>1, <3>1 DEF At
    <3>3. c.dense[k] \in Index
      BY <1>3 DEF ToSet
    <3>q. QED  BY <3>2, <3>3 DEF RowsIn
  <2>q. QED  BY <2>2, <2>3 DEF ToSet
<1>6. order \in Seq(S) /\ IsInjective(order) /\ ToSet(order) = S
  BY <1>4, OrdersOfSet DEF c
<1>7. order \in Seq(Index)
  BY <1>3, <1>6, SeqMonotonic
<1>q. QED  BY <1>5, <1>6, <1>7 DEF c

(* The order of sort_by_multi names the alive rows, each once.             *)
LEMMA AliveOrder ==
  ASSUME IInv, NEW order \in SetToSeqs(AliveSlots)
  PROVE  /\ order \in Seq(Index) /\ IsInjective(order)
         /\ ToSet(order) = AliveSlots
<1>1. AliveSlots \subseteq Index /\ IsFiniteSet(AliveSlots)
  BY SlotFacts DEF IInv
<1>2. /\ order \in Seq(AliveSlots) /\ IsInjective(order)
      /\ ToSet(order) = AliveSlots
  BY <1>1, OrdersOfSet
<1>q. QED  BY <1>1, <1>2, SeqMonotonic

(* Nothing changes.                                                        *)
LEMMA StutterKeeps ==
  ASSUME IInv, UNCHANGED vars
  PROVE  IInv'
<1>1. /\ m_rows' = m_rows /\ m_free_links' = m_free_links
      /\ m_free_head' = m_free_head /\ m_alive_count' = m_alive_count
      /\ m_columns' = m_columns /\ stale' = stale
  BY DEF vars
<1>2. Slots' = Slots /\ AliveSlots' = AliveSlots
  BY <1>1 DEF Slots, AliveSlots
<1>3. TypeOK' /\ SlotsFit' /\ AliveCounted'
  BY <1>1, <1>2 DEF IInv, TypeOK, SlotsFit, AliveCounted
<1>4. ColumnsConsistent' /\ PooledIsSigned'
  BY <1>1, <1>2 DEF IInv, ColumnsConsistent, PooledIsSigned
<1>5. \E chain : FreeChain(chain)'
  <2>1. PICK chain : FreeChain(chain)
    BY DEF IInv
  <2>2. FreeChain(chain)'
    BY <1>1, <1>2, <2>1 DEF FreeChain
  <2>q. QED  BY <2>2
<1>q. QED  BY <1>3, <1>4, <1>5 DEF IInv

(* The invariant is inductive.                                             *)
LEMMA NextKeeps ==
  ASSUME IInv, [Next]_vars
  PROVE  IInv'
<1>1. CASE insert
  BY <1>1, InsertRecycledKeeps, InsertGrownKeeps, StutterKeeps
     DEF insert, InsertOverflow
<1>2. ASSUME NEW id \in Handles, Refused(id)
      PROVE  IInv'
  BY <1>2, StutterKeeps DEF Refused
<1>3. ASSUME NEW id \in Handles, erase(id)
      PROVE  IInv'
  BY <1>3, EraseKeeps
<1>4. ASSUME NEW id \in Handles, NEW C \in Columns, unassign(C, id)
      PROVE  IInv'
  BY <1>4, UnassignKeeps
<1>5. ASSUME NEW id \in Handles, NEW C \in Columns, NEW v \in Values,
             assign(C, id, v)
      PROVE  IInv'
  BY <1>5, AssignKeeps
<1>6. ASSUME NEW criteria \in Criteria, sort_by_multi(criteria)
      PROVE  IInv'
  <2>1. PICK order \in SetToSeqs(AliveSlots) : ReorderAll(order)
    BY <1>6 DEF sort_by_multi
  <2>q. QED  BY <2>1, AliveOrder, ReorderKeeps
<1>7. ASSUME NEW C \in Columns, sort_by_column(C)
      PROVE  IInv'
  <2>1. PICK order \in SetToSeqs(ToSet(m_columns[C].dense)) :
          ReorderAll(order)
    BY <1>7 DEF sort_by_column
  <2>q. QED  BY <2>1, ColumnOrder, ReorderKeeps
<1>8. CASE clear
  BY <1>8, ClearKeeps
<1>9. CASE UNCHANGED vars
  BY <1>9, StutterKeeps
<1>q. QED  BY <1>1, <1>2, <1>3, <1>4, <1>5, <1>6, <1>7, <1>8, <1>9
           DEF Next, CommonNext

(* The free list of the invariant, in the words of FreeListSound.          *)
LEMMA ChainIsSound ==
  ASSUME IInv
  PROVE  FreeListSound
<1>1. TypeOK /\ SlotsFit
  BY DEF IInv
<1>2. PICK chain : FreeChain(chain)
  BY DEF IInv
<1>3. chain \in SetToAllKPermutations(Slots \ AliveSlots)
  <2>1. IsFiniteSet(Slots \ AliveSlots)
    BY <1>1, SlotFacts, FS_Subset
  <2>q. QED  BY <1>2, <2>1, PartialOrdersOfSet DEF FreeChain
<1>4. Len(chain) \in Nat /\ DOMAIN chain = 1 .. Len(chain)
  BY <1>1, <1>2, ChainFacts
<1>5. IsFreeList(chain)
  <2>1. chain = <<>> <=> Len(chain) = 0
    BY <1>2, EmptySeq DEF FreeChain
  <2>2. Head(chain) = chain[1]
    OBVIOUS
  <2>3. m_free_head = IF chain = <<>> THEN npos ELSE Head(chain)
    BY <1>2, <2>1, <2>2 DEF FreeChain
  <2>q. QED  BY <1>2, <1>4, <2>3 DEF IsFreeList, FreeChain
<1>6. \A i \in (Slots \ AliveSlots) \ ToSet(chain) :
        At(m_rows, i).generation = max_generation
  BY <1>2, <1>4 DEF FreeChain, ToSet
<1>q. QED  BY <1>3, <1>5, <1>6 DEF FreeListSound

-----------------------------------------------------------------------------
(* Theorems about everything the class lets a program do.                  *)

(* The invariant holds throughout.                                         *)
THEOREM Invariance == Spec => []IInv
<1>1. Init => IInv
  BY InitKeeps
<1>2. IInv /\ [Next]_vars => IInv'
  BY NextKeeps
<1>q. QED  BY <1>1, <1>2, PTL DEF Spec

(* Slots, links, counters, columns and handles stay in their types: no     *)
(* generation passes max_generation and no count goes below zero.          *)
THEOREM TypeCorrect == Spec => []TypeOK
<1>1. IInv => TypeOK
  BY DEF IInv
<1>q. QED  BY <1>1, Invariance, PTL

(* The three vectors of every column stay consistent.                      *)
THEOREM ColumnsStayConsistent == Spec => []ColumnsConsistent
<1>1. IInv => ColumnsConsistent
  BY DEF IInv
<1>q. QED  BY <1>1, Invariance, PTL

(* No column holds a value for a dead row or without the signature bit.    *)
THEOREM PooledStaysSigned == Spec => []PooledIsSigned
<1>1. IInv => PooledIsSigned
  BY DEF IInv
<1>q. QED  BY <1>1, Invariance, PTL

(* The free list lists every slot that can be used again, once.            *)
THEOREM FreeListStaysSound == Spec => []FreeListSound
<1>1. IInv => FreeListSound
  BY ChainIsSound
<1>q. QED  BY <1>1, Invariance, PTL

(* size() counts the alive rows.                                           *)
THEOREM AliveStaysCounted == Spec => []AliveCounted
<1>1. IInv => AliveCounted
  BY DEF IInv
<1>q. QED  BY <1>1, Invariance, PTL

(* npos names no slot.                                                     *)
THEOREM IndexSpaceStaysBounded == Spec => []IndexSpaceBounded
<1>1. ASSUME IInv
      PROVE  IndexSpaceBounded
  <2>1. TypeOK /\ SlotsFit
    BY <1>1 DEF IInv
  <2>2. npos \in Nat /\ Len(m_rows) \in Nat /\ Len(m_rows) <= npos
    BY <2>1, SlotFacts DEF SlotsFit
  <2>3. ASSUME NEW i \in AliveSlots
        PROVE  is_valid(make_row_id(i))
    <3>1. i \in Slots /\ At(m_rows, i).alive
      BY <2>1 DEF AliveSlots
    <3>2. i < Len(m_rows)
      BY <2>2, <3>1 DEF Slots
    <3>q. QED  BY <3>1, <3>2 DEF make_row_id, Handle, is_valid
  <2>4. ~is_valid([index |-> npos, generation |-> 0])
    BY <2>2 DEF is_valid
  <2>5. \A i \in IndexOrNpos : is_valid(make_row_id(i)) <=> i \in AliveSlots
    BY <2>3, <2>4 DEF make_row_id
  <2>q. QED  BY <2>1, <2>5 DEF SlotsFit, IndexSpaceBounded
<1>2. IInv => IndexSpaceBounded
  BY <1>1
<1>q. QED  BY <1>2, Invariance, PTL

-----------------------------------------------------------------------------
(* Theorems about the operations that keep the documented promises.        *)

(* A call of the restricted table is one of the table.                     *)
LEMMA StableIsNext ==
  StableNext => Next
BY DEF StableNext, Next

(* The invariant holds throughout.                                         *)
THEOREM StableInvariance == StableSpec => []IInv
<1>1. Init => IInv
  BY InitKeeps
<1>2. IInv /\ [StableNext]_vars => IInv'
  BY NextKeeps, StableIsNext
<1>q. QED  BY <1>1, <1>2, PTL DEF StableSpec

(* A sort by an order that names every row with a value drops nothing.     *)
LEMMA CoveringSortKeeps ==
  ASSUME IInv, SignatureExact, NEW order \in Seq(Index), IsInjective(order),
         ReorderAll(order),
         \A C \in Columns : RowsIn(m_columns[C]) \subseteq ToSet(order)
  PROVE  SignatureExact'
<1>1. \A C \in Columns : RowsIn(m_columns'[C]) = RowsIn(m_columns[C])
  BY ReorderedColumns DEF IInv
<1>2. m_rows' = m_rows /\ AliveSlots' = AliveSlots
  BY DEF ReorderAll, AliveSlots, Slots
<1>3. AliveSlots \subseteq Index
  BY SlotFacts DEF IInv
<1>q. QED  BY <1>1, <1>2, <1>3 DEF SignatureExact, RowsIn

(* Every operation of StableNext keeps signature and columns in step.      *)
LEMMA SignatureKeeps ==
  ASSUME IInv, SignatureExact, [StableNext]_vars
  PROVE  SignatureExact'
<1>1. /\ TypeOK /\ SlotsFit /\ ColumnsConsistent /\ PooledIsSigned
      /\ AliveSlots \subseteq Slots /\ Slots \subseteq Index
  BY SlotFacts DEF IInv
<1>2. PICK chain : FreeChain(chain)
  BY DEF IInv
<1>3. CASE UNCHANGED vars
  BY <1>3 DEF vars, SignatureExact, AliveSlots, Slots
<1>4. CASE InsertRecycled
  <2>1. /\ \A j \in Slots :
             j # m_free_head => At(m_rows', j) = At(m_rows, j)
        /\ At(m_rows', m_free_head).signature = {}
        /\ AliveSlots' = AliveSlots \cup {m_free_head}
    BY <1>1, <1>2, <1>4, PopChain
  <2>2. m_columns' = m_columns
    BY <1>4 DEF InsertRecycled
  <2>q. QED  BY <1>1, <2>1, <2>2 DEF SignatureExact
<1>5. CASE InsertGrown
  <2> DEFINE i == Len(m_rows)
  <2>1. /\ \A j \in Slots : At(m_rows', j) = At(m_rows, j)
        /\ At(m_rows', i).signature = {}
        /\ AliveSlots' = AliveSlots \cup {i}
    BY <1>1, <1>2, <1>5, GrowChain
  <2>2. m_columns' = m_columns
    BY <1>5 DEF InsertGrown
  <2> HIDE DEF i
  <2>q. QED  BY <1>1, <2>1, <2>2 DEF SignatureExact
<1>6. ASSUME NEW id \in Handles, erase(id)
      PROVE  SignatureExact'
  <2> DEFINE i == id.index
  <2>1. i \in AliveSlots /\ i \in Index /\ Released(i)
    BY <1>1, <1>6, ValidIsAlive DEF erase
  <2>2. \A C \in Columns : RowsIn(m_columns'[C]) = RowsIn(m_columns[C]) \ {i}
    BY <1>1, <1>6, <2>1, ErasedColumns DEF erase
  <2> HIDE DEF i
  <2>3. /\ \A j \in Slots : j # i => At(m_rows', j) = At(m_rows, j)
        /\ AliveSlots' = AliveSlots \ {i}
    BY <1>1, <1>2, <2>1, RetireChain, PushChain
  <2>q. QED  BY <1>1, <2>2, <2>3 DEF SignatureExact, RowsIn
<1>7. ASSUME NEW id \in Handles, NEW D \in Columns, unassign(D, id)
      PROVE  SignatureExact'
  <2> DEFINE i   == id.index
             sig == At(m_rows, i).signature \ {D}
  <2>1. i \in AliveSlots /\ i \in Index /\ i \in Slots
    BY <1>1, <1>7, ValidIsAlive DEF unassign
  <2>2. sig \in SUBSET Columns
    BY <1>1, <2>1, SlotFacts DEF RowMeta
  <2>3. /\ RowsIn(m_columns'[D]) = RowsIn(m_columns[D]) \ {i}
        /\ \A C \in Columns : C # D => m_columns'[C] = m_columns[C]
    BY <1>1, <1>7, <2>1, UnassignedColumns DEF unassign
  <2>4. /\ SignatureWith(i, sig) /\ m_free_links' = m_free_links
        /\ m_free_head' = m_free_head
    BY <1>7 DEF unassign
  <2> HIDE DEF i, sig
  <2>5. /\ At(m_rows', i).signature = sig
        /\ \A j \in Slots : j # i => At(m_rows', j) = At(m_rows, j)
        /\ AliveSlots' = AliveSlots
    BY <1>1, <1>2, <2>1, <2>2, <2>4, SignatureStep
  <2>6. ASSUME NEW C \in Columns, NEW j \in AliveSlots,
               C \in At(m_rows', j).signature
        PROVE  j \in RowsIn(m_columns'[C])
    <3>1. C \in At(m_rows, j).signature /\ ~(C = D /\ j = i)
      BY <1>1, <2>5, <2>6 DEF sig
    <3>2. j \in RowsIn(m_columns[C])
      BY <1>1, <3>1 DEF SignatureExact, RowsIn
    <3>q. QED  BY <2>3, <3>1, <3>2
  <2>q. QED  BY <2>5, <2>6 DEF SignatureExact, RowsIn
<1>8. ASSUME NEW id \in Handles, NEW D \in Columns, NEW v \in Values,
             assign(D, id, v)
      PROVE  SignatureExact'
  <2> DEFINE i   == id.index
             sig == At(m_rows, i).signature \cup {D}
  <2>1. i \in AliveSlots /\ i \in Index /\ i \in Slots
    BY <1>1, <1>8, ValidIsAlive DEF assign
  <2>2. sig \in SUBSET Columns
    BY <1>1, <2>1, SlotFacts DEF RowMeta
  <2>3. /\ RowsIn(m_columns'[D]) = RowsIn(m_columns[D]) \cup {i}
        /\ \A C \in Columns : C # D => m_columns'[C] = m_columns[C]
    BY <1>1, <1>8, <2>1, AssignedColumns DEF assign
  <2>4. /\ SignatureWith(i, sig) /\ m_free_links' = m_free_links
        /\ m_free_head' = m_free_head
    BY <1>8 DEF assign
  <2> HIDE DEF i, sig
  <2>5. /\ At(m_rows', i).signature = sig
        /\ \A j \in Slots : j # i => At(m_rows', j) = At(m_rows, j)
        /\ AliveSlots' = AliveSlots
    BY <1>1, <1>2, <2>1, <2>2, <2>4, SignatureStep
  <2>6. ASSUME NEW C \in Columns, NEW j \in AliveSlots,
               C \in At(m_rows', j).signature
        PROVE  j \in RowsIn(m_columns'[C])
    <3>1. CASE C = D /\ j = i
      BY <2>3, <3>1
    <3>2. CASE ~(C = D /\ j = i)
      <4>1. C \in At(m_rows, j).signature
        BY <1>1, <2>5, <2>6, <3>2 DEF sig
      <4>2. j \in RowsIn(m_columns[C])
        BY <1>1, <4>1 DEF SignatureExact, RowsIn
      <4>q. QED  BY <2>3, <4>2
    <3>q. QED  BY <3>1, <3>2
  <2>q. QED  BY <2>5, <2>6 DEF SignatureExact, RowsIn
<1>9. ASSUME NEW criteria \in Criteria, sort_by_multi(criteria)
      PROVE  SignatureExact'
  <2>1. PICK order \in SetToSeqs(AliveSlots) : ReorderAll(order)
    BY <1>9 DEF sort_by_multi
  <2>2. \A C \in Columns : RowsIn(m_columns[C]) \subseteq AliveSlots
    BY <1>1 DEF PooledIsSigned
  <2>q. QED  BY <2>1, <2>2, AliveOrder, CoveringSortKeeps
<1>10. ASSUME NEW C \in Columns, Covers(C), sort_by_column(C)
       PROVE  SignatureExact'
  <2>1. PICK order \in SetToSeqs(ToSet(m_columns[C].dense)) :
          ReorderAll(order)
    BY <1>10 DEF sort_by_column
  <2>2. \A D \in Columns : RowsIn(m_columns[D]) \subseteq RowsIn(m_columns[C])
    BY <1>10 DEF Covers
  <2>q. QED  BY <2>1, <2>2, ColumnOrder, CoveringSortKeeps
<1>q. QED  BY <1>3, <1>4, <1>5, <1>6, <1>7, <1>8, <1>9, <1>10
           DEF StableNext, CommonNext, insert, InsertOverflow, Refused

(* A signature bit that is set has a value behind it: as long as nobody    *)
(* clears, and sorts only by columns that cover the others, get and select *)
(* find what contains() announces.                                         *)
THEOREM SignatureStaysExact == StableSpec => []SignatureExact
<1>1. Init => SignatureExact
  <2>1. SUFFICES ASSUME Init PROVE SignatureExact
    OBVIOUS
  <2>2. AliveSlots = {}
    BY <2>1, EmptySeq DEF Init, AliveSlots, Slots
  <2>q. QED  BY <2>2 DEF SignatureExact
<1>2. IInv /\ SignatureExact /\ [StableNext]_vars => SignatureExact'
  BY SignatureKeeps
<1>q. QED  BY <1>1, <1>2, StableInvariance, PTL DEF StableSpec

(* Why a stale handle stays invalid.  Its slot has moved on to a later     *)
(* generation, or is retired at this one; so it names no alive slot now,   *)
(* and none later, since no slot on the free list has its generation.      *)
StaleBehind ==
  \A id \in stale : /\ id.index \in Slots
                    /\ id.generation <= At(m_rows, id.index).generation

StaleOff(chain) ==
  \A k \in 1 .. Len(chain), id \in stale :
    id.index = chain[k] => id.generation # At(m_rows, chain[k]).generation

StaleInv ==
  /\ StaleBehind
  /\ StaleNeverValid
  /\ \E chain : FreeChain(chain) /\ StaleOff(chain)

(* A stale handle of an alive slot is of another generation.               *)
LEMMA StaleOfAlive ==
  ASSUME TypeOK, SlotsFit, StaleNeverValid,
         NEW id \in stale, id.index \in AliveSlots
  PROVE  id.generation # At(m_rows, id.index).generation
<1>1. id.index < Len(m_rows) /\ At(m_rows, id.index).alive
  BY SlotFacts DEF AliveSlots
<1>q. QED  BY <1>1 DEF StaleNeverValid, is_valid

(* The other way round, in the next state.                                 *)
LEMMA StaleIfApart ==
  ASSUME StaleBehind', SlotsFit', TypeOK',
         \A id \in stale' : id.index \in AliveSlots' =>
           id.generation # At(m_rows', id.index).generation
  PROVE  StaleNeverValid'
<1>1. ASSUME NEW id \in stale', is_valid(id)'
      PROVE  FALSE
  <2>1. id.index \in Slots'
    BY DEF StaleBehind
  <2>2. id.index \in AliveSlots'
    BY <1>1, <2>1 DEF is_valid, AliveSlots
  <2>q. QED  BY <1>1, <2>2 DEF is_valid
<1>q. QED  BY <1>1 DEF StaleNeverValid

(* Every operation of StableNext keeps stale handles invalid.              *)
LEMMA StaleKeeps ==
  ASSUME IInv, StaleInv, IInv', [StableNext]_vars
  PROVE  StaleInv'
<1>1. /\ TypeOK /\ SlotsFit /\ ColumnsConsistent /\ TypeOK' /\ SlotsFit'
      /\ AliveSlots \subseteq Slots /\ Slots \subseteq Index
      /\ \A j \in Slots : At(m_rows, j).generation \in Nat
      /\ StaleBehind /\ StaleNeverValid
  <2>1. TypeOK /\ SlotsFit
    BY DEF IInv
  <2>2. \A j \in Slots : At(m_rows, j).generation \in Nat
    BY <2>1, SlotFacts DEF RowMeta, Generation
  <2>q. QED  BY <2>1, <2>2, SlotFacts DEF IInv, StaleInv
<1>2. PICK chain : FreeChain(chain) /\ StaleOff(chain)
  BY DEF StaleInv
<1>3. /\ \A k \in 1 .. Len(chain) : chain[k] \in Slots
                                    /\ chain[k] \notin AliveSlots
      /\ \A k, l \in 1 .. Len(chain) : chain[k] = chain[l] => k = l
      /\ Len(chain) \in Nat
  BY <1>1, <1>2, ChainFacts
<1>4. \A id \in stale : /\ id.index \in Slots
                        /\ id.generation <= At(m_rows, id.index).generation
                        /\ id.generation \in Nat
  BY <1>1 DEF StaleBehind, TypeOK, Handles, Generation
<1>5. \A id \in stale : id.index \in AliveSlots =>
        id.generation # At(m_rows, id.index).generation
  BY <1>1, StaleOfAlive
\* what leaves handles, alive slots and generations alone
<1>6. ASSUME stale' = stale, Slots' = Slots, AliveSlots' = AliveSlots,
             FreeChain(chain)',
             \A j \in Slots : At(m_rows', j).generation =
                                At(m_rows, j).generation
      PROVE  StaleInv'
  <2>1. StaleBehind'
    BY <1>4, <1>6 DEF StaleBehind
  <2>2. StaleNeverValid'
    BY <1>1, <1>4, <1>5, <1>6, <2>1, StaleIfApart
  <2>3. StaleOff(chain)'
    BY <1>2, <1>3, <1>6 DEF StaleOff
  <2>q. QED  BY <1>6, <2>1, <2>2, <2>3 DEF StaleInv
\* what leaves slots and free list alone
<1>7. ASSUME m_rows' = m_rows, m_free_links' = m_free_links,
             m_free_head' = m_free_head, stale' = stale
      PROVE  StaleInv'
  <2>1. Slots' = Slots /\ AliveSlots' = AliveSlots
    BY <1>7 DEF Slots, AliveSlots
  <2>2. FreeChain(chain)'
    BY <1>2, <1>7, <2>1 DEF FreeChain
  <2>q. QED  BY <1>6, <1>7, <2>1, <2>2
<1>8. CASE UNCHANGED vars
  BY <1>7, <1>8 DEF vars
<1>9. CASE InsertRecycled
  <2> DEFINE h == m_free_head
             rest == RestOf(chain)
  <2>1. /\ h \in Slots /\ h \notin AliveSlots
        /\ At(m_rows', h).generation = At(m_rows, h).generation
        /\ \A j \in Slots : j # h => At(m_rows', j) = At(m_rows, j)
        /\ Slots' = Slots /\ AliveSlots' = AliveSlots \cup {h}
        /\ FreeChain(rest)'
    BY <1>1, <1>2, <1>9, PopChain
  <2>2. stale' = stale
    BY <1>9 DEF InsertRecycled
  <2>3. 1 \in 1 .. Len(chain) /\ h = chain[1]
    BY <1>1, <1>2, <1>9, ChainFacts DEF InsertRecycled
  <2>4. \A j \in Slots : At(m_rows', j).generation = At(m_rows, j).generation
    BY <2>1
  <2>5. StaleBehind'
    BY <1>4, <2>1, <2>2, <2>4 DEF StaleBehind
  <2>6. \A id \in stale : id.index = h =>
          id.generation # At(m_rows, h).generation
    BY <1>2, <2>3 DEF StaleOff
  <2> HIDE DEF h
  <2>7. StaleNeverValid'
    BY <1>1, <1>4, <1>5, <2>1, <2>2, <2>4, <2>5, <2>6, StaleIfApart
  <2>8. StaleOff(rest)'
    <3>1. ASSUME NEW k \in 1 .. Len(rest)
          PROVE  \E l \in 1 .. Len(chain) : rest[k] = chain[l]
      <4>1. rest \in [1 .. Len(chain) - 1 ->
              {chain[m + 1] : m \in 1 .. Len(chain) - 1}]
        BY DEF RestOf
      <4>2. Len(rest) = Len(chain) - 1
        BY <1>3, <2>3, <4>1, Len(chain) - 1 \in Nat, FunctionIsVector
      <4>3. k \in 1 .. Len(chain) - 1
        BY <4>2
      <4>4. rest[k] = chain[k + 1]
        BY <4>3 DEF RestOf
      <4>5. k + 1 \in 1 .. Len(chain)
        BY <1>3, <4>3
      <4>q. QED  BY <4>4, <4>5
    <3>q. QED  BY <1>2, <1>3, <2>2, <2>4, <3>1 DEF StaleOff
  <2>q. QED  BY <2>1, <2>5, <2>7, <2>8 DEF StaleInv
<1>10. CASE InsertGrown
  <2> DEFINE i == Len(m_rows)
  <2>1. /\ i \notin Slots
        /\ \A j \in Slots : At(m_rows', j) = At(m_rows, j)
        /\ Slots' = Slots \cup {i} /\ AliveSlots' = AliveSlots \cup {i}
        /\ FreeChain(chain)'
    BY <1>1, <1>2, <1>10, GrowChain
  <2>2. stale' = stale
    BY <1>10 DEF InsertGrown
  <2> HIDE DEF i
  <2>3. StaleBehind'
    BY <1>4, <2>1, <2>2 DEF StaleBehind
  <2>4. StaleNeverValid'
    BY <1>1, <1>4, <1>5, <2>1, <2>2, <2>3, StaleIfApart
  <2>5. StaleOff(chain)'
    BY <1>2, <1>3, <2>1, <2>2 DEF StaleOff
  <2>q. QED  BY <2>1, <2>3, <2>4, <2>5 DEF StaleInv
<1>11. ASSUME NEW id \in Handles, erase(id)
       PROVE  StaleInv'
  <2> DEFINE i == id.index
             g == At(m_rows, i).generation
  <2>1. i \in AliveSlots /\ i \in Slots /\ Released(i) /\ id.generation = g
    BY <1>1, <1>11, ValidIsAlive DEF erase, Handle
  <2>2. stale' = stale \cup {id}
    BY <1>11 DEF erase
  <2> HIDE DEF i, g
  <2>3. /\ \A j \in Slots : j # i => At(m_rows', j) = At(m_rows, j)
        /\ \/ At(m_rows', i).generation = g
           \/ At(m_rows', i).generation = g + 1
        /\ Slots' = Slots /\ AliveSlots' = AliveSlots \ {i}
    BY <1>1, <1>2, <2>1, RetireChain, PushChain DEF g
  <2>4. g \in Nat
    BY <1>1, <2>1 DEF g
  <2>5. StaleBehind'
    <3>1. ASSUME NEW s \in stale'
          PROVE  /\ s.index \in Slots
                 /\ s.generation <= At(m_rows', s.index).generation
      <4>1. CASE s = id
        BY <2>1, <2>3, <2>4, <4>1 DEF i
      <4>2. CASE s # id
        <5>1. /\ s \in stale /\ s.index \in Slots /\ s.generation \in Nat
              /\ s.generation <= At(m_rows, s.index).generation
          BY <1>4, <2>2, <4>2
        <5>q. QED  BY <2>3, <2>4, <5>1 DEF g
      <4>q. QED  BY <4>1, <4>2
    <3>q. QED  BY <2>3, <3>1 DEF StaleBehind
  <2>6. StaleNeverValid'
    <3>1. ASSUME NEW s \in stale', s.index \in AliveSlots'
          PROVE  s.generation # At(m_rows', s.index).generation
      <4>1. s.index # i /\ s.index \in AliveSlots /\ s.index \in Slots
        BY <1>1, <2>3, <3>1
      <4>2. s \in stale
        BY <2>2, <4>1 DEF i
      <4>q. QED  BY <1>5, <2>3, <4>1, <4>2
    <3>q. QED  BY <1>1, <2>5, <3>1, StaleIfApart
  \* the other slots on the list are as they were
  <2>7. ASSUME NEW k \in 1 .. Len(chain), NEW s \in stale',
               s.index = chain[k]
        PROVE  s.generation # At(m_rows', chain[k]).generation
    <3>1. chain[k] # i /\ At(m_rows', chain[k]) = At(m_rows, chain[k])
      BY <1>3, <2>1, <2>3
    <3>2. s \in stale
      BY <2>2, <2>7, <3>1 DEF i
    <3>q. QED  BY <1>2, <2>7, <3>1, <3>2 DEF StaleOff
  <2>8. CASE g = max_generation
    <3>1. FreeChain(chain)'
      BY <1>1, <1>2, <2>1, <2>8, RetireChain DEF g
    <3>2. StaleOff(chain)'
      BY <2>7 DEF StaleOff
    <3>q. QED  BY <2>5, <2>6, <3>1, <3>2 DEF StaleInv
  <2>9. CASE g # max_generation
    <3> DEFINE pushed == PushedOn(i, chain)
    <3>1. FreeChain(pushed)' /\ At(m_rows', i).generation = g + 1
      BY <1>1, <1>2, <2>1, <2>9, PushChain DEF g
    <3>2. ASSUME NEW s \in stale', s.index = i
          PROVE  s.generation # At(m_rows', i).generation
      <4>1. CASE s = id
        BY <2>1, <2>4, <3>1, <4>1
      <4>2. CASE s # id
        BY <1>4, <2>2, <2>4, <3>1, <3>2, <4>2 DEF g
      <4>q. QED  BY <4>1, <4>2
    <3>3. ASSUME NEW k \in 1 .. Len(pushed)
          PROVE  pushed[k] = i \/ \E l \in 1 .. Len(chain) : pushed[k] = chain[l]
      <4>1. pushed \in [1 .. Len(chain) + 1 ->
              {IF m = 1 THEN i ELSE chain[m - 1] : m \in 1 .. Len(chain) + 1}]
        BY DEF PushedOn
      <4>2. Len(pushed) = Len(chain) + 1
        BY <1>3, <4>1, Len(chain) + 1 \in Nat, FunctionIsVector
      <4>3. pushed[k] = IF k = 1 THEN i ELSE chain[k - 1]
        BY <4>2 DEF PushedOn
      <4>4. k # 1 => k - 1 \in 1 .. Len(chain)
        BY <1>3, <4>2
      <4>q. QED  BY <4>3, <4>4
    <3> HIDE DEF pushed
    <3>4. StaleOff(pushed)'
      BY <2>7, <3>2, <3>3 DEF StaleOff
    <3>q. QED  BY <2>5, <2>6, <3>1, <3>4 DEF StaleInv
  <2>q. QED  BY <2>8, <2>9
<1>12. ASSUME NEW id \in Handles, NEW D \in Columns,
              \/ unassign(D, id)
              \/ \E v \in Values : assign(D, id, v)
       PROVE  StaleInv'
  <2> DEFINE i == id.index
  <2>1. i \in AliveSlots /\ i \in Slots
    BY <1>1, <1>12, ValidIsAlive DEF assign, unassign
  <2>2. At(m_rows, i).signature \in SUBSET Columns
    BY <1>1, <2>1, SlotFacts DEF RowMeta
  <2>3. PICK sig \in SUBSET Columns : SignatureWith(i, sig)
    BY <1>12, <2>2 DEF assign, unassign
  <2>4. /\ m_free_links' = m_free_links /\ m_free_head' = m_free_head
        /\ stale' = stale
    BY <1>12 DEF assign, unassign
  <2> HIDE DEF i
  <2>q. QED  BY <1>1, <1>2, <1>6, <2>1, <2>3, <2>4, SignatureStep
<1>13. ASSUME NEW order, ReorderAll(order)
       PROVE  StaleInv'
  BY <1>7, <1>13 DEF ReorderAll
<1>14. ASSUME NEW criteria \in Criteria, sort_by_multi(criteria)
       PROVE  StaleInv'
  BY <1>13, <1>14 DEF sort_by_multi
<1>15. ASSUME NEW C \in Columns, sort_by_column(C)
       PROVE  StaleInv'
  BY <1>13, <1>15 DEF sort_by_column
<1>q. QED  BY <1>8, <1>9, <1>10, <1>11, <1>12, <1>14, <1>15
           DEF StableNext, CommonNext, insert, InsertOverflow, Refused

(* A handle that erase invalidated is never valid again, however often     *)
(* its slot is reused and whatever max_generation is.                      *)
THEOREM StaleStaysInvalid == StableSpec => []StaleNeverValid
<1>1. Init => StaleInv
  <2>1. SUFFICES ASSUME Init PROVE StaleInv
    OBVIOUS
  <2>2. stale = {} /\ \E chain : FreeChain(chain)
    BY <2>1, InitKeeps DEF Init, IInv
  <2>q. QED  BY <2>2 DEF StaleInv, StaleBehind, StaleNeverValid, StaleOff
<1>2. IInv /\ IInv' /\ StaleInv /\ [StableNext]_vars => StaleInv'
  BY StaleKeeps
<1>3. StaleInv => StaleNeverValid
  BY DEF StaleInv
<1>q. QED  BY <1>1, <1>2, <1>3, StableInvariance, PTL DEF StableSpec

-----------------------------------------------------------------------------
(* The order of sort_by_multi.                                             *)

(* The least element of a set of naturals.                                 *)
LEMMA MinIsLeast ==
  ASSUME NEW S, S \subseteq Nat, S # {}
  PROVE  Min(S) \in S /\ \A k \in S : Min(S) <= k
BY LeastNatural DEF Min

(* What a column holds can be compared.                                    *)
LEMMA ValuesCompare ==
  ASSUME IInv, NEW C \in Columns, NEW a \in Index, contains(m_columns[C], a)
  PROVE  get(m_columns[C], a) \in Int
<1> DEFINE c == m_columns[C]
<1>1. c \in Column /\ SparseSet(c)
  BY DEF IInv, TypeOK, ColumnsConsistent
<1> HIDE DEF c
<1>2. /\ At(c.sparse, a) \in 0 .. Len(c.data) - 1
      /\ c.data \in Seq(Values)
  BY <1>1, ColumnFacts DEF Column, c
<1>3. At(c.data, At(c.sparse, a)) \in Values
  BY <1>2, VectorAt
<1> QED
  BY <1>3, ValuesAssumption DEF get, c

(* One criterion is a weak order: undecided is an equivalence, and what it *)
(* decides it decides one way, alike for rows it does not tell apart.      *)
LEMMA CriterionOrders ==
  ASSUME IInv, NEW C \in Columns,
         NEW a \in AliveSlots, NEW b \in AliveSlots, NEW c \in AliveSlots
  PROVE  /\ ~Decides(C, a, a)
         /\ Decides(C, a, b) <=> Decides(C, b, a)
         /\ Decides(C, a, b) => (ComesFirst(C, a, b) <=> ~ComesFirst(C, b, a))
         /\ ~Decides(C, a, b) /\ ~Decides(C, b, c) => ~Decides(C, a, c)
         /\ /\ ~Decides(C, a, b) \/ ComesFirst(C, a, b)
            /\ ~Decides(C, b, c) \/ ComesFirst(C, b, c)
            /\ Decides(C, a, b) \/ Decides(C, b, c)
            => Decides(C, a, c) /\ ComesFirst(C, a, c)
<1> DEFINE has(r) == contains(m_columns[C], r)
           val(r) == get(m_columns[C], r)
<1>1. a \in Index /\ b \in Index /\ c \in Index
  BY SlotFacts DEF IInv
<1>2. \A r \in {a, b, c} : has(r) \in BOOLEAN /\ (has(r) => val(r) \in Int)
  BY <1>1, ValuesCompare DEF contains
<1>3. \A r, s \in {a, b, c} :
        /\ Decides(C, r, s) <=> \/ has(r) # has(s)
                                \/ has(r) /\ has(s) /\ val(r) # val(s)
        /\ ComesFirst(C, r, s) <=> has(r) /\ (has(s) => val(r) < val(s))
  BY DEF Decides, ComesFirst
<1> HIDE DEF has, val
<1> QED
  BY <1>2, <1>3

(* Before asks the first criterion that decides.                           *)
LEMMA BeforeIs ==
  ASSUME IInv, NEW criteria \in Criteria,
         NEW a \in AliveSlots, NEW b \in AliveSlots
  PROVE  LET Undecided(k) == \A j \in DOMAIN criteria :
                               j < k => ~Decides(criteria[j], a, b)
         IN  /\ (\A k \in DOMAIN criteria : ~Decides(criteria[k], a, b))
                  => (Before(criteria, a, b) <=> a < b)
             /\ \A k \in DOMAIN criteria :
                  Undecided(k) /\ Decides(criteria[k], a, b)
                    => (Before(criteria, a, b) <=> ComesFirst(criteria[k], a, b))
             /\ \/ \A k \in DOMAIN criteria : ~Decides(criteria[k], a, b)
                \/ \E k \in DOMAIN criteria :
                     Undecided(k) /\ Decides(criteria[k], a, b)
<1> DEFINE deciding == {k \in DOMAIN criteria : Decides(criteria[k], a, b)}
<1>1. DOMAIN criteria \subseteq Nat
  BY CriteriaAssumption DEF Criteria, SeqOf
<1>2. deciding \subseteq Nat
  BY <1>1
<1>3. Before(criteria, a, b) <=>
        IF deciding = {} THEN a < b ELSE ComesFirst(criteria[Min(deciding)], a, b)
  BY DEF Before
<1>4. deciding # {} => /\ Min(deciding) \in deciding
                       /\ \A k \in deciding : Min(deciding) <= k
  BY <1>2, MinIsLeast
<1>5. ASSUME NEW k \in deciding,
             \A j \in DOMAIN criteria : j < k => ~Decides(criteria[j], a, b)
      PROVE  k = Min(deciding)
  BY <1>1, <1>4, <1>5
<1>6. deciding # {} => \A j \in DOMAIN criteria :
                         j < Min(deciding) => ~Decides(criteria[j], a, b)
  BY <1>1, <1>4
<1>7. deciding # {} => /\ Min(deciding) \in DOMAIN criteria
                       /\ Decides(criteria[Min(deciding)], a, b)
  BY <1>4
<1>8. (\A k \in DOMAIN criteria : ~Decides(criteria[k], a, b)) <=> deciding = {}
  OBVIOUS
<1>9. \A k \in DOMAIN criteria : Decides(criteria[k], a, b) => k \in deciding
  OBVIOUS
<1> HIDE DEF deciding
<1> QED
  BY <1>3, <1>5, <1>6, <1>7, <1>8, <1>9

(* multi_comp is a strict total order of the alive rows.                   *)
LEMMA BeforeOrders ==
  ASSUME IInv
  PROVE  MultiOrderStrict
<1> SUFFICES ASSUME NEW criteria \in Criteria
             PROVE  /\ \A a \in AliveSlots : ~Before(criteria, a, a)
                    /\ \A a, b \in AliveSlots :
                         a # b => (Before(criteria, a, b) <=> ~Before(criteria, b, a))
                    /\ \A a, b, c \in AliveSlots :
                         Before(criteria, a, b) /\ Before(criteria, b, c)
                           => Before(criteria, a, c)
  BY DEF MultiOrderStrict
<1> DEFINE D(k, a, b) == Decides(criteria[k], a, b)
           F(k, a, b) == ComesFirst(criteria[k], a, b)
           B(a, b)    == Before(criteria, a, b)
           K          == DOMAIN criteria
           None(a, b) == \A k \in K : ~D(k, a, b)
           First(k, a, b) == /\ \A j \in K : j < k => ~D(j, a, b)
                             /\ D(k, a, b)
<1>1. K \subseteq Nat /\ \A k \in K : criteria[k] \in Columns
  BY CriteriaAssumption DEF Criteria, SeqOf
<1>2. AliveSlots \subseteq Nat
  BY SlotFacts DEF IInv, Index
<1>3. \A k \in K : \A a, b, c \in AliveSlots :
         /\ ~D(k, a, a)
         /\ D(k, a, b) <=> D(k, b, a)
         /\ D(k, a, b) => (F(k, a, b) <=> ~F(k, b, a))
         /\ ~D(k, a, b) /\ ~D(k, b, c) => ~D(k, a, c)
         /\ /\ ~D(k, a, b) \/ F(k, a, b)
            /\ ~D(k, b, c) \/ F(k, b, c)
            /\ D(k, a, b) \/ D(k, b, c)
            => D(k, a, c) /\ F(k, a, c)
  BY <1>1, CriterionOrders
<1>4. \A a, b \in AliveSlots :
         /\ None(a, b) => (B(a, b) <=> a < b)
         /\ \A k \in K : First(k, a, b) => (B(a, b) <=> F(k, a, b))
         /\ None(a, b) \/ \E k \in K : First(k, a, b)
  BY BeforeIs
<1> HIDE DEF D, F, B, K
<1>5. ASSUME NEW a \in AliveSlots
      PROVE  ~B(a, a)
  BY <1>2, <1>3, <1>4
<1>6. ASSUME NEW a \in AliveSlots, NEW b \in AliveSlots, a # b
      PROVE  B(a, b) <=> ~B(b, a)
  <2>1. CASE None(a, b)
    <3>1. None(b, a)
      BY <1>3, <2>1
    <3> QED
      BY <1>2, <1>4, <1>6, <2>1, <3>1
  <2>2. ASSUME NEW k \in K, First(k, a, b)
        PROVE  B(a, b) <=> ~B(b, a)
    <3>1. First(k, b, a)
      BY <1>3, <2>2
    <3>2. (B(a, b) <=> F(k, a, b)) /\ (B(b, a) <=> F(k, b, a))
      BY <1>4, <2>2, <3>1
    <3>3. F(k, a, b) <=> ~F(k, b, a)
      BY <1>3, <2>2
    <3> QED
      BY <3>2, <3>3
  <2> QED
    BY <1>4, <2>1, <2>2
<1>7. ASSUME NEW a \in AliveSlots, NEW b \in AliveSlots, NEW c \in AliveSlots,
             B(a, b), B(b, c)
      PROVE  B(a, c)
  <2>1. CASE None(a, b) /\ None(b, c)
    <3>1. None(a, c)
      BY <1>3, <2>1
    <3>2. a < b /\ b < c
      BY <1>4, <1>7, <2>1
    <3>3. a < c
      BY <1>2, <3>2
    <3> QED
      BY <1>4, <3>1, <3>3
  \* k is the first criterion that tells a, b and c apart
  <2>2. ASSUME NEW k \in K, First(k, a, b) \/ First(k, b, c),
               \A j \in K : j < k => ~D(j, a, b) /\ ~D(j, b, c)
        PROVE  B(a, c)
    <3>1. ~D(k, a, b) \/ F(k, a, b)
      <4>1. D(k, a, b) => First(k, a, b)
        BY <2>2
      <4> QED
        BY <1>4, <1>7, <4>1
    <3>2. ~D(k, b, c) \/ F(k, b, c)
      <4>1. D(k, b, c) => First(k, b, c)
        BY <2>2
      <4> QED
        BY <1>4, <1>7, <4>1
    <3>3. D(k, a, c) /\ F(k, a, c)
      BY <1>3, <2>2, <3>1, <3>2
    <3>4. First(k, a, c)
      BY <1>3, <2>2, <3>3
    <3> QED
      BY <1>4, <3>3, <3>4
  <2>3. CASE \E k \in K : First(k, a, b) /\ None(b, c)
    BY <2>2, <2>3
  <2>4. CASE \E k \in K : None(a, b) /\ First(k, b, c)
    BY <2>2, <2>4
  <2>5. ASSUME NEW k \in K, NEW l \in K, First(k, a, b), First(l, b, c)
        PROVE  B(a, c)
    <3>1. k \in Nat /\ l \in Nat
      BY <1>1
    <3>2. CASE k <= l
      <4>1. \A j \in K : j < k => ~D(j, a, b) /\ ~D(j, b, c)
        BY <1>1, <2>5, <3>1, <3>2
      <4> QED
        BY <2>2, <2>5, <4>1
    <3>3. CASE l <= k
      <4>1. \A j \in K : j < l => ~D(j, a, b) /\ ~D(j, b, c)
        BY <1>1, <2>5, <3>1, <3>3
      <4> QED
        BY <2>2, <2>5, <4>1
    <3> QED
      BY <3>1, <3>2, <3>3
  <2> QED
    BY <1>4, <2>1, <2>3, <2>4, <2>5
<1> QED
  BY <1>5, <1>6, <1>7 DEF B

(* sort_by_multi hands std::sort a strict total order, whatever columns    *)
(* the criteria name and whichever rows lack them.                         *)
THEOREM MultiOrderStaysStrict == StableSpec => []MultiOrderStrict
BY BeforeOrders, StableInvariance, PTL

-----------------------------------------------------------------------------
(* Joins.                                                                  *)

(* The dense vector lists the rows of a column, each once.                 *)
LEMMA DenseLists ==
  ASSUME IInv, NEW C \in Columns
  PROVE  /\ m_columns[C].dense \in Seq(Index)
         /\ IsInjective(m_columns[C].dense)
         /\ ToSet(m_columns[C].dense) = RowsIn(m_columns[C])
<1> DEFINE c == m_columns[C]
<1>1. c \in Column /\ SparseSet(c)
  BY DEF IInv, TypeOK, ColumnsConsistent
<1> HIDE DEF c
<1>2. /\ npos \in Nat /\ Len(c.dense) \in Nat
      /\ c.dense \in Seq(Index) /\ DOMAIN c.dense = 1 .. Len(c.dense)
  BY <1>1, ColumnFacts, LenProperties DEF Column
<1>3. \A q \in Index : contains(c, q) =>
        /\ At(c.sparse, q) \in 0 .. Len(c.dense) - 1
        /\ At(c.dense, At(c.sparse, q)) = q
  BY <1>1, ColumnFacts
<1>4. \A k \in 1 .. Len(c.dense) :
        /\ c.dense[k] \in Index
        /\ contains(c, c.dense[k])
        /\ At(c.sparse, c.dense[k]) = k - 1
  <2>1. ASSUME NEW k \in 1 .. Len(c.dense)
        PROVE  k - 1 \in 0 .. Len(c.dense) - 1 /\ At(c.dense, k - 1) = c.dense[k]
    BY <1>2 DEF At
  <2> QED
    BY <1>1, <2>1, ColumnFacts
<1>5. IsInjective(c.dense)
  BY <1>2, <1>4 DEF IsInjective
<1>6. ToSet(c.dense) \subseteq RowsIn(c)
  BY <1>2, <1>4 DEF ToSet, RowsIn
<1>7. ASSUME NEW q \in RowsIn(c)
      PROVE  q \in ToSet(c.dense)
  <2> DEFINE d == At(c.sparse, q)
  <2>1. d \in 0 .. Len(c.dense) - 1 /\ At(c.dense, d) = q
    BY <1>3 DEF RowsIn
  <2> HIDE DEF d
  <2>2. d + 1 \in 1 .. Len(c.dense) /\ c.dense[d + 1] = q
    BY <1>2, <2>1 DEF At
  <2> QED
    BY <1>2, <2>2 DEF ToSet
<1> QED
  BY <1>2, <1>5, <1>6, <1>7 DEF c

(* The signature of an alive row is the columns that have a value of it.   *)
LEMMA SignatureIs ==
  ASSUME IInv, SignatureExact, NEW r \in AliveSlots, NEW C \in Columns
  PROVE  /\ r \in Index
         /\ C \in At(m_rows, r).signature <=> contains(m_columns[C], r)
         /\ contains(m_columns[C], r) <=> r \in RowsIn(m_columns[C])
<1>1. r \in Index
  BY SlotFacts DEF IInv
<1> QED
  BY <1>1 DEF SignatureExact, IInv, PooledIsSigned, RowsIn

(* select, whichever of the smallest columns drives it.                    *)
LEMMA JoinIsExact ==
  ASSUME IInv, SignatureExact
  PROVE  SelectExact
<1> SUFFICES ASSUME NEW Required \in (SUBSET Columns) \ {{}},
                    NEW driver \in Drivers(Required)
             PROVE  /\ IsInjective(select(Required, driver))
                    /\ ToSet(select(Required, driver)) =
                         {r \in AliveSlots : \A C \in Required :
                            contains(m_columns[C], r)}
  BY DEF SelectExact
<1> DEFINE passing == {r \in Index : Passes(Required, r)}
<1>1. driver \in Columns /\ driver \in Required
  BY DEF Drivers
<1>2. /\ IsInjective(select(Required, driver))
      /\ ToSet(select(Required, driver)) = RowsIn(m_columns[driver]) \cap passing
  BY <1>1, DenseLists, KeptCorrect DEF select
<1>3. \A r : r \in passing <=>
        r \in AliveSlots /\ Required \subseteq At(m_rows, r).signature
  <2>1. /\ Slots \subseteq Index /\ Slots = 0 .. Len(m_rows) - 1
        /\ Len(m_rows) \in Nat /\ npos \in Nat
    BY SlotFacts DEF IInv
  <2> QED
    BY <2>1 DEF Passes, AliveSlots, Index
<1> HIDE DEF passing
<1>4. ASSUME NEW r \in AliveSlots
      PROVE  Required \subseteq At(m_rows, r).signature
               <=> \A C \in Required : contains(m_columns[C], r)
  BY SignatureIs
<1>5. \A r \in AliveSlots : contains(m_columns[driver], r)
                              <=> r \in RowsIn(m_columns[driver])
  BY <1>1, SignatureIs
<1> QED
  BY <1>1, <1>2, <1>3, <1>4, <1>5

(* Whichever column drives, select yields the join, each row once.         *)
THEOREM SelectStaysExact == StableSpec => []SelectExact
BY JoinIsExact, StableInvariance, SignatureStaysExact, PTL

-----------------------------------------------------------------------------
(* Sorts.                                                                  *)

(* Kept lists the entries of s in the order they have there.               *)
LEMMA KeptInOrder ==
  ASSUME NEW T, NEW s \in Seq(T), NEW S
  PROVE  LET d == Kept(s, S)
         IN  \A j, k \in 1 .. Len(d) : j < k =>
               \E p, q \in 1 .. Len(s) : p < q /\ s[p] = d[j] /\ s[q] = d[k]
<1> DEFINE n == Len(s)
           Good(d, i) ==
             /\ d \in Seq(T)
             /\ \A j \in 1 .. Len(d) : \E p \in 1 .. i : s[p] = d[j]
             /\ \A j, k \in 1 .. Len(d) : j < k =>
                  \E p, q \in 1 .. i : p < q /\ s[p] = d[j] /\ s[q] = d[k]
<1>1. n \in Nat /\ \A j \in 1 .. n : s[j] \in T
  BY LenProperties, ElementOfSeq
<1>2. PICK f : /\ f = [i \in 0 .. n |->
                         IF i = 0 THEN <<>>
                         ELSE IF s[i] \in S THEN Append(f[i - 1], s[i])
                         ELSE f[i - 1]]
               /\ Kept(s, S) = f[n]
  BY KeptRecursion
<1>3. f[0] = <<>> /\ \A i \in 1 .. n :
        f[i] = IF s[i] \in S THEN Append(f[i - 1], s[i]) ELSE f[i - 1]
  <2> HIDE DEF n
  <2>1. 0 \in 0 .. n /\ \A i \in 1 .. n : i \in 0 .. n /\ i # 0
    BY <1>1
  <2>2. f[0] = <<>>
    BY <1>2, <2>1
  <2>3. ASSUME NEW i \in 1 .. n
        PROVE  f[i] = IF s[i] \in S THEN Append(f[i - 1], s[i]) ELSE f[i - 1]
    BY <1>2, <2>1
  <2> QED
    BY <2>2, <2>3
<1>4. Good(f[0], 0)
  BY <1>3, EmptySeq
<1>5. ASSUME NEW i \in 1 .. n, Good(f[i - 1], i - 1)
      PROVE  Good(f[i], i)
  <2> DEFINE d == f[i - 1]
             e == Append(d, s[i])
  <2>1. \A p \in 1 .. i - 1 : p \in 1 .. i /\ p < i
    OBVIOUS
  <2>2. i \in 1 .. i
    OBVIOUS
  <2>3. CASE s[i] \notin S
    <3>1. f[i] = d
      BY <1>3, <2>3
    <3> HIDE DEF d
    <3> QED
      BY <1>5, <2>1, <3>1 DEF d
  <2>4. CASE s[i] \in S
    <3>1. f[i] = e
      BY <1>3, <2>4
    <3>2. d \in Seq(T) /\ Len(d) \in Nat
      BY <1>5, LenProperties
    <3>3. /\ e \in Seq(T) /\ Len(e) = Len(d) + 1
          /\ \A j \in 1 .. Len(d) : e[j] = d[j]
          /\ e[Len(d) + 1] = s[i]
      BY <1>1, <3>2, AppendProperties
    <3>4. \A j \in 1 .. Len(e) : j \in 1 .. Len(d) \/ j = Len(d) + 1
      BY <3>2, <3>3
    <3>5. /\ \A j \in 1 .. Len(d) : \E p \in 1 .. i - 1 : s[p] = d[j]
          /\ \A j, k \in 1 .. Len(d) : j < k =>
               \E p, q \in 1 .. i - 1 : p < q /\ s[p] = d[j] /\ s[q] = d[k]
      BY <1>5
    <3> HIDE DEF e, d
    <3>6. ASSUME NEW j \in 1 .. Len(e)
          PROVE  \E p \in 1 .. i : s[p] = e[j]
      BY <2>1, <2>2, <3>3, <3>4, <3>5
    <3>7. ASSUME NEW j \in 1 .. Len(e), NEW k \in 1 .. Len(e), j < k
          PROVE  \E p, q \in 1 .. i : p < q /\ s[p] = e[j] /\ s[q] = e[k]
      <4>1. j \in 1 .. Len(d)
        BY <3>2, <3>3, <3>7
      <4>2. CASE k \in 1 .. Len(d)
        <5>1. PICK p \in 1 .. i - 1, q \in 1 .. i - 1 :
                p < q /\ s[p] = d[j] /\ s[q] = d[k]
          BY <3>5, <3>7, <4>1, <4>2
        <5>2. p \in 1 .. i /\ q \in 1 .. i /\ s[p] = e[j] /\ s[q] = e[k]
          BY <2>1, <3>3, <4>1, <4>2, <5>1
        <5> QED
          BY <5>1, <5>2
      <4>3. CASE k = Len(d) + 1
        <5>1. PICK p \in 1 .. i - 1 : s[p] = d[j]
          BY <3>5, <4>1
        <5>2. p \in 1 .. i /\ p < i /\ s[p] = e[j] /\ s[i] = e[k]
          BY <2>1, <3>3, <4>1, <4>3, <5>1
        <5> QED
          BY <2>2, <5>2
      <4> QED
        BY <3>4, <4>2, <4>3
    <3> QED
      BY <3>1, <3>3, <3>6, <3>7
  <2> QED
    BY <2>3, <2>4
<1>6. Good(f[n], n)
  <2> DEFINE bad == {i \in 0 .. n : ~Good(f[i], i)}
  <2>1. SUFFICES ASSUME bad # {} PROVE FALSE
    <3>1. n \in 0 .. n
      BY <1>1
    <3> HIDE DEF Good
    <3> QED
      BY <3>1
  <2>2. PICK m \in bad : \A k \in bad : m <= k
    <3>1. bad \subseteq Nat
      BY <1>1
    <3> HIDE DEF bad
    <3> QED
      BY <2>1, <3>1, LeastNatural
  <2>3. m \in 0 .. n /\ ~Good(f[m], m)
    OBVIOUS
  <2> HIDE DEF Good
  <2>4. m # 0
    BY <1>4, <2>3
  <2>5. m \in 1 .. n /\ m - 1 \in 0 .. n
    BY <1>1, <2>3, <2>4
  <2>6. m - 1 \notin bad
    <3> HIDE DEF bad
    <3> QED
      BY <2>2, <2>5
  <2> QED
    BY <1>5, <2>3, <2>5, <2>6
<1> HIDE DEF Good
<1>7. Good(Kept(s, S), n)
  BY <1>2, <1>6
<1> QED
  BY <1>7 DEF Good

(* Two columns reordered by one order of rows list common rows alike.      *)
LEMMA ReorderAligns ==
  ASSUME NEW order \in Seq(Index), IsInjective(order),
         NEW c \in Column, NEW d \in Column
  PROVE  Aligned(reorder(c, order), reorder(d, order))
<1> DEFINE x == Kept(order, RowsIn(c))
           y == Kept(order, RowsIn(d))
           n == Len(order)
<1>1. /\ x \in Seq(Index) /\ DOMAIN x = 1 .. Len(x) /\ Len(x) \in Nat
      /\ y \in Seq(Index) /\ DOMAIN y = 1 .. Len(y) /\ Len(y) \in Nat
      /\ \A p, q \in 1 .. n : order[p] = order[q] => p = q
      /\ n \in Nat
  BY KeptCorrect, LenProperties DEF IsInjective
<1>2. /\ \A i, j \in 1 .. Len(x) : i < j =>
           \E p, q \in 1 .. n : p < q /\ order[p] = x[i] /\ order[q] = x[j]
      /\ \A k, l \in 1 .. Len(y) : k < l =>
           \E p, q \in 1 .. n : p < q /\ order[p] = y[k] /\ order[q] = y[l]
  BY KeptInOrder
<1>3. reorder(c, order).dense = x /\ reorder(d, order).dense = y
  BY DEF reorder
<1> HIDE DEF x, y, n
<1>4. ASSUME NEW i \in 1 .. Len(x), NEW j \in 1 .. Len(x),
             NEW k \in 1 .. Len(y), NEW l \in 1 .. Len(y),
             x[i] = y[k], x[j] = y[l], i < j
      PROVE  k < l
  <2>1. PICK p \in 1 .. n, q \in 1 .. n :
          p < q /\ order[p] = x[i] /\ order[q] = x[j]
    BY <1>2, <1>4
  <2>2. k # l
    BY <1>1, <1>4, <2>1
  <2>3. ASSUME l < k PROVE FALSE
    <3>1. PICK r \in 1 .. n, t \in 1 .. n :
            r < t /\ order[r] = y[l] /\ order[t] = y[k]
      BY <1>2, <2>3
    <3>2. r = q /\ t = p
      BY <1>1, <1>4, <2>1, <3>1
    <3> QED
      BY <1>1, <2>1, <3>1, <3>2
  <2> QED
    BY <1>1, <2>2, <2>3
<1> QED
  BY <1>1, <1>3, <1>4 DEF Aligned

(* A row that a column has can be given a value, and one that it lacks be  *)
(* removed, without any effect on the rows it lists.                       *)
LEMMA ListUnchanged ==
  ASSUME NEW c \in Column, SparseSet(c), NEW i \in Index
  PROVE  /\ RowsIn(remove(c, i)) = RowsIn(c) => remove(c, i).dense = c.dense
         /\ \A v \in Values : RowsIn(emplace(c, i, v)) = RowsIn(c)
                              => emplace(c, i, v).dense = c.dense
<1>1. ASSUME RowsIn(remove(c, i)) = RowsIn(c)
      PROVE  remove(c, i).dense = c.dense
  <2>1. i \notin RowsIn(c)
    BY <1>1, RemoveCorrect
  <2> QED
    BY <2>1 DEF remove, RowsIn
<1>2. ASSUME NEW v \in Values, RowsIn(emplace(c, i, v)) = RowsIn(c)
      PROVE  emplace(c, i, v).dense = c.dense
  <2>1. contains(c, i)
    <3>1. i \in RowsIn(c)
      BY <1>2, EmplaceCorrect
    <3> QED
      BY <3>1 DEF RowsIn
  <2>2. /\ c.sparse \in Seq(IndexOrNpos) /\ Len(c.sparse) \in Nat
        /\ i \in Nat /\ i < Len(c.sparse) /\ At(c.sparse, i) # npos
    BY <2>1, LenProperties DEF Column, Index, contains
  <2>3. At(Resized(c.sparse, i + 1), i) = At(c.sparse, i)
    <3>1. i + 1 \in Nat /\ ~(i + 1 > Len(c.sparse))
      BY <2>2
    <3>2. i \in 0 .. Len(Resized(c.sparse, i + 1)) - 1
      BY <2>2, <3>1, SparseResized
    <3> QED
      BY <2>2, <3>1, <3>2, SparseResized
  <2>4. emplace(c, i, v) =
          [c EXCEPT !.sparse = Resized(c.sparse, i + 1),
                    !.data = Put(@, At(c.sparse, i), v)]
    BY <2>2, <2>3 DEF emplace
  <2> QED
    BY <2>4 DEF Column
<1> QED
  BY <1>1, <1>2

(* After a sort, all columns are in one row order.                         *)
LEMMA SortedAligned ==
  ASSUME IInv, NEW order \in Seq(Index), IsInjective(order), ReorderAll(order)
  PROVE  \A C, D \in Columns : Aligned(m_columns'[C], m_columns'[D])
<1>1. \A C \in Columns : /\ m_columns[C] \in Column
                         /\ m_columns'[C] = reorder(m_columns[C], order)
  BY DEF IInv, TypeOK, ReorderAll
<1> QED
  BY <1>1, ReorderAligns

(* A step that orders the rows of a column anew is a sort.                 *)
LEMMA StepAligns ==
  ASSUME IInv, StableNext, NEW B \in Columns, Reordered(B)
  PROVE  \A C, D \in Columns : Aligned(m_columns'[C], m_columns'[D])
<1> DEFINE b == m_columns[B]
<1>1. /\ b \in Column /\ SparseSet(b) /\ TypeOK /\ SlotsFit
      /\ RowsIn(m_columns'[B]) = RowsIn(b)
      /\ m_columns'[B].dense # b.dense
  BY DEF IInv, TypeOK, ColumnsConsistent, Reordered
<1>2. m_columns' # m_columns
  BY <1>1
<1>3. ASSUME NEW id \in Handles, erase(id)
      PROVE  FALSE
  <2>1. /\ id.index \in Index
        /\ m_columns'[B] = remove(b, id.index)
    BY <1>1, <1>3, ValidIsAlive DEF erase
  <2> QED
    BY <1>1, <2>1, ListUnchanged
<1>4. ASSUME NEW id \in Handles, NEW C \in Columns, unassign(C, id)
      PROVE  FALSE
  <2>1. /\ id.index \in Index
        /\ m_columns'[B] = IF B = C THEN remove(b, id.index) ELSE b
    BY <1>1, <1>4, ValidIsAlive DEF unassign, TypeOK
  <2> QED
    BY <1>1, <2>1, ListUnchanged
<1>5. ASSUME NEW id \in Handles, NEW C \in Columns, NEW v \in Values,
             assign(C, id, v)
      PROVE  FALSE
  <2>1. /\ id.index \in Index
        /\ m_columns'[B] = IF B = C THEN emplace(b, id.index, v) ELSE b
    BY <1>1, <1>5, ValidIsAlive DEF assign, TypeOK
  <2> QED
    BY <1>1, <2>1, ListUnchanged
<1>6. ASSUME insert \/ \E id \in Handles : Refused(id)
      PROVE  FALSE
  BY <1>2, <1>6
     DEF insert, InsertRecycled, InsertGrown, InsertOverflow, Refused, vars
<1>7. ASSUME NEW criteria \in Criteria, sort_by_multi(criteria)
      PROVE  \A C, D \in Columns : Aligned(m_columns'[C], m_columns'[D])
  <2>1. PICK order \in SetToSeqs(AliveSlots) : ReorderAll(order)
    BY <1>7 DEF sort_by_multi
  <2> QED
    BY <2>1, AliveOrder, SortedAligned
<1>8. ASSUME NEW E \in Columns, sort_by_column(E)
      PROVE  \A C, D \in Columns : Aligned(m_columns'[C], m_columns'[D])
  <2>1. PICK order \in SetToSeqs(ToSet(m_columns[E].dense)) : ReorderAll(order)
    BY <1>8 DEF sort_by_column
  <2> QED
    BY <2>1, ColumnOrder, SortedAligned
<1> QED
  BY <1>3, <1>4, <1>5, <1>6, <1>7, <1>8 DEF StableNext, CommonNext

(* Only a sort orders the rows of a column anew, and after it all columns  *)
(* with the same rows have them in the same places.                        *)
THEOREM SortsAlign == StableSpec => SortAligns
<1>1. IInv /\ [StableNext]_vars
        => [(\E C \in Columns : Reordered(C))
            => \A C, D \in Columns : Aligned(m_columns[C], m_columns[D])']_vars
  <2> SUFFICES ASSUME IInv, [StableNext]_vars, ~UNCHANGED vars,
                      NEW B \in Columns, Reordered(B)
               PROVE  \A C, D \in Columns :
                        Aligned(m_columns'[C], m_columns'[D])
    OBVIOUS
  <2> QED
    BY StepAligns
<1> QED
  BY <1>1, StableInvariance, PTL DEF StableSpec, SortAligns

-----------------------------------------------------------------------------
(* The refinement.  A cell is a live handle and a column with a value of   *)
(* its row.                                                                *)

HeldCells ==
  {p \in LiveHandles \X Columns : p[1].index \in RowsIn(m_columns[p[2]])}

CellMap == [p \in AssignedCells |-> get(m_columns[p[2]], p[1].index)]

(* What the steps need to know of the states on both sides.                *)
UserView ==
  /\ IInv
  /\ StaleNeverValid
  /\ AssignedCells = HeldCells
  /\ LiveHandles \subseteq Handles

(* What a user sees of the rows, by their handles.                         *)
LEMMA ViewHolds ==
  ASSUME IInv, SignatureExact, StaleNeverValid
  PROVE  UserView
<1>1. ASSUME NEW h \in LiveHandles, NEW C \in Columns
      PROVE  try_get(C, h) # {} <=> h.index \in RowsIn(m_columns[C])
  <2>1. PICK i \in AliveSlots : h = Handle(i)
    BY DEF LiveHandles
  <2>2. h.index = i /\ is_valid(h)
    <3>1. i \in Slots /\ At(m_rows, i).alive /\ Slots = 0 .. Len(m_rows) - 1
          /\ Len(m_rows) \in Nat
      BY SlotFacts DEF IInv, AliveSlots
    <3> QED
      BY <2>1, <3>1 DEF Handle, is_valid
  <2>3. /\ C \in At(m_rows, i).signature <=> contains(m_columns[C], i)
        /\ contains(m_columns[C], i) <=> i \in RowsIn(m_columns[C])
    BY SignatureIs
  <2> QED
    BY <2>2, <2>3 DEF try_get, table_contains
<1>2. AssignedCells = HeldCells
  BY <1>1 DEF AssignedCells, HeldCells
<1> QED
  BY <1>2, LiveHandlesAreHandles DEF UserView, IInv

(* Live handles name alive slots, one each.                                *)
LEMMA LiveFacts ==
  ASSUME IInv
  PROVE  /\ \A i \in AliveSlots : /\ Handle(i) \in LiveHandles
                                  /\ Handle(i).index = i
         /\ \A h \in LiveHandles : /\ h.index \in AliveSlots
                                   /\ h.index \in Index
                                   /\ h = Handle(h.index)
         /\ \A p \in HeldCells : /\ p = <<p[1], p[2]>>
                                 /\ p[1] \in LiveHandles /\ p[2] \in Columns
                                 /\ p[1].index \in RowsIn(m_columns[p[2]])
<1>1. AliveSlots \subseteq Index
  BY SlotFacts DEF IInv
<1>2. \A i \in AliveSlots : Handle(i).index = i
  BY DEF Handle
<1> QED
  BY <1>1, <1>2 DEF LiveHandles, HeldCells

(* The cells do not change when neither the cells there are nor what they  *)
(* hold does.                                                              *)
LEMMA SameCellMap ==
  ASSUME UserView, UserView', HeldCells' = HeldCells,
         \A p \in HeldCells : get(m_columns'[p[2]], p[1].index) =
                                get(m_columns[p[2]], p[1].index)
  PROVE  CellMap' = CellMap
BY DEF UserView, CellMap

(* The handles of the slots in use are the same, when the slots and their  *)
(* generations are.                                                        *)
LEMMA SameLive ==
  ASSUME AliveSlots' = AliveSlots,
         \A i \in AliveSlots : At(m_rows', i).generation = At(m_rows, i).generation
  PROVE  LiveHandles' = LiveHandles
BY DEF LiveHandles, Handle

(* insert: a slot gets a handle that no user has seen.                     *)
LEMMA InsertIsInsert ==
  ASSUME UserView, UserView', InsertRecycled \/ InsertGrown
  PROVE  Promise!insert
<1>1. /\ TypeOK /\ SlotsFit /\ ColumnsConsistent /\ PooledIsSigned
      /\ AliveSlots \subseteq Slots /\ Slots \subseteq Index
  BY SlotFacts DEF IInv, UserView
<1>2. PICK chain : FreeChain(chain)
  BY DEF IInv, UserView
<1> DEFINE h == IF m_free_head # npos THEN m_free_head ELSE Len(m_rows)
<1>3. /\ h \notin AliveSlots
      /\ AliveSlots' = AliveSlots \cup {h}
      /\ \A j \in AliveSlots : At(m_rows', j) = At(m_rows, j)
      /\ m_columns' = m_columns /\ stale' = stale
  <2>1. CASE InsertRecycled
    <3>1. h = m_free_head
      BY <2>1 DEF InsertRecycled
    <3>2. /\ m_free_head \notin AliveSlots
          /\ \A j \in Slots : j # m_free_head => At(m_rows', j) = At(m_rows, j)
          /\ AliveSlots' = AliveSlots \cup {m_free_head}
      BY <1>1, <1>2, <2>1, PopChain
    <3> QED
      BY <1>1, <2>1, <3>1, <3>2 DEF InsertRecycled
  <2>2. CASE InsertGrown
    <3>1. h = Len(m_rows)
      BY <2>2 DEF InsertGrown
    <3>2. /\ Len(m_rows) \notin Slots
          /\ \A j \in Slots : At(m_rows', j) = At(m_rows, j)
          /\ AliveSlots' = AliveSlots \cup {Len(m_rows)}
      BY <1>1, <1>2, <2>2, GrowChain
    <3> QED
      BY <1>1, <2>2, <3>1, <3>2 DEF InsertGrown
  <2> QED
    BY <2>1, <2>2
<1> HIDE DEF h
<1>4. PICK new : new = [index |-> h, generation |-> At(m_rows', h).generation]
  OBVIOUS
<1>5. LiveHandles' = LiveHandles \cup {new}
  BY <1>3, <1>4 DEF LiveHandles, Handle
<1>6. new.index = h
  BY <1>4
<1>7. is_valid(new)'
  <2>1. h \in Slots' /\ At(m_rows', h).alive
    BY <1>3 DEF AliveSlots
  <2>2. h < Len(m_rows')
    <3>1. Len(m_rows') \in Nat
      BY LenProperties DEF UserView, IInv, TypeOK
    <3> QED
      BY <2>1, <3>1 DEF Slots
  <2> QED
    BY <1>4, <2>1, <2>2 DEF is_valid
<1>8. new \notin stale
  BY <1>3, <1>7 DEF UserView, StaleNeverValid
<1>9. new \notin LiveHandles
  BY <1>3, <1>6, LiveFacts DEF UserView
<1>10. new \in Handles
  BY <1>5 DEF UserView
<1>11. CellMap' = CellMap
  <2>1. HeldCells' = HeldCells
    <3>1. ASSUME NEW C \in Columns
          PROVE  h \notin RowsIn(m_columns[C])
      BY <1>1, <1>3 DEF PooledIsSigned
    <3> QED
      BY <1>3, <1>5, <1>6, <3>1 DEF HeldCells
  <2> QED
    BY <1>3, <2>1, SameCellMap
<1> QED
  BY <1>3, <1>5, <1>8, <1>9, <1>10, <1>11 DEF Promise!insert, CellMap

(* erase: the handle is no longer live, and its cells are gone.            *)
LEMMA EraseIsErase ==
  ASSUME UserView, UserView', NEW id \in Handles, erase(id)
  PROVE  id \in Handles /\ Promise!erase(id)
<1> DEFINE i == id.index
<1>1. /\ TypeOK /\ SlotsFit /\ ColumnsConsistent
      /\ AliveSlots \subseteq Slots /\ IInv
  BY SlotFacts DEF IInv, UserView
<1>2. PICK chain : FreeChain(chain)
  BY DEF IInv, UserView
<1>3. /\ i \in AliveSlots /\ i \in Index /\ Released(i) /\ id = Handle(i)
      /\ stale' = stale \cup {id}
      /\ m_columns' = [C \in Columns |-> remove(m_columns[C], i)]
  BY <1>1, ValidIsAlive DEF erase
<1> HIDE DEF i
<1>4. /\ \A j \in Slots : j # i => At(m_rows', j) = At(m_rows, j)
      /\ AliveSlots' = AliveSlots \ {i}
  BY <1>1, <1>2, <1>3, RetireChain, PushChain
<1>5. id \in LiveHandles
  BY <1>3 DEF LiveHandles
<1>6. LiveHandles' = LiveHandles \ {id}
  <2>1. \A j \in AliveSlots : j # i => Handle(j)' = Handle(j) /\ Handle(j) # id
    BY <1>1, <1>3, <1>4 DEF Handle
  <2> QED
    BY <1>3, <1>4, <2>1 DEF LiveHandles
<1>7. \A C \in Columns :
        /\ RowsIn(m_columns'[C]) = RowsIn(m_columns[C]) \ {i}
        /\ \A q \in RowsIn(m_columns[C]) \ {i} :
             get(m_columns'[C], q) = get(m_columns[C], q)
  <2>1. ASSUME NEW C \in Columns
        PROVE  /\ m_columns[C] \in Column /\ SparseSet(m_columns[C])
               /\ m_columns'[C] = remove(m_columns[C], i)
    BY <1>1, <1>3 DEF TypeOK, ColumnsConsistent
  <2> QED
    BY <1>3, <2>1, RemoveCorrect
<1>8. \A h \in LiveHandles : h.index = i <=> h = id
  BY <1>1, <1>3, LiveFacts
<1>9. HeldCells' = {p \in HeldCells : p[1] # id}
  BY <1>5, <1>6, <1>7, <1>8 DEF HeldCells
<1>10. \A p \in HeldCells' : get(m_columns'[p[2]], p[1].index) =
                               get(m_columns[p[2]], p[1].index)
  <2>1. ASSUME NEW p \in HeldCells, p[1] # id
        PROVE  /\ p[2] \in Columns
               /\ p[1].index \in RowsIn(m_columns[p[2]]) \ {i}
    BY <1>1, <1>8, <2>1, LiveFacts
  <2> QED
    BY <1>7, <1>9, <2>1
<1>11. CellMap' = [p \in {q \in DOMAIN CellMap : q[1] # id} |-> CellMap[p]]
  BY <1>9, <1>10 DEF CellMap, UserView
<1>12. LiveHandles' \cup stale' = LiveHandles \cup stale
  BY <1>3, <1>5, <1>6
<1> QED
  BY <1>5, <1>6, <1>11, <1>12 DEF Promise!erase, CellMap

(* assign: one cell holds the value.                                       *)
LEMMA AssignIsAssign ==
  ASSUME UserView, UserView', NEW id \in Handles, NEW D \in Columns,
         NEW v \in Values, assign(D, id, v)
  PROVE  Promise!assign(D, id, v)
<1> DEFINE i   == id.index
           sig == At(m_rows, i).signature \cup {D}
<1>1. /\ TypeOK /\ SlotsFit /\ ColumnsConsistent /\ IInv
      /\ AliveSlots \subseteq Slots
  BY SlotFacts DEF IInv, UserView
<1>2. PICK chain : FreeChain(chain)
  BY DEF IInv, UserView
<1>3. /\ i \in AliveSlots /\ i \in Index /\ id = Handle(i)
      /\ stale' = stale
      /\ m_columns' = [m_columns EXCEPT ![D] = emplace(@, i, v)]
      /\ SignatureWith(i, sig) /\ m_free_links' = m_free_links
      /\ m_free_head' = m_free_head
  BY <1>1, ValidIsAlive DEF assign
<1>4. sig \in SUBSET Columns
  BY <1>1, <1>3, SlotFacts DEF RowMeta
<1> HIDE DEF i, sig
<1>5. LiveHandles' = LiveHandles
  <2>1. /\ \A j \in Slots : At(m_rows', j).generation = At(m_rows, j).generation
        /\ AliveSlots' = AliveSlots
    BY <1>1, <1>2, <1>3, <1>4, SignatureStep
  <2> QED
    BY <1>1, <2>1, SameLive
<1>6. id \in LiveHandles /\ id.index = i
  BY <1>3 DEF LiveHandles, i
<1>7. /\ RowsIn(m_columns'[D]) = RowsIn(m_columns[D]) \cup {i}
      /\ get(m_columns'[D], i) = v
      /\ \A q \in RowsIn(m_columns[D]) \ {i} :
           get(m_columns'[D], q) = get(m_columns[D], q)
      /\ \A C \in Columns : C # D => m_columns'[C] = m_columns[C]
  <2>1. /\ m_columns[D] \in Column /\ SparseSet(m_columns[D])
        /\ m_columns'[D] = emplace(m_columns[D], i, v)
        /\ \A C \in Columns : C # D => m_columns'[C] = m_columns[C]
    BY <1>1, <1>3 DEF TypeOK, ColumnsConsistent
  <2> QED
    BY <1>3, <2>1, EmplaceCorrect
<1>8. \A h \in LiveHandles : h.index = i <=> h = id
  BY <1>1, <1>3, LiveFacts
<1> DEFINE cell == <<id, D>>
<1>9. HeldCells' = HeldCells \cup {cell}
  BY <1>5, <1>6, <1>7, <1>8 DEF HeldCells
<1>10. ASSUME NEW p \in HeldCells, p # cell
       PROVE  get(m_columns'[p[2]], p[1].index) = get(m_columns[p[2]], p[1].index)
  <2>1. /\ p = <<p[1], p[2]>> /\ p[1] \in LiveHandles /\ p[2] \in Columns
        /\ p[1].index \in RowsIn(m_columns[p[2]])
    BY <1>1, LiveFacts
  <2>2. CASE p[2] # D
    BY <1>7, <2>1, <2>2
  <2>3. CASE p[2] = D
    <3>1. p[1].index # i
      BY <1>8, <1>10, <2>1, <2>3
    <3> QED
      BY <1>7, <2>1, <2>3, <3>1
  <2> QED
    BY <2>2, <2>3
<1>11. get(m_columns'[cell[2]], cell[1].index) = v
  BY <1>6, <1>7
<1> HIDE DEF cell
<1>12. CellMap' = [p \in DOMAIN CellMap \cup {cell} |->
                     IF p = cell THEN v ELSE CellMap[p]]
  BY <1>9, <1>10, <1>11 DEF CellMap, UserView
<1> QED
  BY <1>3, <1>5, <1>6, <1>12 DEF Promise!assign, CellMap, cell

(* unassign: one cell is gone.                                             *)
LEMMA UnassignIsUnassign ==
  ASSUME UserView, UserView', NEW id \in Handles, NEW D \in Columns,
         unassign(D, id)
  PROVE  Promise!unassign(D, id)
<1> DEFINE i   == id.index
           sig == At(m_rows, i).signature \ {D}
<1>1. /\ TypeOK /\ SlotsFit /\ ColumnsConsistent /\ IInv
      /\ AliveSlots \subseteq Slots
  BY SlotFacts DEF IInv, UserView
<1>2. PICK chain : FreeChain(chain)
  BY DEF IInv, UserView
<1>3. /\ i \in AliveSlots /\ i \in Index /\ id = Handle(i)
      /\ stale' = stale
      /\ m_columns' = [m_columns EXCEPT ![D] = remove(@, i)]
      /\ SignatureWith(i, sig) /\ m_free_links' = m_free_links
      /\ m_free_head' = m_free_head
  BY <1>1, ValidIsAlive DEF unassign
<1>4. sig \in SUBSET Columns
  BY <1>1, <1>3, SlotFacts DEF RowMeta
<1> HIDE DEF i, sig
<1>5. LiveHandles' = LiveHandles
  <2>1. /\ \A j \in Slots : At(m_rows', j).generation = At(m_rows, j).generation
        /\ AliveSlots' = AliveSlots
    BY <1>1, <1>2, <1>3, <1>4, SignatureStep
  <2> QED
    BY <1>1, <2>1, SameLive
<1>6. id \in LiveHandles /\ id.index = i
  BY <1>3 DEF LiveHandles, i
<1>7. /\ RowsIn(m_columns'[D]) = RowsIn(m_columns[D]) \ {i}
      /\ \A q \in RowsIn(m_columns[D]) \ {i} :
           get(m_columns'[D], q) = get(m_columns[D], q)
      /\ \A C \in Columns : C # D => m_columns'[C] = m_columns[C]
  <2>1. /\ m_columns[D] \in Column /\ SparseSet(m_columns[D])
        /\ m_columns'[D] = remove(m_columns[D], i)
        /\ \A C \in Columns : C # D => m_columns'[C] = m_columns[C]
    BY <1>1, <1>3 DEF TypeOK, ColumnsConsistent
  <2> QED
    BY <1>3, <2>1, RemoveCorrect
<1>8. \A h \in LiveHandles : h.index = i <=> h = id
  BY <1>1, <1>3, LiveFacts
<1> DEFINE cell == <<id, D>>
<1>9. HeldCells' = HeldCells \ {cell}
  BY <1>5, <1>6, <1>7, <1>8 DEF HeldCells
<1>10. ASSUME NEW p \in HeldCells, p # cell
       PROVE  get(m_columns'[p[2]], p[1].index) = get(m_columns[p[2]], p[1].index)
  <2>1. /\ p = <<p[1], p[2]>> /\ p[1] \in LiveHandles /\ p[2] \in Columns
        /\ p[1].index \in RowsIn(m_columns[p[2]])
    BY <1>1, LiveFacts
  <2>2. CASE p[2] # D
    BY <1>7, <2>1, <2>2
  <2>3. CASE p[2] = D
    <3>1. p[1].index # i
      BY <1>8, <1>10, <2>1, <2>3
    <3> QED
      BY <1>7, <2>1, <2>3, <3>1
  <2> QED
    BY <2>2, <2>3
<1> HIDE DEF cell
<1>11. CellMap' = [p \in DOMAIN CellMap \ {cell} |-> CellMap[p]]
  BY <1>9, <1>10 DEF CellMap, UserView
<1> QED
  BY <1>3, <1>5, <1>6, <1>11 DEF Promise!unassign, CellMap, cell

(* A sort by an order that names every row with a value is nothing that a  *)
(* user of handles can see.                                                *)
LEMMA SortIsNothing ==
  ASSUME UserView, UserView', NEW order \in Seq(Index), IsInjective(order),
         ReorderAll(order),
         \A C \in Columns : RowsIn(m_columns[C]) \subseteq ToSet(order)
  PROVE  UNCHANGED Promise!vars
<1>1. /\ TypeOK /\ ColumnsConsistent /\ IInv
      /\ m_rows' = m_rows /\ stale' = stale
  BY DEF IInv, UserView, ReorderAll
<1>2. LiveHandles' = LiveHandles
  BY <1>1 DEF LiveHandles, Handle, AliveSlots, Slots
<1>3. ASSUME NEW C \in Columns
      PROVE  /\ RowsIn(m_columns'[C]) = RowsIn(m_columns[C])
             /\ \A q \in RowsIn(m_columns[C]) :
                  get(m_columns'[C], q) = get(m_columns[C], q)
  <2> DEFINE c == m_columns[C]
  <2>1. /\ c \in Column /\ SparseSet(c)
        /\ m_columns'[C] = reorder(c, order)
        /\ RowsIn(c) \cap ToSet(order) = RowsIn(c)
    BY <1>1 DEF TypeOK, ColumnsConsistent, ReorderAll
  <2> HIDE DEF c
  <2>2. /\ RowsIn(reorder(c, order)) = RowsIn(c) \cap ToSet(order)
        /\ \A q \in RowsIn(c) \cap ToSet(order) :
             get(reorder(c, order), q) = get(c, q)
    BY <2>1, ReorderCorrect
  <2> QED
    BY <2>1, <2>2 DEF c
<1>4. HeldCells' = HeldCells
  BY <1>2, <1>3 DEF HeldCells
<1>5. CellMap' = CellMap
  <2>1. \A p \in HeldCells : get(m_columns'[p[2]], p[1].index) =
                                get(m_columns[p[2]], p[1].index)
    BY <1>1, <1>3, LiveFacts
  <2> QED
    BY <1>4, <2>1, SameCellMap
<1> QED
  BY <1>1, <1>2, <1>5 DEF Promise!vars, CellMap

(* Every step is a step of the promise, or none.                           *)
LEMMA StepIsPromised ==
  ASSUME UserView, UserView', [StableNext]_vars
  PROVE  [Promise!Next]_(Promise!vars)
<1>1. CASE UNCHANGED vars
  BY <1>1 DEF vars, Promise!vars, LiveHandles, Handle, AliveSlots, Slots,
              AssignedCells, try_get, table_contains, is_valid
<1>2. CASE InsertRecycled \/ InsertGrown
  BY <1>2, InsertIsInsert DEF Promise!Next
<1>3. ASSUME NEW id \in Handles, erase(id)
      PROVE  Promise!Next
  BY <1>3, EraseIsErase DEF Promise!Next
<1>4. ASSUME NEW id \in Handles, NEW C \in Columns, unassign(C, id)
      PROVE  Promise!Next
  BY <1>4, UnassignIsUnassign DEF Promise!Next
<1>5. ASSUME NEW id \in Handles, NEW C \in Columns, NEW v \in Values,
             assign(C, id, v)
      PROVE  Promise!Next
  BY <1>5, AssignIsAssign DEF Promise!Next
<1>6. ASSUME NEW criteria \in Criteria, sort_by_multi(criteria)
      PROVE  UNCHANGED Promise!vars
  <2>1. PICK order \in SetToSeqs(AliveSlots) : ReorderAll(order)
    BY <1>6 DEF sort_by_multi
  <2>2. \A C \in Columns : RowsIn(m_columns[C]) \subseteq AliveSlots
    BY DEF UserView, IInv, PooledIsSigned
  <2>3. /\ order \in Seq(Index) /\ IsInjective(order)
        /\ ToSet(order) = AliveSlots
    BY AliveOrder DEF UserView
  <2> QED
    BY <2>1, <2>2, <2>3, SortIsNothing
<1>7. ASSUME NEW C \in Columns, Covers(C), sort_by_column(C)
      PROVE  UNCHANGED Promise!vars
  <2>1. PICK order \in SetToSeqs(ToSet(m_columns[C].dense)) : ReorderAll(order)
    BY <1>7 DEF sort_by_column
  <2>2. \A D \in Columns : RowsIn(m_columns[D]) \subseteq RowsIn(m_columns[C])
    BY <1>7 DEF Covers
  <2>3. /\ order \in Seq(Index) /\ IsInjective(order)
        /\ ToSet(order) = RowsIn(m_columns[C])
    BY ColumnOrder DEF UserView
  <2> QED
    BY <2>1, <2>2, <2>3, SortIsNothing
<1> QED
  BY <1>1, <1>2, <1>3, <1>4, <1>5, <1>6, <1>7
     DEF StableNext, CommonNext, insert, InsertOverflow, Refused

(* The table implements TablePromise: as long as nobody clears, and sorts  *)
(* only by columns that cover the others, a handle names one row for ever  *)
(* and a cell keeps its value, however rows are recycled, moved and        *)
(* sorted.                                                                 *)
THEOREM PromiseKept == StableSpec => KeepsPromise
<1>1. Init => Promise!Init
  <2> SUFFICES ASSUME Init PROVE Promise!Init
    OBVIOUS
  <2>1. AliveSlots = {} /\ stale = {}
    BY EmptySeq DEF Init, AliveSlots, Slots
  <2>2. LiveHandles = {} /\ AssignedCells = {}
    BY <2>1 DEF LiveHandles, AssignedCells
  <2>3. CellMap = [p \in {} |-> {}]
    BY <2>2 DEF CellMap
  <2> QED
    BY <2>1, <2>2, <2>3 DEF Promise!Init, CellMap
<1>2. IInv /\ SignatureExact /\ StaleNeverValid => UserView
  BY ViewHolds
<1>3. UserView /\ UserView' /\ [StableNext]_vars => [Promise!Next]_(Promise!vars)
  BY StepIsPromised
<1> QED
  BY <1>1, <1>2, <1>3, StableInvariance, SignatureStaysExact,
     StaleStaysInvalid, PTL DEF StableSpec, KeepsPromise, Promise!Spec
=============================================================================
