------------------------- MODULE ColumnComputeProofs -------------------------
(***************************************************************************)
(* Proofs about tiled_vector and the element-wise operations over its      *)
(* tiles, for any tile size, number of elements, threshold and number of   *)
(* exceptions.  The first part is about tiled_vector alone: it keeps its   *)
(* shape, every tile but the last is full, and flat indices see a plain    *)
(* vector.  The second is about transforms: no task outlives the call, a   *)
(* call that returns has done what the serial loop does, and one that      *)
(* throws has stopped between two elements of every chunk.  The third is   *)
(* about the helpers that take the values of a column, for any width and   *)
(* any vector: deltas and quantized values are the nearest there are, and  *)
(* rolling windows are exact.  The last is about the helpers that take     *)
(* words bit by bit, at any width: fields and flags are independent, and a *)
(* bitmap is the set of its bits.                                          *)
(***************************************************************************)
EXTENDS ColumnHelpers, SequenceTheorems, FiniteSetTheorems,
        WellFoundedInduction, TLAPS

(* Every tile but the last is full, which is what lets column_tiles' spans *)
(* and the flat index (a division by TileSize) name the same elements.     *)
TilesFull ==
  /\ \A t \in 1 .. Len(m_tiles) - 1 : Len(m_tiles[t]) = TileSize
  /\ m_size = IF m_tiles = <<>> THEN 0
              ELSE (Len(m_tiles) - 1) * TileSize + Len(LastTile)

Shape == TypeOK /\ TilesFull

-----------------------------------------------------------------------------
(* A function on 1 .. n is a vector of length n.                           *)
LEMMA FunctionIsVector ==
  ASSUME NEW S, NEW n \in Nat, NEW f \in [1 .. n -> S]
  PROVE  f \in Seq(S) /\ Len(f) = n
<1>1. f \in UNION {[1 .. k -> S] : k \in Nat}
  OBVIOUS
<1>2. f \in Seq(S)
  BY <1>1, SeqDef, Zenon
<1>3. 1 .. n = 1 .. Len(f) /\ Len(f) \in Nat
  BY <1>2, LenProperties
<1>q. QED  BY <1>2, <1>3

(* A nonempty set of naturals has a least member; what the proofs below    *)
(* use for induction.                                                      *)
LEMMA LeastNatural ==
  ASSUME NEW B, B \subseteq Nat, B # {}
  PROVE  \E m \in B : \A k \in B : m <= k
<1>1. IsWellFoundedOn(OpToRel(<, Nat), Nat)
  BY NatLessThanWellFounded
<1>2. PICK m \in B : \A k \in B : <<k, m>> \notin OpToRel(<, Nat)
  BY <1>1, WFMin
<1>3. ASSUME NEW k \in B
      PROVE  m <= k
  <2>1. m \in Nat /\ k \in Nat
    OBVIOUS
  <2>2. ~(k < m)
    BY <1>2, <2>1 DEF OpToRel
  <2>q. QED  BY <2>1, <2>2
<1>q. QED  BY <1>3

(* Arithmetic of n tiles.                                                  *)
LEMMA Tiles ==
  ASSUME NEW n \in Nat
  PROVE  /\ n * TileSize \in Nat
         /\ (n + 1) * TileSize = n * TileSize + TileSize
         /\ n <= n * TileSize
         /\ 0 * TileSize = 0
<1>1. TileSize \in Nat /\ TileSize >= 1
  BY TileSizeAssumption
<1> QED
  BY <1>1

(* The tiles, as vectors.                                                  *)
LEMMA TileIs ==
  ASSUME TypeOK
  PROVE  /\ Len(m_tiles) \in Nat /\ DOMAIN m_tiles = 1 .. Len(m_tiles)
         /\ m_tiles = <<>> <=> Len(m_tiles) = 0
         /\ \A t \in 1 .. Len(m_tiles) : /\ m_tiles[t] \in Seq(Values)
                                         /\ Len(m_tiles[t]) \in 0 .. TileSize
<1>1. m_tiles \in Seq(Seq(Values))
  BY DEF TypeOK
<1>2. /\ Len(m_tiles) \in Nat /\ DOMAIN m_tiles = 1 .. Len(m_tiles)
      /\ m_tiles = <<>> <=> Len(m_tiles) = 0
  BY <1>1, LenProperties, EmptySeq
<1>3. ASSUME NEW t \in 1 .. Len(m_tiles)
      PROVE  m_tiles[t] \in Seq(Values) /\ Len(m_tiles[t]) \in 0 .. TileSize
  <2>1. m_tiles[t] \in Seq(Values)
    BY <1>1, ElementOfSeq
  <2> QED
    BY <1>2, <2>1, LenProperties, TileSizeAssumption DEF TypeOK
<1> QED
  BY <1>2, <1>3

(* There are no more tiles than elements, plus an empty one.               *)
LEMMA TilesBounded ==
  ASSUME Shape
  PROVE  Len(m_tiles) <= MaxSize + 1
<1>1. CASE m_tiles = <<>>
  BY <1>1, TileIs, SizeAssumption DEF Shape
<1>2. CASE m_tiles # <<>>
  <2> DEFINE n == Len(m_tiles) - 1
             last == Len(LastTile)
  <2>1. n \in Nat /\ last \in Nat /\ m_size = n * TileSize + last /\ m_size \in 0 .. MaxSize
    <3>1. n \in Nat /\ Len(m_tiles) \in 1 .. Len(m_tiles)
      BY <1>2, TileIs DEF Shape
    <3>2. last \in Nat
      BY <3>1, TileIs DEF Shape, LastTile
    <3>3. m_size = n * TileSize + last
      BY <1>2 DEF Shape, TilesFull
    <3> QED
      BY <3>1, <3>2, <3>3 DEF Shape, TypeOK
  <2>2. n * TileSize \in Nat /\ n <= n * TileSize
    BY <2>1, Tiles
  <2>3. n <= MaxSize
    BY <2>1, <2>2, SizeAssumption
  <2> QED
    BY <2>3, TileIs, SizeAssumption DEF Shape
<1> QED
  BY <1>1, <1>2

(* What it takes for a vector of tiles to have the shape.                  *)
Shaped(tiles, size) ==
  /\ tiles \in Seq(Seq(Values)) /\ tiles # <<>>
  /\ \A t \in 1 .. Len(tiles) - 1 : Len(tiles[t]) = TileSize
  /\ Len(tiles[Len(tiles)]) <= TileSize
  /\ size \in 0 .. MaxSize
  /\ size = (Len(tiles) - 1) * TileSize + Len(tiles[Len(tiles)])

(* A column that has tiles is in shape if they are, and m_size with them.  *)
LEMMA ShapedIs ==
  ASSUME m_tiles # <<>>
  PROVE  Shape <=> Shaped(m_tiles, m_size)
<1>1. ASSUME Shape  PROVE Shaped(m_tiles, m_size)
  <2>1. Len(m_tiles) \in 1 .. Len(m_tiles)
    BY <1>1, TileIs DEF Shape
  <2> QED
    BY <1>1, <2>1, TileIs DEF Shape, TypeOK, TilesFull, Shaped, LastTile
<1>2. ASSUME Shaped(m_tiles, m_size)  PROVE Shape
  <2>1. DOMAIN m_tiles = 1 .. Len(m_tiles) /\ Len(m_tiles) \in Nat
    BY <1>2, LenProperties DEF Shaped
  <2>2. \A t \in DOMAIN m_tiles : t \in 1 .. Len(m_tiles) - 1 \/ t = Len(m_tiles)
    BY <2>1
  <2>3. \A t \in DOMAIN m_tiles : Len(m_tiles[t]) <= TileSize
    BY <1>2, <2>2, TileSizeAssumption DEF Shaped
  <2> QED
    BY <1>2, <2>3 DEF Shape, TypeOK, TilesFull, Shaped, LastTile
<1> QED
  BY <1>1, <1>2

(* The same after the step.                                                *)
LEMMA ShapedIsNext ==
  ASSUME m_tiles' # <<>>, Shaped(m_tiles', m_size')
  PROVE  Shape'
<1>1. DOMAIN m_tiles' = 1 .. Len(m_tiles') /\ Len(m_tiles') \in Nat
  BY LenProperties DEF Shaped
<1>2. \A t \in DOMAIN m_tiles' : t \in 1 .. Len(m_tiles') - 1 \/ t = Len(m_tiles')
  BY <1>1
<1>3. \A t \in DOMAIN m_tiles' : Len(m_tiles'[t]) <= TileSize
  BY <1>2, TileSizeAssumption DEF Shaped
<1> QED
  BY <1>3 DEF Shape, TypeOK, TilesFull, Shaped, LastTile

(* Appending an empty tile to full ones, or to none.                       *)
LEMMA GrownShaped ==
  ASSUME Shape
  PROVE  /\ Shaped(Grown, m_size)
         /\ Len(Grown[Len(Grown)]) < TileSize
<1>1. m_tiles \in Seq(Seq(Values)) /\ Len(m_tiles) \in Nat /\ m_size \in 0 .. MaxSize
  BY TileIs DEF Shape, TypeOK
<1>2. CASE m_tiles # <<>> /\ Len(LastTile) # TileSize
  <2>1. Grown = m_tiles
    BY <1>2 DEF Grown
  <2>2. Len(m_tiles) \in 1 .. Len(m_tiles)
    BY <1>2, TileIs DEF Shape
  <2>3. Len(m_tiles[Len(m_tiles)]) < TileSize
    BY <1>2, <2>2, TileIs, TileSizeAssumption DEF LastTile, Shape
  <2> QED
    BY <1>2, <2>1, <2>3, ShapedIs
<1>3. CASE m_tiles = <<>> \/ Len(LastTile) = TileSize
  <2>1. Grown = Append(m_tiles, <<>>)
    BY <1>3 DEF Grown
  <2>2. /\ Grown \in Seq(Seq(Values)) /\ Grown # <<>>
        /\ Len(Grown) = Len(m_tiles) + 1
        /\ \A t \in 1 .. Len(m_tiles) : Grown[t] = m_tiles[t]
        /\ Grown[Len(m_tiles) + 1] = <<>>
    BY <1>1, <2>1, AppendProperties, EmptySeq
  <2>3. \A t \in 1 .. Len(m_tiles) : Len(m_tiles[t]) = TileSize
    <3>1. CASE m_tiles = <<>>
      BY <3>1
    <3>2. CASE m_tiles # <<>>
      BY <1>1, <1>3, <3>2 DEF Shape, TilesFull, LastTile
    <3> QED
      BY <3>1, <3>2
  <2>4. m_size = Len(m_tiles) * TileSize
    <3>1. CASE m_tiles = <<>>
      BY <3>1, Tiles DEF Shape, TilesFull
    <3>2. CASE m_tiles # <<>>
      <4> DEFINE n == Len(m_tiles) - 1
      <4>1. n \in Nat /\ m_size = n * TileSize + TileSize /\ n + 1 = Len(m_tiles)
        BY <1>1, <1>3, <3>2, TileIs DEF Shape, TilesFull
      <4>2. (n + 1) * TileSize = n * TileSize + TileSize
        BY <4>1, Tiles
      <4> QED
        BY <4>1, <4>2
    <3> QED
      BY <3>1, <3>2
  <2>5. /\ Len(Grown) - 1 = Len(m_tiles)
        /\ Len(Grown[Len(Grown)]) = 0
    BY <1>1, <2>2, EmptySeq
  <2>6. \A t \in 1 .. Len(Grown) - 1 : Len(Grown[t]) = TileSize
    BY <2>2, <2>3, <2>5
  <2>7. Len(m_tiles) * TileSize \in Nat
    BY <1>1, Tiles
  <2> QED
    BY <1>1, <2>2, <2>4, <2>5, <2>6, <2>7, TileSizeAssumption DEF Shaped
<1> QED
  BY <1>2, <1>3

(* One element more in the last tile, or another element there.            *)
LEMMA LastReplaced ==
  ASSUME NEW tiles, NEW size, Shaped(tiles, size), NEW tile \in Seq(Values),
         Len(tile) <= TileSize,
         size + Len(tile) - Len(tiles[Len(tiles)]) \in 0 .. MaxSize
  PROVE  LET new == [tiles EXCEPT ![Len(tiles)] = tile]
         IN  /\ Shaped(new, size + Len(tile) - Len(tiles[Len(tiles)]))
             /\ Len(new) = Len(tiles)
             /\ \A t \in 1 .. Len(tiles) - 1 : new[t] = tiles[t]
             /\ new[Len(tiles)] = tile
<1> DEFINE n == Len(tiles)
           new == [tiles EXCEPT ![n] = tile]
<1>1. tiles \in Seq(Seq(Values)) /\ n \in Nat \ {0}
  BY EmptySeq DEF Shaped
<1>2. n \in 1 .. n /\ tiles[n] \in Seq(Values) /\ Len(tiles[n]) \in Nat
  <2>1. n \in 1 .. n
    BY <1>1
  <2> QED
    BY <1>1, <2>1, ElementOfSeq, LenProperties
<1>3. /\ new \in Seq(Seq(Values)) /\ Len(new) = n
      /\ \A t \in 1 .. n : new[t] = IF t = n THEN tile ELSE tiles[t]
  BY <1>1, <1>2, ExceptSeq
<1>4. new # <<>>
  BY <1>1, <1>3, EmptySeq
<1>5. /\ \A t \in 1 .. n - 1 : new[t] = tiles[t]
      /\ new[n] = tile
  BY <1>1, <1>2, <1>3
<1>6. Len(tile) \in Nat /\ size \in Nat
  BY LenProperties DEF Shaped
<1>7. n - 1 \in Nat /\ (n - 1) * TileSize \in Nat
  <2>1. n - 1 \in Nat
    BY <1>1
  <2> QED
    BY <2>1, Tiles
<1>8. size = (n - 1) * TileSize + Len(tiles[n])
  BY DEF Shaped
<1>9. size + Len(tile) - Len(tiles[n]) = (n - 1) * TileSize + Len(tile)
  <2> DEFINE m == (n - 1) * TileSize
             l == Len(tiles[n])
  <2>1. m \in Nat /\ l \in Nat /\ size = m + l /\ Len(tile) \in Nat
    BY <1>2, <1>6, <1>7, <1>8
  <2> HIDE DEF m, l
  <2>2. size + Len(tile) - l = m + Len(tile)
    BY <2>1
  <2> QED
    BY <2>2 DEF m, l
<1>10. \A t \in 1 .. n - 1 : Len(new[t]) = TileSize
  BY <1>5 DEF Shaped
<1>11. Shaped(new, size + Len(tile) - Len(tiles[n]))
  <2> HIDE DEF new
  <2> QED
    BY <1>3, <1>4, <1>5, <1>9, <1>10 DEF Shaped
<1> QED
  BY <1>3, <1>5, <1>11

-----------------------------------------------------------------------------
(* Each call keeps the shape.                                              *)
LEMMA EmplaceKeeps ==
  ASSUME Shape, NEW v \in Values, emplace_back(v)
  PROVE  Shape'
<1> DEFINE n == Len(Grown)
           last == Grown[n]
           tile == Append(last, v)
<1>1. Shaped(Grown, m_size) /\ Len(last) < TileSize
  BY GrownShaped
<1>2. Grown \in Seq(Seq(Values)) /\ n \in Nat \ {0}
  BY <1>1, EmptySeq DEF Shaped
<1>3. last \in Seq(Values)
  <2>1. n \in 1 .. n
    BY <1>2
  <2> QED
    BY <1>2, <2>1, ElementOfSeq
<1>4. tile \in Seq(Values) /\ Len(tile) = Len(last) + 1 /\ Len(last) \in Nat
  BY <1>3, AppendProperties, LenProperties
<1>5. m_size \in Nat /\ m_size < MaxSize
  BY DEF emplace_back, Shape, TypeOK
<1>6. Len(tile) <= TileSize /\ m_size + Len(tile) - Len(last) \in 0 .. MaxSize
      /\ m_size + Len(tile) - Len(last) = m_size + 1
  BY <1>1, <1>4, <1>5, TileSizeAssumption, SizeAssumption
<1>7. Shaped([Grown EXCEPT ![n] = tile], m_size + Len(tile) - Len(last))
  <2> HIDE DEF tile
  <2> QED
    BY <1>1, <1>4, <1>6, LastReplaced
<1>8. m_tiles' = [Grown EXCEPT ![n] = tile] /\ m_size' = m_size + 1
  BY DEF emplace_back
<1>9. Shaped(m_tiles', m_size')
  BY <1>6, <1>7, <1>8
<1> QED
  BY <1>9, ShapedIsNext DEF Shaped

(* An emplace_back that throws leaves the tiles or an empty one more.      *)
LEMMA ThrowKeeps ==
  ASSUME Shape, EmplaceThrows
  PROVE  Shape'
<1>1. CASE m_tiles' = m_tiles
  BY <1>1 DEF EmplaceThrows, Shape, TypeOK, TilesFull, LastTile
<1>2. CASE m_tiles' = Grown
  BY <1>2, GrownShaped, ShapedIsNext DEF EmplaceThrows, Shaped
<1> QED
  BY <1>1, <1>2 DEF EmplaceThrows

(* The vector without its last element, of whatever it is a vector.        *)
LEMMA FrontIs ==
  ASSUME NEW S, NEW s \in Seq(S), s # <<>>
  PROVE  /\ Front(s) \in Seq(S)
         /\ Len(Front(s)) = Len(s) - 1
         /\ \A i \in 1 .. Len(s) - 1 : Front(s)[i] = s[i]
<1> DEFINE n == Len(s) - 1
<1>1. n \in Nat
  BY EmptySeq
<1>2. \A i \in 1 .. n : s[i] \in S
  BY <1>1, ElementOfSeq
<1>3. /\ SubSeq(s, 1, n) \in Seq(S)
      /\ Len(SubSeq(s, 1, n)) = IF 1 <= n THEN n - 1 + 1 ELSE 0
      /\ \A i \in 1 .. n - 1 + 1 : SubSeq(s, 1, n)[i] = s[1 + i - 1]
  <2> HIDE DEF n
  <2> QED
    BY <1>1, <1>2, SubSeqProperties, n \in Int, 1 \in Int
<1>4. Len(SubSeq(s, 1, n)) = n
  <2> DEFINE l == Len(SubSeq(s, 1, n))
  <2>1. l = IF 1 <= n THEN n - 1 + 1 ELSE 0
    BY <1>3
  <2> HIDE DEF n, l
  <2> QED
    BY <1>1, <2>1
<1>5. \A i \in 1 .. n : SubSeq(s, 1, n)[i] = s[i]
  BY <1>1, <1>3
<1> QED
  BY <1>3, <1>4, <1>5 DEF Front

(* pop_back takes an element, and a tile that has become empty, away.      *)
LEMMA PopKeeps ==
  ASSUME Shape, pop_back
  PROVE  Shape'
<1> DEFINE n == Len(m_tiles)
           tile == Front(LastTile)
           popped == [m_tiles EXCEPT ![n] = tile]
<1>1. m_size > 0 /\ LastTile # <<>> /\ m_size' = m_size - 1
  BY DEF pop_back
<1>2. m_tiles # <<>>
  BY <1>1 DEF Shape, TilesFull
<1>3. Shaped(m_tiles, m_size) /\ n \in Nat \ {0} /\ m_tiles \in Seq(Seq(Values))
  BY <1>2, ShapedIs, TileIs DEF Shape, TypeOK
<1>4. LastTile \in Seq(Values) /\ Len(LastTile) \in 1 .. TileSize
  <2>1. n \in 1 .. n
    BY <1>3
  <2>2. LastTile \in Seq(Values) /\ Len(LastTile) \in 0 .. TileSize
    BY <2>1, TileIs DEF LastTile, Shape
  <2> QED
    BY <1>1, <2>2, EmptySeq
<1>5. Front(LastTile) \in Seq(Values) /\ Len(Front(LastTile)) = Len(LastTile) - 1
  BY <1>1, <1>4, FrontIs
<1>6. m_size \in 1 .. MaxSize
  BY <1>1 DEF Shape, TypeOK
<1>7. /\ Len(Front(LastTile)) <= TileSize
      /\ m_size + Len(Front(LastTile)) - Len(LastTile) = m_size - 1
      /\ m_size - 1 \in 0 .. MaxSize
  BY <1>4, <1>5, <1>6, TileSizeAssumption, SizeAssumption
<1>8. /\ Shaped(popped, m_size - 1)
      /\ Len(popped) = n
      /\ \A t \in 1 .. n - 1 : popped[t] = m_tiles[t]
      /\ popped[n] = tile
  <2>1. /\ tile \in Seq(Values) /\ Len(tile) <= TileSize
        /\ m_size + Len(tile) - Len(m_tiles[n]) = m_size - 1
        /\ m_size + Len(tile) - Len(m_tiles[n]) \in 0 .. MaxSize
    BY <1>5, <1>7 DEF LastTile
  <2> HIDE DEF tile
  <2>2. /\ Shaped(popped, m_size + Len(tile) - Len(m_tiles[n]))
        /\ Len(popped) = n
        /\ \A t \in 1 .. n - 1 : popped[t] = m_tiles[t]
        /\ popped[n] = tile
    BY <1>3, <2>1, LastReplaced
  <2> QED
    BY <2>1, <2>2
<1>9. m_tiles' = IF Last(popped) = <<>> THEN Front(popped) ELSE popped
  BY DEF pop_back, LastTile
<1>10. Last(popped) = Front(LastTile)
  BY <1>8 DEF Last
<1> HIDE DEF popped
<1>11. CASE Last(popped) # <<>>
  BY <1>1, <1>8, <1>9, <1>11, ShapedIsNext DEF Shaped
<1>12. CASE Last(popped) = <<>>
  <2>1. Len(LastTile) = 1
    BY <1>4, <1>5, <1>10, <1>12, EmptySeq
  <2>2. popped \in Seq(Seq(Values)) /\ popped # <<>>
    BY <1>8 DEF Shaped
  <2>3. /\ m_tiles' \in Seq(Seq(Values))
        /\ Len(m_tiles') = n - 1
        /\ \A t \in 1 .. n - 1 : m_tiles'[t] = m_tiles[t]
    BY <1>8, <1>9, <1>12, <2>2, FrontIs
  <2>4. \A t \in 1 .. n - 1 : Len(m_tiles'[t]) = TileSize
    BY <1>3, <2>3 DEF Shaped
  <2>5. m_size' = (n - 1) * TileSize
    <3> DEFINE m == (n - 1) * TileSize
    <3>1. n - 1 \in Nat
      BY <1>3
    <3>2. m \in Nat /\ m_size = m + 1
      BY <1>3, <2>1, <3>1, Tiles DEF Shaped, LastTile
    <3> HIDE DEF m
    <3>3. m_size' = m
      BY <1>1, <3>2
    <3> QED
      BY <3>3 DEF m
  <2>6. CASE n = 1
    <3>1. m_tiles' = <<>>
      BY <2>3, <2>6, EmptySeq
    <3>2. m_size' = 0
      BY <2>5, <2>6, Tiles
    <3> QED
      BY <3>1, <3>2, EmptySeq, SizeAssumption DEF Shape, TypeOK, TilesFull
  <2>7. CASE n # 1
    <3> DEFINE k == n - 1
    <3>1. k \in Nat /\ k >= 1 /\ k - 1 \in Nat /\ k - 1 + 1 = k /\ Len(m_tiles') = k
      BY <1>3, <2>3, <2>7
    <3>2. m_tiles' # <<>>
      BY <3>1, EmptySeq
    <3>3. Len(m_tiles'[k]) = TileSize
      <4>1. k \in 1 .. n - 1
        BY <3>1
      <4> QED
        BY <2>4, <4>1
    <3>4. (k - 1 + 1) * TileSize = (k - 1) * TileSize + TileSize
      BY <3>1, Tiles
    <3>5. m_size' = (k - 1) * TileSize + TileSize
      BY <2>5, <3>1, <3>4
    <3>6. \A t \in 1 .. k - 1 : Len(m_tiles'[t]) = TileSize
      BY <2>4, <3>1
    <3>7. m_size' \in 0 .. MaxSize
      BY <1>1, <1>7
    <3>8. Shaped(m_tiles', m_size')
      <4>1. Len(m_tiles') = k /\ m_tiles' \in Seq(Seq(Values))
        BY <2>3
      <4>2. m_size' = (Len(m_tiles') - 1) * TileSize + Len(m_tiles'[Len(m_tiles')])
        BY <3>3, <3>5, <4>1, Zenon
      <4>3. \A t \in 1 .. Len(m_tiles') - 1 : Len(m_tiles'[t]) = TileSize
        BY <3>6, <4>1, Zenon
      <4>4. Len(m_tiles'[Len(m_tiles')]) <= TileSize
        BY <3>3, <4>1, TileSizeAssumption
      <4> QED
        BY <3>2, <3>7, <4>1, <4>2, <4>3, <4>4, Zenon DEF Shaped
    <3> QED
      BY <3>2, <3>8, ShapedIsNext
  <2> QED
    BY <2>6, <2>7
<1> QED
  BY <1>11, <1>12

(* Tiles of the same lengths have the same shape.                          *)
LEMMA SameLengths ==
  ASSUME Shape, m_tiles' \in Seq(Seq(Values)), Len(m_tiles') = Len(m_tiles),
         \A t \in 1 .. Len(m_tiles) : Len(m_tiles'[t]) = Len(m_tiles[t]),
         m_size' = m_size
  PROVE  Shape'
<1>1. CASE m_tiles = <<>>
  BY <1>1, EmptySeq DEF Shape, TypeOK, TilesFull
<1>2. CASE m_tiles # <<>>
  <2>1. Len(m_tiles) \in Nat /\ Len(m_tiles) \in 1 .. Len(m_tiles) /\ m_tiles' # <<>>
    BY <1>2, TileIs, EmptySeq DEF Shape
  <2>2. Shaped(m_tiles, m_size)
    BY <1>2, ShapedIs
  <2> DEFINE n == Len(m_tiles)
  <2>3. Len(m_tiles'[n]) = Len(m_tiles[n]) /\ Len(m_tiles') = n
    BY <2>1
  <2>4. \A t \in 1 .. n - 1 : Len(m_tiles'[t]) = TileSize
    <3>1. \A t \in 1 .. n - 1 : Len(m_tiles[t]) = TileSize
      BY <2>2, Zenon DEF Shaped
    <3>2. \A t \in 1 .. n - 1 : t \in 1 .. n
      BY <2>1
    <3> HIDE DEF n
    <3>3. \A t \in 1 .. n - 1 : Len(m_tiles'[t]) = Len(m_tiles[t])
      BY <3>2 DEF n
    <3> QED
      BY <3>1, <3>3, Zenon
  <2>5. m_size' = (n - 1) * TileSize + Len(m_tiles'[n]) /\ Len(m_tiles'[n]) <= TileSize
    <3>1. m_size = (n - 1) * TileSize + Len(m_tiles[n]) /\ Len(m_tiles[n]) <= TileSize
      BY <2>2, Zenon DEF Shaped
    <3> QED
      BY <2>3, <3>1
  <2>6. Shaped(m_tiles', m_size')
    BY <2>1, <2>2, <2>3, <2>4, <2>5, Zenon DEF Shaped
  <2> QED
    BY <2>1, <2>6, ShapedIsNext
<1> QED
  BY <1>1, <1>2

(* Overwriting an element of a vector, or one that is not there.           *)
LEMMA ExceptAny ==
  ASSUME NEW S, NEW q \in Seq(S), NEW i, NEW e \in S
  PROVE  [q EXCEPT ![i] = e] \in Seq(S) /\ Len([q EXCEPT ![i] = e]) = Len(q)
<1>1. DOMAIN q = 1 .. Len(q)
  BY LenProperties
<1>2. CASE i \in 1 .. Len(q)
  BY <1>2, ExceptSeq
<1>3. CASE i \notin 1 .. Len(q)
  <2>1. [q EXCEPT ![i] = e] = q
    BY <1>1, <1>3
  <2> QED
    BY <2>1
<1> QED
  BY <1>2, <1>3

(* Writing through an index or a span: tiles keep their lengths.           *)
LEMMA Overwritten ==
  ASSUME TypeOK, NEW t, NEW s, NEW v \in Values,
         m_tiles' = [m_tiles EXCEPT ![t][s] = v]
  PROVE  /\ m_tiles' \in Seq(Seq(Values)) /\ Len(m_tiles') = Len(m_tiles)
         /\ \A u \in 1 .. Len(m_tiles) : Len(m_tiles'[u]) = Len(m_tiles[u])
<1> DEFINE tile == [m_tiles[t] EXCEPT ![s] = v]
<1>1. m_tiles \in Seq(Seq(Values)) /\ DOMAIN m_tiles = 1 .. Len(m_tiles)
  BY TileIs DEF TypeOK
<1>2. CASE t \in 1 .. Len(m_tiles)
  <2>1. m_tiles[t] \in Seq(Values) /\ DOMAIN m_tiles[t] = 1 .. Len(m_tiles[t])
    BY <1>2, TileIs, LenProperties
  <2>2. tile \in Seq(Values) /\ Len(tile) = Len(m_tiles[t])
    BY <2>1, ExceptAny
  <2> DEFINE new == [m_tiles EXCEPT ![t] = tile]
  <2>3. m_tiles' = new
    OBVIOUS
  <2> HIDE DEF tile
  <2>4. /\ new \in Seq(Seq(Values)) /\ Len(new) = Len(m_tiles)
        /\ \A u \in 1 .. Len(m_tiles) : new[u] = IF u = t THEN tile ELSE m_tiles[u]
    BY <1>1, <1>2, <2>2, ExceptSeq
  <2> HIDE DEF new
  <2> QED
    BY <2>2, <2>3, <2>4
<1>3. CASE t \notin 1 .. Len(m_tiles)
  <2>1. m_tiles' = m_tiles
    BY <1>1, <1>3
  <2> QED
    BY <1>1, <2>1
<1> QED
  BY <1>2, <1>3

(* Every step of the vector keeps its shape.                               *)
LEMMA ShapeKept == Shape /\ [Next]_vars => Shape'
<1> SUFFICES ASSUME Shape, [Next]_vars PROVE Shape'
  OBVIOUS
<1>1. ASSUME NEW v \in Values, emplace_back(v)  PROVE Shape'
  BY <1>1, EmplaceKeeps
<1>2. CASE EmplaceThrows
  BY <1>2, ThrowKeeps
<1>3. CASE pop_back
  BY <1>3, PopKeeps
<1>4. ASSUME NEW index \in 0 .. MaxSize - 1, NEW v \in Values, Write(index, v)
      PROVE  Shape'
  <2>1. /\ m_tiles' = [m_tiles EXCEPT ![TileOf(index)][SlotOf(index)] = v]
        /\ m_size' = m_size
    BY <1>4 DEF Write
  <2> QED
    BY <2>1, Overwritten, SameLengths DEF Shape
<1>5. CASE clear
  BY <1>5, EmptySeq, SizeAssumption DEF clear, Shape, TypeOK, TilesFull
<1>6. CASE UNCHANGED vars
  BY <1>6 DEF vars, Shape, TypeOK, TilesFull, LastTile
<1> QED
  BY <1>1, <1>2, <1>3, <1>4, <1>5, <1>6 DEF Next

(* A new column is in shape: it has no tile.                               *)
LEMMA ShapeAtFirst == Init => Shape
BY EmptySeq, SizeAssumption DEF Init, Shape, TypeOK, TilesFull

(* tiled_vector keeps its types and its shape, in every reachable state.   *)
THEOREM VectorShaped == Spec => [](TypeOK /\ TilesFull)
<1>1. Shape => TypeOK /\ TilesFull
  BY DEF Shape
<1> QED
  BY <1>1, ShapeAtFirst, ShapeKept, PTL DEF Spec

-----------------------------------------------------------------------------
(* Flat indices.                                                           *)

(* The place of a flat index, and the flat index of a place.               *)
LEMMA PlaceOf ==
  ASSUME NEW index \in Nat
  PROVE  /\ TileOf(index) \in Nat \ {0} /\ SlotOf(index) \in 1 .. TileSize
         /\ index = (TileOf(index) - 1) * TileSize + (SlotOf(index) - 1)
<1> DEFINE q == index \div TileSize
           r == index % TileSize
<1>1. index = TileSize * q + r /\ r \in 0 .. TileSize - 1 /\ q \in Nat /\ TileSize \in Nat
  BY TileSizeAssumption
<1>2. TileOf(index) = q + 1 /\ SlotOf(index) = r + 1
  BY DEF TileOf, SlotOf
<1> HIDE DEF q, r
<1>3. /\ (q + 1) - 1 = q /\ (r + 1) - 1 = r /\ TileSize * q = q * TileSize
      /\ q + 1 \in Nat \ {0} /\ r + 1 \in 1 .. TileSize
  BY <1>1
<1> QED
  BY <1>1, <1>2, <1>3

(* The place of the flat index that a tile and a slot make up.             *)
LEMMA IndexOf ==
  ASSUME NEW n \in Nat, NEW s \in 0 .. TileSize - 1
  PROVE  /\ n * TileSize + s \in Nat
         /\ TileOf(n * TileSize + s) = n + 1
         /\ SlotOf(n * TileSize + s) = s + 1
<1>1. TileSize \in Nat \ {0}
  BY TileSizeAssumption
<1>2. (n * TileSize + s) \div TileSize = n
  BY <1>1
<1>3. (n * TileSize + s) % TileSize = s
  BY <1>1
<1>4. n * TileSize \in Nat
  BY Tiles
<1>5. n * TileSize + s \in Nat
  BY <1>1, <1>4
<1> QED
  BY <1>2, <1>3, <1>5 DEF TileOf, SlotOf

(* Two places with one index are one place.                                *)
LEMMA PlacesDiffer ==
  ASSUME NEW i \in Nat, NEW j \in Nat,
         TileOf(i) = TileOf(j), SlotOf(i) = SlotOf(j)
  PROVE  i = j
BY PlaceOf

(* An index below size() names an element of some tile.                    *)
LEMMA PlaceInside ==
  ASSUME Shape, NEW index \in 0 .. m_size - 1
  PROVE  /\ index \in Nat /\ m_size \in Nat
         /\ TileOf(index) \in 1 .. Len(m_tiles)
         /\ SlotOf(index) \in 1 .. Len(m_tiles[TileOf(index)])
<1> DEFINE n == Len(m_tiles) - 1
           l == Len(LastTile)
           t == TileOf(index) - 1
           s == SlotOf(index) - 1
<1>1. m_size \in Nat /\ index \in Nat /\ m_size # 0
  BY SizeAssumption DEF Shape, TypeOK
<1>2. m_tiles # <<>>
  BY <1>1 DEF Shape, TilesFull
<1>3. n \in Nat /\ n + 1 = Len(m_tiles) /\ n + 1 \in 1 .. Len(m_tiles)
  BY <1>2, TileIs DEF Shape
<1>4. m_size = n * TileSize + l /\ l \in 0 .. TileSize
  <2>1. m_size = n * TileSize + l
    BY <1>2 DEF Shape, TilesFull
  <2>2. l \in 0 .. TileSize
    BY <1>3, TileIs DEF Shape, LastTile
  <2> QED
    BY <2>1, <2>2
<1>5. /\ TileOf(index) = t + 1 /\ SlotOf(index) = s + 1
      /\ t \in Nat /\ s \in 0 .. TileSize - 1 /\ index = t * TileSize + s
  <2> DEFINE a == TileOf(index)
             b == SlotOf(index)
  <2>1. /\ a \in Nat \ {0} /\ b \in 1 .. TileSize
        /\ index = (a - 1) * TileSize + (b - 1)
    BY <1>1, PlaceOf
  <2>2. t = a - 1 /\ s = b - 1
    OBVIOUS
  <2> HIDE DEF a, b, t, s
  <2>3. a = t + 1 /\ b = s + 1 /\ t \in Nat /\ s \in 0 .. TileSize - 1
    BY <2>1, <2>2, TileSizeAssumption
  <2> QED
    BY <2>1, <2>2, <2>3 DEF a, b
<1>6. TileSize \in Nat \ {0}
  BY TileSizeAssumption
<1>7. \A k \in 1 .. n : Len(m_tiles[k]) = TileSize
  BY DEF Shape, TilesFull
<1>8. Len(m_tiles[n + 1]) = l
  BY <1>3 DEF LastTile
<1> HIDE DEF n, l, t, s
<1>9. t <= n
  <2>1. ASSUME n + 1 <= t  PROVE FALSE
    <3> DEFINE d == t - (n + 1)
    <3>1. d \in Nat /\ t = (n + 1) + d
      BY <1>3, <1>5, <2>1
    <3> HIDE DEF d
    <3>2. t * TileSize = n * TileSize + TileSize + d * TileSize
      BY <1>3, <1>6, <3>1
    <3>3. d * TileSize \in Nat /\ n * TileSize \in Nat
      BY <1>3, <3>1, Tiles
    <3> DEFINE a == t * TileSize
               b == n * TileSize
               c == d * TileSize
    <3>4. a = b + TileSize + c /\ b \in Nat /\ c \in Nat /\ index = a + s /\ m_size = b + l
      BY <1>4, <1>5, <3>2, <3>3
    <3>5. index < m_size
      BY <1>1
    <3> HIDE DEF a, b, c
    <3> QED
      BY <1>4, <1>5, <1>6, <3>4, <3>5
  <2> QED
    BY <1>3, <1>5, <2>1
<1>10. CASE t < n
  <2>1. t + 1 \in 1 .. n
    BY <1>3, <1>5, <1>10
  <2> QED
    BY <1>1, <1>3, <1>5, <1>6, <1>7, <2>1
<1>11. CASE t = n
  <2> DEFINE b == n * TileSize
  <2>1. b \in Nat /\ index = b + s /\ m_size = b + l
    BY <1>3, <1>4, <1>5, <1>11, Tiles
  <2> HIDE DEF b
  <2>2. s < l
    BY <1>1, <1>4, <1>5, <2>1
  <2> QED
    BY <1>1, <1>3, <1>4, <1>5, <1>8, <1>11, <2>2
<1> QED
  BY <1>3, <1>5, <1>9, <1>10, <1>11

(* The elements, as a vector of size() values.                             *)
LEMMA ElementsAre ==
  ASSUME Shape
  PROVE  /\ m_size \in Nat
         /\ Elements \in Seq(Values) /\ Len(Elements) = m_size
         /\ \A i \in 1 .. m_size : Elements[i] = m_tiles[TileOf(i - 1)][SlotOf(i - 1)]
<1>1. m_size \in Nat
  BY SizeAssumption DEF Shape, TypeOK
<1>2. ASSUME NEW i \in 1 .. m_size
      PROVE  ElementAt(i - 1) \in Values
  <2> DEFINE t == TileOf(i - 1)
             s == SlotOf(i - 1)
  <2>1. i - 1 \in 0 .. m_size - 1
    BY <1>1
  <2>2. t \in 1 .. Len(m_tiles) /\ s \in 1 .. Len(m_tiles[t])
    BY <2>1, PlaceInside
  <2> HIDE DEF t, s
  <2>3. m_tiles[t] \in Seq(Values)
    BY <2>2, TileIs DEF Shape
  <2>4. m_tiles[t][s] \in Values
    BY <2>2, <2>3, ElementOfSeq
  <2> QED
    BY <2>4 DEF ElementAt, t, s
<1>3. Elements \in [1 .. m_size -> Values]
  BY <1>2 DEF Elements
<1>4. Elements \in Seq(Values) /\ Len(Elements) = m_size
  BY <1>1, <1>3, FunctionIsVector
<1> QED
  BY <1>1, <1>4 DEF Elements, ElementAt

(* The concatenation of the tiles, tile by tile.                           *)
LEMMA FlattenRecursion ==
  ASSUME NEW S, NEW tiles \in Seq(Seq(S)), Len(tiles) # 0
  PROVE  \E f : /\ f = [i \in 1 .. Len(tiles) |->
                          IF i = 1 THEN tiles[i] ELSE f[i - 1] \o tiles[i]]
                /\ FlattenSeq(tiles) = f[Len(tiles)]
<1> DEFINE Step(f, i) == IF i = 1 THEN tiles[i] ELSE f[i - 1] \o tiles[i]
           Rec(f, n) == f = [i \in 1 .. n |-> Step(f, i)]
           bad == {n \in Nat : ~\E f : Rec(f, n)}
<1>1. Len(tiles) \in Nat
  BY LenProperties
<1>2. bad = {}
  <2>1. SUFFICES ASSUME bad # {} PROVE FALSE
    OBVIOUS
  <2>2. PICK m \in bad : \A k \in bad : m <= k
    <3>1. bad \subseteq Nat
      OBVIOUS
    <3> HIDE DEF bad
    <3> QED
      BY <2>1, <3>1, LeastNatural
  <2>3. m \in Nat
    OBVIOUS
  <2>4. CASE m = 0
    <3> DEFINE f == [i \in 1 .. 0 |-> <<>>]
    <3>1. Rec(f, 0)
      <4>1. \A i \in 1 .. 0 : FALSE
        OBVIOUS
      <4> HIDE DEF Step
      <4> QED
        BY <4>1
    <3> QED
      BY <2>4, <3>1
  <2>5. CASE m # 0
    <3>1. m - 1 \in Nat /\ m - 1 \notin bad
      <4> HIDE DEF bad
      <4> QED
        BY <2>2, <2>3, <2>5
    <3>2. PICK f : Rec(f, m - 1)
      BY <3>1
    <3> DEFINE g == [i \in 1 .. m |-> Step(f, i)]
    <3>3. \A i \in 1 .. m - 1 : g[i] = f[i]
      <4> HIDE DEF Step
      <4>0. f = [i \in 1 .. m - 1 |-> Step(f, i)]
        BY <3>2
      <4>1. \A i \in 1 .. m - 1 : i \in 1 .. m
        BY <2>3
      <4>2. \A i \in 1 .. m - 1 : f[i] = Step(f, i)
        BY ONLY <4>0
      <4> QED
        BY <4>1, <4>2
    <3>4. \A i \in 1 .. m : Step(g, i) = Step(f, i)
      <4>1. \A i \in 1 .. m : i # 1 => i - 1 \in 1 .. m - 1
        BY <2>3
      <4> HIDE DEF g
      <4> QED
        BY <3>3, <4>1
    <3>5. Rec(g, m)
      <4> HIDE DEF Step
      <4> QED
        BY <3>4
    <3> QED
      BY <3>5
  <2> QED
    BY <2>4, <2>5
<1>3. \E f : Rec(f, Len(tiles))
  BY <1>1, <1>2
<1>4. Rec(CHOOSE f : Rec(f, Len(tiles)), Len(tiles))
  BY <1>3
<1>5. FlattenSeq(tiles) = (CHOOSE f : Rec(f, Len(tiles)))[Len(tiles)]
  BY DEF FlattenSeq
<1> QED
  BY <1>4, <1>5

(* The spans of the tiles, laid end to end, are the elements.              *)
LEMMA FlatIsElements ==
  ASSUME Shape
  PROVE  FlattenSeq(m_tiles) = Elements
<1>1. /\ m_size \in Nat /\ Elements \in Seq(Values) /\ Len(Elements) = m_size
      /\ \A i \in 1 .. m_size : Elements[i] = m_tiles[TileOf(i - 1)][SlotOf(i - 1)]
  BY ElementsAre
<1>2. /\ m_tiles \in Seq(Seq(Values)) /\ Len(m_tiles) \in Nat
      /\ m_tiles = <<>> <=> Len(m_tiles) = 0
      /\ \A t \in 1 .. Len(m_tiles) : /\ m_tiles[t] \in Seq(Values)
                                      /\ Len(m_tiles[t]) \in 0 .. TileSize
  BY TileIs DEF Shape, TypeOK
<1>3. CASE m_tiles = <<>>
  <2>1. m_size = 0 /\ Len(m_tiles) = 0
    BY <1>2, <1>3 DEF Shape, TilesFull
  <2>2. FlattenSeq(m_tiles) = <<>>
    BY <1>3, <2>1 DEF FlattenSeq
  <2> QED
    BY <1>1, <2>1, <2>2, EmptySeq
<1>4. CASE m_tiles # <<>>
  <2> DEFINE n == Len(m_tiles)
             Good(d, t) == /\ d \in Seq(Values)
                           /\ Len(d) = (t - 1) * TileSize + Len(m_tiles[t])
                           /\ \A i \in 1 .. Len(d) :
                                d[i] = m_tiles[TileOf(i - 1)][SlotOf(i - 1)]
  <2>1. n \in Nat \ {0} /\ n \in 1 .. n
    BY <1>2, <1>4
  <2>2. PICK f : /\ f = [t \in 1 .. n |->
                           IF t = 1 THEN m_tiles[t] ELSE f[t - 1] \o m_tiles[t]]
                 /\ FlattenSeq(m_tiles) = f[n]
    BY <1>2, <2>1, FlattenRecursion
  <2>3. /\ \A t \in 1 .. n - 1 : Len(m_tiles[t]) = TileSize
        /\ m_size = (n - 1) * TileSize + Len(m_tiles[n])
    BY <1>4 DEF Shape, TilesFull, LastTile
  <2>4. TileSize \in Nat \ {0}
    BY TileSizeAssumption
  \* the elements that one tile adds are where the flat index looks
  <2>5. ASSUME NEW t \in 1 .. n, NEW j \in 1 .. Len(m_tiles[t])
        PROVE  /\ (t - 1) * TileSize + j - 1 \in Nat
               /\ TileOf((t - 1) * TileSize + j - 1) = t
               /\ SlotOf((t - 1) * TileSize + j - 1) = j
    <3>1. t - 1 \in Nat /\ t - 1 + 1 = t
      BY <2>1
    <3>2. j - 1 \in 0 .. TileSize - 1 /\ j - 1 + 1 = j
      BY <1>2, <2>4
    <3>3. /\ (t - 1) * TileSize + (j - 1) \in Nat
          /\ TileOf((t - 1) * TileSize + (j - 1)) = t - 1 + 1
          /\ SlotOf((t - 1) * TileSize + (j - 1)) = j - 1 + 1
      BY <3>1, <3>2, IndexOf
    <3>4. (t - 1) * TileSize \in Nat
      BY <3>1, Tiles
    <3>5. (t - 1) * TileSize + j - 1 = (t - 1) * TileSize + (j - 1)
      BY <3>4, <3>2
    <3> QED
      BY <3>1, <3>2, <3>3, <3>5
  <2> HIDE DEF n
  <2>6. Good(f[1], 1)
    <3>1. 1 \in 1 .. n /\ f[1] = m_tiles[1]
      BY <2>1, <2>2
    <3>2. (1 - 1) * TileSize = 0
      BY Tiles
    <3>3. m_tiles[1] \in Seq(Values) /\ Len(m_tiles[1]) \in Nat
      BY <1>2, <3>1, <2>4 DEF n
    <3>4. ASSUME NEW i \in 1 .. Len(m_tiles[1])
          PROVE  m_tiles[1][i] = m_tiles[TileOf(i - 1)][SlotOf(i - 1)]
      <4>1. (1 - 1) * TileSize + i - 1 = i - 1
        BY <3>2, <3>3
      <4> QED
        BY <2>5, <3>1, <4>1
    <3> QED
      BY <3>1, <3>2, <3>3, <3>4
  <2>7. ASSUME NEW t \in 2 .. n, Good(f[t - 1], t - 1)
        PROVE  Good(f[t], t)
    <3> DEFINE d == f[t - 1]
               e == m_tiles[t]
               b == (t - 1) * TileSize
    <3>1. t \in 1 .. n /\ t - 1 \in 1 .. n - 1 /\ t - 1 \in 1 .. n /\ t # 1
      BY <2>1
    <3>2. f[t] = d \o e
      BY <2>2, <3>1
    <3>3. e \in Seq(Values) /\ Len(e) \in Nat
      BY <1>2, <2>4, <3>1 DEF n
    <3>4. b \in Nat /\ Len(d) = b
      <4>1. t - 1 \in Nat /\ t - 1 - 1 \in Nat /\ t - 1 - 1 + 1 = t - 1
        BY <3>1, <2>1
      <4>2. (t - 1 - 1 + 1) * TileSize = (t - 1 - 1) * TileSize + TileSize
        BY <4>1, Tiles
      <4>3. Len(d) = (t - 1 - 1) * TileSize + TileSize
        BY <2>3, <2>7, <3>1
      <4> QED
        BY <4>1, <4>2, <4>3, Tiles
    <3>5. d \in Seq(Values)
          /\ \A i \in 1 .. Len(d) : d[i] = m_tiles[TileOf(i - 1)][SlotOf(i - 1)]
      BY <2>7
    <3>6. \A j \in 1 .. Len(e) : TileOf(b + j - 1) = t /\ SlotOf(b + j - 1) = j
      BY <2>5, <3>1
    <3> HIDE DEF d, b
    <3>7. /\ d \o e \in Seq(Values) /\ Len(d \o e) = Len(d) + Len(e)
          /\ \A i \in 1 .. Len(d) + Len(e) :
               (d \o e)[i] = IF i <= Len(d) THEN d[i] ELSE e[i - Len(d)]
      BY <3>3, <3>5, ConcatProperties
    <3>8. ASSUME NEW i \in 1 .. b + Len(e)
          PROVE  (d \o e)[i] = m_tiles[TileOf(i - 1)][SlotOf(i - 1)]
      <4>1. CASE i <= b
        <5>1. i \in 1 .. Len(d)
          BY <3>4, <4>1
        <5> QED
          BY <3>4, <3>5, <3>7, <4>1, <5>1
      <4>2. CASE ~(i <= b)
        <5>1. i - b \in 1 .. Len(e) /\ b + (i - b) - 1 = i - 1
          BY <3>3, <3>4, <4>2
        <5>2. TileOf(i - 1) = t /\ SlotOf(i - 1) = i - b
          BY <3>6, <5>1
        <5> QED
          BY <3>4, <3>7, <4>2, <5>2
      <4> QED
        BY <4>1, <4>2
    <3>9. Len(d \o e) = b + Len(e)
      BY <3>4, <3>7
    <3> QED
      BY <3>2, <3>7, <3>8, <3>9 DEF b
  <2> HIDE DEF Good
  <2>8. Good(f[n], n)
    <3> DEFINE bad == {t \in 1 .. n : ~Good(f[t], t)}
    <3>1. SUFFICES ASSUME bad # {} PROVE FALSE
      BY <2>1
    <3>2. bad \subseteq Nat
      BY <2>1
    <3>3. PICK m \in bad : \A k \in bad : m <= k
      <4> HIDE DEF bad
      <4> QED
        BY <3>1, <3>2, LeastNatural
    <3>4. m # 1
      BY <2>6, <3>3
    <3>5. m \in 2 .. n /\ m - 1 \in 1 .. n /\ ~(m <= m - 1)
      BY <2>1, <3>3, <3>4
    <3>6. Good(f[m - 1], m - 1)
      BY <3>3, <3>5
    <3> QED
      BY <2>7, <3>3, <3>5, <3>6
  <2>9. /\ f[n] \in Seq(Values) /\ Len(f[n]) = m_size
        /\ \A i \in 1 .. m_size : f[n][i] = m_tiles[TileOf(i - 1)][SlotOf(i - 1)]
    BY <2>3, <2>8 DEF Good
  <2>10. \A i \in 1 .. m_size : f[n][i] = Elements[i]
    BY <1>1, <2>9
  <2>11. f[n] = Elements
    BY <1>1, <2>9, <2>10, SeqEqual
  <2> QED
    BY <2>2, <2>11
<1> QED
  BY <1>3, <1>4

(* The spans of column_tiles are the elements, in order and each once.     *)
THEOREM SpansAlwaysCover == Spec => []SpansCoverElements
<1>1. Shape => SpansCoverElements
  BY FlatIsElements DEF SpansCoverElements, Shape, TilesFull
<1> QED
  BY <1>1, ShapeAtFirst, ShapeKept, PTL DEF Spec

-----------------------------------------------------------------------------
(* Each call, by the elements.                                             *)

(* What the flat indices find after a step are the elements.               *)
LEMMA ElementsNext ==
  ASSUME m_size' \in Nat,
         NEW e \in Seq(Values), Len(e) = m_size',
         \A i \in 1 .. m_size' : m_tiles'[TileOf(i - 1)][SlotOf(i - 1)] = e[i]
  PROVE  Elements' = e
<1>1. Elements' = [i \in 1 .. m_size' |-> e[i]]
  BY DEF Elements, ElementAt
<1>2. e = [i \in 1 .. m_size' |-> e[i]]
  BY LenProperties
<1> QED
  BY <1>1, <1>2

(* A tile that Grown appends is behind every element.                      *)
LEMMA GrownKeeps ==
  ASSUME Shape, NEW index \in 0 .. m_size - 1
  PROVE  Grown[TileOf(index)] = m_tiles[TileOf(index)]
<1>1. m_tiles \in Seq(Seq(Values)) /\ TileOf(index) \in 1 .. Len(m_tiles)
  BY PlaceInside DEF Shape, TypeOK
<1> DEFINE t == TileOf(index)
           g == Append(m_tiles, <<>>)
<1> HIDE DEF t
<1>2. <<>> \in Seq(Values)
  BY EmptySeq
<1>3. g[t] = m_tiles[t]
  BY <1>1, <1>2, AppendProperties DEF t
<1> QED
  BY <1>3 DEF Grown, t

(* emplace_back appends, to the last tile or to a new one.                 *)
LEMMA EmplacedIsAppended ==
  ASSUME Shape, NEW v \in Values, emplace_back(v)
  PROVE  Elements' = Append(Elements, v)
<1> DEFINE n    == Len(Grown)
           last == Grown[n]
           e    == Append(Elements, v)
<1>1. /\ m_size \in Nat /\ Elements \in Seq(Values) /\ Len(Elements) = m_size
      /\ \A i \in 1 .. m_size : Elements[i] = m_tiles[TileOf(i - 1)][SlotOf(i - 1)]
  BY ElementsAre
<1>2. /\ e \in Seq(Values) /\ Len(e) = m_size + 1
      /\ \A i \in 1 .. m_size : e[i] = Elements[i]
      /\ e[m_size + 1] = v
  BY <1>1, AppendProperties
<1>3. /\ Grown \in Seq(Seq(Values)) /\ n \in Nat \ {0} /\ n \in 1 .. n
      /\ m_size = (n - 1) * TileSize + Len(last) /\ Len(last) < TileSize
  <2>1. Shaped(Grown, m_size) /\ Len(last) < TileSize
    BY GrownShaped
  <2>2. Grown \in Seq(Seq(Values)) /\ n \in Nat \ {0}
    BY <2>1, EmptySeq DEF Shaped
  <2> QED
    BY <2>1, <2>2 DEF Shaped
<1>4. last \in Seq(Values) /\ Len(last) \in Nat
  BY <1>3, ElementOfSeq, LenProperties
<1>5. m_tiles' = [Grown EXCEPT ![n] = Append(last, v)] /\ m_size' = m_size + 1
  BY DEF emplace_back
<1>6. /\ Append(last, v) \in Seq(Values)
      /\ \A s \in 1 .. Len(last) : Append(last, v)[s] = last[s]
      /\ Append(last, v)[Len(last) + 1] = v
  BY <1>4, AppendProperties
<1>7. \A t \in 1 .. n : m_tiles'[t] = IF t = n THEN Append(last, v) ELSE Grown[t]
  <2> DEFINE a == Append(last, v)
  <2> HIDE DEF a, n
  <2>1. m_tiles' = [Grown EXCEPT ![n] = a] /\ a \in Seq(Values)
    BY <1>5, <1>6 DEF a
  <2>2. \A t \in 1 .. Len(Grown) : m_tiles'[t] = IF t = n THEN a ELSE Grown[t]
    BY <1>3, <2>1, ExceptSeq DEF n
  <2> QED
    BY <2>2 DEF a, n
<1> HIDE DEF n, last, e
<1>8. ASSUME NEW i \in 1 .. m_size
      PROVE  m_tiles'[TileOf(i - 1)][SlotOf(i - 1)] = e[i]
  <2> DEFINE t == TileOf(i - 1)
             s == SlotOf(i - 1)
  <2>0. i - 1 \in 0 .. m_size - 1
    BY <1>1
  <2>1. t \in 1 .. Len(m_tiles) /\ s \in 1 .. Len(m_tiles[t]) /\ Grown[t] = m_tiles[t]
    BY <2>0, PlaceInside, GrownKeeps
  <2>2. t \in 1 .. n
    <3>1. n >= Len(m_tiles) /\ Len(m_tiles) \in Nat
      <4>1. m_tiles \in Seq(Seq(Values)) /\ Len(m_tiles) \in Nat /\ <<>> \in Seq(Values)
        BY TileIs, EmptySeq DEF Shape, TypeOK
      <4>2. Len(Append(m_tiles, <<>>)) = Len(m_tiles) + 1
        BY <4>1, AppendProperties
      <4> QED
        BY <4>1, <4>2 DEF Grown, n
    <3> HIDE DEF t
    <3> QED
      BY <1>3, <2>1, <3>1
  <2>3. e[i] = m_tiles[t][s]
    BY <1>1, <1>2
  <2> HIDE DEF t, s
  <2>4. m_tiles'[t][s] = m_tiles[t][s]
    <3>1. CASE t = n
      BY <1>6, <1>7, <2>1, <2>2, <3>1 DEF last
    <3>2. CASE t # n
      BY <1>7, <2>1, <2>2, <3>2
    <3> QED
      BY <3>1, <3>2
  <2> QED
    BY <2>3, <2>4 DEF t, s
<1>9. m_tiles'[TileOf(m_size)][SlotOf(m_size)] = v
  <2>1. n - 1 \in Nat /\ Len(last) \in 0 .. TileSize - 1 /\ (n - 1) + 1 = n
    BY <1>3, <1>4, TileSizeAssumption
  <2>2. TileOf(m_size) = n /\ SlotOf(m_size) = Len(last) + 1
    BY <1>3, <2>1, IndexOf
  <2> QED
    BY <1>3, <1>6, <1>7, <2>2
<1>10. \A i \in 1 .. m_size' : m_tiles'[TileOf(i - 1)][SlotOf(i - 1)] = e[i]
  <2>1. ASSUME NEW i \in 1 .. m_size + 1
        PROVE  m_tiles'[TileOf(i - 1)][SlotOf(i - 1)] = e[i]
    <3>1. i \in 1 .. m_size \/ (i = m_size + 1 /\ i - 1 = m_size)
      BY <1>1
    <3> QED
      BY <1>2, <1>8, <1>9, <3>1
  <2> QED
    BY <1>5, <2>1
<1>11. m_size' \in Nat /\ Len(e) = m_size'
  BY <1>1, <1>2, <1>5
<1>12. Elements' = e
  BY <1>2, <1>10, <1>11, ElementsNext
<1> QED
  BY <1>12 DEF e

(* An emplace_back that throws does nothing to the elements, whether or    *)
(* not the tile it has appended stays.                                     *)
LEMMA ThrowingIsNothing ==
  ASSUME Shape, EmplaceThrows
  PROVE  Elements' = Elements
<1>1. m_size' = m_size /\ (m_tiles' = m_tiles \/ m_tiles' = Grown)
  BY DEF EmplaceThrows
<1>2. /\ m_size \in Nat /\ Elements \in Seq(Values) /\ Len(Elements) = m_size
      /\ \A i \in 1 .. m_size : Elements[i] = m_tiles[TileOf(i - 1)][SlotOf(i - 1)]
  BY ElementsAre
<1>3. ASSUME NEW i \in 1 .. m_size
      PROVE  m_tiles'[TileOf(i - 1)][SlotOf(i - 1)] = Elements[i]
  <2>1. i - 1 \in 0 .. m_size - 1
    BY <1>2
  <2>2. Grown[TileOf(i - 1)] = m_tiles[TileOf(i - 1)]
    BY <2>1, GrownKeeps
  <2> QED
    BY <1>1, <1>2, <2>2
<1>4. PICK e : e = Elements
  OBVIOUS
<1> QED
  BY <1>1, <1>2, <1>3, <1>4, ElementsNext

(* pop_back takes the last element, and a tile that has become empty with  *)
(* it.                                                                     *)
LEMMA PoppedIsFront ==
  ASSUME Shape, pop_back
  PROVE  Elements' = Front(Elements)
<1> DEFINE n      == Len(m_tiles)
           tile   == Front(LastTile)
           popped == [m_tiles EXCEPT ![n] = tile]
           e      == Front(Elements)
<1>1. /\ m_size \in Nat /\ Elements \in Seq(Values) /\ Len(Elements) = m_size
      /\ \A i \in 1 .. m_size : Elements[i] = m_tiles[TileOf(i - 1)][SlotOf(i - 1)]
  BY ElementsAre
<1>2. m_size > 0 /\ LastTile # <<>> /\ m_size' = m_size - 1
  BY DEF pop_back
<1>3. /\ e \in Seq(Values) /\ Len(e) = m_size - 1
      /\ \A i \in 1 .. m_size - 1 : e[i] = Elements[i]
  <2>1. Elements # <<>>
    BY <1>1, <1>2, EmptySeq
  <2> QED
    BY <1>1, <2>1, FrontIs
<1>4. /\ m_tiles \in Seq(Seq(Values)) /\ n \in Nat \ {0} /\ n \in 1 .. n
      /\ m_size = (n - 1) * TileSize + Len(LastTile)
  <2>1. m_tiles # <<>>
    BY <1>2 DEF Shape, TilesFull
  <2>2. n \in Nat \ {0} /\ m_tiles \in Seq(Seq(Values))
    BY <2>1, TileIs DEF Shape, TypeOK
  <2> QED
    BY <2>1, <2>2 DEF Shape, TilesFull
<1>5. LastTile \in Seq(Values) /\ Len(LastTile) \in 1 .. TileSize
  <2>1. LastTile \in Seq(Values) /\ Len(LastTile) \in 0 .. TileSize
    BY <1>4, TileIs DEF LastTile, Shape
  <2> QED
    BY <1>2, <2>1, EmptySeq
<1>6. /\ tile \in Seq(Values) /\ Len(tile) = Len(LastTile) - 1
      /\ \A s \in 1 .. Len(LastTile) - 1 : tile[s] = LastTile[s]
  BY <1>2, <1>5, FrontIs
<1>7. /\ popped \in Seq(Seq(Values)) /\ Len(popped) = n
      /\ \A t \in 1 .. n : popped[t] = IF t = n THEN tile ELSE m_tiles[t]
  <2> HIDE DEF tile
  <2> QED
    BY <1>4, <1>6, ExceptSeq
<1>8. /\ popped # <<>> /\ Last(popped) = tile
      /\ m_tiles' = IF Last(popped) = <<>> THEN Front(popped) ELSE popped
  <2>1. popped # <<>>
    BY <1>4, <1>7, EmptySeq
  <2>2. m_tiles' = IF Last(popped) = <<>> THEN Front(popped) ELSE popped
    BY DEF pop_back, LastTile
  <2>3. Last(popped) = tile
    <3> HIDE DEF tile, popped
    <3> QED
      BY <1>4, <1>7 DEF Last
  <2> QED
    BY <2>1, <2>2, <2>3
<1> HIDE DEF popped, tile, e, n
\* the elements before the last are in full tiles, or before it in its tile
<1>9. ASSUME NEW i \in 1 .. m_size - 1
      PROVE  m_tiles'[TileOf(i - 1)][SlotOf(i - 1)] = e[i]
  <2> DEFINE t == TileOf(i - 1)
             s == SlotOf(i - 1)
  <2>0. i - 1 \in 0 .. m_size - 1 /\ i \in 1 .. m_size /\ i - 1 \in Nat
    BY <1>1
  <2>1. /\ t \in 1 .. n /\ s \in 1 .. Len(m_tiles[t])
        /\ i - 1 = (t - 1) * TileSize + (s - 1)
    BY <2>0, PlaceInside, PlaceOf DEF n
  <2>2. e[i] = m_tiles[t][s]
    BY <1>1, <1>3, <2>0
  <2> HIDE DEF t, s
  <2>3. CASE t = n
    <3> DEFINE b == (n - 1) * TileSize
    <3>1. b \in Nat
      <4>1. n - 1 \in Nat
        BY <1>4
      <4> QED
        BY <4>1, Tiles
    <3>2. m_size = b + Len(LastTile) /\ i - 1 = b + (s - 1)
      BY <1>4, <2>1, <2>3
    <3> HIDE DEF b
    <3>3. s \in Nat /\ Len(LastTile) \in Nat /\ s >= 1
      <4>1. Len(m_tiles[n]) \in Nat
        BY <1>4, TileIs DEF n, Shape
      <4> QED
        BY <1>5, <2>1, <2>3, <4>1
    <3>4. s \in 1 .. Len(LastTile) - 1
      BY <1>1, <2>0, <3>1, <3>2, <3>3
    <3>5. tile[s] = m_tiles[t][s]
      BY <1>6, <2>3, <3>4 DEF LastTile, n
    <3>6. tile # <<>>
      BY <1>6, <3>3, <3>4, EmptySeq
    <3>7. m_tiles' = popped
      BY <1>8, <3>6
    <3> QED
      BY <1>4, <1>7, <2>2, <2>3, <3>5, <3>7 DEF t, s
  <2>4. CASE t # n
    <3>1. t \in 1 .. n - 1
      BY <1>4, <2>1, <2>4
    <3>2. popped[t] = m_tiles[t]
      BY <1>7, <2>1, <2>4
    <3>3. Front(popped)[t] = popped[t]
      BY <1>7, <1>8, <3>1, FrontIs
    <3> QED
      BY <1>8, <2>2, <3>2, <3>3 DEF t, s
  <2> QED
    BY <2>3, <2>4
<1>10. m_size' \in Nat /\ Len(e) = m_size'
  BY <1>1, <1>2, <1>3
<1>11. Elements' = e
  BY <1>2, <1>3, <1>9, <1>10, ElementsNext
<1> QED
  BY <1>11 DEF e

(* A write goes to one element: no two flat indices share a place.         *)
LEMMA WrittenIsExcept ==
  ASSUME Shape, NEW index \in Nat, NEW v \in Values, Write(index, v)
  PROVE  Elements' = [Elements EXCEPT ![index + 1] = v]
<1> DEFINE t == TileOf(index)
           s == SlotOf(index)
           e == [Elements EXCEPT ![index + 1] = v]
<1>1. /\ m_size \in Nat /\ Elements \in Seq(Values) /\ Len(Elements) = m_size
      /\ \A i \in 1 .. m_size : Elements[i] = m_tiles[TileOf(i - 1)][SlotOf(i - 1)]
  BY ElementsAre
<1>2. /\ index \in 0 .. m_size - 1 /\ m_size' = m_size
      /\ m_tiles' = [m_tiles EXCEPT ![t] = [m_tiles[t] EXCEPT ![s] = v]]
  BY <1>1 DEF Write
<1>3. t \in 1 .. Len(m_tiles) /\ s \in 1 .. Len(m_tiles[t])
  BY <1>2, PlaceInside
<1>4. /\ m_tiles \in Seq(Seq(Values)) /\ m_tiles[t] \in Seq(Values)
      /\ DOMAIN m_tiles = 1 .. Len(m_tiles) /\ DOMAIN m_tiles[t] = 1 .. Len(m_tiles[t])
  BY <1>3, TileIs, LenProperties DEF Shape, TypeOK
<1>5. /\ e \in Seq(Values) /\ Len(e) = m_size
      /\ \A i \in 1 .. m_size : e[i] = IF i = index + 1 THEN v ELSE Elements[i]
  <2>1. index + 1 \in 1 .. Len(Elements)
    BY <1>1, <1>2
  <2> QED
    BY <1>1, <2>1, ExceptSeq
<1> HIDE DEF e
<1>6. ASSUME NEW i \in 1 .. m_size
      PROVE  m_tiles'[TileOf(i - 1)][SlotOf(i - 1)] = e[i]
  <2> DEFINE u == TileOf(i - 1)
             r == SlotOf(i - 1)
  <2>0. i - 1 \in 0 .. m_size - 1 /\ i - 1 \in Nat
    BY <1>1
  <2>1. u \in 1 .. Len(m_tiles) /\ r \in 1 .. Len(m_tiles[u])
    BY <2>0, PlaceInside
  <2>2. u = t /\ r = s <=> i = index + 1
    <3>1. ASSUME u = t, r = s  PROVE i = index + 1
      <4>1. i - 1 = index
        BY <2>0, <3>1, PlacesDiffer
      <4> QED
        BY <4>1
    <3>2. ASSUME i = index + 1  PROVE u = t /\ r = s
      <4>1. i - 1 = index
        BY <3>2
      <4> QED
        BY <4>1
    <3> QED
      BY <3>1, <3>2
  <2> HIDE DEF u, r, t, s
  <2>3. m_tiles'[u][r] = IF u = t /\ r = s THEN v ELSE m_tiles[u][r]
    <3>1. CASE u = t
      BY <1>2, <1>3, <1>4, <2>1, <3>1
    <3>2. CASE u # t
      BY <1>2, <1>3, <1>4, <2>1, <3>2
    <3> QED
      BY <3>1, <3>2
  <2> QED
    BY <1>1, <1>5, <2>2, <2>3 DEF u, r
<1>7. Elements' = e
  BY <1>1, <1>2, <1>5, <1>6, ElementsNext
<1> QED
  BY <1>7 DEF e

(* One call of any kind does to the elements what std::vector's does.      *)
VectorStep ==
  /\ \A v \in Values : emplace_back(v) => Elements' = Append(Elements, v)
  /\ EmplaceThrows => Elements' = Elements
  /\ pop_back => Elements' = Front(Elements)
  /\ clear => Elements' = <<>>
  /\ \A index \in 0 .. MaxSize - 1, v \in Values :
       Write(index, v) => Elements' = [Elements EXCEPT ![index + 1] = v]

(* Any call, from tiles in shape.                                          *)
LEMMA StepsAreVectors ==
  ASSUME Shape
  PROVE  VectorStep
<1>1. ASSUME clear  PROVE Elements' = <<>>
  <2>1. m_size' = 0 /\ \A i \in 1 .. 0 : FALSE
    BY <1>1 DEF clear
  <2>2. <<>> \in Seq(Values) /\ Len(<<>>) = 0
    BY EmptySeq
  <2> QED
    BY <2>1, <2>2, ElementsNext
<1>2. \A index \in 0 .. MaxSize - 1 : index \in Nat
  BY SizeAssumption
<1> QED
  BY <1>1, <1>2, EmplacedIsAppended, ThrowingIsNothing, PoppedIsFront, WrittenIsExcept
     DEF VectorStep

(* For any tile size, the tiles are seen as one plain vector: every call   *)
(* does to the elements what std::vector's does.                           *)
THEOREM AlwaysActsAsVector == Spec => ActsAsVector
<1>1. Shape /\ [Next]_vars => VectorStep
  BY StepsAreVectors
<1>2. [][VectorStep]_vars <=> ActsAsVector
  BY DEF ActsAsVector, VectorStep
<1> HIDE DEF VectorStep
<1> QED
  BY <1>1, <1>2, ShapeAtFirst, ShapeKept, PTL DEF Spec

-----------------------------------------------------------------------------
Pcs == {"free", "launch", "own", "join", "leave", "unwind", "returned", "threw"}

Work == [pc : {"idle", "running", "done", "failed"}, at : Nat, calls : Nat]

ComputeTypeOK ==
  /\ caller \in [pc : Pcs, at : Nat \ {0}]
  /\ worker \in [AllChunks -> Work]
  /\ serial \in BOOLEAN

(* Only chunks that there are have a task, and none has one between calls. *)
OnlyChunksWork ==
  \A k \in AllChunks :
    worker[k].pc # "idle" => k \in Chunks /\ caller.pc # "free"

(* While a call is under way its chunks are those it was made with.        *)
SameChunks ==
  caller.pc # "free" =>
    before \in Seq(Seq(Values)) /\ DOMAIN before = DOMAIN m_tiles

(* A chunk is what its loop has come to: up to where it is, with the       *)
(* copy of the operation having been called for each picked element.       *)
ChunkAsFar(k) ==
  /\ worker[k].at \in 0 .. Len(before[k])
  /\ m_tiles[k] = Mapped(before[k], worker[k].at)
  /\ worker[k].calls = Picks(before[k], worker[k].at + 1)
  /\ worker[k].pc = "idle" => worker[k].at = 0
  /\ worker[k].pc = "done" => worker[k].at = Len(before[k])

ChunksAsFar == caller.pc # "free" => \A k \in Chunks : ChunkAsFar(k)

(* Where the caller is, the chunks before it are done.                     *)
DoneBelow(n) == \A k \in Chunks : k < n => worker[k].pc = "done"

CallerWaits ==
  /\ caller.pc = "launch" /\ serial => DoneBelow(caller.at)
  /\ caller.pc \in {"own", "join"} => DoneBelow(caller.at)
  /\ caller.pc \in {"leave", "returned"} => \A k \in Chunks : worker[k].pc = "done"

IInv ==
  /\ Shape
  /\ ComputeTypeOK
  /\ OnlyChunksWork
  /\ SameChunks
  /\ ChunksAsFar
  /\ CallerWaits
  /\ TasksWithinCall

-----------------------------------------------------------------------------
(* Chunks have their place in worker.                                      *)
LEMMA ChunksAre ==
  ASSUME Shape
  PROVE  /\ Chunks = 1 .. Len(m_tiles) /\ Len(m_tiles) \in Nat
         /\ Chunks \subseteq AllChunks
BY TileIs, TilesBounded, SizeAssumption DEF Shape, Chunks, AllChunks

(* The operation stays within the values.                                  *)
LEMMA OpIs ==
  ASSUME NEW calls \in Nat, NEW v \in Values
  PROVE  Op(calls, v) \in Values
<1> DEFINE n == Cardinality(Values)
<1>1. n \in Nat /\ Values = 0 .. n - 1
  BY CountingAssumption, FS_CardinalityType
<1>2. n >= 1 /\ v \in Nat
  BY <1>1
<1> HIDE DEF n
<1>3. (v + calls + 1) % n \in 0 .. n - 1
  BY <1>1, <1>2
<1> QED
  BY <1>1, <1>3 DEF Op, n

(* Counting the picked elements, one at a time.                            *)
LEMMA PicksIs ==
  ASSUME NEW tile, NEW i \in Nat
  PROVE  /\ Picks(tile, 1) = 0
         /\ Picks(tile, i) \in Nat
         /\ i > 0 => Picks(tile, i + 1)
                       = IF tile[i] \in chosen THEN Picks(tile, i) + 1 ELSE Picks(tile, i)
<1> DEFINE P(n) == {j \in 1 .. n - 1 : tile[j] \in chosen}
<1>1. ASSUME NEW n \in Nat  PROVE IsFiniteSet(P(n)) /\ Cardinality(P(n)) \in Nat
  <2>1. IsFiniteSet(1 .. n - 1)
    BY FS_Interval, n - 1 \in Int, 1 \in Int
  <2>2. IsFiniteSet(P(n))
    BY <2>1, FS_Subset
  <2> QED
    BY <2>2, FS_CardinalityType
<1>2. P(1) = {}
  OBVIOUS
<1>3. CASE i > 0 /\ tile[i] \in chosen
  <2>1. P(i + 1) = P(i) \cup {i} /\ i \notin P(i)
    BY <1>3
  <2>2. Cardinality(P(i) \cup {i}) = Cardinality(P(i)) + 1
    BY <1>1, <2>1, FS_AddElement
  <2> QED
    BY <1>1, <1>2, <1>3, <2>1, <2>2, FS_EmptySet DEF Picks
<1>4. CASE i > 0 /\ tile[i] \notin chosen
  <2>1. P(i + 1) = P(i)
    BY <1>4
  <2> QED
    BY <1>1, <1>2, <1>4, <2>1, FS_EmptySet DEF Picks
<1>5. CASE ~(i > 0)
  BY <1>1, <1>2, <1>5, FS_EmptySet DEF Picks
<1> QED
  BY <1>3, <1>4, <1>5

(* What a turn of the loop does to a chunk, and how far it is then.        *)
LEMMA MappedIs ==
  ASSUME NEW tile \in Seq(Values), NEW n \in Nat, n < Len(tile)
  PROVE  /\ Mapped(tile, n)[n + 1] = tile[n + 1]
         /\ Mapped(tile, n + 1) =
              IF tile[n + 1] \in chosen
              THEN [Mapped(tile, n) EXCEPT ![n + 1] = Op(Picks(tile, n + 1), tile[n + 1])]
              ELSE Mapped(tile, n)
<1>1. DOMAIN tile = 1 .. Len(tile) /\ Len(tile) \in Nat /\ n + 1 \in DOMAIN tile
  BY LenProperties
<1>2. \A i \in DOMAIN tile : i <= n + 1 <=> i <= n \/ i = n + 1
  BY <1>1
<1>3. ~(n + 1 <= n)
  OBVIOUS
<1>4. Mapped(tile, n)[n + 1] = tile[n + 1]
  BY <1>1, <1>3 DEF Mapped
<1>5. CASE tile[n + 1] \in chosen
  <2> DEFINE new == [Mapped(tile, n) EXCEPT ![n + 1] = Op(Picks(tile, n + 1), tile[n + 1])]
  <2>1. DOMAIN new = DOMAIN tile /\ DOMAIN Mapped(tile, n + 1) = DOMAIN tile
    BY DEF Mapped
  <2>2. ASSUME NEW i \in DOMAIN tile  PROVE new[i] = Mapped(tile, n + 1)[i]
    <3>1. CASE i = n + 1
      BY <1>1, <1>2, <1>5, <3>1 DEF Mapped
    <3>2. CASE i # n + 1
      BY <1>1, <1>2, <3>2 DEF Mapped
    <3> QED
      BY <3>1, <3>2
  <2>3. new = Mapped(tile, n + 1)
    <3>1. /\ new = [i \in DOMAIN new |-> new[i]]
          /\ Mapped(tile, n + 1) =
               [i \in DOMAIN Mapped(tile, n + 1) |-> Mapped(tile, n + 1)[i]]
      BY DEF Mapped
    <3> HIDE DEF new
    <3> QED
      BY <2>1, <2>2, <3>1
  <2> QED
    BY <1>4, <1>5, <2>3
<1>6. CASE tile[n + 1] \notin chosen
  <2>1. \A i \in DOMAIN tile : (i <= n + 1 /\ tile[i] \in chosen) <=> (i <= n /\ tile[i] \in chosen)
    BY <1>2, <1>6
  <2>2. Mapped(tile, n + 1) = Mapped(tile, n)
    BY <2>1 DEF Mapped
  <2> QED
    BY <1>4, <1>6, <2>2
<1> QED
  BY <1>5, <1>6

(* A chunk has as many elements as it had.                                 *)
LEMMA ChunkLength ==
  ASSUME IInv, caller.pc # "free", NEW k \in Chunks
  PROVE  /\ before[k] \in Seq(Values) /\ m_tiles[k] \in Seq(Values)
         /\ Len(before[k]) \in Nat /\ Len(m_tiles[k]) = Len(before[k])
<1>1. before \in Seq(Seq(Values)) /\ k \in 1 .. Len(before)
  BY LenProperties DEF IInv, SameChunks, Chunks
<1>2. before[k] \in Seq(Values)
  BY <1>1, ElementOfSeq
<1>3. m_tiles[k] \in Seq(Values)
  BY ChunksAre, TileIs DEF IInv, Shape
<1>4. DOMAIN m_tiles[k] = DOMAIN before[k]
  BY DEF IInv, ChunksAsFar, ChunkAsFar, Mapped
<1>5. /\ 1 .. Len(m_tiles[k]) = 1 .. Len(before[k])
      /\ Len(m_tiles[k]) \in Nat /\ Len(before[k]) \in Nat
  BY <1>2, <1>3, <1>4, LenProperties
<1> QED
  BY <1>2, <1>3, <1>5

-----------------------------------------------------------------------------
(* Steps that leave the tiles alone keep what is said of them.             *)
LEMMA TilesStay ==
  ASSUME Shape, UNCHANGED vars
  PROVE  Shape'
BY ShapeKept

(* A call by the caller or a change between calls starts from nothing.     *)
LEMMA FillKeeps ==
  ASSUME IInv, Fill
  PROVE  IInv'
<1>1. Shape'
  BY ShapeKept DEF IInv, Fill
<1>2. /\ caller' = [pc |-> "free", at |-> 1] /\ worker' = NoWork /\ serial' = serial
      /\ \A k \in AllChunks : worker'[k] = [pc |-> "idle", at |-> 0, calls |-> 0]
  BY DEF Fill, NoWork
<1>3. ComputeTypeOK'
  <2>1. [pc |-> "free", at |-> 1] \in [pc : Pcs, at : Nat \ {0}]
    BY DEF Pcs
  <2>2. worker' \in [AllChunks -> Work]
    BY <1>2 DEF NoWork, Work
  <2> QED
    BY <1>2, <2>1, <2>2 DEF IInv, ComputeTypeOK
<1>4. OnlyChunksWork' /\ TasksWithinCall'
  BY <1>2 DEF OnlyChunksWork, TasksWithinCall, Running
<1>5. SameChunks' /\ ChunksAsFar' /\ CallerWaits'
  BY <1>2 DEF SameChunks, ChunksAsFar, CallerWaits
<1> QED
  BY <1>1, <1>3, <1>4, <1>5 DEF IInv

(* A call starts with no chunk begun, and none with a task.                *)
LEMMA CalledKeeps ==
  ASSUME IInv, NEW isSerial \in BOOLEAN, NEW picks, Called(isSerial, picks)
  PROVE  IInv'
<1>1. /\ caller' = [pc |-> "launch", at |-> IF isSerial THEN 1 ELSE 2]
      /\ worker' = NoWork /\ serial' = isSerial /\ before' = m_tiles
      /\ UNCHANGED vars
      /\ \A k \in AllChunks : worker'[k] = [pc |-> "idle", at |-> 0, calls |-> 0]
  BY DEF Called, Caller, NoWork
<1>2. Shape' /\ m_tiles' = m_tiles
  BY <1>1, TilesStay DEF IInv, vars
<1>3. ComputeTypeOK'
  <2>1. caller' \in [pc : Pcs, at : Nat \ {0}]
    BY <1>1 DEF Pcs
  <2>2. worker' \in [AllChunks -> Work]
    BY <1>1 DEF NoWork, Work
  <2> QED
    BY <1>1, <2>1, <2>2 DEF ComputeTypeOK
<1>4. OnlyChunksWork' /\ TasksWithinCall'
  BY <1>1 DEF OnlyChunksWork, TasksWithinCall, Running
<1>5. SameChunks'
  BY <1>1, <1>2 DEF SameChunks, IInv, Shape, TypeOK
<1>6. ChunksAsFar'
  <2> SUFFICES ASSUME NEW k \in Chunks  PROVE ChunkAsFar(k)'
    BY <1>2 DEF ChunksAsFar, Chunks
  <2>1. k \in AllChunks /\ m_tiles[k] \in Seq(Values)
    BY ChunksAre, TileIs DEF IInv, Shape
  <2>2. /\ worker'[k].pc = "idle" /\ worker'[k].at = 0 /\ worker'[k].calls = 0
        /\ before'[k] = m_tiles[k] /\ m_tiles'[k] = m_tiles[k]
    BY <1>1, <1>2, <2>1
  <2>3. DOMAIN m_tiles[k] = 1 .. Len(m_tiles[k]) /\ Len(m_tiles[k]) \in Nat
        /\ m_tiles[k] = [i \in DOMAIN m_tiles[k] |-> m_tiles[k][i]]
    BY <2>1, LenProperties
  <2>4. Mapped(m_tiles[k], 0)' = m_tiles'[k]
    BY <1>2, <2>3 DEF Mapped
  <2>5. Picks(m_tiles[k], 1)' = 0
    BY FS_EmptySet DEF Picks
  <2> QED
    BY <1>2, <2>2, <2>3, <2>4, <2>5 DEF ChunkAsFar
<1>7. CallerWaits'
  <2>1. \A k \in Chunks' : ~(k < 1)
    BY <1>2, ChunksAre DEF IInv, Chunks
  <2> QED
    BY <1>1, <2>1 DEF CallerWaits, DoneBelow
<1> QED
  BY <1>2, <1>3, <1>4, <1>5, <1>6, <1>7 DEF IInv

-----------------------------------------------------------------------------
(* A chunk that is not worked on stays as far as it is.                    *)
LEMMA FarStays ==
  ASSUME NEW k, ChunkAsFar(k), UNCHANGED <<chosen, before>>, m_tiles'[k] = m_tiles[k],
         worker'[k].at = worker[k].at, worker'[k].calls = worker[k].calls,
         worker'[k].pc = "idle" => worker[k].at = 0,
         worker'[k].pc = "done" => worker[k].at = Len(before[k])
  PROVE  ChunkAsFar(k)'
BY DEF ChunkAsFar, Mapped, Picks, Op

(* A chunk that is as far as its worker says, after a step.                *)
LEMMA FarNext ==
  ASSUME NEW k, UNCHANGED <<chosen, before>>,
         worker'[k].at \in 0 .. Len(before[k]),
         m_tiles'[k] = Mapped(before[k], worker'[k].at),
         worker'[k].calls = Picks(before[k], worker'[k].at + 1),
         worker'[k].pc \notin {"idle", "done"}
  PROVE  ChunkAsFar(k)'
BY DEF ChunkAsFar, Mapped, Picks, Op

(* A step of the caller that starts nothing.                               *)
LEMMA CallerKeeps ==
  ASSUME IInv, UNCHANGED <<vars, worker, chosen, serial, before>>,
         caller.pc # "free", NEW pc \in Pcs \ {"free"}, NEW at \in Nat \ {0},
         Caller(pc, at), CallerWaits', TasksWithinCall'
  PROVE  IInv'
<1>1. caller' = [pc |-> pc, at |-> at] /\ caller'.pc = pc /\ pc # "free"
  BY DEF Caller
<1>2. Shape'
  BY TilesStay DEF IInv
<1>3. ComputeTypeOK'
  BY <1>1 DEF IInv, ComputeTypeOK
<1>4. OnlyChunksWork' /\ SameChunks'
  BY <1>1 DEF IInv, OnlyChunksWork, SameChunks, Chunks, vars
<1>5. ChunksAsFar'
  <2> SUFFICES ASSUME NEW k \in Chunks  PROVE ChunkAsFar(k)'
    BY DEF ChunksAsFar, Chunks, vars
  <2>1. ChunkAsFar(k)
    BY DEF IInv, ChunksAsFar
  <2> QED
    BY <2>1, FarStays DEF vars, ChunkAsFar
<1> QED
  BY <1>2, <1>3, <1>4, <1>5 DEF IInv

(* A step of the caller that lets the transform of a chunk run.            *)
LEMMA StartKeeps ==
  ASSUME IInv, UNCHANGED <<vars, chosen, serial, before>>, caller.pc # "free",
         NEW k \in Chunks, WorkerAt(k, "running"),
         NEW pc \in Pcs \ {"free", "returned", "threw"}, NEW at \in Nat \ {0},
         Caller(pc, at), CallerWaits'
  PROVE  IInv'
<1>1. caller' = [pc |-> pc, at |-> at] /\ caller'.pc = pc
      /\ pc \notin {"free", "returned", "threw"}
  BY DEF Caller
<1>2. Shape' /\ m_tiles' = m_tiles
  BY TilesStay DEF IInv, vars
<1>3. k \in AllChunks
  BY ChunksAre DEF IInv
<1>4. /\ worker' \in [AllChunks -> Work]
      /\ \A j \in AllChunks :
           /\ worker'[j].at = worker[j].at /\ worker'[j].calls = worker[j].calls
           /\ worker'[j].pc = IF j = k THEN "running" ELSE worker[j].pc
  BY <1>3 DEF WorkerAt, IInv, ComputeTypeOK, Work
<1>5. ComputeTypeOK'
  BY <1>1, <1>4 DEF IInv, ComputeTypeOK
<1>6. OnlyChunksWork' /\ SameChunks' /\ TasksWithinCall'
  BY <1>1, <1>2, <1>4
     DEF IInv, OnlyChunksWork, SameChunks, Chunks, TasksWithinCall, Free
<1>7. ChunksAsFar'
  <2> SUFFICES ASSUME NEW j \in Chunks  PROVE ChunkAsFar(j)'
    BY <1>2 DEF ChunksAsFar, Chunks
  <2>1. ChunkAsFar(j) /\ j \in AllChunks
    BY ChunksAre DEF IInv, ChunksAsFar
  <2>2. /\ worker'[j].pc = "idle" => worker[j].at = 0
        /\ worker'[j].pc = "done" => worker[j].at = Len(before[j])
    BY <1>4, <2>1 DEF ChunkAsFar
  <2> QED
    BY <1>2, <1>4, <2>1, <2>2, FarStays
<1> QED
  BY <1>2, <1>5, <1>6, <1>7 DEF IInv

(* Each step of the caller.                                                *)
LEMMA CallerStepKeeps == IInv /\ CallerStep => IInv'
<1> SUFFICES ASSUME IInv, CallerStep PROVE IInv'
  OBVIOUS
<1> USE DEF Pcs
<1>0. /\ caller.pc \in Pcs /\ caller.at \in Nat \ {0}
      /\ Chunks = 1 .. Len(m_tiles) /\ Len(m_tiles) \in Nat
      /\ Chunks \subseteq AllChunks
  BY ChunksAre DEF IInv, ComputeTypeOK
<1>1. CASE Launch
  <2>1. caller.pc = "launch" /\ ~serial /\ caller.at \in Chunks
        /\ UNCHANGED <<vars, chosen, serial, before>>
    BY <1>1 DEF Launch
  <2>2. CASE WorkerAt(caller.at, "running") /\ Caller("launch", caller.at + 1)
    <3>1. CallerWaits'
      BY <2>1, <2>2 DEF Caller, CallerWaits
    <3> QED
      BY <1>0, <2>1, <2>2, <3>1, StartKeeps
  <2>3. CASE Caller("unwind", 1) /\ UNCHANGED worker
    <3>1. CallerWaits' /\ TasksWithinCall'
      BY <2>3 DEF Caller, CallerWaits, TasksWithinCall, Free
    <3> QED
      BY <1>0, <2>1, <2>3, <3>1, CallerKeeps
  <2> QED
    BY <1>1, <2>2, <2>3 DEF Launch
<1>2. CASE OwnChunk
  <2> DEFINE own == IF serial THEN caller.at ELSE 1
  <2>1. /\ caller.pc = "launch" /\ own \in Chunks /\ own \in Nat \ {0}
        /\ WorkerAt(own, "running") /\ Caller("own", own)
        /\ UNCHANGED <<vars, chosen, serial, before>>
    BY <1>0, <1>2 DEF OwnChunk
  <2>2. DoneBelow(own)
    BY <1>0, <2>1 DEF IInv, CallerWaits, DoneBelow
  <2>3. CallerWaits'
    <3>1. caller'.pc = "own" /\ caller'.at = own /\ m_tiles' = m_tiles
      BY <2>1 DEF Caller, vars
    <3>2. \A k \in Chunks : k < own => worker'[k].pc = worker[k].pc
      BY <1>0, <2>1 DEF WorkerAt, IInv, ComputeTypeOK
    <3> QED
      BY <2>2, <3>1, <3>2 DEF CallerWaits, DoneBelow, Chunks
  <2> HIDE DEF own
  <2> QED
    BY <2>1, <2>3, StartKeeps
<1>3. CASE OwnChunkEnds
  <2>1. /\ caller.pc = "own" /\ Finished(caller.at)
        /\ UNCHANGED <<vars, worker, chosen, serial, before>>
        /\ DoneBelow(caller.at)
    BY <1>3 DEF OwnChunkEnds, IInv, CallerWaits
  <2>2. CASE worker[caller.at].pc = "failed"
    <3>1. Caller("unwind", 1)
      BY <1>3, <2>2 DEF OwnChunkEnds
    <3>2. CallerWaits' /\ TasksWithinCall'
      BY <3>1 DEF Caller, CallerWaits, TasksWithinCall, Free
    <3> QED
      BY <2>1, <3>1, <3>2, CallerKeeps
  <2>3. CASE worker[caller.at].pc # "failed" /\ serial
    <3>1. Caller("launch", caller.at + 1)
      BY <1>3, <2>3 DEF OwnChunkEnds
    <3>2. DoneBelow(caller.at + 1)
      BY <1>0, <2>1, <2>3 DEF DoneBelow, Finished
    <3>3. CallerWaits' /\ TasksWithinCall'
      BY <2>1, <3>1, <3>2
         DEF Caller, CallerWaits, TasksWithinCall, Free, DoneBelow, Chunks, vars
    <3> QED
      BY <1>0, <2>1, <3>1, <3>3, CallerKeeps
  <2>4. CASE worker[caller.at].pc # "failed" /\ ~serial
    <3>1. Caller("join", 2)
      BY <1>3, <2>4 DEF OwnChunkEnds
    <3>2. DoneBelow(2)
      <4>1. caller.at = 1 => worker[1].pc = "done"
        BY <2>1, <2>4 DEF Finished
      <4>2. caller.at # 1 /\ 1 \in Chunks => worker[1].pc = "done"
        BY <1>0, <2>1 DEF DoneBelow
      <4> QED
        BY <1>0, <4>1, <4>2 DEF DoneBelow
    <3>3. CallerWaits' /\ TasksWithinCall'
      BY <2>1, <3>1, <3>2
         DEF Caller, CallerWaits, TasksWithinCall, Free, DoneBelow, Chunks, vars
    <3> QED
      BY <2>1, <3>1, <3>3, CallerKeeps
  <2> QED
    BY <2>2, <2>3, <2>4
<1>4. CASE SerialEnds
  <2>1. /\ caller.pc = "launch" /\ serial /\ caller.at \notin Chunks
        /\ Caller("leave", 1)
        /\ UNCHANGED <<vars, worker, chosen, serial, before>>
        /\ DoneBelow(caller.at)
    BY <1>4 DEF SerialEnds, IInv, CallerWaits
  <2>2. \A k \in Chunks : worker[k].pc = "done"
    BY <1>0, <2>1 DEF DoneBelow
  <2>3. CallerWaits' /\ TasksWithinCall'
    BY <2>1, <2>2 DEF Caller, CallerWaits, TasksWithinCall, Free, Chunks, vars
  <2> QED
    BY <2>1, <2>3, CallerKeeps
<1>5. CASE Join
  <2>1. /\ caller.pc = "join" /\ DoneBelow(caller.at)
        /\ UNCHANGED <<vars, worker, chosen, serial, before>>
    BY <1>5 DEF Join, IInv, CallerWaits
  <2>2. CASE caller.at \notin Chunks
    <3>1. Caller("leave", 1)
      BY <1>5, <2>2 DEF Join
    <3>2. \A k \in Chunks : worker[k].pc = "done"
      BY <1>0, <2>1, <2>2 DEF DoneBelow
    <3>3. CallerWaits' /\ TasksWithinCall'
      BY <2>1, <3>1, <3>2 DEF Caller, CallerWaits, TasksWithinCall, Free, Chunks, vars
    <3> QED
      BY <2>1, <3>1, <3>3, CallerKeeps
  <2>3. CASE caller.at \in Chunks /\ worker[caller.at].pc = "failed"
    <3>1. Caller("unwind", 1)
      BY <1>5, <2>3 DEF Join
    <3>2. CallerWaits' /\ TasksWithinCall'
      BY <3>1 DEF Caller, CallerWaits, TasksWithinCall, Free
    <3> QED
      BY <2>1, <3>1, <3>2, CallerKeeps
  <2>4. CASE caller.at \in Chunks /\ worker[caller.at].pc # "failed"
    <3>1. Caller("join", caller.at + 1) /\ worker[caller.at].pc = "done"
      BY <1>5, <2>4 DEF Join, Finished
    <3>2. DoneBelow(caller.at + 1)
      BY <1>0, <2>1, <3>1 DEF DoneBelow
    <3>3. CallerWaits' /\ TasksWithinCall'
      BY <2>1, <3>1, <3>2
         DEF Caller, CallerWaits, TasksWithinCall, Free, DoneBelow, Chunks, vars
    <3> QED
      BY <1>0, <2>1, <3>1, <3>3, CallerKeeps
  <2> QED
    BY <2>2, <2>3, <2>4
<1>6. CASE EndScope
  <2>1. /\ caller.pc \in {"leave", "unwind"} /\ TasksJoined
        /\ UNCHANGED <<vars, worker, chosen, serial, before>>
    BY <1>6 DEF EndScope
  <2>2. TasksWithinCall'
    BY <2>1 DEF TasksJoined, TasksWithinCall, Running
  <2>3. CASE caller.pc = "leave"
    <3>1. Caller("returned", 1)
      BY <1>6, <2>3 DEF EndScope
    <3>2. CallerWaits'
      BY <2>1, <2>3, <3>1 DEF Caller, CallerWaits, IInv, Chunks, vars
    <3> QED
      BY <2>1, <2>2, <3>1, <3>2, CallerKeeps
  <2>4. CASE caller.pc = "unwind"
    <3>1. Caller("threw", 1)
      BY <1>6, <2>4 DEF EndScope
    <3>2. CallerWaits'
      BY <3>1 DEF Caller, CallerWaits
    <3> QED
      BY <2>1, <2>2, <3>1, <3>2, CallerKeeps
  <2> QED
    BY <2>1, <2>3, <2>4
<1> QED
  BY <1>1, <1>2, <1>3, <1>4, <1>5, <1>6 DEF CallerStep

-----------------------------------------------------------------------------
(* A step of the transform of a chunk: what it does not touch.             *)
LEMMA WorkKeeps ==
  ASSUME IInv, NEW k \in AllChunks, Running(k),
         UNCHANGED <<m_size, caller, chosen, serial, before>>,
         m_tiles' \in Seq(Seq(Values)), Len(m_tiles') = Len(m_tiles),
         \A u \in 1 .. Len(m_tiles) : Len(m_tiles'[u]) = Len(m_tiles[u]),
         \A u \in Chunks : u # k => m_tiles'[u] = m_tiles[u],
         NEW work \in Work, work.pc # "idle",
         worker' = [worker EXCEPT ![k] = work],
         ChunkAsFar(k)'
  PROVE  IInv'
<1>1. /\ k \in Chunks /\ caller.pc # "free" /\ ~Free
  BY DEF IInv, OnlyChunksWork, Running, TasksWithinCall
<1>2. Shape' /\ Chunks' = Chunks
  <2>1. Shape'
    BY SameLengths DEF IInv
  <2> QED
    BY <2>1, ChunksAre, LenProperties DEF IInv, Chunks
<1>3. /\ worker' \in [AllChunks -> Work]
      /\ \A j \in AllChunks : worker'[j] = IF j = k THEN work ELSE worker[j]
  BY DEF IInv, ComputeTypeOK
<1>4. ComputeTypeOK'
  BY <1>3 DEF IInv, ComputeTypeOK
<1>5. OnlyChunksWork' /\ SameChunks' /\ TasksWithinCall'
  BY <1>1, <1>2, <1>3
     DEF IInv, OnlyChunksWork, SameChunks, TasksWithinCall, Free, Chunks
<1>6. ChunksAsFar'
  <2> SUFFICES ASSUME NEW j \in Chunks, j # k  PROVE ChunkAsFar(j)'
    BY <1>2 DEF ChunksAsFar
  <2>1. ChunkAsFar(j) /\ j \in AllChunks
    BY <1>1, ChunksAre DEF IInv, ChunksAsFar
  <2>2. worker'[j] = worker[j]
    BY <1>3, <2>1
  <2> QED
    BY <2>1, <2>2, FarStays DEF ChunkAsFar
<1>7. CallerWaits'
  <2>1. \A j \in Chunks : worker[j].pc = "done" => worker'[j].pc = "done"
    BY <1>3, ChunksAre DEF Running, IInv
  <2>2. caller'.pc = caller.pc /\ caller'.at = caller.at /\ serial' = serial
    OBVIOUS
  <2> QED
    BY <1>2, <2>1, <2>2 DEF IInv, CallerWaits, DoneBelow
<1> QED
  BY <1>2, <1>4, <1>5, <1>6, <1>7 DEF IInv

(* One turn takes the chunk one element further, with the operation called *)
(* once more if the element is picked.                                     *)
LEMMA TurnKeeps ==
  ASSUME IInv, NEW k \in AllChunks, ChunkStep(k), Turn(k)
  PROVE  IInv'
<1> DEFINE tile == before[k]
           n    == worker[k].at
           v    == m_tiles[k][n + 1]
<1>1. /\ Running(k) /\ UNCHANGED <<m_size, caller, chosen, serial, before>>
      /\ n + 1 <= Len(m_tiles[k])
  BY DEF ChunkStep, Turn
<1>2. k \in Chunks /\ caller.pc # "free"
  BY <1>1 DEF IInv, OnlyChunksWork, Running
<1>3. /\ tile \in Seq(Values) /\ m_tiles[k] \in Seq(Values)
      /\ Len(tile) \in Nat /\ Len(m_tiles[k]) = Len(tile)
  BY <1>2, ChunkLength
<1>4. /\ n \in 0 .. Len(tile) /\ m_tiles[k] = Mapped(tile, n)
      /\ worker[k].calls = Picks(tile, n + 1)
  BY <1>2 DEF IInv, ChunksAsFar, ChunkAsFar
<1>5. n \in Nat /\ n < Len(tile) /\ n + 1 \in Nat /\ n + 1 \in 1 .. Len(tile)
  BY <1>1, <1>3, <1>4
<1>6. /\ v = tile[n + 1]
      /\ Mapped(tile, n + 1) = IF v \in chosen
                               THEN [m_tiles[k] EXCEPT ![n + 1] = Op(Picks(tile, n + 1), v)]
                               ELSE m_tiles[k]
  <2>1. /\ Mapped(tile, n)[n + 1] = tile[n + 1]
        /\ Mapped(tile, n + 1) =
             IF tile[n + 1] \in chosen
             THEN [Mapped(tile, n) EXCEPT ![n + 1] = Op(Picks(tile, n + 1), tile[n + 1])]
             ELSE Mapped(tile, n)
    <3> HIDE DEF tile, n
    <3> QED
      BY <1>3, <1>5, MappedIs
  <2> HIDE DEF tile, n
  <2> QED
    BY <1>4, <2>1
<1>7. v \in Values
  BY <1>3, <1>5, ElementOfSeq
<1>8. /\ Picks(tile, n + 1) \in Nat
      /\ Picks(tile, n + 1 + 1) = IF v \in chosen THEN Picks(tile, n + 1) + 1
                                  ELSE Picks(tile, n + 1)
  <2> DEFINE m == n + 1
  <2>1. m \in Nat /\ m > 0
    BY <1>5
  <2> HIDE DEF m
  <2>2. /\ Picks(tile, m) \in Nat
        /\ Picks(tile, m + 1) = IF tile[m] \in chosen THEN Picks(tile, m) + 1
                                ELSE Picks(tile, m)
    BY <2>1, PicksIs
  <2> QED
    BY <1>6, <2>2 DEF m
<1>9. /\ worker[k].pc = "running" /\ worker[k] \in Work
      /\ m_tiles \in Seq(Seq(Values)) /\ k \in DOMAIN m_tiles
  BY <1>1, <1>2 DEF IInv, ComputeTypeOK, Running, Shape, TypeOK, Chunks
<1>11. CASE v \in chosen
  <2> DEFINE work == [worker[k] EXCEPT !.at = n + 1, !.calls = @ + 1]
  <2>1. /\ m_tiles' = [m_tiles EXCEPT ![k][n + 1] = Op(Picks(tile, n + 1), v)]
        /\ worker' = [worker EXCEPT ![k] = work]
    BY <1>4, <1>11 DEF Turn, Calls
  <2>2. Op(Picks(tile, n + 1), v) \in Values
    BY <1>7, <1>8, OpIs
  <2>3. /\ m_tiles' \in Seq(Seq(Values)) /\ Len(m_tiles') = Len(m_tiles)
        /\ \A u \in 1 .. Len(m_tiles) : Len(m_tiles'[u]) = Len(m_tiles[u])
    BY <2>1, <2>2, Overwritten DEF IInv, Shape
  <2>4. /\ \A u \in Chunks : u # k => m_tiles'[u] = m_tiles[u]
        /\ m_tiles'[k] = Mapped(tile, n + 1)
    BY <1>6, <1>9, <1>11, <2>1 DEF Chunks
  <2>5. /\ work \in Work /\ work.pc = "running"
        /\ work.at = n + 1 /\ work.calls = Picks(tile, n + 1) + 1
    <3>1. n + 1 \in Nat /\ worker[k].calls + 1 \in Nat
      BY <1>4, <1>5, <1>8
    <3> QED
      BY <1>4, <1>9, <3>1 DEF Work
  <2>6. worker'[k] = work
    BY <2>1 DEF IInv, ComputeTypeOK
  <2>7. ChunkAsFar(k)'
    <3>1. /\ worker'[k].at = n + 1 /\ worker'[k].pc = "running"
          /\ worker'[k].calls = Picks(before[k], n + 1 + 1)
          /\ m_tiles'[k] = Mapped(before[k], n + 1)
          /\ n + 1 \in 0 .. Len(before[k])
      BY <1>5, <1>8, <1>11, <2>4, <2>5, <2>6
    <3> HIDE DEF n
    <3> QED
      BY <1>1, <3>1, FarNext
  <2> HIDE DEF work
  <2> QED
    BY <1>1, <2>1, <2>3, <2>4, <2>5, <2>7, WorkKeeps
<1>12. CASE v \notin chosen
  <2> DEFINE work == [worker[k] EXCEPT !.at = n + 1]
  <2>1. m_tiles' = m_tiles /\ worker' = [worker EXCEPT ![k] = work]
    BY <1>12 DEF Turn
  <2>2. /\ m_tiles' \in Seq(Seq(Values)) /\ Len(m_tiles') = Len(m_tiles)
        /\ \A u \in 1 .. Len(m_tiles) : Len(m_tiles'[u]) = Len(m_tiles[u])
        /\ \A u \in Chunks : u # k => m_tiles'[u] = m_tiles[u]
        /\ m_tiles'[k] = Mapped(tile, n + 1)
    BY <1>6, <1>9, <1>12, <2>1
  <2>3. /\ work \in Work /\ work.pc = "running"
        /\ work.at = n + 1 /\ work.calls = Picks(tile, n + 1)
    BY <1>4, <1>5, <1>9 DEF Work
  <2>4. worker'[k] = work
    BY <2>1 DEF IInv, ComputeTypeOK
  <2>5. ChunkAsFar(k)'
    <3>1. /\ worker'[k].at = n + 1 /\ worker'[k].pc = "running"
          /\ worker'[k].calls = Picks(before[k], n + 1 + 1)
          /\ m_tiles'[k] = Mapped(before[k], n + 1)
          /\ n + 1 \in 0 .. Len(before[k])
      BY <1>5, <1>8, <1>12, <2>2, <2>3, <2>4
    <3> HIDE DEF n
    <3> QED
      BY <1>1, <3>1, FarNext
  <2> HIDE DEF work
  <2> QED
    BY <1>1, <2>1, <2>2, <2>3, <2>5, WorkKeeps
<1> QED
  BY <1>11, <1>12

(* A transform that ends, or throws, leaves the chunk as far as it is.     *)
LEMMA EndKeeps ==
  ASSUME IInv, NEW k \in AllChunks, ChunkStep(k), TurnThrows(k) \/ LoopEnds(k)
  PROVE  IInv'
<1>1. /\ Running(k) /\ UNCHANGED <<vars, caller, chosen, serial, before>>
  BY DEF ChunkStep, TurnThrows, LoopEnds, vars
<1>2. k \in Chunks /\ caller.pc # "free"
  BY <1>1 DEF IInv, OnlyChunksWork, Running
<1>3. Len(m_tiles[k]) = Len(before[k]) /\ ChunkAsFar(k)
  BY <1>2, ChunkLength DEF IInv, ChunksAsFar
<1>4. worker[k] \in Work /\ k \in DOMAIN worker
  BY DEF IInv, ComputeTypeOK
<1>5. PICK pc \in {"failed", "done"} :
        /\ WorkerAt(k, pc)
        /\ pc = "done" => worker[k].at = Len(m_tiles[k])
  BY DEF TurnThrows, LoopEnds
<1> DEFINE work == [worker[k] EXCEPT !.pc = pc]
<1>6. /\ work \in Work /\ work.pc = pc /\ work.at = worker[k].at
      /\ work.calls = worker[k].calls
  BY <1>4 DEF Work
<1>7. worker' = [worker EXCEPT ![k] = work] /\ worker'[k] = work
  BY <1>4, <1>5 DEF WorkerAt
<1> HIDE DEF work
<1>8. ChunkAsFar(k)'
  BY <1>1, <1>3, <1>5, <1>6, <1>7, FarStays DEF vars
<1>9. /\ m_tiles' = m_tiles /\ m_tiles \in Seq(Seq(Values))
  BY <1>1 DEF vars, IInv, Shape, TypeOK
<1> QED
  BY <1>1, <1>5, <1>6, <1>7, <1>8, <1>9, WorkKeeps DEF vars

(* Every step of the specification keeps the invariant.                    *)
LEMMA InvariantKept == IInv /\ [ComputeNext]_allVars => IInv'
<1> SUFFICES ASSUME IInv, [ComputeNext]_allVars PROVE IInv'
  OBVIOUS
<1>1. CASE Fill
  BY <1>1, FillKeeps
<1>2. ASSUME NEW isSerial \in BOOLEAN, NEW picks, Called(isSerial, picks)
      PROVE  IInv'
  BY <1>2, CalledKeeps
<1>3. CASE CallerStep
  BY <1>3, CallerStepKeeps
<1>4. ASSUME NEW k \in AllChunks, ChunkStep(k)  PROVE IInv'
  BY <1>4, TurnKeeps, EndKeeps DEF ChunkStep
<1>5. CASE UNCHANGED allVars
  <2>1. Shape'
    BY <1>5, TilesStay DEF allVars, IInv
  <2>2. UNCHANGED <<m_tiles, caller, worker, chosen, serial, before>>
    BY <1>5 DEF allVars, callVars, vars
  <2>3. ChunksAsFar'
    BY <2>2, FarStays DEF IInv, ChunksAsFar, ChunkAsFar, Chunks
  <2> QED
    BY <2>1, <2>2, <2>3
       DEF IInv, ComputeTypeOK, OnlyChunksWork, SameChunks, CallerWaits, DoneBelow,
           TasksWithinCall, Chunks, Free, Running
<1>6. CASE transform_column \/ transform_column_if \/ transform_column_parallel
  BY <1>2, <1>6 DEF transform_column, transform_column_if, transform_column_parallel
<1> QED
  BY <1>1, <1>3, <1>4, <1>5, <1>6 DEF ComputeNext

(* The inductive invariant holds in every reachable state.                 *)
THEOREM Invariance == ComputeSpec => []IInv
<1>1. ComputeInit => IInv
  <2> SUFFICES ASSUME ComputeInit PROVE IInv
    OBVIOUS
  <2>1. Shape
    BY ShapeAtFirst DEF ComputeInit
  <2>2. /\ worker = NoWork /\ caller = [pc |-> "free", at |-> 1] /\ serial = TRUE
        /\ \A k \in AllChunks : worker[k] = [pc |-> "idle", at |-> 0, calls |-> 0]
    BY DEF ComputeInit, NoWork
  <2>3. ComputeTypeOK
    BY <2>2 DEF ComputeTypeOK, NoWork, Work, Pcs
  <2> QED
    BY <2>1, <2>2, <2>3
       DEF IInv, OnlyChunksWork, SameChunks, ChunksAsFar, CallerWaits,
           TasksWithinCall, Running
<1> QED
  BY <1>1, InvariantKept, PTL DEF ComputeSpec

(* No task works on the tiles once the call has returned or thrown.        *)
THEOREM NoTaskOutlives == ComputeSpec => []TasksWithinCall
<1>1. IInv => TasksWithinCall
  BY DEF IInv
<1> QED
  BY <1>1, Invariance, PTL

(* A call that returns has done what the serial loop does.                 *)
THEOREM ReturnsAsSerial == ComputeSpec => []ParallelIsSerial
<1>1. IInv => ParallelIsSerial
  <2> SUFFICES ASSUME IInv, caller.pc = "returned"
               PROVE  m_tiles = [k \in DOMAIN before |-> Mapped(before[k], Len(before[k]))]
    BY DEF ParallelIsSerial
  <2>1. DOMAIN m_tiles = DOMAIN before /\ m_tiles = [k \in DOMAIN m_tiles |-> m_tiles[k]]
    BY LenProperties DEF IInv, SameChunks, Shape, TypeOK
  <2>2. \A k \in DOMAIN m_tiles : m_tiles[k] = Mapped(before[k], Len(before[k]))
    BY DEF IInv, ChunksAsFar, ChunkAsFar, CallerWaits, Chunks
  <2> QED
    BY <2>1, <2>2
<1> QED
  BY <1>1, Invariance, PTL

(* A call that throws stops between two elements of every chunk, and in    *)
(* chunks whose own transform did not throw at an end.                     *)
THEOREM ThrowsBetweenElements == ComputeSpec => []FailureContained
<1>1. IInv => FailureContained
  <2> SUFFICES ASSUME IInv, caller.pc = "threw", NEW k \in Chunks
               PROVE  \E n \in 0 .. Len(before[k]) :
                        /\ m_tiles[k] = Mapped(before[k], n)
                        /\ worker[k].pc # "failed" => n \in {0, Len(before[k])}
    BY DEF FailureContained
  <2>1. ChunkAsFar(k) /\ k \in AllChunks
    BY ChunksAre DEF IInv, ChunksAsFar
  <2>2. worker[k].pc \in {"idle", "done", "failed"}
    BY <2>1 DEF IInv, ComputeTypeOK, Work, TasksWithinCall, Free, Running
  <2>3. worker[k].at \in 0 .. Len(before[k])
    BY <2>1 DEF ChunkAsFar
  <2> QED
    BY <2>1, <2>2, <2>3 DEF ChunkAsFar
<1> QED
  BY <1>1, Invariance, PTL

(* Between and during calls the spans, laid end to end, are the elements   *)
(* in order: a transform changes values, never the shape of the tiles.     *)
THEOREM ComputeSpansCover == ComputeSpec => []SpansCoverElements
<1>1. IInv => SpansCoverElements
  BY FlatIsElements DEF IInv, Shape, TilesFull, SpansCoverElements
<1> QED
  BY <1>1, Invariance, PTL

(* A column that also goes through transforms still acts as a plain        *)
(* vector: every call of the vector between two of them does to the        *)
(* elements what std::vector's does.                                       *)
THEOREM ComputeActsAsVector == ComputeSpec => ActsAsVector
<1>1. IInv => VectorStep
  BY StepsAreVectors DEF IInv
<1>2. [][VectorStep]_vars <=> ActsAsVector
  BY DEF ActsAsVector, VectorStep
<1> HIDE DEF VectorStep
<1> QED
  BY <1>1, <1>2, Invariance, PTL

-----------------------------------------------------------------------------
(* What a loop over 0 .. n reaches from 0, step by step.                   *)
LEMMA Upwards ==
  ASSUME NEW n \in Nat, NEW G, 0 \in G, \A i \in 1 .. n : i - 1 \in G => i \in G
  PROVE  \A i \in 0 .. n : i \in G
<1> DEFINE bad == {i \in 0 .. n : i \notin G}
<1>1. SUFFICES ASSUME bad # {} PROVE FALSE
  OBVIOUS
<1>2. bad \subseteq Nat
  OBVIOUS
<1>3. PICK m \in bad : \A k \in bad : m <= k
  <2> HIDE DEF bad
  <2> QED
    BY <1>1, <1>2, LeastNatural
<1>4. m # 0
  BY <1>3
<1>5. m \in 1 .. n /\ m - 1 \in 0 .. n /\ ~(m <= m - 1)
  BY <1>3, <1>4
<1>6. m - 1 \in G
  BY <1>3, <1>5
<1> QED
  BY <1>3, <1>5, <1>6

(* What a recursion over 0 .. n from z computes, by the steps F.           *)
Results(n, V, z, F) ==
  {f \in [0 .. n -> V] : f[0] = z /\ \A i \in 1 .. n : f[i] = F[i][f[i - 1]]}

(* A recursion that starts in V and stays in it has a result.              *)
LEMMA RecursionHasResult ==
  ASSUME NEW n \in Nat, NEW V, NEW z \in V, NEW F, F \in [1 .. n -> [V -> V]]
  PROVE  Results(n, V, z, F) # {}
<1> DEFINE Rec(f, m) == f[0] = z /\ \A i \in 1 .. m : f[i] = F[i][f[i - 1]]
           Has(m) == \E f \in [0 .. m -> V] : Rec(f, m)
           G == {m \in Nat : Has(m)}
<1>1. 0 \in G
  <2> DEFINE f == [i \in 0 .. 0 |-> z]
  <2>1. f \in [0 .. 0 -> V] /\ Rec(f, 0)
    OBVIOUS
  <2> QED
    BY <2>1
<1>2. ASSUME NEW m \in 1 .. n, m - 1 \in G
      PROVE  m \in G
  <2>0. m \in Nat /\ m - 1 \in Nat /\ m - 1 \in 0 .. m - 1 /\ m # 0
    OBVIOUS
  <2>1. PICK f \in [0 .. m - 1 -> V] : Rec(f, m - 1)
    <3> HIDE DEF Rec
    <3> QED
      BY <1>2
  <2> DEFINE last == F[m][f[m - 1]]
             g == [i \in 0 .. m |-> IF i = m THEN last ELSE f[i]]
  <2>2. last \in V
    BY <2>0
  <2> HIDE DEF last
  <2>3. g \in [0 .. m -> V]
    BY <2>0, <2>2
  <2>4. g[0] = z
    BY <2>0, <2>1
  <2>5. ASSUME NEW i \in 1 .. m
        PROVE  g[i] = F[i][g[i - 1]]
    <3>1. i \in 0 .. m /\ i - 1 \in 0 .. m /\ i - 1 # m
      BY <2>0
    <3>2. g[i - 1] = f[i - 1]
      BY <3>1
    <3>3. CASE i = m
      BY <3>1, <3>2, <3>3 DEF last
    <3>4. CASE i # m
      <4>1. i \in 1 .. m - 1
        BY <3>4
      <4>2. f[i] = F[i][f[i - 1]]
        BY <2>1, <4>1
      <4> QED
        BY <3>1, <3>2, <3>4, <4>2
    <3> QED
      BY <3>3, <3>4
  <2>6. Rec(g, m)
    <3> HIDE DEF g
    <3> QED
      BY <2>4, <2>5
  <2> HIDE DEF g, Rec
  <2>7. Has(m)
    BY <2>3, <2>6
  <2> QED
    BY <2>0, <2>7
<1>3. n \in G
  <2>1. n \in 0 .. n
    OBVIOUS
  <2> HIDE DEF G
  <2> QED
    BY <1>1, <1>2, <2>1, Upwards
<1> QED
  BY <1>3 DEF Results

-----------------------------------------------------------------------------
(* Powers of two, and the mask of the low bits.                            *)

(* The powers are there, one by one.                                       *)
LEMMA PowersAre ==
  /\ PowerOfTwo[0] = 1
  /\ \A i \in 1 .. digits : PowerOfTwo[i] = 2 * PowerOfTwo[i - 1]
<1> DEFINE F == [i \in 1 .. digits |-> [x \in Nat |-> 2 * x]]
           Rec(f) == f = [n \in 0 .. digits |-> IF n = 0 THEN 1 ELSE 2 * f[n - 1]]
<1>1. digits \in Nat
  BY DigitsAssumption
<1>2. PICK f \in [0 .. digits -> Nat] : f[0] = 1 /\ \A i \in 1 .. digits : f[i] = F[i][f[i - 1]]
  <2>1. F \in [1 .. digits -> [Nat -> Nat]] /\ 1 \in Nat
    OBVIOUS
  <2> HIDE DEF F
  <2>2. Results(digits, Nat, 1, F) # {}
    BY <1>1, <2>1, RecursionHasResult
  <2> QED
    BY <2>2 DEF Results
<1>3. \A i \in 0 .. digits : i = 0 \/ (i \in 1 .. digits /\ i - 1 \in 0 .. digits)
  BY <1>1
<1>4. ASSUME NEW i \in 1 .. digits
      PROVE  f[i] = 2 * f[i - 1]
  <2>1. f[i - 1] \in Nat
    BY <1>2, <1>3
  <2> QED
    BY <1>2, <2>1
<1>5. Rec(f)
  BY <1>2, <1>3, <1>4
<1>6. \E g : Rec(g)
  <2> HIDE DEF Rec
  <2> QED
    BY <1>5
<1>7. Rec(CHOOSE g : Rec(g))
  <2> HIDE DEF Rec
  <2> QED
    BY <1>6
<1>8. PowerOfTwo = CHOOSE g : Rec(g)
  BY DEF PowerOfTwo
<1>9. Rec(PowerOfTwo)
  BY <1>7, <1>8
<1>10. 0 \in 0 .. digits /\ \A i \in 1 .. digits : i \in 0 .. digits /\ i # 0
  BY <1>1
<1> QED
  BY <1>9, <1>10

(* They are positive and grow.                                             *)
LEMMA PowersGrow ==
  \A i \in 0 .. digits : /\ PowerOfTwo[i] \in Nat \ {0}
                         /\ i < digits => PowerOfTwo[i] < Width
<1>1. digits \in Nat
  BY DigitsAssumption
<1> DEFINE P(i) == PowerOfTwo[i] \in Nat \ {0}
           G == {i \in 0 .. digits : P(i)}
<1>2. \A i \in 0 .. digits : P(i)
  <2>1. 0 \in G
    BY <1>1, PowersAre
  <2>2. ASSUME NEW i \in 1 .. digits, i - 1 \in G
        PROVE  i \in G
    <3>1. PowerOfTwo[i] = 2 * PowerOfTwo[i - 1] /\ P(i - 1) /\ i \in 0 .. digits
      BY <1>1, <2>2, PowersAre
    <3> QED
      BY <3>1
  <2>3. \A i \in 0 .. digits : i \in G
    <3> HIDE DEF G
    <3> QED
      BY <1>1, <2>1, <2>2, Upwards
  <2> QED
    BY <2>3
<1> DEFINE H == {i \in 0 .. digits : i = 0 \/ PowerOfTwo[digits - i] < Width}
<1>3. \A i \in 0 .. digits : i \in H
  <2>1. 0 \in H
    BY <1>1
  <2>2. ASSUME NEW i \in 1 .. digits, i - 1 \in H
        PROVE  i \in H
    <3> DEFINE j == digits - i
    <3>1. j \in 0 .. digits /\ j + 1 \in 1 .. digits /\ j + 1 = digits - (i - 1)
          /\ i \in 0 .. digits /\ j + 1 \in 0 .. digits /\ j + 1 - 1 = j
      BY <1>1
    <3> HIDE DEF j, P
    <3>2. PowerOfTwo[j + 1] = 2 * PowerOfTwo[j] /\ P(j) /\ P(j + 1)
      BY <1>2, <3>1, PowersAre
    <3>3. PowerOfTwo[j] < PowerOfTwo[j + 1] /\ PowerOfTwo[j] \in Nat /\ PowerOfTwo[j + 1] \in Nat
      BY <3>2 DEF P
    <3>4. i - 1 = 0 => PowerOfTwo[j + 1] = Width
      <4>1. i - 1 = 0 => j + 1 = digits
        BY <1>1, <3>1
      <4> QED
        BY <4>1 DEF Width
    <3>5. PowerOfTwo[j + 1] = Width \/ PowerOfTwo[j + 1] < Width
      BY <2>2, <3>1, <3>4
    <3>6. Width \in Nat
      <4>1. digits \in 0 .. digits
        BY <1>1
      <4> QED
        BY <1>2, <4>1 DEF Width, P
    <3>7. PowerOfTwo[j] < Width
      BY <3>3, <3>5, <3>6
    <3> QED
      BY <3>1, <3>7 DEF j
  <2> HIDE DEF H
  <2> QED
    BY <1>1, <2>1, <2>2, Upwards
<1>4. ASSUME NEW i \in 0 .. digits, i < digits  PROVE PowerOfTwo[i] < Width
  <2> DEFINE k == digits - i
  <2>1. k \in 0 .. digits /\ k # 0 /\ digits - k = i
    BY <1>1, <1>4
  <2> HIDE DEF k
  <2> QED
    BY <1>3, <2>1
<1> QED
  BY <1>2, <1>4

(* A mask of some bits is a number of the type.                            *)
LEMMA MaskIs ==
  ASSUME NEW bits \in 0 .. digits
  PROVE  low_bits_mask(bits) \in Nat /\ low_bits_mask(bits) < Width /\ Width \in Nat \ {0}
<1>1. digits \in Nat \ {0, 1} /\ digits \in 0 .. digits
  BY DigitsAssumption
<1>2. Width \in Nat \ {0}
  BY <1>1, PowersGrow DEF Width
<1>3. CASE bits >= digits
  BY <1>2, <1>3 DEF low_bits_mask
<1>4. CASE ~(bits >= digits) /\ bits = 0
  BY <1>2, <1>4 DEF low_bits_mask
<1>5. CASE ~(bits >= digits) /\ bits # 0
  <2> DEFINE p == PowerOfTwo[bits]
  <2>1. p \in Nat \ {0} /\ p < Width
    BY <1>1, <1>5, PowersGrow
  <2>2. bits % digits = bits
    BY <1>1, <1>5
  <2>3. Shl(1, bits) = (1 * p) % Width
    BY <2>2 DEF Shl
  <2> HIDE DEF p
  <2>4. (1 * p) % Width = p
    BY <1>2, <2>1
  <2>5. low_bits_mask(bits) = p - 1
    BY <1>5, <2>3, <2>4 DEF low_bits_mask
  <2> QED
    BY <1>2, <2>1, <2>5
<1> QED
  BY <1>3, <1>4, <1>5

-----------------------------------------------------------------------------
(* Rounding, and what is nearest.                                          *)

(* Products by a positive number keep the order, and take a step.          *)
LEMMA ProductOrder ==
  ASSUME NEW d \in Nat \ {0}, NEW a \in Int, NEW b \in Int, a < b
  PROVE  d * a \in Int /\ d * b \in Int /\ d * a + d <= d * b
<1>1. PICK k \in Nat : b = a + 1 + k
  <2>1. b - a - 1 \in Nat /\ b = a + 1 + (b - a - 1)
    OBVIOUS
  <2> QED
    BY <2>1
<1>2. d * b = d * a + d + d * k
  BY <1>1
<1>3. d * k >= 0
  BY <1>1
<1> QED
  BY <1>2, <1>3

(* What wraps around, and what is too small to.                            *)
LEMMA Wraps ==
  ASSUME NEW M \in Nat \ {0}, NEW k \in Int, NEW y \in 0 .. M - 1
  PROVE  (M * k + y) % M = y /\ y % M = y
OBVIOUS

(* What is rounded is within half of the step.                             *)
LEMMA RoundedIs ==
  ASSUME NEW n \in Nat, NEW d \in Nat \ {0}
  PROVE  /\ Rounded(n, d) \in Nat
         /\ d * Rounded(n, d) \in Int
         /\ 2 * (d * Rounded(n, d)) <= 2 * n + d
         /\ 2 * n < 2 * (d * Rounded(n, d)) + d
<1> DEFINE m == 2 * n + d
           e == 2 * d
           r == m \div e
<1>1. m \in Nat /\ e \in Nat \ {0}
  OBVIOUS
<1>2. r \in Nat /\ e * r <= m /\ m < e * r + e
  <2> HIDE DEF m, e
  <2> QED
    BY <1>1
<1>3. r = Rounded(n, d)
  BY DEF Rounded
<1> HIDE DEF r
<1>4. e * r = 2 * (d * r)
  BY <1>2
<1> QED
  BY <1>2, <1>3, <1>4

(* Rounded, and then held below a bound, is the nearest below that bound.  *)
LEMMA RoundedIsNearest ==
  ASSUME NEW n \in Nat, NEW d \in Nat \ {0}, NEW hi \in Nat,
         NEW k \in Int, k <= hi,
         NEW c, c = IF Rounded(n, d) > hi THEN hi ELSE Rounded(n, d)
  PROVE  Distance(d * c, n) <= Distance(d * k, n)
<1> DEFINE r == Rounded(n, d)
           R == d * r
           C == d * c
           K == d * k
<1>1. r \in Nat /\ R \in Int /\ 2 * R <= 2 * n + d /\ 2 * n < 2 * R + d
  BY RoundedIs
<1>2. c \in Nat /\ C \in Int /\ K \in Int /\ (c = r => C = R) /\ (k = c => K = C)
  BY <1>1
<1>3. (c # r => C + d <= R) /\ (k < c => K + d <= C) /\ (k > c => C + d <= K)
  <2>1. c # r => c < r
    BY <1>1
  <2>2. c # r => C + d <= R
    <3> HIDE DEF r
    <3> QED
      BY <1>1, <1>2, <2>1, ProductOrder
  <2> QED
    BY <1>2, <2>2, ProductOrder
<1>4. (c = r \/ k <= c) /\ (k = c \/ k < c \/ k > c)
  BY <1>1, <1>2
<1> HIDE DEF r, R, C, K
<1>5. Distance(C, n) <= Distance(K, n)
  BY <1>1, <1>2, <1>3, <1>4 DEF Distance
<1> QED
  BY <1>5 DEF C, K

-----------------------------------------------------------------------------
(* delta_value.                                                            *)

(* The range of a delta has zero in it.                                    *)
LEMMA RangeIs == min_value \in Int /\ min_value < 0 /\ max_value \in Nat
<1>1. digits - 1 \in 0 .. digits
  BY DigitsAssumption
<1>2. PowerOfTwo[digits - 1] \in Nat \ {0}
  BY <1>1, PowersGrow
<1> HIDE DEF PowerOfTwo
<1> QED
  BY <1>2 DEF min_value, max_value

(* No other delta brings the tracked value closer to the new one.          *)
LEMMA DeltaIsNearest ==
  ASSUME NEW m \in Int, NEW v \in Int, NEW scale \in Nat \ {0},
         NEW delta \in min_value .. max_value
  PROVE  /\ get_delta(m, v, scale) \in min_value .. max_value
         /\ apply_delta(m, get_delta(m, v, scale), scale) \in Int
         /\ Distance(apply_delta(m, get_delta(m, v, scale), scale), v)
              <= Distance(apply_delta(m, delta, scale), v)
<1> DEFINE lo == min_value
           hi == max_value
           diff == v - m
<1>1. lo \in Int /\ lo < 0 /\ hi \in Nat /\ diff \in Int
  BY RangeIs
<1>2. CASE diff >= 0
  <2> DEFINE r == Rounded(diff, scale)
             c == IF r > hi THEN hi ELSE r
             C == scale * c
             K == scale * delta
  <2>1. r \in Nat
    BY <1>2, RoundedIs
  <2>2. get_delta(m, v, scale) = c /\ c \in lo .. hi
    <3>1. get_delta(m, v, scale) = Clamp(r, lo, hi)
      BY <1>2 DEF get_delta
    <3> HIDE DEF r, lo, hi
    <3> QED
      BY <1>1, <2>1, <3>1 DEF Clamp
  <2>3. delta \in Int /\ delta <= hi
    BY <1>1
  <2>4. Distance(C, diff) <= Distance(K, diff)
    <3> HIDE DEF r, hi, diff
    <3>1. diff \in Nat /\ c = IF Rounded(diff, scale) > hi THEN hi ELSE Rounded(diff, scale)
      BY <1>1, <1>2 DEF r
    <3> HIDE DEF c
    <3> QED
      BY <1>1, <2>3, <3>1, RoundedIsNearest
  <2>5. C \in Int /\ K \in Int /\ C = c * scale /\ K = delta * scale
    <3> HIDE DEF c
    <3> QED
      BY <1>1, <2>2, <2>3
  <2>6. apply_delta(m, c, scale) = m + C /\ apply_delta(m, delta, scale) = m + K
    <3> HIDE DEF C, K, c
    <3> QED
      BY <2>5 DEF apply_delta
  <2> HIDE DEF C, K, c, r
  <2>7. Distance(m + C, v) = Distance(C, diff) /\ Distance(m + K, v) = Distance(K, diff)
    BY <2>5 DEF Distance
  <2> QED
    BY <2>2, <2>4, <2>5, <2>6, <2>7
<1>3. CASE diff < 0
  <2> DEFINE n == -diff
             r == Rounded(n, scale)
             c == IF r > -lo THEN -lo ELSE r
             C == scale * c
             k == -delta
             K == scale * k
  <2>1. n \in Nat /\ r \in Nat
    <3>1. n \in Nat
      BY <1>1, <1>3
    <3> HIDE DEF n
    <3> QED
      BY <3>1, RoundedIs
  <2>2. get_delta(m, v, scale) = -c /\ -c \in lo .. hi /\ c \in Int
    <3>1. get_delta(m, v, scale) = Clamp(-r, lo, hi)
      <4>1. ~(diff >= 0)
        BY <1>1, <1>3
      <4> QED
        BY <4>1 DEF get_delta
    <3> HIDE DEF r, lo, hi
    <3> QED
      BY <1>1, <2>1, <3>1 DEF Clamp
  <2>3. k \in Int /\ k <= -lo /\ -lo \in Nat
    BY <1>1
  <2>4. Distance(C, n) <= Distance(K, n)
    <3>1. c = IF Rounded(n, scale) > -lo THEN -lo ELSE Rounded(n, scale)
      OBVIOUS
    <3> HIDE DEF c, n, k, lo
    <3> QED
      BY <2>1, <2>3, <3>1, RoundedIsNearest
  <2>5. C \in Int /\ K \in Int /\ (-c) * scale = -C /\ delta * scale = -K
    <3> HIDE DEF c
    <3> QED
      BY <1>1, <2>2, <2>3
  <2>6. apply_delta(m, -c, scale) = m - C /\ apply_delta(m, delta, scale) = m - K
    <3> HIDE DEF C, K, c
    <3> QED
      BY <2>5 DEF apply_delta
  <2> HIDE DEF C, K, c, r
  <2>7. Distance(m - C, v) = Distance(C, n) /\ Distance(m - K, v) = Distance(K, n)
    BY <2>5 DEF Distance
  <2> QED
    BY <2>2, <2>4, <2>5, <2>6, <2>7
<1> QED
  BY <1>1, <1>2, <1>3

(* The tracked value, reading by reading.                                  *)
LEMMA TrackedIs ==
  ASSUME NEW readings \in Seq(Int), NEW scale \in Nat \ {0}
  PROVE  LET after == Tracked(readings, scale)
         IN  /\ \A i \in 0 .. Len(readings) : after[i] \in Int
             /\ \A i \in 1 .. Len(readings) :
                  after[i] = apply_delta(after[i - 1],
                                get_delta(after[i - 1], readings[i], scale), scale)
<1> DEFINE n == Len(readings)
           Sent(x, i) == apply_delta(x, get_delta(x, readings[i], scale), scale)
           Rec(f) == f = [i \in 0 .. n |-> IF i = 0 THEN 0 ELSE Sent(f[i - 1], i)]
           F == [i \in 1 .. n |-> [x \in Int |-> Sent(x, i)]]
           after == Tracked(readings, scale)
<1>1. n \in Nat /\ \A i \in 1 .. n : readings[i] \in Int
  BY LenProperties
<1>2. ASSUME NEW i \in 1 .. n, NEW x \in Int
      PROVE  Sent(x, i) \in Int
  <2>1. 0 \in min_value .. max_value
    BY RangeIs
  <2> QED
    BY <1>1, <2>1, DeltaIsNearest
<1>3. \A i \in 0 .. n : i = 0 \/ (i \in 1 .. n /\ i - 1 \in 0 .. n /\ i # 0)
  BY <1>1
<1> HIDE DEF Sent
<1>4. PICK f \in [0 .. n -> Int] : f[0] = 0 /\ \A i \in 1 .. n : f[i] = F[i][f[i - 1]]
  <2>1. F \in [1 .. n -> [Int -> Int]] /\ 0 \in Int
    BY <1>2
  <2> HIDE DEF F, n
  <2>2. Results(n, Int, 0, F) # {}
    BY <1>1, <2>1, RecursionHasResult
  <2> QED
    BY <2>2 DEF Results
<1>5. ASSUME NEW i \in 1 .. n
      PROVE  f[i] = Sent(f[i - 1], i)
  <2>1. f[i - 1] \in Int
    BY <1>3, <1>4, <1>5
  <2> HIDE DEF n
  <2> QED
    BY <1>4, <2>1
<1>6. Rec(f)
  <2> HIDE DEF F, n
  <2> QED
    BY <1>3, <1>4, <1>5
<1>7. Rec(CHOOSE g : Rec(g))
  <2>1. \E g : Rec(g)
    <3> HIDE DEF Rec
    <3> QED
      BY <1>6
  <2> HIDE DEF Rec
  <2> QED
    BY <2>1
<1>8. after = CHOOSE g : Rec(g)
  BY DEF Tracked, Sent
<1>9. Rec(after)
  <2> HIDE DEF Rec, after
  <2> QED
    BY <1>7, <1>8
<1>10. after[0] = 0 /\ \A i \in 1 .. n : after[i] = Sent(after[i - 1], i)
  <2>1. \A i \in 0 .. n : after[i] = IF i = 0 THEN 0 ELSE Sent(after[i - 1], i)
    <3> HIDE DEF after, n
    <3> QED
      BY <1>9
  <2>2. 0 \in 0 .. n /\ \A i \in 1 .. n : i \in 0 .. n /\ i # 0
    BY <1>1
  <2> HIDE DEF after, n
  <2> QED
    BY <2>1, <2>2
<1>11. \A i \in 0 .. n : after[i] \in Int
  <2> DEFINE G == {i \in 0 .. n : after[i] \in Int}
  <2> HIDE DEF after, n
  <2>1. 0 \in G
    BY <1>1, <1>10
  <2>2. ASSUME NEW i \in 1 .. n, i - 1 \in G
        PROVE  i \in G
    <3>1. after[i - 1] \in Int /\ i \in 0 .. n
      BY <1>1, <2>2
    <3>2. after[i] \in Int
      BY <1>2, <1>10, <3>1
    <3> QED
      BY <3>1, <3>2
  <2> HIDE DEF G
  <2>3. \A i \in 0 .. n : i \in G
    BY <1>1, <2>1, <2>2, Upwards
  <2> QED
    BY <2>3 DEF G
<1> QED
  BY <1>10, <1>11 DEF Sent

(* Whatever the readings: after each of them the tracked value is as close *)
(* to it as any delta could have brought it, those that no delta reaches   *)
(* included.                                                               *)
THEOREM DeltasAreNearest ==
  ASSUME NEW readings \in Seq(Int), NEW scale \in Nat \ {0}
  PROVE  DeltasNearest(readings, scale)
<1> DEFINE after == Tracked(readings, scale)
<1>1. \A i \in DOMAIN readings : i \in 1 .. Len(readings) /\ i - 1 \in 0 .. Len(readings)
                                   /\ readings[i] \in Int
  BY LenProperties
<1>2. /\ \A i \in 0 .. Len(readings) : after[i] \in Int
      /\ \A i \in 1 .. Len(readings) :
           after[i] = apply_delta(after[i - 1],
                                  get_delta(after[i - 1], readings[i], scale), scale)
  BY TrackedIs
<1> HIDE DEF after
<1>3. ASSUME NEW i \in DOMAIN readings, NEW delta \in min_value .. max_value
      PROVE  Distance(after[i], readings[i])
               <= Distance(apply_delta(after[i - 1], delta, scale), readings[i])
  <2>1. after[i - 1] \in Int /\ readings[i] \in Int
    BY <1>1, <1>2
  <2> QED
    BY <1>1, <1>2, <2>1, DeltaIsNearest
<1> QED
  BY <1>3 DEF DeltasNearest, after

-----------------------------------------------------------------------------
(* quantized_float.                                                        *)

(* What is read back is off by half a step at the most, and by nothing at  *)
(* the ends of the range and beyond them.                                  *)
THEOREM QuantizedIsNearest ==
  ASSUME NEW q, q.min \in Int, q.max \in Int, q.min < q.max, q.bits \in 0 .. digits,
         NEW value \in Int
  PROVE  QuantizedNearest(q, value)
<1> DEFINE M == low_bits_mask(q.bits)
           d == q.max - q.min
           x == Clamp(value, q.min, q.max) - q.min
           n == x * M
           r == Rounded(n, d)
           R == d * r
           D == d * M
<1>1. M \in Nat /\ M < Width /\ Width \in Nat \ {0}
  BY MaskIs
<1>2. d \in Nat \ {0}
  OBVIOUS
<1>3. x \in 0 .. d /\ (value <= q.min => x = 0) /\ (value >= q.max => x = d)
  BY DEF Clamp
<1>4. n \in Nat /\ D \in Nat /\ n <= D /\ (x = 0 => n = 0) /\ (x = d => n = D)
  <2> HIDE DEF x, d, M
  <2>1. n \in Int /\ D \in Int /\ x \in Nat /\ (x = 0 => n = 0) /\ (x = d => n = D)
    BY <1>1, <1>2, <1>3
  <2>2. M = 0 => n = 0 /\ D = 0
    BY <1>2, <1>3
  <2>3. M * x = n /\ M * d = D
    BY <1>1, <1>2, <1>3
  <2>4. M # 0 /\ x < d => n + M <= D
    <3> HIDE DEF n, D
    <3> QED
      BY <1>1, <1>2, <2>1, <2>3, ProductOrder
  <2>5. M # 0 /\ 0 < x => M * 0 + M <= n
    <3> HIDE DEF n, D
    <3> QED
      BY <1>1, <2>1, <2>3, ProductOrder
  <2> HIDE DEF n, D
  <2>6. x = 0 \/ 0 < x
    BY <2>1
  <2>7. x = d \/ x < d
    BY <1>2, <1>3
  <2> QED
    BY <1>1, <2>1, <2>2, <2>4, <2>5, <2>6, <2>7
<1>5. r \in Nat /\ R \in Int /\ 2 * R <= 2 * n + d /\ 2 * n < 2 * R + d
  <2> HIDE DEF n, d
  <2> QED
    BY <1>2, <1>4, RoundedIs
<1>6. r <= M /\ (n = 0 => r = 0) /\ (n = D => r = M)
  <2> HIDE DEF n, d, r, M
  <2>1. M < r => D + d <= R
    BY <1>1, <1>2, <1>5, ProductOrder
  <2>2. r < M => R + d <= D
    BY <1>1, <1>2, <1>5, ProductOrder
  <2>3. 0 < r => d * 0 + d <= R
    BY <1>2, <1>5, ProductOrder
  <2>4. d * 0 = 0
    BY <1>2
  <2> HIDE DEF R, D
  <2>5. ~(M < r)
    BY <1>2, <1>4, <1>5, <2>1
  <2>6. n = D => ~(r < M)
    BY <1>2, <1>4, <1>5, <2>2
  <2>7. n = 0 => ~(0 < r)
    BY <1>2, <1>4, <1>5, <2>3, <2>4
  <2> QED
    BY <1>1, <1>5, <2>5, <2>6, <2>7
<1>7. r % Width = r
  <2>1. r \in 0 .. Width - 1
    <3> HIDE DEF r, M
    <3> QED
      BY <1>1, <1>5, <1>6
  <2> HIDE DEF r
  <2> QED
    BY <1>1, <2>1, Wraps
<1>8. quantized_set(q, value) = r
  <2>1. quantized_set(q, value) = IF r % Width < M THEN r % Width ELSE M
    BY DEF quantized_set
  <2> HIDE DEF r, M
  <2> QED
    BY <1>1, <1>5, <1>6, <1>7, <2>1
<1>9. quantized_get(q, r) = R
  <2>1. quantized_get(q, r) = r * d
    BY DEF quantized_get
  <2> HIDE DEF r, d
  <2> QED
    BY <1>2, <1>5, <2>1
<1>10. n = 0 => R = 0
  <2> HIDE DEF r, d, n
  <2> QED
    BY <1>2, <1>6
<1>11. n = D => R = D
  <2> HIDE DEF r, d, n, M
  <2> QED
    BY <1>6
<1>12. 2 * Distance(R, n) <= d
  <2> HIDE DEF R, n, d
  <2> QED
    BY <1>2, <1>4, <1>5 DEF Distance
<1>13. value <= q.min \/ value >= q.max => R = n
  <2> HIDE DEF R, n, d, x, D
  <2> QED
    BY <1>3, <1>4, <1>10, <1>11
<1>14. QuantizedNearest(q, value) <=> /\ 2 * Distance(R, n) <= d
                                      /\ value <= q.min \/ value >= q.max => R = n
  <2> HIDE DEF R, r
  <2> QED
    BY <1>8, <1>9 DEF QuantizedNearest
<1> QED
  BY <1>12, <1>13, <1>14

(* Whatever vector the column becomes.                                     *)
THEOREM EncodingsStayNearest == ComputeSpec => []EncodingsNearest
<1>1. ASSUME IInv
      PROVE  EncodingsNearest
  <2>1. Elements \in Seq(Values)
    BY <1>1, ElementsAre DEF IInv
  <2>2. \A i \in DOMAIN Elements : Elements[i] \in Int
    BY <2>1, CountingAssumption, LenProperties, FS_CardinalityType
  <2>3. DOMAIN Elements = 1 .. Len(Elements) /\ Len(Elements) \in Nat
    BY <2>1, LenProperties
  <2> HIDE DEF Elements
  <2>4. ASSUME NEW scale \in 1 .. 3, NEW spread \in {1, 5, 13}
        PROVE  DeltasNearest([i \in DOMAIN Elements |-> spread * (Elements[i] - 1)], scale)
    <3> DEFINE f == [i \in DOMAIN Elements |-> spread * (Elements[i] - 1)]
    <3>1. f \in [1 .. Len(Elements) -> Int]
      BY <2>2, <2>3
    <3> HIDE DEF f
    <3>2. f \in Seq(Int)
      BY <2>3, <3>1, FunctionIsVector
    <3>3. DeltasNearest(f, scale)
      BY <3>2, DeltasAreNearest
    <3> QED
      BY <3>3 DEF f
  <2>5. ASSUME NEW q \in [min : {-3, 0}, max : {1, 7}, bits : 1 .. digits],
               NEW i \in DOMAIN Elements, NEW shift \in {-5, -2, 0, 1, 4, 6}
        PROVE  QuantizedNearest(q, Elements[i] + shift)
    <3>1. q.min \in Int /\ q.max \in Int /\ q.min < q.max /\ q.bits \in 0 .. digits
      BY DigitsAssumption
    <3>2. Elements[i] + shift \in Int
      BY <2>2
    <3> QED
      BY <3>1, <3>2, QuantizedIsNearest
  <2> QED
    BY <2>4, <2>5 DEF EncodingsNearest
<1> QED
  BY <1>1, Invariance, PTL

-----------------------------------------------------------------------------
(* Sums and windows.                                                       *)

(* The sums of the first elements of a vector.                             *)
Sums(seq) ==
  CHOOSE sum : sum = [i \in 0 .. Len(seq) |-> IF i = 0 THEN 0 ELSE sum[i - 1] + seq[i]]

(* They are there, one by one.                                             *)
LEMMA SumsAre ==
  ASSUME NEW seq \in Seq(Int)
  PROVE  /\ SumOf(seq) = Sums(seq)[Len(seq)]
         /\ Sums(seq)[0] = 0
         /\ \A i \in 1 .. Len(seq) : Sums(seq)[i] = Sums(seq)[i - 1] + seq[i]
         /\ \A i \in 0 .. Len(seq) : Sums(seq)[i] \in Int
<1> DEFINE n == Len(seq)
           Rec(f) == f = [i \in 0 .. n |-> IF i = 0 THEN 0 ELSE f[i - 1] + seq[i]]
           F == [i \in 1 .. n |-> [x \in Int |-> x + seq[i]]]
           after == Sums(seq)
<1>1. n \in Nat /\ \A i \in 1 .. n : seq[i] \in Int
  BY LenProperties
<1>2. \A i \in 0 .. n : i = 0 \/ (i \in 1 .. n /\ i - 1 \in 0 .. n /\ i # 0)
  BY <1>1
<1>3. PICK f \in [0 .. n -> Int] : f[0] = 0 /\ \A i \in 1 .. n : f[i] = F[i][f[i - 1]]
  <2>1. F \in [1 .. n -> [Int -> Int]] /\ 0 \in Int
    BY <1>1
  <2> HIDE DEF F, n
  <2>2. Results(n, Int, 0, F) # {}
    BY <1>1, <2>1, RecursionHasResult
  <2> QED
    BY <2>2 DEF Results
<1>4. ASSUME NEW i \in 1 .. n
      PROVE  f[i] = f[i - 1] + seq[i]
  <2>1. f[i - 1] \in Int
    <3>1. i - 1 \in 0 .. n
      BY <1>1
    <3> HIDE DEF n, F
    <3> QED
      BY <1>3, <3>1
  <2> HIDE DEF n
  <2> QED
    BY <1>3, <2>1
<1>5. Rec(f)
  <2> DEFINE Step(i) == IF i = 0 THEN 0 ELSE f[i - 1] + seq[i]
  <2> HIDE DEF F, n
  <2>1. ASSUME NEW i \in 0 .. n
        PROVE  f[i] = Step(i)
    <3>1. CASE i = 0
      BY <1>3, <3>1
    <3>2. CASE i # 0
      <4>1. i \in 1 .. n
        BY <1>2, <3>2
      <4>2. f[i] = f[i - 1] + seq[i]
        BY <1>4, <4>1
      <4> QED
        BY <3>2, <4>2
    <3> QED
      BY <3>1, <3>2
  <2> HIDE DEF Step
  <2>2. f = [i \in 0 .. n |-> Step(i)]
    BY <1>3, <2>1
  <2> QED
    BY <2>2 DEF Step
<1>6. Rec(CHOOSE g : Rec(g))
  <2>1. \E g : Rec(g)
    <3> HIDE DEF Rec
    <3> QED
      BY <1>5
  <2> HIDE DEF Rec
  <2> QED
    BY <2>1
<1>7. after = CHOOSE g : Rec(g)
  BY DEF Sums
<1>8. Rec(after)
  <2> HIDE DEF Rec, after
  <2> QED
    BY <1>6, <1>7
<1>9. SumOf(seq) = after[n]
  BY DEF SumOf, Sums
<1> HIDE DEF after
<1>10. after[0] = 0 /\ \A i \in 1 .. n : after[i] = after[i - 1] + seq[i]
  <2> HIDE DEF n
  <2>1. \A i \in 0 .. n : after[i] = IF i = 0 THEN 0 ELSE after[i - 1] + seq[i]
    BY <1>8
  <2>2. 0 \in 0 .. n /\ \A i \in 1 .. n : i \in 0 .. n /\ i # 0
    BY <1>1
  <2> QED
    BY <2>1, <2>2
<1>11. \A i \in 0 .. n : after[i] \in Int
  <2> DEFINE G == {i \in 0 .. n : after[i] \in Int}
  <2> HIDE DEF n
  <2>1. 0 \in G
    BY <1>1, <1>10
  <2>2. ASSUME NEW i \in 1 .. n, i - 1 \in G
        PROVE  i \in G
    <3>1. after[i - 1] \in Int /\ i \in 0 .. n
      BY <1>1, <2>2
    <3>2. after[i] = after[i - 1] + seq[i] /\ seq[i] \in Int
      BY <1>1, <1>10
    <3>3. after[i] \in Int
      BY <3>1, <3>2
    <3> QED
      BY <3>1, <3>3
  <2> HIDE DEF G
  <2>3. \A i \in 0 .. n : i \in G
    BY <1>1, <2>1, <2>2, Upwards
  <2> QED
    BY <2>3 DEF G
<1> QED
  BY <1>9, <1>10, <1>11 DEF after

(* What a part of a vector comes to.                                       *)
LEMMA SumOfPart ==
  ASSUME NEW seq \in Seq(Int), NEW b \in 0 .. Len(seq), NEW a \in 0 .. b
  PROVE  /\ Len(SubSeq(seq, a + 1, b)) = b - a
         /\ SumOf(SubSeq(seq, a + 1, b)) = Sums(seq)[b] - Sums(seq)[a]
<1> DEFINE s == SubSeq(seq, a + 1, b)
           n == b - a
           Q == Sums(seq)
           P == Sums(s)
<1>1. Len(seq) \in Nat /\ n \in Nat /\ \A i \in 1 .. Len(seq) : seq[i] \in Int
  BY LenProperties
<1>2. s \in Seq(Int) /\ Len(s) = n /\ \A j \in 1 .. n : s[j] = seq[a + j]
  <2>1. a + 1 \in 1 .. Len(seq) + 1 /\ b \in a .. Len(seq)
    BY <1>1
  <2>2. s = [j \in 1 .. n |-> seq[a + j]]
    <3>1. b - (a + 1) + 1 = n
      BY <1>1
    <3>2. \A j \in 1 .. n : (a + 1) + j - 1 = a + j
      BY <1>1
    <3> QED
      BY <3>1, <3>2 DEF SubSeq
  <2>3. \A j \in 1 .. n : a + j \in 1 .. Len(seq)
    BY <1>1
  <2>4. s \in [1 .. n -> Int]
    BY <1>1, <2>2, <2>3
  <2> HIDE DEF s, n
  <2>5. s \in Seq(Int) /\ Len(s) = n
    BY <1>1, <2>4, FunctionIsVector
  <2> QED
    BY <2>2, <2>5
<1>3. /\ SumOf(s) = P[n] /\ P[0] = 0
      /\ \A j \in 1 .. n : P[j] = P[j - 1] + s[j]
      /\ \A j \in 0 .. n : P[j] \in Int
  <2> HIDE DEF s, n
  <2> QED
    BY <1>2, SumsAre
<1>4. /\ \A i \in 1 .. Len(seq) : Q[i] = Q[i - 1] + seq[i]
      /\ \A i \in 0 .. Len(seq) : Q[i] \in Int
  BY SumsAre
<1> DEFINE G == {j \in 0 .. n : P[j] = Q[a + j] - Q[a]}
<1> HIDE DEF s, P, Q
<1>5. 0 \in G
  <2>1. a \in 0 .. Len(seq) /\ a + 0 = a /\ 0 \in 0 .. n
    BY <1>1
  <2> QED
    BY <1>3, <1>4, <2>1
<1>6. ASSUME NEW j \in 1 .. n, j - 1 \in G
      PROVE  j \in G
  <2>1. /\ j \in 0 .. n /\ a + j \in 1 .. Len(seq) /\ a + (j - 1) = a + j - 1
        /\ a \in 0 .. Len(seq) /\ a + j - 1 \in 0 .. Len(seq)
    BY <1>1
  <2>2. P[j - 1] = Q[a + j - 1] - Q[a]
    BY <1>6, <2>1
  <2>3. P[j] = P[j - 1] + seq[a + j] /\ Q[a + j] = Q[a + j - 1] + seq[a + j]
    BY <1>2, <1>3, <1>4, <2>1
  <2>4. P[j] = Q[a + j] - Q[a]
    <3>1. seq[a + j] \in Int /\ Q[a + j - 1] \in Int /\ Q[a] \in Int
      BY <1>1, <1>4, <2>1
    <3> QED
      BY <2>2, <2>3, <3>1
  <2> QED
    BY <2>1, <2>4
<1>7. \A j \in 0 .. n : j \in G
  <2> HIDE DEF G
  <2> QED
    BY <1>1, <1>5, <1>6, Upwards
<1>8. P[n] = Q[b] - Q[a]
  <2>1. n \in 0 .. n /\ a + n = b
    BY <1>1
  <2> QED
    BY <1>7, <2>1
<1> QED
  BY <1>2, <1>3, <1>8 DEF s, Q

(* The running total, value by value.                                      *)
LEMMA RunningIs ==
  ASSUME NEW input \in Seq(Int), NEW window \in Nat
  PROVE  LET running == RunningTotal(input, window)
             size    == Effective(window)
         IN  /\ running[0] = 0
             /\ \A i \in 1 .. Len(input) :
                  running[i] = running[i - 1] + input[i]
                               - (IF i - 1 >= size THEN input[i - size] ELSE 0)
<1> DEFINE n == Len(input)
           size == Effective(window)
           Left(i) == IF i - 1 >= size THEN input[i - size] ELSE 0
           Rec(f) == f = [i \in 0 .. n |-> IF i = 0 THEN 0 ELSE f[i - 1] + input[i] - Left(i)]
           F == [i \in 1 .. n |-> [x \in Int |-> x + input[i] - Left(i)]]
           after == RunningTotal(input, window)
<1>1. n \in Nat /\ size \in Nat \ {0} /\ \A i \in 1 .. n : input[i] \in Int
  BY LenProperties DEF Effective
<1>2. \A i \in 0 .. n : i = 0 \/ (i \in 1 .. n /\ i - 1 \in 0 .. n /\ i # 0)
  BY <1>1
<1>3. ASSUME NEW i \in 1 .. n
      PROVE  Left(i) \in Int
  <2>1. i - 1 >= size => i - size \in 1 .. n
    BY <1>1
  <2> QED
    BY <1>1, <2>1
<1> HIDE DEF Left
<1>4. PICK f \in [0 .. n -> Int] : f[0] = 0 /\ \A i \in 1 .. n : f[i] = F[i][f[i - 1]]
  <2>1. F \in [1 .. n -> [Int -> Int]] /\ 0 \in Int
    BY <1>1, <1>3
  <2> HIDE DEF F, n
  <2>2. Results(n, Int, 0, F) # {}
    BY <1>1, <2>1, RecursionHasResult
  <2> QED
    BY <2>2 DEF Results
<1>5. ASSUME NEW i \in 1 .. n
      PROVE  f[i] = f[i - 1] + input[i] - Left(i)
  <2>1. f[i - 1] \in Int
    <3>1. i - 1 \in 0 .. n
      BY <1>1
    <3> HIDE DEF n, F
    <3> QED
      BY <1>4, <3>1
  <2> HIDE DEF n
  <2> QED
    BY <1>4, <2>1
<1>6. Rec(f)
  <2> DEFINE Step(i) == IF i = 0 THEN 0 ELSE f[i - 1] + input[i] - Left(i)
  <2> HIDE DEF F, n
  <2>1. \A i \in 0 .. n : f[i] = Step(i)
    BY <1>2, <1>4, <1>5
  <2> HIDE DEF Step
  <2>2. f = [i \in 0 .. n |-> Step(i)]
    BY <1>4, <2>1
  <2> QED
    BY <2>2 DEF Step
<1>7. Rec(CHOOSE g : Rec(g))
  <2>1. \E g : Rec(g)
    <3> HIDE DEF Rec
    <3> QED
      BY <1>6
  <2> HIDE DEF Rec
  <2> QED
    BY <2>1
<1>8. after = CHOOSE g : Rec(g)
  BY DEF RunningTotal, Left
<1>9. Rec(after)
  <2> HIDE DEF Rec, after
  <2> QED
    BY <1>7, <1>8
<1> HIDE DEF after
<1>10. after[0] = 0 /\ \A i \in 1 .. n : after[i] = after[i - 1] + input[i] - Left(i)
  <2> HIDE DEF n
  <2>1. \A i \in 0 .. n : after[i] = IF i = 0 THEN 0 ELSE after[i - 1] + input[i] - Left(i)
    BY <1>9
  <2>2. 0 \in 0 .. n /\ \A i \in 1 .. n : i \in 0 .. n /\ i # 0
    BY <1>1
  <2> QED
    BY <2>1, <2>2
<1> QED
  BY <1>10 DEF Left, after

(* Where the window that ends at i starts, less one.                       *)
Start(window, i) == IF i > Effective(window) THEN i - Effective(window) ELSE 0

(* The running total is what the window comes to.                          *)
LEMMA RunningIsSum ==
  ASSUME NEW input \in Seq(Int), NEW window \in Nat, NEW i \in 1 .. Len(input)
  PROVE  RunningTotal(input, window)[i] = Sums(input)[i] - Sums(input)[Start(window, i)]
<1> DEFINE n == Len(input)
           size == Effective(window)
           running == RunningTotal(input, window)
           P == Sums(input)
           S(j) == Start(window, j)
           G == {j \in 0 .. n : running[j] = P[j] - P[S(j)]}
<1>1. n \in Nat /\ size \in Nat \ {0} /\ \A j \in 1 .. n : input[j] \in Int
  BY LenProperties DEF Effective
<1>2. /\ running[0] = 0
      /\ \A j \in 1 .. n :
           running[j] = running[j - 1] + input[j]
                        - (IF j - 1 >= size THEN input[j - size] ELSE 0)
  BY RunningIs
<1>3. /\ \A j \in 1 .. n : P[j] = P[j - 1] + input[j]
      /\ \A j \in 0 .. n : P[j] \in Int
  BY SumsAre
<1> HIDE DEF running, P, n
<1>4. 0 \in G
  <2>1. S(0) = 0 /\ 0 \in 0 .. n
    BY <1>1 DEF Start
  <2> QED
    BY <1>2, <1>3, <2>1
<1>5. ASSUME NEW j \in 1 .. n, j - 1 \in G
      PROVE  j \in G
  <2>1. j \in 0 .. n /\ j - 1 \in 0 .. n
    BY <1>1
  <2>2. /\ running[j - 1] = P[j - 1] - P[S(j - 1)] /\ P[j] = P[j - 1] + input[j]
        /\ P[j - 1] \in Int /\ input[j] \in Int
    BY <1>1, <1>3, <1>5, <2>1
  <2>3. CASE j - 1 >= size
    <3> DEFINE k == j - size
    <3>1. S(j) = k /\ S(j - 1) = k - 1 /\ k \in 1 .. n /\ k - 1 \in 0 .. n
      BY <1>1, <2>3 DEF Start
    <3>2. running[j] = running[j - 1] + input[j] - input[k]
      BY <1>2, <2>3
    <3> HIDE DEF k, S
    <3>3. P[k] = P[k - 1] + input[k] /\ P[k - 1] \in Int /\ input[k] \in Int
      BY <1>1, <1>3, <3>1
    <3>4. running[j] = P[j] - P[S(j)]
      BY <2>2, <3>1, <3>2, <3>3
    <3> QED
      BY <2>1, <3>4
  <2>4. CASE ~(j - 1 >= size)
    <3>1. S(j) = 0 /\ S(j - 1) = 0 /\ 0 \in 0 .. n
      BY <1>1, <2>4 DEF Start
    <3>2. running[j] = running[j - 1] + input[j] - 0
      BY <1>2, <2>4
    <3> HIDE DEF S
    <3>3. P[0] \in Int
      BY <1>3, <3>1
    <3>4. running[j] = P[j] - P[S(j)]
      BY <2>2, <3>1, <3>2, <3>3
    <3> QED
      BY <2>1, <3>4
  <2> QED
    BY <2>3, <2>4
<1>6. \A j \in 0 .. n : j \in G
  <2> HIDE DEF G
  <2> QED
    BY <1>1, <1>4, <1>5, Upwards
<1>7. i \in 0 .. n
  BY <1>1 DEF n
<1> QED
  BY <1>6, <1>7 DEF running, P

(* The differences add up to the way from the first value to each.         *)
LEMMA DeltasAddUp ==
  ASSUME NEW input \in Seq(0 .. Modulus - 1), NEW i \in 1 .. Len(input)
  PROVE  (input[1] + SumOf(SubSeq(deltas(input), 1, i))) % Modulus = input[i]
<1> DEFINE n == Len(input)
           D == deltas(input)
           P == Sums(D)
           Way(j, q) == input[1] + P[j] = Modulus * q + input[j]
           G == {j \in 0 .. n : j = 0 \/ \E q \in Int : Way(j, q)}
<1>0. Modulus \in Nat \ {0}
  BY ModulusAssumption
<1>1. /\ n \in Nat /\ DOMAIN input = 1 .. n /\ 1 \in 1 .. n
      /\ \A j \in 1 .. n : input[j] \in 0 .. Modulus - 1 /\ input[j] \in Int
  BY <1>0, LenProperties
<1>2. D = [j \in 1 .. n |-> IF j = 1 THEN 0 ELSE (input[j] - input[j - 1]) % Modulus]
  BY <1>1 DEF deltas
<1>3. D \in Seq(Int) /\ Len(D) = n
  <2>1. ASSUME NEW j \in 1 .. n
        PROVE  (IF j = 1 THEN 0 ELSE (input[j] - input[j - 1]) % Modulus) \in Int
    <3>1. j = 1 \/ j - 1 \in 1 .. n
      BY <1>1
    <3> QED
      BY <1>0, <1>1, <3>1
  <2>2. D \in [1 .. n -> Int]
    BY <1>2, <2>1
  <2> HIDE DEF D, n
  <2> QED
    BY <1>1, <2>2, FunctionIsVector
<1>4. D[1] = 0 /\ \A j \in 1 .. n : j # 1 => D[j] = (input[j] - input[j - 1]) % Modulus
  BY <1>1, <1>2
<1> HIDE DEF D, n
<1>5. /\ P[0] = 0 /\ \A j \in 1 .. n : P[j] = P[j - 1] + D[j]
      /\ \A j \in 0 .. n : P[j] \in Int
  BY <1>3, SumsAre
<1>6. SumOf(SubSeq(D, 1, i)) = P[i]
  <2>1. i \in 0 .. Len(D) /\ 0 \in 0 .. i
    BY <1>1, <1>3 DEF n
  <2>2. SumOf(SubSeq(D, 0 + 1, i)) = Sums(D)[i] - Sums(D)[0]
    BY <1>3, <2>1, SumOfPart
  <2>3. P[i] \in Int
    BY <1>3, <1>5, <2>1
  <2> HIDE DEF P
  <2> QED
    BY <1>5, <2>2, <2>3 DEF P
<1> HIDE DEF P
<1>7. ASSUME NEW j \in 1 .. n, j - 1 \in G
      PROVE  j \in G
  <2>1. j \in 0 .. n /\ j - 1 \in 0 .. n
    BY <1>1
  <2>2. CASE j = 1
    <3>1. P[1] = 0
      BY <1>1, <1>4, <1>5
    <3>2. Way(1, 0)
      BY <1>0, <1>1, <3>1
    <3> HIDE DEF Way
    <3> QED
      BY <2>1, <2>2, <3>2
  <2>3. CASE j # 1
    <3> DEFINE a == input[j - 1]
               b == input[j]
               k == (b - a) \div Modulus
               d == (b - a) % Modulus
    <3>1. j - 1 # 0 /\ a \in Int /\ b \in Int
      BY <1>1, <2>3
    <3>2. PICK q \in Int : Way(j - 1, q)
      <4> HIDE DEF Way
      <4> QED
        BY <1>7, <3>1
    <3>3. D[j] = d /\ P[j] = P[j - 1] + D[j] /\ P[j - 1] \in Int /\ input[1] \in Int
      BY <1>1, <1>4, <1>5, <2>1, <2>3
    <3>4. k \in Int /\ d \in Int /\ b - a = Modulus * k + d
      <4> HIDE DEF a, b
      <4> QED
        BY <1>0, <3>1
    <3>5. Modulus * (q - k) = Modulus * q - Modulus * k
          /\ Modulus * q \in Int /\ Modulus * k \in Int /\ q - k \in Int
      <4> HIDE DEF k
      <4> QED
        BY <1>0, <3>2, <3>4
    <3>6. input[1] + P[j - 1] = Modulus * q + a
      BY <3>2
    <3> HIDE DEF a, b, k, d
    <3>7. input[1] + P[j] = Modulus * (q - k) + b
      <4> DEFINE x == Modulus * q
                 y == Modulus * k
                 z == Modulus * (q - k)
      <4>1. z = x - y /\ x \in Int /\ y \in Int /\ b - a = y + d
            /\ input[1] + P[j - 1] = x + a
        BY <3>4, <3>5, <3>6
      <4> HIDE DEF x, y, z
      <4>2. input[1] + P[j] = z + b
        BY <3>1, <3>3, <3>4, <4>1
      <4> QED
        BY <4>2 DEF z
    <3>8. Way(j, q - k)
      BY <3>7 DEF b
    <3> HIDE DEF Way
    <3> QED
      BY <2>1, <3>5, <3>8
  <2> QED
    BY <2>2, <2>3
<1>8. 0 \in G
  BY <1>1
<1>9. i \in G
  <2>1. i \in 0 .. n
    BY <1>1 DEF n
  <2> HIDE DEF G
  <2> QED
    BY <1>1, <1>7, <1>8, <2>1, Upwards
<1>10. PICK q \in Int : Way(i, q)
  <2>1. i # 0
    BY <1>1
  <2> HIDE DEF Way
  <2> QED
    BY <1>9, <2>1
<1>11. (Modulus * q + input[i]) % Modulus = input[i]
  BY <1>0, <1>1, Wraps DEF n
<1> QED
  BY <1>6, <1>10, <1>11 DEF D

(* Rolling sums and means are those of the window, wrap-around included,   *)
(* however long the window; the mean of fewer values at the start divides  *)
(* by fewer; and the differences lead back to the values.                  *)
THEOREM WindowsAreExact ==
  ASSUME NEW input \in Seq(0 .. Modulus - 1), NEW window \in Nat
  PROVE  WindowExact(input, window)
<1>0. Modulus \in Nat \ {0} /\ Effective(window) \in Nat \ {0}
  BY ModulusAssumption DEF Effective
<1>1. input \in Seq(Int) /\ DOMAIN input = 1 .. Len(input) /\ Len(input) \in Nat
  <2>1. \A j \in 1 .. Len(input) : input[j] \in Int
    BY <1>0, LenProperties
  <2> QED
    BY <2>1, LenProperties
<1>2. ASSUME NEW i \in DOMAIN input
      PROVE  LET values == Window(input, window, i)
             IN  /\ rolling_sum(input, window)[i] = SumOf(values) % Modulus
                 /\ rolling_mean(input, window)[i] = <<SumOf(values), Len(values)>>
                 /\ (input[1] + SumOf(SubSeq(deltas(input), 1, i))) % Modulus = input[i]
  <2> DEFINE size == Effective(window)
             a == Start(window, i)
             values == Window(input, window, i)
             total == RunningTotal(input, window)[i]
  <2>1. /\ i \in 1 .. Len(input) /\ i \in 0 .. Len(input) /\ a \in 0 .. i
        /\ a + 1 = IF i > size THEN i - size + 1 ELSE 1
        /\ i - a = IF i < size THEN i ELSE size
    BY <1>0, <1>1 DEF Start
  <2>2. values = SubSeq(input, a + 1, i)
    BY <2>1 DEF Window
  <2> HIDE DEF a, values
  <2>3. Len(values) = i - a /\ SumOf(values) = Sums(input)[i] - Sums(input)[a]
    BY <1>1, <2>1, <2>2, SumOfPart
  <2>4. SumOf(values) = total
    BY <1>1, <2>1, <2>3, RunningIsSum DEF a
  <2>5. rolling_sum(input, window)[i] = total % Modulus
    BY DEF rolling_sum
  <2>6. rolling_mean(input, window)[i] = <<total, IF i < size THEN i ELSE size>>
    BY DEF rolling_mean
  <2>7. (input[1] + SumOf(SubSeq(deltas(input), 1, i))) % Modulus = input[i]
    BY <2>1, DeltasAddUp
  <2> HIDE DEF total, size
  <2> QED
    BY <2>1, <2>3, <2>4, <2>5, <2>6, <2>7 DEF values
<1> QED
  BY <1>2 DEF WindowExact

(* Whatever vector the column becomes.                                     *)
THEOREM WindowsStayExact == ComputeSpec => []WindowsExact
<1>1. ASSUME IInv
      PROVE  WindowsExact
  <2>1. Elements \in Seq(Values)
    BY <1>1, ElementsAre DEF IInv
  <2>2. Elements \in Seq(0 .. Modulus - 1)
    <3>1. \A i \in 1 .. Len(Elements) : Elements[i] \in 0 .. Modulus - 1
      BY <2>1, ElementsAssumption, LenProperties
    <3>2. Elements \in [1 .. Len(Elements) -> 0 .. Modulus - 1] /\ Len(Elements) \in Nat
      BY <2>1, <3>1, LenProperties
    <3> HIDE DEF Elements
    <3> QED
      BY <3>2, FunctionIsVector
  <2>3. \A window \in 0 .. MaxSize + 1 : window \in Nat
    OBVIOUS
  <2> HIDE DEF Elements
  <2> QED
    BY <2>2, <2>3, WindowsAreExact DEF WindowsExact
<1> QED
  BY <1>1, Invariance, PTL

-----------------------------------------------------------------------------
(* Words by their bits.                                                    *)

(* What a division leaves names its quotient.                              *)
LEMMA QuotientIs ==
  ASSUME NEW x \in Int, NEW p \in Nat \ {0}, NEW h \in Int, x - p * h \in 0 .. p - 1
  PROVE  x \div p = h /\ x % p = x - p * h
<1> DEFINE q == x \div p
           r == x % p
<1>1. q \in Int /\ r \in 0 .. p - 1 /\ x = p * q + r
  OBVIOUS
<1> HIDE DEF q, r
<1>2. p * (q - h) = p * q - p * h
  BY <1>1
<1>3. p * (q - h) < p /\ p * (q - h) > -p
  BY <1>1, <1>2
<1>4. q - h < 1 /\ q - h > -1
  BY <1>1, <1>3
<1>5. q = h
  BY <1>1, <1>4
<1> QED
  BY <1>1, <1>5 DEF q, r

(* Dividing by two again and again is dividing by the powers of two.       *)
LEMMA Halves ==
  ASSUME NEW x \in Int, NEW n \in 0 .. digits, NEW h, h[0] = x,
         \A i \in 0 .. n : h[i] \in Int,
         \A i \in 1 .. n : h[i - 1] - 2 * h[i] \in {0, 1}
  PROVE  \A i \in 0 .. n : x \div PowerOfTwo[i] = h[i]
<1> DEFINE Rest(i) == x - PowerOfTwo[i] * h[i]
           G == {i \in 0 .. n : Rest(i) \in 0 .. PowerOfTwo[i] - 1}
<1>1. n \in Nat /\ digits \in Nat /\ \A i \in 0 .. n : i \in 0 .. digits
  BY DigitsAssumption
<1>2. 0 \in G
  BY <1>1, PowersAre
<1>3. ASSUME NEW i \in 1 .. n, i - 1 \in G
      PROVE  i \in G
  <2> DEFINE p == PowerOfTwo[i - 1]
             a == h[i - 1]
             b == h[i]
  <2>1. i \in 0 .. n /\ i - 1 \in 0 .. n /\ i \in 1 .. digits
    BY <1>1
  <2>2. /\ PowerOfTwo[i] = 2 * p /\ p \in Nat \ {0} /\ a \in Int /\ b \in Int
        /\ a - 2 * b = 0 \/ a - 2 * b = 1
        /\ x - p * a \in 0 .. p - 1
    BY <1>1, <1>3, <2>1, PowersAre, PowersGrow
  <2>3. Rest(i) = x - 2 * p * b
    BY <2>2
  <2> HIDE DEF p, a, b, Rest
  <2>4. x - 2 * p * b \in 0 .. 2 * p - 1
    <3>1. CASE a = 2 * b
      BY <2>2, <3>1
    <3>2. CASE a = 2 * b + 1
      <4>1. p * a = 2 * p * b + p
        BY <2>2, <3>2
      <4>2. 2 * p * b \in Int
        BY <2>2
      <4> QED
        BY <2>2, <4>1, <4>2
    <3> QED
      BY <2>2, <3>1, <3>2
  <2> QED
    BY <2>1, <2>2, <2>3, <2>4
<1>4. \A i \in 0 .. n : i \in G
  <2> HIDE DEF G
  <2> QED
    BY <1>1, <1>2, <1>3, Upwards
<1>5. ASSUME NEW i \in 0 .. n
      PROVE  x \div PowerOfTwo[i] = h[i]
  <2> DEFINE p == PowerOfTwo[i]
             b == h[i]
  <2>1. p \in Nat \ {0} /\ b \in Int /\ x - p * b \in 0 .. p - 1
    BY <1>1, <1>4, PowersGrow
  <2> HIDE DEF p, b
  <2>2. x \div p = b
    BY <2>1, QuotientIs
  <2> QED
    BY <2>2 DEF p, b
<1> QED
  BY <1>5

(* The halves of any number.                                               *)
LEMMA HalvesOf ==
  ASSUME NEW x \in Int
  PROVE  /\ x \div PowerOfTwo[0] = x
         /\ \A i \in 0 .. digits : x \div PowerOfTwo[i] \in Int
         /\ \A i \in 1 .. digits :
              /\ x \div PowerOfTwo[i] = (x \div PowerOfTwo[i - 1]) \div 2
              /\ x \div PowerOfTwo[i - 1]
                   = 2 * (x \div PowerOfTwo[i]) + ((x \div PowerOfTwo[i - 1]) % 2)
<1> DEFINE F == [i \in 1 .. digits |-> [y \in Int |-> y \div 2]]
<1>1. digits \in Nat /\ digits \in 0 .. digits /\ 0 \in 0 .. digits
      /\ \A i \in 1 .. digits : i \in 0 .. digits /\ i - 1 \in 0 .. digits
  BY DigitsAssumption
<1>2. PICK h \in [0 .. digits -> Int] :
        h[0] = x /\ \A i \in 1 .. digits : h[i] = F[i][h[i - 1]]
  <2>1. F \in [1 .. digits -> [Int -> Int]]
    OBVIOUS
  <2> HIDE DEF F
  <2>2. Results(digits, Int, x, F) # {}
    BY <1>1, <2>1, RecursionHasResult
  <2> QED
    BY <2>2 DEF Results
<1>3. ASSUME NEW i \in 1 .. digits
      PROVE  /\ h[i] = h[i - 1] \div 2 /\ h[i - 1] = 2 * h[i] + (h[i - 1] % 2)
             /\ h[i - 1] - 2 * h[i] \in {0, 1}
  <2>1. h[i - 1] \in Int /\ h[i] = h[i - 1] \div 2
    BY <1>1, <1>2
  <2> QED
    BY <2>1
<1>4. \A i \in 0 .. digits : h[i] \in Int
  BY <1>2
<1> HIDE DEF F
<1>5. \A i \in 0 .. digits : x \div PowerOfTwo[i] = h[i]
  <2>1. h[0] = x /\ \A i \in 1 .. digits : h[i - 1] - 2 * h[i] \in {0, 1}
    BY <1>2, <1>3
  <2> QED
    BY <1>1, <1>4, <2>1, Halves
<1> QED
  BY <1>1, <1>2, <1>3, <1>4, <1>5

(* The bits of a number, one by one.                                       *)
LEMMA BitIs ==
  ASSUME NEW x, NEW i \in Positions
  PROVE  /\ Shr(x, i) = x \div PowerOfTwo[i]
         /\ i \in SetBits(x) <=> (x \div PowerOfTwo[i]) % 2 = 1
<1>1. i % digits = i
  BY DigitsAssumption DEF Positions
<1> QED
  BY <1>1 DEF SetBits, Shr

(* Numbers h that go from x by halving, n times.                           *)
Halving(x, n, h) ==
  /\ h[0] = x
  /\ \A i \in 0 .. n : h[i] \in Int
  /\ \A i \in 1 .. n : h[i - 1] - 2 * h[i] \in {0, 1}

(* They show its lowest bits.                                              *)
LEMMA BitsAre ==
  ASSUME NEW x \in Int, NEW n \in 0 .. digits, NEW h, Halving(x, n, h)
  PROVE  /\ \A i \in 0 .. n : x \div PowerOfTwo[i] = h[i]
         /\ \A i \in 0 .. n - 1 : /\ i \in Positions
                                  /\ i \in SetBits(x) <=> h[i] - 2 * h[i + 1] = 1
<1>1. \A i \in 0 .. n : x \div PowerOfTwo[i] = h[i] /\ h[i] \in Int
  BY Halves DEF Halving
<1>2. ASSUME NEW i \in 0 .. n - 1
      PROVE  i \in Positions /\ (i \in SetBits(x) <=> h[i] - 2 * h[i + 1] = 1)
  <2>1. i \in Positions /\ i \in 0 .. n /\ i + 1 \in 1 .. n /\ i + 1 \in 0 .. n /\ (i + 1) - 1 = i
    BY DigitsAssumption DEF Positions
  <2>2. i \in SetBits(x) <=> h[i] % 2 = 1
    BY <1>1, <2>1, BitIs
  <2>3. h[i] \in Int /\ h[i + 1] \in Int /\ h[i] - 2 * h[i + 1] \in {0, 1}
    BY <1>1, <2>1 DEF Halving
  <2> QED
    BY <2>1, <2>2, <2>3
<1> QED
  BY <1>1, <1>2

(* A number of few bits has no others.                                     *)
LEMMA NoBitsAbove ==
  ASSUME NEW n \in 0 .. digits, NEW x \in 0 .. PowerOfTwo[n] - 1, NEW i \in n .. digits
  PROVE  x \div PowerOfTwo[i] = 0 /\ (i \in Positions => i \notin SetBits(x))
<1>1. digits \in Nat
  BY DigitsAssumption
<1>2. PowerOfTwo[n] \in Nat \ {0}
  BY PowersGrow
<1> DEFINE G == {k \in 0 .. digits : k < n \/ x < PowerOfTwo[k]}
<1>3. 0 \in G
  BY <1>1, <1>2
<1>4. ASSUME NEW k \in 1 .. digits, k - 1 \in G
      PROVE  k \in G
  <2>1. k \in 0 .. digits /\ PowerOfTwo[k] = 2 * PowerOfTwo[k - 1] /\ k - 1 \in 0 .. digits
    BY <1>1, PowersAre
  <2>2. PowerOfTwo[k - 1] \in Nat
    BY <2>1, PowersGrow
  <2>3. k < n \/ k = n \/ ~(k - 1 < n)
    BY <1>1
  <2> QED
    BY <1>2, <1>4, <2>1, <2>2, <2>3
<1>5. i \in G
  <2>1. i \in 0 .. digits
    BY <1>1
  <2> HIDE DEF G
  <2> QED
    BY <1>1, <1>3, <1>4, <2>1, Upwards
<1>6. x \in Nat /\ x < PowerOfTwo[i] /\ PowerOfTwo[i] \in Nat \ {0}
  BY <1>1, <1>2, <1>5, PowersGrow
<1>7. x \div PowerOfTwo[i] = 0
  <2> DEFINE p == PowerOfTwo[i]
  <2> HIDE DEF p
  <2>1. x \in Nat /\ x < p /\ p \in Nat \ {0}
    BY <1>6 DEF p
  <2> QED
    BY <2>1 DEF p
<1> QED
  BY <1>7, BitIs

(* What a word is.                                                         *)
LEMMA WordFacts ==
  /\ digits \in Nat \ {0, 1} /\ digits \in 0 .. digits
  /\ Width \in Nat \ {0} /\ Width = PowerOfTwo[digits]
  /\ Word \subseteq Nat /\ 0 \in Word /\ IsFiniteSet(Positions)
<1>1. digits \in Nat \ {0, 1} /\ digits \in 0 .. digits
  BY DigitsAssumption
<1>2. Width \in Nat \ {0}
  BY <1>1, PowersGrow DEF Width
<1> QED
  <2>1. digits - 1 \in Int /\ 0 \in Int
    BY <1>1
  <2>2. IsFiniteSet(Positions)
    BY <2>1, FS_Interval DEF Positions
  <2>3. 0 \in Word /\ Word \subseteq Nat
    BY <1>2 DEF Word
  <2> QED
    BY <1>1, <1>2, <2>2, <2>3 DEF Width

(* A word is its bits.                                                     *)
LEMMA SameBits ==
  ASSUME NEW x \in Word, NEW y \in Word, SetBits(x) = SetBits(y)
  PROVE  x = y
<1> DEFINE q(i) == x \div PowerOfTwo[i]
           r(i) == y \div PowerOfTwo[i]
           G == {k \in 0 .. digits : q(digits - k) = r(digits - k)}
<1>1. /\ digits \in Nat /\ digits - 0 = digits /\ digits \in digits .. digits
      /\ x \in 0 .. PowerOfTwo[digits] - 1 /\ y \in 0 .. PowerOfTwo[digits] - 1
  BY WordFacts DEF Word
<1>2. 0 \in G
  BY <1>1, WordFacts, NoBitsAbove
<1>3. ASSUME NEW k \in 1 .. digits, k - 1 \in G
      PROVE  k \in G
  <2> DEFINE i == digits - (k - 1)
  <2>1. i \in 1 .. digits /\ digits - k = i - 1 /\ i - 1 \in Positions /\ k \in 0 .. digits
        /\ i - 1 \in 0 .. digits
    BY <1>1 DEF Positions
  <2>2. q(i) = r(i)
    BY <1>3
  <2> HIDE DEF i
  <2>3. q(i - 1) = 2 * q(i) + (q(i - 1) % 2) /\ q(i - 1) \in Int
    <3>1. x \in Int
      BY <1>1
    <3> QED
      BY <2>1, <3>1, HalvesOf
  <2>5. r(i - 1) = 2 * r(i) + (r(i - 1) % 2) /\ r(i - 1) \in Int
    <3>1. y \in Int
      BY <1>1
    <3> QED
      BY <2>1, <3>1, HalvesOf
  <2>4. q(i - 1) % 2 = 1 <=> r(i - 1) % 2 = 1
    BY <2>1, BitIs
  <2> HIDE DEF q, r
  <2>6. q(i - 1) = r(i - 1)
    BY <2>2, <2>3, <2>4, <2>5
  <2> QED
    BY <2>1, <2>6
<1>4. digits \in G
  <2>1. digits \in 0 .. digits
    BY <1>1
  <2> HIDE DEF G
  <2> QED
    BY <1>1, <1>2, <1>3, <2>1, Upwards
<1>5. q(0) = r(0)
  BY <1>1, <1>4
<1> QED
  BY <1>1, <1>5, HalvesOf

(* Any bits make a word.                                                   *)
LEMMA BitsMakeWord ==
  ASSUME NEW S \in SUBSET Positions
  PROVE  \E x \in Word : SetBits(x) = S
<1> DEFINE Bit(i) == IF i \in S THEN 1 ELSE 0
           F == [k \in 1 .. digits |-> [y \in Nat |-> 2 * y + Bit(digits - k)]]
<1>1. digits \in Nat /\ digits \in 0 .. digits /\ 0 \in 0 .. digits
      /\ \A i \in 1 .. digits : i \in 0 .. digits /\ i - 1 \in 0 .. digits
  BY WordFacts
<1>2. PICK w \in [0 .. digits -> Nat] :
        w[0] = 0 /\ \A k \in 1 .. digits : w[k] = F[k][w[k - 1]]
  <2>1. F \in [1 .. digits -> [Nat -> Nat]] /\ 0 \in Nat
    OBVIOUS
  <2> HIDE DEF F
  <2>2. Results(digits, Nat, 0, F) # {}
    BY <1>1, <2>1, RecursionHasResult
  <2> QED
    BY <2>2 DEF Results
<1>3. \A k \in 1 .. digits : w[k] = 2 * w[k - 1] + Bit(digits - k)
  BY <1>1, <1>2
<1> HIDE DEF F
<1>4. w[digits] \in 0 .. PowerOfTwo[digits] - 1
  <2> DEFINE G == {k \in 0 .. digits : w[k] < PowerOfTwo[k]}
  <2>1. 0 \in G
    BY <1>1, <1>2, PowersAre
  <2>2. ASSUME NEW k \in 1 .. digits, k - 1 \in G
        PROVE  k \in G
    <3>1. /\ w[k] = 2 * w[k - 1] + Bit(digits - k) /\ w[k - 1] \in Nat
          /\ PowerOfTwo[k] = 2 * PowerOfTwo[k - 1] /\ PowerOfTwo[k - 1] \in Nat
          /\ w[k - 1] < PowerOfTwo[k - 1] /\ k \in 0 .. digits
      BY <1>1, <1>2, <1>3, <2>2, PowersAre, PowersGrow
    <3> QED
      BY <3>1
  <2>3. digits \in G
    <3> HIDE DEF G
    <3> QED
      BY <1>1, <2>1, <2>2, Upwards
  <2> QED
    BY <1>1, <1>2, <2>3, PowersGrow
<1> DEFINE h == [i \in 0 .. digits |-> w[digits - i]]
           x == w[digits]
<1>5. \A i \in 0 .. digits : h[i] = w[digits - i] /\ h[i] \in Int
  <2>1. \A i \in 0 .. digits : digits - i \in 0 .. digits
    BY <1>1
  <2> QED
    BY <1>2, <2>1
<1>6. ASSUME NEW i \in 1 .. digits
      PROVE  h[i - 1] - 2 * h[i] = Bit(i - 1)
  <2> DEFINE k == digits - (i - 1)
  <2>1. k \in 1 .. digits /\ k - 1 = digits - i /\ digits - k = i - 1
        /\ i \in 0 .. digits /\ i - 1 \in 0 .. digits
    BY <1>1
  <2>2. h[i - 1] = w[k] /\ h[i] = w[k - 1] /\ h[i] \in Int
    BY <1>5, <2>1
  <2> HIDE DEF k, h
  <2>3. w[k] = 2 * w[k - 1] + Bit(i - 1)
    BY <1>3, <2>1
  <2> QED
    BY <2>2, <2>3
<1>7. x \in Int /\ h[0] = x
  BY <1>1, <1>2
<1> HIDE DEF h
<1>8. Halving(x, digits, h)
  BY <1>5, <1>6, <1>7 DEF Halving
<1>9. \A i \in Positions : i \in SetBits(x) <=> i \in S
  <2>1. ASSUME NEW i \in Positions
        PROVE  i \in SetBits(x) <=> i \in S
    <3>1. i \in 0 .. digits - 1 /\ i + 1 \in 1 .. digits /\ (i + 1) - 1 = i
      BY <1>1 DEF Positions
    <3>2. i \in SetBits(x) <=> h[i] - 2 * h[i + 1] = 1
      BY <1>1, <1>7, <1>8, <3>1, BitsAre
    <3>3. h[i] - 2 * h[i + 1] = Bit(i)
      BY <1>6, <3>1
    <3> QED
      BY <3>2, <3>3
  <2> QED
    BY <2>1
<1>10. x \in Word
  BY <1>4, WordFacts DEF Word
<1> HIDE DEF x
<1>11. SetBits(x) = S
  BY <1>9 DEF SetBits
<1> QED
  BY <1>10, <1>11

(* The word of some bits has them.                                         *)
LEMMA WordIs ==
  ASSUME NEW S \in SUBSET Positions
  PROVE  WordOf[S] \in Word /\ SetBits(WordOf[S]) = S
<1>1. \E x \in Word : SetBits(x) = S
  BY BitsMakeWord
<1>2. WordOf[S] = CHOOSE x \in Word : SetBits(x) = S
  BY DEF WordOf
<1> QED
  BY <1>1, <1>2

(* What C++ has on words, by bits.                                         *)
LEMMA OperatorsAre ==
  ASSUME NEW x, NEW y
  PROVE  /\ (x & y) \in Word /\ SetBits(x & y) = SetBits(x) \cap SetBits(y)
         /\ (x | y) \in Word /\ SetBits(x | y) = SetBits(x) \cup SetBits(y)
         /\ Complement(x) \in Word /\ SetBits(Complement(x)) = Positions \ SetBits(x)
<1>1. SetBits(x) \in SUBSET Positions /\ SetBits(y) \in SUBSET Positions
  BY DEF SetBits
<1> QED
  BY <1>1, WordIs DEF &, |, Complement

-----------------------------------------------------------------------------
(* Shifts, masks and remainders, by bits.                                  *)

(* One less than a power has all the bits below.                           *)
LEMMA OnesBelow ==
  ASSUME NEW n \in 0 .. digits
  PROVE  /\ PowerOfTwo[n] - 1 \in Word
         /\ SetBits(PowerOfTwo[n] - 1) = {i \in Positions : i < n}
<1> DEFINE h == [i \in 0 .. n |-> PowerOfTwo[n - i] - 1]
           x == PowerOfTwo[n] - 1
<1>1. digits \in Nat /\ n \in Nat /\ \A i \in 0 .. n : n - i \in 0 .. digits
  BY WordFacts
<1>2. \A i \in 0 .. n : PowerOfTwo[n - i] \in Nat \ {0} /\ h[i] = PowerOfTwo[n - i] - 1
  BY <1>1, PowersGrow
<1>3. ASSUME NEW i \in 1 .. n
      PROVE  h[i - 1] - 2 * h[i] = 1
  <2>1. i \in 0 .. n /\ i - 1 \in 0 .. n /\ n - (i - 1) \in 1 .. digits
        /\ n - (i - 1) - 1 = n - i
    BY <1>1
  <2>2. PowerOfTwo[n - (i - 1)] = 2 * PowerOfTwo[n - i]
    BY <2>1, PowersAre
  <2> HIDE DEF h
  <2> QED
    BY <1>2, <2>1, <2>2
<1>4. x \in 0 .. PowerOfTwo[n] - 1 /\ h[0] = x
  <2>1. 0 \in 0 .. n /\ n - 0 = n
    BY <1>1
  <2> QED
    BY <1>2, <2>1
<1>5. x \in Word
  <2> DEFINE p == PowerOfTwo[n]
  <2>1. p \in Nat /\ Width \in Nat /\ (p = Width \/ p < Width)
    <3>1. n = digits \/ PowerOfTwo[n] < Width
      BY <1>1, PowersGrow
    <3> QED
      BY <3>1, PowersGrow, WordFacts
  <2>2. x \in 0 .. p - 1
    BY <1>4
  <2> HIDE DEF p, x
  <2> QED
    BY <2>1, <2>2 DEF Word
<1>6. Halving(x, n, h)
  <2> HIDE DEF h, x
  <2> QED
    BY <1>2, <1>3, <1>4 DEF Halving
<1>7. ASSUME NEW i \in Positions
      PROVE  i \in SetBits(x) <=> i < n
  <2>1. CASE i < n
    <3>1. i \in 0 .. n - 1 /\ i + 1 \in 1 .. n /\ (i + 1) - 1 = i
      BY <1>1, <2>1 DEF Positions
    <3>2. h[i] - 2 * h[i + 1] = 1
      <4> HIDE DEF h
      <4> QED
        BY <1>3, <3>1
    <3>3. x \in Int
      <4> HIDE DEF x
      <4> QED
        BY <1>5 DEF Word
    <3> HIDE DEF h, x
    <3> QED
      BY <1>6, <2>1, <3>1, <3>2, <3>3, BitsAre
  <2>2. CASE ~(i < n)
    <3>1. i \in n .. digits
      BY <1>1, <2>2 DEF Positions
    <3> QED
      BY <1>4, <2>2, <3>1, NoBitsAbove
  <2> QED
    BY <2>1, <2>2
<1> QED
  BY <1>5, <1>7 DEF SetBits

(* low_bits_mask has the bits below the count.                             *)
LEMMA MaskBits ==
  ASSUME NEW bits \in Nat
  PROVE  /\ low_bits_mask(bits) \in Word
         /\ SetBits(low_bits_mask(bits)) = {i \in Positions : i < bits}
<1>1. digits \in Nat \ {0, 1} /\ digits \in 0 .. digits /\ Width = PowerOfTwo[digits]
  BY WordFacts
<1>2. CASE bits >= digits
  <2>1. low_bits_mask(bits) = PowerOfTwo[digits] - 1
    BY <1>1, <1>2 DEF low_bits_mask
  <2>2. {i \in Positions : i < bits} = {i \in Positions : i < digits}
    BY <1>1, <1>2 DEF Positions
  <2> QED
    BY <1>1, <2>1, <2>2, OnesBelow
<1>3. CASE bits < digits
  <2>1. bits \in 0 .. digits /\ bits % digits = bits /\ PowerOfTwo[bits] \in Nat \ {0}
        /\ PowerOfTwo[bits] < Width /\ PowerOfTwo[0] = 1
    BY <1>1, <1>3, PowersAre, PowersGrow
  <2>2. Shl(1, bits) = (1 * PowerOfTwo[bits]) % Width
    BY <2>1 DEF Shl
  <2>3. (1 * PowerOfTwo[bits]) % Width = PowerOfTwo[bits]
    <3> DEFINE p == PowerOfTwo[bits]
    <3>1. p \in Nat /\ p < Width /\ Width \in Nat \ {0}
      BY <2>1, WordFacts
    <3> HIDE DEF p
    <3>2. (1 * p) % Width = p
      BY <3>1
    <3> QED
      BY <3>2 DEF p
  <2>4. low_bits_mask(bits) = PowerOfTwo[bits] - 1
    <3>1. ~(bits >= digits)
      BY <1>1, <1>3
    <3> QED
      BY <2>1, <2>2, <2>3, <3>1 DEF low_bits_mask
  <2> QED
    BY <2>1, <2>4, OnesBelow
<1> QED
  BY <1>1, <1>2, <1>3

(* A remainder by a power of two is the bits below it.                     *)
LEMMA RemainderBits ==
  ASSUME NEW y \in Int, NEW w \in 0 .. digits
  PROVE  /\ y % PowerOfTwo[w] \in 0 .. PowerOfTwo[w] - 1
         /\ y % PowerOfTwo[w] \in Word
         /\ SetBits(y % PowerOfTwo[w]) = {i \in SetBits(y) : i < w}
<1> DEFINE p == PowerOfTwo[w]
           q == y \div p
           r == y % p
           h == [i \in 0 .. w |-> (r \div PowerOfTwo[i]) + q * PowerOfTwo[w - i]]
<1>1. /\ digits \in Nat /\ w \in Nat /\ \A i \in 0 .. w : i \in 0 .. digits
      /\ \A i \in 0 .. w : w - i \in 0 .. digits
  BY WordFacts
<1>2. p \in Nat \ {0} /\ p <= Width
  <2>1. w = digits \/ PowerOfTwo[w] < Width
    BY <1>1, PowersGrow
  <2> QED
    BY <2>1, PowersGrow, WordFacts
<1>3. q \in Int /\ r \in 0 .. p - 1 /\ y = p * q + r
  <2> HIDE DEF p
  <2> QED
    BY <1>2
<1> HIDE DEF q, r
<1>4. \A i \in 0 .. w : /\ h[i] = (r \div PowerOfTwo[i]) + q * PowerOfTwo[w - i]
                        /\ r \div PowerOfTwo[i] \in Int /\ PowerOfTwo[w - i] \in Nat
                        /\ q * PowerOfTwo[w - i] \in Int
  <2>1. r \in Int
    BY <1>2, <1>3
  <2>2. ASSUME NEW i \in 0 .. w
        PROVE  PowerOfTwo[w - i] \in Nat /\ q * PowerOfTwo[w - i] \in Int
    BY <1>1, <1>3, PowersGrow
  <2>3. \A i \in 0 .. w : r \div PowerOfTwo[i] \in Int
    BY <1>1, <2>1, HalvesOf
  <2> QED
    BY <2>2, <2>3
<1>5. h[0] = y
  <2>1. 0 \in 0 .. w /\ w - 0 = w /\ r \in Int
    BY <1>1, <1>2, <1>3
  <2>2. h[0] = r + q * p
    BY <1>4, <2>1, HalvesOf
  <2> QED
    BY <1>2, <1>3, <2>2
<1>6. ASSUME NEW i \in 1 .. w
      PROVE  h[i - 1] - 2 * h[i] = (r \div PowerOfTwo[i - 1]) % 2
  <2>1. i \in 0 .. w /\ i - 1 \in 0 .. w /\ i \in 1 .. digits /\ w - (i - 1) \in 1 .. digits
        /\ w - (i - 1) - 1 = w - i /\ r \in Int
    BY <1>1, <1>2, <1>3
  <2>2. PowerOfTwo[w - (i - 1)] = 2 * PowerOfTwo[w - i]
    BY <2>1, PowersAre
  <2> DEFINE a == r \div PowerOfTwo[i - 1]
             b == r \div PowerOfTwo[i]
             c == PowerOfTwo[w - i]
  <2>3. a = 2 * b + (a % 2) /\ a \in Int /\ b \in Int /\ c \in Nat
    BY <1>4, <2>1, HalvesOf
  <2>4. h[i - 1] = a + q * (2 * c) /\ h[i] = b + q * c
    BY <1>4, <2>1, <2>2
  <2>5. q * (2 * c) = 2 * (q * c) /\ q * c \in Int
    <3> HIDE DEF c
    <3> QED
      BY <1>3, <2>3
  <2> HIDE DEF a, b, c, h
  <2> QED
    BY <2>3, <2>4, <2>5 DEF a
<1>7. Halving(y, w, h)
  <2>1. \A i \in 1 .. w : h[i - 1] - 2 * h[i] \in {0, 1}
    <3>1. ASSUME NEW i \in 1 .. w
          PROVE  (r \div PowerOfTwo[i - 1]) % 2 \in {0, 1}
      <4>1. i - 1 \in 0 .. w
        BY <1>1
      <4> QED
        BY <1>4, <4>1
    <3> HIDE DEF h
    <3> QED
      BY <1>6, <3>1
  <2>2. \A i \in 0 .. w : h[i] \in Int
    <3> HIDE DEF h
    <3> QED
      BY <1>4
  <2> HIDE DEF h
  <2> QED
    BY <1>5, <2>1, <2>2 DEF Halving
<1>8. ASSUME NEW i \in Positions
      PROVE  i \in SetBits(r) <=> i \in SetBits(y) /\ i < w
  <2>1. CASE i < w
    <3>1. i \in 0 .. w - 1 /\ i + 1 \in 1 .. w /\ (i + 1) - 1 = i
      BY <1>1, <2>1 DEF Positions
    <3>2. i \in SetBits(y) <=> h[i] - 2 * h[i + 1] = 1
      <4> HIDE DEF h
      <4> QED
        BY <1>7, <3>1, BitsAre
    <3>3. h[i] - 2 * h[i + 1] = (r \div PowerOfTwo[i]) % 2
      <4> HIDE DEF h
      <4> QED
        BY <1>6, <3>1
    <3> QED
      BY <2>1, <3>2, <3>3, BitIs
  <2>2. CASE ~(i < w)
    <3>1. i \in w .. digits
      BY <1>1, <2>2 DEF Positions
    <3> QED
      BY <1>3, <2>2, <3>1, NoBitsAbove
  <2> QED
    BY <2>1, <2>2
<1>9. SetBits(r) = {i \in SetBits(y) : i < w}
  BY <1>8 DEF SetBits
<1>10. r \in Word
  <2> HIDE DEF p
  <2> QED
    BY <1>2, <1>3, WordFacts DEF Word
<1> QED
  BY <1>3, <1>9, <1>10 DEF r

(* A shift to the left moves the bits up, and those at the top out.        *)
LEMMA ShlBits ==
  ASSUME NEW x \in Word, NEW n \in Positions
  PROVE  /\ Shl(x, n) \in Word
         /\ SetBits(Shl(x, n)) = {i \in Positions : i >= n /\ i - n \in SetBits(x)}
<1> DEFINE p == PowerOfTwo[n]
           y == x * p
           h == [i \in 0 .. digits |-> IF i <= n THEN x * PowerOfTwo[n - i]
                                       ELSE x \div PowerOfTwo[i - n]]
<1>1. /\ digits \in Nat \ {0, 1} /\ n \in Nat /\ n < digits /\ n % digits = n /\ x \in Nat
      /\ digits \in 0 .. digits /\ n \in 0 .. digits
  BY WordFacts DEF Positions
<1>2. Shl(x, n) = y % PowerOfTwo[digits]
  BY <1>1, WordFacts DEF Shl
<1>3. y \in Int
  <2>1. p \in Nat
    BY <1>1, PowersGrow
  <2> HIDE DEF p
  <2> QED
    BY <1>1, <2>1
<1>4. \A i \in 0 .. n : h[i] = x * PowerOfTwo[n - i] /\ h[i] \in Int
  <2>1. ASSUME NEW i \in 0 .. n
        PROVE  h[i] = x * PowerOfTwo[n - i] /\ h[i] \in Int
    <3>1. i \in 0 .. digits /\ i <= n /\ n - i \in 0 .. digits
      BY <1>1
    <3>2. PowerOfTwo[n - i] \in Nat /\ h[i] = x * PowerOfTwo[n - i]
      BY <3>1, PowersGrow
    <3> HIDE DEF h
    <3> QED
      BY <1>1, <3>2
  <2> HIDE DEF h
  <2> QED
    BY <2>1
<1>5. \A i \in n .. digits : h[i] = x \div PowerOfTwo[i - n] /\ h[i] \in Int
  <2>1. ASSUME NEW i \in n .. digits
        PROVE  h[i] = x \div PowerOfTwo[i - n] /\ h[i] \in Int
    <3>1. i \in 0 .. digits /\ i - n \in 0 .. digits /\ x \in Int
      BY <1>1
    <3>2. x \div PowerOfTwo[i - n] \in Int
      BY <3>1, HalvesOf
    <3>3. CASE i = n
      <4>1. i <= n /\ n - i = 0 /\ i - n = 0
        BY <1>1, <3>3
      <4>2. h[i] = x * PowerOfTwo[0] /\ PowerOfTwo[0] = 1 /\ x \div PowerOfTwo[0] = x
        BY <3>1, <4>1, PowersAre, HalvesOf
      <4> HIDE DEF h
      <4> QED
        BY <1>1, <4>1, <4>2
    <3>4. CASE i # n
      <4>1. ~(i <= n)
        BY <1>1, <3>4
      <4>2. h[i] = x \div PowerOfTwo[i - n]
        BY <3>1, <4>1
      <4> HIDE DEF h
      <4> QED
        BY <3>2, <4>2
    <3> QED
      BY <3>3, <3>4
  <2> HIDE DEF h
  <2> QED
    BY <2>1
<1>6. \A i \in 0 .. digits : h[i] \in Int
  <2>1. \A i \in 0 .. digits : i \in 0 .. n \/ i \in n .. digits
    BY <1>1
  <2> HIDE DEF h
  <2> QED
    BY <1>4, <1>5, <2>1
<1>7. h[0] = y
  <2>1. 0 \in 0 .. n /\ n - 0 = n
    BY <1>1
  <2> HIDE DEF h
  <2> QED
    BY <1>4, <2>1
<1> HIDE DEF h
<1>8. ASSUME NEW i \in 1 .. n
      PROVE  h[i - 1] - 2 * h[i] = 0
  <2>1. i \in 0 .. n /\ i - 1 \in 0 .. n /\ n - (i - 1) \in 1 .. digits
        /\ n - (i - 1) - 1 = n - i /\ n - i \in 0 .. digits
    BY <1>1
  <2> DEFINE c == PowerOfTwo[n - i]
  <2>2. PowerOfTwo[n - (i - 1)] = 2 * c /\ c \in Nat
    BY <2>1, PowersAre, PowersGrow
  <2>3. h[i - 1] = x * (2 * c) /\ h[i] = x * c
    BY <1>4, <2>1, <2>2
  <2> HIDE DEF c
  <2>4. x * (2 * c) = 2 * (x * c) /\ x * c \in Int
    BY <1>1, <2>2
  <2> QED
    BY <2>3, <2>4
<1>9. ASSUME NEW i \in n + 1 .. digits
      PROVE  h[i - 1] - 2 * h[i] = (x \div PowerOfTwo[i - 1 - n]) % 2
  <2>1. i \in n .. digits /\ i - 1 \in n .. digits /\ i - n \in 1 .. digits
        /\ i - n - 1 = i - 1 - n /\ x \in Int
    BY <1>1
  <2> DEFINE a == x \div PowerOfTwo[i - 1 - n]
             b == x \div PowerOfTwo[i - n]
  <2>2. a = 2 * b + (a % 2)
    BY <2>1, HalvesOf
  <2>3. h[i - 1] = a /\ h[i] = b /\ a \in Int /\ b \in Int
    BY <1>5, <2>1
  <2> HIDE DEF a, b
  <2>4. a - 2 * b = a % 2
    BY <2>2, <2>3
  <2> QED
    BY <2>3, <2>4 DEF a
<1>10. Halving(y, digits, h)
  <2>1. ASSUME NEW i \in 1 .. digits
        PROVE  h[i - 1] - 2 * h[i] \in {0, 1}
    <3>1. CASE i <= n
      BY <1>1, <1>8, <3>1
    <3>2. CASE ~(i <= n)
      <4>1. i \in n + 1 .. digits /\ i - 1 \in n .. digits
        BY <1>1, <3>2
      <4>2. x \div PowerOfTwo[i - 1 - n] \in Int
        BY <1>5, <4>1
      <4>3. (x \div PowerOfTwo[i - 1 - n]) % 2 \in {0, 1}
        BY <4>2
      <4> QED
        BY <1>9, <4>1, <4>3
    <3> QED
      BY <3>1, <3>2
  <2> QED
    BY <1>6, <1>7, <2>1 DEF Halving
<1>11. ASSUME NEW i \in Positions
       PROVE  i \in SetBits(y) <=> i >= n /\ i - n \in SetBits(x)
  <2>1. i \in 0 .. digits - 1 /\ (i + 1) - 1 = i /\ i \in Nat
    BY <1>1 DEF Positions
  <2>2. i \in SetBits(y) <=> h[i] - 2 * h[i + 1] = 1
    BY <1>1, <1>3, <1>10, <2>1, BitsAre
  <2>3. CASE i < n
    <3>1. i + 1 \in 1 .. n
      BY <1>1, <2>1, <2>3
    <3>2. h[i] - 2 * h[i + 1] = 0
      BY <1>8, <2>1, <3>1
    <3> QED
      BY <1>1, <2>1, <2>2, <2>3, <3>2
  <2>4. CASE ~(i < n)
    <3>1. i + 1 \in n + 1 .. digits /\ i - n \in Positions /\ (i + 1) - 1 - n = i - n
      BY <1>1, <2>1, <2>4 DEF Positions
    <3>2. h[i] - 2 * h[i + 1] = (x \div PowerOfTwo[i - n]) % 2
      BY <1>9, <2>1, <3>1
    <3>3. i - n \in SetBits(x) <=> (x \div PowerOfTwo[i - n]) % 2 = 1
      BY <3>1, BitIs
    <3> QED
      BY <1>1, <2>1, <2>2, <2>4, <3>2, <3>3
  <2> QED
    BY <2>3, <2>4
<1> HIDE DEF y
<1>12. /\ y % PowerOfTwo[digits] \in Word
       /\ SetBits(y % PowerOfTwo[digits]) = {i \in SetBits(y) : i < digits}
  BY <1>1, <1>3, RemainderBits
<1>13. SetBits(Shl(x, n)) = SetBits(y)
  BY <1>1, <1>2, <1>12 DEF SetBits, Positions
<1>14. SetBits(y) = {i \in Positions : i >= n /\ i - n \in SetBits(x)}
  BY <1>11 DEF SetBits
<1> QED
  BY <1>2, <1>12, <1>13, <1>14

(* A shift to the right moves the bits down, and those at the bottom out.  *)
LEMMA ShrBits ==
  ASSUME NEW x \in Word, NEW n \in Positions
  PROVE  /\ Shr(x, n) \in Word
         /\ SetBits(Shr(x, n)) = {i \in Positions : i + n \in SetBits(x)}
<1> DEFINE m == digits - n
           y == x \div PowerOfTwo[n]
           h == [i \in 0 .. m |-> x \div PowerOfTwo[n + i]]
<1>1. /\ digits \in Nat \ {0, 1} /\ n \in Nat /\ n < digits /\ x \in Nat /\ x \in Int
      /\ m \in 0 .. digits /\ m \in Nat /\ n + m = digits /\ n \in 0 .. digits
      /\ x \in 0 .. PowerOfTwo[digits] - 1 /\ digits \in digits .. digits
      /\ digits \in 0 .. digits
  BY WordFacts DEF Positions, Word
<1>2. Shr(x, n) = y
  BY BitIs
<1>3. \A i \in 0 .. m : n + i \in 0 .. digits
  BY <1>1
<1>4. \A i \in 0 .. m : h[i] = x \div PowerOfTwo[n + i] /\ h[i] \in Int
  BY <1>1, <1>3, HalvesOf
<1>5. h[0] = y /\ h[m] = 0 /\ y \in Int
  <2>1. 0 \in 0 .. m /\ n + 0 = n /\ m \in 0 .. m
    BY <1>1
  <2>2. x \div PowerOfTwo[digits] = 0
    BY <1>1, NoBitsAbove
  <2> HIDE DEF h
  <2> QED
    BY <1>1, <1>4, <2>1, <2>2
<1> HIDE DEF h, y
<1>6. ASSUME NEW i \in 1 .. m
      PROVE  /\ h[i - 1] - 2 * h[i] = (x \div PowerOfTwo[n + i - 1]) % 2
             /\ h[i - 1] - 2 * h[i] \in {0, 1}
  <2>1. i \in 0 .. m /\ i - 1 \in 0 .. m /\ n + i \in 1 .. digits /\ n + (i - 1) = n + i - 1
    BY <1>1
  <2> DEFINE a == x \div PowerOfTwo[n + i - 1]
             b == x \div PowerOfTwo[n + i]
  <2>2. a = 2 * b + (a % 2)
    BY <1>1, <2>1, HalvesOf
  <2>3. h[i - 1] = a /\ h[i] = b /\ a \in Int /\ b \in Int
    BY <1>4, <2>1
  <2> HIDE DEF a, b
  <2>4. a - 2 * b = a % 2 /\ a % 2 \in {0, 1}
    BY <2>2, <2>3
  <2> QED
    BY <2>3, <2>4 DEF a
<1> HIDE DEF m
<1>7. Halving(y, m, h)
  BY <1>4, <1>5, <1>6 DEF Halving
<1>8. y \div PowerOfTwo[m] = 0
  <2>1. m \in 0 .. m
    BY <1>1
  <2> QED
    BY <1>1, <1>5, <1>7, <2>1, BitsAre
<1>9. y \in 0 .. PowerOfTwo[m] - 1
  <2> DEFINE p == PowerOfTwo[m]
             s == PowerOfTwo[n]
  <2>1. p \in Nat \ {0} /\ s \in Nat \ {0}
    BY <1>1, PowersGrow
  <2>2. y \div p = 0 /\ y = x \div s
    BY <1>8 DEF y
  <2> HIDE DEF p, s
  <2>3. y \in Nat
    BY <1>1, <2>1, <2>2
  <2>4. y < p
    BY <2>1, <2>2, <2>3
  <2>5. y \in 0 .. p - 1
    BY <2>1, <2>3, <2>4
  <2> QED
    BY <2>5 DEF p
<1>10. ASSUME NEW i \in Positions
       PROVE  i \in SetBits(y) <=> i + n \in SetBits(x)
  <2>1. i \in Nat /\ i < digits
    BY <1>1 DEF Positions
  <2>2. CASE i < m
    <3>1. i \in 0 .. m - 1 /\ i + 1 \in 1 .. m /\ (i + 1) - 1 = i /\ i + n \in Positions
          /\ n + (i + 1) - 1 = i + n
      BY <1>1, <2>1, <2>2 DEF Positions
    <3>2. i \in SetBits(y) <=> h[i] - 2 * h[i + 1] = 1
      BY <1>1, <1>5, <1>7, <3>1, BitsAre
    <3>3. h[i] - 2 * h[i + 1] = (x \div PowerOfTwo[i + n]) % 2
      BY <1>6, <3>1
    <3> QED
      BY <3>1, <3>2, <3>3, BitIs
  <2>3. CASE ~(i < m)
    <3>1. i \in m .. digits /\ i + n \notin Positions
      BY <1>1, <2>1, <2>3 DEF Positions
    <3>2. i \notin SetBits(y)
      BY <1>1, <1>9, <3>1, NoBitsAbove
    <3> QED
      BY <3>1, <3>2 DEF SetBits
  <2> QED
    BY <2>2, <2>3
<1>11. y \in Word
  <2> DEFINE p == PowerOfTwo[m]
  <2>1. p \in Nat /\ Width \in Nat /\ (p = Width \/ p < Width)
    <3>1. m = digits \/ PowerOfTwo[m] < Width
      BY <1>1, PowersGrow
    <3> QED
      BY <1>1, <3>1, PowersGrow, WordFacts
  <2>2. y \in 0 .. p - 1
    BY <1>9
  <2> HIDE DEF p
  <2> QED
    BY <2>1, <2>2 DEF Word
<1>12. SetBits(y) = {i \in Positions : i + n \in SetBits(x)}
  BY <1>10 DEF SetBits
<1> QED
  BY <1>2, <1>11, <1>12

(* The word without bits, and the ones with one.                           *)
LEMMA FewBits ==
  /\ SetBits(0) = {} /\ 1 \in Word /\ SetBits(1) = {0} /\ 0 \in Positions
  /\ \A x \in Word : x = 0 <=> SetBits(x) = {}
  /\ \A n \in Positions : Flag(n) \in Word /\ SetBits(Flag(n)) = {n}
<1>1. /\ digits \in Nat \ {0, 1} /\ 0 \in 0 .. digits /\ 1 \in 0 .. digits /\ 1 \in 1 .. digits
      /\ 0 \in Positions /\ 0 \in Word
  BY WordFacts DEF Positions
<1>2. PowerOfTwo[0] - 1 = 0 /\ PowerOfTwo[1] - 1 = 1
  BY <1>1, PowersAre
<1>3. SetBits(0) = {i \in Positions : i < 0}
  BY <1>1, <1>2, OnesBelow
<1>4. 1 \in Word /\ SetBits(1) = {i \in Positions : i < 1}
  BY <1>1, <1>2, OnesBelow
<1>5. SetBits(0) = {}
  BY <1>1, <1>3 DEF Positions
<1>6. SetBits(1) = {0}
  BY <1>1, <1>4 DEF Positions
<1>7. ASSUME NEW x \in Word, SetBits(x) = {}
      PROVE  x = 0
  BY <1>1, <1>5, <1>7, SameBits
<1>8. ASSUME NEW n \in Positions
      PROVE  Flag(n) \in Word /\ SetBits(Flag(n)) = {n}
  <2>1. Flag(n) \in Word /\ SetBits(Flag(n)) = {i \in Positions : i >= n /\ i - n \in SetBits(1)}
    BY <1>4, ShlBits DEF Flag
  <2>2. \A i \in Positions : i >= n /\ i - n = 0 <=> i = n
    BY DEF Positions
  <2> QED
    BY <1>6, <2>1, <2>2
<1> QED
  BY <1>1, <1>4, <1>5, <1>6, <1>7, <1>8

(* The lowest bit, and what remaining &= remaining - 1 makes of it.        *)
LEMMA LowestCleared ==
  ASSUME NEW x \in Word, x # 0
  PROVE  /\ countr_zero(x) \in SetBits(x) /\ \A i \in SetBits(x) : countr_zero(x) <= i
         /\ (x & (x - 1)) \in Word
         /\ SetBits(x & (x - 1)) = SetBits(x) \ {countr_zero(x)}
<1> DEFINE m == countr_zero(x)
           q(i) == x \div PowerOfTwo[i]
           h == [i \in 0 .. digits |-> IF i <= m THEN q(i) - 1 ELSE q(i)]
<1>1. /\ digits \in Nat \ {0, 1} /\ x \in Nat /\ x \in Int /\ x - 1 \in Int
      /\ digits \in 0 .. digits /\ Positions \subseteq Nat
  BY WordFacts DEF Positions
<1>2. SetBits(x) # {} /\ SetBits(x) \subseteq Positions
  BY FewBits DEF SetBits
<1>3. m \in SetBits(x) /\ \A i \in SetBits(x) : m <= i
  <2>1. \E b \in SetBits(x) : \A i \in SetBits(x) : b <= i
    BY <1>1, <1>2, LeastNatural
  <2> QED
    BY <2>1 DEF Min, countr_zero
<1>4. m \in Nat /\ m < digits /\ m \in Positions
  BY <1>1, <1>2, <1>3 DEF Positions
<1> HIDE DEF m
<1>5. /\ \A i \in 0 .. digits : q(i) \in Int
      /\ \A i \in 1 .. digits : q(i - 1) = 2 * q(i) + (q(i - 1) % 2)
      /\ q(0) = x
  BY <1>1, HalvesOf
<1>6. \A i \in Positions : i \in SetBits(x) <=> q(i) % 2 = 1
  BY BitIs
<1> HIDE DEF q
<1>7. \A i \in 0 .. digits : h[i] = (IF i <= m THEN q(i) - 1 ELSE q(i)) /\ h[i] \in Int
  BY <1>5
<1> HIDE DEF h
<1>8. ASSUME NEW i \in 1 .. digits
      PROVE  /\ h[i - 1] - 2 * h[i] \in {0, 1}
             /\ i - 1 >= m => (h[i - 1] - 2 * h[i] = 1 <=> i - 1 # m /\ i - 1 \in SetBits(x))
  <2>1. i \in 0 .. digits /\ i - 1 \in 0 .. digits /\ i - 1 \in Positions
    BY <1>1 DEF Positions
  <2>2. /\ q(i - 1) = 2 * q(i) + (q(i - 1) % 2) /\ q(i) \in Int /\ q(i - 1) \in Int
        /\ q(i - 1) % 2 \in {0, 1}
    <3>1. q(i - 1) = 2 * q(i) + (q(i - 1) % 2) /\ q(i) \in Int /\ q(i - 1) \in Int
      BY <1>5, <2>1
    <3> QED
      BY <3>1
  <2>3. i - 1 \in SetBits(x) <=> q(i - 1) % 2 = 1
    BY <1>6, <2>1
  <2>4. /\ h[i - 1] = (IF i - 1 <= m THEN q(i - 1) - 1 ELSE q(i - 1))
        /\ h[i] = (IF i <= m THEN q(i) - 1 ELSE q(i))
    BY <1>7, <2>1
  <2>5. CASE i <= m
    <3>1. i - 1 < m /\ i - 1 <= m /\ ~(i - 1 >= m)
      BY <1>4, <2>5
    <3>2. i - 1 \notin SetBits(x)
      BY <1>3, <1>4, <3>1
    <3>3. q(i - 1) = 2 * q(i)
      BY <2>2, <2>3, <3>2
    <3>4. h[i - 1] - 2 * h[i] = 1
      BY <2>2, <2>4, <2>5, <3>1, <3>3
    <3> QED
      BY <3>1, <3>4
  <2>6. CASE i - 1 = m
    <3>1. i - 1 <= m /\ ~(i <= m)
      BY <1>4, <2>6
    <3>2. q(i - 1) % 2 = 1
      BY <1>3, <2>3, <2>6
    <3>3. h[i - 1] - 2 * h[i] = 0
      BY <2>2, <2>4, <3>1, <3>2
    <3> QED
      BY <2>6, <3>3
  <2>7. CASE i - 1 > m
    <3>1. ~(i - 1 <= m) /\ ~(i <= m) /\ i - 1 # m
      BY <1>4, <2>7
    <3>2. h[i - 1] - 2 * h[i] = q(i - 1) % 2
      BY <2>2, <2>4, <3>1
    <3> QED
      BY <2>2, <2>3, <3>1, <3>2
  <2> QED
    BY <1>4, <2>5, <2>6, <2>7
<1>9. Halving(x - 1, digits, h)
  <2>1. 0 \in 0 .. digits /\ 0 <= m
    BY <1>1, <1>4
  <2>2. h[0] = x - 1
    BY <1>5, <1>7, <2>1
  <2> QED
    BY <1>7, <1>8, <2>2 DEF Halving
<1>10. ASSUME NEW i \in Positions, i >= m
       PROVE  i \in SetBits(x - 1) <=> i # m /\ i \in SetBits(x)
  <2>1. i \in 0 .. digits - 1 /\ i + 1 \in 1 .. digits /\ (i + 1) - 1 = i
    BY <1>1 DEF Positions
  <2>2. i \in SetBits(x - 1) <=> h[i] - 2 * h[i + 1] = 1
    BY <1>1, <1>9, <2>1, BitsAre
  <2> QED
    BY <1>8, <1>10, <2>1, <2>2
<1>11. SetBits(x) \cap SetBits(x - 1) = SetBits(x) \ {m}
  <2>1. \A i \in SetBits(x) : i \in Positions /\ i >= m
    BY <1>1, <1>2, <1>3, <1>4
  <2> QED
    BY <1>10, <2>1
<1>12. (x & (x - 1)) \in Word /\ SetBits(x & (x - 1)) = SetBits(x) \cap SetBits(x - 1)
  BY OperatorsAre
<1> QED
  BY <1>3, <1>11, <1>12 DEF m

-----------------------------------------------------------------------------
(* packed_bits.                                                            *)

(* The mask of a field has its positions.                                  *)
LEMMA FieldMask ==
  ASSUME NEW f \in Fields
  PROVE  /\ f.offset \in Positions /\ f.bits \in 1 .. digits /\ f.offset + f.bits <= digits
         /\ Within(f) \subseteq Positions
         /\ ValueMask(f) \in Word /\ SetBits(ValueMask(f)) = Within(f)
<1>1. /\ f.offset \in Positions /\ f.bits \in 1 .. digits /\ f.offset + f.bits <= digits
      /\ digits \in Nat
  BY WordFacts DEF Fields
<1>2. Within(f) = {i \in Positions : i >= f.offset /\ i < f.offset + f.bits}
  BY <1>1 DEF Within, Positions
<1>3. /\ low_bits_mask(f.bits) \in Word
      /\ SetBits(low_bits_mask(f.bits)) = {i \in Positions : i < f.bits}
  BY <1>1, MaskBits
<1>4. /\ ValueMask(f) \in Word
      /\ SetBits(ValueMask(f)) =
           {i \in Positions : i >= f.offset /\ i - f.offset \in SetBits(low_bits_mask(f.bits))}
  BY <1>1, <1>3, ShlBits DEF ValueMask
<1>5. \A i \in Positions :
        i >= f.offset => (i - f.offset \in Positions /\ i - f.offset < f.bits
                            <=> i < f.offset + f.bits)
  BY <1>1 DEF Positions
<1>6. SetBits(ValueMask(f)) = Within(f)
  BY <1>2, <1>3, <1>4, <1>5
<1> QED
  BY <1>1, <1>2, <1>4, <1>6

(* The type keeps the bits it has of a value.                              *)
LEMMA Converted ==
  ASSUME NEW v \in Int
  PROVE  v % Width \in Word /\ SetBits(v % Width) = SetBits(v)
<1>1. Width = PowerOfTwo[digits] /\ digits \in 0 .. digits /\ digits \in Nat
  BY WordFacts
<1>2. v % Width \in Word /\ SetBits(v % Width) = {i \in SetBits(v) : i < digits}
  BY <1>1, RemainderBits
<1> QED
  BY <1>1, <1>2 DEF SetBits, Positions

(* set puts the bits of the value in the field, and leaves the others.     *)
LEMMA PackedSetBits ==
  ASSUME NEW f \in Fields, NEW c, NEW v \in Int
  PROVE  /\ packed_set(f, c, v) \in Word
         /\ SetBits(packed_set(f, c, v)) =
              (SetBits(c) \ Within(f)) \cup {i \in Within(f) : i - f.offset \in SetBits(v)}
<1> DEFINE mask == ValueMask(f)
           kept == c & Complement(mask)
           moved == Shl(v % Width, f.offset)
           put == moved & mask
<1>1. mask \in Word /\ SetBits(mask) = Within(f) /\ Within(f) \subseteq Positions
      /\ f.offset \in Positions /\ Within(f) = f.offset .. f.offset + f.bits - 1
      /\ f.offset \in Int /\ f.bits \in Int
  BY FieldMask DEF Within, Positions
<1>2. SetBits(kept) = SetBits(c) \cap (Positions \ Within(f))
  <2>1. SetBits(kept) = SetBits(c) \cap SetBits(Complement(mask))
    BY OperatorsAre
  <2>2. SetBits(Complement(mask)) = Positions \ SetBits(mask)
    BY OperatorsAre
  <2> QED
    BY <1>1, <2>1, <2>2
<1>3. SetBits(moved) = {i \in Positions : i >= f.offset /\ i - f.offset \in SetBits(v)}
  BY <1>1, Converted, ShlBits
<1>4. SetBits(put) = SetBits(moved) \cap Within(f)
  <2>1. SetBits(put) = SetBits(moved) \cap SetBits(mask)
    <3> HIDE DEF mask, moved
    <3> QED
      BY OperatorsAre
  <2> QED
    BY <1>1, <2>1
<1>5. packed_set(f, c, v) = (kept | put)
  BY DEF packed_set
<1> HIDE DEF kept, put
<1>6. (kept | put) \in Word /\ SetBits(kept | put) = SetBits(kept) \cup SetBits(put)
  BY OperatorsAre
<1>7. SetBits(kept) = SetBits(c) \ Within(f)
  BY <1>2 DEF SetBits
<1>8. SetBits(put) = {i \in Within(f) : i - f.offset \in SetBits(v)}
  <2>1. \A i \in Within(f) : i \in Positions /\ i >= f.offset
    BY <1>1
  <2> HIDE DEF moved
  <2> QED
    BY <1>3, <1>4, <2>1
<1> QED
  BY <1>5, <1>6, <1>7, <1>8

(* get takes the bits of the field.                                        *)
LEMMA PackedGetBits ==
  ASSUME NEW f \in Fields, NEW c
  PROVE  /\ packed_get(f, c) \in Word
         /\ SetBits(packed_get(f, c)) =
              {i \in Positions : i < f.bits /\ i + f.offset \in SetBits(c)}
<1> DEFINE held == c & ValueMask(f)
<1>1. /\ held \in Word /\ SetBits(held) = SetBits(c) \cap Within(f)
      /\ f.offset \in Positions /\ f.bits \in Int /\ digits \in Nat
      /\ Within(f) = f.offset .. f.offset + f.bits - 1
  <2>1. held \in Word /\ SetBits(held) = SetBits(c) \cap SetBits(ValueMask(f))
    BY OperatorsAre
  <2>2. f.offset \in Positions /\ f.bits \in Int /\ SetBits(ValueMask(f)) = Within(f)
    BY FieldMask
  <2> QED
    BY <2>1, <2>2, WordFacts DEF Within
<1> HIDE DEF held
<1>2. /\ Shr(held, f.offset) \in Word
      /\ SetBits(Shr(held, f.offset)) = {i \in Positions : i + f.offset \in SetBits(held)}
  BY <1>1, ShrBits
<1>3. \A i \in Positions : i + f.offset \in Within(f) <=> i < f.bits
  BY <1>1 DEF Positions
<1> QED
  BY <1>1, <1>2, <1>3 DEF packed_get, held

(* A field whose positions show the bits of a value holds that value.      *)
LEMMA FieldReads ==
  ASSUME NEW f \in Fields, NEW w, NEW v \in Int,
         \A p \in Within(f) : p \in SetBits(w) <=> p - f.offset \in SetBits(v)
  PROVE  packed_get(f, w) = v % PowerOfTwo[f.bits]
<1>1. /\ packed_get(f, w) \in Word
      /\ SetBits(packed_get(f, w)) = {p \in Positions : p < f.bits /\ p + f.offset \in SetBits(w)}
  BY PackedGetBits
<1>2. f.bits \in 0 .. digits /\ f.offset \in Nat /\ f.bits \in Nat
      /\ Within(f) = f.offset .. f.offset + f.bits - 1
  BY FieldMask, WordFacts DEF Positions, Within
<1>3. /\ v % PowerOfTwo[f.bits] \in Word
      /\ SetBits(v % PowerOfTwo[f.bits]) = {p \in SetBits(v) : p < f.bits}
  BY <1>2, RemainderBits
<1>4. \A p \in Positions : p < f.bits => /\ p + f.offset \in Within(f)
                                         /\ (p + f.offset) - f.offset = p
  BY <1>2 DEF Positions
<1>5. SetBits(packed_get(f, w)) = {p \in Positions : p < f.bits /\ p \in SetBits(v)}
  BY <1>1, <1>4
<1>6. SetBits(packed_get(f, w)) = SetBits(v % PowerOfTwo[f.bits])
  BY <1>3, <1>5 DEF SetBits
<1> QED
  BY <1>1, <1>3, <1>6, SameBits

(* packed_bits: what set has stored is read back by get, modulo the size   *)
(* of the field, and no other bit of the container changes, whatever the   *)
(* field, the container and the value.                                     *)
THEOREM PackedFieldIsExact ==
  ASSUME NEW f \in Fields, NEW container, NEW value \in Int
  PROVE  /\ packed_get(f, packed_set(f, container, value)) = value % PowerOfTwo[f.bits]
         /\ SetBits(packed_set(f, container, value)) \ Within(f)
              = SetBits(container) \ Within(f)
<1> DEFINE w == packed_set(f, container, value)
<1>1. SetBits(w) = (SetBits(container) \ Within(f))
                     \cup {i \in Within(f) : i - f.offset \in SetBits(value)}
  BY PackedSetBits
<1> HIDE DEF w
<1>2. \A p \in Within(f) : p \in SetBits(w) <=> p - f.offset \in SetBits(value)
  BY <1>1
<1>3. packed_get(f, w) = value % PowerOfTwo[f.bits]
  BY <1>2, FieldReads
<1> QED
  BY <1>1, <1>3 DEF w

-----------------------------------------------------------------------------
(* Fields and flags, one after the other.                                  *)

(* The container after each of the sets.                                   *)
Packing(c, fields, values) ==
  CHOOSE after : after = [i \in 0 .. Len(fields) |->
    IF i = 0 THEN c ELSE packed_set(fields[i], after[i - 1], values[i])]

(* One set at each turn.                                                   *)
LEMMA PackingTurns ==
  ASSUME NEW c \in Word, NEW fields \in Seq(Fields), NEW values,
         \A i \in 1 .. Len(fields) : values[i] \in Int
  PROVE  /\ Packed(c, fields, values) = Packing(c, fields, values)[Len(fields)]
         /\ Packing(c, fields, values)[0] = c
         /\ \A i \in 1 .. Len(fields) :
              Packing(c, fields, values)[i]
                = packed_set(fields[i], Packing(c, fields, values)[i - 1], values[i])
         /\ \A i \in 0 .. Len(fields) : Packing(c, fields, values)[i] \in Word
<1> DEFINE n == Len(fields)
           Step(i, x) == packed_set(fields[i], x, values[i])
           F == [i \in 1 .. n |-> [x \in Word |-> Step(i, x)]]
           Rec(f) == f = [i \in 0 .. n |-> IF i = 0 THEN c ELSE Step(i, f[i - 1])]
           after == Packing(c, fields, values)
<1>1. n \in Nat /\ c \in Word
  BY LenProperties
<1>2. ASSUME NEW i \in 1 .. n, NEW x \in Word
      PROVE  Step(i, x) \in Word
  <2>1. fields[i] \in Fields /\ values[i] \in Int
    BY LenProperties
  <2> QED
    BY <2>1, PackedSetBits
<1>3. after = CHOOSE g : Rec(g)
  BY DEF Packing
<1>4. Packed(c, fields, values) = after[n]
  BY DEF Packed, Packing
<1> HIDE DEF n, Step, after
<1>5. PICK f \in [0 .. n -> Word] :
        f[0] = c /\ \A i \in 1 .. n : f[i] = F[i][f[i - 1]]
  <2>1. F \in [1 .. n -> [Word -> Word]]
    BY <1>2
  <2> HIDE DEF F
  <2>2. Results(n, Word, c, F) # {}
    BY <1>1, <2>1, RecursionHasResult
  <2> QED
    BY <2>2 DEF Results
<1>6. \A i \in 1 .. n : f[i] = Step(i, f[i - 1])
  <2>1. \A i \in 1 .. n : f[i - 1] \in Word
    <3>1. \A i \in 1 .. n : i - 1 \in 0 .. n
      BY <1>1
    <3> HIDE DEF F
    <3> QED
      BY <1>5, <3>1
  <2> QED
    BY <1>5, <2>1
<1> HIDE DEF F
<1>7. f = [i \in 0 .. n |-> IF i = 0 THEN c ELSE Step(i, f[i - 1])]
  <2>1. \A i \in 0 .. n : i # 0 => i \in 1 .. n
    BY <1>1
  <2>2. \A i \in 0 .. n : f[i] = IF i = 0 THEN c ELSE Step(i, f[i - 1])
    BY <1>5, <1>6, <2>1
  <2> QED
    BY <1>5, <2>2
<1>8. Rec(after)
  <2>1. \E g : Rec(g)
    BY <1>7
  <2> HIDE DEF Rec
  <2> QED
    BY <1>3, <2>1
<1>9. after[0] = c /\ \A i \in 1 .. n : after[i] = Step(i, after[i - 1])
  <2>1. \A i \in 0 .. n : after[i] = IF i = 0 THEN c ELSE Step(i, after[i - 1])
    BY <1>8
  <2>2. 0 \in 0 .. n /\ \A i \in 1 .. n : i \in 0 .. n /\ i # 0
    BY <1>1
  <2> QED
    BY <2>1, <2>2
<1> HIDE DEF Rec
<1>10. \A i \in 0 .. n : after[i] \in Word
  <2> DEFINE G == {i \in 0 .. n : after[i] \in Word}
  <2>1. 0 \in G
    BY <1>1, <1>9
  <2>2. ASSUME NEW i \in 1 .. n, i - 1 \in G
        PROVE  i \in G
    BY <1>1, <1>2, <1>9, <2>2
  <2> HIDE DEF G
  <2>3. \A i \in 0 .. n : i \in G
    BY <1>1, <2>1, <2>2, Upwards
  <2> QED
    BY <2>3 DEF G
<1> QED
  BY <1>4, <1>9, <1>10 DEF n, Step, after

(* The mask after each of the marks.                                       *)
Marking(positions) ==
  CHOOSE after : after = [i \in 0 .. Len(positions) |->
    IF i = 0 THEN 0 ELSE mark_dirty(after[i - 1], Flag(positions[i]))]

(* One mark at each turn.                                                  *)
LEMMA MarkingTurns ==
  ASSUME NEW positions \in Seq(Positions)
  PROVE  /\ Marked(positions) = Marking(positions)[Len(positions)]
         /\ Marking(positions)[0] = 0
         /\ \A i \in 1 .. Len(positions) :
              Marking(positions)[i] = mark_dirty(Marking(positions)[i - 1], Flag(positions[i]))
         /\ \A i \in 0 .. Len(positions) : Marking(positions)[i] \in Word
<1> DEFINE n == Len(positions)
           Step(i, x) == mark_dirty(x, Flag(positions[i]))
           F == [i \in 1 .. n |-> [x \in Word |-> Step(i, x)]]
           Rec(f) == f = [i \in 0 .. n |-> IF i = 0 THEN 0 ELSE Step(i, f[i - 1])]
           after == Marking(positions)
<1>1. n \in Nat /\ 0 \in Word
  BY LenProperties, WordFacts
<1>2. ASSUME NEW i \in 1 .. n, NEW x \in Word
      PROVE  Step(i, x) \in Word
  BY OperatorsAre DEF mark_dirty
<1>3. after = CHOOSE g : Rec(g)
  BY DEF Marking
<1>4. Marked(positions) = after[n]
  BY DEF Marked, Marking
<1> HIDE DEF n, Step, after
<1>5. PICK f \in [0 .. n -> Word] :
        f[0] = 0 /\ \A i \in 1 .. n : f[i] = F[i][f[i - 1]]
  <2>1. F \in [1 .. n -> [Word -> Word]]
    BY <1>2
  <2> HIDE DEF F
  <2>2. Results(n, Word, 0, F) # {}
    BY <1>1, <2>1, RecursionHasResult
  <2> QED
    BY <2>2 DEF Results
<1>6. \A i \in 1 .. n : f[i] = Step(i, f[i - 1])
  <2>1. \A i \in 1 .. n : f[i - 1] \in Word
    <3>1. \A i \in 1 .. n : i - 1 \in 0 .. n
      BY <1>1
    <3> HIDE DEF F
    <3> QED
      BY <1>5, <3>1
  <2> QED
    BY <1>5, <2>1
<1> HIDE DEF F
<1>7. f = [i \in 0 .. n |-> IF i = 0 THEN 0 ELSE Step(i, f[i - 1])]
  <2>1. \A i \in 0 .. n : i # 0 => i \in 1 .. n
    BY <1>1
  <2>2. \A i \in 0 .. n : f[i] = IF i = 0 THEN 0 ELSE Step(i, f[i - 1])
    BY <1>5, <1>6, <2>1
  <2> QED
    BY <1>5, <2>2
<1>8. Rec(after)
  <2>1. \E g : Rec(g)
    BY <1>7
  <2> HIDE DEF Rec
  <2> QED
    BY <1>3, <2>1
<1>9. after[0] = 0 /\ \A i \in 1 .. n : after[i] = Step(i, after[i - 1])
  <2>1. \A i \in 0 .. n : after[i] = IF i = 0 THEN 0 ELSE Step(i, after[i - 1])
    BY <1>8
  <2>2. 0 \in 0 .. n /\ \A i \in 1 .. n : i \in 0 .. n /\ i # 0
    BY <1>1
  <2> QED
    BY <2>1, <2>2
<1> HIDE DEF Rec
<1>10. \A i \in 0 .. n : after[i] \in Word
  <2> DEFINE G == {i \in 0 .. n : after[i] \in Word}
  <2>1. 0 \in G
    BY <1>1, <1>9
  <2>2. ASSUME NEW i \in 1 .. n, i - 1 \in G
        PROVE  i \in G
    BY <1>1, <1>2, <1>9, <2>2
  <2> HIDE DEF G
  <2>3. \A i \in 0 .. n : i \in G
    BY <1>1, <2>1, <2>2, Upwards
  <2> QED
    BY <2>3 DEF G
<1> QED
  BY <1>4, <1>9, <1>10 DEF n, Step, after

(* What a container w shows once the first i values have been set.         *)
Shows(w, i, c, fields, values) ==
  /\ w \in Word
  /\ \A j \in 1 .. i : \A p \in Within(fields[j]) :
       p \in SetBits(w) <=> p - fields[j].offset \in SetBits(values[j])
  /\ \A p \in Positions : (\A j \in 1 .. i : p \notin Within(fields[j]))
       => (p \in SetBits(w) <=> p \in SetBits(c))

(* Fields that share no position show the values and the container.        *)
LEMMA PackedShows ==
  ASSUME NEW c \in Word, NEW fields \in Seq(Fields), NEW values,
         \A i \in 1 .. Len(fields) : values[i] \in Int,
         \A i, j \in 1 .. Len(fields) :
           i # j => Within(fields[i]) \cap Within(fields[j]) = {}
  PROVE  Shows(Packed(c, fields, values), Len(fields), c, fields, values)
<1> DEFINE n == Len(fields)
           w == Packing(c, fields, values)
           G == {i \in 0 .. n : Shows(w[i], i, c, fields, values)}
<1>1. n \in Nat /\ \A i \in 1 .. n : fields[i] \in Fields
  BY LenProperties
<1>2. /\ Packed(c, fields, values) = w[n] /\ w[0] = c
      /\ \A i \in 1 .. n : w[i] = packed_set(fields[i], w[i - 1], values[i])
  BY PackingTurns
<1> HIDE DEF n, w
<1>3. 0 \in G
  BY <1>1, <1>2 DEF Shows
<1>4. ASSUME NEW i \in 1 .. n, i - 1 \in G
      PROVE  i \in G
  <2> DEFINE f == fields[i]
             v == values[i]
             x == w[i - 1]
  <2>1. f \in Fields /\ v \in Int /\ i \in 0 .. n
    BY <1>1 DEF n
  <2>2. Shows(x, i - 1, c, fields, values)
    BY <1>4
  <2>3. /\ w[i] \in Word
        /\ SetBits(w[i]) = (SetBits(x) \ Within(f))
             \cup {p \in Within(f) : p - f.offset \in SetBits(v)}
    BY <1>2, <2>1, PackedSetBits
  <2>4. \A j \in 1 .. i : j = i \/ (j \in 1 .. i - 1 /\ j \in 1 .. n /\ j # i)
    BY <1>1
  <2>5. \A j \in 1 .. i - 1 : j \in 1 .. i
    BY <1>1
  <2>6. i \in 1 .. i
    BY <1>1
  <2>7. \A j \in 1 .. i - 1 : Within(fields[j]) \cap Within(f) = {}
    <3>1. \A j \in 1 .. i - 1 : j \in 1 .. n /\ j # i
      BY <1>1
    <3> QED
      BY <3>1 DEF n
  <2>8. ASSUME NEW j \in 1 .. i, NEW p \in Within(fields[j])
        PROVE  p \in SetBits(w[i]) <=> p - fields[j].offset \in SetBits(values[j])
    <3>1. CASE j = i
      BY <2>3, <3>1
    <3>2. CASE j # i
      <4>1. j \in 1 .. i - 1
        BY <2>4, <3>2
      <4>2. p \notin Within(f)
        BY <2>7, <4>1
      <4>3. p \in SetBits(x) <=> p - fields[j].offset \in SetBits(values[j])
        BY <2>2, <4>1 DEF Shows
      <4> HIDE DEF f, v, x
      <4> QED
        BY <2>3, <4>2, <4>3
    <3> QED
      BY <3>1, <3>2
  <2>9. ASSUME NEW p \in Positions, \A j \in 1 .. i : p \notin Within(fields[j])
        PROVE  p \in SetBits(w[i]) <=> p \in SetBits(c)
    <3>1. p \notin Within(f)
      BY <2>6, <2>9
    <3>2. p \in SetBits(x) <=> p \in SetBits(c)
      BY <2>2, <2>5, <2>9 DEF Shows
    <3> HIDE DEF f, v, x
    <3> QED
      BY <2>3, <3>1, <3>2
  <2>10. Shows(w[i], i, c, fields, values)
    BY <2>3, <2>8, <2>9 DEF Shows
  <2> QED
    BY <2>1, <2>10
<1>5. n \in G
  <2>1. n \in 0 .. n
    BY <1>1
  <2> HIDE DEF G
  <2> QED
    BY <1>1, <1>3, <1>4, <2>1, Upwards
<1> QED
  BY <1>2, <1>5 DEF n

(* Values in fields side by side are read back modulo the size of their    *)
(* fields, too large or negative as they may be, and the other bits of the *)
(* container stay, whatever the layout, the container and the values.      *)
THEOREM PackedFieldsApart ==
  ASSUME NEW n \in Nat, NEW fields \in [1 .. n -> Fields],
         \A i, j \in 1 .. n : i # j => Within(fields[i]) \cap Within(fields[j]) = {},
         NEW c \in Word, NEW values \in [1 .. n -> Int]
  PROVE  ReadBack(c, fields, values)
<1> DEFINE packed == Packed(c, fields, values)
           taken  == UNION {Within(fields[i]) : i \in 1 .. n}
<1>1. fields \in Seq(Fields) /\ Len(fields) = n /\ \A i \in 1 .. n : values[i] \in Int
  BY FunctionIsVector
<1>2. Shows(packed, n, c, fields, values)
  BY <1>1, PackedShows
<1> HIDE DEF packed
<1>3. ASSUME NEW i \in 1 .. n
      PROVE  packed_get(fields[i], packed) = values[i] % PowerOfTwo[fields[i].bits]
  <2>1. \A p \in Within(fields[i]) :
          p \in SetBits(packed) <=> p - fields[i].offset \in SetBits(values[i])
    BY <1>2 DEF Shows
  <2> QED
    BY <2>1, FieldReads
<1>4. SetBits(packed) \ taken = SetBits(c) \ taken
  <2>1. \A p \in Positions : p \notin taken => (p \in SetBits(packed) <=> p \in SetBits(c))
    BY <1>2 DEF Shows
  <2> HIDE DEF taken
  <2> QED
    BY <2>1 DEF SetBits
<1>5. DOMAIN fields = 1 .. n
  OBVIOUS
<1> QED
  BY <1>3, <1>4, <1>5 DEF packed, ReadBack

(* The flags of a mask are the ones that have been marked.                 *)
LEMMA MarkedBits ==
  ASSUME NEW positions \in Seq(Positions)
  PROVE  Marked(positions) \in Word /\ SetBits(Marked(positions)) = ToSet(positions)
<1> DEFINE n == Len(positions)
           mask == Marking(positions)
           First(i) == {positions[j] : j \in 1 .. i}
           G == {i \in 0 .. n : SetBits(mask[i]) = First(i)}
<1>1. n \in Nat /\ DOMAIN positions = 1 .. n /\ \A i \in 1 .. n : positions[i] \in Positions
  BY LenProperties
<1>2. /\ Marked(positions) = mask[n] /\ mask[0] = 0
      /\ \A i \in 1 .. n : mask[i] = mark_dirty(mask[i - 1], Flag(positions[i]))
      /\ \A i \in 0 .. n : mask[i] \in Word
  BY MarkingTurns
<1> HIDE DEF n, mask
<1>3. 0 \in G
  BY <1>1, <1>2, FewBits
<1>4. ASSUME NEW i \in 1 .. n, i - 1 \in G
      PROVE  i \in G
  <2>1. First(i) = First(i - 1) \cup {positions[i]}
    <3>1. \A j \in 1 .. i : j = i \/ j \in 1 .. i - 1
      BY <1>1
    <3>2. i \in 1 .. i /\ \A j \in 1 .. i - 1 : j \in 1 .. i
      BY <1>1
    <3> QED
      BY <3>1, <3>2
  <2>2. SetBits(Flag(positions[i])) = {positions[i]}
    BY <1>1, FewBits
  <2>3. mask[i] = (mask[i - 1] | Flag(positions[i]))
    BY <1>2 DEF mark_dirty
  <2>4. SetBits(mask[i - 1] | Flag(positions[i]))
          = SetBits(mask[i - 1]) \cup SetBits(Flag(positions[i]))
    BY OperatorsAre
  <2>5. SetBits(mask[i - 1]) = First(i - 1)
    BY <1>4
  <2>6. SetBits(mask[i]) = First(i) /\ i \in 0 .. n
    <3> HIDE DEF First
    <3> QED
      BY <1>1, <2>1, <2>2, <2>3, <2>4, <2>5
  <2> QED
    BY <2>6
<1>5. n \in G
  <2>1. n \in 0 .. n
    BY <1>1
  <2> HIDE DEF G
  <2> QED
    BY <1>1, <1>3, <1>4, <2>1, Upwards
<1>6. First(n) = ToSet(positions)
  BY <1>1 DEF ToSet
<1>7. n \in 0 .. n
  BY <1>1
<1> QED
  BY <1>2, <1>5, <1>6, <1>7

(* Any flags: each is dirty when it was marked, and clearing one leaves    *)
(* the others alone.                                                       *)
LEMMA FlagsAreApart ==
  ASSUME NEW positions \in Seq(Positions)
  PROVE  FlagsApart(positions)
<1> DEFINE mask == Marked(positions)
           S == ToSet(positions)
<1>1. SetBits(mask) = S
  BY MarkedBits
<1> HIDE DEF mask, S
<1>2. ASSUME NEW m, NEW p \in Positions
      PROVE  is_dirty(m, Flag(p)) <=> p \in SetBits(m)
  <2>1. Flag(p) \in Word /\ SetBits(Flag(p)) = {p}
    BY FewBits
  <2>2. (m & Flag(p)) \in Word /\ SetBits(m & Flag(p)) = SetBits(m) \cap SetBits(Flag(p))
    BY OperatorsAre
  <2>3. (m & Flag(p)) = 0 <=> SetBits(m & Flag(p)) = {}
    BY <2>2, FewBits
  <2> QED
    BY <2>1, <2>2, <2>3 DEF is_dirty
<1>3. ASSUME NEW p \in Positions, NEW other \in Positions
      PROVE  /\ is_dirty(mask, Flag(p)) <=> p \in S
             /\ is_dirty(clear_dirty(mask, Flag(other)), Flag(p)) <=> p \in S \ {other}
  <2> DEFINE cleared == clear_dirty(mask, Flag(other))
  <2>1. SetBits(cleared) = SetBits(mask) \cap SetBits(Complement(Flag(other)))
    BY OperatorsAre DEF clear_dirty
  <2>2. SetBits(Complement(Flag(other))) = Positions \ {other}
    BY FewBits, OperatorsAre
  <2>3. SetBits(cleared) = SetBits(mask) \ {other}
    BY <2>1, <2>2 DEF SetBits
  <2> HIDE DEF cleared
  <2>4. /\ is_dirty(cleared, Flag(p)) <=> p \in SetBits(cleared)
        /\ is_dirty(mask, Flag(p)) <=> p \in SetBits(mask)
    BY <1>2
  <2> QED
    BY <1>1, <2>3, <2>4 DEF cleared
<1> QED
  BY <1>3 DEF FlagsApart, mask, S

(* Any layout with a field for each value, and an empty or a full          *)
(* container.                                                              *)
LEMMA AnyLayoutApart ==
  ASSUME NEW values \in Seq(Int)
  PROVE  PackedApart(values)
<1> DEFINE m == Len(values)
<1>1. m \in Nat /\ DOMAIN values = 1 .. m /\ values \in [1 .. m -> Int]
  BY LenProperties
<1> HIDE DEF m
<1>2. 0 \in Word /\ Width - 1 \in Word
  BY WordFacts DEF Word
<1>3. ASSUME NEW fields \in Layouts, DOMAIN fields = DOMAIN values, NEW c \in {0, Width - 1}
      PROVE  ReadBack(c, fields, values)
  <2>1. PICK n \in 0 .. digits :
          fields \in {l \in [1 .. n -> Fields] : \A i, j \in 1 .. n :
                        i # j => Within(l[i]) \cap Within(l[j]) = {}}
    BY DEF Layouts
  <2>2. DOMAIN fields = 1 .. m /\ c \in Word
    BY <1>1, <1>2, <1>3
  <2>3. /\ fields \in [1 .. m -> Fields]
        /\ \A i, j \in 1 .. m : i # j => Within(fields[i]) \cap Within(fields[j]) = {}
    BY <2>1, <2>2
  <2> QED
    BY <1>1, <2>2, <2>3, PackedFieldsApart
<1> QED
  BY <1>3 DEF PackedApart

(* Whatever vector the column becomes.                                     *)
THEOREM FieldsStayIndependent == ComputeSpec => []FieldsIndependent
<1>1. ASSUME IInv
      PROVE  FieldsIndependent
  <2> DEFINE n == Len(Elements)
  <2>1. Elements \in Seq(Values)
    BY <1>1, ElementsAre DEF IInv
  <2>2. n \in Nat /\ DOMAIN Elements = 1 .. n /\ \A i \in 1 .. n : Elements[i] \in Int
    BY <2>1, CountingAssumption, LenProperties, FS_CardinalityType
  <2> HIDE DEF Elements, n
  <2>3. MaskExact
    <3>1. \A bits \in 0 .. 2 * digits : bits \in Nat
      OBVIOUS
    <3> QED
      BY <3>1, MaskBits DEF MaskExact
  <2>4. PackedApart(Elements)
    <3>1. Elements \in [1 .. n -> Int]
      BY <2>1, <2>2
    <3>2. Elements \in Seq(Int)
      BY <2>2, <3>1, FunctionIsVector
    <3> QED
      BY <3>2, AnyLayoutApart
  <2>5. PackedApart([i \in DOMAIN Elements |-> -Elements[i]])
    <3> DEFINE f == [i \in DOMAIN Elements |-> -Elements[i]]
    <3>1. f \in [1 .. n -> Int]
      BY <2>2
    <3> HIDE DEF f
    <3>2. f \in Seq(Int)
      BY <2>2, <3>1, FunctionIsVector
    <3>3. PackedApart(f)
      BY <3>2, AnyLayoutApart
    <3> QED
      BY <3>3 DEF f
  <2>6. FlagsApart([i \in DOMAIN Elements |-> Elements[i] % digits])
    <3> DEFINE f == [i \in DOMAIN Elements |-> Elements[i] % digits]
    <3>1. f \in [1 .. n -> Positions]
      BY <2>2, WordFacts DEF Positions
    <3> HIDE DEF f
    <3>2. f \in Seq(Positions)
      BY <2>2, <3>1, FunctionIsVector
    <3>3. FlagsApart(f)
      BY <3>2, FlagsAreApart
    <3> QED
      BY <3>3 DEF f
  <2> QED
    BY <2>3, <2>4, <2>5, <2>6 DEF FieldsIndependent
<1> QED
  BY <1>1, Invariance, PTL

-----------------------------------------------------------------------------
(* bitmap.                                                                 *)

(* popcount counts down as for_each_set clears the bits.                   *)
LEMMA Countdown ==
  ASSUME NEW x \in Word
  PROVE  /\ popcount(x) \in 0 .. digits /\ (popcount(x) = 0 <=> x = 0)
         /\ IsFiniteSet(SetBits(x)) /\ SetBits(x) \subseteq Positions
         /\ x # 0 => /\ (x & (x - 1)) \in Word
                     /\ popcount(x & (x - 1)) = popcount(x) - 1
<1>1. SetBits(x) \in SUBSET Positions /\ IsFiniteSet(Positions)
  BY WordFacts DEF SetBits
<1>2. Cardinality(Positions) = digits
  <2>1. digits \in Nat /\ 0 \in Int /\ digits - 1 \in Int /\ ~(0 > digits - 1)
    BY WordFacts
  <2>2. Cardinality(0 .. digits - 1) = (digits - 1) - 0 + 1
    BY <2>1, FS_Interval
  <2> QED
    BY <2>1, <2>2 DEF Positions
<1>3. IsFiniteSet(SetBits(x)) /\ Cardinality(SetBits(x)) <= Cardinality(Positions)
  BY <1>1, FS_Subset
<1>4. Cardinality(SetBits(x)) \in Nat /\ digits \in Nat
  BY <1>3, WordFacts, FS_CardinalityType
<1>5. popcount(x) = 0 <=> x = 0
  BY <1>3, FewBits, FS_EmptySet DEF popcount
<1>6. ASSUME x # 0
      PROVE  (x & (x - 1)) \in Word /\ popcount(x & (x - 1)) = popcount(x) - 1
  BY <1>3, <1>6, LowestCleared, FS_RemoveElement DEF popcount
<1> QED
  BY <1>1, <1>2, <1>3, <1>4, <1>5, <1>6 DEF popcount

(* The inner loop ends, so that its visits satisfy their equation.         *)
LEMMA VisitedIs ==
  ASSUME NEW x \in Word
  PROVE  Visited[x] = IF x = 0 THEN <<>>
                      ELSE <<countr_zero(x)>> \o Visited[x & (x - 1)]
<1> DEFINE V == [Word -> Seq(Positions)]
           One(g, y) == IF y = 0 THEN <<>> ELSE <<countr_zero(y)>> \o g[y & (y - 1)]
           F == [i \in 1 .. digits |-> [g \in V |-> [y \in Word |-> One(g, y)]]]
           Z == [y \in Word |-> <<>>]
           Rec(g) == g = [y \in Word |-> One(g, y)]
<1>1. digits \in Nat \ {0, 1} /\ digits \in 0 .. digits
  BY WordFacts
<1>2. Z \in V
  BY EmptySeq
<1>3. ASSUME NEW g \in V, NEW y \in Word
      PROVE  One(g, y) \in Seq(Positions)
  <2>1. CASE y = 0
    BY <2>1, EmptySeq
  <2>2. CASE y # 0
    <3>1. countr_zero(y) \in Positions /\ (y & (y - 1)) \in Word
      BY <2>2, LowestCleared, Countdown
    <3>2. <<countr_zero(y)>> \in Seq(Positions) /\ g[y & (y - 1)] \in Seq(Positions)
      BY <3>1
    <3>3. <<countr_zero(y)>> \o g[y & (y - 1)] \in Seq(Positions)
      BY <3>2, ConcatProperties
    <3> QED
      BY <2>2, <3>3
  <2> QED
    BY <2>1, <2>2
<1> HIDE DEF One, Z
<1>4. F \in [1 .. digits -> [V -> V]]
  BY <1>3
<1>5. PICK f \in [0 .. digits -> V] :
        f[0] = Z /\ \A i \in 1 .. digits : f[i] = F[i][f[i - 1]]
  <2> HIDE DEF F, V
  <2>1. Results(digits, V, Z, F) # {}
    BY <1>1, <1>2, <1>4, RecursionHasResult
  <2> QED
    BY <2>1 DEF Results
<1>6. \A i \in 1 .. digits : \A y \in Word : f[i][y] = One(f[i - 1], y)
  <2>1. ASSUME NEW i \in 1 .. digits, NEW y \in Word
        PROVE  f[i][y] = One(f[i - 1], y)
    <3>1. i - 1 \in 0 .. digits
      BY <1>1
    <3>2. f[i - 1] \in V
      <4> HIDE DEF V, F
      <4> QED
        BY <1>5, <3>1
    <3>3. F[i][f[i - 1]] = [w \in Word |-> One(f[i - 1], w)]
      <4> HIDE DEF V
      <4> QED
        BY <3>2
    <3>4. f[i] = [w \in Word |-> One(f[i - 1], w)]
      <4> HIDE DEF V, F
      <4> QED
        BY <1>5, <3>3
    <3> QED
      BY <3>4
  <2> QED
    BY <2>1
<1> HIDE DEF V, F
\* a word of few bits is done after as many turns
<1> DEFINE Done(i) == \A y \in Word : popcount(y) <= i => f[i + 1][y] = f[i][y]
           G == {i \in 0 .. digits - 1 : Done(i)}
<1>7. 0 \in G
  <2>1. ASSUME NEW y \in Word, popcount(y) <= 0
        PROVE  f[0 + 1][y] = f[0][y]
    <3>1. y = 0
      BY <2>1, Countdown
    <3>2. f[1][y] = One(f[1 - 1], y)
      BY <1>1, <1>6
    <3> QED
      BY <1>5, <3>1, <3>2 DEF One, Z
  <2> QED
    BY <1>1, <2>1
<1>8. ASSUME NEW i \in 1 .. digits - 1, i - 1 \in G
      PROVE  i \in G
  <2>1. ASSUME NEW y \in Word, popcount(y) <= i
        PROVE  f[i + 1][y] = f[i][y]
    <3>1. i \in 1 .. digits /\ i + 1 \in 1 .. digits /\ (i + 1) - 1 = i /\ (i - 1) + 1 = i
      BY <1>1
    <3>2. f[i + 1][y] = One(f[i], y) /\ f[i][y] = One(f[i - 1], y)
      BY <1>6, <3>1
    <3>3. CASE y = 0
      BY <3>2, <3>3 DEF One
    <3>4. CASE y # 0
      <4>1. (y & (y - 1)) \in Word /\ popcount(y & (y - 1)) <= i - 1
        BY <1>1, <2>1, <3>4, Countdown
      <4>2. f[i][y & (y - 1)] = f[i - 1][y & (y - 1)]
        BY <1>8, <3>1, <4>1
      <4> QED
        BY <3>2, <3>4, <4>2 DEF One
    <3> QED
      BY <3>3, <3>4
  <2> QED
    BY <1>1, <2>1
<1>9. digits - 1 \in G
  <2>1. digits - 1 \in Nat /\ digits - 1 \in 0 .. digits - 1
    BY <1>1
  <2> HIDE DEF G
  <2> QED
    BY <1>7, <1>8, <2>1, Upwards
<1>10. Rec(f[digits])
  <2>1. ASSUME NEW y \in Word
        PROVE  f[digits][y] = One(f[digits], y)
    <3>1. digits \in 1 .. digits /\ (digits - 1) + 1 = digits
      BY <1>1
    <3>2. f[digits][y] = One(f[digits - 1], y)
      BY <1>6, <3>1
    <3>3. CASE y = 0
      BY <3>2, <3>3 DEF One
    <3>4. CASE y # 0
      <4>1. (y & (y - 1)) \in Word /\ popcount(y & (y - 1)) <= digits - 1
        BY <1>1, <3>4, Countdown
      <4>2. f[digits][y & (y - 1)] = f[digits - 1][y & (y - 1)]
        BY <1>9, <3>1, <4>1
      <4> QED
        BY <3>2, <3>4, <4>2 DEF One
    <3> QED
      BY <3>3, <3>4
  <2>2. f[digits] \in [Word -> Seq(Positions)]
    BY <1>1, <1>5 DEF V
  <2> QED
    BY <2>1, <2>2
<1>11. Rec(CHOOSE g : Rec(g))
  <2>1. \E g : Rec(g)
    BY <1>10
  <2> HIDE DEF Rec
  <2> QED
    BY <2>1
<1>12. Visited = CHOOSE g : Rec(g)
  BY DEF Visited, One
<1>13. Rec(Visited)
  BY <1>11, <1>12
<1> QED
  BY <1>13 DEF One

(* Visits that go up, each position once.                                  *)
Ascends(visits) == \A j, k \in DOMAIN visits : j < k => visits[j] < visits[k]

(* Visits that go up, and then others above them.                          *)
LEMMA GoesOnAscending ==
  ASSUME NEW s \in Seq(Nat), NEW t \in Seq(Nat), Ascends(s), Ascends(t),
         \A a \in ToSet(s), b \in ToSet(t) : a < b
  PROVE  s \o t \in Seq(Nat) /\ Ascends(s \o t) /\ ToSet(s \o t) = ToSet(s) \cup ToSet(t)
<1> DEFINE m == Len(s)
           n == Len(t)
           u == s \o t
<1>1. /\ m \in Nat /\ n \in Nat /\ DOMAIN s = 1 .. m /\ DOMAIN t = 1 .. n
      /\ \A i \in 1 .. m : s[i] \in ToSet(s)
      /\ \A i \in 1 .. n : t[i] \in ToSet(t)
  BY LenProperties DEF ToSet
<1>2. /\ u \in Seq(Nat) /\ Len(u) = m + n
      /\ \A i \in 1 .. m + n : u[i] = IF i <= m THEN s[i] ELSE t[i - m]
  BY ConcatProperties
<1>3. DOMAIN u = 1 .. m + n
  BY <1>2, LenProperties
<1> HIDE DEF m, n, u
<1>4. /\ \A i \in 1 .. m : i \in 1 .. m + n /\ u[i] = s[i]
      /\ \A i \in 1 .. n : m + i \in 1 .. m + n /\ u[m + i] = t[i]
  <2>1. ASSUME NEW i \in 1 .. m
        PROVE  i \in 1 .. m + n /\ u[i] = s[i]
    BY <1>1, <1>2
  <2>2. ASSUME NEW i \in 1 .. n
        PROVE  m + i \in 1 .. m + n /\ u[m + i] = t[i]
    <3>1. m + i \in 1 .. m + n /\ ~(m + i <= m) /\ (m + i) - m = i
      BY <1>1
    <3> QED
      BY <1>2, <3>1
  <2> QED
    BY <2>1, <2>2
<1>5. \A i \in 1 .. m + n : i \in 1 .. m \/ (~(i \in 1 .. m) /\ i - m \in 1 .. n
                                             /\ m + (i - m) = i)
  BY <1>1
<1>6. ToSet(u) = ToSet(s) \cup ToSet(t)
  <2>1. \A e \in ToSet(u) : e \in ToSet(s) \cup ToSet(t)
    <3>1. ASSUME NEW i \in 1 .. m + n
          PROVE  u[i] \in ToSet(s) \cup ToSet(t)
      BY <1>1, <1>4, <1>5
    <3> QED
      BY <1>3, <3>1 DEF ToSet
  <2>2. \A i \in 1 .. m : s[i] \in ToSet(u)
    BY <1>3, <1>4 DEF ToSet
  <2>3. \A i \in 1 .. n : t[i] \in ToSet(u)
    BY <1>3, <1>4 DEF ToSet
  <2>4. ToSet(s) \subseteq ToSet(u)
    BY <1>1, <2>2 DEF ToSet
  <2>5. ToSet(t) \subseteq ToSet(u)
    BY <1>1, <2>3 DEF ToSet
  <2> QED
    BY <2>1, <2>4, <2>5
<1>7. ASSUME NEW j \in 1 .. m + n, NEW k \in 1 .. m + n, j < k
      PROVE  u[j] < u[k]
  <2>1. CASE j \in 1 .. m /\ k \in 1 .. m
    BY <1>1, <1>4, <1>7, <2>1 DEF Ascends
  <2>2. CASE j \in 1 .. m /\ k \notin 1 .. m
    <3>1. k - m \in 1 .. n /\ u[k] = t[k - m]
      BY <1>4, <1>5, <2>2
    <3> QED
      BY <1>1, <1>4, <2>2, <3>1
  <2>3. CASE j \notin 1 .. m /\ k \notin 1 .. m
    <3>1. k - m \in 1 .. n /\ u[k] = t[k - m] /\ j - m \in 1 .. n /\ u[j] = t[j - m]
          /\ j - m < k - m
      BY <1>1, <1>4, <1>5, <1>7, <2>3
    <3> QED
      BY <1>1, <3>1 DEF Ascends
  <2>4. CASE j \notin 1 .. m /\ k \in 1 .. m
    BY <1>1, <1>7, <2>4
  <2> QED
    BY <2>1, <2>2, <2>3, <2>4
<1>8. Ascends(u)
  BY <1>3, <1>7 DEF Ascends
<1> QED
  BY <1>2, <1>6, <1>8 DEF u

(* The inner loop visits the bits of the word, going up.                   *)
LEMMA VisitedBits ==
  ASSUME NEW x \in Word
  PROVE  Visited[x] \in Seq(Nat) /\ Ascends(Visited[x]) /\ ToSet(Visited[x]) = SetBits(x)
<1> DEFINE Good(y) == /\ Visited[y] \in Seq(Nat) /\ Ascends(Visited[y])
                      /\ ToSet(Visited[y]) = SetBits(y)
           G == {i \in 0 .. digits : \A y \in Word : popcount(y) <= i => Good(y)}
<1>1. digits \in Nat /\ digits \in 0 .. digits /\ 0 \in 0 .. digits /\ Positions \subseteq Nat
  BY WordFacts DEF Positions
<1>2. 0 \in Word /\ Good(0)
  <2>1. 0 \in Word /\ SetBits(0) = {}
    BY WordFacts, FewBits
  <2>2. Visited[0] = <<>>
    BY <2>1, VisitedIs
  <2>3. <<>> \in Seq(Nat) /\ DOMAIN <<>> = {} /\ ToSet(<<>>) = {}
    BY EmptySeq DEF ToSet
  <2> QED
    BY <2>1, <2>2, <2>3 DEF Ascends
<1>3. 0 \in G
  <2>1. \A y \in Word : popcount(y) <= 0 => y = 0
    BY Countdown
  <2> HIDE DEF Good
  <2> QED
    BY <1>1, <1>2, <2>1
<1>4. ASSUME NEW i \in 1 .. digits, i - 1 \in G
      PROVE  i \in G
  <2>1. ASSUME NEW y \in Word, popcount(y) <= i
        PROVE  Good(y)
    <3>1. CASE y = 0
      BY <1>2, <3>1
    <3>2. CASE y # 0
      <4> DEFINE z == y & (y - 1)
                 m == countr_zero(y)
                 s == <<m>>
      <4>1. /\ z \in Word /\ popcount(z) <= i - 1 /\ SetBits(z) = SetBits(y) \ {m}
            /\ m \in SetBits(y) /\ SetBits(y) \subseteq Positions
            /\ \A b \in SetBits(y) : m <= b
        BY <1>1, <2>1, <3>2, Countdown, LowestCleared
      <4>2. Visited[y] = s \o Visited[z]
        BY <3>2, VisitedIs
      <4> HIDE DEF z, m
      <4>3. Good(z)
        <5> HIDE DEF Good
        <5> QED
          BY <1>4, <4>1
      <4>4. m \in Nat
        BY <1>1, <4>1
      <4>5. s \in Seq(Nat) /\ Ascends(s) /\ ToSet(s) = {m}
        <5>1. s \in Seq(Nat)
          BY <4>4
        <5>2. DOMAIN s = {1} /\ s[1] = m
          OBVIOUS
        <5> HIDE DEF s
        <5>3. Ascends(s)
          BY <5>2 DEF Ascends
        <5>4. ToSet(s) = {m}
          BY <5>2 DEF ToSet
        <5> QED
          BY <5>1, <5>3, <5>4
      <4> HIDE DEF s
      <4>6. \A a \in ToSet(s), b \in ToSet(Visited[z]) : a < b
        <5>1. \A b \in SetBits(z) : m <= b /\ b # m /\ b \in Nat
          BY <1>1, <4>1
        <5> QED
          BY <4>3, <4>4, <4>5, <5>1
      <4>7. /\ s \o Visited[z] \in Seq(Nat) /\ Ascends(s \o Visited[z])
            /\ ToSet(s \o Visited[z]) = ToSet(s) \cup ToSet(Visited[z])
        BY <4>3, <4>5, <4>6, GoesOnAscending
      <4>8. ToSet(s) \cup ToSet(Visited[z]) = SetBits(y)
        BY <4>1, <4>3, <4>5
      <4> QED
        BY <4>2, <4>7, <4>8
    <3> QED
      BY <3>1, <3>2
  <2> HIDE DEF Good
  <2> QED
    BY <1>1, <2>1
<1>5. digits \in G
  <2> HIDE DEF G
  <2> QED
    BY <1>1, <1>3, <1>4, Upwards
<1>6. popcount(x) <= digits
  BY Countdown
<1> QED
  BY <1>5, <1>6

(* The word and the place of a bit, by a division.                         *)
LEMMA BitPlaces ==
  /\ \A i \in Nat : /\ i \div digits \in Nat /\ i % digits \in Positions
                    /\ ((i \div digits) + 1 - 1) * digits + (i % digits) = i
  /\ \A k \in Nat \ {0} : \A p \in Positions :
       /\ (k - 1) * digits + p \in Nat
       /\ ((k - 1) * digits + p) \div digits = k - 1
       /\ ((k - 1) * digits + p) % digits = p
       /\ \A n \in Nat : (k - 1) * digits + p < n * digits <=> k <= n
<1>1. digits \in Nat \ {0}
  BY WordFacts
<1>2. ASSUME NEW i \in Nat
      PROVE  /\ i \div digits \in Nat /\ i % digits \in Positions
             /\ ((i \div digits) + 1 - 1) * digits + (i % digits) = i
  <2> DEFINE q == i \div digits
             r == i % digits
  <2>1. q \in Nat /\ r \in 0 .. digits - 1 /\ i = digits * q + r
    BY <1>1
  <2> HIDE DEF q, r
  <2>2. q + 1 - 1 = q /\ q * digits = digits * q
    BY <1>1, <2>1
  <2>3. (q + 1 - 1) * digits + r = i
    BY <2>1, <2>2
  <2> QED
    BY <2>1, <2>3 DEF q, r, Positions
<1>3. ASSUME NEW k \in Nat \ {0}, NEW p \in Positions
      PROVE  /\ (k - 1) * digits + p \in Nat
             /\ ((k - 1) * digits + p) \div digits = k - 1
             /\ ((k - 1) * digits + p) % digits = p
             /\ \A n \in Nat : (k - 1) * digits + p < n * digits <=> k <= n
  <2> DEFINE b == (k - 1) * digits
             i == b + p
  <2>1. k - 1 \in Nat /\ b = digits * (k - 1) /\ b \in Nat /\ p \in 0 .. digits - 1
    BY <1>1 DEF Positions
  <2>2. i \in Nat /\ i - digits * (k - 1) = p
    BY <2>1
  <2>3. i \div digits = k - 1 /\ i % digits = p
    <3> DEFINE h == k - 1
    <3>1. /\ i \in Int /\ digits \in Nat \ {0} /\ h \in Int
          /\ i - digits * h = p /\ p \in 0 .. digits - 1
      BY <1>1, <2>1, <2>2
    <3> HIDE DEF i, b, h
    <3>2. i \div digits = h /\ i % digits = i - digits * h
      BY <3>1, QuotientIs
    <3> QED
      BY <3>1, <3>2 DEF h
  <2>4. ASSUME NEW n \in Nat
        PROVE  i < n * digits <=> k <= n
    <3>1. CASE k <= n
      <4> DEFINE d == n - k
      <4>1. d \in Nat /\ n = (k - 1) + 1 + d
        BY <2>1, <3>1
      <4> HIDE DEF d, i
      <4>2. n * digits = b + digits + d * digits /\ d * digits >= 0
        BY <1>1, <2>1, <4>1
      <4> QED
        BY <1>1, <2>1, <3>1, <4>1, <4>2 DEF i
    <3>2. CASE ~(k <= n)
      <4> DEFINE d == (k - 1) - n
      <4>1. d \in Nat /\ k - 1 = n + d
        BY <2>1, <3>2
      <4> HIDE DEF d, i
      <4>2. b = n * digits + d * digits /\ d * digits \in Nat /\ n * digits \in Nat
        BY <1>1, <2>1, <4>1
      <4> HIDE DEF b
      <4> QED
        BY <1>1, <2>1, <3>2, <4>1, <4>2 DEF i
    <3> QED
      BY <3>1, <3>2
  <2> QED
    BY <2>2, <2>3, <2>4
<1> QED
  BY <1>2, <1>3

(* The bitmap of the set S of bits: as many words as needed, and each has  *)
(* the bits of S that are its own.                                         *)
Holds(words, S) ==
  /\ words \in Seq(Word)
  /\ S \subseteq Nat /\ \A i \in S : i < Len(words) * digits
  /\ \A k \in 1 .. Len(words) : \A p \in Positions :
       p \in SetBits(words[k]) <=> (k - 1) * digits + p \in S

(* A new bitmap has room for its bits, and none is set.                    *)
LEMMA EmptyHolds ==
  ASSUME NEW n \in Nat
  PROVE  Holds(bitmap(n), {}) /\ n <= Len(bitmap(n)) * digits
<1> DEFINE m == (n + digits - 1) \div digits
<1>1. digits \in Nat \ {0} /\ n + digits - 1 \in Nat
  BY WordFacts
<1>2. m \in Nat /\ n <= m * digits
  <2> DEFINE r == (n + digits - 1) % digits
  <2>1. m \in Nat /\ r \in 0 .. digits - 1 /\ n + digits - 1 = digits * m + r
    BY <1>1
  <2> HIDE DEF m, r
  <2>2. digits * m = m * digits /\ m * digits \in Int
    BY <1>1, <2>1
  <2> QED
    BY <1>1, <2>1, <2>2
<1> HIDE DEF m
<1>3. bitmap(n) \in [1 .. m -> Word] /\ \A k \in 1 .. m : bitmap(n)[k] = 0
  BY WordFacts DEF bitmap, m
<1>4. bitmap(n) \in Seq(Word) /\ Len(bitmap(n)) = m
  BY <1>2, <1>3, FunctionIsVector
<1> QED
  BY <1>2, <1>3, <1>4, FewBits DEF Holds

(* set adds its bit.                                                       *)
LEMMA SetHolds ==
  ASSUME NEW words, NEW S, Holds(words, S),
         NEW i \in Nat, i < Len(words) * digits
  PROVE  Holds(bitmap_set(words, i), S \cup {i}) /\ Len(bitmap_set(words, i)) = Len(words)
<1> DEFINE n == Len(words)
           at == (i \div digits) + 1
           p == i % digits
           w == words[at] | Flag(p)
           after == bitmap_set(words, i)
<1>1. n \in Nat /\ words \in Seq(Word) /\ DOMAIN words = 1 .. n
  BY LenProperties DEF Holds
<1>2. p \in Positions /\ at \in Nat \ {0} /\ (at - 1) * digits + p = i
  <2> DEFINE q == i \div digits
  <2>1. q \in Nat /\ p \in Positions /\ (q + 1 - 1) * digits + p = i
    BY BitPlaces
  <2> HIDE DEF q, p
  <2>2. at = q + 1
    BY DEF q
  <2> QED
    BY <2>1, <2>2
<1>3. at \in 1 .. n
  <2> HIDE DEF at, p
  <2>1. at <= n
    BY <1>1, <1>2, BitPlaces
  <2> QED
    BY <1>1, <1>2, <2>1
<1>4. w \in Word /\ SetBits(w) = SetBits(words[at]) \cup {p}
  <2>1. SetBits(Flag(p)) = {p}
    BY <1>2, FewBits
  <2> QED
    BY <2>1, OperatorsAre
<1>5. after = [words EXCEPT ![at] = w]
  BY DEF bitmap_set, Flag
<1> HIDE DEF w, after, at, p
<1>6. after \in Seq(Word) /\ Len(after) = n
  BY <1>1, <1>3, <1>4, <1>5, ExceptSeq
<1>7. ASSUME NEW k \in 1 .. n, NEW b \in Positions
      PROVE  b \in SetBits(after[k]) <=> (k - 1) * digits + b \in S \cup {i}
  <2>1. b \in SetBits(words[k]) <=> (k - 1) * digits + b \in S
    BY DEF Holds
  <2>2. k \in Nat \ {0}
    BY <1>1
  <2>3. (k - 1) * digits + b = i <=> k = at /\ b = p
    <3>1. k - 1 = at - 1 <=> k = at
      BY <1>2, <2>2
    <3>2. ((k - 1) * digits + b) \div digits = k - 1 /\ ((k - 1) * digits + b) % digits = b
      BY <2>2, BitPlaces
    <3>3. ((at - 1) * digits + p) \div digits = at - 1 /\ ((at - 1) * digits + p) % digits = p
      BY <1>2, BitPlaces
    <3> QED
      BY ONLY <1>2, <3>1, <3>2, <3>3
  <2>4. CASE k = at
    <3>1. after[k] = w
      BY <1>1, <1>3, <1>5, <2>4
    <3> QED
      BY <1>4, <2>1, <2>3, <2>4, <3>1
  <2>5. CASE k # at
    <3>1. after[k] = words[k]
      BY <1>1, <1>5, <2>5
    <3> QED
      BY <2>1, <2>3, <2>5, <3>1
  <2> QED
    BY <2>4, <2>5
<1> QED
  BY <1>6, <1>7 DEF Holds, after

(* test tells whether a bit is set.                                        *)
LEMMA TestIs ==
  ASSUME NEW words, NEW S, Holds(words, S),
         NEW i \in Nat, i < Len(words) * digits
  PROVE  bitmap_test(words, i) <=> i \in S
<1> DEFINE at == (i \div digits) + 1
           p == i % digits
           low == Shr(words[at], p)
<1>1. Len(words) \in Nat /\ words \in Seq(Word)
  BY LenProperties DEF Holds
<1>2. p \in Positions /\ at \in Nat \ {0} /\ (at - 1) * digits + p = i
  <2> DEFINE q == i \div digits
  <2>1. q \in Nat /\ p \in Positions /\ (q + 1 - 1) * digits + p = i
    BY BitPlaces
  <2> HIDE DEF q, p
  <2>2. at = q + 1
    BY DEF q
  <2> QED
    BY <2>1, <2>2
<1> HIDE DEF at, p
<1>3. at \in 1 .. Len(words)
  <2>1. at <= Len(words)
    BY <1>1, <1>2, BitPlaces
  <2> QED
    BY <1>1, <1>2, <2>1
<1>4. words[at] \in Word
  BY <1>1, <1>3, ElementOfSeq
<1>5. low \in Word /\ SetBits(low) = {b \in Positions : b + p \in SetBits(words[at])}
  BY <1>2, <1>4, ShrBits
<1> HIDE DEF low
<1>6. (low & 1) \in Word /\ SetBits(low & 1) = SetBits(low) \cap {0}
  BY FewBits, OperatorsAre
<1>7. (low & 1) # 0 <=> 0 \in SetBits(low)
  BY <1>6, FewBits
<1>8. 0 \in SetBits(low) <=> p \in SetBits(words[at])
  <2>1. 0 \in Positions /\ 0 + p = p
    BY <1>2, FewBits DEF Positions
  <2> QED
    BY <1>5, <2>1
<1>9. p \in SetBits(words[at]) <=> i \in S
  BY <1>2, <1>3 DEF Holds
<1>10. bitmap_test(words, i) <=> (low & 1) # 0
  BY DEF bitmap_test, low, at, p
<1> QED
  BY <1>7, <1>8, <1>9, <1>10

(* The bits of the first k words, and those of word k.                     *)
Below(S, k)     == {b \in S : b < k * digits}
Moved(words, k) == {(k - 1) * digits + p : p \in SetBits(words[k])}

(* Word by word, each has the bits above those of the words before.        *)
LEMMA NextWord ==
  ASSUME NEW words, NEW S, Holds(words, S)
  PROVE  /\ Below(S, 0) = {} /\ Below(S, Len(words)) = S
         /\ \A k \in 1 .. Len(words) :
              /\ Below(S, k) = Below(S, k - 1) \cup Moved(words, k)
              /\ \A a \in Below(S, k - 1), b \in Moved(words, k) : a < b
<1>1. Len(words) \in Nat /\ S \subseteq Nat /\ digits \in Nat
  BY LenProperties, WordFacts DEF Holds
<1>2. Below(S, 0) = {}
  <2>1. \A b \in S : ~(b < 0 * digits)
    BY <1>1
  <2> QED
    BY <2>1 DEF Below
<1>3. Below(S, Len(words)) = S
  BY DEF Holds, Below
<1>4. ASSUME NEW k \in 1 .. Len(words)
      PROVE  /\ Below(S, k) = Below(S, k - 1) \cup Moved(words, k)
             /\ \A a \in Below(S, k - 1), b \in Moved(words, k) : a < b
  <2>1. k \in Nat \ {0} /\ k - 1 \in Nat /\ k \in Nat /\ k <= k
    BY <1>1
  <2>2. ASSUME NEW b \in S
        PROVE  b \in Below(S, k) <=> b \in Below(S, k - 1) \/ b \in Moved(words, k)
    <3> DEFINE q == b \div digits
               r == b % digits
    <3>1. b \in Nat
      BY <1>1
    <3>2. q \in Nat /\ r \in Positions /\ (q + 1 - 1) * digits + r = b
      BY <3>1, BitPlaces
    <3> HIDE DEF q, r
    <3>3. q + 1 \in Nat \ {0}
      BY <3>2
    <3>4. (b < k * digits <=> q + 1 <= k) /\ (b < (k - 1) * digits <=> q + 1 <= k - 1)
      <4> DEFINE at == q + 1
      <4>1. at \in Nat \ {0} /\ (at - 1) * digits + r = b
        BY <3>2, <3>3
      <4> HIDE DEF at
      <4>2. \A n \in Nat : (at - 1) * digits + r < n * digits <=> at <= n
        BY <3>2, <4>1, BitPlaces
      <4>3. \A n \in Nat : b < n * digits <=> at <= n
        BY <4>1, <4>2
      <4> QED
        BY <2>1, <4>3 DEF at
    <3>5. b \in Moved(words, k) => b < k * digits
      <4>1. ASSUME NEW p \in SetBits(words[k])
            PROVE  (k - 1) * digits + p < k * digits
        <5>1. p \in Positions
          BY DEF SetBits
        <5> QED
          BY <2>1, <5>1, BitPlaces
      <4> QED
        BY <4>1 DEF Moved
    <3>6. q + 1 = k => b \in Moved(words, k)
      <4>1. SUFFICES ASSUME q + 1 = k PROVE b \in Moved(words, k)
        OBVIOUS
      <4>2. (k - 1) * digits + r = b
        BY <3>2, <4>1
      <4>3. r \in SetBits(words[k])
        BY <3>2, <4>2 DEF Holds
      <4> QED
        BY <4>2, <4>3 DEF Moved
    <3>7. q + 1 <= k <=> q + 1 <= k - 1 \/ q + 1 = k
      BY <2>1, <3>2
    <3> QED
      BY <3>4, <3>5, <3>6, <3>7 DEF Below
  <2>3. Moved(words, k) \subseteq S
    <3>1. ASSUME NEW p \in SetBits(words[k])
          PROVE  (k - 1) * digits + p \in S
      <4>1. p \in Positions
        BY DEF SetBits
      <4> QED
        BY <4>1 DEF Holds
    <3> QED
      BY <3>1 DEF Moved
  <2>4. Below(S, k) = Below(S, k - 1) \cup Moved(words, k)
    <3>1. Below(S, k) \subseteq S /\ Below(S, k - 1) \subseteq S
      BY DEF Below
    <3> QED
      BY <2>2, <2>3, <3>1
  <2>5. ASSUME NEW a \in Below(S, k - 1), NEW p \in SetBits(words[k])
        PROVE  a < (k - 1) * digits + p
    <3> DEFINE t == (k - 1) * digits
    <3>1. a \in Nat /\ a < t
      BY <1>1 DEF Below
    <3>2. t \in Nat
      BY <1>1, <2>1
    <3>3. p \in Nat
      BY <1>1 DEF SetBits, Positions
    <3> HIDE DEF t
    <3>4. a < t + p
      BY <3>1, <3>2, <3>3
    <3> QED
      BY <3>4 DEF t
  <2> QED
    BY <2>4, <2>5 DEF Moved
<1> QED
  BY <1>2, <1>3, <1>4

(* The count after each word.                                              *)
Counting(words) ==
  CHOOSE after : after = [i \in 0 .. Len(words) |->
    IF i = 0 THEN 0 ELSE after[i - 1] + popcount(words[i])]

(* One word at each turn.                                                  *)
LEMMA CountingTurns ==
  ASSUME NEW words \in Seq(Word)
  PROVE  /\ bitmap_count(words) = Counting(words)[Len(words)]
         /\ Counting(words)[0] = 0
         /\ \A i \in 1 .. Len(words) :
              Counting(words)[i] = Counting(words)[i - 1] + popcount(words[i])
         /\ \A i \in 0 .. Len(words) : Counting(words)[i] \in Nat
<1> DEFINE n == Len(words)
           Step(i, x) == x + popcount(words[i])
           F == [i \in 1 .. n |-> [x \in Nat |-> Step(i, x)]]
           Rec(f) == f = [i \in 0 .. n |-> IF i = 0 THEN 0 ELSE Step(i, f[i - 1])]
           after == Counting(words)
<1>1. n \in Nat /\ 0 \in Nat
  BY LenProperties
<1>2. ASSUME NEW i \in 1 .. n, NEW x \in Nat
      PROVE  Step(i, x) \in Nat
  <2>1. words[i] \in Word
    BY LenProperties
  <2>2. popcount(words[i]) \in 0 .. digits /\ digits \in Nat
    BY <2>1, Countdown, WordFacts
  <2> QED
    BY <2>2
<1>3. after = CHOOSE g : Rec(g)
  BY DEF Counting
<1>4. bitmap_count(words) = after[n]
  BY DEF bitmap_count, Counting
<1> HIDE DEF n, Step, after
<1>5. PICK f \in [0 .. n -> Nat] :
        f[0] = 0 /\ \A i \in 1 .. n : f[i] = F[i][f[i - 1]]
  <2>1. F \in [1 .. n -> [Nat -> Nat]]
    BY <1>2
  <2> HIDE DEF F
  <2>2. Results(n, Nat, 0, F) # {}
    BY <1>1, <2>1, RecursionHasResult
  <2> QED
    BY <2>2 DEF Results
<1>6. \A i \in 1 .. n : f[i] = Step(i, f[i - 1])
  <2>1. \A i \in 1 .. n : f[i - 1] \in Nat
    <3>1. \A i \in 1 .. n : i - 1 \in 0 .. n
      BY <1>1
    <3> HIDE DEF F
    <3> QED
      BY <1>5, <3>1
  <2> QED
    BY <1>5, <2>1
<1> HIDE DEF F
<1>7. f = [i \in 0 .. n |-> IF i = 0 THEN 0 ELSE Step(i, f[i - 1])]
  <2>1. \A i \in 0 .. n : i # 0 => i \in 1 .. n
    BY <1>1
  <2>2. \A i \in 0 .. n : f[i] = IF i = 0 THEN 0 ELSE Step(i, f[i - 1])
    BY <1>5, <1>6, <2>1
  <2> QED
    BY <1>5, <2>2
<1>8. Rec(after)
  <2>1. \E g : Rec(g)
    BY <1>7
  <2> HIDE DEF Rec
  <2> QED
    BY <1>3, <2>1
<1>9. after[0] = 0 /\ \A i \in 1 .. n : after[i] = Step(i, after[i - 1])
  <2>1. \A i \in 0 .. n : after[i] = IF i = 0 THEN 0 ELSE Step(i, after[i - 1])
    BY <1>8
  <2>2. 0 \in 0 .. n /\ \A i \in 1 .. n : i \in 0 .. n /\ i # 0
    BY <1>1
  <2> QED
    BY <2>1, <2>2
<1> HIDE DEF Rec
<1>10. \A i \in 0 .. n : after[i] \in Nat
  <2> DEFINE G == {i \in 0 .. n : after[i] \in Nat}
  <2>1. 0 \in G
    BY <1>1, <1>9
  <2>2. ASSUME NEW i \in 1 .. n, i - 1 \in G
        PROVE  i \in G
    <3>1. after[i - 1] \in Nat /\ i \in 0 .. n
      BY <1>1, <2>2
    <3>2. Step(i, after[i - 1]) \in Nat
      BY <1>2, <3>1
    <3> QED
      BY <1>9, <3>1, <3>2
  <2> HIDE DEF G
  <2>3. \A i \in 0 .. n : i \in G
    BY <1>1, <2>1, <2>2, Upwards
  <2> QED
    BY <2>3 DEF G
<1> QED
  BY <1>4, <1>9, <1>10 DEF n, Step, after

(* count is the number of bits.                                            *)
LEMMA CountIs ==
  ASSUME NEW words, NEW S, Holds(words, S)
  PROVE  bitmap_count(words) = Cardinality(S)
<1> DEFINE n == Len(words)
           c == Counting(words)
           G == {k \in 0 .. n : IsFiniteSet(Below(S, k)) /\ c[k] = Cardinality(Below(S, k))}
<1>1. n \in Nat /\ words \in Seq(Word)
  BY LenProperties DEF Holds
<1>2. /\ bitmap_count(words) = c[n] /\ c[0] = 0
      /\ \A k \in 1 .. n : c[k] = c[k - 1] + popcount(words[k])
  BY <1>1, CountingTurns
<1> HIDE DEF c
<1>3. 0 \in G
  <2>1. Below(S, 0) = {}
    BY NextWord
  <2>2. IsFiniteSet({}) /\ Cardinality({}) = 0
    BY FS_EmptySet
  <2>3. 0 \in 0 .. n
    BY <1>1
  <2>4. IsFiniteSet(Below(S, 0)) /\ c[0] = Cardinality(Below(S, 0))
    BY <1>2, <2>1, <2>2
  <2> QED
    BY <2>3, <2>4
<1>4. ASSUME NEW k \in 1 .. n, k - 1 \in G
      PROVE  k \in G
  <2> DEFINE A == Below(S, k - 1)
             B == Moved(words, k)
             T == SetBits(words[k])
             f == [p \in T |-> (k - 1) * digits + p]
  <2>1. Below(S, k) = A \cup B /\ \A a \in A, b \in B : a < b
    BY NextWord
  <2>2. IsFiniteSet(A) /\ c[k - 1] = Cardinality(A)
    BY <1>4
  <2>3. words[k] \in Word
    BY <1>1, ElementOfSeq
  <2>4. IsFiniteSet(T) /\ T \subseteq Positions
    BY <2>3, Countdown
  <2>5. f \in Bijection(T, B)
    <3>1. f \in [T -> B] /\ B = {f[p] : p \in T}
      BY DEF Moved
    <3>2. ASSUME NEW p \in T, NEW q \in T, f[p] = f[q]
          PROVE  p = q
      <4> DEFINE t == (k - 1) * digits
      <4>1. t \in Nat /\ p \in Nat /\ q \in Nat
        <5>1. k - 1 \in Nat /\ digits \in Nat
          BY <1>1, WordFacts
        <5>2. t \in Nat
          BY <5>1
        <5>3. Positions \subseteq Nat
          BY <5>1 DEF Positions
        <5> HIDE DEF T
        <5> QED
          BY <2>4, <5>2, <5>3
      <4>2. t + p = t + q
        BY <3>2
      <4> HIDE DEF t
      <4> QED
        BY <4>1, <4>2
    <3> HIDE DEF f, B, T
    <3>3. f \in Injection(T, B)
      BY <3>1, <3>2 DEF Injection, IsInjective
    <3>4. f \in Surjection(T, B)
      BY <3>1 DEF Surjection
    <3> QED
      BY <3>3, <3>4 DEF Bijection
  <2>6. IsFiniteSet(B) /\ Cardinality(B) = popcount(words[k])
    <3>1. ExistsBijection(T, B)
      BY <2>5 DEF ExistsBijection
    <3> HIDE DEF B
    <3> QED
      BY <2>4, <3>1, FS_Bijection DEF popcount
  <2> HIDE DEF A, B, T, f
  <2>7. A \cap B = {}
    <3>1. A \subseteq Nat
      BY DEF A, Below, Holds
    <3>2. \A a \in A : ~(a < a)
      BY <3>1
    <3> QED
      BY <2>1, <3>2
  <2>8. IsFiniteSet(A \cup B) /\ Cardinality(A \cup B) = Cardinality(A) + Cardinality(B)
    <3>1. /\ IsFiniteSet(A \cup B)
          /\ Cardinality(A \cup B) = Cardinality(A) + Cardinality(B) - Cardinality(A \cap B)
      BY <2>2, <2>6, FS_Union
    <3>2. Cardinality(A \cap B) = 0
      BY <2>7, FS_EmptySet
    <3>3. Cardinality(A) \in Nat /\ Cardinality(B) \in Nat
      BY <2>2, <2>6, FS_CardinalityType
    <3> QED
      BY <3>1, <3>2, <3>3
  <2>9. c[k] = Cardinality(Below(S, k))
    BY <1>2, <2>1, <2>2, <2>6, <2>8
  <2>10. k \in 0 .. n
    BY <1>1
  <2> QED
    BY <2>1, <2>8, <2>9, <2>10
<1>5. n \in G
  <2>1. n \in 0 .. n
    BY <1>1
  <2> HIDE DEF G
  <2> QED
    BY <1>1, <1>3, <1>4, <2>1, Upwards
<1> QED
  BY <1>2, <1>5, NextWord

(* The visits in one word, moved to its place in the bitmap.               *)
LEMMA VisitsOfWord ==
  ASSUME NEW x \in Word, NEW base \in Nat
  PROVE  LET bits  == Visited[x]
             moved == [j \in DOMAIN bits |-> base + bits[j]]
         IN  /\ moved \in Seq(Nat) /\ Ascends(moved)
             /\ ToSet(moved) = {base + p : p \in SetBits(x)}
<1> DEFINE bits == Visited[x]
           n == Len(bits)
           moved == [j \in DOMAIN bits |-> base + bits[j]]
<1>1. /\ bits \in Seq(Nat) /\ Ascends(bits) /\ ToSet(bits) = SetBits(x)
      /\ n \in Nat /\ DOMAIN bits = 1 .. n /\ \A j \in 1 .. n : bits[j] \in Nat
  BY VisitedBits, LenProperties
<1> HIDE DEF bits, n
<1>2. /\ moved \in [1 .. n -> Nat] /\ DOMAIN moved = 1 .. n
      /\ \A j \in 1 .. n : moved[j] = base + bits[j]
  BY <1>1
<1> HIDE DEF moved
<1>3. moved \in Seq(Nat)
  BY <1>1, <1>2, FunctionIsVector
<1>4. Ascends(moved)
  <2>1. ASSUME NEW j \in 1 .. n, NEW k \in 1 .. n, j < k
        PROVE  moved[j] < moved[k]
    <3>1. bits[j] < bits[k] /\ bits[j] \in Nat /\ bits[k] \in Nat
      BY <1>1, <2>1 DEF Ascends
    <3>2. base + bits[j] < base + bits[k]
      BY <3>1
    <3> QED
      BY <1>2, <3>2
  <2> QED
    BY <1>2, <2>1 DEF Ascends
<1>5. ToSet(moved) = {base + p : p \in SetBits(x)}
  <2>1. ToSet(moved) = {base + bits[j] : j \in 1 .. n}
    BY <1>2 DEF ToSet
  <2>2. SetBits(x) = {bits[j] : j \in 1 .. n}
    BY <1>1 DEF ToSet
  <2> QED
    BY <2>1, <2>2
<1> QED
  BY <1>3, <1>4, <1>5 DEF moved, bits

(* for_each_set visits the bits, going up, each once.                      *)
LEMMA VisitsAre ==
  ASSUME NEW words, NEW S, Holds(words, S)
  PROVE  ToSet(for_each_set(words)) = S /\ Ascends(for_each_set(words))
<1> DEFINE n == Len(words)
           One(k) == [j \in DOMAIN Visited[words[k]] |-> (k - 1) * digits + Visited[words[k]][j]]
           seqs == [k \in DOMAIN words |-> One(k)]
           Good(s, k) == s \in Seq(Nat) /\ Ascends(s) /\ ToSet(s) = Below(S, k)
<1>1. n \in Nat /\ words \in Seq(Word) /\ DOMAIN words = 1 .. n
  BY LenProperties DEF Holds
<1>2. for_each_set(words) = FlattenSeq(seqs)
  BY DEF for_each_set
<1>3. ASSUME NEW k \in 1 .. n
      PROVE  One(k) \in Seq(Nat) /\ Ascends(One(k)) /\ ToSet(One(k)) = Moved(words, k)
  <2> DEFINE base == (k - 1) * digits
  <2>1. base \in Nat
    <3>1. k - 1 \in Nat /\ digits \in Nat
      BY <1>1, WordFacts
    <3> QED
      BY <3>1
  <2>2. words[k] \in Word
    BY <1>1, ElementOfSeq
  <2> HIDE DEF base
  <2>3. LET moved == [j \in DOMAIN Visited[words[k]] |-> base + Visited[words[k]][j]]
        IN  /\ moved \in Seq(Nat) /\ Ascends(moved)
            /\ ToSet(moved) = {base + p : p \in SetBits(words[k])}
    BY <2>1, <2>2, VisitsOfWord
  <2> QED
    BY <2>3 DEF Moved, base
<1> HIDE DEF One
<1>4. seqs \in Seq(Seq(Nat)) /\ Len(seqs) = n /\ \A k \in 1 .. n : seqs[k] = One(k)
  <2>1. seqs \in [1 .. n -> Seq(Nat)] /\ \A k \in 1 .. n : seqs[k] = One(k)
    BY <1>1, <1>3
  <2> HIDE DEF seqs
  <2> QED
    BY <1>1, <2>1, FunctionIsVector
<1> HIDE DEF seqs
<1>5. CASE n = 0
  <2>1. FlattenSeq(seqs) = seqs /\ DOMAIN seqs = {}
    BY <1>4, <1>5, LenProperties DEF FlattenSeq
  <2>2. S = {}
    BY <1>5, NextWord
  <2> QED
    BY <1>2, <2>1, <2>2 DEF Ascends, ToSet
<1>6. CASE n # 0
  <2>1. PICK f : /\ f = [k \in 1 .. n |-> IF k = 1 THEN seqs[k] ELSE f[k - 1] \o seqs[k]]
                 /\ FlattenSeq(seqs) = f[n]
    BY <1>4, <1>6, FlattenRecursion
  <2> DEFINE G == {k \in 0 .. n : k = 0 \/ Good(f[k], k)}
  <2>2. 0 \in G
    BY <1>1
  <2>3. ASSUME NEW k \in 1 .. n, k - 1 \in G
        PROVE  k \in G
    <3>1. /\ One(k) \in Seq(Nat) /\ Ascends(One(k)) /\ ToSet(One(k)) = Moved(words, k)
          /\ f[k] = IF k = 1 THEN One(k) ELSE f[k - 1] \o One(k)
      BY <1>3, <1>4, <2>1
    <3>2. /\ Below(S, k) = Below(S, k - 1) \cup Moved(words, k)
          /\ \A a \in Below(S, k - 1), b \in Moved(words, k) : a < b
      BY NextWord
    <3>3. Good(f[k], k)
      <4>1. CASE k = 1
        <5>1. Below(S, k - 1) = {}
          BY <4>1, NextWord
        <5> QED
          BY <3>1, <3>2, <4>1, <5>1
      <4>2. CASE k # 1
        <5>1. Good(f[k - 1], k - 1)
          BY <1>1, <2>3, <4>2
        <5>2. /\ f[k - 1] \o One(k) \in Seq(Nat) /\ Ascends(f[k - 1] \o One(k))
              /\ ToSet(f[k - 1] \o One(k)) = ToSet(f[k - 1]) \cup ToSet(One(k))
          BY <3>1, <3>2, <5>1, GoesOnAscending
        <5> QED
          BY <3>1, <3>2, <4>2, <5>1, <5>2
      <4> QED
        BY <4>1, <4>2
    <3> HIDE DEF Good
    <3> QED
      BY <1>1, <3>3
  <2>4. n \in G
    <3>1. n \in 0 .. n
      BY <1>1
    <3> HIDE DEF G
    <3> QED
      BY <1>1, <2>2, <2>3, <3>1, Upwards
  <2> QED
    BY <1>2, <1>6, <2>1, <2>4, NextWord
<1> QED
  BY <1>5, <1>6

(* bitmap: whatever the bits set, one after the other, test tells each     *)
(* from the others, count is their number and for_each_set visits them,    *)
(* in ascending order and once each, at any width of the words.            *)
THEOREM BitmapIsExact ==
  /\ \A n \in Nat : Holds(bitmap(n), {}) /\ n <= Len(bitmap(n)) * digits
  /\ \A words, S : Holds(words, S) =>
       /\ \A i \in Nat : i < Len(words) * digits =>
            /\ Holds(bitmap_set(words, i), S \cup {i})
            /\ bitmap_test(words, i) <=> i \in S
       /\ bitmap_count(words) = Cardinality(S)
       /\ ToSet(for_each_set(words)) = S /\ Ascends(for_each_set(words))
<1>1. ASSUME NEW words, NEW S, Holds(words, S),
             NEW i \in Nat, i < Len(words) * digits
      PROVE  /\ Holds(bitmap_set(words, i), S \cup {i})
             /\ bitmap_test(words, i) <=> i \in S
  BY <1>1, SetHolds, TestIs
<1>2. ASSUME NEW words, NEW S, Holds(words, S)
      PROVE  /\ bitmap_count(words) = Cardinality(S)
             /\ ToSet(for_each_set(words)) = S /\ Ascends(for_each_set(words))
  BY <1>2, CountIs, VisitsAre
<1> QED
  BY <1>1, <1>2, EmptyHolds

(* The bitmaps of n bits.                                                  *)
Bitmaps(n) == [1 .. Len(bitmap(n)) -> Word]

(* A bitmap stays one.                                                     *)
LEMMA BitmapsAre ==
  ASSUME NEW n \in Nat
  PROVE  /\ bitmap(n) \in Bitmaps(n)
         /\ \A words \in Bitmaps(n) : \A i \in Nat : bitmap_set(words, i) \in Bitmaps(n)
<1>1. bitmap(n) \in Bitmaps(n)
  <2>1. bitmap(n) \in Seq(Word)
    BY EmptyHolds DEF Holds
  <2> QED
    BY <2>1, LenProperties DEF Bitmaps
<1>2. ASSUME NEW words \in Bitmaps(n), NEW i \in Nat
      PROVE  bitmap_set(words, i) \in Bitmaps(n)
  <2> DEFINE at == (i \div digits) + 1
             w == words[at] | Shl(1, i % digits)
  <2>1. w \in Word
    BY OperatorsAre
  <2>2. bitmap_set(words, i) = [words EXCEPT ![at] = w]
    BY DEF bitmap_set
  <2> HIDE DEF at, w
  <2> QED
    BY <2>1, <2>2 DEF Bitmaps
<1> QED
  BY <1>1, <1>2

(* The bitmap after each value.                                            *)
Setting(values) ==
  CHOOSE after : after = [i \in 0 .. Len(values) |->
    IF i = 0 THEN bitmap(Len(values))
    ELSE IF values[i] # 0 THEN bitmap_set(after[i - 1], i - 1) ELSE after[i - 1]]

(* One value at each turn.                                                 *)
LEMMA SettingTurns ==
  ASSUME NEW values \in Seq(Int)
  PROVE  /\ BitmapOf(values) = Setting(values)[Len(values)]
         /\ Setting(values)[0] = bitmap(Len(values))
         /\ \A i \in 1 .. Len(values) :
              Setting(values)[i] = IF values[i] # 0
                                   THEN bitmap_set(Setting(values)[i - 1], i - 1)
                                   ELSE Setting(values)[i - 1]
         /\ \A i \in 0 .. Len(values) : Setting(values)[i] \in Bitmaps(Len(values))
<1> DEFINE n == Len(values)
           Step(i, x) == IF values[i] # 0 THEN bitmap_set(x, i - 1) ELSE x
           F == [i \in 1 .. n |-> [x \in Bitmaps(Len(values)) |-> Step(i, x)]]
           Rec(f) == f = [i \in 0 .. n |-> IF i = 0 THEN bitmap(Len(values)) ELSE Step(i, f[i - 1])]
           after == Setting(values)
<1>1. n \in Nat /\ bitmap(Len(values)) \in Bitmaps(Len(values))
  <2>1. n \in Nat
    BY LenProperties
  <2> QED
    BY <2>1, BitmapsAre
<1>2. ASSUME NEW i \in 1 .. n, NEW x \in Bitmaps(Len(values))
      PROVE  Step(i, x) \in Bitmaps(Len(values))
  <2>1. n \in Nat /\ i - 1 \in Nat
    BY <1>1
  <2>2. bitmap_set(x, i - 1) \in Bitmaps(n)
    BY <2>1, BitmapsAre
  <2> QED
    BY <2>2
<1>3. after = CHOOSE g : Rec(g)
  BY DEF Setting
<1>4. BitmapOf(values) = after[n]
  BY DEF BitmapOf, Setting
<1> HIDE DEF n, Step, after
<1>5. PICK f \in [0 .. n -> Bitmaps(Len(values))] :
        f[0] = bitmap(Len(values)) /\ \A i \in 1 .. n : f[i] = F[i][f[i - 1]]
  <2>1. F \in [1 .. n -> [Bitmaps(Len(values)) -> Bitmaps(Len(values))]]
    BY <1>2
  <2> HIDE DEF F
  <2>2. Results(n, Bitmaps(Len(values)), bitmap(Len(values)), F) # {}
    BY <1>1, <2>1, RecursionHasResult
  <2> QED
    BY <2>2 DEF Results
<1>6. \A i \in 1 .. n : f[i] = Step(i, f[i - 1])
  <2>1. \A i \in 1 .. n : f[i - 1] \in Bitmaps(Len(values))
    <3>1. \A i \in 1 .. n : i - 1 \in 0 .. n
      BY <1>1
    <3> HIDE DEF F
    <3> QED
      BY <1>5, <3>1
  <2> QED
    BY <1>5, <2>1
<1> HIDE DEF F
<1>7. f = [i \in 0 .. n |-> IF i = 0 THEN bitmap(Len(values)) ELSE Step(i, f[i - 1])]
  <2>1. \A i \in 0 .. n : i # 0 => i \in 1 .. n
    BY <1>1
  <2>2. \A i \in 0 .. n : f[i] = IF i = 0 THEN bitmap(Len(values)) ELSE Step(i, f[i - 1])
    BY <1>5, <1>6, <2>1
  <2> QED
    BY <1>5, <2>2
<1>8. Rec(after)
  <2>1. \E g : Rec(g)
    BY <1>7
  <2> HIDE DEF Rec
  <2> QED
    BY <1>3, <2>1
<1>9. after[0] = bitmap(Len(values)) /\ \A i \in 1 .. n : after[i] = Step(i, after[i - 1])
  <2>1. \A i \in 0 .. n : after[i] = IF i = 0 THEN bitmap(Len(values)) ELSE Step(i, after[i - 1])
    BY <1>8
  <2>2. 0 \in 0 .. n /\ \A i \in 1 .. n : i \in 0 .. n /\ i # 0
    BY <1>1
  <2> QED
    BY <2>1, <2>2
<1> HIDE DEF Rec
<1>10. \A i \in 0 .. n : after[i] \in Bitmaps(Len(values))
  <2> DEFINE G == {i \in 0 .. n : after[i] \in Bitmaps(Len(values))}
  <2>1. 0 \in G
    BY <1>1, <1>9
  <2>2. ASSUME NEW i \in 1 .. n, i - 1 \in G
        PROVE  i \in G
    BY <1>1, <1>2, <1>9, <2>2
  <2> HIDE DEF G
  <2>3. \A i \in 0 .. n : i \in G
    BY <1>1, <2>1, <2>2, Upwards
  <2> QED
    BY <2>3 DEF G
<1> QED
  BY <1>4, <1>9, <1>10 DEF n, Step, after

(* The bitmap of the values that are not 0.                                *)
LEMMA BitmapShows ==
  ASSUME NEW values \in Seq(Int)
  PROVE  /\ Holds(BitmapOf(values), NonZero(values))
         /\ Len(values) <= Len(BitmapOf(values)) * digits
<1> DEFINE n == Len(values)
           w == Setting(values)
           m == Len(bitmap(n))
           First(i) == {j \in 0 .. i - 1 : values[j + 1] # 0}
           G == {i \in 0 .. n : Holds(w[i], First(i)) /\ Len(w[i]) = m}
<1>1. n \in Nat /\ Holds(bitmap(n), {}) /\ n <= m * digits
  BY LenProperties, EmptyHolds
<1>2. /\ BitmapOf(values) = w[n] /\ w[0] = bitmap(n)
      /\ \A i \in 1 .. n :
           w[i] = IF values[i] # 0 THEN bitmap_set(w[i - 1], i - 1) ELSE w[i - 1]
  BY SettingTurns
<1> HIDE DEF n, w, m
<1>3. 0 \in G
  <2>1. First(0) = {} /\ 0 \in 0 .. n
    BY <1>1
  <2>2. Len(w[0]) = m
    BY <1>2 DEF m
  <2> HIDE DEF First
  <2> QED
    BY <1>1, <1>2, <2>1, <2>2
<1>4. ASSUME NEW i \in 1 .. n, i - 1 \in G
      PROVE  i \in G
  <2>1. i \in 0 .. n /\ i - 1 \in Nat
    BY <1>1
  <2>2. Holds(w[i - 1], First(i - 1)) /\ Len(w[i - 1]) = m
    BY <1>4
  <2>3. First(i) = First(i - 1) \cup (IF values[i] # 0 THEN {i - 1} ELSE {})
    <3>1. (i - 1) + 1 = i /\ i - 1 \in 0 .. i - 1 /\ \A j \in 0 .. i - 1 - 1 : j \in 0 .. i - 1
      BY <1>1
    <3>2. \A j \in 0 .. i - 1 : j = i - 1 \/ j \in 0 .. i - 1 - 1
      BY <1>1
    <3> QED
      BY <3>1, <3>2
  <2> HIDE DEF First
  <2>4. CASE values[i] # 0
    <3>1. i - 1 < Len(w[i - 1]) * digits
      <4> DEFINE b == m * digits
      <4>1. b \in Int
        <5>1. m \in Nat /\ digits \in Nat
          BY <1>1, WordFacts, LenProperties DEF Holds, m
        <5> QED
          BY <5>1
      <4>2. n <= b
        BY <1>1
      <4> HIDE DEF b
      <4>3. i - 1 < b
        BY <1>1, <4>1, <4>2
      <4> QED
        BY <2>2, <4>3 DEF b
    <3>2. /\ Holds(bitmap_set(w[i - 1], i - 1), First(i - 1) \cup {i - 1})
          /\ Len(bitmap_set(w[i - 1], i - 1)) = m
      BY <2>1, <2>2, <3>1, SetHolds
    <3> QED
      BY <1>2, <2>1, <2>3, <2>4, <3>2
  <2>5. CASE ~(values[i] # 0)
    <3>1. First(i) = First(i - 1) /\ w[i] = w[i - 1]
      BY <1>2, <2>3, <2>5
    <3> QED
      BY <2>1, <2>2, <3>1
  <2> QED
    BY <2>4, <2>5
<1>5. n \in G
  <2>1. n \in 0 .. n
    BY <1>1
  <2> HIDE DEF G
  <2> QED
    BY <1>1, <1>3, <1>4, <2>1, Upwards
<1>6. First(n) = NonZero(values)
  BY DEF NonZero, n
<1> QED
  BY <1>1, <1>2, <1>5, <1>6 DEF n

(* Any values.                                                             *)
LEMMA BitmapOfAgrees ==
  ASSUME NEW values \in Seq(Int)
  PROVE  BitmapAgrees(values)
<1> DEFINE n == Len(values)
           words == BitmapOf(values)
           S == NonZero(values)
           visits == for_each_set(words)
<1>1. n \in Nat
  BY LenProperties
<1>2. Holds(words, S) /\ n <= Len(words) * digits
  BY BitmapShows
<1> HIDE DEF n, words, S
<1>3. ASSUME NEW i \in 0 .. n - 1
      PROVE  bitmap_test(words, i) <=> i \in S
  <2> DEFINE b == Len(words) * digits
  <2>1. b \in Int
    <3>1. Len(words) \in Nat /\ digits \in Nat
      BY <1>2, WordFacts, LenProperties DEF Holds
    <3> QED
      BY <3>1
  <2>2. n <= b
    BY <1>2
  <2> HIDE DEF b
  <2>3. i \in Nat /\ i < b
    BY <1>1, <2>1, <2>2
  <2> QED
    BY <1>2, <2>3, TestIs DEF b
<1>4. bitmap_count(words) = Cardinality(S)
  BY <1>2, CountIs
<1>5. ToSet(visits) = S /\ Ascends(visits)
  BY <1>2, VisitsAre
<1> QED
  BY <1>3, <1>4, <1>5 DEF BitmapAgrees, Ascends, n, words, S

(* Whatever vector the column becomes.                                     *)
THEOREM BitmapStaysExact == ComputeSpec => []BitmapExact
<1>1. ASSUME IInv
      PROVE  BitmapExact
  <2> DEFINE n == Len(Elements)
  <2>1. Elements \in Seq(Values)
    BY <1>1, ElementsAre DEF IInv
  <2>2. n \in Nat /\ \A i \in 1 .. n : Elements[i] \in Int
    BY <2>1, CountingAssumption, LenProperties, FS_CardinalityType
  <2> HIDE DEF Elements, n
  <2>3. Elements \in [1 .. n -> Int]
    <3>1. Elements \in [1 .. n -> Values]
      BY <2>1, LenProperties DEF n
    <3> QED
      BY <2>2, <3>1
  <2>4. Elements \in Seq(Int)
    BY <2>2, <2>3, FunctionIsVector
  <2> QED
    BY <2>4, BitmapOfAgrees DEF BitmapExact
<1> QED
  BY <1>1, Invariance, PTL
=============================================================================
