----------------------------- MODULE TiledVector -----------------------------
(***************************************************************************)
(* tiled_vector (include/soatable/soatable.hpp): the AoSoA storage of a    *)
(* column, elements in tiles of TileSize of which only the last may be     *)
(* partly filled.  column_vector calls it in place of std::vector.         *)
(***************************************************************************)
EXTENDS Integers, SequencesExt

CONSTANTS TileSize,
          Values,
          MaxSize,             \* bound on the number of elements
          ConstructorThrows    \* may an element's constructor, or the
                               \* allocation of a tile, throw

ASSUME TileSizeAssumption == TileSize \in Nat \ {0}
ASSUME SizeAssumption     == MaxSize \in Nat
ASSUME ThrowsAssumption   == ConstructorThrows \in BOOLEAN

VARIABLES m_tiles,   \* the tiles, each a sequence of elements
          m_size     \* what size() returns

vars == <<m_tiles, m_size>>

(* Tiles never outgrow what was reserved for them.                         *)
TypeOK == /\ m_tiles \in Seq(Seq(Values))
          /\ \A t \in DOMAIN m_tiles : Len(m_tiles[t]) <= TileSize
          /\ m_size \in 0 .. MaxSize

-----------------------------------------------------------------------------
(* operator[]: the element of a flat index, counted from 0.                *)
TileOf(index) == (index \div TileSize) + 1
SlotOf(index) == (index % TileSize) + 1
ElementAt(index) == m_tiles[TileOf(index)][SlotOf(index)]

LastTile == m_tiles[Len(m_tiles)]

(* Mutant: a tile is added already when the last one is about to be full.  *)
GrownEarly ==
  IF m_tiles = <<>> \/ Len(LastTile) + 1 >= TileSize
  THEN Append(m_tiles, <<>>)
  ELSE m_tiles

(* The tiles with room for one more element.                               *)
Grown == IF m_tiles = <<>> \/ Len(LastTile) = TileSize
         THEN Append(m_tiles, <<>>)
         ELSE m_tiles

Init == m_tiles = <<>> /\ m_size = 0

emplace_back(v) ==
  /\ m_size < MaxSize
  /\ m_tiles' = [Grown EXCEPT ![Len(Grown)] = Append(@, v)]
  /\ m_size' = m_size + 1

(* Appending the tile throws; or its reserve or the element's constructor  *)
(* does, and the tile has already been appended.                           *)
EmplaceThrows ==
  /\ ConstructorThrows
  /\ m_tiles' \in {m_tiles, Grown}
  /\ UNCHANGED m_size

(* column_vector pops only when there are elements.  On an empty last tile *)
(* pop_back would be undefined: the guard ends the model there, and        *)
(* BackIsLast is the property that this does not happen.                   *)
pop_back ==
  /\ m_size > 0 /\ LastTile # <<>>
  /\ LET popped == [m_tiles EXCEPT ![Len(m_tiles)] = Front(@)]
     IN  m_tiles' = IF Last(popped) = <<>> THEN Front(popped) ELSE popped
  /\ m_size' = m_size - 1

(* A write through operator[], back(), or a tile's span.                   *)
Write(index, v) ==
  /\ index < m_size
  /\ m_tiles' = [m_tiles EXCEPT ![TileOf(index)][SlotOf(index)] = v]
  /\ UNCHANGED m_size

(* Mutant: the elements stay in their tiles.                               *)
ClearSizeOnly == m_size' = 0 /\ UNCHANGED m_tiles

clear == m_tiles' = <<>> /\ m_size' = 0

Next == \/ \E v \in Values : emplace_back(v)
        \/ EmplaceThrows
        \/ pop_back
        \/ \E index \in 0 .. MaxSize - 1, v \in Values : Write(index, v)
        \/ clear

Spec == Init /\ [][Next]_vars

-----------------------------------------------------------------------------
Elements == [i \in 1 .. m_size |-> ElementAt(i - 1)]

(* Every tile but the last is full, so that the spans of column_tiles,     *)
(* laid end to end, are the elements in order.                             *)
SpansCoverElements ==
  /\ \A t \in 1 .. Len(m_tiles) - 1 : Len(m_tiles[t]) = TileSize
  /\ FlattenSeq(m_tiles) = Elements

(* Flat indices see a plain vector: each call does to the elements what    *)
(* std::vector's does, across the borders of tiles ("a drop-in alternative *)
(* storage backend"), and an emplace_back that throws does nothing.        *)
ActsAsVector ==
  [][/\ \A v \in Values : emplace_back(v) => Elements' = Append(Elements, v)
     /\ EmplaceThrows => Elements' = Elements
     /\ pop_back => Elements' = Front(Elements)
     /\ clear => Elements' = <<>>
     /\ \A index \in 0 .. MaxSize - 1, v \in Values :
          Write(index, v) => Elements' = [Elements EXCEPT ![index + 1] = v]]_vars

(* back() and pop_back() find the last element in the last tile, also      *)
(* after an emplace_back that threw: column_vector's emplace documents a   *)
(* strong exception guarantee, and remove calls both.                      *)
BackIsLast ==
  m_size > 0 => LastTile # <<>> /\ Last(LastTile) = ElementAt(m_size - 1)
=============================================================================
