----------------------------- MODULE TypedStore -----------------------------
(***************************************************************************)
(* What dynamic_table (include/soatable/dynamic.hpp) promises: one flat    *)
(* store of typed cells.  A column is a name with a type, a row a number   *)
(* that is never given out again; a cell is there from the first set to    *)
(* the end of its row or its column, and what it holds has the column's    *)
(* type.  A column that is added again starts without cells and metadata.  *)
(***************************************************************************)
EXTENDS Naturals

CONSTANTS Names, Types, Keys, Texts, Payloads

VARIABLES next,       \* the rows handed out are those below next
          live,       \* the rows that have not been erased
          size,       \* how many they are
          type,       \* name -> type, of the columns there are
          labels,     \* name, key -> text
          cells       \* row, name -> value

sVars == <<next, live, size, type, labels, cells>>

(* f with x mapped to y, and f on S only.                                  *)
With(f, x, y) ==
  [z \in DOMAIN f \cup {x} |-> IF z = x THEN y ELSE f[z]]

Only(f, S) == [z \in DOMAIN f \cap S |-> f[z]]

Init == /\ next = 0
        /\ live = {}
        /\ size = 0
        /\ type = [n \in {} |-> {}]
        /\ labels = [p \in {} |-> {}]
        /\ cells = [p \in {} |-> {}]

AddColumn(n, T) ==
  /\ n \notin DOMAIN type
  /\ type' = With(type, n, T)
  /\ UNCHANGED <<next, live, size, labels, cells>>

RemoveColumn(n) ==
  /\ n \in DOMAIN type
  /\ type' = Only(type, Names \ {n})
  /\ labels' = Only(labels, (Names \ {n}) \X Keys)
  /\ cells' = Only(cells, Nat \X (Names \ {n}))
  /\ UNCHANGED <<next, live, size>>

InsertRow == /\ next' = next + 1
             /\ live' = live \cup {next}
             /\ size' = size + 1
             /\ UNCHANGED <<type, labels, cells>>

EraseRow(r) == /\ r \in live
               /\ live' = live \ {r}
               /\ size' = size - 1
               /\ cells' = Only(cells, (Nat \ {r}) \X Names)
               /\ UNCHANGED <<next, type, labels>>

Set(r, n, p) ==
  /\ r \in live
  /\ n \in DOMAIN type
  /\ cells' = With(cells, <<r, n>>, [type |-> type[n], is |-> p])
  /\ UNCHANGED <<next, live, size, type, labels>>

Label(n, k, x) == /\ n \in DOMAIN type
                  /\ labels' = With(labels, <<n, k>>, x)
                  /\ UNCHANGED <<next, live, size, type, cells>>

Next == \/ InsertRow
        \/ \E r \in live : EraseRow(r)
        \/ \E n \in Names : RemoveColumn(n)
        \/ \E n \in Names, T \in Types : AddColumn(n, T)
        \/ \E n \in Names, k \in Keys, x \in Texts : Label(n, k, x)
        \/ \E r \in live, n \in Names, p \in Payloads : Set(r, n, p)

Spec == Init /\ [][Next]_sVars
=============================================================================
