---------------------------- MODULE TablePromise ----------------------------
(***************************************************************************)
(* What soa_table promises its users, without slots, free lists, columns   *)
(* or an order of rows: a handle names one row from the insert that        *)
(* returned it to the erase that ends it, it is never handed out again,    *)
(* and a cell of a live row holds what was last assigned to it until it is *)
(* unassigned or the row is erased.  The repository's README says as much  *)
(* in prose: "The mental model" and, of handles, "The philosophy".         *)
(***************************************************************************)
CONSTANTS Handles, Columns, Values

VARIABLES live,    \* the handles of the rows in the table
          used,    \* every handle ever returned by insert
          cells    \* the assigned cells of live rows, with their values

vars == <<live, used, cells>>

(* Handles are handed out once, and only live rows have cells.             *)
TypeOK ==
  /\ used \subseteq Handles
  /\ live \subseteq used
  /\ DOMAIN cells \subseteq live \X Columns
  /\ \A p \in DOMAIN cells : cells[p] \in Values

Init ==
  /\ live = {}
  /\ used = {}
  /\ cells = [p \in {} |-> {}]

insert ==
  \E h \in Handles \ used :
    /\ live' = live \cup {h}
    /\ used' = used \cup {h}
    /\ UNCHANGED cells

erase(h) ==
  /\ h \in live
  /\ live' = live \ {h}
  /\ cells' = [p \in {q \in DOMAIN cells : q[1] # h} |-> cells[p]]
  /\ UNCHANGED used

assign(C, h, v) ==
  /\ h \in live
  /\ cells' = [p \in DOMAIN cells \cup {<<h, C>>} |->
                 IF p = <<h, C>> THEN v ELSE cells[p]]
  /\ UNCHANGED <<live, used>>

unassign(C, h) ==
  /\ h \in live
  /\ cells' = [p \in DOMAIN cells \ {<<h, C>>} |-> cells[p]]
  /\ UNCHANGED <<live, used>>

Next ==
  \/ insert
  \/ \E h \in Handles : erase(h)
  \/ \E h \in Handles, C \in Columns : unassign(C, h)
  \/ \E h \in Handles, C \in Columns, v \in Values : assign(C, h, v)

Spec == Init /\ [][Next]_vars
=============================================================================
