----------------------------- MODULE AtomicTable -----------------------------
(***************************************************************************)
(* What synchronized_table (include/soatable/concurrent.hpp) promises: a   *)
(* callback runs as if it were alone.  A write is one step, a read returns *)
(* the table as it stands at one moment between its call and its return.   *)
(* A callback that throws keeps what it had done: the lock is released,    *)
(* nothing is rolled back.                                                 *)
(*                                                                         *)
(* The callbacks are the smallest that can go wrong: a write adds one to   *)
(* every cell it is about, a read looks at every cell.                     *)
(***************************************************************************)
EXTENDS Integers

CONSTANTS Threads, Cells

VARIABLES table,      \* cell -> value
          result,     \* thread -> what its last read returned
          threw       \* the threads whose last write threw

aVars == <<table, result, threw>>

Zero == [c \in Cells |-> 0]

Bumped(tab, S) == [c \in Cells |-> IF c \in S THEN tab[c] + 1 ELSE tab[c]]

Init == /\ table = Zero
        /\ result = [t \in Threads |-> Zero]
        /\ threw = {}

Write(t) == /\ table' = Bumped(table, Cells)
            /\ threw' = threw \ {t}
            /\ UNCHANGED result

WriteThrows(t) == /\ \E S \in SUBSET Cells : table' = Bumped(table, S)
                  /\ threw' = threw \cup {t}
                  /\ UNCHANGED result

Read(t) == /\ result' = [result EXCEPT ![t] = table]
           /\ UNCHANGED <<table, threw>>

Next == \E t \in Threads : Write(t) \/ WriteThrows(t) \/ Read(t)

Spec == Init /\ [][Next]_aVars
=============================================================================
