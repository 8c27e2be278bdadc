-------------------------- MODULE SynchronizedTable --------------------------
(***************************************************************************)
(* synchronized_table (include/soatable/concurrent.hpp): a table behind a  *)
(* std::shared_mutex, reached through callbacks that run while a scoped    *)
(* lock is held, shared for read(), exclusive for write().                 *)
(*                                                                         *)
(* The table is a set of cells.  A write callback loads and stores one     *)
(* cell after the other, as insert() and then assign() of the program's    *)
(* callbacks do, so that the table is not consistent halfway; a read       *)
(* callback looks at one cell after the other.  The order is the           *)
(* callback's business, and so is an exception between any two steps:      *)
(* the lock's destructor runs in both cases.  A callback does not call     *)
(* read or write on the same table: std::shared_mutex forbids it.          *)
(***************************************************************************)
EXTENDS Integers

CONSTANTS Threads,    \* the program's threads
          Cells,      \* what one callback touches
          MaxCalls    \* bound: calls made, all threads together

ASSUME CallsAssumption == MaxCalls \in Nat

VARIABLES m_table,    \* cell -> value
          m_mutex,    \* std::shared_mutex: who holds it, and how
          pc,         \* where each thread is
          todo,       \* thread -> cells its callback has still to visit
          loaded,     \* thread -> {<<cell, value>>} once loaded, else {}
          seen,       \* thread -> what its read callback has seen so far
          result,     \* thread -> what its last read returned
          threw,      \* the threads whose last write threw
          calls       \* the number of calls made

vars == <<m_table, m_mutex, pc, todo, loaded, seen, result, threw, calls>>

-----------------------------------------------------------------------------
Places == {"idle", "lock_shared", "lock", "reading", "writing"}

Reading == {t \in Threads : pc[t] = "reading"}
Writing == {t \in Threads : pc[t] = "writing"}

Zero == [c \in Cells |-> 0]

Init ==
  /\ m_table = Zero
  /\ m_mutex = [readers |-> {}, writers |-> {}]
  /\ pc = [t \in Threads |-> "idle"]
  /\ todo = [t \in Threads |-> {}]
  /\ loaded = [t \in Threads |-> {}]
  /\ seen = [t \in Threads |-> Zero]
  /\ result = [t \in Threads |-> Zero]
  /\ threw = {}
  /\ calls = 0

(* A thread calls read or write, and comes to the lock's constructor.      *)
Call(t, place) ==
  /\ pc[t] = "idle"
  /\ calls < MaxCalls
  /\ calls' = calls + 1
  /\ pc' = [pc EXCEPT ![t] = place]
  /\ UNCHANGED <<m_table, m_mutex, todo, loaded, seen, result, threw>>

read(t)  == Call(t, "lock_shared")
write(t) == Call(t, "lock")

(* Mutant: the reader takes no lock.                                       *)
SharedLockUnlocked(t) ==
  /\ pc[t] = "lock_shared"
  /\ pc' = [pc EXCEPT ![t] = "reading"]
  /\ todo' = [todo EXCEPT ![t] = Cells]
  /\ UNCHANGED <<m_table, m_mutex, loaded, seen, result, threw, calls>>

(* std::shared_lock: no writer holds the mutex.                            *)
SharedLock(t) ==
  /\ pc[t] = "lock_shared"
  /\ m_mutex.writers = {}
  /\ m_mutex' = [m_mutex EXCEPT !.readers = @ \cup {t}]
  /\ pc' = [pc EXCEPT ![t] = "reading"]
  /\ todo' = [todo EXCEPT ![t] = Cells]
  /\ UNCHANGED <<m_table, loaded, seen, result, threw, calls>>

(* Mutant: a shared_lock in write.                                         *)
UniqueLockShared(t) ==
  /\ pc[t] = "lock"
  /\ m_mutex.writers = {}
  /\ m_mutex' = [m_mutex EXCEPT !.writers = @ \cup {t}]
  /\ pc' = [pc EXCEPT ![t] = "writing"]
  /\ todo' = [todo EXCEPT ![t] = Cells]
  /\ UNCHANGED <<m_table, loaded, seen, result, threw, calls>>

(* Mutant: a writer that tries the lock for ever and never gets it.        *)
UniqueLockSpins(t) ==
  /\ pc[t] = "lock"
  /\ UNCHANGED vars

(* std::unique_lock: nobody holds the mutex.                               *)
UniqueLock(t) ==
  /\ pc[t] = "lock"
  /\ m_mutex = [readers |-> {}, writers |-> {}]
  /\ m_mutex' = [m_mutex EXCEPT !.writers = {t}]
  /\ pc' = [pc EXCEPT ![t] = "writing"]
  /\ todo' = [todo EXCEPT ![t] = Cells]
  /\ UNCHANGED <<m_table, loaded, seen, result, threw, calls>>

(* The read callback looks at one more cell.                               *)
Look(t) ==
  /\ pc[t] = "reading"
  /\ \E c \in todo[t] :
       /\ seen' = [seen EXCEPT ![t][c] = m_table[c]]
       /\ todo' = [todo EXCEPT ![t] = @ \ {c}]
  /\ UNCHANGED <<m_table, m_mutex, pc, loaded, result, threw, calls>>

(* The write callback loads a cell it has still to do ...                  *)
Load(t) ==
  /\ pc[t] = "writing"
  /\ loaded[t] = {}
  /\ \E c \in todo[t] : loaded' = [loaded EXCEPT ![t] = {<<c, m_table[c]>>}]
  /\ UNCHANGED <<m_table, m_mutex, pc, todo, seen, result, threw, calls>>

(* ... and stores what it made of it.                                      *)
Store(t) ==
  /\ pc[t] = "writing"
  /\ \E p \in loaded[t] :
       /\ m_table' = [m_table EXCEPT ![p[1]] = p[2] + 1]
       /\ todo' = [todo EXCEPT ![t] = @ \ {p[1]}]
  /\ loaded' = [loaded EXCEPT ![t] = {}]
  /\ UNCHANGED <<m_mutex, pc, seen, result, threw, calls>>

(* The scoped lock's destructor, after the callback is done or has thrown. *)
Unlock(t) ==
  /\ m_mutex' = [readers |-> m_mutex.readers \ {t},
                 writers |-> m_mutex.writers \ {t}]
  /\ pc' = [pc EXCEPT ![t] = "idle"]
  /\ todo' = [todo EXCEPT ![t] = {}]
  /\ loaded' = [loaded EXCEPT ![t] = {}]

ReadReturns(t) ==
  /\ pc[t] = "reading"
  /\ todo[t] = {}
  /\ result' = [result EXCEPT ![t] = seen[t]]
  /\ Unlock(t)
  /\ UNCHANGED <<m_table, seen, threw, calls>>

WriteReturns(t) ==
  /\ pc[t] = "writing"
  /\ todo[t] = {}
  /\ threw' = threw \ {t}
  /\ Unlock(t)
  /\ UNCHANGED <<m_table, seen, result, calls>>

ReadThrows(t) ==
  /\ pc[t] = "reading"
  /\ Unlock(t)
  /\ UNCHANGED <<m_table, seen, result, threw, calls>>

WriteThrows(t) ==
  /\ pc[t] = "writing"
  /\ threw' = threw \cup {t}
  /\ Unlock(t)
  /\ UNCHANGED <<m_table, seen, result, calls>>

(* The steps of a call under way.                                          *)
Step(t) ==
  \/ SharedLock(t)
  \/ UniqueLock(t)
  \/ Look(t)
  \/ Load(t)
  \/ Store(t)
  \/ ReadReturns(t)
  \/ WriteReturns(t)
  \/ ReadThrows(t)
  \/ WriteThrows(t)

(* The threads have made their calls.                                      *)
Over ==
  /\ calls = MaxCalls
  /\ \A t \in Threads : pc[t] = "idle"
  /\ UNCHANGED vars

Next ==
  \/ \E t \in Threads : read(t) \/ write(t) \/ Step(t)
  \/ Over

(* A thread runs until its callback ends, and gets a lock that stays free. *)
(* The standard promises no more: std::shared_mutex may let readers pass a *)
(* waiting writer for as long as readers come.                             *)
Fairness == \A t \in Threads : WF_vars(Step(t))

Spec     == Init /\ [][Next]_vars
FairSpec == Spec /\ Fairness

-----------------------------------------------------------------------------
TypeOK ==
  /\ m_table \in [Cells -> Nat]
  /\ m_mutex \in [readers : SUBSET Threads, writers : SUBSET Threads]
  /\ pc \in [Threads -> Places]
  /\ todo \in [Threads -> SUBSET Cells]
  /\ loaded \in [Threads -> SUBSET (Cells \X Nat)]
  /\ seen \in [Threads -> [Cells -> Nat]]
  /\ result \in [Threads -> [Cells -> Nat]]
  /\ threw \subseteq Threads
  /\ calls \in 0 .. MaxCalls

(* "Many concurrent readers and exclusive writers": while a write callback *)
(* runs no other callback does.                                            *)
Exclusion == \A w \in Writing : Writing \cup Reading = {w}

(* The lock is held exactly while callbacks run, also after one has thrown *)
(* ("the lock is held for the duration of the callback").                  *)
HeldWhileInside == m_mutex = [readers |-> Reading, writers |-> Writing]

(* What a read callback has seen so far is the table as it is now: nothing *)
(* changes under it, halfway writes included.                              *)
SeenIsCurrent ==
  \A r \in Reading : \A c \in Cells \ todo[r] : seen[r][c] = m_table[c]

(* The table without what the write callback under way has stored.         *)
Settled ==
  [c \in Cells |-> IF \E w \in Writing : c \notin todo[w]
                   THEN m_table[c] - 1
                   ELSE m_table[c]]

(* No increment is lost and no read is torn: with the table seen as it was *)
(* before the write under way, every step is a step of AtomicTable or      *)
(* changes nothing there ("no read may observe a corrupt size").           *)
Atomic == INSTANCE AtomicTable WITH table <- Settled

KeepsAtomic == Atomic!Spec

(* Every call ends, its thread waiting for the lock or not: no combination *)
(* of readers, writers and exceptions leaves the mutex locked.             *)
CallsEnd == \A t \in Threads : pc[t] # "idle" ~> pc[t] = "idle"
=============================================================================
