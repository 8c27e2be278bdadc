----------------------- MODULE SynchronizedTableProofs -----------------------
(***************************************************************************)
(* Proofs about synchronized_table, for any threads, cells and number of   *)
(* calls: writers are alone, a reader sees a table that stands still, and  *)
(* the whole implements AtomicTable.                                       *)
(***************************************************************************)
EXTENDS SynchronizedTable, TLAPS

(* What a write callback has loaded is still what the table holds.         *)
LoadedIsCurrent ==
  \A t \in Threads : \A p \in loaded[t] :
    pc[t] = "writing" /\ p[1] \in todo[t] /\ p[2] = m_table[p[1]]

IInv ==
  /\ TypeOK
  /\ HeldWhileInside
  /\ Exclusion
  /\ LoadedIsCurrent
  /\ SeenIsCurrent

-----------------------------------------------------------------------------
(* Entering and leaving a callback moves one thread in or out of the two   *)
(* sets of threads that are inside one, and touches nobody else.           *)
LEMMA PlaceMoves ==
  ASSUME TypeOK, NEW t \in Threads, NEW place \in Places,
         pc' = [pc EXCEPT ![t] = place]
  PROVE  /\ Reading' = IF place = "reading" THEN Reading \cup {t} ELSE Reading \ {t}
         /\ Writing' = IF place = "writing" THEN Writing \cup {t} ELSE Writing \ {t}
BY DEF TypeOK, Reading, Writing, Places

(* The types are kept by every step.                                       *)
LEMMA TypesKept == TypeOK /\ [Next]_vars => TypeOK'
<1> SUFFICES ASSUME TypeOK, [Next]_vars PROVE TypeOK'
  OBVIOUS
<1> USE CallsAssumption DEF TypeOK, Places
<1>1. ASSUME NEW t \in Threads, read(t) \/ write(t)  PROVE TypeOK'
  <2>1. PICK place \in Places : Call(t, place)
    BY <1>1 DEF read, write
  <2>2. pc' \in [Threads -> Places] /\ calls' \in 0 .. MaxCalls
    BY <2>1 DEF Call
  <2> QED
    BY <2>1, <2>2 DEF Call
<1>2. ASSUME NEW t \in Threads, SharedLock(t)  PROVE TypeOK'
  BY <1>2 DEF SharedLock
<1>3. ASSUME NEW t \in Threads, UniqueLock(t)  PROVE TypeOK'
  BY <1>3 DEF UniqueLock
<1>4. ASSUME NEW t \in Threads, Look(t)  PROVE TypeOK'
  BY <1>4 DEF Look
<1>5. ASSUME NEW t \in Threads, Load(t)  PROVE TypeOK'
  BY <1>5 DEF Load
<1>6. ASSUME NEW t \in Threads, Store(t)  PROVE TypeOK'
  BY <1>6 DEF Store
<1>7. ASSUME NEW t \in Threads, Unlock(t), UNCHANGED <<m_table, seen, calls>>,
             result' = result \/ result' = [result EXCEPT ![t] = seen[t]],
             threw' \subseteq threw \cup {t}
      PROVE  TypeOK'
  <2>1. m_mutex' \in [readers : SUBSET Threads, writers : SUBSET Threads]
    BY <1>7 DEF Unlock
  <2>2. pc' \in [Threads -> Places] /\ todo' \in [Threads -> SUBSET Cells]
    BY <1>7 DEF Unlock
  <2>3. loaded' \in [Threads -> SUBSET (Cells \X Nat)]
    BY <1>7 DEF Unlock
  <2>4. result' \in [Threads -> [Cells -> Nat]]
    BY <1>7
  <2> QED
    BY <1>7, <2>1, <2>2, <2>3, <2>4
<1>8. ASSUME NEW t \in Threads,
             \/ ReadReturns(t)
             \/ ReadThrows(t)
             \/ WriteReturns(t)
             \/ WriteThrows(t)
      PROVE  TypeOK'
  <2>1. /\ Unlock(t)
        /\ UNCHANGED <<m_table, seen, calls>>
        /\ result' = result \/ result' = [result EXCEPT ![t] = seen[t]]
        /\ threw' \subseteq threw \cup {t}
    BY <1>8 DEF ReadReturns, ReadThrows, WriteReturns, WriteThrows
  <2> QED
    BY <2>1, <1>7
<1>9. CASE UNCHANGED vars
  BY <1>9 DEF vars
<1> QED
  BY <1>1, <1>2, <1>3, <1>4, <1>5, <1>6, <1>7, <1>8, <1>9 DEF Next, Step, Over

(* The mutex keeps to its bookkeeping, and writers alone.                  *)
LEMMA LockKept == IInv /\ [Next]_vars => HeldWhileInside' /\ Exclusion'
<1> SUFFICES ASSUME IInv, [Next]_vars PROVE HeldWhileInside' /\ Exclusion'
  OBVIOUS
<1> USE DEF IInv, HeldWhileInside, Exclusion
<1>1. ASSUME NEW t \in Threads, read(t) \/ write(t)
      PROVE  HeldWhileInside' /\ Exclusion'
  <2>1. PICK place \in {"lock_shared", "lock"} : Call(t, place)
    BY <1>1 DEF read, write
  <2>2. Reading' = Reading /\ Writing' = Writing
    BY <2>1, PlaceMoves DEF Call, Places, Reading, Writing
  <2> QED
    BY <2>1, <2>2 DEF Call
<1>2. ASSUME NEW t \in Threads, SharedLock(t)
      PROVE  HeldWhileInside' /\ Exclusion'
  <2>1. Reading' = Reading \cup {t} /\ Writing' = Writing
    BY <1>2, PlaceMoves DEF SharedLock, Places, Writing
  <2> QED
    BY <1>2, <2>1 DEF SharedLock
<1>3. ASSUME NEW t \in Threads, UniqueLock(t)
      PROVE  HeldWhileInside' /\ Exclusion'
  <2>1. Reading' = Reading /\ Writing' = Writing \cup {t}
    BY <1>3, PlaceMoves DEF UniqueLock, Places, Reading
  <2> QED
    BY <1>3, <2>1 DEF UniqueLock
<1>4. ASSUME NEW t \in Threads, Look(t) \/ Load(t) \/ Store(t)
      PROVE  HeldWhileInside' /\ Exclusion'
  <2>1. Reading' = Reading /\ Writing' = Writing
    BY <1>4 DEF Look, Load, Store, Reading, Writing
  <2> QED
    BY <1>4, <2>1 DEF Look, Load, Store
<1>5. ASSUME NEW t \in Threads, Unlock(t)
      PROVE  HeldWhileInside' /\ Exclusion'
  <2>1. Reading' = Reading \ {t} /\ Writing' = Writing \ {t}
    BY <1>5, PlaceMoves DEF Unlock, Places
  <2> QED
    BY <1>5, <2>1 DEF Unlock
<1>6. CASE UNCHANGED vars
  <2>1. Reading' = Reading /\ Writing' = Writing
    BY <1>6 DEF vars, Reading, Writing
  <2> QED
    BY <1>6, <2>1 DEF vars
<1> QED
  BY <1>1, <1>2, <1>3, <1>4, <1>5, <1>6
     DEF Next, Step, Over, ReadReturns, WriteReturns, ReadThrows, WriteThrows

(* What callbacks have read stays true: only a writer stores, and it is    *)
(* alone.                                                                  *)
LEMMA ReadingsKept == IInv /\ [Next]_vars => LoadedIsCurrent' /\ SeenIsCurrent'
<1> SUFFICES ASSUME IInv, [Next]_vars PROVE LoadedIsCurrent' /\ SeenIsCurrent'
  OBVIOUS
<1> USE DEF IInv, TypeOK, LoadedIsCurrent, SeenIsCurrent, Reading
<1>1. ASSUME NEW t \in Threads, read(t) \/ write(t)
      PROVE  LoadedIsCurrent' /\ SeenIsCurrent'
  <2>1. PICK place \in {"lock_shared", "lock"} : Call(t, place)
    BY <1>1 DEF read, write
  <2>2. Reading' = Reading
    BY <2>1 DEF Call
  <2>3. \A u \in Threads : pc[u] = "writing" => pc'[u] = "writing"
    BY <2>1 DEF Call
  <2> QED
    BY <2>1, <2>2, <2>3 DEF Call
<1>2. ASSUME NEW t \in Threads, SharedLock(t)
      PROVE  LoadedIsCurrent' /\ SeenIsCurrent'
  BY <1>2 DEF SharedLock
<1>3. ASSUME NEW t \in Threads, UniqueLock(t)
      PROVE  LoadedIsCurrent' /\ SeenIsCurrent'
  BY <1>3 DEF UniqueLock
<1>4. ASSUME NEW t \in Threads, Look(t)
      PROVE  LoadedIsCurrent' /\ SeenIsCurrent'
  BY <1>4 DEF Look
<1>5. ASSUME NEW t \in Threads, Load(t)
      PROVE  LoadedIsCurrent' /\ SeenIsCurrent'
  BY <1>5 DEF Load
<1>6. ASSUME NEW t \in Threads, Store(t)
      PROVE  LoadedIsCurrent' /\ SeenIsCurrent'
  <2>1. Reading = {} /\ Writing = {t}
    BY <1>6 DEF Store, Exclusion, Writing
  <2>2. \A u \in Threads : u # t => loaded[u] = {}
    BY <2>1 DEF Writing
  <2> QED
    BY <1>6, <2>1, <2>2 DEF Store
<1>7. ASSUME NEW t \in Threads, Unlock(t), UNCHANGED <<m_table, seen>>
      PROVE  LoadedIsCurrent' /\ SeenIsCurrent'
  BY <1>7 DEF Unlock
<1>8. CASE UNCHANGED vars
  BY <1>8 DEF vars
<1> QED
  BY <1>1, <1>2, <1>3, <1>4, <1>5, <1>6, <1>7, <1>8
     DEF Next, Step, Over, ReadReturns, WriteReturns, ReadThrows, WriteThrows

(* The inductive invariant holds in every reachable state.                 *)
THEOREM Invariance == Spec => []IInv
<1>1. Init => IInv
  BY CallsAssumption
     DEF Init, IInv, TypeOK, HeldWhileInside, Exclusion, LoadedIsCurrent,
         SeenIsCurrent, Reading, Writing, Places, Zero
<1>2. IInv /\ [Next]_vars => IInv'
  BY TypesKept, LockKept, ReadingsKept DEF IInv
<1> QED
  BY <1>1, <1>2, PTL DEF Spec

(* While a write callback runs no other callback does.                     *)
THEOREM WritersAlone == Spec => []Exclusion
<1>1. IInv => Exclusion
  BY DEF IInv
<1> QED
  BY <1>1, Invariance, PTL

(* The lock is held exactly while callbacks run.                           *)
THEOREM LockHeld == Spec => []HeldWhileInside
<1>1. IInv => HeldWhileInside
  BY DEF IInv
<1> QED
  BY <1>1, Invariance, PTL

(* Nothing changes under a read callback.                                  *)
THEOREM ReadsCurrent == Spec => []SeenIsCurrent
<1>1. IInv => SeenIsCurrent
  BY DEF IInv
<1> QED
  BY <1>1, Invariance, PTL
-----------------------------------------------------------------------------
(* The refinement.                                                         *)

(* With no writer the settled table is the table; with one, it lacks what  *)
(* that writer has stored.                                                 *)
LEMMA SettledAlone ==
  ASSUME TypeOK, Writing = {}
  PROVE  Settled = m_table
BY DEF TypeOK, Settled

(* While one writer runs, what it has written is not settled yet.          *)
LEMMA SettledUnderWriter ==
  ASSUME TypeOK, NEW w \in Threads, Writing = {w}
  PROVE  Settled = [c \in Cells |-> IF c \notin todo[w] THEN m_table[c] - 1
                                    ELSE m_table[c]]
BY DEF Settled

(* Inside a callback the settled table does not move.                      *)
LEMMA SettledStays ==
  ASSUME IInv, NEW t \in Threads, IInv',
         \/ read(t) \/ write(t) \/ SharedLock(t) \/ UniqueLock(t)
         \/ Look(t) \/ Load(t) \/ Store(t) \/ ReadReturns(t) \/ ReadThrows(t)
  PROVE  Settled' = Settled
<1> USE DEF IInv, TypeOK
<1>1. CASE read(t) \/ write(t)
  <2>1. PICK place \in {"lock_shared", "lock"} : Call(t, place)
    BY <1>1 DEF read, write
  <2>2. Writing' = Writing
    BY <2>1 DEF Call, Writing
  <2> QED
    BY <2>1, <2>2 DEF Call, Settled
<1>2. CASE SharedLock(t)
  <2>1. Writing' = Writing /\ Writing = {}
    BY <1>2 DEF SharedLock, Writing, HeldWhileInside
  <2> QED
    BY <1>2, <2>1 DEF SharedLock, Settled
<1>3. CASE UniqueLock(t)
  <2>1. Writing = {} /\ Writing' = {t} /\ todo'[t] = Cells /\ m_table' = m_table
    BY <1>3 DEF UniqueLock, Writing, HeldWhileInside
  <2> QED
    BY <2>1 DEF Settled
<1>4. CASE Look(t)
  <2>1. Writing' = Writing /\ t \notin Writing /\ m_table' = m_table
    BY <1>4 DEF Look, Writing
  <2>2. \A w \in Writing : todo'[w] = todo[w]
    BY <1>4, <2>1 DEF Look, Writing
  <2> QED
    BY <2>1, <2>2 DEF Settled
<1>5. CASE Load(t)
  BY <1>5 DEF Load, Settled, Writing
<1>6. CASE Store(t)
  <2>1. Writing = {t} /\ Writing' = {t}
    BY <1>6 DEF Store, Exclusion, Writing
  <2>2. PICK p \in loaded[t] : /\ m_table' = [m_table EXCEPT ![p[1]] = p[2] + 1]
                               /\ todo' = [todo EXCEPT ![t] = @ \ {p[1]}]
    BY <1>6 DEF Store
  <2>3. p[1] \in todo[t] /\ p[1] \in Cells /\ p[2] = m_table[p[1]]
    BY <2>2 DEF LoadedIsCurrent
  <2>4. \A c \in Cells : /\ c # p[1] => /\ m_table'[c] = m_table[c]
                                        /\ c \in todo'[t] <=> c \in todo[t]
                         /\ c = p[1] => /\ m_table'[c] = m_table[c] + 1
                                        /\ c \notin todo'[t]
    BY <2>2, <2>3
  <2>5. Settled = [c \in Cells |-> IF c \notin todo[t] THEN m_table[c] - 1
                                   ELSE m_table[c]]
    BY <2>1, SettledUnderWriter
  <2>6. Settled' = [c \in Cells |-> IF c \notin todo'[t] THEN m_table'[c] - 1
                                    ELSE m_table'[c]]
    BY <2>1 DEF Settled
  <2>7. \A c \in Cells : Settled'[c] = Settled[c]
    BY <2>3, <2>4, <2>5, <2>6
  <2> QED
    BY <2>5, <2>6, <2>7
<1>7. CASE ReadReturns(t) \/ ReadThrows(t)
  <2>1. pc[t] = "reading" /\ Unlock(t) /\ m_table' = m_table
    BY <1>7 DEF ReadReturns, ReadThrows
  <2>2. Writing = {}
    BY <2>1 DEF Exclusion, Reading, Writing
  <2>3. Writing' = {}
    BY <2>1, <2>2 DEF Unlock, Writing
  <2> QED
    BY <2>1, <2>2, <2>3 DEF Settled
<1> QED
  BY <1>1, <1>2, <1>3, <1>4, <1>5, <1>6, <1>7

(* A write callback that ends, returning or throwing, adds one to what it  *)
(* has stored, all at once.                                                *)
LEMMA WriteSettles ==
  ASSUME IInv, NEW t \in Threads, pc[t] = "writing", Unlock(t), m_table' = m_table
  PROVE  Settled' = Atomic!Bumped(Settled, Cells \ todo[t])
<1> USE DEF IInv, TypeOK
<1>1. Writing = {t} /\ Writing' = {}
  BY DEF Unlock, Exclusion, Writing
<1>2. Settled = [c \in Cells |-> IF c \notin todo[t] THEN m_table[c] - 1
                                 ELSE m_table[c]]
  BY <1>1, SettledUnderWriter
<1>3. Settled' = [c \in Cells |-> m_table[c]]
  BY <1>1 DEF Settled
<1> QED
  BY <1>2, <1>3 DEF Atomic!Bumped

(* A read callback that returns has seen the settled table.                *)
LEMMA ReadSettled ==
  ASSUME IInv, NEW t \in Threads, ReadReturns(t)
  PROVE  seen[t] = Settled
<1> USE DEF IInv, TypeOK
<1>1. Writing = {} /\ t \in Reading /\ todo[t] = {}
  BY DEF ReadReturns, Exclusion, Reading, Writing
<1>2. \A c \in Cells : seen[t][c] = m_table[c]
  BY <1>1 DEF SeenIsCurrent
<1> QED
  BY <1>1, <1>2, SettledAlone

(* Every step is a step of AtomicTable or changes nothing there.           *)
LEMMA StepIsAtomic ==
  ASSUME IInv, [Next]_vars, IInv'
  PROVE  [Atomic!Next]_(Atomic!aVars)
<1> USE DEF Atomic!aVars
<1>1. ASSUME NEW t \in Threads,
             \/ read(t) \/ write(t) \/ SharedLock(t) \/ UniqueLock(t)
             \/ Look(t) \/ Load(t) \/ Store(t) \/ ReadThrows(t)
      PROVE  UNCHANGED Atomic!aVars
  <2>1. Settled' = Settled
    BY <1>1, SettledStays
  <2>2. UNCHANGED <<result, threw>>
    BY <1>1 DEF read, write, Call, SharedLock, UniqueLock, Look, Load, Store,
                ReadThrows
  <2> QED
    BY <2>1, <2>2
<1>2. ASSUME NEW t \in Threads, ReadReturns(t)
      PROVE  Atomic!Read(t)
  <2>1. Settled' = Settled
    BY <1>2, SettledStays
  <2>2. seen[t] = Settled
    BY <1>2, ReadSettled
  <2> QED
    BY <1>2, <2>1, <2>2 DEF ReadReturns, Atomic!Read
<1>3. ASSUME NEW t \in Threads, WriteReturns(t)
      PROVE  Atomic!Write(t)
  <2>1. Settled' = Atomic!Bumped(Settled, Cells \ todo[t])
    BY <1>3, WriteSettles DEF WriteReturns
  <2>2. Cells \ todo[t] = Cells
    BY <1>3 DEF WriteReturns
  <2> QED
    BY <1>3, <2>1, <2>2 DEF WriteReturns, Atomic!Write
<1>4. ASSUME NEW t \in Threads, WriteThrows(t)
      PROVE  Atomic!WriteThrows(t)
  <2>1. Settled' = Atomic!Bumped(Settled, Cells \ todo[t])
    BY <1>4, WriteSettles DEF WriteThrows
  <2>2. Cells \ todo[t] \in SUBSET Cells
    OBVIOUS
  <2> QED
    BY <1>4, <2>1, <2>2 DEF WriteThrows, Atomic!WriteThrows
<1>5. CASE UNCHANGED vars
  <2>1. Settled' = Settled
    BY <1>5 DEF vars, Settled, Writing
  <2> QED
    BY <1>5, <2>1 DEF vars
<1> QED
  BY <1>1, <1>2, <1>3, <1>4, <1>5 DEF Next, Step, Over, Atomic!Next

(* synchronized_table implements AtomicTable: callbacks run as if alone.   *)
THEOREM CallbacksAtomic == Spec => KeepsAtomic
<1>1. Init => Atomic!Init
  BY DEF Init, Atomic!Init, Zero, Atomic!Zero, Settled, Writing
<1>2. IInv /\ [Next]_vars /\ IInv' => [Atomic!Next]_(Atomic!aVars)
  BY StepIsAtomic
<1> QED
  BY <1>1, <1>2, Invariance, PTL DEF Spec, KeepsAtomic, Atomic!Spec
=============================================================================
