---------------------------- MODULE ColumnCompute ----------------------------
(***************************************************************************)
(* Element-wise operations on a tiled column (include/soatable/compute.hpp *)
(* over column_tiles): transform_column, broadcast_column and              *)
(* transform_column_if walk the chunks in order; transform_column_parallel *)
(* gives each chunk but the first to a task and joins them.  Between calls *)
(* the column changes as TiledVector says; during a call the calling       *)
(* thread is busy, and the spans point into the tiles.                     *)
(*                                                                         *)
(* The operation is handed on by value: every chunk gets a copy of its     *)
(* own.  Here it counts its calls, so that a copy that is shared shows.    *)
(***************************************************************************)
EXTENDS TiledVector, FiniteSets

CONSTANTS parallel_compute_threshold,   \* 2^14 in the code
          MaxFaults                     \* bound: exceptions in one call

ASSUME CountingAssumption ==
         IsFiniteSet(Values) /\ Values = 0 .. Cardinality(Values) - 1
ASSUME ComputeAssumption  == parallel_compute_threshold \in Nat /\ MaxFaults \in Nat

VARIABLES caller,    \* the calling thread: what it does, at which chunk
          worker,    \* chunk -> how far its transform is
          chosen,    \* the values the predicate of transform_column_if picks
          serial,    \* no tasks
          faults,    \* exceptions raised in this call
          before     \* history: the tiles when the call was made

callVars == <<caller, worker, chosen, serial, faults, before>>
allVars  == <<vars, callVars>>

-----------------------------------------------------------------------------
Chunks == DOMAIN m_tiles

AllChunks == 1 .. MaxSize + 1

(* What a copy of the operation makes of v after so many calls.            *)
Op(calls, v) == (v + calls + 1) % Cardinality(Values)

Picks(tile, i) == Cardinality({j \in 1 .. i - 1 : tile[j] \in chosen})

(* What the first n turns of the loop over a span come to.                 *)
Mapped(tile, n) ==
  [i \in DOMAIN tile |-> IF i <= n /\ tile[i] \in chosen
                         THEN Op(Picks(tile, i), tile[i])
                         ELSE tile[i]]

NoWork == [k \in AllChunks |-> [pc |-> "idle", at |-> 0, calls |-> 0]]

Free == caller.pc \in {"free", "returned", "threw"}

ComputeInit ==
  /\ Init
  /\ caller = [pc |-> "free", at |-> 1]
  /\ worker = NoWork
  /\ chosen = Values
  /\ serial = TRUE
  /\ faults = 0
  /\ before = <<>>

(* Between calls: the column is a vector.                                  *)
Fill ==
  /\ Free
  /\ Next
  /\ caller' = [pc |-> "free", at |-> 1]
  /\ worker' = NoWork
  /\ before' = <<>>
  /\ faults' = 0
  /\ UNCHANGED <<chosen, serial>>

Caller(pc, at) == caller' = [pc |-> pc, at |-> at]

Called(isSerial, picks) ==
  /\ Free
  /\ Caller("launch", IF isSerial THEN 1 ELSE 2)
  /\ worker' = NoWork
  /\ serial' = isSerial
  /\ chosen' = picks
  /\ faults' = 0
  /\ before' = m_tiles
  /\ UNCHANGED vars

(* transform_column and broadcast_column; transform_column_if.             *)
transform_column    == Called(TRUE, Values)
transform_column_if == Called(TRUE, Values \ {0})

(* transform_column_parallel: serial with one chunk, few elements, or one  *)
(* hardware thread.                                                        *)
transform_column_parallel ==
  \/ Called(TRUE, Values)
  \/ /\ Len(m_tiles) > 1
     /\ Len(FlattenSeq(m_tiles)) >= parallel_compute_threshold
     /\ Called(FALSE, Values)

-----------------------------------------------------------------------------
(* The transform of one chunk, by whichever thread runs it.                *)

Fault == faults < MaxFaults /\ faults' = faults + 1

Running(k)  == worker[k].pc = "running"
Finished(k) == worker[k].pc \in {"done", "failed"}

WorkerAt(k, pc) == worker' = [worker EXCEPT ![k].pc = pc]

(* Mutant: the tasks capture the operation by reference.                   *)
CallsShared(k) == FoldFunction(+, 0, [j \in AllChunks |-> worker[j].calls])

(* The calls made so far of the copy that chunk k works with.              *)
Calls(k) == worker[k].calls

(* One turn of the loop over the span.                                     *)
Turn(k) ==
  LET i == worker[k].at + 1
      v == m_tiles[k][i]
  IN  /\ i <= Len(m_tiles[k])
      /\ IF v \in chosen
         THEN /\ m_tiles' = [m_tiles EXCEPT ![k][i] = Op(Calls(k), v)]
              /\ worker' = [worker EXCEPT ![k].at = i, ![k].calls = @ + 1]
         ELSE /\ worker' = [worker EXCEPT ![k].at = i]
              /\ UNCHANGED m_tiles
      /\ UNCHANGED faults

(* The operation throws on the next element.                               *)
TurnThrows(k) ==
  /\ worker[k].at < Len(m_tiles[k])
  /\ m_tiles[k][worker[k].at + 1] \in chosen
  /\ WorkerAt(k, "failed")
  /\ Fault
  /\ UNCHANGED m_tiles

LoopEnds(k) ==
  /\ worker[k].at = Len(m_tiles[k])
  /\ WorkerAt(k, "done")
  /\ UNCHANGED <<m_tiles, faults>>

ChunkStep(k) ==
  /\ Running(k)
  /\ Turn(k) \/ TurnThrows(k) \/ LoopEnds(k)
  /\ UNCHANGED <<m_size, caller, chosen, serial, before>>

-----------------------------------------------------------------------------
(* The calling thread.                                                     *)

(* std::async starts the task of a chunk, or throws system_error.          *)
Launch ==
  /\ caller.pc = "launch"
  /\ ~serial /\ caller.at \in Chunks
  /\ \/ WorkerAt(caller.at, "running") /\ Caller("launch", caller.at + 1)
        /\ UNCHANGED faults
     \/ Caller("unwind", 1) /\ Fault /\ UNCHANGED worker
  /\ UNCHANGED <<vars, chosen, serial, before>>

(* The calling thread takes a chunk itself: the first one once the tasks   *)
(* are started, or when serial each in turn.                               *)
OwnChunk ==
  LET own == IF serial THEN caller.at ELSE 1
  IN  /\ caller.pc = "launch"
      /\ own \in Chunks
      /\ serial \/ caller.at \notin Chunks
      /\ WorkerAt(own, "running")
      /\ Caller("own", own)
      /\ UNCHANGED <<vars, chosen, serial, faults, before>>

OwnChunkEnds ==
  /\ caller.pc = "own"
  /\ Finished(caller.at)
  /\ IF worker[caller.at].pc = "failed" THEN Caller("unwind", 1)
     ELSE IF serial THEN Caller("launch", caller.at + 1)
     ELSE Caller("join", 2)
  /\ UNCHANGED <<vars, worker, chosen, serial, faults, before>>

(* The loop over the chunks has come to its end.                           *)
SerialEnds ==
  /\ caller.pc = "launch"
  /\ serial /\ caller.at \notin Chunks
  /\ Caller("leave", 1)
  /\ UNCHANGED <<vars, worker, chosen, serial, faults, before>>

(* Two mutants of Join: the results of the tasks are not asked for; the    *)
(* same future is asked for ever.                                          *)
JoinNone ==
  /\ caller.pc = "join"
  /\ Caller("leave", 1)
  /\ UNCHANGED <<vars, worker, chosen, serial, faults, before>>

JoinStuck ==
  /\ caller.pc = "join"
  /\ UNCHANGED <<vars, caller, worker, chosen, serial, faults, before>>

(* future.get(), one task after the other: rethrows what the task threw.   *)
Join ==
  /\ caller.pc = "join"
  /\ IF caller.at \notin Chunks
     THEN Caller("leave", 1)
     ELSE /\ Finished(caller.at)
          /\ IF worker[caller.at].pc = "failed"
             THEN Caller("unwind", 1)
             ELSE Caller("join", caller.at + 1)
  /\ UNCHANGED <<vars, worker, chosen, serial, faults, before>>

(* Mutant: the tasks are detached.                                         *)
TasksDetached == TRUE

(* The futures' destructors block until every started task has ended.      *)
TasksJoined == \A k \in AllChunks : ~Running(k)

(* The scope ends, by return or by exception.                              *)
EndScope ==
  /\ caller.pc \in {"leave", "unwind"}
  /\ TasksJoined
  /\ Caller(IF caller.pc = "leave" THEN "returned" ELSE "threw", 1)
  /\ UNCHANGED <<vars, worker, chosen, serial, faults, before>>

CallerStep == \/ Launch \/ OwnChunk \/ OwnChunkEnds \/ SerialEnds \/ Join \/ EndScope

ComputeNext ==
  \/ Fill
  \/ transform_column \/ transform_column_if \/ transform_column_parallel
  \/ CallerStep
  \/ \E k \in AllChunks : ChunkStep(k)

(* The calling thread and every started task are scheduled again and       *)
(* again: they are threads of the operating system (launch::async).        *)
ComputeSpec ==
  /\ ComputeInit /\ [][ComputeNext]_allVars
  /\ WF_allVars(CallerStep)
  /\ \A k \in AllChunks : WF_allVars(ChunkStep(k))

-----------------------------------------------------------------------------
(* A call that returns has done to the column what the serial loop does,   *)
(* chunk by chunk with a fresh copy of the operation, in every             *)
(* interleaving of the tasks: no element is missed or done twice, and no   *)
(* task's exception is swallowed.                                          *)
ParallelIsSerial ==
  caller.pc = "returned" =>
    m_tiles = [k \in DOMAIN before |-> Mapped(before[k], Len(before[k]))]

(* The tasks hold spans of the tiles: none may outlive the call, whichever *)
(* thread threw, and whatever threw first.                                 *)
TasksWithinCall == Free => \A k \in AllChunks : ~Running(k)

(* A call that throws leaves every chunk done up to some element and       *)
(* untouched from there on; a chunk whose own task did not throw is done   *)
(* or untouched as a whole.                                                *)
FailureContained ==
  caller.pc = "threw" =>
    \A k \in Chunks :
      \E n \in 0 .. Len(before[k]) :
        /\ m_tiles[k] = Mapped(before[k], n)
        /\ worker[k].pc # "failed" => n \in {0, Len(before[k])}

(* Every call ends: no failure leaves the calling thread waiting for a     *)
(* task that was never started.                                            *)
CallEnds == ~Free ~> Free
=============================================================================
