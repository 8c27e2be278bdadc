------------------------------ MODULE Serialize ------------------------------
(***************************************************************************)
(* save and load (include/soatable/serialize.hpp): a table that is saved,  *)
(* goes on changing, and is overwritten by what was saved, by a part of    *)
(* it, or by the buffer of something else.                                 *)
(*                                                                         *)
(* A buffer is the sequence of the values that append_pod and append_array *)
(* wrote.  One that ends inside a value is as good as one that ends before *)
(* it, since read_pod and read_into look at the size before they copy.     *)
(***************************************************************************)
EXTENDS SoaTable

CONSTANT MaxChanges   \* bound: changes of the table between save and load

ASSUME ChangesAssumption == MaxChanges \in Nat

VARIABLES buffer,    \* what save returned, until it is loaded
          status,    \* what load returned; "none" after another step
          saved,     \* history: the table that save wrote to buffer
          changes    \* history: changes of the table since the save

Magic       == 7
Version     == 1
Fingerprint == 9

(* Any other number stands for a header of another program or version, or  *)
(* of a schema with another number of columns, or other sizes or           *)
(* alignments.  The fingerprint hashes nothing else: a schema that differs *)
(* in the meaning of its columns only has the same one.                    *)
Other == 5

(* The columns in declaration order, whatever it is.                       *)
Declared == CHOOSE order \in SetToSeqs(Columns) : TRUE

-----------------------------------------------------------------------------
(* save                                                                    *)

RowFields(meta) == <<meta.generation, meta.signature, meta.alive>>

ColumnFields(c) == <<Len(c.dense)>> \o c.dense \o c.data

Image ==
  <<Magic, Version, Fingerprint, Len(m_rows), m_free_head, m_alive_count>>
  \o FlattenSeq([k \in DOMAIN m_rows |-> RowFields(m_rows[k])])
  \o m_free_links
  \o FlattenSeq([k \in DOMAIN Declared |-> ColumnFields(m_columns[Declared[k]])])

(* All of a table but the unused ends of its sparse vectors.               *)
Snapshot ==
  [rows |-> m_rows, links |-> m_free_links, head |-> m_free_head,
   count |-> m_alive_count, stale |-> stale,
   columns |-> [C \in Columns |-> [dense |-> m_columns[C].dense,
                                   data  |-> m_columns[C].data]]]

save ==
  /\ buffer' = Image
  /\ saved' = Snapshot
  /\ changes' = 0
  /\ status' = "none"
  /\ UNCHANGED vars

-----------------------------------------------------------------------------
(* load                                                                    *)

(* read_pod: a buffer that is too short yields a zero.                     *)
Word(bytes, k) == IF k <= Len(bytes) THEN bytes[k] ELSE 0

(* The header: what is wrong with it, or "ok".  Only the magic and the     *)
(* counts are checked for the end of the buffer.                           *)
HeaderStatus(bytes) ==
  IF Len(bytes) < 1 THEN "truncated"
  ELSE IF bytes[1] # Magic THEN "bad_magic"
  ELSE IF Word(bytes, 2) # Version THEN "version_mismatch"
  ELSE IF Word(bytes, 3) # Fingerprint THEN "schema_mismatch"
  ELSE IF Len(bytes) < 6 THEN "truncated"
  ELSE "ok"

(* How many values precede the links, and the k-th column.                 *)
LinksAt(bytes) == 6 + 3 * bytes[4]

ColumnAt(bytes) ==
  LET at[k \in 1 .. Len(Declared) + 1] ==
        IF k = 1 THEN LinksAt(bytes) + bytes[4]
        ELSE at[k - 1] + 1 + 2 * Word(bytes, at[k - 1] + 1)
  IN  at

RowsRead(bytes)      == ColumnAt(bytes)[1] <= Len(bytes)
ColumnRead(bytes, k) == ColumnAt(bytes)[k + 1] <= Len(bytes)
AllRead(bytes)       == ColumnRead(bytes, Len(Declared))

LoadedRow(bytes, i) ==
  [generation |-> bytes[7 + 3 * i],
   signature  |-> bytes[8 + 3 * i],
   alive      |-> bytes[9 + 3 * i]]

(* Mutant: the entries are replayed from the back.                         *)
ReplayedBackwards(dense, data) ==
  FoldLeft(LAMBDA c, i : emplace(c, dense[i], data[i]),
           EmptyColumn, Reverse([i \in DOMAIN dense |-> i]))

(* The entries of a column are replayed through emplace.                   *)
Replayed(dense, data) ==
  LET upto[i \in 0 .. Len(dense)] ==
        IF i = 0 THEN EmptyColumn
        ELSE emplace(upto[i - 1], dense[i], data[i])
  IN  upto[Len(dense)]

LoadedColumn(bytes, k) ==
  LET at    == ColumnAt(bytes)[k] + 1
      count == bytes[at]
  IN  Replayed(SubSeq(bytes, at + 1, at + count),
               SubSeq(bytes, at + count + 1, at + 2 * count))

LoadedLinks(bytes) ==
  SubSeq(bytes, LinksAt(bytes) + 1, LinksAt(bytes) + bytes[4])

(* The table filled from a buffer, as far as its columns go.               *)
Fill(bytes) ==
  /\ m_rows' = [k \in 1 .. bytes[4] |-> LoadedRow(bytes, k - 1)]
  /\ m_free_links' = LoadedLinks(bytes)
  /\ m_free_head' = bytes[5]
  /\ m_alive_count' = bytes[6]
  /\ m_columns' = [C \in Columns |->
                     LET k == CHOOSE k \in DOMAIN Declared : Declared[k] = C
                     IN  IF ColumnRead(bytes, k) THEN LoadedColumn(bytes, k)
                                                 ELSE EmptyColumn]

(* A rejected header: the table is not touched.                            *)
LoadRefused(bytes) ==
  /\ HeaderStatus(bytes) # "ok"
  /\ status' = HeaderStatus(bytes)
  /\ UNCHANGED vars

(* A buffer that ends in the rows, the links or a column: the table is     *)
(* cleared before it is filled, and again when the end is noticed.         *)
LoadTruncated(bytes) ==
  /\ HeaderStatus(bytes) = "ok" /\ ~(RowsRead(bytes) /\ AllRead(bytes))
  /\ status' = "truncated"
  /\ m_rows' = <<>>
  /\ m_free_links' = <<>>
  /\ m_free_head' = npos
  /\ m_alive_count' = 0
  /\ m_columns' = [C \in Columns |-> EmptyColumn]
  /\ stale' = {}

(* The table and the history of its handles are those that were saved.     *)
LoadOk(bytes) ==
  /\ HeaderStatus(bytes) = "ok" /\ RowsRead(bytes) /\ AllRead(bytes)
  /\ status' = "ok"
  /\ Fill(bytes)
  /\ stale' = saved.stale

load(bytes) ==
  /\ LoadRefused(bytes) \/ LoadTruncated(bytes) \/ LoadOk(bytes)
  /\ buffer' = <<>>
  /\ saved' = <<>>
  /\ changes' = 0

(* What load may be given: a beginning of the buffer, all of it included,  *)
(* or the buffer of something else.                                        *)
Foreign == {[buffer EXCEPT ![k] = Other] : k \in DOMAIN buffer \cap 1 .. 3}

-----------------------------------------------------------------------------
SerializeInit ==
  /\ Init
  /\ buffer = <<>>
  /\ status = "none"
  /\ saved = <<>>
  /\ changes = 0

TableStep ==
  /\ StableNext
  /\ IF buffer = <<>> THEN UNCHANGED changes
     ELSE changes < MaxChanges /\ changes' = changes + 1
  /\ status' = "none"
  /\ UNCHANGED <<buffer, saved>>

SerializeNext ==
  \/ TableStep
  \/ save
  \/ \E bytes \in Prefixes(buffer) \cup Foreign : load(bytes)

allVars == <<vars, buffer, status, saved, changes>>

SerializeSpec == SerializeInit /\ [][SerializeNext]_allVars

-----------------------------------------------------------------------------
IsEmpty == /\ m_rows = <<>> /\ m_free_links = <<>> /\ m_free_head = npos
           /\ m_alive_count = 0
           /\ m_columns = [C \in Columns |-> EmptyColumn]

(* load does all or nothing.  Given all of a buffer it restores the table  *)
(* that was saved, whatever became of the table in between ("round-trips   *)
(* the full table state (handles, generations, free list, and physical     *)
(* column order)"); given anything else it does not say ok, and leaves an  *)
(* empty table or the one it found, never a part of the buffer.            *)
LoadAllOrNothing ==
  [][\A bytes \in Prefixes(buffer) \cup Foreign :
       load(bytes) =>
         IF bytes = buffer /\ buffer # <<>>
         THEN status' = "ok" /\ Snapshot' = saved
         ELSE status' # "ok" /\ (IsEmpty' \/ UNCHANGED Snapshot)]_allVars
=============================================================================
