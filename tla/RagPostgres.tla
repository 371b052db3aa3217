----------------------------- MODULE RagPostgres -----------------------------
(***************************************************************************)
(* PostgresRagIndexStore: both layers are rows of one table whose primary  *)
(* key, record_id, is the hash of document and text without the layer.     *)
(* upsert_document is one transaction at READ COMMITTED: it deletes the    *)
(* rows of the document in the layer, inserts the new ones and commits.    *)
(*                                                                         *)
(* Postgres is external: a DELETE works on the rows committed when it      *)
(* started and waits for other writers of those rows, an INSERT waits for  *)
(* writers of its key and raises if the key is there, a statement that     *)
(* fails aborts the transaction, the COMMIT of an aborted transaction      *)
(* rolls back without an error, and any transaction may be aborted.        *)
(***************************************************************************)
EXTENDS RagTypes, Naturals, FiniteSets

CONSTANTS
  Session,           \* ingest requests in flight, and Free when there is none
  Free,
  ExtensionCreated   \* what CREATE EXTENSION vector may come to

ASSUME PostgresFree == Free \notin Ingest
ASSUME PostgresExtension == ExtensionCreated \subseteq BOOLEAN

VARIABLES
  table,    \* estate_rag_records is there
  rows,     \* its committed rows: <<layer, document, version>>
  ensured,  \* _ensured of the process's store object
  pc,       \* where each worker is in upsert_document
  upserting, \* the layer, document and version it ingests
  snap,     \* the rows its DELETE saw, then those it deleted
  rowAnswered, \* <<layer, document>> whose ingest was answered with success
  rowMixed     \* <<layer, document>> two workers were replacing at once

pgVars == <<table, rows, ensured, pc, upserting, snap, rowAnswered, rowMixed>>

PostgresTypeOK ==
  /\ table \in BOOLEAN
  /\ ensured \in BOOLEAN
  /\ rows \subseteq Layer \X Doc \X Version
  /\ rows # {} => table
  /\ pc \in [Session -> {"idle", "begin", "ready", "deleting", "deleted", "inserted",
                        "done", "clash", "failed"}]
  /\ upserting \in [Session -> Ingest \cup {Free}]
  /\ \A w \in Session : pc[w] = "idle" <=> upserting[w] = Free
  /\ snap \in [Session -> SUBSET (Layer \X Doc \X Version)]
  /\ \A w \in Session : snap[w] # {} => pc[w] \in {"deleting", "deleted", "inserted"}

PostgresInit ==
  /\ table = FALSE
  /\ rows = {}
  /\ ensured = FALSE
  /\ pc = [w \in Session |-> "idle"]
  /\ upserting = [w \in Session |-> Free]
  /\ snap = [w \in Session |-> {}]
  /\ rowAnswered = {}
  /\ rowMixed = {}

----------------------------------------------------------------------------
Place(q) == <<q.layer, q.doc>>
RowsOf(q) == {<<q.layer, q.doc, v>> : v \in Version}
NewRow(q) == <<q.layer, q.doc, q.version>>

(* record_id: chunk_hash of document and text; the layer is no part of it. *)
SameKey(r1, r2) == r1[2] = r2[2] /\ r1[3] = r2[3]

BeginUpsert(w, q) ==
  /\ pc[w] = "idle"
  /\ upserting' = [upserting EXCEPT ![w] = q]
  /\ pc' = [pc EXCEPT ![w] = "begin"]
  /\ rowMixed' = IF \E x \in Session : upserting[x] # Free /\ Place(upserting[x]) = Place(q)
              THEN rowMixed \cup {Place(q)} ELSE rowMixed
  /\ UNCHANGED <<table, rows, ensured, snap, rowAnswered>>

(* ensure_schema: the tables and CREATE EXTENSION in one transaction; the  *)
(* exception of the latter is caught, the commit then rolls back, and      *)
(* _ensured is set all the same.                                           *)
EnsureSchema(w) ==
  /\ pc[w] = "begin"
  /\ \/ ensured /\ UNCHANGED table
     \/ ~ensured /\ \E created \in ExtensionCreated : table' = (table \/ created)
  /\ ensured' = TRUE
  /\ pc' = [pc EXCEPT ![w] = "ready"]
  /\ UNCHANGED <<rows, upserting, snap, rowAnswered, rowMixed>>

(* Somebody else is creating the tables, or the connection is lost.        *)
SchemaRaises(w) ==
  /\ pc[w] = "begin"
  /\ ~ensured
  /\ pc' = [pc EXCEPT ![w] = "failed"]
  /\ UNCHANGED <<table, rows, ensured, upserting, snap, rowAnswered, rowMixed>>

(* The DELETE starts and sees what is committed.                           *)
StartDelete(w) ==
  /\ pc[w] = "ready"
  /\ table
  /\ snap' = [snap EXCEPT ![w] = rows \cap RowsOf(upserting[w])]
  /\ pc' = [pc EXCEPT ![w] = "deleting"]
  /\ UNCHANGED <<table, rows, ensured, upserting, rowAnswered, rowMixed>>

NoTable(w) ==
  /\ pc[w] = "ready"
  /\ ~table
  /\ pc' = [pc EXCEPT ![w] = "failed"]
  /\ UNCHANGED <<table, rows, ensured, upserting, snap, rowAnswered, rowMixed>>

Holding == {w \in Session : pc[w] \in {"deleted", "inserted"}}

(* Faulty: every statement commits on its own.                             *)
DeleteAndCommit(w) ==
  /\ pc[w] = "deleting"
  /\ \A x \in Holding \ {w} : snap[x] \cap snap[w] = {}
  /\ rows' = rows \ snap[w]
  /\ snap' = [snap EXCEPT ![w] = {}]
  /\ pc' = [pc EXCEPT ![w] = "deleted"]
  /\ UNCHANGED <<table, ensured, upserting, rowAnswered, rowMixed>>

(* It waits for the transactions that hold those rows; what they deleted   *)
(* is skipped, what they inserted is not seen.                             *)
FinishDelete(w) ==
  /\ pc[w] = "deleting"
  /\ \A x \in Holding \ {w} : snap[x] \cap snap[w] = {}
  /\ snap' = [snap EXCEPT ![w] = @ \cap rows]
  /\ pc' = [pc EXCEPT ![w] = "deleted"]
  /\ UNCHANGED <<table, rows, ensured, upserting, rowAnswered, rowMixed>>

(* Rows of this key that another open transaction deletes or inserts.      *)
KeyHeld(w) ==
  \E x \in Holding \ {w} :
    \/ \E r \in snap[x] : SameKey(r, NewRow(upserting[w]))
    \/ pc[x] = "inserted" /\ SameKey(NewRow(upserting[x]), NewRow(upserting[w]))

KeyThere(w) == \E r \in rows \ snap[w] : SameKey(r, NewRow(upserting[w]))

Insert(w) ==
  /\ pc[w] = "deleted"
  /\ ~KeyHeld(w)
  /\ ~KeyThere(w)
  /\ pc' = [pc EXCEPT ![w] = "inserted"]
  /\ UNCHANGED <<table, rows, ensured, upserting, snap, rowAnswered, rowMixed>>

(* UniqueViolation: the transaction is rolled back, the route raises.      *)
InsertRaises(w) ==
  /\ pc[w] = "deleted"
  /\ ~KeyHeld(w)
  /\ KeyThere(w)
  /\ snap' = [snap EXCEPT ![w] = {}]
  /\ pc' = [pc EXCEPT ![w] = "clash"]
  /\ UNCHANGED <<table, rows, ensured, upserting, rowAnswered, rowMixed>>

Commit(w) ==
  /\ pc[w] = "inserted"
  /\ rows' = (rows \ snap[w]) \cup {NewRow(upserting[w])}
  /\ snap' = [snap EXCEPT ![w] = {}]
  /\ pc' = [pc EXCEPT ![w] = "done"]
  /\ UNCHANGED <<table, ensured, upserting, rowAnswered, rowMixed>>

(* Postgres aborts the transaction: a deadlock, a lost connection.  One    *)
(* lost while the COMMIT is in flight raises, though the rows are there.   *)
Abort(w) ==
  /\ pc[w] \in {"deleting", "deleted", "inserted", "done"}
  /\ snap' = [snap EXCEPT ![w] = {}]
  /\ pc' = [pc EXCEPT ![w] = "failed"]
  /\ UNCHANGED <<table, rows, ensured, upserting, rowAnswered, rowMixed>>

(* The route answers.                                                      *)
AnswerUpsert(w) ==
  /\ pc[w] \in {"done", "clash", "failed"}
  /\ rowAnswered' = IF pc[w] = "done" THEN rowAnswered \cup {Place(upserting[w])} ELSE rowAnswered
  /\ pc' = [pc EXCEPT ![w] = "idle"]
  /\ upserting' = [upserting EXCEPT ![w] = Free]
  /\ UNCHANGED <<table, rows, ensured, snap, rowMixed>>

(* The process restarts: open transactions roll back, the store is new.    *)
Restart ==
  /\ ensured' = FALSE
  /\ pc' = [w \in Session |-> "idle"]
  /\ upserting' = [w \in Session |-> Free]
  /\ snap' = [w \in Session |-> {}]
  /\ UNCHANGED <<table, rows, rowAnswered, rowMixed>>

PostgresNext ==
  \/ \E w \in Session :
       \/ \E q \in Ingest : BeginUpsert(w, q)
       \/ EnsureSchema(w) \/ SchemaRaises(w) \/ StartDelete(w) \/ NoTable(w) \/ FinishDelete(w)
       \/ Insert(w) \/ InsertRaises(w) \/ Commit(w) \/ Abort(w) \/ AnswerUpsert(w)
  \/ Restart

PostgresSpec == PostgresInit /\ [][PostgresNext]_pgVars

----------------------------------------------------------------------------
Versions(l, d) == {v \in Version : <<l, d, v>> \in rows}

(* A document whose ingest was answered with success never leaves its      *)
(* layer again, with overlapping ingests, aborts and restarts: deleting    *)
(* the old rows and inserting the new ones is one transaction.             *)
AnsweredStays == \A p \in rowAnswered : Versions(p[1], p[2]) # {}

(* A document has the chunks of one version only, unless two ingests of    *)
(* that document overlapped: then neither DELETE sees the other's rows and *)
(* both versions stay.                                                     *)
OneVersionUnlessMixed ==
  \A l \in Layer, d \in Doc : <<l, d>> \notin rowMixed => Cardinality(Versions(l, d)) <= 1

(* No upsert, aborted, refused or cut off, takes an answered document out  *)
(* or leaves a second version beside it.                                   *)
PostgresInv == PostgresTypeOK /\ AnsweredStays /\ OneVersionUnlessMixed

TableIndex == [l \in Layer |-> [d \in Doc |->
            IF Versions(l, d) = {} THEN NoDoc ELSE CHOOSE v \in Versions(l, d) : TRUE]]
TablePromise == INSTANCE RagIndex WITH index <- TableIndex

(* Until two ingests of one document overlap, with aborts and restarts,    *)
(* the table behaves as the index of RagIndex.                             *)
TableIsAnIndex ==
  TablePromise!IndexInit /\ [][rowMixed' = {} => TablePromise!IndexNext]_TableIndex

(* "Optional CREATE EXTENSION vector is attempted but not required - JSONB *)
(* storage is the durable contract" (postgres_store.py): what the store    *)
(* takes for ensured is there.                                             *)
EnsuredMeansTable == ensured => table

(* "Layer 2 (estate_documents): per-estate documents, separately indexed"  *)
(* (README.md of the kit): what one layer holds does not keep the other    *)
(* from taking a document.                                                 *)
LayersSeparate == \A w \in Session : pc[w] # "clash"
=============================================================================
