--------------------------- MODULE StewardCorpus ---------------------------
(***************************************************************************)
(* The tables of the steward runtime as sets of rows, what one ingestion   *)
(* makes of a file, and what a search returns.  A row is a record with its *)
(* table and its key in it; a document's row stands for its chunk rows     *)
(* too, which are written with it and carry its scope.                     *)
(***************************************************************************)
EXTENDS Naturals, Sequences, FiniteSets, FiniteSetsExt

CONSTANTS
  PlatformTenant, PlatformProject,   \* the layer-1 scope
  VectorCandidates, LexicalCandidates,
  NoPack, NoSource

ASSUME CorpusBounds == VectorCandidates \in Nat \ {0} /\ LexicalCandidates \in Nat \ {0}

TenantRow(t) == [table |-> "tenants", id |-> t]
ProjectRow(t, e, layer) ==
  [table |-> "estate_projects", id |-> e, tenant |-> t, layer |-> layer]
SourceRow(pack, s) ==
  [table |-> "source_records", id |-> pack, gen |-> s,
   documents |-> 0, chunks |-> 0, records |-> 0]
IntentRow(s, n, source) ==
  [table |-> "hospitality_intents", id |-> <<s, n>>, source |-> source]
AssetRow(s, n, t, e) ==
  [table |-> "facility_assets", id |-> <<s, n>>, tenant |-> t, estate |-> e]
VehicleRow(s, n, t, e) ==
  [table |-> "fleet_vehicles", id |-> <<s, n>>, tenant |-> t, estate |-> e]
VerdictRow(s, who, verdict, hits) ==
  [table |-> "audit_events", id |-> s, tenant |-> who.tenant,
   estate |-> who.estate, user |-> who.id, status |-> verdict, hits |-> hits]

Keys(R) == {<<r.table, r.id>> : r \in R}
In(table, R) == {r \in R : r.table = table}
Chunks(D) == MapThenSumSet(LAMBDA d : d.chunks, D)

----------------------------------------------------------------------------
(* ingest_bytes().  A body is its file's kind and how many pieces its text *)
(* is cut into when it parses.                                             *)

DetectType(ext) == IF ext \in {"pdf", "docx", "markdown", "csv", "xlsx"}
                   THEN ext ELSE "txt"

(* The number of pieces, or none when the parser raises: the bytes of a    *)
(* text sent under the name of a binary format seldom are one.  A table    *)
(* without rows has no unit, and a blank text no piece.                    *)
Parses(body) ==
  LET kind == DetectType(body.ext)
  IN  IF kind \in {"txt", "markdown", "csv"} THEN {{body.pieces}}
                                             ELSE {{body.pieces}, {}}

IngestRefused(layer, authority, cite) ==
  \/ layer \notin {1, 2}
  \/ authority \in {"synthetic", "evaluation_only"} /\ cite

DocumentRow(id, t, e, layer, pack, source, cite, fingerprint, pieces) ==
  [table |-> "documents", id |-> id, tenant |-> t, project |-> e,
   layer |-> layer, pack |-> pack, source |-> source, cite |-> cite,
   fingerprint |-> fingerprint, chunks |-> pieces,
   status |-> IF pieces > 0 THEN "ready" ELSE "empty"]

----------------------------------------------------------------------------
(* retrieval.py.  Both statements have the same filters; which of the rows *)
(* that pass them rank first depends on texts and vectors.                 *)

ChunkRows(R) == UNION {{[document |-> d, ordinal |-> i] : i \in 0 .. d.chunks - 1} :
                       d \in In("documents", R)}

(* Faulty: the estate's id alone is taken for its scope.                   *)
InEstate(R, t, e, layer) ==
  {c \in ChunkRows(R) : /\ c.document.project = e
                        /\ c.document.cite /\ c.document.layer = layer}

InScope(R, t, e, layer) ==
  {c \in ChunkRows(R) : /\ c.document.tenant = t /\ c.document.project = e
                        /\ c.document.cite /\ c.document.layer = layer}

UpTo(n, S) == kSubset(Min({n, Cardinality(S)}), S)

(* The text must match the question, and the index over the vectors is     *)
(* approximate: either statement may find less than there is.              *)
AtMost(n, S) == UNION {kSubset(i, S) : i \in 0 .. n}
Semantic(R, t, e, layer) == AtMost(VectorCandidates, InScope(R, t, e, layer))
Lexical(R, t, e, layer) == AtMost(LexicalCandidates, InScope(R, t, e, layer))

(* reciprocal_rank_fusion() keeps every chunk of either list once.         *)
HybridSearch(found, k) == UpTo(k, found)

(* combined_layer_search(): all the estate's hits, then the platform's.    *)
CombinedLayerSearch(found, k) ==
  UNION {{h2 \cup h1 : h1 \in UNION {UpTo(k - Cardinality(h2), l1) :
                                     l1 \in HybridSearch(found[1], k)}} :
         h2 \in HybridSearch(found[2], k)}

RetrievalVerdict(hits) == IF hits = {} THEN "insufficient_sources" ELSE "grounded"
=============================================================================
