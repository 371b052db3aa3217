--------------------------- MODULE StewardRuntime ---------------------------
(***************************************************************************)
(* The steward runtime over one Postgres database: API requests on the     *)
(* server's threads and the pack loaders' command lines, each with one     *)
(* session_scope() transaction.  A session sees what is committed when its *)
(* statement runs, and its own rows.  An insert waits while another open   *)
(* session holds the key, and fails when the key is committed; any failure *)
(* rolls the whole session back.                                           *)
(***************************************************************************)
EXTENDS StewardAuth, StewardCorpus, SequencesExt

CONSTANTS
  ApiSession, CliSession,   \* sessions: each runs one call
  ApiCall, LoadCall,        \* the calls they may be given
  CorePack, IntentPack, AssetPack, VehiclePack,
  CoreDocs,                 \* document ids of the service core's files, in order
  Utterances,               \* lines of intents.jsonl
  Lines,                    \* <<tenant, estate>> of assets.jsonl and vehicles.jsonl
  Corpora,                  \* databases earlier sessions may have left
  Enrolled,                 \* the auth tables an operator filled before
  Backend, NoProvider,      \* STEWARD_EMBED_BACKEND; no cached embedder
  RequireProduction,        \* STEWARD_REQUIRE_PRODUCTION_EMBEDDINGS
  AdminRoutes,              \* STEWARD_ADMIN_ROUTES_ENABLED
  Faults                    \* which of "restart", "kill", "database", "model"

Session == ApiSession \cup CliSession

ASSUME RuntimeSessions == ApiSession \cap CliSession = {} /\ NoSource \notin Session
ASSUME RuntimeBackends == Backend \subseteq {"hash", "fastembed"} /\ NoProvider \notin Backend
ASSUME RuntimeModes == RequireProduction \in BOOLEAN /\ AdminRoutes \in BOOLEAN
ASSUME RuntimeFaults == Faults \subseteq {"restart", "kill", "database", "model"}
ASSUME RuntimeQueries ==
  \A call \in ApiCall : call.op = "query" => call.layer \in 0 .. 2 /\ call.refused \in BOOLEAN
(* The packs' files are committed beside the loaders: none is empty.       *)
ASSUME RuntimePacks ==
  /\ CoreDocs \in Seq(ToSet(CoreDocs)) /\ CoreDocs # << >> /\ IsInjective(CoreDocs)
  /\ Lines \in Seq(ToSet(Lines)) /\ Lines # << >> /\ Utterances \in Nat \ {0}
  /\ CorePack \notin {IntentPack, AssetPack, VehiclePack, NoPack}
  /\ IntentPack \notin {AssetPack, VehiclePack} /\ AssetPack # VehiclePack
ASSUME RuntimeLoads ==
  \A call \in LoadCall :
    call.pack \in {CorePack, IntentPack, AssetPack, VehiclePack} /\ call.force \in BOOLEAN
ASSUME RuntimeEnrolled == AuthTables(Enrolled.accounts, Enrolled.tokens, Enrolled.access)

----------------------------------------------------------------------------
(* What the packs leave in the tables.                                     *)

KnownTables(R) ==
  \A r \in R : r.table \in {"tenants", "estate_projects", "source_records",
    "documents", "hospitality_intents", "facility_assets", "fleet_vehicles", "audit_events"}
UniqueKeys(R) == \A q, r \in R : q.table = r.table /\ q.id = r.id => q = r

SourceOf(pack, R) == {r \in In("source_records", R) : r.id = pack}
Core(R) == {d \in In("documents", R) : d.pack = CorePack /\ d.source # NoSource}
CoreWhole(R) ==
  LET core == Core(R)
      source == SourceOf(CorePack, R)
  IN /\ core = {} <=> source = {}
     /\ core # {} => /\ {d.id : d \in core} = ToSet(CoreDocs)
                     /\ Cardinality(core) = Len(CoreDocs)
     /\ \A r \in source :
          /\ r.documents = Cardinality(core)
          /\ r.chunks = Chunks(core)
          /\ \A d \in core : d.source = r.gen

RowsCounted(pack, table, count, R) ==
  /\ In(table, R) = {} <=> SourceOf(pack, R) = {}
  /\ \A r \in SourceOf(pack, R) : r.records = count
PackRowsCounted(R) ==
  /\ RowsCounted(IntentPack, "hospitality_intents", Utterances, R)
  /\ RowsCounted(AssetPack, "facility_assets", Len(Lines), R)
  /\ RowsCounted(VehiclePack, "fleet_vehicles", Len(Lines), R)
Traced(i, R) == \E r \in SourceOf(IntentPack, R) : r.gen = i.source

(* Earlier sessions ran the same calls, none of them a forced load of the  *)
(* utterances, and had ids of their own, every source record its own; the  *)
(* platform's layer is as loaders left it: whoever uploads into it is a    *)
(* session of the behaviour, so that his role is known.                    *)
LeftBehind(R) ==
  /\ \A r \in R : r.id \notin Session
  /\ \A r \in R : r.table \in {"hospitality_intents", "facility_assets", "fleet_vehicles"} =>
       r.id[1] \notin Session
  /\ \A r \in In("source_records", R) : r.gen # NoSource
  /\ \A d \in In("documents", R) : d.layer = 1 => d.source # NoSource
  /\ KnownTables(R) /\ UniqueKeys(R) /\ CoreWhole(R) /\ PackRowsCounted(R)
  /\ \A i \in In("hospitality_intents", R) : Traced(i, R)
ASSUME RuntimeCorpora == \A R \in Corpora : LeftBehind(R)

VARIABLES
  db,        \* committed rows of the knowledge and audit tables
  tx,        \* each session: its call, principal, program and own rows
  reply,     \* the answers that follow a commit: still due, sent or lost
  backend,   \* the environment's embedding backend
  provider   \* the server's cached embedder

runtimeVars == <<db, tx, reply, backend, provider, authVars>>

Idle == [pc |-> "idle"]
Start(call, who, todo) ==
  [pc |-> "open", call |-> call, who |-> who, todo |-> todo, pend |-> << >>,
   rows |-> {}, gone |-> {}, source |-> NoSource,
   found |-> [layer \in {1, 2} |-> {}], answer |-> [code |-> "pending", hits |-> {}]]
Over(call, who, code, hits) ==
  [pc |-> "done", call |-> call, who |-> who, answer |-> [code |-> code, hits |-> hits]]

IsOpen(s) == tx[s].pc = "open"
IsDone(s) == tx[s].pc = "done"
Served(s) == IsDone(s) /\ tx[s].answer.code = "ok"
Visible(s) == (db \ tx[s].gone) \cup tx[s].rows
At(s, step) ==
  /\ IsOpen(s) /\ tx[s].pend = << >> /\ tx[s].todo # << >>
  /\ Head(tx[s].todo).do = step
Rest(s) == Tail(tx[s].todo)

(* Faulty: session_scope() commits in its finally clause.                  *)
FailCommitted(s, code) ==
  /\ tx' = [tx EXCEPT ![s] = Over(@.call, @.who, code, {})]
  /\ db' = (db \ tx[s].gone) \cup tx[s].rows

(* session_scope() on an exception, and what the route answers.            *)
Fail(s, code) ==
  /\ tx' = [tx EXCEPT ![s] = Over(@.call, @.who, code, {})]
  /\ UNCHANGED db
----------------------------------------------------------------------------
(* What each call does, as a program of statements.                        *)

EstateScope(who) == [do |-> "scope", tenant |-> who.tenant, estate |-> who.estate, layer |-> 2]
PlatformScope == [do |-> "scope", tenant |-> PlatformTenant, estate |-> PlatformProject, layer |-> 1]
Search(layer) == <<[do |-> "semantic", layer |-> layer], [do |-> "lexical", layer |-> layer]>>

QueryProgram(call) ==
  IF call.refused THEN <<[do |-> "refuse"]>>
  ELSE (CASE call.layer = 0 -> Search(2) \o Search(1)
          [] OTHER -> Search(call.layer)) \o <<[do |-> "ground"]>>

IngestProgram(call, who) ==
  << IF call.layer = 1 THEN PlatformScope ELSE EstateScope(who), [do |-> "ingest"] >>

LineProgram ==
  [k \in 1 .. 2 * Len(Lines) |->
     LET i == (k + 1) \div 2
     IN  IF k % 2 = 0 THEN [do |-> "line", line |-> i]
         ELSE [do |-> "scope", tenant |-> Lines[i][1], estate |-> Lines[i][2], layer |-> 2]]
LoadProgram(call) ==
  (CASE call.pack = CorePack -> <<PlatformScope, [do |-> "source"], [do |-> "core"]>>
     [] call.pack = IntentPack -> <<PlatformScope, [do |-> "source"], [do |-> "intents"]>>
     [] OTHER -> <<[do |-> "source"]>> \o LineProgram)
  \o <<[do |-> "count"]>>
----------------------------------------------------------------------------
(* Requests: the principal is resolved in a session of its own, before the *)
(* handler's; what an operator changes after that does not reach it.       *)

Request(s, call) ==
  /\ s \in ApiSession /\ tx[s] = Idle
  /\ LET code == Denied(call.header, call.tenant, call.estate)
         who == ResolvePrincipal(call.header, call.tenant, call.estate)
         curator == call.op = "ingest" /\ call.layer = 1
     IN  tx' = [tx EXCEPT ![s] =
           IF code # "no" THEN Over(call, Blank, code, {})
           ELSE CASE call.op = "reset" ->
                       IF ~RequireAdmin(who) THEN Over(call, who, "admin_required", {})
                       ELSE IF ~AdminRoutes THEN Over(call, who, "admin_route_disabled", {})
                       ELSE Start(call, who, <<[do |-> "reset"]>>)
                  [] call.op \in {"classify", "status"} ->
                       Start(call, who, <<[do |-> call.op]>>)
                  [] call.op = "inventory" ->
                       Start(call, who, <<[do |-> "sources"], [do |-> "by_pack"]>>)
                  [] OTHER ->
                       IF ~AuthorizeEstate(who, who.tenant, who.estate, curator)
                       THEN Over(call, who, "curator_required", {})
                       ELSE CASE call.op = "query" -> Start(call, who, QueryProgram(call))
                              [] call.op = "ingest" -> Start(call, who, IngestProgram(call, who))
                              [] OTHER -> Start(call, who, <<[do |-> "list"]>>)]
  /\ UNCHANGED <<db, backend, provider, reply, authVars>>

(* main() of a loader: the full profile ends before it opens a session.    *)
LoadPack(s, call) ==
  /\ s \in CliSession /\ tx[s] = Idle
  /\ tx' = [tx EXCEPT ![s] = IF call.full THEN Over(call, Blank, "full_profile_refused", {})
                             ELSE Start(call, Blank, LoadProgram(call))]
  /\ UNCHANGED <<db, backend, provider, reply, authVars>>
----------------------------------------------------------------------------
(* Inserts.                                                                *)

Holds(u) == IF IsOpen(u) THEN Keys(tx[u].rows \cup tx[u].gone) ELSE {}
Wanted(s) == IF ~IsOpen(s) THEN {}
             ELSE IF tx[s].pend # << >> THEN Keys({Head(tx[s].pend)})
             ELSE IF At(s, "delete") THEN Keys({Head(tx[s].todo).row}) ELSE {}
WaitsFor(s, u) == s # u /\ Wanted(s) \cap Holds(u) # {}
Waits(s) == \E u \in Session : WaitsFor(s, u)

Flush(s) ==
  /\ IsOpen(s) /\ tx[s].pend # << >> /\ ~Waits(s)
  /\ IF Wanted(s) \cap Keys(Visible(s)) # {}
     THEN Fail(s, "integrity_error")
     ELSE /\ tx' = [tx EXCEPT ![s].pend = Tail(@),
                              ![s].rows = @ \cup {Head(tx[s].pend)}]
          /\ UNCHANGED db
  /\ UNCHANGED <<backend, provider, reply, authVars>>

(* Postgres aborts one of the sessions that wait for each other in a ring. *)
BreakDeadlock(s) ==
  /\ \E C \in SUBSET Session :
       /\ s \in C
       /\ \A u \in C : /\ \E v \in C : WaitsFor(u, v)
                       /\ \E v \in C : WaitsFor(v, u)
  /\ Fail(s, "deadlock_detected")
  /\ UNCHANGED <<backend, provider, reply, authVars>>

(* ensure_platform_scope() and ensure_estate_scope(): a project is looked  *)
(* up by its id alone, whatever tenant its row names.                      *)
EnsureScope(s) ==
  /\ At(s, "scope")
  /\ LET step == Head(tx[s].todo)
         Absent(table, id) == <<table, id>> \notin Keys(Visible(s))
     IN tx' = [tx EXCEPT ![s].todo = Rest(s), ![s].pend =
          (IF Absent("tenants", step.tenant) THEN <<TenantRow(step.tenant)>> ELSE << >>) \o
          (IF Absent("estate_projects", step.estate)
           THEN <<ProjectRow(step.tenant, step.estate, step.layer)>> ELSE << >>)]
  /\ UNCHANGED <<db, backend, provider, reply, authVars>>

(* upsert_source_record().                                                 *)
LookSource(s) ==
  /\ At(s, "source")
  /\ LET call == tx[s].call
         existing == {r \in In("source_records", Visible(s)) : r.id = call.pack}
     IN tx' = [tx EXCEPT ![s] =
          IF existing # {} /\ ~call.force
          THEN [@ EXCEPT !.todo = Rest(s), !.source = (CHOOSE r \in existing : TRUE).gen]
          ELSE [@ EXCEPT !.source = s, !.todo =
                  (IF existing = {} THEN << >>
                   ELSE <<[do |-> "delete", row |-> CHOOSE r \in existing : TRUE]>>)
                  \o <<[do |-> "new_source"]>> \o Rest(s)]]
  /\ UNCHANGED <<db, backend, provider, reply, authVars>>

DeleteSource(s) ==
  /\ At(s, "delete") /\ ~Waits(s)
  /\ tx' = [tx EXCEPT ![s].todo = Rest(s),
                      ![s].gone = @ \cup (db \cap {Head(tx[s].todo).row})]
  /\ UNCHANGED <<db, backend, provider, reply, authVars>>

(* Faulty: the source record is committed before the rows that follow it.  *)
NewSourceCommitted(s) ==
  /\ At(s, "new_source") /\ ~Waits(s)
  /\ <<"source_records", tx[s].call.pack>> \notin Keys(Visible(s))
  /\ tx' = [tx EXCEPT ![s].todo = Rest(s)]
  /\ db' = (db \ tx[s].gone) \cup {[SourceRow(tx[s].call.pack, s) EXCEPT !.records = Utterances]}
  /\ UNCHANGED <<backend, provider, reply, authVars>>

NewSource(s) ==
  /\ At(s, "new_source")
  /\ tx' = [tx EXCEPT ![s].todo = Rest(s), ![s].pend = <<SourceRow(tx[s].call.pack, s)>>]
  /\ UNCHANGED <<db, backend, provider, reply, authVars>>
----------------------------------------------------------------------------
(* The embedder: cached by the server's process, made anew by a loader's.  *)

EmbedderOf(s) == IF s \in ApiSession /\ provider # NoProvider THEN provider ELSE backend
Refuses(s) == RequireProduction /\ EmbedderOf(s) # "fastembed"
Unavailable(s) == "model" \in Faults /\ backend = "fastembed" /\ provider = NoProvider
Cache(s) == provider' = IF s \in ApiSession THEN EmbedderOf(s) ELSE provider

(* What ingest_bytes() refuses before it asks for the embedder.            *)
Unfit(s) == LET call == tx[s].call IN IngestRefused(call.layer, call.authority, call.cite)

(* get_embedder() raises: there is no fallback.                            *)
EmbedderFails(s) ==
  /\ At(s, "semantic") \/ (At(s, "ingest") /\ ~Unfit(s)) \/ At(s, "core")
  /\ Refuses(s) \/ Unavailable(s)
  /\ Fail(s, "no_embedder")
  /\ UNCHANGED <<backend, provider, reply, authVars>>

Ingest(s) ==
  /\ At(s, "ingest")
  /\ LET call == tx[s].call
         who == tx[s].who
         platform == call.layer = 1
     IN \/ Unfit(s) /\ Fail(s, "ingest_failed") /\ UNCHANGED provider
        \/ /\ ~Unfit(s) /\ ~Refuses(s) /\ Cache(s)
           /\ \/ {} \in Parses(call.body) /\ Fail(s, "ingest_failed")
              \/ /\ \E n \in UNION Parses(call.body) :
                      tx' = [tx EXCEPT ![s].todo = Rest(s), ![s].pend =
                        <<DocumentRow(s, IF platform THEN PlatformTenant ELSE who.tenant,
                            IF platform THEN PlatformProject ELSE who.estate, call.layer,
                            call.pack, NoSource, call.cite, EmbedderOf(s), n)>>]
                 /\ UNCHANGED db
  /\ UNCHANGED <<backend, reply, authVars>>

(* The documents of the service core have fixed ids, one per file.         *)
CoreRows(s) ==
  [i \in DOMAIN CoreDocs |-> DocumentRow(CoreDocs[i], PlatformTenant, PlatformProject, 1, CorePack,
                                 tx[s].source, TRUE, EmbedderOf(s), 1)]
LoadCore(s) ==
  /\ At(s, "core") /\ ~Refuses(s)
  /\ tx' = [tx EXCEPT ![s].todo = Rest(s),
                      ![s].pend = CoreRows(s)]
  /\ UNCHANGED <<db, backend, provider, reply, authVars>>
LoadIntents(s) ==
  /\ At(s, "intents")
  /\ tx' = [tx EXCEPT ![s].todo = Rest(s), ![s].rows = @ \cup
              {IntentRow(s, n, tx[s].source) : n \in 1 .. Utterances}]
  /\ UNCHANGED <<db, backend, provider, reply, authVars>>
LoadLine(s) ==
  /\ At(s, "line")
  /\ LET i == Head(tx[s].todo).line
         row == IF tx[s].call.pack = AssetPack
                THEN AssetRow(s, i, Lines[i][1], Lines[i][2])
                ELSE VehicleRow(s, i, Lines[i][1], Lines[i][2])
     IN tx' = [tx EXCEPT ![s].todo = Rest(s), ![s].rows = @ \cup {row}]
  /\ UNCHANGED <<db, backend, provider, reply, authVars>>

(* The counts go into the source record the session holds; one that an     *)
(* earlier load wrote has the same counts already and is not updated.      *)
Count(s) ==
  /\ At(s, "count")
  /\ LET rows == tx[s].rows
         docs == In("documents", rows)
         others == rows \ (docs \cup In("tenants", rows) \cup In("estate_projects", rows)
                                \cup In("source_records", rows))
         Counted(r) == [r EXCEPT !.documents = Cardinality(docs),
                                 !.chunks = Chunks(docs),
                                 !.records = IF docs # {} THEN Len(CoreDocs)
                                             ELSE Cardinality(others)]
     IN tx' = [tx EXCEPT ![s].todo = Rest(s), ![s].rows =
                 {IF r.table = "source_records" THEN Counted(r) ELSE r : r \in rows}]
  /\ UNCHANGED <<db, backend, provider, reply, authVars>>
----------------------------------------------------------------------------
(* Searching, and the verdict that is written with every answer.           *)

Scope(s, layer) == IF layer = 1 THEN <<PlatformTenant, PlatformProject>>
                   ELSE <<tx[s].who.tenant, tx[s].who.estate>>

SemanticSearch(s) ==
  /\ At(s, "semantic") /\ ~Refuses(s)
  /\ LET layer == Head(tx[s].todo).layer
         scope == Scope(s, layer)
     IN \E C \in Semantic(db, scope[1], scope[2], layer) :
          tx' = [tx EXCEPT ![s].todo = Rest(s), ![s].found[layer] = @ \cup C]
  /\ Cache(s)
  /\ UNCHANGED <<db, backend, reply, authVars>>
LexicalSearch(s) ==
  /\ At(s, "lexical")
  /\ LET layer == Head(tx[s].todo).layer
         scope == Scope(s, layer)
     IN \E C \in Lexical(db, scope[1], scope[2], layer) :
          tx' = [tx EXCEPT ![s].todo = Rest(s), ![s].found[layer] = @ \cup C]
  /\ UNCHANGED <<db, backend, provider, reply, authVars>>

Record(s, verdict, hits) ==
  tx' = [tx EXCEPT ![s].todo = Rest(s),
           ![s].rows = @ \cup {VerdictRow(s, tx[s].who, verdict, Cardinality(hits))},
           ![s].answer = [code |-> verdict, hits |-> hits]]
Ground(s) ==
  /\ At(s, "ground")
  /\ LET call == tx[s].call
         found == tx[s].found
     IN \E hits \in IF call.layer = 0 THEN CombinedLayerSearch(found, call.k)
                                      ELSE HybridSearch(found[call.layer], call.k) :
          Record(s, RetrievalVerdict(hits), hits)
  /\ UNCHANGED <<db, backend, provider, reply, authVars>>
Refuse(s) ==
  /\ At(s, "refuse")
  /\ Record(s, "out_of_scope", {})
  /\ UNCHANGED <<db, backend, provider, reply, authVars>>
----------------------------------------------------------------------------
(* Readers, and the embedder's reset.                                      *)

Finish(s, code, hits) == tx' = [tx EXCEPT ![s] = Over(@.call, @.who, code, hits)]

(* facilities_query() and fleet_query(), with or without their filter.     *)
ListRows(s) ==
  /\ At(s, "list")
  /\ LET mine == {r \in In(tx[s].call.table, db) : /\ r.tenant = tx[s].who.tenant
                                                   /\ r.estate = tx[s].who.estate}
     IN \E hits \in SUBSET mine : Finish(s, "ok", hits)
  /\ UNCHANGED <<db, backend, provider, reply, authVars>>
ClassifyIntent(s) ==
  /\ At(s, "classify")
  /\ \E n \in 0 .. 5 : \E hits \in kSubset(n, In("hospitality_intents", db)) :
       Finish(s, "ok", hits)
  /\ UNCHANGED <<db, backend, provider, reply, authVars>>
(* rag_status() makes the embedder; its failure is only reported.          *)
Status(s) ==
  /\ At(s, "status")
  /\ Finish(s, "ok", {})
  /\ \/ (Refuses(s) \/ Unavailable(s)) /\ UNCHANGED provider
     \/ ~Refuses(s) /\ Cache(s)
  /\ UNCHANGED <<db, backend, reply, authVars>>
(* pack_inventory(): the sources, then the documents under each pack.      *)
InventorySources(s) ==
  /\ At(s, "sources")
  /\ tx' = [tx EXCEPT ![s].todo = Rest(s), ![s].answer.hits = In("source_records", db)]
  /\ UNCHANGED <<db, backend, provider, reply, authVars>>
InventoryDocuments(s) ==
  /\ At(s, "by_pack")
  /\ tx' = [tx EXCEPT ![s].todo = Rest(s), ![s].answer.hits =
              @ \cup {d \in In("documents", db) : d.pack # NoPack}]
  /\ UNCHANGED <<db, backend, provider, reply, authVars>>

ResetEmbedder(s) ==
  /\ At(s, "reset")
  /\ Finish(s, "ok", {})
  /\ provider' = NoProvider
  /\ UNCHANGED <<db, backend, reply, authVars>>
----------------------------------------------------------------------------
(* session_scope() commits when the handler's block ends; the route then   *)
(* returns, and only after that is the answer sent.                        *)
Commit(s) ==
  /\ IsOpen(s) /\ tx[s].todo = << >> /\ tx[s].pend = << >>
  /\ db' = (db \ tx[s].gone) \cup tx[s].rows
  /\ LET verdict == tx[s].answer.code
     IN  Finish(s, IF verdict = "pending" THEN "ok" ELSE verdict, tx[s].answer.hits)
  /\ reply' = IF s \in ApiSession THEN [reply EXCEPT ![s] = "due"] ELSE reply
  /\ UNCHANGED <<backend, provider, authVars>>
SendAnswer(s) ==
  /\ s \in ApiSession /\ reply[s] = "due"
  /\ reply' = [reply EXCEPT ![s] = "sent"]
  /\ UNCHANGED <<db, tx, backend, provider, authVars>>

(* The connection is lost: the server rolls back, or had the COMMIT by     *)
(* then and the route raises all the same.  A loader is killed, or the     *)
(* server restarts with the environment it then finds, also between a      *)
(* commit and its answer.                                                  *)
DatabaseFails(s) ==
  /\ "database" \in Faults
  /\ \/ IsOpen(s) /\ Fail(s, "database_error") /\ UNCHANGED reply
     \/ /\ s \in ApiSession /\ reply[s] = "due"
        /\ reply' = [reply EXCEPT ![s] = "lost"]
        /\ UNCHANGED <<db, tx>>
  /\ UNCHANGED <<backend, provider, authVars>>
Kill(s) ==
  /\ "kill" \in Faults /\ s \in CliSession /\ IsOpen(s)
  /\ Fail(s, "killed")
  /\ UNCHANGED <<backend, provider, reply, authVars>>
Restart ==
  /\ "restart" \in Faults
  /\ tx' = [s \in Session |-> IF s \in ApiSession /\ IsOpen(s)
                              THEN Over(tx[s].call, tx[s].who, "lost", {}) ELSE tx[s]]
  /\ reply' = [s \in ApiSession |-> IF reply[s] = "due" THEN "lost" ELSE reply[s]]
  /\ provider' = NoProvider
  /\ backend' \in Backend
  /\ UNCHANGED <<db, authVars>>

Step(s) ==
  \/ Flush(s) \/ BreakDeadlock(s) \/ EnsureScope(s)
  \/ LookSource(s) \/ DeleteSource(s) \/ NewSource(s)
  \/ EmbedderFails(s) \/ Ingest(s) \/ LoadCore(s) \/ LoadIntents(s) \/ LoadLine(s) \/ Count(s)
  \/ SemanticSearch(s) \/ LexicalSearch(s) \/ Ground(s) \/ Refuse(s)
  \/ ListRows(s) \/ ClassifyIntent(s) \/ Status(s) \/ ResetEmbedder(s)
  \/ InventorySources(s) \/ InventoryDocuments(s)
  \/ Commit(s) \/ SendAnswer(s)

Operator ==
  /\ \/ SeedPilotFixture
     \/ \E t \in Token : Revoke(t)
     \/ \E p \in Principal : Disable(p)
     \/ \E a \in access : Ungrant(a)
  /\ UNCHANGED <<db, tx, reply, backend, provider>>

Work ==
  \/ \E s \in ApiSession : \E call \in ApiCall : Request(s, call)
  \/ \E s \in CliSession : \E call \in LoadCall : LoadPack(s, call)
  \/ \E s \in Session : Step(s)
Disturbance ==
  \/ \E s \in Session : DatabaseFails(s) \/ Kill(s)
  \/ Restart
  \/ Operator
RuntimeNext == Work \/ Disturbance

RuntimeInit ==
  /\ db \in Corpora
  /\ tx = [s \in Session |-> Idle]
  /\ reply = [s \in ApiSession |-> "none"]
  /\ backend \in Backend
  /\ provider = NoProvider
  /\ accounts = Enrolled.accounts
  /\ tokens = Enrolled.tokens
  /\ access = Enrolled.access

RuntimeSpec == RuntimeInit /\ [][RuntimeNext]_runtimeVars
----------------------------------------------------------------------------
(* Every committed row is of a known table and the only one with its key.  *)
RuntimeTypeOK ==
  /\ AuthTypeOK
  /\ KnownTables(db) /\ UniqueKeys(db)
  /\ backend \in Backend /\ provider \in Backend \cup {NoProvider}
  /\ \A s \in Session : tx[s].pc \in {"idle", "open", "done"}
  /\ reply \in [ApiSession -> {"none", "due", "sent", "lost"}]

(* A query is answered from the tenant and the estate the principal was    *)
(* admitted to, though estates of two tenants share one project row, and   *)
(* from the platform's layer, which only packs and curators can have       *)
(* written; never from what may not be cited.  Listed assets and vehicles  *)
(* are the estate's own.                                                   *)
CuratedBy(u) == Served(u) /\ ({tx[u].who.role, tx[u].who.estateRole} \cap {"curator", "admin"} # {})
AnswersStayInScope ==
  \A s \in ApiSession : IsDone(s) => LET who == tx[s].who call == tx[s].call IN
    \A h \in tx[s].answer.hits :
      /\ call.op = "query" =>
           /\ h.document.cite
           /\ \/ /\ call.layer # 1 /\ h.document.layer = 2
                 /\ h.document.tenant = who.tenant /\ h.document.project = who.estate
              \/ /\ call.layer # 2 /\ h.document.layer = 1
                 /\ h.document.tenant = PlatformTenant
                 /\ \/ h.document.source # NoSource
                    \/ h.document.id \in ApiSession /\ CuratedBy(h.document.id)
      /\ call.op = "list" => h.tenant = who.tenant /\ h.estate = who.estate

(* Whoever is told a verdict finds exactly that one in the ledger, and it  *)
(* says what the answer held; a refused question was answered with         *)
(* nothing; whoever is told of a failure finds none.  A question that has  *)
(* no such answer, as it is still asked, its answer was lost, or only the  *)
(* connection was while COMMIT ran, has none either, or else, if it was    *)
(* committed, the one verdict it would have been told.                     *)
Verdicts == {"grounded", "insufficient_sources", "out_of_scope"}
Told(s) == IsDone(s) /\ tx[s].answer.code # "lost" /\ reply[s] \notin {"due", "lost"}
VerdictsOf(s) == {r \in In("audit_events", db) : r.id = s}
HasItsVerdict(s) ==
  LET code == tx[s].answer.code
      hits == tx[s].answer.hits
  IN /\ IsDone(s) /\ code \in Verdicts
     /\ VerdictsOf(s) = {VerdictRow(s, tx[s].who, code, Cardinality(hits))}
     /\ tx[s].call.refused <=> code = "out_of_scope"
     /\ hits = {} <=> code # "grounded"
VerdictPerAnswer ==
  \A s \in ApiSession : tx[s] # Idle /\ tx[s].call.op = "query" =>
    IF Told(s)
    THEN HasItsVerdict(s) \/ (tx[s].answer.code \notin Verdicts /\ VerdictsOf(s) = {})
    ELSE VerdictsOf(s) = {} \/ (reply[s] # "none" /\ HasItsVerdict(s))

(* However often, forced or side by side the service core is loaded, and   *)
(* whatever is uploaded under its pack's name, its documents are all there *)
(* once or not at all, and its one source record is the one they name and  *)
(* counts them.  An inventory that lists the record lists the documents.   *)
CorePackWhole ==
  /\ CoreWhole(db)
  /\ \A s \in ApiSession : Served(s) /\ tx[s].call.op = "inventory" =>
       \A r \in tx[s].answer.hits : r.table = "source_records" /\ r.id = CorePack =>
         Cardinality(Core(tx[s].answer.hits)) = r.documents

(* The rows of the other packs come with a source record that counts one   *)
(* load, however many there were; utterances lose theirs only to a forced  *)
(* load.                                                                   *)
Loaded(pack, force) ==
  \E s \in CliSession : Served(s) /\ tx[s].call.pack = pack /\ tx[s].call.force = force
PackRowsTraceable ==
  /\ PackRowsCounted(db)
  /\ \A i \in In("hospitality_intents", db) : Traced(i, db) \/ Loaded(IntentPack, TRUE)

(* Whoever loads, reloads, ingests, fails or is killed side by side, the   *)
(* unique keys hold and each pack is there whole, under its one source     *)
(* record, or not at all.                                                  *)
PacksWhole == RuntimeTypeOK /\ CorePackWhole /\ PackRowsTraceable

(* A committed verdict is never changed or taken back.  A step adds one at *)
(* most: the commit of a query adds the verdict it is about to be told.     *)
LedgerOnlyGrows ==
  /\ In("audit_events", db) \subseteq In("audit_events", db')
  /\ \A r, q \in In("audit_events", db') \ In("audit_events", db) :
       /\ q = r /\ r.id \in ApiSession
       /\ Commit(r.id) /\ tx'[r.id].answer.code = r.status

(* What is loaded stays: a pack keeps a source record, though a forced     *)
(* load replaces it, and the rows of its lines; the service core is never  *)
(* changed, and no load of it, forced or not, commits a second time.       *)
LoadedStays ==
  /\ \A pack \in {CorePack, IntentPack, AssetPack, VehiclePack} :
       SourceOf(pack, db) # {} => SourceOf(pack, db') # {}
  /\ \A table \in {"hospitality_intents", "facility_assets", "fleet_vehicles"} :
       In(table, db) \subseteq In(table, db')
  /\ Core(db) # {} =>
       /\ Core(db') = Core(db) /\ SourceOf(CorePack, db') = SourceOf(CorePack, db)
       /\ \A s \in CliSession : Commit(s) => tx[s].call.pack # CorePack

(* What a query returns was embedded by the embedder that compared it with *)
(* the question.                                                           *)
HitsMatchEmbedder ==
  \A s \in ApiSession : IsOpen(s) /\ provider # NoProvider =>
    \A layer \in {1, 2} : \A c \in tx[s].found[layer] : c.document.fingerprint = provider
=============================================================================
