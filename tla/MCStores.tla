------------------------------ MODULE MCStores ------------------------------
(* What is kept between calls: the memory cache, the audit chain, the      *)
(* schemas of the platform's SQLite file and of the steward's Postgres     *)
(* database, the hotel's notes, and the job queue.  They share nothing, so *)
(* a behaviour is one of one of them, while the others stay as they begin. *)
EXTENDS MemoryCache, AuditChain, PlatformStartup, StewardSchema, HotelNotes, JobQueue, TLC

CONSTANTS chat, search, k1, k2,
          e1, e2, e3, e4, a, b,
          r1, r2,
          plain, accented, broken, listed,
          mail, audit, send, scan,
          MaxJobs,   \* bound: jobs ever created
          MaxMillis  \* bound: milliseconds that pass

Namespaces == {chat, search}
Keys == {k1, k2}

FourEvents == {e1, e2, e3, e4}
Pair == {a, b}  \* of whatever is interchangeable: values, instances

ThreeEntities == <<"booking", "guest", "house">>

TwoRunners == {r1, r2}
Empty == [revision |-> 0, parts |-> {}, money |-> "absent"]
Release1 == [revision |-> 1, parts |-> {"knowledge"}, money |-> "float"]
Release2 == [revision |-> 2, parts |-> {"knowledge", "auth"}, money |-> "float"]
Earlier == {Empty, Release1, Release2}
Served(bypass, admin, backend, production) ==
  [bypass |-> bypass, legacy |-> FALSE, admin |-> admin, backend |-> backend,
   production |-> production]
Pilot == Served(FALSE, FALSE, "fastembed", TRUE)
Profiles == {Pilot, Served(FALSE, TRUE, "fastembed", TRUE), Served(TRUE, FALSE, "hash", FALSE),
             Served(FALSE, FALSE, "hash", FALSE), [Pilot EXCEPT !.legacy = TRUE]}

FourNotes == {plain, accented, broken, listed}
NotAscii == {accented, broken, listed}
WithSeparator == {broken, listed}
WithScalar == {listed}

TwoQueues == {mail, audit}
JobTypes == {send, scan}
WithHandler == {send}
AskedRetries == send :> {1, 2} @@ scan :> {2}
WithinBounds == Len(jobs') <= MaxJobs /\ millis' <= MaxMillis

Symmetry ==
  Permutations(FourEvents) \cup Permutations(Pair)

VARIABLE part   \* the store this behaviour is about

mcVars == <<cacheVars, auditVars, startupVars, schemaVars, notesVars, queueVars, part>>

Init == /\ CacheInit /\ AuditInit /\ StartupInit /\ SchemaInit /\ NotesInit
        /\ QueueInit
        /\ part \in {"memory", "audit", "platform", "steward", "notes", "jobs"}
        /\ part # "memory" => reply.key = <<chat, k1>>
        /\ part # "audit" => database = "none" /\ \A e, f \in Event : by[e] = by[f]
        /\ part # "steward" => schema = Empty /\ profile = Pilot
        /\ part # "jobs" => worker = "gone"
Next ==
  /\ UNCHANGED part
  /\ \/ part = "memory" /\ CacheNext
        /\ UNCHANGED <<auditVars, startupVars, schemaVars, notesVars, queueVars>>
     \/ part = "audit" /\ AuditNext
        /\ UNCHANGED <<cacheVars, startupVars, schemaVars, notesVars, queueVars>>
     \/ part = "platform" /\ StartupNext
        /\ UNCHANGED <<cacheVars, auditVars, schemaVars, notesVars, queueVars>>
     \/ part = "steward" /\ SchemaNext
        /\ UNCHANGED <<cacheVars, auditVars, startupVars, notesVars, queueVars>>
     \/ part = "notes" /\ NotesNext
        /\ UNCHANGED <<cacheVars, auditVars, startupVars, schemaVars, queueVars>>
     \/ part = "jobs" /\ QueueNext /\ WithinBounds
        /\ UNCHANGED <<cacheVars, auditVars, startupVars, schemaVars, notesVars>>
Spec == Init /\ [][Next]_mcVars
=============================================================================
