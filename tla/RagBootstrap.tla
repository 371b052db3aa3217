---------------------------- MODULE RagBootstrap ----------------------------
(***************************************************************************)
(* DualRagService: the first query of a process seeds the two layers from  *)
(* the demo fixtures if they are empty, under the lock of the service      *)
(* object and with a flag tested before and after taking it.  The service  *)
(* is a module global created on first use without a lock; ingest and the  *)
(* bootstrap route use neither the flag nor the lock.                      *)
(*                                                                         *)
(* The store is the default one, of files: an upsert reads all records of  *)
(* a layer and puts them back with its own, and what two of them leave     *)
(* that overlap on a layer is what RagFiles says of a mixed one.  The      *)
(* Postgres store upserts in a transaction: its behaviours are those in    *)
(* which nothing comes between a thread's reading and its writing back.    *)
(***************************************************************************)
EXTENDS RagTypes, Naturals, Sequences, FiniteSets

CONSTANTS
  Torn,      \* the records of a layer whose file does not parse
  Asker,     \* requests in flight
  Service,   \* DualRagService objects
  Fixtures,  \* <<layer, document>> of estate_fixtures.json, layer 1 first; << >> without it
  UserDocs,  \* <<layer, document>> users ingest
  Mishaps,   \* which of "crash", "store" can happen
  NoService, NoAsker, NoWrite

ASSUME BootVersions == Version = {"fixture", "user"}
ASSUME BootTorn == Torn \notin [Doc -> Version \cup {NoDoc}]
ASSUME BootLayers == Layer \subseteq Nat
ASSUME BootFixtures == Fixtures \in Seq(Layer \X Doc) /\ UserDocs \subseteq Layer \X Doc
ASSUME BootNobody == NoService \notin Service /\ NoAsker \notin Asker
ASSUME BootFaults == Mishaps \subseteq {"crash", "store"}

VARIABLES
  index,    \* what the store has of each layer
  current,  \* _SERVICE
  made,     \* the objects created in this process
  flag,     \* _bootstrapped of each
  holder,   \* who holds _bootstrap_lock of each
  phase, op, \* where each thread is and in which route
  mine,     \* the service it uses
  next,     \* the fixture it ingests next
  write,    \* the layer it is about to put back, and whether another write overlaps
  excuse    \* ways in which a partial corpus could come about so far

bootVars == <<index, current, made, flag, holder, phase, op, mine, next, write, excuse>>

Op == {"query", "ingest", "bootstrap"}
Write == [layer : Layer, doc : Doc, docs : Docs, shared : BOOLEAN]

ASSUME BootNoWrite ==
  NoWrite \notin [layer : Layer, doc : Doc, docs : [Doc -> Version \cup {NoDoc}], shared : BOOLEAN]

BootTypeOK ==
  /\ index \in [Layer -> Docs \cup {Torn}]
  /\ current \in made \cup {NoService}
  /\ made \subseteq Service
  /\ flag \in [Service -> BOOLEAN]
  /\ holder \in [Service -> Asker \cup {NoAsker}]
  /\ phase \in [Asker -> {"idle", "get", "make", "return", "got", "lock", "locked",
                          "seeding", "ready"}]
  /\ op \in [Asker -> Op]
  /\ mine \in [Asker -> made \cup {NoService}]
  /\ next \in [Asker -> 1 .. Len(Fixtures) + 1]
  /\ write \in [Asker -> Write \cup {NoWrite}]
  /\ excuse \subseteq {"cut", "early", "race", "lost"}
  /\ \A s \in Service : holder[s] # NoAsker =>
       mine[holder[s]] = s /\ phase[holder[s]] \in {"locked", "seeding"}

BootInit ==
  /\ index = [l \in Layer |-> EmptyDocs]
  /\ current = NoService
  /\ made = {}
  /\ flag = [s \in Service |-> FALSE]
  /\ holder = [s \in Service |-> NoAsker]
  /\ phase = [t \in Asker |-> "idle"]
  /\ op = [t \in Asker |-> "query"]
  /\ mine = [t \in Asker |-> NoService]
  /\ next = [t \in Asker |-> 1]
  /\ write = [t \in Asker |-> NoWrite]
  /\ excuse = {}

----------------------------------------------------------------------------
Has(docs, d) == docs # Torn /\ docs[d] # NoDoc
Indexed(p) == Has(index[p[1]], p[2])
Seeded == \A k \in DOMAIN Fixtures : Indexed(Fixtures[k])
IndicesEmpty == \A l \in Layer : index[l] = EmptyDocs
Partial == ~IndicesEmpty /\ ~Seeded
Seeders == {t \in Asker : phase[t] = "seeding"}

Moves(t, where) == phase' = [phase EXCEPT ![t] = where]

(* Its route is over; what it kept for itself is gone.                     *)
Leaves(t) ==
  /\ Moves(t, "idle")
  /\ op' = [op EXCEPT ![t] = "query"]
  /\ mine' = [mine EXCEPT ![t] = NoService]
  /\ next' = [next EXCEPT ![t] = 1]
  /\ write' = [write EXCEPT ![t] = NoWrite]

Arrive(t, o) ==
  /\ phase[t] = "idle"
  /\ op' = [op EXCEPT ![t] = o]
  /\ Moves(t, "get")
  /\ UNCHANGED <<index, current, made, flag, holder, mine, next, write, excuse>>

(* get_rag_service: "if _SERVICE is None" ...                              *)
FindService(t) ==
  /\ phase[t] = "get"
  /\ Moves(t, IF current = NoService THEN "make" ELSE "return")
  /\ UNCHANGED <<index, current, made, flag, holder, op, mine, next, write, excuse>>

(* ... creates it; another thread may have done so since ...               *)
MakeService(t) ==
  /\ phase[t] = "make"
  /\ \E s \in Service \ made :
       /\ made' = made \cup {s}
       /\ current' = s
  /\ Moves(t, "return")
  /\ UNCHANGED <<index, flag, holder, op, mine, next, write, excuse>>

(* ... and returns what the global holds then.                             *)
ReturnService(t) ==
  /\ phase[t] = "return"
  /\ mine' = [mine EXCEPT ![t] = current]
  /\ Moves(t, "got")
  /\ UNCHANGED <<index, current, made, flag, holder, op, next, write, excuse>>

(* ensure_bootstrapped, before the lock.                                   *)
TestFlag(t) ==
  /\ phase[t] = "got" /\ op[t] = "query"
  /\ Moves(t, IF flag[mine[t]] THEN "ready" ELSE "lock")
  /\ UNCHANGED <<index, current, made, flag, holder, op, mine, next, write, excuse>>

(* Faulty: nobody waits for the lock.                                      *)
TakeLockBlindly(t) ==
  /\ phase[t] = "lock"
  /\ holder' = [holder EXCEPT ![mine[t]] = t]
  /\ Moves(t, "locked")
  /\ UNCHANGED <<index, current, made, flag, op, mine, next, write, excuse>>

TakeLock(t) ==
  /\ phase[t] = "lock"
  /\ holder[mine[t]] = NoAsker
  /\ holder' = [holder EXCEPT ![mine[t]] = t]
  /\ Moves(t, "locked")
  /\ UNCHANGED <<index, current, made, flag, op, mine, next, write, excuse>>

(* _indices_empty reads the layers in turn, up to one that has records or  *)
(* does not parse.                                                         *)
RecordsFound ==
  \E l \in Layer : /\ index[l] \notin {EmptyDocs, Torn}
                  /\ \A k \in Layer : k < l => index[k] # Torn

(* The flag again; empty indices are seeded, others taken as they are,     *)
(* also while somebody who does not hold this lock is filling them.        *)
TestAgain(t) ==
  LET s == mine[t] IN
  /\ phase[t] = "locked"
  /\ \/ /\ flag[s] \/ RecordsFound
        /\ flag' = [flag EXCEPT ![s] = TRUE]
        /\ holder' = [holder EXCEPT ![s] = NoAsker]
        /\ Moves(t, "ready")
        /\ UNCHANGED next
     \/ /\ ~flag[s] /\ IndicesEmpty
        /\ next' = [next EXCEPT ![t] = 1]
        /\ Moves(t, "seeding")
        /\ UNCHANGED <<flag, holder>>
  /\ excuse' = IF ~flag[s] /\ Partial /\ Seeders # {} THEN excuse \cup {"race"} ELSE excuse
  /\ UNCHANGED <<index, current, made, op, mine, write>>

(* The bootstrap route goes straight to the fixtures.                      *)
BeginRoute(t) ==
  /\ phase[t] = "got" /\ op[t] = "bootstrap"
  /\ next' = [next EXCEPT ![t] = 1]
  /\ Moves(t, "seeding")
  /\ UNCHANGED <<index, current, made, flag, holder, op, mine, write, excuse>>

----------------------------------------------------------------------------
(* upsert_document: the layer is read; whoever is between reading and      *)
(* putting back the same layer has company from now on.                    *)
Writers(l) == {u \in Asker : write[u] # NoWrite /\ write[u].layer = l}

ReadsLayer(t, l, d, v) ==
  /\ write[t] = NoWrite
  /\ index[l] # Torn
  /\ write' = [u \in Asker |->
       IF u = t THEN [layer |-> l, doc |-> d, docs |-> [index[l] EXCEPT ![d] = v],
                      shared |-> Writers(l) # {}]
       ELSE IF u \in Writers(l) THEN [write[u] EXCEPT !.shared = TRUE]
       ELSE write[u]]

(* What write_index leaves: what the thread read and its own document; or, *)
(* of a write in company, which uses the same temporary files, what may be *)
(* left of the texts of both and of the index as it is.                    *)
Texts(l) == {write[u].docs : u \in Writers(l)} \cup ({index[l]} \ {Torn})
Mixed(l) ==
  {m \in Docs : \A d \in Doc : m[d] = NoDoc \/ \E x \in Texts(l) : m[d] = x[d]} \cup {Torn}
PutsBack(t) ==
  LET w == write[t] IN
  /\ w # NoWrite
  /\ \E new \in IF w.shared THEN Mixed(w.layer) ELSE {w.docs} :
       index' = [index EXCEPT ![w.layer] = new]

(* Two writes have overlapped, and what the layer had is gone.             *)
Overlapped(t) == write[t] # NoWrite /\ write[t].shared
Drops == \E l \in Layer, d \in Doc : Has(index[l], d) /\ ~Has(index'[l], d)

SeedReads(t) ==
  /\ phase[t] = "seeding" /\ next[t] <= Len(Fixtures)
  /\ ReadsLayer(t, Fixtures[next[t]][1], Fixtures[next[t]][2], "fixture")
  /\ UNCHANGED <<index, current, made, flag, holder, phase, op, mine, next, excuse>>

SeedWrites(t) ==
  /\ phase[t] = "seeding"
  /\ PutsBack(t)
  /\ next' = [next EXCEPT ![t] = @ + 1]
  /\ write' = [write EXCEPT ![t] = NoWrite]
  /\ excuse' = IF Overlapped(t) /\ (Drops \/ ~Has(index'[write[t].layer], write[t].doc))
                THEN excuse \cup {"lost"} ELSE excuse
  /\ UNCHANGED <<current, made, flag, holder, phase, op, mine>>

(* All fixtures are in.  A query sets the flag and releases the lock.      *)
FinishSeeding(t) ==
  LET s == mine[t] IN
  /\ phase[t] = "seeding" /\ next[t] = Len(Fixtures) + 1
  /\ IF op[t] = "query"
     THEN /\ flag' = [flag EXCEPT ![s] = TRUE]
          /\ holder' = [holder EXCEPT ![s] = NoAsker]
          /\ Moves(t, "ready")
          /\ UNCHANGED <<op, mine, next, write>>
     ELSE /\ Leaves(t)
          /\ UNCHANGED <<flag, holder>>
  /\ UNCHANGED <<index, current, made, excuse>>

(* The ingest route does not bootstrap first.                              *)
UserReads(t) ==
  /\ phase[t] = "got" /\ op[t] = "ingest"
  /\ \E p \in UserDocs : ReadsLayer(t, p[1], p[2], "user")
  /\ UNCHANGED <<index, current, made, flag, holder, phase, op, mine, next, excuse>>

UserExcuses(t) ==
  (IF Overlapped(t) /\ Drops THEN {"lost"} ELSE {})
    \cup (IF index' # index /\ ~Seeded THEN {"early"} ELSE {})

UserWrites(t) ==
  /\ phase[t] = "got" /\ op[t] = "ingest"
  /\ PutsBack(t)
  /\ excuse' = excuse \cup UserExcuses(t)
  /\ Leaves(t)
  /\ UNCHANGED <<current, made, flag, holder>>

Released(t) == [s \in Service |-> IF holder[s] = t THEN NoAsker ELSE holder[s]]

(* What makes a route raise: the configuration, the embedder or the store  *)
(* refuses, a layer does not parse, or a write in company finds that the   *)
(* temporary file it is to rename is gone.                                 *)
Refuses(t) ==
  /\ \/ phase[t] = "locked" /\ ~flag[mine[t]]
     \/ phase[t] = "seeding" /\ next[t] <= Len(Fixtures)
     \/ phase[t] = "got" /\ op[t] = "ingest"
  /\ UNCHANGED index

CannotRead(t) ==
  /\ \/ /\ phase[t] = "locked" /\ ~flag[mine[t]]
        /\ ~IndicesEmpty /\ ~RecordsFound
     \/ /\ phase[t] = "seeding" /\ next[t] <= Len(Fixtures) /\ write[t] = NoWrite
        /\ index[Fixtures[next[t]][1]] = Torn
     \/ /\ phase[t] = "got" /\ op[t] = "ingest" /\ write[t] = NoWrite
        /\ \E p \in UserDocs : index[p[1]] = Torn
  /\ UNCHANGED index

CannotRename(t) == write[t] # NoWrite /\ write[t].shared /\ PutsBack(t)

(* The lock is released, the flag stays unset.                             *)
Raises(t) ==
  /\ \/ "store" \in Mishaps /\ Refuses(t)
     \/ CannotRead(t)
     \/ CannotRename(t)
  /\ excuse' = excuse \cup UserExcuses(t)
                  \cup (IF phase[t] = "seeding" /\ Partial' THEN {"cut"} ELSE {})
  /\ holder' = Released(t)
  /\ Leaves(t)
  /\ UNCHANGED <<current, made, flag>>

(* Retrieval, and the answer; or an error, when a layer does not parse.    *)
Retrieve(t) ==
  /\ phase[t] = "ready"
  /\ Leaves(t)
  /\ UNCHANGED <<index, current, made, flag, holder, excuse>>

(* The process dies; the store stays.                                      *)
DieSeeding ==
  /\ "crash" \in Mishaps
  /\ made # {}
  /\ excuse' = IF Partial THEN excuse \cup {"cut"} ELSE excuse
  /\ current' = NoService
  /\ made' = {}
  /\ flag' = [s \in Service |-> FALSE]
  /\ holder' = [s \in Service |-> NoAsker]
  /\ phase' = [t \in Asker |-> "idle"]
  /\ op' = [t \in Asker |-> "query"]
  /\ mine' = [t \in Asker |-> NoService]
  /\ next' = [t \in Asker |-> 1]
  /\ write' = [t \in Asker |-> NoWrite]
  /\ UNCHANGED index

BootStep(t) ==
  \/ FindService(t) \/ MakeService(t) \/ ReturnService(t) \/ TestFlag(t)
  \/ TakeLock(t) \/ TestAgain(t) \/ BeginRoute(t)
  \/ SeedReads(t) \/ SeedWrites(t) \/ FinishSeeding(t)
  \/ UserReads(t) \/ UserWrites(t) \/ Retrieve(t) \/ Raises(t)

BootNext ==
  \/ \E t \in Asker : (\E o \in Op : Arrive(t, o)) \/ BootStep(t)
  \/ DieSeeding

BootSpec == BootInit /\ [][BootNext]_bootVars

----------------------------------------------------------------------------
(* A service that calls itself bootstrapped answers from all fixtures,     *)
(* except in the four ways a corpus can stay or become partial: a          *)
(* bootstrap was cut off (and the next one finds the indices not empty), a *)
(* user's document was there first, somebody not holding this lock was     *)
(* still seeding, or a write that overlapped another on the layer lost a   *)
(* document.  Neither overlapping alone is an excuse nor a loss alone.     *)
ReadyMeansSeeded == \A s \in Service : flag[s] => Seeded \/ excuse # {}

(* One service never bootstraps twice at once.                             *)
OneSeederPerService ==
  \A t1, t2 \in Seeders :
    op[t1] = "query" /\ op[t2] = "query" /\ mine[t1] = mine[t2] => t1 = t2

(* A service that calls itself bootstrapped has all fixtures, however its  *)
(* threads, the ingest and bootstrap routes, other services, deaths and    *)
(* refusals fall together, or the corpus was cut off, begun early, raced   *)
(* or lost as said; and it bootstraps once at a time.                      *)
BootInv == BootTypeOK /\ OneSeederPerService /\ ReadyMeansSeeded
=============================================================================
