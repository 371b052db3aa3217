------------------------- MODULE CapabilityPlatform -------------------------
(***************************************************************************)
(* POST and GET /v1/{capability}: the routes run on the server's pool of   *)
(* worker threads.  A POST executes the blocks of its capability in order  *)
(* and then inserts one row into the capability's table of platform.db,    *)
(* through the SQLite connection its thread keeps between requests.  Every *)
(* use of the store commits that connection first (ensure_schema), so what *)
(* one request leaves uncommitted is decided by the next request of the    *)
(* same thread.                                                            *)
(***************************************************************************)
EXTENDS Naturals, Sequences

CONSTANTS
  Thread,        \* worker threads
  Post,          \* POST requests: each is sent once, a retry is another one
  Capability,    \* capability ids, which are also the names of their tables
  CapabilityOf,  \* the capability each POST is for
  BlocksOf,      \* BLOCK_IDS of each capability's handler
  Lasting,       \* the blocks that write more than their own instance
  Faults,        \* which of "block", "commit", "exit", "crash" can happen
  Nothing        \* no request, no uncommitted row

ASSUME PlatformRouting == CapabilityOf \in [Post -> Capability]
ASSUME PlatformBlocks == DOMAIN BlocksOf = Capability
                         /\ \A c \in Capability : Len(BlocksOf[c]) \in Nat
ASSUME PlatformNothing == Nothing \notin Post
ASSUME PlatformFaults == Faults \subseteq {"block", "commit", "exit", "crash"}

VARIABLES
  rows,     \* committed rows of each table, in the order of pk
  open,     \* the row a thread's connection has inserted and not committed
  at,       \* where each thread is
  job,      \* the POST it serves
  done,     \* how many of its blocks have been executed
  answer,   \* what each POST was answered
  ran,      \* POSTs all of whose blocks were executed without an exception
  effects,  \* what lasting blocks wrote, and for whom
  listed    \* what the last GET of each capability returned

platformVars == <<rows, open, at, job, done, answer, ran, effects, listed>>

PlatformTypeOK ==
  /\ rows \in [Capability -> Seq(Post)]
  /\ open \in [Thread -> Post \cup {Nothing}]
  /\ at \in [Thread -> {"idle", "blocks", "schema", "insert", "commit", "answer"}]
  /\ job \in [Thread -> Post \cup {Nothing}]
  /\ \A t \in Thread : at[t] # "idle" => job[t] \in Post
  /\ done \in [Thread -> Nat]
  /\ answer \in [Post -> {"unsent", "pending", "ok", "refused", "none"}]
  /\ ran \subseteq Post
  /\ listed \in [Capability -> Seq(Post)]

PlatformInit ==
  /\ rows = [c \in Capability |-> << >>]
  /\ open = [t \in Thread |-> Nothing]
  /\ at = [t \in Thread |-> "idle"]
  /\ job = [t \in Thread |-> Nothing]
  /\ done = [t \in Thread |-> 0]
  /\ answer = [p \in Post |-> "unsent"]
  /\ ran = {}
  /\ effects = {}
  /\ listed = [c \in Capability |-> << >>]

Blocks(t) == BlocksOf[CapabilityOf[job[t]]]
Elsewhere(t) == \E x \in Thread \ {t} : open[x] # Nothing
RowsWith(p) == IF p = Nothing THEN rows
               ELSE [rows EXCEPT ![CapabilityOf[p]] = Append(@, p)]

----------------------------------------------------------------------------
(* 401, 404 and 422: refused before the handler is loaded.                 *)
TurnAway(p) ==
  /\ answer[p] = "unsent"
  /\ answer' = [answer EXCEPT ![p] = "refused"]
  /\ UNCHANGED <<rows, open, at, job, done, ran, effects, listed>>

Take(t, p) ==
  /\ at[t] = "idle"
  /\ answer[p] = "unsent"
  /\ at' = [at EXCEPT ![t] = "blocks"]
  /\ job' = [job EXCEPT ![t] = p]
  /\ done' = [done EXCEPT ![t] = 0]
  /\ answer' = [answer EXCEPT ![p] = "pending"]
  /\ UNCHANGED <<rows, open, ran, effects, listed>>

(* The route answers ok False for every exception of the handler; the      *)
(* thread's connection stays as it is.                                     *)
Refuse(t) ==
  /\ answer' = [answer EXCEPT ![job[t]] = "refused"]
  /\ at' = [at EXCEPT ![t] = "idle"]
  /\ job' = [job EXCEPT ![t] = Nothing]
  /\ UNCHANGED <<rows, open, done, ran, effects, listed>>

(* execute(): a block that answers {"error": ...} without a status counts  *)
(* as a success, so a lasting block may also have written nothing.         *)
RunBlock(t) ==
  /\ at[t] = "blocks"
  /\ done[t] < Len(Blocks(t))
  /\ done' = [done EXCEPT ![t] = @ + 1]
  /\ LET b == Blocks(t)[done[t] + 1] IN
       \/ UNCHANGED effects
       \/ b \in Lasting /\ effects' = effects \cup {<<job[t], b>>}
  /\ UNCHANGED <<rows, open, at, job, answer, ran, listed>>

(* Faulty: the record is saved whether or not the blocks succeed.          *)
SaveInFinally(t) ==
  /\ "block" \in Faults
  /\ at[t] = "blocks"
  /\ done[t] < Len(Blocks(t))
  /\ rows' = RowsWith(job[t])
  /\ answer' = [answer EXCEPT ![job[t]] = "refused"]
  /\ at' = [at EXCEPT ![t] = "idle"]
  /\ job' = [job EXCEPT ![t] = Nothing]
  /\ UNCHANGED <<open, done, ran, effects, listed>>

(* A block that raises, or answers with status "error": earlier blocks     *)
(* have done what they did.                                                *)
BlockRaises(t) ==
  /\ "block" \in Faults
  /\ at[t] = "blocks"
  /\ done[t] < Len(Blocks(t))
  /\ Refuse(t)

(* Faulty: the last block is left out.                                     *)
SaveBeforeLast(t) ==
  /\ at[t] = "blocks"
  /\ done[t] + 1 >= Len(Blocks(t))
  /\ at' = [at EXCEPT ![t] = "schema"]
  /\ ran' = IF done[t] = Len(Blocks(t)) THEN ran \cup {job[t]} ELSE ran
  /\ UNCHANGED <<rows, open, job, done, answer, effects, listed>>

(* ok_envelope: the record is saved after every block was executed.        *)
BeginSave(t) ==
  /\ at[t] = "blocks"
  /\ done[t] = Len(Blocks(t))
  /\ at' = [at EXCEPT ![t] = "schema"]
  /\ ran' = ran \cup {job[t]}
  /\ UNCHANGED <<rows, open, job, done, answer, effects, listed>>

(* ensure_schema: the tables exist, and conn.commit() commits whatever an  *)
(* earlier request of this thread left open.                               *)
EnsureSchema(t) ==
  /\ at[t] = "schema"
  /\ rows' = RowsWith(open[t])
  /\ open' = [open EXCEPT ![t] = Nothing]
  /\ at' = [at EXCEPT ![t] = "insert"]
  /\ UNCHANGED <<job, done, answer, ran, effects, listed>>

(* "database is locked": another connection's transaction is in the way,   *)
(* or the commit of the leftover fails again.                              *)
SchemaLocked(t) ==
  /\ at[t] = "schema"
  /\ Elsewhere(t) \/ ("commit" \in Faults /\ open[t] # Nothing)
  /\ Refuse(t)

(* INSERT opens a transaction; SQLite lets one connection write at a time. *)
Insert(t) ==
  /\ at[t] = "insert"
  /\ ~Elsewhere(t)
  /\ open' = [open EXCEPT ![t] = job[t]]
  /\ at' = [at EXCEPT ![t] = "commit"]
  /\ UNCHANGED <<rows, job, done, answer, ran, effects, listed>>

(* Faulty: the insert waits for the other connection without a timeout.    *)
NeverLocked(t) == FALSE

(* The busy timeout runs out.                                              *)
InsertLocked(t) ==
  /\ at[t] = "insert"
  /\ Elsewhere(t)
  /\ Refuse(t)

(* Faulty: the transaction stays open although its row was committed.      *)
CommitTwice(t) ==
  /\ at[t] = "commit"
  /\ rows' = RowsWith(open[t])
  /\ at' = [at EXCEPT ![t] = "answer"]
  /\ UNCHANGED <<open, job, done, answer, ran, effects, listed>>

Commit(t) ==
  /\ at[t] = "commit"
  /\ rows' = RowsWith(open[t])
  /\ open' = [open EXCEPT ![t] = Nothing]
  /\ at' = [at EXCEPT ![t] = "answer"]
  /\ UNCHANGED <<job, done, answer, ran, effects, listed>>

(* Faulty: a failed commit is answered like a successful one.              *)
CommitFailsSilently(t) ==
  /\ "commit" \in Faults
  /\ at[t] = "commit"
  /\ at' = [at EXCEPT ![t] = "answer"]
  /\ UNCHANGED <<rows, open, job, done, answer, ran, effects, listed>>

(* conn.commit() raises (a reader held on, the disk refused): SQLite keeps *)
(* the transaction open and nothing rolls it back.                         *)
CommitFails(t) ==
  /\ "commit" \in Faults
  /\ at[t] = "commit"
  /\ Refuse(t)

(* The audit fields of the mutation are built and dropped; ok is answered. *)
AnswerOk(t) ==
  /\ at[t] = "answer"
  /\ answer' = [answer EXCEPT ![job[t]] = "ok"]
  /\ at' = [at EXCEPT ![t] = "idle"]
  /\ job' = [job EXCEPT ![t] = Nothing]
  /\ UNCHANGED <<rows, open, done, ran, effects, listed>>

----------------------------------------------------------------------------
(* Faulty: the rows are read from the newest.                              *)
ListNewestFirst(t, c) ==
  /\ at[t] = "idle"
  /\ rows' = RowsWith(open[t])
  /\ open' = [open EXCEPT ![t] = Nothing]
  /\ listed' = [listed EXCEPT ![c] =
                  [i \in DOMAIN rows'[c] |-> rows'[c][Len(rows'[c]) + 1 - i]]]
  /\ UNCHANGED <<at, job, done, answer, ran, effects>>

(* GET: ensure_schema commits what this thread left open, then the rows    *)
(* are read in the order of pk.  One that fails changes nothing.           *)
List(t, c) ==
  /\ at[t] = "idle"
  /\ rows' = RowsWith(open[t])
  /\ open' = [open EXCEPT ![t] = Nothing]
  /\ listed' = [listed EXCEPT ![c] = rows'[c]]
  /\ UNCHANGED <<at, job, done, answer, ran, effects>>

(* An idle thread of the pool ends and its connection is closed.           *)
ThreadExit(t) ==
  /\ "exit" \in Faults
  /\ at[t] = "idle" /\ open[t] # Nothing
  /\ open' = [open EXCEPT ![t] = Nothing]
  /\ UNCHANGED <<rows, at, job, done, answer, ran, effects, listed>>

(* The process dies: uncommitted rows are rolled back, requests in flight  *)
(* get no answer.  Clients hold on to what they were answered and shown.   *)
Crash ==
  /\ "crash" \in Faults
  /\ \E t \in Thread : at[t] # "idle" \/ open[t] # Nothing
  /\ open' = [t \in Thread |-> Nothing]
  /\ at' = [t \in Thread |-> "idle"]
  /\ job' = [t \in Thread |-> Nothing]
  /\ answer' = [p \in Post |-> IF answer[p] = "pending" THEN "none" ELSE answer[p]]
  /\ UNCHANGED <<rows, done, ran, effects, listed>>

Progress(t) ==
  \/ RunBlock(t) \/ BlockRaises(t) \/ BeginSave(t)
  \/ EnsureSchema(t) \/ SchemaLocked(t)
  \/ Insert(t) \/ InsertLocked(t)
  \/ Commit(t) \/ CommitFails(t) \/ AnswerOk(t)

PlatformNext ==
  \/ \E p \in Post : TurnAway(p) \/ \E t \in Thread : Take(t, p)
  \/ \E t \in Thread : Progress(t) \/ ThreadExit(t) \/ \E c \in Capability : List(t, c)
  \/ Crash

PlatformSpec == PlatformInit /\ [][PlatformNext]_platformVars

(* A thread that serves a request keeps running.                           *)
PlatformFairSpec ==
  PlatformSpec /\ \A t \in Thread : WF_platformVars(Progress(t))

----------------------------------------------------------------------------
Stored(p) == \E i \in DOMAIN rows[CapabilityOf[p]] : rows[CapabilityOf[p]][i] = p

(* What was answered ok is in the table, through crashes, closed           *)
(* connections and failed commits of other requests.                       *)
OkIsStored == \A p \in Post : answer[p] = "ok" => Stored(p)

(* Only a request all of whose blocks were executed leaves a row, be it    *)
(* committed by its own request or by a later one of its thread.           *)
StoredAfterBlocks ==
  /\ \A p \in Post : Stored(p) => p \in ran
  /\ \A t \in Thread : open[t] # Nothing => open[t] \in ran

(* No request is stored twice, although several requests may commit it.    *)
StoredOnce ==
  /\ \A c \in Capability : \A i, j \in DOMAIN rows[c] :
        rows[c][i] = rows[c][j] => i = j
  /\ \A t \in Thread : open[t] # Nothing => ~Stored(open[t])
  /\ \A t, x \in Thread : open[t] # Nothing /\ open[t] = open[x] => t = x

(* What a GET returned stays the beginning of what every later GET of that *)
(* capability returns: rows are neither lost, changed nor reordered.       *)
ListsOnlyGrow ==
  [][\A c \in Capability :
       /\ Len(listed[c]) <= Len(listed'[c])
       /\ \A i \in DOMAIN listed[c] : listed'[c][i] = listed[c][i]]_platformVars

(* A request that was answered ok False has left no row, and leaves none   *)
(* later ("Accept means HTTP 200, not ok:false, store.list_all(entity)     *)
(* holds the record").                                                     *)
RefusedNeverStored == \A p \in Post : answer[p] = "refused" => ~Stored(p)

(* Every request that is taken is answered, unless the process dies, even  *)
(* behind a transaction another thread has left open.                      *)
TakenIsAnswered == \A p \in Post : answer[p] = "pending" ~> answer[p] # "pending"
=============================================================================
