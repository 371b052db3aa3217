----------------------------- MODULE AuditChain -----------------------------
(***************************************************************************)
(* The audit block: every event gets the next sequence number and the hash *)
(* of the event before it, is inserted into audit_log, and becomes the     *)
(* head of the chain.  The number is taken before the awaited insert and   *)
(* the head moves after it.  Several instances of the block may share the  *)
(* table; each keeps a count and a head of its own, loaded when it is      *)
(* initialised.                                                            *)
(***************************************************************************)
EXTENDS Naturals, FiniteSets

CONSTANTS
  Event,     \* the events to log: each is one call of _log_event
  Instance,  \* instances of the block on one database
  Wiring,    \* what database_block may be: "none", "vendored", "contract"
  Genesis,   \* "0" * 64
  Faults     \* which of "insert", "crash" can happen

ASSUME AuditGenesis == Genesis \notin Event
ASSUME AuditWiring == Wiring \subseteq {"none", "vendored", "contract"}
ASSUME AuditFaults == Faults \subseteq {"insert", "crash"}

VARIABLES
  database,     \* what database_block is
  audit_log,    \* the rows of the table
  up,           \* instances that are initialised
  event_count,
  last_hash,
  at,           \* where each call is
  by,           \* the instance that serves it
  row,          \* its event_data
  overlapped    \* whether calls or instances ever overlapped

auditVars == <<database, audit_log, up, event_count, last_hash, at, by, row, overlapped>>

(* An event carries the time of its making, so its hash is its own: the    *)
(* model takes the event for its hash.                                     *)
Hash == Event \cup {Genesis}
Row == [event : Event, sequence : Nat, previous_hash : Hash]

AuditTypeOK ==
  /\ database \in Wiring
  /\ audit_log \subseteq Row
  /\ up \subseteq Instance
  /\ event_count \in [Instance -> Nat]
  /\ last_hash \in [Instance -> Hash]
  /\ at \in [Event -> {"unsent", "storing", "stored", "logged", "error", "lost"}]
  /\ by \in [Event -> Instance]
  /\ row \in [Event -> Row]
  /\ overlapped \in BOOLEAN

AuditInit ==
  /\ database \in Wiring
  /\ audit_log = {}
  /\ up = {}
  /\ event_count = [i \in Instance |-> 0]
  /\ last_hash = [i \in Instance |-> Genesis]
  /\ at = [e \in Event |-> "unsent"]
  /\ by \in [Event -> Instance]
  /\ row = [e \in Event |-> [event |-> e, sequence |-> 0, previous_hash |-> Genesis]]
  /\ overlapped = FALSE

----------------------------------------------------------------------------
IsLast(r) == r \in audit_log /\ \A s \in audit_log : s.sequence <= r.sequence

(* _legacy_initialize: only the contract's execute answers {"rows": ...};  *)
(* the vendored block answers an envelope, in which "rows" is not found.   *)
Initialize(i) ==
  /\ i \notin up
  /\ up' = up \cup {i}
  /\ overlapped' = (overlapped \/ up # {})
  /\ \/ /\ audit_log = {} \/ database # "contract"
        /\ event_count' = [event_count EXCEPT ![i] = 0]
        /\ last_hash' = [last_hash EXCEPT ![i] = Genesis]
     \/ \E r \in audit_log :
          /\ database = "contract"
          /\ IsLast(r)
          /\ event_count' = [event_count EXCEPT ![i] = r.sequence]
          /\ last_hash' = [last_hash EXCEPT ![i] = r.event]
  /\ UNCHANGED <<database, audit_log, at, by, row>>

Busy(i) == \E e \in Event : by[e] = i /\ at[e] \in {"storing", "stored"}

(* _log_event up to the await.                                             *)
Begin(e, i) ==
  /\ i \in up
  /\ at[e] = "unsent"
  /\ overlapped' = (overlapped \/ Busy(i))
  /\ event_count' = [event_count EXCEPT ![i] = @ + 1]
  /\ row' = [row EXCEPT ![e] = [event |-> e, sequence |-> event_count[i] + 1,
                                previous_hash |-> last_hash[i]]]
  /\ by' = [by EXCEPT ![e] = i]
  /\ at' = [at EXCEPT ![e] = "storing"]
  /\ UNCHANGED <<database, audit_log, up, last_hash>>

(* Faulty: only the last row is compared.                                 *)
TakenLast(n) == \E r \in audit_log : IsLast(r) /\ r.sequence = n

Taken(n) == \E r \in audit_log : r.sequence = n

(* The awaited execute returns.  Without a database nothing is inserted;   *)
(* the vendored block is passed "data" and reads "values", and its execute *)
(* does not raise what goes wrong.                                         *)
Insert(e) ==
  /\ at[e] = "storing"
  /\ database = "contract" => ~Taken(row[e].sequence)
  /\ audit_log' = audit_log \cup (IF database = "contract" THEN {row[e]} ELSE {})
  /\ at' = [at EXCEPT ![e] = "stored"]
  /\ UNCHANGED <<database, up, event_count, last_hash, by, row, overlapped>>

(* The UNIQUE sequence, or anything else: the count is not given back.     *)
InsertFails(e) ==
  /\ at[e] = "storing"
  /\ database = "contract"
  /\ "insert" \in Faults \/ Taken(row[e].sequence)
  /\ at' = [at EXCEPT ![e] = "error"]
  /\ UNCHANGED <<database, audit_log, up, event_count, last_hash, by, row, overlapped>>

(* _log_event after the await.                                             *)
Confirm(e) ==
  /\ at[e] = "stored"
  /\ last_hash' = [last_hash EXCEPT ![by[e]] = e]
  /\ at' = [at EXCEPT ![e] = "logged"]
  /\ UNCHANGED <<database, audit_log, up, event_count, by, row, overlapped>>

(* The process of an instance ends: its calls are never answered.          *)
Crash(i) ==
  /\ "crash" \in Faults
  /\ i \in up
  /\ up' = up \ {i}
  /\ at' = [e \in Event |->
              IF by[e] = i /\ at[e] \in {"storing", "stored"} THEN "lost" ELSE at[e]]
  /\ UNCHANGED <<database, audit_log, event_count, last_hash, by, row, overlapped>>

AuditNext ==
  \/ \E i \in Instance : Initialize(i) \/ Crash(i)
  \/ \E e \in Event, i \in Instance : Begin(e, i)
  \/ \E e \in Event : Insert(e) \/ InsertFails(e) \/ Confirm(e)

AuditSpec == AuditInit /\ [][AuditNext]_auditVars

----------------------------------------------------------------------------
(* With a database that keeps its contract, an event whose call was        *)
(* answered {"logged": True} is in the table, whatever failed or crashed   *)
(* since and however calls overlapped.                                     *)
LoggedIsStored ==
  database = "contract" => \A e \in Event : at[e] = "logged" => row[e] \in audit_log

(* No two rows have the same number and none repeats an event, also when   *)
(* instances with stale counts take the same number.                       *)
SequenceUnique ==
  \A r, s \in audit_log : r.sequence = s.sequence \/ r.event = s.event => r = s
(* _verify_chain: after the first, each row names the row before it, after *)
(* failed inserts, crashes and restarts at any point; but two calls of     *)
(* which one begins while the other awaits its insert, or two instances,   *)
(* name the same row.                                                      *)
Adjacent(r, s) == /\ r.sequence < s.sequence
                  /\ ~ \E x \in audit_log : r.sequence < x.sequence /\ x.sequence < s.sequence
VerifyIntact ==
  ~overlapped => \A r, s \in audit_log : Adjacent(r, s) => s.previous_hash = r.event

(* Until calls or instances overlap, an instance between two calls stands  *)
(* where the table ends: its next event gets a number of its own and names *)
(* the last row.                                                           *)
HeadIsLast ==
  database = "contract" /\ ~overlapped => \A i \in up : Busy(i) \/
    /\ \A r \in audit_log : r.sequence <= event_count[i]
    /\ audit_log = {} => last_hash[i] = Genesis
    /\ \A r \in audit_log : IsLast(r) => last_hash[i] = r.event

(* What was answered is stored once, under a number of its own; while one  *)
(* instance serves one call at a time, the chain verifies and the next     *)
(* event continues from its end.                                           *)
AuditInv ==
  AuditTypeOK /\ SequenceUnique /\ LoggedIsStored /\ VerifyIntact /\ HeadIsLast
=============================================================================
