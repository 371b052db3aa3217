------------------------------ MODULE TeamStore ------------------------------
(***************************************************************************)
(* The team block as it runs: every action builds a fresh TeamBlock, which *)
(* loads STORAGE_PATH/team/state.json, changes its copy and writes it back *)
(* through the one file name state.json.tmp.  Routes are sync functions on *)
(* a thread pool, so instances overlap (Worker); the process can die       *)
(* between any two steps.                                                  *)
(*                                                                         *)
(* A file is Absent, Blank (opened for writing, nothing readable in it     *)
(* yet), Torn (two writers' texts mixed) or a registry.  An open file      *)
(* stays the same file when it is renamed, which is what fd tracks.        *)
(***************************************************************************)
EXTENDS TeamOps

CONSTANTS
  Worker,   \* concurrent executions of the team block
  Faults,   \* which of "crash", "disk" can happen
  Absent, Blank, Torn,
  NoReq

ASSUME StoreFiles ==
  /\ {Absent, Blank, Torn} \cap Registry = {}
  /\ Absent # Blank /\ Absent # Torn /\ Blank # Torn
ASSUME StoreFaults == Faults \subseteq {"crash", "disk"}
ASSUME StoreNoReq == NoReq \notin Request

VARIABLES
  target,  \* state.json
  tmp,     \* state.json.tmp
  pc,      \* where each worker is in process() and _save_state
  req,     \* the request each worker serves
  mem,     \* the teams, memberships and invitations of its TeamBlock
  fd,      \* the file it has open
  drawn,   \* ids drawn so far
  lapsed,  \* tokens whose invitation has expired
  last,    \* who asked for what in the last registry that was swapped in
  kept     \* teams created, answered with success, and not asked to be deleted

storeVars == <<target, tmp, pc, req, mem, fd, drawn, lapsed, last, kept>>

Content == Registry \cup {Absent, Blank, Torn}

StoreTypeOK ==
  /\ target \in Content
  /\ tmp \in Content
  /\ pc \in [Worker -> {"idle", "served", "writing", "written", "saved"}]
  /\ req \in [Worker -> Request \cup {NoReq}]
  /\ mem \in [Worker -> Registry]
  /\ \A w \in Worker : pc[w] # "idle" => req[w] \in Request
  /\ fd \in [Worker -> {"none", "tmp", "target", "gone"}]
  /\ drawn \subseteq TeamId \cup Token
  /\ lapsed \subseteq Token
  /\ kept \subseteq TeamId

StoreInit ==
  /\ target = Absent
  /\ tmp = Absent
  /\ pc = [w \in Worker |-> "idle"]
  /\ req = [w \in Worker |-> NoReq]
  /\ mem = [w \in Worker |-> EmptyRegistry]
  /\ fd = [w \in Worker |-> "none"]
  /\ drawn = {}
  /\ lapsed = {}
  /\ last = [op |-> "none"]
  /\ kept = {}

(* _load_state: a missing file and an unreadable one both start empty.     *)
Load(file) == IF file \in {Absent, Blank, Torn} THEN EmptyRegistry ELSE file

(* __init__ loads the file and the handler accepts: the copy is changed.   *)
(* The file is the only thing shared, so reading it and computing the      *)
(* result are one step.  A request the handler refuses saves nothing.      *)
ServeCopy(w, q) ==
  /\ pc[w] = "idle"
  /\ Draws(q) \cap drawn = {}
  /\ Accepts(Load(target), q, lapsed)
  /\ mem' = [mem EXCEPT ![w] = Result(Load(target), q)]
  /\ req' = [req EXCEPT ![w] = q]
  /\ drawn' = drawn \cup Draws(q)
  /\ kept' = IF q.op = "delete_team" THEN kept \ {q.team} ELSE kept
  /\ pc' = [pc EXCEPT ![w] = "served"]
  /\ UNCHANGED <<target, tmp, fd, lapsed, last>>

(* Faulty: the state file itself is opened for writing.                    *)
OpenTarget(w) ==
  /\ pc[w] = "served"
  /\ target' = Blank
  /\ fd' = [fd EXCEPT ![w] = "target"]
  /\ pc' = [pc EXCEPT ![w] = "writing"]
  /\ UNCHANGED <<tmp, req, mem, drawn, lapsed, last, kept>>

(* tmp.write_text opens the shared name and truncates it ...               *)
OpenTmp(w) ==
  /\ pc[w] = "served"
  /\ tmp' = Blank
  /\ fd' = [fd EXCEPT ![w] = "tmp"]
  /\ pc' = [pc EXCEPT ![w] = "writing"]
  /\ UNCHANGED <<target, req, mem, drawn, lapsed, last, kept>>

(* ... and writes from the start of the file it opened, whatever that file *)
(* is called by now and whoever wrote in it since.                         *)
Overlay(old, text) == IF old = Blank THEN {text} ELSE {text, Torn}

(* Faulty: the invitations are left out of the saved text.                 *)
WriteWithoutInvites(w) ==
  LET text == [mem[w] EXCEPT !.invites = EmptyRegistry.invites] IN
  /\ pc[w] = "writing"
  /\ tmp' \in (IF fd[w] = "tmp" THEN Overlay(tmp, text) ELSE {tmp})
  /\ target' \in (IF fd[w] = "target" THEN Overlay(target, text) ELSE {target})
  /\ fd' = [fd EXCEPT ![w] = "none"]
  /\ pc' = [pc EXCEPT ![w] = "written"]
  /\ UNCHANGED <<req, mem, drawn, lapsed, last, kept>>

WriteText(w) ==
  /\ pc[w] = "writing"
  /\ tmp' \in (IF fd[w] = "tmp" THEN Overlay(tmp, mem[w]) ELSE {tmp})
  /\ target' \in (IF fd[w] = "target" THEN Overlay(target, mem[w]) ELSE {target})
  /\ fd' = [fd EXCEPT ![w] = "none"]
  /\ pc' = [pc EXCEPT ![w] = "written"]
  /\ UNCHANGED <<req, mem, drawn, lapsed, last, kept>>

(* tmp.replace(target).  Another worker may have taken tmp away already:   *)
(* the FileNotFoundError is logged and the action still succeeds.          *)
Renamed(f) == CASE f = "tmp" -> "target" [] f = "target" -> "gone" [] OTHER -> f

Replace(w) ==
  /\ pc[w] = "written"
  /\ pc' = [pc EXCEPT ![w] = "saved"]
  /\ \/ /\ tmp # Absent
        /\ target' = tmp
        /\ tmp' = Absent
        /\ fd' = [x \in Worker |-> Renamed(fd[x])]
        /\ last' = [op |-> req[w].op, user |-> req[w].user]
     \/ /\ tmp = Absent
        /\ UNCHANGED <<target, tmp, fd, last>>
  /\ UNCHANGED <<req, mem, drawn, lapsed, kept>>

(* An OSError while writing is logged and the action still succeeds.       *)
DiskError(w) ==
  /\ "disk" \in Faults
  /\ pc[w] = "writing"
  /\ fd' = [fd EXCEPT ![w] = "none"]
  /\ pc' = [pc EXCEPT ![w] = "saved"]
  /\ UNCHANGED <<target, tmp, req, mem, drawn, lapsed, last, kept>>

(* process() answers with success; the instance is dropped.                *)
Answer(w) ==
  /\ pc[w] = "saved"
  /\ kept' = IF req[w].op = "create_team" THEN kept \cup {req[w].team} ELSE kept
  /\ pc' = [pc EXCEPT ![w] = "idle"]
  /\ req' = [req EXCEPT ![w] = NoReq]
  /\ mem' = [mem EXCEPT ![w] = EmptyRegistry]
  /\ UNCHANGED <<target, tmp, fd, drawn, lapsed, last>>

(* The process dies: files stay, every instance is gone.                   *)
Crash ==
  /\ "crash" \in Faults
  /\ \E w \in Worker : pc[w] # "idle"
  /\ pc' = [w \in Worker |-> "idle"]
  /\ req' = [w \in Worker |-> NoReq]
  /\ mem' = [w \in Worker |-> EmptyRegistry]
  /\ fd' = [w \in Worker |-> "none"]
  /\ UNCHANGED <<target, tmp, drawn, lapsed, last, kept>>

(* invitation_expiry_hours pass for an invitation that has been saved; a   *)
(* request in flight may be accepting it.                                  *)
Expire(k) ==
  /\ k \in drawn \ (lapsed \cup UNION {Draws(req[w]) : w \in {x \in Worker : pc[x] # "idle"}})
  /\ lapsed' = lapsed \cup {k}
  /\ UNCHANGED <<target, tmp, pc, req, mem, fd, drawn, last, kept>>

StoreNext ==
  \/ \E w \in Worker :
       \/ \E q \in Request : ServeCopy(w, q)
       \/ OpenTmp(w) \/ WriteText(w) \/ Replace(w) \/ DiskError(w) \/ Answer(w)
  \/ Crash
  \/ \E k \in Token : Expire(k)

StoreSpec == StoreInit /\ [][StoreNext]_storeVars

----------------------------------------------------------------------------
(* However instances overlap, die and overwrite each other, what the next  *)
(* instance loads is internally consistent (unique slugs, exact quotas),   *)
(* and so is every copy being changed or written.                          *)
CopiesConsistent ==
  /\ Consistent(Load(target))
  /\ Consistent(Load(tmp))
  /\ \A w \in Worker : Consistent(mem[w])

(* A team whose creation was answered with success is found by every later *)
(* instance until somebody deletes it ("create_team -> get_team survive a  *)
(* fresh block instance").                                                 *)
AnsweredTeamsSurvive == \A t \in kept : Exists(Load(target), t)

(* "Written whole and swapped in, so a crash mid-write cannot leave a      *)
(* half-written team registry behind."                                     *)
NeverHalfWritten ==
  (\A w \in Worker : pc[w] = "idle") => target \notin {Blank, Torn}

----------------------------------------------------------------------------
(* The refinement: the registry is what a fresh instance would load; a     *)
(* request takes effect when its file is swapped in.  Until then its ids   *)
(* are not drawn and the invitation it accepts has not lapsed.             *)
InFlight == {req[w] : w \in {x \in Worker : pc[x] \in {"served", "writing", "written"}}}
Accepting == {req[w].token : w \in {x \in Worker :
                pc[x] # "idle" /\ req[x].op = "accept_invitation"}}

Promise == INSTANCE TeamRegistry
             WITH registry <- Load(target),
                  drawn <- drawn \ UNION {Draws(q) : q \in InFlight},
                  lapsed <- lapsed \ Accepting

(* One request at a time, with crashes at any step: the state file behaves *)
(* as the registry of TeamRegistry.                                        *)
OneAtATimeIsAtomic == Promise!TeamSpec
=============================================================================
