--------------------------- MODULE PropertyListing ---------------------------
(***************************************************************************)
(* A property POST: the handler of property_management executes the team   *)
(* block, then a workflow whose step_1 is the team block again with the    *)
(* same input, and only then saves the row through the entity store.  The  *)
(* row and the team registry are two stores and no transaction spans them. *)
(* What the blocks answer is kept in the envelope and stops nothing.       *)
(*                                                                         *)
(* Left out: the database step (always SELECT 1) and the audit step, which *)
(* touch neither store.                                                    *)
(***************************************************************************)
EXTENDS TeamStore

CONSTANTS
  Post,     \* the distinct bodies posted to /v1/property-management
  OwnerOf,  \* actor (or "operator"): the user the team is created for
  SlugOf,   \* slug of "Hotel <property_name>"
  NoPost

ASSUME PostsNamed ==
  OwnerOf \in [Post -> User] /\ SlugOf \in [Post -> Slug] /\ NoPost \notin Post
ASSUME TeamsCanBeMade == TeamId # {}

VARIABLES
  post,    \* the body each worker handles
  stage,   \* the block its handler has come to
  listed   \* the bodies saved as rows of the entity

propertyVars == <<storeVars, post, stage, listed>>

PropertyTypeOK ==
  /\ StoreTypeOK
  /\ post \in [Worker -> Post \cup {NoPost}]
  /\ stage \in [Worker -> {"idle", "team", "workflow", "save"}]
  /\ \A w \in Worker :
       /\ stage[w] = "idle" <=> post[w] = NoPost
       /\ pc[w] # "idle" => stage[w] \in {"team", "workflow"}
  /\ listed \subseteq Post

PropertyInit ==
  /\ StoreInit
  /\ post = [w \in Worker |-> NoPost]
  /\ stage = [w \in Worker |-> "idle"]
  /\ listed = {}

----------------------------------------------------------------------------
(* team_input: create_team for the actor; the team id is drawn.            *)
TeamRequest(p, t) ==
  [op |-> "create_team", user |-> OwnerOf[p], team |-> t, slug |-> SlugOf[p]]

After(s) == CASE s = "team" -> "workflow" [] s = "workflow" -> "save"

BeginPost(w, p) ==
  /\ stage[w] = "idle"
  /\ post' = [post EXCEPT ![w] = p]
  /\ stage' = [stage EXCEPT ![w] = "team"]
  /\ UNCHANGED <<storeVars, listed>>

(* A fresh TeamBlock loads the file and accepts create_team, in the        *)
(* handler's own step or in step_1 of the workflow.                        *)
BlockServes(w) ==
  /\ stage[w] \in {"team", "workflow"}
  /\ \E t \in TeamId : ServeCopy(w, TeamRequest(post[w], t))
  /\ UNCHANGED <<post, stage, listed>>

BlockStores(w) ==
  /\ OpenTmp(w) \/ WriteText(w) \/ Replace(w) \/ DiskError(w)
  /\ UNCHANGED <<post, stage, listed>>

BlockAnswers(w) ==
  /\ Answer(w)
  /\ stage' = [stage EXCEPT ![w] = After(@)]
  /\ UNCHANGED <<post, listed>>

(* The slug is taken or the owner is at the limit: {"error": ...}, which    *)
(* execute() reports as a success, goes into the envelope or the workflow's *)
(* results, and the handler goes on.                                       *)
BlockRefuses(w) ==
  /\ stage[w] \in {"team", "workflow"}
  /\ pc[w] = "idle"
  /\ \A t \in TeamId : ~Accepts(Load(target), TeamRequest(post[w], t), lapsed)
  /\ stage' = [stage EXCEPT ![w] = After(@)]
  /\ UNCHANGED <<storeVars, post, listed>>

(* Faulty: the row is saved before the blocks run.                         *)
SaveRowFirst(w) ==
  /\ stage[w] = "team"
  /\ pc[w] = "idle"
  /\ listed' = listed \cup {post[w]}
  /\ UNCHANGED <<storeVars, post, stage>>

(* ok_envelope: store.save, whatever the blocks answered.                  *)
SaveRow(w) ==
  /\ stage[w] = "save"
  /\ listed' = listed \cup {post[w]}
  /\ post' = [post EXCEPT ![w] = NoPost]
  /\ stage' = [stage EXCEPT ![w] = "idle"]
  /\ UNCHANGED storeVars

(* The process dies: both stores keep what they hold, no request is        *)
(* resumed.                                                                *)
ProcessDies ==
  /\ "crash" \in Faults
  /\ \E w \in Worker : stage[w] # "idle"
  /\ pc' = [w \in Worker |-> "idle"]
  /\ req' = [w \in Worker |-> NoReq]
  /\ mem' = [w \in Worker |-> EmptyRegistry]
  /\ fd' = [w \in Worker |-> "none"]
  /\ post' = [w \in Worker |-> NoPost]
  /\ stage' = [w \in Worker |-> "idle"]
  /\ UNCHANGED <<target, tmp, drawn, lapsed, last, kept, listed>>

PropertyNext ==
  \/ \E w \in Worker :
       \/ \E p \in Post : BeginPost(w, p)
       \/ BlockServes(w) \/ BlockStores(w) \/ BlockAnswers(w) \/ BlockRefuses(w)
       \/ SaveRow(w)
  \/ ProcessDies

PropertySpec == PropertyInit /\ [][PropertyNext]_propertyVars

----------------------------------------------------------------------------
TeamsNamed(s) == {t \in TeamId : Exists(Load(target), t) /\ Load(target).teams[t].slug = s}

(* A row that is listed has its front-desk team in the registry a fresh    *)
(* block loads, or its owner had no room for one: the handler saves after  *)
(* the blocks, and a crash between the two stores can only leave a team    *)
(* without a row, never the other way round.  (One request at a time, the  *)
(* disk intact.)                                                           *)
ListedHasTeam ==
  \A p \in listed :
    \/ TeamsNamed(SlugOf[p]) # {}
    \/ TeamCount(Load(target), OwnerOf[p]) >= MaxTeams

(* Posting a property again, or repeating a POST that died half way, does  *)
(* not replace its team by another: the team runs twice in every POST with *)
(* the same input, and only the slug check of create_team keeps the second *)
(* run from leaving a second team.                                         *)
TeamIsStable ==
  [][\A s \in Slug : TeamsNamed(s) # {} => TeamsNamed(s)' = TeamsNamed(s)]_propertyVars

(* "List a property with a front-desk team and persist inventory"          *)
(* (property_management.py:22), and "handle() persists via                 *)
(* store.save(ENTITY, payload) after blocks succeed" (coder_brief.md):     *)
(* what is listed has its team.                                            *)
ListedPropertyHasTeam == \A p \in listed : TeamsNamed(SlugOf[p]) # {}
=============================================================================
