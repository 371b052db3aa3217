----------------------------- MODULE MCTeamStore -----------------------------
(***************************************************************************)
(* TeamStore on small instances: the sizes of TeamId and Token bound how   *)
(* many teams and invitations are ever made.  A behaviour belongs to one   *)
(* of two scenarios: instances run one at a time and the disk is intact,   *)
(* with every request; or instances overlap on a failing disk, with the    *)
(* requests of one user about one slug.                                    *)
(***************************************************************************)
EXTENDS TeamStore, TLC

VARIABLE scenario  \* << >> for one at a time, <<user, slug>> for overlapping

mcVars == <<storeVars, scenario>>
Alone == scenario = << >>

(* The requests of a scenario, and what its workers may be in the middle   *)
(* of.                                                                     *)
Concerns(q, u, s) ==
  /\ q.user = u
  /\ q.op = "create_team" => q.slug = s
  /\ q.op \in {"remove_member", "set_role"} => q.target = u

OneBusy == \A w, x \in Worker : pc'[w] # "idle" /\ pc'[x] # "idle" => w = x
DiskFails == \E w \in Worker : pc[w] = "writing" /\ pc'[w] = "saved"

MCInit == StoreInit /\ scenario \in {<< >>} \cup (User \X Slug)
MCNext ==
  /\ StoreNext
  /\ Alone => OneBusy /\ ~DiskFails
  /\ ~Alone => \A w \in Worker :
                 req'[w] # NoReq => Concerns(req'[w], scenario[1], scenario[2])
  /\ UNCHANGED scenario
MCSpec == MCInit /\ [][MCNext]_mcVars

(* One at a time, with a crash at any step of saving: a team whose         *)
(* creation was answered with success survives, and the file behaves as    *)
(* the registry of TeamRegistry.                                           *)
AnsweredSurvivesAlone == Alone => AnsweredTeamsSurvive
AtomicAlone ==
  /\ Alone => Promise!TeamInit
  /\ [][Alone => Promise!TeamNext]_(Promise!teamVars)

Symmetry ==
  Permutations(User) \cup Permutations(TeamId) \cup Permutations(Slug)
    \cup Permutations(Token) \cup Permutations(Worker)
=============================================================================
