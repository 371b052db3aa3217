---------------------------- MODULE TeamRegistry ----------------------------
(***************************************************************************)
(* What the team block promises its callers: one registry, every request   *)
(* applied to it in one step.  TeamStore is the block as it runs, on a     *)
(* state file shared by instances, and TeamStore with one request at a     *)
(* time implements this specification.                                     *)
(***************************************************************************)
EXTENDS TeamOps

VARIABLES
  registry,  \* the teams, memberships and invitations
  drawn,     \* team ids and tokens handed out so far
  lapsed,    \* tokens whose invitation has expired
  last       \* who asked for what in the last step

teamVars == <<registry, drawn, lapsed, last>>

Who(q) == [op |-> q.op, user |-> q.user]
NoOne == [op |-> "none"]

TeamTypeOK ==
  /\ registry \in Registry
  /\ drawn \subseteq TeamId \cup Token
  /\ lapsed \subseteq Token
  /\ last \in {Who(q) : q \in Request} \cup {NoOne}

TeamInit ==
  /\ registry = EmptyRegistry
  /\ drawn = {}
  /\ lapsed = {}
  /\ last = NoOne

(* One accepted request.                                                   *)
Serve(q) ==
  /\ Draws(q) \cap drawn = {}
  /\ Accepts(registry, q, lapsed)
  /\ registry' = Result(registry, q)
  /\ drawn' = drawn \cup Draws(q)
  /\ last' = Who(q)
  /\ UNCHANGED lapsed

(* A request that fails after it drew its ids.  One that is refused before *)
(* that changes nothing.                                                   *)
Fail(q) ==
  /\ Draws(q) # {} /\ Draws(q) \cap drawn = {}
  /\ drawn' = drawn \cup Draws(q)
  /\ UNCHANGED <<registry, lapsed, last>>

(* invitation_expiry_hours pass for an invitation that was sent.           *)
Lapse(k) ==
  /\ k \in drawn \ lapsed
  /\ lapsed' = lapsed \cup {k}
  /\ UNCHANGED <<registry, drawn, last>>

TeamNext == \/ \E q \in Request : Serve(q) \/ Fail(q)
            \/ \E k \in Token : Lapse(k)

TeamSpec == TeamInit /\ [][TeamNext]_teamVars

----------------------------------------------------------------------------
(* No two live teams share a slug, across every sequence of requests       *)
(* (create_team compares; rename, delete and re-create do not disturb it). *)
SlugsStayUnique == SlugsUnique(registry)

(* quotas.members_used, stored beside the membership list, is its length   *)
(* after every request, those on teams of repeated members included.       *)
QuotaStaysExact == QuotaExact(registry)

(* While the owner of a team holds the owner role, no request of another   *)
(* user changes the owner's seat: nobody else can demote or remove him     *)
(* ("Cannot remove owner unless you're owner", "Cannot change owner's role *)
(* unless you're owner").                                                  *)
OwnerSeatIsTheOwners ==
  [][\A t \in TeamId :
       LET owner == registry.teams[t].owner IN
       /\ Exists(registry, t) /\ Exists(registry', t)
       /\ Member(registry, t, owner) /\ FirstRole(registry, t, owner) = "owner"
       /\ last'.op # "none" /\ last'.user # owner
       => /\ Member(registry', t, owner)
          /\ FirstRole(registry', t, owner) = "owner"]_teamVars

(* A team is gone only by its owner's own delete_team.                     *)
TeamsEndByTheirOwner ==
  [][\A t \in TeamId :
       Exists(registry, t) /\ ~Exists(registry', t)
         => last'.op = "delete_team" /\ last'.user = registry.teams[t].owner]_teamVars

(* Seats and pending invitations together grow by creating a team and by   *)
(* inviting only: an acceptance turns one invitation into one seat, and no *)
(* removal, role change or deletion lets anybody in.                       *)
TotalSeats(r) ==
  Cardinality(UNION {{<<t, u>>} \X (1 .. Len(r.members[t][u])) :
                       t \in TeamId, u \in User})
Pending(r) == Cardinality({k \in Token : r.invites[k] # NoInvite})

NoSeatFromNothing ==
  [][TotalSeats(registry') + Pending(registry') > TotalSeats(registry) + Pending(registry)
       => last'.op \in {"create_team", "invite_member"}]_teamVars

----------------------------------------------------------------------------
(* Stated by the code, and not kept by it.                                 *)

(* "Check team size limit" (team.py, before an invitation is written): a   *)
(* team has at most max_members_per_team members.                          *)
TeamSizeLimit ==
  \A t \in TeamId :
    Exists(registry, t) => MemberCount(registry.members[t]) <= MaxMembers

(* "Cannot remove owner unless you're owner" (team.py, remove_member): the *)
(* owner of a team is removed from it by nobody else.                      *)
OwnerRemovedByOwnerOnly ==
  [][\A t \in TeamId :
       LET owner == registry.teams[t].owner IN
       /\ Exists(registry, t) /\ Exists(registry', t)
       /\ Member(registry, t, owner) /\ ~Member(registry', t, owner)
       => last'.user = owner]_teamVars
=============================================================================
