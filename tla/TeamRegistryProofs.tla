------------------------- MODULE TeamRegistryProofs -------------------------
(***************************************************************************)
(* The atomic registry: type correctness, unique slugs and exact quotas,   *)
(* for every set of users, teams, slugs and tokens and every limit.        *)
(***************************************************************************)
EXTENDS TeamRegistry, TeamOpsProofs

(* The inductive invariant: the registry is sound, the bookkeeping of the  *)
(* specification has its types, and a live team's id has been drawn (so    *)
(* that no later create_team overwrites it).                               *)
LiveTeamsDrawn == \A t \in TeamId : Exists(registry, t) => t \in drawn
RegistryInv == TeamTypeOK /\ Sound(registry) /\ LiveTeamsDrawn

LEMMA RegistryInvInit == TeamInit => RegistryInv
<1> SUFFICES ASSUME TeamInit PROVE RegistryInv
  OBVIOUS
<1>1. Sound(registry) /\ registry \in Registry
  BY EmptySound DEF TeamInit, Sound
<1>2. LiveTeamsDrawn
  BY DEF LiveTeamsDrawn, TeamInit, EmptyRegistry, Exists
<1>3. QED BY <1>1, <1>2 DEF RegistryInv, TeamInit, TeamTypeOK

(* Only create_team makes a team, and only under the id it drew.           *)
LEMMA NewTeamsAreDrawn ==
  ASSUME NEW r \in Registry, NEW q \in Request, NEW expired,
         Accepts(r, q, expired), NEW t \in TeamId, Exists(Result(r, q), t)
  PROVE  Exists(r, t) \/ t \in Draws(q)
<1> SUFFICES ASSUME ~Exists(r, t) PROVE t \in Draws(q)
  OBVIOUS
<1>1. CASE q.op = "create_team"
  <2>1. Result(r, q).teams = [r.teams EXCEPT ![q.team] =
                                [owner |-> q.user, slug |-> q.slug, used |-> 1]]
    BY <1>1 DEF Result, Create, Registry
  <2>2. t = q.team
    BY <2>1 DEF Exists, Registry
  <2>3. QED BY <1>1, <2>2 DEF Draws
<1>2. CASE q.op = "delete_team"
  BY <1>2 DEF Result, Delete, Exists, Registry
<1>3. CASE q.op = "update_team"
  BY <1>3 DEF Result, Update
<1>4. CASE q.op = "leave_team"
  BY <1>4 DEF Accepts, MayLeave, Result, Leave, WithoutMember, Exists, Registry
<1>5. CASE q.op = "invite_member"
  BY <1>5 DEF Result, InviteTo, Exists, Registry
<1>6. CASE q.op = "accept_invitation"
  BY <1>6 DEF Result, Accept, Exists, Registry
<1>7. CASE q.op = "remove_member"
  BY <1>7 DEF Accepts, MayRemove, Result, Remove, WithoutMember, Exists, Registry
<1>8. CASE q.op = "set_role"
  BY <1>8 DEF Result, SetRole, Exists, Registry
<1>9. QED BY <1>1, <1>2, <1>3, <1>4, <1>5, <1>6, <1>7, <1>8 DEF Accepts

LEMMA RegistryInvStep == RegistryInv /\ [TeamNext]_teamVars => RegistryInv'
<1> SUFFICES ASSUME RegistryInv, [TeamNext]_teamVars PROVE RegistryInv'
  OBVIOUS
<1> USE DEF RegistryInv
<1>1. ASSUME NEW q \in Request, Serve(q) PROVE RegistryInv'
  <2>1. Sound(registry)'
    BY <1>1, ResultSound DEF Serve, TeamTypeOK
  <2>2. TeamTypeOK'
    BY <1>1, <2>1, DrawsAreIds DEF Serve, TeamTypeOK, Sound
  <2>3. LiveTeamsDrawn'
    BY <1>1, NewTeamsAreDrawn DEF Serve, TeamTypeOK, LiveTeamsDrawn
  <2>4. QED BY <2>1, <2>2, <2>3
<1>2. ASSUME NEW q \in Request, Fail(q) PROVE RegistryInv'
  BY <1>2, DrawsAreIds DEF Fail, TeamTypeOK, LiveTeamsDrawn
<1>3. ASSUME NEW k \in Token, Lapse(k) PROVE RegistryInv'
  BY <1>3 DEF Lapse, TeamTypeOK, LiveTeamsDrawn
<1>4. CASE UNCHANGED teamVars
  BY <1>4 DEF teamVars, TeamTypeOK, LiveTeamsDrawn
<1>5. QED BY <1>1, <1>2, <1>3, <1>4 DEF TeamNext

LEMMA RegistryInvariant == TeamSpec => []RegistryInv
BY RegistryInvInit, RegistryInvStep, PTL DEF TeamSpec

(* The state always has its declared type.                                 *)
THEOREM TeamTypeCorrect == TeamSpec => []TeamTypeOK
BY RegistryInvariant, PTL DEF RegistryInv

(* No sequence of requests gives two live teams one slug.                  *)
THEOREM TeamSlugsUnique == TeamSpec => []SlugsStayUnique
<1>1. RegistryInv => SlugsStayUnique
  BY DEF RegistryInv, Sound, Consistent, SlugsStayUnique
<1>2. QED BY <1>1, RegistryInvariant, PTL

(* members_used is the number of membership entries after every request.   *)
THEOREM TeamQuotaExact == TeamSpec => []QuotaStaysExact
<1>1. RegistryInv => QuotaStaysExact
  BY DEF RegistryInv, Sound, Consistent, QuotaStaysExact
<1>2. QED BY <1>1, RegistryInvariant, PTL

----------------------------------------------------------------------------
(* A team ends by its owner's delete_team and by nothing else.             *)
THEOREM TeamEndsWithOwner == TeamSpec => TeamsEndByTheirOwner
<1>1. RegistryInv /\ [TeamNext]_teamVars
        => [\A t \in TeamId : Exists(registry, t) /\ ~Exists(registry', t)
               => last'.op = "delete_team" /\ last'.user = registry.teams[t].owner]_teamVars
  BY TeamsEndStep DEF RegistryInv, TeamTypeOK, TeamNext, Serve, Fail, Lapse, Who, teamVars
<1>2. QED BY <1>1, RegistryInvariant, PTL DEF TeamSpec, TeamsEndByTheirOwner
----------------------------------------------------------------------------
(* What each request does to the entries of a user in a team.              *)
EntriesAfter(r, q, t, u) ==
  CASE q.op = "create_team" ->
         IF t # q.team THEN r.members[t][u] ELSE IF u = q.user THEN <<"owner">> ELSE << >>
    [] q.op = "delete_team" -> IF t = q.team THEN << >> ELSE r.members[t][u]
    [] q.op = "leave_team" -> IF t = q.team /\ u = q.user THEN << >> ELSE r.members[t][u]
    [] q.op = "remove_member" -> IF t = q.team /\ u = q.target THEN << >> ELSE r.members[t][u]
    [] q.op = "set_role" ->
         IF t = q.team /\ u = q.target THEN [r.members[t][u] EXCEPT ![1] = q.role] ELSE r.members[t][u]
    [] q.op = "accept_invitation" ->
         IF t = r.invites[q.token].team /\ u = q.user
         THEN Append(r.members[t][u], r.invites[q.token].role) ELSE r.members[t][u]
    [] OTHER -> r.members[t][u]

LEMMA SeatsAfter ==
  ASSUME NEW r \in Registry, NEW q \in Request, NEW t \in TeamId, NEW u \in User
  PROVE  Result(r, q).members[t][u] = EntriesAfter(r, q, t, u)
<1> DEFINE m == r.members
           new == Result(r, q).members
<1>1. /\ m \in [TeamId -> Seats] /\ DOMAIN m = TeamId /\ \A x \in TeamId : DOMAIN m[x] = User
      /\ DOMAIN NoSeats = User /\ \A v \in User : NoSeats[v] = << >>
  BY DEF Registry, Seats, NoSeats
<1>2. CASE q.op = "create_team"
  <2>1. new = [m EXCEPT ![q.team] = [NoSeats EXCEPT ![q.user] = <<"owner">>]]
    BY <1>2 DEF Result, Create, Registry
  <2>2. EntriesAfter(r, q, t, u) = IF t # q.team THEN m[t][u] ELSE IF u = q.user THEN <<"owner">> ELSE << >>
    BY <1>2 DEF EntriesAfter
  <2> HIDE DEF m, new
  <2>3. new[t][u] = IF t # q.team THEN m[t][u] ELSE IF u = q.user THEN <<"owner">> ELSE << >>
    BY <1>1, <2>1
  <2> QED BY <2>2, <2>3 DEF new
<1>3. CASE q.op = "delete_team"
  <2>1. new = [m EXCEPT ![q.team] = NoSeats]
    BY <1>3 DEF Result, Delete, Registry
  <2>2. EntriesAfter(r, q, t, u) = IF t = q.team THEN << >> ELSE m[t][u]
    BY <1>3 DEF EntriesAfter
  <2> HIDE DEF m, new
  <2>3. new[t][u] = IF t = q.team THEN << >> ELSE m[t][u]
    BY <1>1, <2>1
  <2> QED BY <2>2, <2>3 DEF new
<1>4. CASE q.op = "leave_team"
  <2>1. new = [m EXCEPT ![q.team] = [m[q.team] EXCEPT ![q.user] = << >>]]
    BY <1>4 DEF Result, Leave, WithoutMember, Registry
  <2>2. EntriesAfter(r, q, t, u) = IF t = q.team /\ u = q.user THEN << >> ELSE m[t][u]
    BY <1>4 DEF EntriesAfter
  <2> HIDE DEF m, new
  <2>3. new[t][u] = IF t = q.team /\ u = q.user THEN << >> ELSE m[t][u]
    BY <1>1, <2>1
  <2> QED BY <2>2, <2>3 DEF new
<1>5. CASE q.op = "remove_member"
  <2>1. new = [m EXCEPT ![q.team] = [m[q.team] EXCEPT ![q.target] = << >>]]
    BY <1>5 DEF Result, Remove, WithoutMember, Registry
  <2>2. EntriesAfter(r, q, t, u) = IF t = q.team /\ u = q.target THEN << >> ELSE m[t][u]
    BY <1>5 DEF EntriesAfter
  <2> HIDE DEF m, new
  <2>3. new[t][u] = IF t = q.team /\ u = q.target THEN << >> ELSE m[t][u]
    BY <1>1, <2>1
  <2> QED BY <2>2, <2>3 DEF new
<1>6. CASE q.op = "set_role"
  <2> DEFINE list == [m[q.team][q.target] EXCEPT ![1] = q.role]
  <2>1. new = [m EXCEPT ![q.team] = [m[q.team] EXCEPT ![q.target] = list]]
    BY <1>6 DEF Result, SetRole, Registry
  <2>2. EntriesAfter(r, q, t, u) = IF t = q.team /\ u = q.target THEN list ELSE m[t][u]
    BY <1>6 DEF EntriesAfter
  <2> HIDE DEF m, new, list
  <2>3. new[t][u] = IF t = q.team /\ u = q.target THEN list ELSE m[t][u]
    BY <1>1, <2>1
  <2> QED BY <2>2, <2>3 DEF new
<1>7. CASE q.op = "accept_invitation"
  <2> DEFINE x == r.invites[q.token].team
             list == Append(m[x][q.user], r.invites[q.token].role)
  <2>1. new = [m EXCEPT ![x] = [m[x] EXCEPT ![q.user] = list]]
    BY <1>7 DEF Result, Accept, Registry
  <2>2. EntriesAfter(r, q, t, u) = IF t = x /\ u = q.user THEN list ELSE m[t][u]
    BY <1>7 DEF EntriesAfter
  <2> HIDE DEF m, new, x, list
  <2>3. new[t][u] = IF t = x /\ u = q.user THEN list ELSE m[t][u]
    BY <1>1, <2>1
  <2> QED BY <2>2, <2>3 DEF new
<1>8. CASE q.op \in {"update_team", "invite_member"}
  BY <1>8 DEF EntriesAfter, Result, Update, InviteTo, Registry
<1> QED BY <1>2, <1>3, <1>4, <1>5, <1>6, <1>7, <1>8 DEF Request

(* Nobody but the owner gets at the seat of an owner who is one by role.   *)
LEMMA OwnersSeatStep ==
  ASSUME NEW r \in Registry, NEW q \in Request, NEW expired, Accepts(r, q, expired),
         NEW t \in TeamId, Exists(r, t), Exists(Result(r, q), t), t \notin Draws(q),
         NEW owner \in User, owner = r.teams[t].owner,
         Member(r, t, owner), FirstRole(r, t, owner) = "owner", q.user # owner
  PROVE  Result(r, q).members[t][owner] = r.members[t][owner]
<1>1. Result(r, q).members[t][owner] = EntriesAfter(r, q, t, owner)
  BY SeatsAfter
<1>2. CASE q.op = "create_team"
  BY <1>1, <1>2 DEF Draws, EntriesAfter
<1>3. CASE q.op = "delete_team"
  <2>1. q.team # t
    BY <1>3 DEF Result, Delete, Exists, Registry
  <2> QED BY <1>1, <1>3, <2>1 DEF EntriesAfter
<1>4. CASE q.op = "leave_team"
  BY <1>1, <1>4 DEF EntriesAfter
<1>5. CASE q.op = "remove_member" /\ MayRemove(r, q)
  <2>1. q.team # t \/ q.target # owner
    BY <1>5 DEF MayRemove
  <2> QED BY <1>1, <1>5, <2>1 DEF EntriesAfter
<1>6. CASE q.op = "set_role" /\ MaySetRole(r, q)
  <2>1. q.team # t \/ q.target # owner
    BY <1>6 DEF MaySetRole
  <2> QED BY <1>1, <1>6, <2>1 DEF EntriesAfter
<1>7. CASE q.op \in {"update_team", "invite_member"}
  BY <1>1, <1>7 DEF EntriesAfter
<1>8. CASE q.op = "accept_invitation"
  BY <1>1, <1>8 DEF EntriesAfter
<1> QED BY <1>2, <1>3, <1>4, <1>5, <1>6, <1>7, <1>8 DEF Accepts

(* In every sequence of requests, the owner who holds the owner role loses *)
(* neither seat nor role by a request of somebody else.                    *)
THEOREM OwnerKeepsSeat == TeamSpec => OwnerSeatIsTheOwners
<1>1. ASSUME RegistryInv, [TeamNext]_teamVars, NEW t \in TeamId,
             Exists(registry, t), Exists(registry', t),
             Member(registry, t, registry.teams[t].owner),
             FirstRole(registry, t, registry.teams[t].owner) = "owner",
             last'.op # "none", last'.user # registry.teams[t].owner
      PROVE  registry'.members[t][registry.teams[t].owner] = registry.members[t][registry.teams[t].owner]
  <2>1. ASSUME NEW q \in Request, Serve(q)
        PROVE  registry'.members[t][registry.teams[t].owner] = registry.members[t][registry.teams[t].owner]
    <3>1. /\ registry \in Registry /\ t \notin Draws(q) /\ Accepts(registry, q, lapsed)
          /\ registry' = Result(registry, q) /\ q.user # registry.teams[t].owner
      BY <1>1, <2>1 DEF RegistryInv, TeamTypeOK, LiveTeamsDrawn, Serve, Who
    <3>2. Exists(Result(registry, q), t)
      BY <1>1, <3>1
    <3>3. registry.teams[t].owner \in User
      BY <1>1, <3>1, LiveTeam DEF Team
    <3> QED BY <1>1, <3>1, <3>2, <3>3, OwnersSeatStep
  <2>2. ASSUME NEW q \in Request, Fail(q) PROVE registry' = registry
    BY <2>2 DEF Fail
  <2>3. ASSUME NEW k \in Token, Lapse(k) PROVE registry' = registry
    BY <2>3 DEF Lapse
  <2> QED BY <1>1, <2>1, <2>2, <2>3 DEF TeamNext, teamVars
<1>2. RegistryInv /\ [TeamNext]_teamVars
        => [\A t \in TeamId :
              LET owner == registry.teams[t].owner IN
              /\ Exists(registry, t) /\ Exists(registry', t)
              /\ Member(registry, t, owner) /\ FirstRole(registry, t, owner) = "owner"
              /\ last'.op # "none" /\ last'.user # owner
              => /\ Member(registry', t, owner)
                 /\ FirstRole(registry', t, owner) = "owner"]_teamVars
  BY <1>1 DEF Member, FirstRole
<1> QED BY <1>2, RegistryInvariant, PTL DEF TeamSpec, OwnerSeatIsTheOwners
----------------------------------------------------------------------------
(* Seats of all teams together, those of deleted teams included, and the   *)
(* tokens that can still be accepted.  There are finitely many of both, so *)
(* that counting them means something.                                     *)
AllSeats(r) ==
  UNION {{<<t, u>>} \X (1 .. Len(r.members[t][u])) : t \in TeamId, u \in User}
Open(r) == {k \in Token : r.invites[k] # NoInvite}
Countable(r) == IsFiniteSet(AllSeats(r)) /\ IsFiniteSet(Open(r))

LEMMA AllSeatsShape ==
  ASSUME NEW r \in Registry, NEW s
  PROVE  s \in AllSeats(r) <=>
           \E t \in TeamId, u \in User : \E i \in 1 .. Len(r.members[t][u]) : s = <<<<t, u>>, i>>
<1> DEFINE of(t, u) == {<<t, u>>} \X (1 .. Len(r.members[t][u]))
<1>1. s \in AllSeats(r) <=> \E t \in TeamId, u \in User : s \in of(t, u)
  <2>1. AllSeats(r) = UNION {of(t, u) : t \in TeamId, u \in User}
    BY DEF AllSeats
  <2> HIDE DEF of
  <2>2. ASSUME s \in AllSeats(r) PROVE \E t \in TeamId, u \in User : s \in of(t, u)
    <3>1. PICK e \in {of(t, u) : t \in TeamId, u \in User} : s \in e
      BY <2>1, <2>2
    <3> QED BY <3>1
  <2>3. ASSUME NEW t \in TeamId, NEW u \in User, s \in of(t, u) PROVE s \in AllSeats(r)
    <3>1. of(t, u) \in {of(x, v) : x \in TeamId, v \in User}
      OBVIOUS
    <3> QED BY <2>1, <2>3, <3>1
  <2> QED BY <2>2, <2>3
<1>2. \A p, S : s \in {p} \X S <=> \E i \in S : s = <<p, i>>
  OBVIOUS
<1> QED BY <1>1, <1>2

LEMMA EntriesCounted ==
  ASSUME NEW r \in Registry, NEW t \in TeamId, NEW u \in User
  PROVE  r.members[t][u] \in Seq(StoredRole) /\ Len(r.members[t][u]) \in Nat
<1>1. r.members[t][u] \in Seq(StoredRole)
  BY DEF Registry, Seats
<1> QED BY <1>1

(* Taking entries away takes seats away.                                   *)
LEMMA FewerSeats ==
  ASSUME NEW r \in Registry, NEW new \in Registry,
         \A t \in TeamId, u \in User : Len(new.members[t][u]) <= Len(r.members[t][u])
  PROVE  AllSeats(new) \subseteq AllSeats(r)
<1>1. ASSUME NEW s \in AllSeats(new) PROVE s \in AllSeats(r)
  <2>1. PICK t \in TeamId, u \in User : \E i \in 1 .. Len(new.members[t][u]) : s = <<<<t, u>>, i>>
    BY AllSeatsShape
  <2>2. PICK i \in 1 .. Len(new.members[t][u]) : s = <<<<t, u>>, i>>
    BY <2>1
  <2>3. i \in 1 .. Len(r.members[t][u])
    BY EntriesCounted
  <2> QED BY <2>2, <2>3, AllSeatsShape
<1> QED BY <1>1

(* Adding an entry adds one seat.                                          *)
LEMMA OneSeatMore ==
  ASSUME NEW r \in Registry, NEW new \in Registry, NEW x \in TeamId, NEW v \in User,
         Len(new.members[x][v]) = Len(r.members[x][v]) + 1,
         \A t \in TeamId, u \in User :
           t # x \/ u # v => Len(new.members[t][u]) = Len(r.members[t][u])
  PROVE  /\ AllSeats(new) = AllSeats(r) \cup {<<<<x, v>>, Len(r.members[x][v]) + 1>>}
         /\ <<<<x, v>>, Len(r.members[x][v]) + 1>> \notin AllSeats(r)
<1> DEFINE added == <<<<x, v>>, Len(r.members[x][v]) + 1>>
<1>1. ASSUME NEW s \in AllSeats(new) PROVE s \in AllSeats(r) \cup {added}
  <2>1. PICK t \in TeamId, u \in User : \E i \in 1 .. Len(new.members[t][u]) : s = <<<<t, u>>, i>>
    BY AllSeatsShape
  <2>2. PICK i \in 1 .. Len(new.members[t][u]) : s = <<<<t, u>>, i>>
    BY <2>1
  <2>3. CASE i \in 1 .. Len(r.members[t][u])
    BY <2>2, <2>3, AllSeatsShape
  <2>4. CASE i \notin 1 .. Len(r.members[t][u])
    <3>1. t = x /\ u = v
      BY <2>4
    <3>2. i = Len(r.members[x][v]) + 1
      <4>1. Len(r.members[x][v]) \in Nat
        BY EntriesCounted
      <4>2. i \in 1 .. (Len(r.members[x][v]) + 1) /\ i \notin 1 .. Len(r.members[x][v])
        BY <2>4, <3>1
      <4> QED BY <4>1, <4>2
    <3> QED BY <2>2, <3>1, <3>2
  <2> QED BY <2>3, <2>4
<1>2. added \in AllSeats(new)
  <2>1. Len(r.members[x][v]) + 1 \in 1 .. Len(new.members[x][v])
    BY EntriesCounted
  <2> QED BY <2>1, AllSeatsShape
<1>3. added \notin AllSeats(r)
  <2>1. ASSUME NEW t \in TeamId, NEW u \in User, NEW i \in 1 .. Len(r.members[t][u]),
               added = <<<<t, u>>, i>>
        PROVE  FALSE
    <3>1. t = x /\ u = v /\ i = Len(r.members[x][v]) + 1
      BY <2>1
    <3> QED BY <3>1, EntriesCounted
  <2> QED BY <2>1, AllSeatsShape
<1>4. AllSeats(r) \subseteq AllSeats(new)
  <2>1. \A t \in TeamId, u \in User : Len(r.members[t][u]) <= Len(new.members[t][u])
    <3> TAKE t \in TeamId, u \in User
    <3>1. Len(r.members[t][u]) \in Nat
      BY EntriesCounted
    <3>2. CASE t = x /\ u = v
      <4>1. Len(new.members[t][u]) = Len(r.members[t][u]) + 1
        BY <3>2
      <4> QED BY <3>1, <4>1
    <3>3. CASE t # x \/ u # v
      <4>1. Len(new.members[t][u]) = Len(r.members[t][u])
        BY <3>3
      <4> QED BY <3>1, <4>1
    <3> QED BY <3>2, <3>3
  <2> QED BY <2>1, FewerSeats
<1> QED BY <1>1, <1>2, <1>3, <1>4
(* A request keeps both countable, and adds to their number only when it   *)
(* creates a team or invites.                                              *)
LEMMA SeatsAndInvites ==
  ASSUME NEW r \in Registry, Sound(r), Countable(r), NEW q \in Request, NEW expired,
         Accepts(r, q, expired)
  PROVE  LET new == Result(r, q) IN
         /\ Countable(new)
         /\ q.op \notin {"create_team", "invite_member"} =>
              Cardinality(AllSeats(new)) + Cardinality(Open(new))
                <= Cardinality(AllSeats(r)) + Cardinality(Open(r))
<1> DEFINE new == Result(r, q)
           Fewer(a, b) == Cardinality(AllSeats(b)) + Cardinality(Open(b))
                            <= Cardinality(AllSeats(a)) + Cardinality(Open(a))
<1>1. new \in Registry /\ \A t \in TeamId, u \in User : new.members[t][u] = EntriesAfter(r, q, t, u)
  <2>1. Sound(Result(r, q))
    BY ResultSound
  <2> QED BY <2>1, SeatsAfter DEF Sound
<1>2. /\ IsFiniteSet(AllSeats(r)) /\ Cardinality(AllSeats(r)) \in Nat
      /\ IsFiniteSet(Open(r)) /\ Cardinality(Open(r)) \in Nat
  BY FS_CardinalityType DEF Countable
<1>3. \A t \in TeamId, u \in User : Len(r.members[t][u]) \in Nat /\ r.members[t][u] \in Seq(StoredRole)
  BY EntriesCounted
<1>4. Len(<< >>) = 0 /\ Len(<<"owner">>) = 1
  OBVIOUS
<1>5. CASE q.op \in {"delete_team", "leave_team", "remove_member", "update_team", "set_role"}
  <2>1. Open(new) = Open(r)
    BY <1>5 DEF Open, Result, Delete, Leave, Remove, WithoutMember, Update, SetRole, Registry
  <2>2. ASSUME NEW t \in TeamId, NEW u \in User
        PROVE  Len(new.members[t][u]) <= Len(r.members[t][u])
    <3>1. PICK list \in Seq(StoredRole) : list = r.members[t][u]
      BY <1>3
    <3>2. \/ new.members[t][u] = list \/ new.members[t][u] = << >>
          \/ new.members[t][u] = [list EXCEPT ![1] = q.role]
      BY <1>1, <1>5, <3>1 DEF EntriesAfter
    <3>3. Len([list EXCEPT ![1] = q.role]) = Len(list)
      OBVIOUS
    <3>4. Len(new.members[t][u]) = Len(list) \/ Len(new.members[t][u]) = 0
      BY <1>4, <3>2, <3>3
    <3>5. Len(list) \in Nat
      BY <3>1
    <3> HIDE DEF new
    <3> QED BY <3>1, <3>4, <3>5
  <2>3. AllSeats(new) \in SUBSET AllSeats(r)
    <3> HIDE DEF new
    <3> QED BY <1>1, <2>2, FewerSeats
  <2> HIDE DEF new
  <2>4. IsFiniteSet(AllSeats(new)) /\ Cardinality(AllSeats(new)) <= Cardinality(AllSeats(r))
    BY <1>2, <2>3, FS_Subset
  <2>5. Cardinality(AllSeats(new)) \in Nat
    BY <2>4, FS_CardinalityType
  <2>6. Countable(new) /\ Fewer(r, new)
    BY <1>2, <2>1, <2>4, <2>5 DEF Countable
  <2> QED BY <2>6 DEF new
<1>6. CASE q.op = "create_team"
  <2>1. Open(new) = Open(r)
    BY <1>6 DEF Open, Result, Create, Registry
  <2>2. q.team \in TeamId /\ q.user \in User
    BY <1>6 DEF Request
  <2>3. AllSeats(new) \subseteq AllSeats(r) \cup {<<<<q.team, q.user>>, 1>>}
    <3>1. ASSUME NEW s \in AllSeats(new) PROVE s \in AllSeats(r) \cup {<<<<q.team, q.user>>, 1>>}
      <4>1. PICK t \in TeamId, u \in User : \E i \in 1 .. Len(new.members[t][u]) : s = <<<<t, u>>, i>>
        <5> HIDE DEF new
        <5> QED BY <1>1, AllSeatsShape
      <4>2. PICK i \in 1 .. Len(new.members[t][u]) : s = <<<<t, u>>, i>>
        BY <4>1
      <4>3. CASE t # q.team
        <5>1. i \in 1 .. Len(r.members[t][u])
          BY <1>1, <1>6, <4>3 DEF EntriesAfter
        <5> QED BY <4>2, <5>1, AllSeatsShape
      <4>4. CASE t = q.team
        <5>1. new.members[t][u] = IF u = q.user THEN <<"owner">> ELSE << >>
          BY <1>1, <1>6, <4>4 DEF EntriesAfter
        <5>2. Len(new.members[t][u]) = IF u = q.user THEN 1 ELSE 0
          BY <1>4, <5>1
        <5> HIDE DEF new
        <5>3. u = q.user /\ i = 1
          BY <5>2
        <5> QED BY <4>2, <4>4, <5>3
      <4> QED BY <4>3, <4>4
    <3> QED BY <3>1
  <2> HIDE DEF new
  <2>4. IsFiniteSet(AllSeats(r) \cup {<<<<q.team, q.user>>, 1>>})
    BY <1>2, FS_AddElement
  <2>5. IsFiniteSet(AllSeats(new))
    BY <2>3, <2>4, FS_Subset
  <2>6. Countable(new)
    BY <1>2, <2>1, <2>5 DEF Countable
  <2> QED BY <1>6, <2>6 DEF new
<1>7. CASE q.op = "invite_member"
  <2>1. AllSeats(new) = AllSeats(r)
    BY <1>1, <1>7 DEF AllSeats, EntriesAfter
  <2>2. q.token \in Token /\ new.invites = [r.invites EXCEPT ![q.token] = [team |-> q.team, role |-> q.role]]
    BY <1>7 DEF Request, Result, InviteTo, Registry
  <2>3. Open(new) \in SUBSET (Open(r) \cup {q.token})
    BY <2>2 DEF Open, Registry
  <2> HIDE DEF new
  <2>4. IsFiniteSet(Open(r) \cup {q.token})
    BY <1>2, FS_AddElement
  <2>5. IsFiniteSet(Open(new))
    BY <2>3, <2>4, FS_Subset
  <2>6. Countable(new)
    BY <1>2, <2>1, <2>5 DEF Countable
  <2> QED BY <1>7, <2>6 DEF new
<1>8. CASE q.op = "accept_invitation" /\ MayAccept(r, q, expired)
  <2>1. PICK k \in Token : k = q.token
    BY <1>8 DEF Request
  <2>2. PICK v \in User : v = q.user
    BY <1>8 DEF Request
  <2>3. PICK x \in TeamId : x = r.invites[k].team
    BY <1>8, <2>1 DEF MayAccept, Registry, Invite
  <2>4. k \in Open(r)
    BY <1>8, <2>1 DEF MayAccept, Open
  <2>5. new.invites = [r.invites EXCEPT ![k] = NoInvite]
    BY <1>8, <2>1 DEF Result, Accept, Registry
  <2>6. Open(new) = Open(r) \ {k}
    BY <2>5 DEF Open, Registry
  <2>7. \A t \in TeamId, u \in User :
          new.members[t][u] = IF t = x /\ u = v THEN Append(r.members[t][u], r.invites[k].role)
                              ELSE r.members[t][u]
    BY <1>1, <1>8, <2>1, <2>2, <2>3 DEF EntriesAfter
  <2> HIDE DEF new
  <2>8. Len(new.members[x][v]) = Len(r.members[x][v]) + 1
    <3>1. PICK list \in Seq(StoredRole) : list = r.members[x][v]
      BY <1>3
    <3>2. PICK role : role = r.invites[k].role
      OBVIOUS
    <3>3. new.members[x][v] = Append(list, role)
      BY <2>7, <3>1, <3>2
    <3>4. Len(Append(list, role)) = Len(list) + 1
      OBVIOUS
    <3> QED BY <3>1, <3>3, <3>4
  <2>9. \A t \in TeamId, u \in User : t # x \/ u # v => Len(new.members[t][u]) = Len(r.members[t][u])
    BY <2>7
  <2>10. PICK seat : AllSeats(new) = AllSeats(r) \cup {seat} /\ seat \notin AllSeats(r)
    <3>1. LET added == <<<<x, v>>, Len(r.members[x][v]) + 1>>
          IN  AllSeats(new) = AllSeats(r) \cup {added} /\ added \notin AllSeats(r)
      BY <1>1, <2>8, <2>9, OneSeatMore
    <3> QED BY <3>1
  <2>11. IsFiniteSet(AllSeats(new)) /\ Cardinality(AllSeats(new)) = Cardinality(AllSeats(r)) + 1
    BY <1>2, <2>10, FS_AddElement
  <2>12. IsFiniteSet(Open(new)) /\ Cardinality(Open(new)) = Cardinality(Open(r)) - 1
    BY <1>2, <2>4, <2>6, FS_RemoveElement
  <2>13. Countable(new)
    BY <2>11, <2>12 DEF Countable
  <2>14. Fewer(r, new)
    BY <1>2, <2>11, <2>12
  <2> QED BY <2>13, <2>14 DEF new
<1> QED BY <1>5, <1>6, <1>7, <1>8 DEF Accepts

LEMMA CountableInit == TeamInit => Countable(registry)
<1> SUFFICES ASSUME TeamInit PROVE Countable(EmptyRegistry)
  BY DEF TeamInit
<1>1. EmptyRegistry \in Registry
  BY EmptySound DEF Sound
<1>2. \A t \in TeamId, u \in User : Len(EmptyRegistry.members[t][u]) = 0
  BY DEF EmptyRegistry, NoSeats
<1>3. AllSeats(EmptyRegistry) = {}
  BY <1>1, <1>2, AllSeatsShape
<1>4. Open(EmptyRegistry) = {}
  BY DEF Open, EmptyRegistry
<1> QED BY <1>3, <1>4, FS_EmptySet DEF Countable

LEMMA CountableStep ==
  RegistryInv /\ Countable(registry) /\ [TeamNext]_teamVars => Countable(registry)'
<1> SUFFICES ASSUME RegistryInv, Countable(registry), [TeamNext]_teamVars
             PROVE  Countable(registry')
  BY DEF Countable, AllSeats, Open
<1>1. ASSUME NEW q \in Request, Serve(q) PROVE Countable(registry')
  BY <1>1, SeatsAndInvites DEF RegistryInv, Sound, Serve
<1>2. registry' = registry => Countable(registry')
  OBVIOUS
<1> QED BY <1>1, <1>2 DEF TeamNext, Fail, Lapse, teamVars

(* Only founding a team and inviting add to the seats and the invitations: *)
(* an acceptance spends what it takes, and nothing else lets anybody in.   *)
THEOREM SeatsComeFromInvites == TeamSpec => NoSeatFromNothing
<1>1. ASSUME RegistryInv, Countable(registry), [TeamNext]_teamVars
      PROVE  [TotalSeats(registry') + Pending(registry') > TotalSeats(registry) + Pending(registry)
                => last'.op \in {"create_team", "invite_member"}]_teamVars
  <2>1. ASSUME NEW q \in Request, Serve(q), q.op \notin {"create_team", "invite_member"}
        PROVE  ~(TotalSeats(registry') + Pending(registry') > TotalSeats(registry) + Pending(registry))
    <3>1. /\ registry \in Registry /\ Sound(registry) /\ Accepts(registry, q, lapsed)
          /\ registry' = Result(registry, q)
      BY <1>1, <2>1 DEF RegistryInv, Sound, Serve
    <3>2. Countable(registry')
      BY <1>1, <3>1, SeatsAndInvites
    <3>3. Cardinality(AllSeats(registry')) + Cardinality(Open(registry'))
            <= Cardinality(AllSeats(registry)) + Cardinality(Open(registry))
      BY <1>1, <2>1, <3>1, SeatsAndInvites
    <3>4. /\ Cardinality(AllSeats(registry')) \in Nat /\ Cardinality(Open(registry')) \in Nat
          /\ Cardinality(AllSeats(registry)) \in Nat /\ Cardinality(Open(registry)) \in Nat
      BY <1>1, <3>2, FS_CardinalityType DEF Countable
    <3> QED BY <3>3, <3>4 DEF TotalSeats, Pending, AllSeats, Open
  <2>2. ASSUME registry' = registry
        PROVE  ~(TotalSeats(registry') + Pending(registry') > TotalSeats(registry) + Pending(registry))
    <3>1. Cardinality(AllSeats(registry)) \in Nat /\ Cardinality(Open(registry)) \in Nat
      BY <1>1, FS_CardinalityType DEF Countable
    <3> QED BY <2>2, <3>1 DEF TotalSeats, Pending, AllSeats, Open
  <2>3. ASSUME NEW q \in Request, Serve(q) PROVE last'.op = q.op
    BY <2>3 DEF Serve, Who
  <2> QED BY <1>1, <2>1, <2>2, <2>3 DEF TeamNext, Fail, Lapse
<1> QED BY <1>1, CountableInit, CountableStep, RegistryInvariant, PTL DEF TeamSpec, NoSeatFromNothing
============================================================================
