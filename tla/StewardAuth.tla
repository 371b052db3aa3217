---------------------------- MODULE StewardAuth ----------------------------
(***************************************************************************)
(* Pilot authentication of the steward runtime: the three tables of        *)
(* auth_models.py, and how a request's headers become the principal whose  *)
(* tenant and estate every query is confined to.                           *)
(***************************************************************************)
EXTENDS Naturals

CONSTANTS
  Principal, Token, Tenant, Estate,
  Pilot, PilotToken, PilotTenant, PilotEstate,  \* what the fixture seeds
  Blank,        \* a header that is absent, or only spaces
  NoToken,      \* an Authorization header that is not "Bearer <token>"
  DemoUser,     \* the principal id of the demo bypass
  DemoBypass,   \* STEWARD_ALLOW_DEMO_AUTH_BYPASS
  AuthFaults    \* which of "revoke", "disable", "ungrant" an operator does

ASSUME AuthPilot == /\ Pilot \in Principal /\ PilotToken \in Token
                    /\ PilotTenant \in Tenant /\ PilotEstate \in Estate
ASSUME AuthBlank == Blank \notin Tenant \cup Estate
ASSUME AuthNames == NoToken \notin Token /\ DemoUser \notin Principal
ASSUME AuthModes == /\ DemoBypass \in BOOLEAN
                    /\ AuthFaults \subseteq {"revoke", "disable", "ungrant"}

VARIABLES
  accounts,  \* pilot_principals: role and enabled of each row
  tokens,    \* pilot_access_tokens: whose it is, and whether it is in force
  access     \* estate_access

authVars == <<accounts, tokens, access>>

PilotPrincipal == [role : {"pilot", "curator", "admin"}, enabled : BOOLEAN]
PilotAccessToken == [principal : Principal, live : BOOLEAN]
EstateAccess == [principal : Principal, tenant : Tenant, estate : Estate,
                 role : {"viewer", "curator", "admin"}]

AuthTables(rows, live, grants) ==
  /\ DOMAIN rows \subseteq Principal
  /\ \A p \in DOMAIN rows : rows[p] \in PilotPrincipal
  /\ DOMAIN live \subseteq Token
  /\ \A t \in DOMAIN live : live[t] \in PilotAccessToken
  /\ grants \subseteq EstateAccess
AuthTypeOK == AuthTables(accounts, tokens, access)

Put(f, x, v) == [y \in DOMAIN f \cup {x} |-> IF y = x THEN v ELSE f[y]]

----------------------------------------------------------------------------
(* seed_pilot_fixture(): inserts what is absent; a row that is there stays *)
(* as it is, also when it is disabled or revoked.                          *)
SeedPilotFixture ==
  /\ accounts' = IF Pilot \in DOMAIN accounts THEN accounts
                 ELSE Put(accounts, Pilot, [role |-> "admin", enabled |-> TRUE])
  /\ access' = access \cup
       (IF \E a \in access : /\ a.principal = Pilot /\ a.tenant = PilotTenant
                             /\ a.estate = PilotEstate
        THEN {} ELSE {[principal |-> Pilot, tenant |-> PilotTenant,
                       estate |-> PilotEstate, role |-> "admin"]})
  /\ tokens' = IF PilotToken \in DOMAIN tokens THEN tokens
               ELSE Put(tokens, PilotToken, [principal |-> Pilot, live |-> TRUE])

(* Done to the tables by an operator; the runtime has no route for it.     *)
(* Expiry of a token has the effect of Revoke.                             *)
Revoke(t) ==
  /\ "revoke" \in AuthFaults
  /\ t \in DOMAIN tokens /\ tokens[t].live
  /\ tokens' = [tokens EXCEPT ![t].live = FALSE]
  /\ UNCHANGED <<accounts, access>>
Disable(p) ==
  /\ "disable" \in AuthFaults
  /\ p \in DOMAIN accounts /\ accounts[p].enabled
  /\ accounts' = [accounts EXCEPT ![p].enabled = FALSE]
  /\ UNCHANGED <<tokens, access>>
Ungrant(a) ==
  /\ "ungrant" \in AuthFaults
  /\ access' = access \ {a}
  /\ UNCHANGED <<accounts, tokens>>

----------------------------------------------------------------------------
(* resolve_principal().  The first refusal that applies is the answer.     *)

Authenticated ==
  [id : Principal \cup {DemoUser}, role : {"pilot", "curator", "admin"},
   tenant : Tenant, estate : Estate, estateRole : {"viewer", "curator", "admin"}]

LookupToken(raw) == {t \in DOMAIN tokens \cap {raw} : tokens[t].live}
LookupPrincipal(p) == DOMAIN accounts \cap {p}
LookupEstateAccess(p, tenant, estate) ==
  {a \in access : a.principal = p /\ a.tenant = tenant /\ a.estate = estate}

DemoPrincipal(tenant, estate) ==
  [id |-> DemoUser, role |-> "admin", estateRole |-> "admin",
   tenant |-> IF tenant = Blank THEN PilotTenant ELSE tenant,
   estate |-> IF estate = Blank THEN PilotEstate ELSE estate]

Denied(raw, tenant, estate) ==
  IF raw = NoToken THEN IF DemoBypass THEN "no" ELSE "authentication_required"
  ELSE IF LookupToken(raw) = {} THEN "invalid_token"
  ELSE IF ~ \E p \in LookupPrincipal(tokens[raw].principal) : accounts[p].enabled
       THEN "principal_disabled"
  ELSE IF Blank \in {tenant, estate} THEN "estate_scope_required"
  ELSE IF LookupEstateAccess(tokens[raw].principal, tenant, estate) = {}
       THEN "estate_access_denied"
  ELSE "no"

BearerPrincipal(raw, tenant, estate) ==
  LET p == tokens[raw].principal
      a == CHOOSE a \in access :
             a \in LookupEstateAccess(p, tenant, estate)
  IN  [id |-> p, role |-> accounts[p].role, tenant |-> tenant,
       estate |-> estate, estateRole |-> a.role]

ResolvePrincipal(raw, tenant, estate) ==
  IF raw = NoToken THEN DemoPrincipal(tenant, estate)
                   ELSE BearerPrincipal(raw, tenant, estate)

(* authorize_estate() and require_admin_principal().                       *)
AuthorizeEstate(who, tenant, estate, requireCurator) ==
  /\ Blank \notin {tenant, estate}
  /\ who.tenant = tenant /\ who.estate = estate
  /\ requireCurator => \/ who.estateRole \in {"curator", "admin"}
                       \/ who.role = "admin"
RequireAdmin(who) == "admin" \in {who.role, who.estateRole}
=============================================================================
