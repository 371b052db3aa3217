--------------------------- MODULE StewardSchema ---------------------------
(***************************************************************************)
(* The steward runtime's Postgres schema: run_migrations(), called by the  *)
(* admin route and by every pack loader, on a database that may be empty   *)
(* or of an earlier release, and the readiness probe that looks at it.     *)
(* One upgrade is one transaction; several may run side by side.           *)
(***************************************************************************)
EXTENDS Naturals, FiniteSets

CONSTANTS
  Runner,       \* calls of run_migrations()
  Profile,      \* configurations the server may be started with
  Releases      \* databases an earlier release may have left

Latest == 3
Parts == {"knowledge", "auth", "audit"}
ProfileType == [bypass : BOOLEAN, legacy : BOOLEAN, admin : BOOLEAN,
                backend : {"hash", "fastembed"}, production : BOOLEAN]
Schema == [revision : 0 .. Latest, parts : SUBSET Parts, money : {"absent", "float", "numeric"}]

(* A recorded revision is what the tables are: all of it at the head, with *)
(* decimal money; below it at least what that release had.                 *)
IsItsRevision(s) ==
  /\ s.revision >= 1 => "knowledge" \in s.parts
  /\ s.revision >= 2 => "auth" \in s.parts
  /\ s.revision = Latest => s.parts = Parts /\ s.money = "numeric"

ASSUME SchemaProfiles == Profile \subseteq ProfileType
ASSUME SchemaReleases == Releases \subseteq {s \in Schema : IsItsRevision(s)}

VARIABLES
  schema,     \* the committed schema
  upgrade,    \* each runner: its schema and the version it started from
  profile,    \* the server's environment
  wasReady    \* the probe has answered ready under this profile

schemaVars == <<schema, upgrade, profile, wasReady>>

NotRun == [pc |-> "new"]
Running(r) == upgrade[r].pc = "running"

SchemaInit ==
  /\ schema \in Releases
  /\ upgrade = [r \in Runner |-> NotRun]
  /\ profile \in Profile
  /\ wasReady = FALSE

(* upgrade head reads the version and begins its transaction.              *)
RunMigrations(r) ==
  /\ upgrade[r].pc = "new"
  /\ upgrade' = [upgrade EXCEPT ![r] =
       IF schema.revision = Latest THEN [pc |-> "done"]
       ELSE [pc |-> "running", at |-> schema.revision, from |-> schema.revision,
             made |-> {}, money |-> "same"]]
  /\ UNCHANGED <<schema, profile, wasReady>>

(* The parts a revision creates where they are missing: 0001 creates all   *)
(* that the models declare, those of the later revisions among them.       *)
Creates(revision) == CASE revision = 1 -> Parts
                       [] revision = 2 -> {"auth"}
                       [] revision = 3 -> {"audit"}

(* A table another upgrade is creating is waited for; a statement that had *)
(* not seen it then fails, as any other may (AbortUpgrade).                *)
Revise(r) ==
  /\ Running(r) /\ upgrade[r].at < Latest
  /\ LET next == upgrade[r].at + 1
         missing == Creates(next) \ (schema.parts \cup upgrade[r].made)
     IN /\ \A q \in Runner \ {r} : Running(q) => missing \cap upgrade[q].made = {}
        /\ upgrade' = [upgrade EXCEPT ![r].at = next, ![r].made = @ \cup missing,
                 ![r].money = IF "knowledge" \in missing \/ next = 3
                              THEN "numeric" ELSE @]
  /\ UNCHANGED <<schema, profile, wasReady>>

(* Faulty: the version row is written whatever it holds.                   *)
CommitUnchecked(r) ==
  /\ Running(r) /\ upgrade[r].at > upgrade[r].from
  /\ schema' = [schema EXCEPT !.revision = upgrade[r].at, !.parts = @ \cup upgrade[r].made]
  /\ upgrade' = [upgrade EXCEPT ![r].from = upgrade[r].at, ![r].made = {},
                                ![r].pc = IF upgrade[r].at = Latest THEN "done" ELSE "running"]
  /\ UNCHANGED <<profile, wasReady>>

(* The version row must still be the one that was read.                    *)
CommitUpgrade(r) ==
  /\ Running(r) /\ upgrade[r].at = Latest
  /\ IF schema.revision # upgrade[r].from
     THEN /\ upgrade' = [upgrade EXCEPT ![r] = [pc |-> "failed"]]
          /\ UNCHANGED schema
     ELSE /\ schema' = [revision |-> Latest, parts |-> schema.parts \cup upgrade[r].made,
                        money |-> IF upgrade[r].money = "same" THEN schema.money
                                  ELSE upgrade[r].money]
          /\ upgrade' = [upgrade EXCEPT ![r] = [pc |-> "done"]]
  /\ UNCHANGED <<profile, wasReady>>
AbortUpgrade(r) ==
  /\ Running(r)
  /\ upgrade' = [upgrade EXCEPT ![r] = [pc |-> "failed"]]
  /\ UNCHANGED <<schema, profile, wasReady>>
RunAgain(r) ==
  /\ upgrade[r].pc = "failed"
  /\ upgrade' = [upgrade EXCEPT ![r] = NotRun]
  /\ UNCHANGED <<schema, profile, wasReady>>

(* readiness_checks() of a server with this profile, when the database can *)
(* be reached and the model can be loaded.                                 *)
ReadinessChecks(p, reachable, model) ==
  /\ ~p.bypass /\ ~p.legacy /\ ~p.admin
  /\ reachable /\ schema.revision = Latest
  /\ p.backend = "hash" => ~p.production
  /\ p.backend = "fastembed" => model

Probe ==
  /\ \E reachable, model \in BOOLEAN :
       wasReady' = (wasReady \/ ReadinessChecks(profile, reachable, model))
  /\ UNCHANGED <<schema, upgrade, profile>>
Reconfigure ==
  /\ profile' \in Profile
  /\ wasReady' = FALSE
  /\ UNCHANGED <<schema, upgrade>>

SchemaNext ==
  \/ \E r \in Runner : RunMigrations(r) \/ Revise(r) \/ AbortUpgrade(r)
                         \/ CommitUpgrade(r) \/ RunAgain(r)
  \/ Probe \/ Reconfigure
SchemaSpec == SchemaInit /\ [][SchemaNext]_schemaVars
----------------------------------------------------------------------------
(* Once the probe has said ready, every table a request uses is there and  *)
(* stays, no caller gets in without a token, and no route upgrades.        *)
ReadyStaysReady ==
  wasReady => /\ schema.parts = Parts /\ schema.money = "numeric"
              /\ ~profile.bypass /\ ~profile.admin

(* Side by side upgrades, from any release, leave the schema they record,  *)
(* and a server that was said to be ready is ready.                        *)
SchemaInv == schema \in Schema /\ IsItsRevision(schema) /\ ReadyStaysReady
=============================================================================
