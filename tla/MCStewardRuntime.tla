-------------------------- MODULE MCStewardRuntime --------------------------
(* A viewer of tenant ta and a curator of tenant tb, whose estates have    *)
(* one id; an empty database, or one with both estates' documents and the  *)
(* service core.  At most MaxCalls of the sessions are given a call, and   *)
(* at most MaxDisturbed times something comes between.                     *)
EXTENDS StewardRuntime

CONSTANTS a1, a2, c1, c2, viewer, editor, pilot, tv, tc, tp, ta, tb, e1, e2,
          common, prebuilt, d1, d2, old, da, dt, dn, MaxCalls, MaxDisturbed

TwoDocs == <<d1, d2>>
TwoLines == << <<ta, e1>>, <<tb, e2>> >>

Accounts == viewer :> [role |-> "pilot", enabled |-> TRUE]
         @@ editor :> [role |-> "pilot", enabled |-> TRUE]
Tokens == tv :> [principal |-> viewer, live |-> TRUE]
       @@ tc :> [principal |-> editor, live |-> TRUE]
Access == {[principal |-> viewer, tenant |-> ta, estate |-> e1, role |-> "viewer"],
           [principal |-> editor, tenant |-> tb, estate |-> e1, role |-> "curator"]}
TwoPilots == [accounts |-> Accounts, tokens |-> Tokens, access |-> Access]

Doc(id, t, cite) == DocumentRow(id, t, e1, 2, NoPack, NoSource, cite, "hash", 1)
CoreDoc(d) == DocumentRow(d, PlatformTenant, PlatformProject, 1, CorePack, old, TRUE, "hash", 1)
SharedEstate ==
  {TenantRow(ta), TenantRow(tb), TenantRow(PlatformTenant), ProjectRow(ta, e1, 2),
   ProjectRow(PlatformTenant, PlatformProject, 1),
   [SourceRow(CorePack, old) EXCEPT !.documents = 2, !.chunks = 2, !.records = 2],
   CoreDoc(d1), CoreDoc(d2), Doc(da, ta, TRUE), Doc(dt, tb, TRUE), Doc(dn, ta, FALSE)}
TwoCorpora == {{}, SharedEstate}
EmptyCorpus == {{}}

As(header, t, op) == [op |-> op, header |-> header, tenant |-> t, estate |-> e1]
Query(header, t, layer, refused, k) ==
  [layer |-> layer, refused |-> refused, k |-> k] @@ As(header, t, "query")
Upload(header, t, layer, ext, pieces, authority, cite) ==
  [layer |-> layer, body |-> [ext |-> ext, pieces |-> pieces],
   authority |-> authority, cite |-> cite, pack |-> NoPack] @@ As(header, t, "ingest")
Calls ==
  {Query(tv, ta, 0, FALSE, 2), Query(tc, tb, 2, FALSE, 2), Query(tc, tb, 1, FALSE, 1),
   Query(tv, ta, 0, TRUE, 2), Query(tc, ta, 2, FALSE, 2), Query(NoToken, ta, 2, FALSE, 2),
   Upload(tc, tb, 1, "txt", 2, "advisory", TRUE), Upload(tv, ta, 1, "txt", 1, "advisory", TRUE),
   Upload(tc, tb, 2, "csv", 1, "estate_owned", TRUE), Upload(tv, ta, 2, "pdf", 1, "estate_owned", TRUE),
   [Upload(tv, ta, 2, "markdown", 1, "estate_owned", TRUE) EXCEPT !.pack = CorePack],
   Upload(tv, ta, 2, "txt", 0, "synthetic", FALSE), Upload(tv, ta, 2, "txt", 1, "synthetic", TRUE),
   As(tv, Blank, "classify"), As(tp, ta, "reset"), As(tv, ta, "reset"), As(tc, tb, "status"), As(tv, ta, "classify"), As(tv, ta, "inventory"),
   [table |-> "facility_assets"] @@ As(tv, ta, "list"),
   [table |-> "fleet_vehicles"] @@ As(tv, ta, "list")}
Loads == [pack : {CorePack, IntentPack, AssetPack, VehiclePack}, force : BOOLEAN, full : {FALSE}]
         \cup {[pack |-> CorePack, force |-> FALSE, full |-> TRUE]}

VARIABLE disturbed   \* how many disturbances there were

MCInit == RuntimeInit /\ disturbed = 0
MCNext ==
  \/ /\ Work
     /\ Cardinality({s \in Session : tx'[s].pc # "idle"}) <= MaxCalls
     /\ UNCHANGED disturbed
  \/ /\ disturbed < MaxDisturbed /\ Disturbance
     /\ disturbed' = disturbed + 1
MCSpec == MCInit /\ [][MCNext]_<<runtimeVars, disturbed>>
Symmetry == Permutations(ApiSession) \cup Permutations(CliSession)
=============================================================================
