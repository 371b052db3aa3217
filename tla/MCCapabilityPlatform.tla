------------------------ MODULE MCCapabilityPlatform ------------------------
(* Two capabilities: a listing, whose team block lasts, and a search.      *)
EXTENDS CapabilityPlatform, TLC

CONSTANTS t1, t2, p1, p2, p3, listing, search

MCThread == {t1, t2}
MCPost == {p1, p2, p3}
MCCapability == {listing, search}
MCCapabilityOf == p1 :> listing @@ p2 :> listing @@ p3 :> search
MCBlocksOf == listing :> <<"team", "audit">> @@ search :> <<"memory">>
MCLasting == {"team"}

VARIABLE commitFailed  \* whether a commit ever raised

mcVars == <<platformVars, commitFailed>>

MCInit == PlatformInit /\ commitFailed = FALSE
MCNext ==
  /\ PlatformNext
  /\ commitFailed' = (commitFailed \/ \E t \in Thread :
                        at[t] = "commit" /\ answer'[job[t]] = "refused")
MCSpec ==
  MCInit /\ [][MCNext]_mcVars /\ \A t \in Thread : WF_platformVars(Progress(t))

(* As long as no commit raises, a request that was answered ok False has   *)
(* left no row and leaves none later, whatever else goes wrong.            *)
RefusedNeverStoredIfCommitted == commitFailed \/ RefusedNeverStored
=============================================================================
