--------------------------- MODULE TeamStoreProofs ---------------------------
(***************************************************************************)
(* The shared state file: however many instances overlap, crash and        *)
(* overwrite each other, what is loaded from the file is a consistent      *)
(* registry.  Updates can be lost; they cannot be half there.              *)
(***************************************************************************)
EXTENDS MCTeamStore, MCPropertyListing, TeamOpsProofs

(* The inductive invariant: every registry anywhere in the system is       *)
(* sound.  A worker's copy is the result of one accepted request on a      *)
(* registry that was loaded, and a file holds a copy or nothing readable.  *)
StoreInv ==
  /\ StoreTypeOK
  /\ Sound(Load(target))
  /\ Sound(Load(tmp))
  /\ \A w \in Worker : Sound(mem[w])

LEMMA LoadIsRegistry ==
  ASSUME NEW file \in Content
  PROVE  Load(file) \in Registry
BY EmptySound DEF Load, Content, Sound

LEMMA StoreInvInit == StoreInit => StoreInv
<1> SUFFICES ASSUME StoreInit PROVE StoreInv
  OBVIOUS
<1>1. Load(Absent) = EmptyRegistry /\ EmptyRegistry \in Registry
  BY EmptySound DEF Load, Sound
<1>2. QED BY <1>1, EmptySound DEF StoreInv, StoreInit, StoreTypeOK, Content

(* What a worker writes over what is in the file is its copy or unreadable.*)
LEMMA OverlaySound ==
  ASSUME NEW old \in Content, NEW text \in Registry, Sound(text),
         NEW new \in Overlay(old, text)
  PROVE  new \in Content /\ Sound(Load(new))
<1>1. CASE new = Torn
  BY <1>1, EmptySound DEF Load, Content
<1>2. CASE new = text
  BY <1>2, EmptySound DEF Load, Content
<1>3. QED BY <1>1, <1>2 DEF Overlay

LEMMA StoreInvStep == StoreInv /\ [StoreNext]_storeVars => StoreInv'
<1> SUFFICES ASSUME StoreInv, [StoreNext]_storeVars PROVE StoreInv'
  OBVIOUS
<1> USE DEF StoreInv
<1>1. ASSUME NEW w \in Worker, NEW q \in Request, ServeCopy(w, q)
      PROVE  StoreInv'
  <2>1. Load(target) \in Registry
    BY LoadIsRegistry DEF StoreTypeOK
  <2>2. Sound(Result(Load(target), q))
    BY <1>1, <2>1, ResultSound DEF ServeCopy
  <2>3. mem' \in [Worker -> Registry] /\ \A x \in Worker : Sound(mem'[x])
    BY <1>1, <2>2 DEF ServeCopy, StoreTypeOK, Sound
  <2>4. q.op = "delete_team" => q.team \in TeamId
    BY DEF Request
  <2>5. kept' \subseteq TeamId /\ drawn' \subseteq TeamId \cup Token
    BY <1>1, DrawsAreIds DEF ServeCopy, StoreTypeOK
  <2>6. StoreTypeOK'
    BY <1>1, <2>3, <2>5 DEF ServeCopy, StoreTypeOK
  <2>7. QED BY <1>1, <2>3, <2>6 DEF ServeCopy
<1>2. ASSUME NEW w \in Worker, OpenTmp(w) PROVE StoreInv'
  BY <1>2, EmptySound DEF OpenTmp, StoreTypeOK, Content, Load
<1>3. ASSUME NEW w \in Worker, WriteText(w) PROVE StoreInv'
  <2>1. mem[w] \in Registry /\ Sound(mem[w])
    BY DEF StoreTypeOK
  <2>2. tmp' \in Content /\ Sound(Load(tmp'))
    <3>1. CASE fd[w] = "tmp"
      BY <1>3, <2>1, <3>1, OverlaySound DEF WriteText, StoreTypeOK
    <3>2. CASE fd[w] # "tmp"
      BY <1>3, <3>2 DEF WriteText, StoreTypeOK
    <3>3. QED BY <3>1, <3>2
  <2>3. target' \in Content /\ Sound(Load(target'))
    <3>1. CASE fd[w] = "target"
      BY <1>3, <2>1, <3>1, OverlaySound DEF WriteText, StoreTypeOK
    <3>2. CASE fd[w] # "target"
      BY <1>3, <3>2 DEF WriteText, StoreTypeOK
    <3>3. QED BY <3>1, <3>2
  <2>4. StoreTypeOK'
    BY <1>3, <2>2, <2>3 DEF WriteText, StoreTypeOK
  <2>5. QED BY <1>3, <2>2, <2>3, <2>4 DEF WriteText
<1>4. ASSUME NEW w \in Worker, Replace(w) PROVE StoreInv'
  <2>1. Absent \in Content /\ Sound(Load(Absent))
    BY EmptySound DEF Content, Load
  <2>2. \A f \in {"none", "tmp", "target", "gone"} :
          Renamed(f) \in {"none", "tmp", "target", "gone"}
    BY DEF Renamed
  <2>3. fd' \in [Worker -> {"none", "tmp", "target", "gone"}]
    BY <1>4, <2>2 DEF Replace, StoreTypeOK
  <2>4. StoreTypeOK'
    BY <1>4, <2>1, <2>3 DEF Replace, StoreTypeOK
  <2>5. QED BY <1>4, <2>1, <2>4 DEF Replace
<1>5. ASSUME NEW w \in Worker, DiskError(w) PROVE StoreInv'
  BY <1>5 DEF DiskError, StoreTypeOK
<1>6. ASSUME NEW w \in Worker, Answer(w) PROVE StoreInv'
  <2>1. mem' \in [Worker -> Registry] /\ \A x \in Worker : Sound(mem'[x])
    BY <1>6, EmptySound DEF Answer, StoreTypeOK, Sound
  <2>2. req[w] \in Request
    BY <1>6 DEF Answer, StoreTypeOK
  <2>3. kept' \subseteq TeamId
    <3>1. CASE req[w].op = "create_team"
      <4>1. req[w].team \in TeamId
        BY <2>2, <3>1 DEF Request
      <4>2. QED BY <1>6, <4>1 DEF Answer, StoreTypeOK
    <3>2. CASE req[w].op # "create_team"
      BY <1>6, <3>2 DEF Answer, StoreTypeOK
    <3>3. QED BY <3>1, <3>2
  <2>4. StoreTypeOK'
    BY <1>6, <2>1, <2>3 DEF Answer, StoreTypeOK
  <2>5. QED BY <1>6, <2>1, <2>4 DEF Answer
<1>7. CASE Crash
  <2>1. mem' \in [Worker -> Registry] /\ \A x \in Worker : Sound(mem'[x])
    BY <1>7, EmptySound DEF Crash, Sound
  <2>2. StoreTypeOK'
    BY <1>7, <2>1 DEF Crash, StoreTypeOK
  <2>3. QED BY <1>7, <2>1, <2>2 DEF Crash
<1>8. ASSUME NEW k \in Token, Expire(k) PROVE StoreInv'
  BY <1>8 DEF Expire, StoreTypeOK
<1>9. CASE UNCHANGED storeVars
  BY <1>9 DEF storeVars, StoreTypeOK
<1>10. QED
  BY <1>1, <1>2, <1>3, <1>4, <1>5, <1>6, <1>7, <1>8, <1>9 DEF StoreNext

LEMMA StoreInvariant == StoreSpec => []StoreInv
BY StoreInvInit, StoreInvStep, PTL DEF StoreSpec

(* The state of the store always has its declared type.                    *)
THEOREM StoreTypeCorrect == StoreSpec => []StoreTypeOK
BY StoreInvariant, PTL DEF StoreInv

(* Any number of overlapping instances, any crashes, any disk errors: what *)
(* the next instance loads has unique slugs and exact quotas, and so has   *)
(* every copy being changed or written.                                    *)
THEOREM StoreCopiesConsistent == StoreSpec => []CopiesConsistent
<1>1. StoreInv => CopiesConsistent
  BY DEF StoreInv, Sound, CopiesConsistent
<1>2. QED BY <1>1, StoreInvariant, PTL
----------------------------------------------------------------------------
(* One instance at a time.  The file is whole; the only worker that is not *)
(* idle has the result of its request on what the file holds, and the text *)
(* under the temporary name once it has written it.                        *)
BeforeSwap == {"served", "writing", "written"}
OneServes == \A w, x \in Worker : pc[w] # "idle" /\ pc[x] # "idle" => w = x
Prepared(w) ==
  /\ pc[w] = "writing" => fd[w] = "tmp" /\ tmp = Blank
  /\ pc[w] # "writing" => fd[w] = "none"
  /\ pc[w] = "written" => tmp = mem[w]
  /\ pc[w] \in BeforeSwap => Accepts(Load(target), req[w], {}) /\ mem[w] = Result(Load(target), req[w])
  /\ pc[w] # "idle" => Draws(req[w]) \subseteq drawn
AloneInv ==
  /\ OneServes
  /\ target \in Registry \cup {Absent}
  /\ lapsed \subseteq drawn
  /\ \A w \in Worker : Prepared(w)

(* Whether an invitation has lapsed only keeps a request from being taken. *)
LEMMA AcceptsUnlapsed ==
  ASSUME NEW r, NEW q, NEW few, NEW many, few \subseteq many, Accepts(r, q, many)
  PROVE  Accepts(r, q, few)
BY DEF Accepts, MayAccept

LEMMA AloneInit == StoreInit => AloneInv
BY DEF StoreInit, AloneInv, OneServes, Prepared, BeforeSwap

LEMMA AloneStep ==
  ASSUME StoreInv, AloneInv, [StoreNext]_storeVars, OneServes'
  PROVE  AloneInv'
<1>1. /\ StoreTypeOK /\ OneServes /\ target \in Registry \cup {Absent} /\ lapsed \subseteq drawn
      /\ \A w \in Worker : Prepared(w)
  BY DEF StoreInv, AloneInv
<1>2. ASSUME NEW w \in Worker, NEW q \in Request, ServeCopy(w, q) PROVE AloneInv'
  <2>1. /\ pc[w] = "idle" /\ pc' = [pc EXCEPT ![w] = "served"] /\ req' = [req EXCEPT ![w] = q]
        /\ mem' = [mem EXCEPT ![w] = Result(Load(target), q)]
        /\ drawn' = drawn \cup Draws(q) /\ UNCHANGED <<target, tmp, fd, lapsed>>
    BY <1>2 DEF ServeCopy
  <2>2. Accepts(Load(target), q, {})
    BY <1>2, AcceptsUnlapsed DEF ServeCopy
  <2>3. ASSUME NEW x \in Worker PROVE Prepared(x)'
    <3>1. CASE x = w
      <4>1. pc'[w] = "served" /\ req'[w] = q /\ mem'[w] = Result(Load(target), q) /\ fd'[w] = "none"
        BY <1>1, <2>1 DEF StoreTypeOK, Prepared
      <4>2. Load(target)' = Load(target)
        BY <2>1 DEF Load
      <4> QED BY <2>1, <2>2, <3>1, <4>1, <4>2 DEF Prepared, BeforeSwap
    <3>2. CASE x # w
      <4>1. pc'[x] = pc[x] /\ pc'[w] = "served"
        BY <1>1, <2>1, <3>2 DEF StoreTypeOK
      <4>2. pc[x] = "idle"
        BY <3>2, <4>1 DEF OneServes
      <4> QED BY <1>1, <2>1, <4>1, <4>2 DEF Prepared, BeforeSwap
    <3> QED BY <3>1, <3>2
  <2> QED BY <1>1, <2>1, <2>3 DEF AloneInv
(* Every other step of a worker: the others are idle and stay so.          *)
<1>3. ASSUME NEW w \in Worker, pc[w] # "idle", UNCHANGED <<req, drawn, lapsed>>,
             \A x \in Worker : x # w => pc'[x] = pc[x] /\ fd'[x] \in {fd[x], Renamed(fd[x])},
             target' \in Registry \cup {Absent}, Prepared(w)'
      PROVE  AloneInv'
  <2>1. ASSUME NEW x \in Worker, x # w PROVE Prepared(x)'
    <3>1. pc[x] = "idle" /\ fd[x] = "none"
      BY <1>1, <1>3, <2>1 DEF OneServes, Prepared
    <3>2. pc'[x] = "idle" /\ fd'[x] = "none"
      BY <1>3, <2>1, <3>1 DEF Renamed
    <3> QED BY <3>2 DEF Prepared, BeforeSwap
  <2> QED BY <1>3, <2>1 DEF AloneInv
<1>4. ASSUME NEW w \in Worker, OpenTmp(w) PROVE AloneInv'
  <2>1. /\ pc[w] = "served" /\ pc' = [pc EXCEPT ![w] = "writing"] /\ fd' = [fd EXCEPT ![w] = "tmp"]
        /\ tmp' = Blank /\ UNCHANGED <<target, req, mem, drawn, lapsed>>
    BY <1>4 DEF OpenTmp
  <2>2. /\ pc'[w] = "writing" /\ fd'[w] = "tmp"
        /\ \A x \in Worker : x # w => pc'[x] = pc[x] /\ fd'[x] = fd[x]
    BY <1>1, <2>1 DEF StoreTypeOK
  <2>3. Prepared(w)'
    BY <1>1, <2>1, <2>2 DEF Prepared, BeforeSwap, Load
  <2> QED BY <1>1, <1>3, <2>1, <2>2, <2>3
<1>5. ASSUME NEW w \in Worker, WriteText(w) PROVE AloneInv'
  <2>1. /\ pc[w] = "writing" /\ fd[w] = "tmp" /\ tmp = Blank
    BY <1>1, <1>5 DEF WriteText, Prepared
  <2>2. /\ pc' = [pc EXCEPT ![w] = "written"] /\ fd' = [fd EXCEPT ![w] = "none"]
        /\ tmp' = mem[w] /\ UNCHANGED <<target, req, mem, drawn, lapsed>>
    BY <1>5, <2>1 DEF WriteText, Overlay
  <2>3. /\ pc'[w] = "written" /\ fd'[w] = "none"
        /\ \A x \in Worker : x # w => pc'[x] = pc[x] /\ fd'[x] = fd[x]
    BY <1>1, <2>2 DEF StoreTypeOK
  <2>4. Prepared(w)'
    BY <1>1, <2>1, <2>2, <2>3 DEF Prepared, BeforeSwap, Load
  <2> QED BY <1>1, <1>3, <2>1, <2>2, <2>3, <2>4
<1>6. ASSUME NEW w \in Worker, Replace(w) PROVE AloneInv'
  <2>1. pc[w] = "written" /\ tmp = mem[w] /\ fd[w] = "none" /\ tmp \in Registry
    BY <1>1, <1>6 DEF Replace, Prepared, StoreTypeOK
  <2>2. /\ pc' = [pc EXCEPT ![w] = "saved"] /\ fd' = [x \in Worker |-> Renamed(fd[x])]
        /\ target' = tmp /\ UNCHANGED <<req, mem, drawn, lapsed>>
    BY <1>6, <2>1, StoreFiles DEF Replace
  <2>3. /\ pc'[w] = "saved" /\ fd'[w] = "none"
        /\ \A x \in Worker : x # w => pc'[x] = pc[x] /\ fd'[x] = Renamed(fd[x])
    BY <1>1, <2>1, <2>2 DEF StoreTypeOK, Renamed
  <2>4. Prepared(w)'
    BY <1>1, <2>1, <2>2, <2>3 DEF Prepared, BeforeSwap
  <2> QED BY <1>3, <2>1, <2>2, <2>3, <2>4
<1>7. ASSUME NEW w \in Worker, DiskError(w) PROVE AloneInv'
  <2>1. /\ pc[w] = "writing" /\ pc' = [pc EXCEPT ![w] = "saved"] /\ fd' = [fd EXCEPT ![w] = "none"]
        /\ UNCHANGED <<target, req, mem, drawn, lapsed>>
    BY <1>7 DEF DiskError
  <2>2. /\ pc'[w] = "saved" /\ fd'[w] = "none"
        /\ \A x \in Worker : x # w => pc'[x] = pc[x] /\ fd'[x] = fd[x]
    BY <1>1, <2>1 DEF StoreTypeOK
  <2>3. Prepared(w)'
    BY <1>1, <2>1, <2>2 DEF Prepared, BeforeSwap
  <2> QED BY <1>1, <1>3, <2>1, <2>2, <2>3
<1>8. ASSUME NEW w \in Worker, Answer(w) PROVE AloneInv'
  <2>1. /\ pc[w] = "saved" /\ pc' = [pc EXCEPT ![w] = "idle"]
        /\ UNCHANGED <<target, fd, drawn, lapsed>>
    BY <1>8 DEF Answer
  <2>2. \A x \in Worker : pc'[x] = "idle" /\ fd'[x] = "none"
    BY <1>1, <2>1 DEF StoreTypeOK, OneServes, Prepared
  <2>3. \A x \in Worker : Prepared(x)'
    BY <2>2 DEF Prepared, BeforeSwap
  <2> QED BY <1>1, <2>1, <2>3 DEF AloneInv
<1>9. CASE Crash
  <2>1. \A x \in Worker : pc'[x] = "idle" /\ fd'[x] = "none"
    BY <1>9 DEF Crash
  <2>2. \A x \in Worker : Prepared(x)'
    BY <2>1 DEF Prepared, BeforeSwap
  <2> QED BY <1>1, <1>9, <2>2 DEF AloneInv, Crash
<1>10. ASSUME UNCHANGED <<target, tmp, pc, req, mem, fd, drawn>>, lapsed' \subseteq drawn' PROVE AloneInv'
  <2>1. \A x \in Worker : Prepared(x)'
    BY <1>1, <1>10 DEF Prepared, Load
  <2> QED BY <1>1, <1>10, <2>1 DEF AloneInv
<1>11. (\E k \in Token : Expire(k)) \/ UNCHANGED storeVars =>
          UNCHANGED <<target, tmp, pc, req, mem, fd, drawn>> /\ lapsed' \subseteq drawn'
  BY <1>1 DEF Expire, storeVars
<1> QED BY <1>2, <1>4, <1>5, <1>6, <1>7, <1>8, <1>9, <1>10, <1>11 DEF StoreNext
(* A kept team is in the file; a request that is to delete it has taken it *)
(* out of kept, and one that created it has swapped it in before it        *)
(* answers.                                                                *)
KeptInv ==
  /\ AnsweredTeamsSurvive
  /\ \A w \in Worker :
       /\ pc[w] \in BeforeSwap /\ req[w].op = "delete_team" => req[w].team \notin kept
       /\ pc[w] = "saved" /\ req[w].op = "create_team" => Exists(Load(target), req[w].team)

LEMMA CreatedExists ==
  ASSUME NEW r \in Registry, NEW q \in Request, q.op = "create_team"
  PROVE  q.team \in TeamId /\ Exists(Result(r, q), q.team)
<1>1. q.team \in TeamId /\ [owner |-> q.user, slug |-> q.slug, used |-> 1] \in Team
  BY DEF Request, Team
<1>2. Result(r, q).teams[q.team] = [owner |-> q.user, slug |-> q.slug, used |-> 1]
  BY <1>1 DEF Result, Create, Registry
<1> QED BY <1>1, <1>2, TeamSentinels DEF Exists

LEMMA KeptStep ==
  ASSUME StoreInv, AloneInv, KeptInv, [StoreNext]_storeVars, OneServes', ~DiskFails
  PROVE  KeptInv'
<1>1. /\ StoreTypeOK /\ OneServes /\ \A w \in Worker : Prepared(w)
      /\ \A t \in kept : Exists(Load(target), t)
      /\ Sound(Load(target)) /\ Load(target) \in Registry
  BY LoadIsRegistry DEF StoreInv, AloneInv, KeptInv, AnsweredTeamsSurvive, StoreTypeOK
<1>2. ASSUME NEW w \in Worker, NEW q \in Request, ServeCopy(w, q) PROVE KeptInv'
  <2>1. /\ pc' = [pc EXCEPT ![w] = "served"] /\ req' = [req EXCEPT ![w] = q]
        /\ target' = target /\ kept' \subseteq kept
        /\ q.op = "delete_team" => q.team \notin kept'
    BY <1>2 DEF ServeCopy
  <2>2. /\ pc'[w] = "served" /\ req'[w] = q
        /\ \A x \in Worker : x # w => pc'[x] = pc[x] /\ req'[x] = req[x]
    BY <1>1, <2>1 DEF StoreTypeOK
  <2>3. AnsweredTeamsSurvive'
    BY <1>1, <2>1 DEF AnsweredTeamsSurvive, Load
  <2>4. ASSUME NEW x \in Worker
        PROVE  /\ pc'[x] \in BeforeSwap /\ req'[x].op = "delete_team" => req'[x].team \notin kept'
               /\ pc'[x] = "saved" /\ req'[x].op = "create_team" => Exists(Load(target)', req'[x].team)
    <3>1. CASE x = w
      BY <2>1, <2>2, <3>1 DEF BeforeSwap
    <3>2. CASE x # w
      BY <2>1, <2>2, <3>2 DEF KeptInv, Load
    <3> QED BY <3>1, <3>2
  <2> QED BY <2>3, <2>4 DEF KeptInv, Exists
<1>3. ASSUME NEW w \in Worker, OpenTmp(w) \/ WriteText(w) PROVE KeptInv'
  <2>1. /\ pc[w] \in BeforeSwap /\ pc'[w] \in BeforeSwap /\ UNCHANGED <<req, kept>>
        /\ \A x \in Worker : x # w => pc'[x] = pc[x]
    BY <1>1, <1>3 DEF OpenTmp, WriteText, StoreTypeOK, BeforeSwap
  <2>2. target' = target
    BY <1>1, <1>3 DEF OpenTmp, WriteText, Prepared
  <2>3. AnsweredTeamsSurvive'
    BY <1>1, <2>1, <2>2 DEF AnsweredTeamsSurvive, Load
  <2>4. pc'[w] # "saved"
    BY <2>1 DEF BeforeSwap
  <2>5. ASSUME NEW x \in Worker
        PROVE  /\ pc'[x] \in BeforeSwap /\ req[x].op = "delete_team" => req[x].team \notin kept
               /\ pc'[x] = "saved" /\ req[x].op = "create_team" => Exists(Load(target), req[x].team)
    BY <2>1, <2>4 DEF KeptInv
  <2>6. req' = req /\ kept' = kept /\ Load(target)' = Load(target)
    BY <2>1, <2>2 DEF Load
  <2> QED BY <2>3, <2>5, <2>6 DEF KeptInv, Exists
<1>4. ASSUME NEW w \in Worker, Replace(w) PROVE KeptInv'
  <2>1. PICK q \in Request : q = req[w]
    BY <1>1, <1>4 DEF Replace, StoreTypeOK
  <2>2. /\ pc[w] = "written" /\ tmp = mem[w] /\ mem[w] = Result(Load(target), q)
        /\ Accepts(Load(target), q, {}) /\ tmp \in Registry
    BY <1>1, <1>4, <2>1 DEF Replace, Prepared, StoreTypeOK, BeforeSwap
  <2>3. pc' = [pc EXCEPT ![w] = "saved"] /\ target' = tmp /\ UNCHANGED <<req, kept>>
    BY <1>4, <2>2, StoreFiles DEF Replace
  <2>4. PICK r \in Registry : r = Load(target)
    BY <1>1
  <2>5. Load(target)' = Result(r, q)
    BY <2>2, <2>3, <2>4, StoreFiles DEF Load
  <2>6. ASSUME NEW t \in kept PROVE Exists(Result(r, q), t)
    <3>1. t \in TeamId /\ Exists(r, t) /\ Sound(r) /\ Accepts(r, q, {})
      BY <1>1, <2>2, <2>4 DEF StoreTypeOK
    <3>2. ~(q.op = "delete_team" /\ q.team = t)
      BY <2>1, <2>2 DEF KeptInv, BeforeSwap
    <3> QED BY <3>1, <3>2, TeamsEndStep
  <2>7. AnsweredTeamsSurvive'
    BY <2>3, <2>5, <2>6 DEF AnsweredTeamsSurvive, Exists
  <2>8. \A x \in Worker : x # w => pc'[x] = "idle"
    BY <1>1, <2>2, <2>3 DEF OneServes, StoreTypeOK
  <2>9. q.op = "create_team" => Exists(Result(r, q), q.team)
    BY CreatedExists
  <2>10. pc'[w] = "saved" /\ req'[w] = q
    BY <1>1, <2>1, <2>3 DEF StoreTypeOK
  <2> QED BY <2>5, <2>7, <2>8, <2>9, <2>10 DEF KeptInv, BeforeSwap, Exists
<1>5. ASSUME NEW w \in Worker, DiskError(w) PROVE FALSE
  BY <1>1, <1>5 DEF DiskError, DiskFails, StoreTypeOK
<1>6. ASSUME NEW w \in Worker, Answer(w) PROVE KeptInv'
  <2>1. /\ pc[w] = "saved" /\ pc' = [pc EXCEPT ![w] = "idle"] /\ target' = target
        /\ kept' = IF req[w].op = "create_team" THEN kept \cup {req[w].team} ELSE kept
    BY <1>6 DEF Answer
  <2>2. \A t \in kept' : Exists(Load(target), t)
    BY <1>1, <2>1 DEF KeptInv
  <2>3. AnsweredTeamsSurvive'
    BY <2>1, <2>2 DEF AnsweredTeamsSurvive, Load
  <2>4. \A x \in Worker : pc'[x] = "idle"
    BY <1>1, <2>1 DEF OneServes, StoreTypeOK
  <2> QED BY <2>3, <2>4 DEF KeptInv, BeforeSwap
<1>7. CASE Crash
  <2>1. UNCHANGED <<target, kept>> /\ \A x \in Worker : pc'[x] = "idle"
    BY <1>7 DEF Crash
  <2>2. AnsweredTeamsSurvive'
    BY <1>1, <2>1 DEF AnsweredTeamsSurvive, Load
  <2> QED BY <2>1, <2>2 DEF KeptInv, BeforeSwap
<1>8. ASSUME UNCHANGED <<target, pc, req, kept>> PROVE KeptInv'
  BY <1>8 DEF KeptInv, AnsweredTeamsSurvive, Load, Exists
<1>9. (\E k \in Token : Expire(k)) \/ UNCHANGED storeVars => UNCHANGED <<target, pc, req, kept>>
  BY DEF Expire, storeVars
<1> QED BY <1>2, <1>3, <1>4, <1>5, <1>6, <1>7, <1>8, <1>9 DEF StoreNext

(* What holds of the scenario in which instances run one at a time.        *)
ScenarioInv == StoreInv /\ (Alone => AloneInv /\ KeptInv)

LEMMA ScenarioInit == MCInit => ScenarioInv
<1> SUFFICES ASSUME MCInit PROVE ScenarioInv
  OBVIOUS
<1>1. KeptInv
  BY DEF MCInit, StoreInit, KeptInv, AnsweredTeamsSurvive, BeforeSwap
<1> QED BY <1>1, StoreInvInit, AloneInit DEF MCInit, ScenarioInv

LEMMA ScenarioStep == ScenarioInv /\ [MCNext]_mcVars => ScenarioInv'
<1> SUFFICES ASSUME ScenarioInv, [MCNext]_mcVars PROVE ScenarioInv'
  OBVIOUS
<1>1. [StoreNext]_storeVars /\ scenario' = scenario
  BY DEF MCNext, mcVars
<1>2. StoreInv'
  BY <1>1, StoreInvStep DEF ScenarioInv
<1>3. ASSUME Alone PROVE AloneInv' /\ KeptInv'
  <2>1. AloneInv /\ KeptInv /\ StoreInv
    BY <1>3 DEF ScenarioInv
  <2>2. StoreTypeOK /\ OneServes
    BY <2>1 DEF StoreInv, AloneInv
  <2>3. OneServes'
    BY <1>3, <2>2 DEF MCNext, mcVars, storeVars, OneBusy, OneServes
  <2>4. ~DiskFails
    BY <1>3, <2>2 DEF MCNext, mcVars, storeVars, DiskFails
  <2> QED BY <1>1, <2>1, <2>3, <2>4, AloneStep, KeptStep
<1> QED BY <1>1, <1>2, <1>3 DEF ScenarioInv, Alone

LEMMA ScenarioInvariant == MCSpec => []ScenarioInv
BY ScenarioInit, ScenarioStep, PTL DEF MCSpec

(* With instances one at a time and a crash at any step of saving, a team  *)
(* whose creation was answered with success is found until it is deleted.  *)
THEOREM StoreAnsweredSurvives == MCSpec => []AnsweredSurvivesAlone
<1>1. ScenarioInv => AnsweredSurvivesAlone
  BY DEF ScenarioInv, KeptInv, AnsweredSurvivesAlone
<1> QED BY <1>1, ScenarioInvariant, PTL
----------------------------------------------------------------------------
(* The requests of TeamRegistry are those of TeamStore.                    *)
LEMMA PromiseOperators ==
  /\ Promise!Request = Request
  /\ Promise!EmptyRegistry = EmptyRegistry
  /\ \A q : Promise!Draws(q) = Draws(q)
  /\ \A r, q, expired : Accepts(r, q, expired) => Promise!Accepts(r, q, expired)
  /\ \A r, q : Promise!Result(r, q) = Result(r, q)
<1>1. Promise!Request = Request /\ Promise!EmptyRegistry = EmptyRegistry
  BY DEF Promise!Request, Request, Promise!EmptyRegistry, EmptyRegistry, Promise!NoSeats, NoSeats
<1>2. \A q : Promise!Draws(q) = Draws(q)
  BY DEF Promise!Draws, Draws
<1>3. ASSUME NEW r, NEW q, NEW expired, Accepts(r, q, expired) PROVE Promise!Accepts(r, q, expired)
  <2>1. \A t, u : /\ Promise!Exists(r, t) <=> Exists(r, t)
                  /\ Promise!Member(r, t, u) <=> Member(r, t, u)
                  /\ Promise!FirstRole(r, t, u) = FirstRole(r, t, u)
    BY DEF Promise!Exists, Exists, Promise!Member, Member, Promise!FirstRole, FirstRole
  <2>2. \A t, u : Promise!Manages(r, t, u) <=> Manages(r, t, u)
    BY <2>1 DEF Promise!Manages, Manages
  <2>3. \A role : Promise!Outranks(role) = Outranks(role)
    BY DEF Promise!Outranks, Outranks
  <2>3a. \A S : Promise!Cardinality(S) = Cardinality(S)
    BY DEF Promise!Cardinality, Cardinality
  <2>4. (Promise!MayCreate(r, q) <=> MayCreate(r, q)) /\ (Promise!MayDelete(r, q) <=> MayDelete(r, q))
    BY <2>3a DEF Promise!MayCreate, MayCreate, Promise!TeamCount, TeamCount, Promise!Exists, Exists,
       Promise!MayDelete, MayDelete
  <2>5. (Promise!MayUpdate(r, q) <=> MayUpdate(r, q)) /\ (Promise!MayLeave(r, q) <=> MayLeave(r, q))
    BY <2>1, <2>2 DEF Promise!MayUpdate, MayUpdate, Promise!MayLeave, MayLeave
  <2>6. Promise!MayInvite(r, q) <=> MayInvite(r, q)
    BY <2>1, <2>2, <2>3a DEF Promise!MayInvite, MayInvite, Promise!MemberCount, MemberCount, Promise!SeatSet, SeatSet
  <2>7. Promise!MayRemove(r, q) <=> MayRemove(r, q)
    BY <2>1, <2>3 DEF Promise!MayRemove, MayRemove
  <2>8. Promise!MaySetRole(r, q) <=> MaySetRole(r, q)
    BY <2>1, <2>2 DEF Promise!MaySetRole, MaySetRole, Promise!TeamRole, TeamRole
  <2>9. Promise!MayAccept(r, q, expired) <=> MayAccept(r, q, expired)
    BY DEF Promise!MayAccept, MayAccept
  <2> QED BY <1>3, <2>4, <2>5, <2>6, <2>7, <2>8, <2>9 DEF Promise!Accepts, Accepts
<1>4. ASSUME NEW r, NEW q PROVE Promise!Result(r, q) = Result(r, q)
  <2>1. /\ Promise!NoSeats = NoSeats /\ \A t : Promise!Exists(r, t) <=> Exists(r, t)
        /\ \A seats : Promise!MemberCount(seats) = MemberCount(seats)
    BY DEF Promise!NoSeats, NoSeats, Promise!Exists, Exists, Promise!MemberCount, MemberCount,
       Promise!SeatSet, SeatSet, Promise!Cardinality, Cardinality
  <2>2. \A t, u : Promise!WithoutMember(r, t, u) = WithoutMember(r, t, u)
    BY <2>1 DEF Promise!WithoutMember, WithoutMember
  <2>3. /\ Promise!Create(r, q) = Create(r, q) /\ Promise!Delete(r, q) = Delete(r, q)
        /\ Promise!Update(r, q) = Update(r, q) /\ Promise!InviteTo(r, q) = InviteTo(r, q)
        /\ Promise!SetRole(r, q) = SetRole(r, q)
    BY <2>1 DEF Promise!Create, Create, Promise!Delete, Delete, Promise!Update, Update,
       Promise!InviteTo, InviteTo, Promise!SetRole, SetRole
  <2>4. Promise!Leave(r, q) = Leave(r, q) /\ Promise!Remove(r, q) = Remove(r, q)
    BY <2>2 DEF Promise!Leave, Leave, Promise!Remove, Remove
  <2>5. Promise!Accept(r, q) = Accept(r, q)
    BY <2>1 DEF Promise!Accept, Accept
  <2> QED BY <2>3, <2>4, <2>5 DEF Promise!Result, Result
<1> QED BY <1>1, <1>2, <1>3, <1>4

(* What is in flight when everybody but w is idle.                         *)
LEMMA FlightOf ==
  ASSUME NEW p, NEW q, NEW w \in Worker, \A x \in Worker : x # w => p[x] = "idle"
  PROVE  /\ UNION {Draws(s) : s \in {q[x] : x \in {y \in Worker : p[y] \in BeforeSwap}}}
              = IF p[w] \in BeforeSwap THEN Draws(q[w]) ELSE {}
         /\ {q[x].token : x \in {y \in Worker : p[y] # "idle" /\ q[y].op = "accept_invitation"}}
              = IF p[w] # "idle" /\ q[w].op = "accept_invitation" THEN {q[w].token} ELSE {}
<1>1. {y \in Worker : p[y] \in BeforeSwap} = IF p[w] \in BeforeSwap THEN {w} ELSE {}
  BY DEF BeforeSwap
<1>2. {y \in Worker : p[y] # "idle" /\ q[y].op = "accept_invitation"}
        = IF p[w] # "idle" /\ q[w].op = "accept_invitation" THEN {w} ELSE {}
  OBVIOUS
<1>3. UNION {Draws(s) : s \in {q[x] : x \in {w}}} = Draws(q[w])
  OBVIOUS
<1> QED BY <1>1, <1>2, <1>3

(* The drawn ids and the lapsed invitations of the registry that is shown. *)
ShownDrawn(w) == IF pc[w] \in BeforeSwap THEN drawn \ Draws(req[w]) ELSE drawn
ShownLapsed(w) ==
  IF pc[w] # "idle" /\ req[w].op = "accept_invitation" THEN lapsed \ {req[w].token} ELSE lapsed

LEMMA ShownAlone ==
  ASSUME NEW w \in Worker, \A x \in Worker : x # w => pc[x] = "idle"
  PROVE  /\ drawn \ UNION {Draws(q) : q \in InFlight} = ShownDrawn(w)
         /\ lapsed \ Accepting = ShownLapsed(w)
BY FlightOf DEF InFlight, Accepting, ShownDrawn, ShownLapsed, BeforeSwap

LEMMA ShownAloneNext ==
  ASSUME NEW w \in Worker, \A x \in Worker : x # w => pc'[x] = "idle"
  PROVE  /\ (drawn \ UNION {Draws(q) : q \in InFlight})' = ShownDrawn(w)'
         /\ (lapsed \ Accepting)' = ShownLapsed(w)'
BY FlightOf DEF InFlight, Accepting, ShownDrawn, ShownLapsed, BeforeSwap
(* Swapping a file in serves its request; a crash in the middle of one     *)
(* wastes its ids; an answer or a crash shows that an invitation lapsed    *)
(* while it was accepted; and no other step shows.                         *)
ShownStep(d, l) ==
  \/ Load(target)' = Load(target) /\ last' = last /\ d[2] = d[1] /\ l[2] = l[1]
  \/ \E q \in Request :
       /\ Draws(q) \cap d[1] = {} /\ d[2] = d[1] \cup Draws(q) /\ l[2] = l[1]
       /\ \/ /\ Accepts(Load(target), q, l[1]) /\ Load(target)' = Result(Load(target), q)
             /\ last' = [op |-> q.op, user |-> q.user]
          \/ Draws(q) # {} /\ Load(target)' = Load(target) /\ last' = last
  \/ \E k \in Token :
       /\ k \in d[1] \ l[1] /\ l[2] = l[1] \cup {k} /\ d[2] = d[1]
       /\ Load(target)' = Load(target) /\ last' = last

LEMMA ShownStepIsNext ==
  ASSUME NEW d, NEW l,
         d[1] = drawn \ UNION {Draws(q) : q \in InFlight},
         d[2] = (drawn \ UNION {Draws(q) : q \in InFlight})',
         l[1] = lapsed \ Accepting, l[2] = (lapsed \ Accepting)',
         ShownStep(d, l)
  PROVE  Promise!TeamNext \/ UNCHANGED Promise!teamVars
<1>1. CASE Load(target)' = Load(target) /\ last' = last /\ d[2] = d[1] /\ l[2] = l[1]
  BY <1>1 DEF Promise!teamVars
<1>2. ASSUME NEW q \in Request, Draws(q) \cap d[1] = {}, d[2] = d[1] \cup Draws(q), l[2] = l[1],
             Accepts(Load(target), q, l[1]), Load(target)' = Result(Load(target), q),
             last' = [op |-> q.op, user |-> q.user]
      PROVE  Promise!TeamNext
  <2>1. Promise!Serve(q)
    BY <1>2, PromiseOperators DEF Promise!Serve, Promise!Who
  <2> QED BY <2>1, PromiseOperators DEF Promise!TeamNext
<1>3. ASSUME NEW q \in Request, Draws(q) \cap d[1] = {}, d[2] = d[1] \cup Draws(q), l[2] = l[1],
             Draws(q) # {}, Load(target)' = Load(target), last' = last
      PROVE  Promise!TeamNext
  <2>1. Promise!Fail(q)
    BY <1>3, PromiseOperators DEF Promise!Fail
  <2> QED BY <2>1, PromiseOperators DEF Promise!TeamNext
<1>4. ASSUME NEW k \in Token, k \in d[1] \ l[1], l[2] = l[1] \cup {k}, d[2] = d[1],
             Load(target)' = Load(target), last' = last
      PROVE  Promise!TeamNext
  <2>1. Promise!Lapse(k)
    BY <1>4 DEF Promise!Lapse
  <2> QED BY <2>1 DEF Promise!TeamNext
<1> QED BY <1>1, <1>2, <1>3, <1>4 DEF ShownStep
(* Each step of an instance that runs alone.                               *)
LEMMA AloneShows ==
  ASSUME StoreInv, AloneInv, [StoreNext]_storeVars, OneServes', ~DiskFails
  PROVE  Promise!TeamNext \/ UNCHANGED Promise!teamVars
<1>1. /\ StoreTypeOK /\ OneServes /\ \A w \in Worker : Prepared(w)
  BY DEF StoreInv, AloneInv
<1>2. PICK d : /\ d[1] = drawn \ UNION {Draws(q) : q \in InFlight}
               /\ d[2] = (drawn \ UNION {Draws(q) : q \in InFlight})'
  <2> WITNESS <<drawn \ UNION {Draws(q) : q \in InFlight}, (drawn \ UNION {Draws(q) : q \in InFlight})'>>
  <2> QED OBVIOUS
<1>3. PICK l : l[1] = lapsed \ Accepting /\ l[2] = (lapsed \ Accepting)'
  <2> WITNESS <<lapsed \ Accepting, (lapsed \ Accepting)'>>
  <2> QED OBVIOUS
<1> SUFFICES ShownStep(d, l)
  BY <1>2, <1>3, ShownStepIsNext
(* A step of w: everybody else is idle before and after it.                *)
<1>4. ASSUME NEW w \in Worker, \A x \in Worker : x # w => pc[x] = "idle" /\ pc'[x] = "idle"
      PROVE  d[1] = ShownDrawn(w) /\ d[2] = ShownDrawn(w)' /\ l[1] = ShownLapsed(w) /\ l[2] = ShownLapsed(w)'
  BY <1>2, <1>3, <1>4, ShownAlone, ShownAloneNext
<1>5. ASSUME NEW w \in Worker, NEW q \in Request, ServeCopy(w, q) PROVE ShownStep(d, l)
  <2>1. /\ pc[w] = "idle" /\ pc' = [pc EXCEPT ![w] = "served"] /\ req' = [req EXCEPT ![w] = q]
        /\ drawn' = drawn \cup Draws(q) /\ Draws(q) \cap drawn = {}
        /\ Accepts(Load(target), q, lapsed) /\ UNCHANGED <<target, lapsed, last>>
    BY <1>5 DEF ServeCopy
  <2>2. /\ pc'[w] = "served" /\ req'[w] = q
        /\ \A x \in Worker : x # w => pc[x] = "idle" /\ pc'[x] = "idle"
    BY <1>1, <2>1 DEF StoreTypeOK, OneServes
  <2>3. d[1] = ShownDrawn(w) /\ d[2] = ShownDrawn(w)' /\ l[1] = ShownLapsed(w) /\ l[2] = ShownLapsed(w)'
    BY <1>4, <2>2
  <2>4. d[1] = drawn /\ d[2] = drawn
    BY <2>1, <2>2, <2>3 DEF ShownDrawn, BeforeSwap
  <2>5. q.op = "accept_invitation" => q.token \notin lapsed
    BY <2>1 DEF Accepts, MayAccept
  <2>6. l[1] = lapsed /\ l[2] = lapsed
    BY <2>1, <2>2, <2>3, <2>5 DEF ShownLapsed
  <2> QED BY <2>1, <2>4, <2>6 DEF ShownStep, Load
<1>6. ASSUME NEW w \in Worker, OpenTmp(w) \/ WriteText(w) PROVE ShownStep(d, l)
  <2>1. /\ pc[w] \in BeforeSwap /\ pc'[w] \in BeforeSwap /\ UNCHANGED <<req, drawn, lapsed, last>>
        /\ \A x \in Worker : x # w => pc'[x] = pc[x]
    BY <1>1, <1>6 DEF OpenTmp, WriteText, StoreTypeOK, BeforeSwap
  <2>2. target' = target
    BY <1>1, <1>6 DEF OpenTmp, WriteText, Prepared
  <2>3. pc[w] # "idle" /\ pc'[w] # "idle"
    BY <2>1 DEF BeforeSwap
  <2>4. \A x \in Worker : x # w => pc[x] = "idle" /\ pc'[x] = "idle"
    BY <1>1, <2>1, <2>3 DEF OneServes
  <2>5. d[1] = ShownDrawn(w) /\ d[2] = ShownDrawn(w)' /\ l[1] = ShownLapsed(w) /\ l[2] = ShownLapsed(w)'
    BY <1>4, <2>4
  <2>6. d[2] = d[1] /\ l[2] = l[1]
    BY <2>1, <2>3, <2>5 DEF ShownDrawn, ShownLapsed
  <2> QED BY <2>1, <2>2, <2>6 DEF ShownStep, Load
<1>7. ASSUME NEW w \in Worker, Replace(w) PROVE ShownStep(d, l)
  <2>1. PICK q \in Request : q = req[w]
    BY <1>1, <1>7 DEF Replace, StoreTypeOK
  <2>2. /\ pc[w] = "written" /\ tmp = mem[w] /\ mem[w] = Result(Load(target), q)
        /\ Accepts(Load(target), q, {}) /\ tmp \in Registry /\ Draws(q) \subseteq drawn
    BY <1>1, <1>7, <2>1 DEF Replace, Prepared, StoreTypeOK, BeforeSwap
  <2>3. /\ pc' = [pc EXCEPT ![w] = "saved"] /\ target' = tmp /\ UNCHANGED <<req, drawn, lapsed>>
        /\ last' = [op |-> q.op, user |-> q.user]
    BY <1>7, <2>1, <2>2, StoreFiles DEF Replace
  <2>4. /\ pc'[w] = "saved"
        /\ \A x \in Worker : x # w => pc[x] = "idle" /\ pc'[x] = "idle"
    BY <1>1, <2>2, <2>3 DEF OneServes, StoreTypeOK
  <2>5. d[1] = ShownDrawn(w) /\ d[2] = ShownDrawn(w)' /\ l[1] = ShownLapsed(w) /\ l[2] = ShownLapsed(w)'
    BY <1>4, <2>4
  <2>6. d[1] = drawn \ Draws(q) /\ d[2] = drawn
    BY <2>1, <2>2, <2>3, <2>4, <2>5 DEF ShownDrawn, BeforeSwap
  <2>7. l[2] = l[1] /\ (q.op = "accept_invitation" => q.token \notin l[1])
    BY <2>1, <2>2, <2>3, <2>4, <2>5 DEF ShownLapsed
  <2>8. Accepts(Load(target), q, l[1])
    BY <2>2, <2>7 DEF Accepts, MayAccept
  <2>9. Load(target)' = Result(Load(target), q)
    BY <2>2, <2>3, StoreFiles DEF Load
  <2> QED BY <2>2, <2>3, <2>6, <2>7, <2>8, <2>9 DEF ShownStep
<1>8. ASSUME NEW w \in Worker, DiskError(w) PROVE FALSE
  BY <1>1, <1>8 DEF DiskError, DiskFails, StoreTypeOK
(* An answer or a crash: w is idle after it.                               *)
<1>9. ASSUME NEW w \in Worker, pc[w] # "idle", pc'[w] = "idle", UNCHANGED <<target, drawn, lapsed, last>>,
             \A x \in Worker : x # w => pc[x] = "idle" /\ pc'[x] = "idle"
      PROVE  ShownStep(d, l)
  <2>1. PICK q \in Request : q = req[w]
    BY <1>1, <1>9 DEF StoreTypeOK
  <2>2. d[1] = ShownDrawn(w) /\ d[2] = ShownDrawn(w)' /\ l[1] = ShownLapsed(w) /\ l[2] = ShownLapsed(w)'
    BY <1>4, <1>9
  <2>3. d[2] = drawn /\ l[2] = lapsed
    BY <1>9, <2>2 DEF ShownDrawn, ShownLapsed, BeforeSwap
  <2>4. Load(target)' = Load(target) /\ last' = last /\ Draws(q) \subseteq drawn
    BY <1>1, <1>9, <2>1 DEF Load, Prepared
  <2>5. CASE q.op = "accept_invitation"
    <3>1. Draws(q) = {} /\ q.token \in Token
      BY <2>5 DEF Draws, Request
    <3>2. d[1] = drawn /\ l[1] = lapsed \ {q.token}
      BY <1>9, <2>1, <2>2, <2>5, <3>1 DEF ShownDrawn, ShownLapsed
    <3>3. CASE q.token \notin lapsed
      BY <2>3, <2>4, <3>2, <3>3 DEF ShownStep
    <3>4. CASE q.token \in lapsed
      <4>1. q.token \in drawn
        BY <3>4 DEF AloneInv
      <4> QED BY <2>3, <2>4, <3>1, <3>2, <3>4, <4>1 DEF ShownStep
    <3> QED BY <3>3, <3>4
  <2>6. CASE q.op # "accept_invitation"
    <3>1. l[1] = lapsed
      BY <2>1, <2>2, <2>6 DEF ShownLapsed
    <3>2. CASE pc[w] \in BeforeSwap
      <4>1. d[1] = drawn \ Draws(q)
        BY <2>1, <2>2, <3>2 DEF ShownDrawn
      <4>2. CASE Draws(q) = {}
        BY <2>3, <2>4, <3>1, <4>1, <4>2 DEF ShownStep
      <4>3. CASE Draws(q) # {}
        BY <2>3, <2>4, <3>1, <4>1, <4>3 DEF ShownStep
      <4> QED BY <4>2, <4>3
    <3>3. CASE pc[w] \notin BeforeSwap
      <4>1. d[1] = drawn
        BY <2>2, <3>3 DEF ShownDrawn
      <4> QED BY <2>3, <2>4, <3>1, <4>1 DEF ShownStep
    <3> QED BY <3>2, <3>3
  <2> QED BY <2>5, <2>6
<1>10. ASSUME NEW w \in Worker, Answer(w) PROVE ShownStep(d, l)
  <2>1. /\ pc[w] # "idle" /\ pc'[w] = "idle" /\ UNCHANGED <<target, drawn, lapsed, last>>
        /\ \A x \in Worker : x # w => pc'[x] = pc[x]
    BY <1>1, <1>10 DEF Answer, StoreTypeOK
  <2> QED BY <1>1, <1>9, <2>1 DEF OneServes
<1>11. CASE Crash
  <2>1. PICK w \in Worker : pc[w] # "idle"
    BY <1>11 DEF Crash
  <2>2. UNCHANGED <<target, drawn, lapsed, last>> /\ \A x \in Worker : pc'[x] = "idle"
    BY <1>11 DEF Crash
  <2> QED BY <1>1, <1>9, <2>1, <2>2 DEF OneServes
<1>12. ASSUME NEW k \in Token, Expire(k) PROVE ShownStep(d, l)
  <2>1. /\ k \in drawn \ (lapsed \cup UNION {Draws(req[w]) : w \in {x \in Worker : pc[x] # "idle"}})
        /\ lapsed' = lapsed \cup {k} /\ UNCHANGED <<target, pc, req, drawn, last>>
    BY <1>12 DEF Expire
  <2>2. InFlight' = InFlight /\ Accepting' = Accepting
    BY <2>1 DEF InFlight, Accepting
  <2>3. d[2] = d[1] /\ Load(target)' = Load(target) /\ last' = last
    BY <1>2, <2>1, <2>2 DEF Load
  <2>4. l[2] = (lapsed \cup {k}) \ Accepting
    BY <1>3, <2>1, <2>2
  <2>5. k \in d[1]
    <3>1. ASSUME NEW q \in InFlight PROVE k \notin Draws(q)
      <4>1. PICK w \in Worker : q = req[w] /\ pc[w] \in {"served", "writing", "written"}
        BY DEF InFlight
      <4> QED BY <2>1, <4>1
    <3> QED BY <1>2, <2>1, <3>1
  <2>6. CASE k \in Accepting
    <3>1. l[2] = l[1]
      BY <1>3, <2>4, <2>6
    <3> QED BY <2>3, <3>1 DEF ShownStep
  <2>7. CASE k \notin Accepting
    <3>1. l[2] = l[1] \cup {k} /\ k \in d[1] \ l[1]
      BY <1>3, <2>1, <2>4, <2>5, <2>7
    <3> QED BY <2>3, <3>1 DEF ShownStep
  <2> QED BY <2>6, <2>7
<1>13. CASE UNCHANGED storeVars
  <2>1. InFlight' = InFlight /\ Accepting' = Accepting
    BY <1>13 DEF storeVars, InFlight, Accepting
  <2>2. d[2] = d[1] /\ l[2] = l[1]
    BY <1>2, <1>3, <1>13, <2>1 DEF storeVars
  <2> QED BY <1>13, <2>2 DEF ShownStep, storeVars, Load
<1> QED BY <1>5, <1>6, <1>7, <1>8, <1>10, <1>11, <1>12, <1>13 DEF StoreNext

(* With instances one at a time and a crash at any step of saving, the     *)
(* state file behaves as the registry of TeamRegistry: a request takes     *)
(* effect as a whole when its file is swapped in, or not at all.           *)
THEOREM StoreIsAtomic == MCSpec => AtomicAlone
<1>1. MCInit => (Alone => Promise!TeamInit)
  <2> SUFFICES ASSUME MCInit PROVE Promise!TeamInit
    OBVIOUS
  <2>1. InFlight = {} /\ Accepting = {} /\ drawn = {} /\ lapsed = {}
    BY DEF MCInit, StoreInit, InFlight, Accepting
  <2>2. Load(target) = EmptyRegistry /\ last = [op |-> "none"]
    BY DEF MCInit, StoreInit, Load
  <2> QED BY <2>1, <2>2, PromiseOperators DEF Promise!TeamInit, Promise!NoOne
<1>2. ScenarioInv /\ [MCNext]_mcVars => [Alone => Promise!TeamNext]_(Promise!teamVars)
  <2> SUFFICES ASSUME ScenarioInv, [MCNext]_mcVars, Alone
               PROVE  Promise!TeamNext \/ UNCHANGED Promise!teamVars
    OBVIOUS
  <2>1. StoreInv /\ AloneInv /\ StoreTypeOK /\ OneServes
    BY DEF ScenarioInv, StoreInv, AloneInv
  <2>2. [StoreNext]_storeVars
    BY DEF MCNext, mcVars
  <2>3. OneServes'
    BY <2>1 DEF MCNext, mcVars, storeVars, OneBusy, OneServes
  <2>4. ~DiskFails
    BY <2>1 DEF MCNext, mcVars, storeVars, DiskFails
  <2> QED BY <2>1, <2>2, <2>3, <2>4, AloneShows
<1> QED BY <1>1, <1>2, ScenarioInvariant, PTL DEF MCSpec, AtomicAlone
----------------------------------------------------------------------------
(* A property POST, one at a time.  What create_team adds to a registry.   *)
Entries(r, u) == UNION {{t} \X (1 .. Len(r.members[t][u])) : t \in TeamId}
Unmade(r, t) == ~Exists(r, t) /\ \A u \in User : r.members[t][u] = << >>
Named(r, s) == {t \in TeamId : Exists(r, t) /\ r.teams[t].slug = s}

LEMMA CreateAddsTeam ==
  ASSUME NEW r \in Registry, NEW q \in Request, q.op = "create_team", Unmade(r, q.team)
  PROVE  /\ q.team \in TeamId
         /\ Result(r, q) \in Registry
         /\ Exists(Result(r, q), q.team) /\ Result(r, q).teams[q.team].slug = q.slug
         /\ Result(r, q).members[q.team] = [NoSeats EXCEPT ![q.user] = <<"owner">>]
         /\ \A t \in TeamId \ {q.team} : /\ Result(r, q).teams[t] = r.teams[t]
                                         /\ Result(r, q).members[t] = r.members[t]
<1>1. /\ q.team \in TeamId /\ q.user \in User /\ q.slug \in Slug
      /\ [owner |-> q.user, slug |-> q.slug, used |-> 1] \in Team
  BY DEF Request, Team
<1>2. Result(r, q) = Create(r, q)
  BY DEF Result
<1>3. [NoSeats EXCEPT ![q.user] = <<"owner">>] \in Seats
  <2>1. <<"owner">> \in Seq(StoredRole) /\ << >> \in Seq(StoredRole)
    BY DEF StoredRole, TeamRole
  <2> QED BY <1>1, <2>1 DEF NoSeats, Seats
<1>4. /\ Result(r, q).teams = [r.teams EXCEPT ![q.team] = [owner |-> q.user, slug |-> q.slug, used |-> 1]]
      /\ Result(r, q).members = [r.members EXCEPT ![q.team] = [NoSeats EXCEPT ![q.user] = <<"owner">>]]
      /\ Result(r, q).invites = r.invites
      /\ Result(r, q) = [teams |-> Result(r, q).teams, members |-> Result(r, q).members,
                         invites |-> Result(r, q).invites]
  BY <1>2 DEF Create, Registry
<1>5. Result(r, q).teams[q.team] = [owner |-> q.user, slug |-> q.slug, used |-> 1]
  BY <1>1, <1>4 DEF Registry
<1>6. Exists(Result(r, q), q.team) /\ Result(r, q).teams[q.team].slug = q.slug
  BY <1>1, <1>5, TeamSentinels DEF Exists
<1>7. /\ Result(r, q).teams \in [TeamId -> Team \cup {NoTeam}]
      /\ Result(r, q).members \in [TeamId -> Seats]
      /\ Result(r, q).invites \in [Token -> Invite \cup {NoInvite}]
  BY <1>1, <1>3, <1>4 DEF Registry
<1>8. Result(r, q) \in Registry
  BY <1>4, <1>7 DEF Registry
<1>9. /\ Result(r, q).members[q.team] = [NoSeats EXCEPT ![q.user] = <<"owner">>]
      /\ \A t \in TeamId \ {q.team} : /\ Result(r, q).teams[t] = r.teams[t]
                                      /\ Result(r, q).members[t] = r.members[t]
  BY <1>1, <1>4 DEF Registry
<1> QED BY <1>1, <1>6, <1>8, <1>9

(* Nobody is in fewer teams afterwards, and every user in finitely many.   *)
LEMMA CreateAddsEntries ==
  ASSUME NEW r \in Registry, NEW q \in Request, q.op = "create_team", Unmade(r, q.team),
         NEW u \in User, IsFiniteSet(Entries(r, u))
  PROVE  /\ IsFiniteSet(Entries(Result(r, q), u))
         /\ TeamCount(Result(r, q), u) >= TeamCount(r, u)
<1>1. PICK m : m = Result(r, q).members
  OBVIOUS
<1>2. /\ q.team \in TeamId /\ q.user \in User
      /\ m[q.team] = [NoSeats EXCEPT ![q.user] = <<"owner">>]
      /\ \A t \in TeamId \ {q.team} : m[t] = r.members[t]
      /\ r.members[q.team][u] = << >>
  BY <1>1, CreateAddsTeam DEF Unmade, Request
<1>3. m[q.team][u] = IF u = q.user THEN <<"owner">> ELSE << >>
  BY <1>2 DEF NoSeats
<1>4. Entries(Result(r, q), u) = UNION {{t} \X (1 .. Len(m[t][u])) : t \in TeamId}
  BY <1>1 DEF Entries
<1>5. /\ TeamCount(r, u) = Cardinality(Entries(r, u))
      /\ TeamCount(Result(r, q), u) = Cardinality(Entries(Result(r, q), u))
  BY DEF TeamCount, Entries
<1>6. CASE u # q.user
  <2>1. \A t \in TeamId : m[t][u] = r.members[t][u]
    BY <1>2, <1>3, <1>6
  <2>2. Entries(Result(r, q), u) = Entries(r, u)
    BY <1>4, <2>1 DEF Entries
  <2>3. Cardinality(Entries(r, u)) \in Nat
    BY FS_CardinalityType
  <2>4. Cardinality(Entries(r, u)) >= Cardinality(Entries(r, u))
    BY <2>3
  <2> QED BY <1>5, <2>2, <2>4
<1>7. CASE u = q.user
  <2>1. Len(m[q.team][u]) = 1 /\ Len(r.members[q.team][u]) = 0
    BY <1>2, <1>3, <1>7
  <2>2. \A t \in TeamId : t # q.team => m[t][u] = r.members[t][u]
    BY <1>2
  <2>3. \A e : e \in Entries(Result(r, q), u) <=> e \in Entries(r, u) \/ e = <<q.team, 1>>
    <3>1. \A e : e \in {q.team} \X (1 .. Len(m[q.team][u])) <=> e = <<q.team, 1>>
      BY <2>1
    <3>2. {q.team} \X (1 .. Len(r.members[q.team][u])) = {}
      BY <2>1
    <3>3. PICK f : f = [t \in TeamId |-> {t} \X (1 .. Len(r.members[t][u]))]
      OBVIOUS
    <3>4. PICK g : g = [t \in TeamId |-> {t} \X (1 .. Len(m[t][u]))]
      OBVIOUS
    <3>5. \A e : e \in Entries(r, u) <=> \E t \in TeamId : e \in f[t]
      BY <3>3 DEF Entries
    <3>6. \A e : e \in Entries(Result(r, q), u) <=> \E t \in TeamId : e \in g[t]
      BY <1>4, <3>4
    <3>7. \A t \in TeamId : t # q.team => g[t] = f[t]
      BY <2>2, <3>3, <3>4
    <3>8. f[q.team] = {} /\ \A e : e \in g[q.team] <=> e = <<q.team, 1>>
      BY <1>2, <3>1, <3>2, <3>3, <3>4
    <3> QED BY <1>2, <3>5, <3>6, <3>7, <3>8
  <2>4. Entries(Result(r, q), u) = Entries(r, u) \cup {<<q.team, 1>>}
    BY <2>3
  <2>5. PICK S : S = Entries(r, u)
    OBVIOUS
  <2>6. IsFiniteSet(S \cup {<<q.team, 1>>}) /\ Cardinality(S \cup {<<q.team, 1>>}) =
            IF <<q.team, 1>> \in S THEN Cardinality(S) ELSE Cardinality(S) + 1
    BY <2>5, FS_AddElement
  <2>7. Cardinality(S) \in Nat
    BY <2>5, FS_CardinalityType
  <2>8. Cardinality(S \cup {<<q.team, 1>>}) >= Cardinality(S)
    BY <2>6, <2>7
  <2> QED BY <1>5, <2>4, <2>5, <2>6, <2>8
<1> QED BY <1>6, <1>7

(* The names of the teams that were there are the names they had.          *)
LEMMA CreateNamesOne ==
  ASSUME NEW r \in Registry, NEW q \in Request, q.op = "create_team", Unmade(r, q.team),
         MayCreate(r, q), NEW s
  PROVE  Named(r, s) # {} => Named(Result(r, q), s) = Named(r, s)
<1> SUFFICES ASSUME Named(r, s) # {} PROVE Named(Result(r, q), s) = Named(r, s)
  OBVIOUS
<1>1. s # q.slug
  BY DEF Named, MayCreate
<1>2. PICK n : n = Result(r, q)
  OBVIOUS
<1>3. /\ q.team \in TeamId /\ n.teams[q.team].slug = q.slug /\ r.teams[q.team] = NoTeam
      /\ \A t \in TeamId \ {q.team} : n.teams[t] = r.teams[t]
  BY <1>2, CreateAddsTeam DEF Unmade, Exists
<1>4. \A t \in TeamId : Exists(n, t) /\ n.teams[t].slug = s <=> Exists(r, t) /\ r.teams[t].slug = s
  BY <1>1, <1>3 DEF Exists
<1> QED BY <1>2, <1>4 DEF Named

(* The inductive invariant of the handler.  What a block is in the middle  *)
(* of is create_team for the post of its handler; an id that is not in the *)
(* file yet, drawn by it or not drawn, has neither team nor seats; and     *)
(* from the answer of the first team block on, the post is served.         *)
CreationInv ==
  /\ \A t \in TeamId \ drawn : Unmade(Load(target), t)
  /\ \A w \in Worker : pc[w] # "idle" =>
       /\ post[w] \in Post
       /\ \E t \in TeamId : req[w] = TeamRequest(post[w], t)
       /\ pc[w] \in BeforeSwap => Unmade(Load(target), req[w].team)
  /\ \A u \in User : IsFiniteSet(Entries(Load(target), u))
Served(p) ==
  \/ Named(Load(target), SlugOf[p]) # {}
  \/ TeamCount(Load(target), OwnerOf[p]) >= MaxTeams
ServedInv ==
  /\ \A p \in listed : Served(p)
  /\ \A w \in Worker : stage[w] \in {"workflow", "save"} \/ pc[w] = "saved" => Served(post[w])
HandlerInv ==
  /\ StoreInv /\ AloneInv /\ PropertyTypeOK /\ CreationInv
  /\ ~diskFailed => ServedInv

LEMMA HandlerInit == ListingInit => HandlerInv
<1> SUFFICES ASSUME ListingInit PROVE HandlerInv
  OBVIOUS
<1>1. PropertyInit /\ StoreInit
  BY DEF ListingInit, PropertyInit
<1>2. StoreInv /\ AloneInv
  BY <1>1, StoreInvInit, AloneInit
<1>3. PropertyTypeOK
  <2>1. \A w \in Worker : stage[w] = "idle" /\ post[w] = NoPost /\ pc[w] = "idle"
    BY <1>1 DEF PropertyInit, StoreInit
  <2>2. post \in [Worker -> Post \cup {NoPost}] /\ listed \subseteq Post
        /\ stage \in [Worker -> {"idle", "team", "workflow", "save"}]
    BY <1>1 DEF PropertyInit
  <2> QED BY <1>2, <2>1, <2>2 DEF PropertyTypeOK, StoreInv
<1>4. Load(target) = EmptyRegistry
  BY <1>1 DEF StoreInit, Load
<1>5. \A t \in TeamId : Unmade(EmptyRegistry, t)
  BY DEF Unmade, Exists, EmptyRegistry, NoSeats
<1>6. ASSUME NEW u \in User PROVE IsFiniteSet(Entries(EmptyRegistry, u))
  <2>1. \A t \in TeamId : {t} \X (1 .. Len(EmptyRegistry.members[t][u])) = {}
    BY DEF EmptyRegistry, NoSeats
  <2>2. Entries(EmptyRegistry, u) = {}
    BY <2>1 DEF Entries
  <2> QED BY <2>2, FS_EmptySet
<1>7. CreationInv
  BY <1>1, <1>4, <1>5, <1>6 DEF CreationInv, StoreInit
<1>8. ServedInv
  BY <1>1 DEF ServedInv, PropertyInit, StoreInit
<1> QED BY <1>2, <1>3, <1>7, <1>8 DEF HandlerInv

(* A dead process leaves two files that are as good as they were.          *)
LEMMA DeadIsIdle ==
  ASSUME StoreInv, AloneInv, ProcessDies
  PROVE  StoreInv' /\ AloneInv'
<1>1. /\ pc' = [w \in Worker |-> "idle"] /\ req' = [w \in Worker |-> NoReq]
      /\ mem' = [w \in Worker |-> EmptyRegistry] /\ fd' = [w \in Worker |-> "none"]
      /\ UNCHANGED <<target, tmp, drawn, lapsed, kept>>
  BY DEF ProcessDies
<1>2. mem' \in [Worker -> Registry] /\ \A x \in Worker : Sound(mem'[x])
  BY <1>1, EmptySound DEF Sound
<1>3. StoreTypeOK'
  BY <1>1, <1>2 DEF StoreTypeOK, StoreInv
<1>4. StoreInv'
  BY <1>1, <1>2, <1>3 DEF StoreInv, Load
<1>5. \A x \in Worker : Prepared(x)'
  BY <1>1 DEF Prepared, BeforeSwap
<1>6. OneServes'
  BY <1>1 DEF OneServes
<1> QED BY <1>1, <1>4, <1>5, <1>6 DEF AloneInv

LEMMA HandlerStores ==
  ASSUME \A v, w \in Worker : v = w, HandlerInv, [PropertyNext]_propertyVars
  PROVE  /\ StoreInv' /\ AloneInv'
         /\ Load(target) \in Registry
         /\ (\E w \in Worker : Replace(w)) \/ Load(target)' = Load(target)
<1>1. StoreInv /\ AloneInv
  BY DEF HandlerInv
<1>2. Load(target) \in Registry
  BY <1>1, LoadIsRegistry DEF StoreInv, StoreTypeOK
<1>3. CASE ProcessDies
  BY <1>1, <1>2, <1>3, DeadIsIdle DEF ProcessDies, Load
<1>4. CASE [StoreNext]_storeVars
  <2>1. OneServes'
    BY DEF OneServes
  <2>2. StoreInv' /\ AloneInv'
    BY <1>1, <1>4, <2>1, StoreInvStep, AloneStep
  <2>3. ASSUME ~ \E w \in Worker : Replace(w) PROVE target' = target
    <3>1. \A w \in Worker : Prepared(w)
      BY <1>1 DEF AloneInv
    <3>2. \A w \in Worker : WriteText(w) => target' = target
      BY <3>1 DEF WriteText, Prepared
    <3> QED BY <1>4, <2>3, <3>2 DEF StoreNext, ServeCopy, OpenTmp, DiskError, Answer, Crash, Expire, storeVars
  <2> QED BY <1>2, <2>2, <2>3 DEF Load
<1>5. ASSUME NEW w \in Worker, BlockServes(w) PROVE StoreNext
  <2>1. post[w] \in Post
    BY <1>5 DEF HandlerInv, PropertyTypeOK, BlockServes
  <2>2. \A t \in TeamId : TeamRequest(post[w], t) \in Request
    BY <2>1, PostsNamed DEF TeamRequest, Request
  <2> QED BY <1>5, <2>2 DEF BlockServes, StoreNext
<1>6. ASSUME NEW w \in Worker, BlockStores(w) \/ BlockAnswers(w) PROVE StoreNext
  BY <1>6 DEF BlockStores, BlockAnswers, StoreNext
<1>7. CASE ~ProcessDies
  <2>1. [StoreNext]_storeVars
    BY <1>5, <1>6, <1>7 DEF PropertyNext, BeginPost, BlockRefuses, SaveRow, propertyVars
  <2> QED BY <1>4, <2>1
<1> QED BY <1>3, <1>7

LEMMA HandlerTypes ==
  ASSUME \A v, w \in Worker : v = w, HandlerInv, [PropertyNext]_propertyVars
  PROVE  PropertyTypeOK'
<1>1. /\ PropertyTypeOK /\ StoreTypeOK
      /\ \A w \in Worker : pc[w] \in {"idle", "served", "writing", "written", "saved"}
  BY DEF HandlerInv, PropertyTypeOK, StoreTypeOK
<1>2. StoreTypeOK'
  BY HandlerStores DEF StoreInv
<1> USE DEF PropertyTypeOK
<1>3. ASSUME NEW w \in Worker, NEW p \in Post, BeginPost(w, p) PROVE PropertyTypeOK'
  <2>1. \A x \in Worker : pc'[x] = pc[x]
    BY <1>3 DEF BeginPost, storeVars
  <2> QED BY <1>1, <1>2, <1>3, <2>1, PostsNamed DEF BeginPost
<1>4. ASSUME NEW w \in Worker, BlockServes(w) PROVE PropertyTypeOK'
  <2>1. UNCHANGED <<post, stage, listed>> /\ stage[w] \in {"team", "workflow"}
    BY <1>4 DEF BlockServes
  <2> QED BY <1>1, <1>2, <2>1
<1>5. ASSUME NEW w \in Worker, BlockStores(w) PROVE PropertyTypeOK'
  <2>1. UNCHANGED <<post, stage, listed>> /\ pc[w] # "idle"
    BY <1>5 DEF BlockStores, OpenTmp, WriteText, Replace, DiskError
  <2>2. stage[w] \in {"team", "workflow"}
    BY <1>1, <2>1
  <2> QED BY <1>1, <1>2, <2>1, <2>2
<1>6. ASSUME NEW w \in Worker, stage[w] \in {"team", "workflow"}, pc'[w] = "idle",
             stage' = [stage EXCEPT ![w] = After(@)], UNCHANGED <<post, listed>>
      PROVE  PropertyTypeOK'
  <2>1. After(stage[w]) \in {"workflow", "save"}
    BY <1>6 DEF After
  <2>2. stage'[w] \in {"workflow", "save"} /\ stage' \in [Worker -> {"idle", "team", "workflow", "save"}]
    BY <1>1, <1>6, <2>1
  <2> QED BY <1>1, <1>2, <1>6, <2>2
<1>7. ASSUME NEW w \in Worker, BlockAnswers(w) PROVE PropertyTypeOK'
  <2>1. pc[w] # "idle" /\ pc'[w] = "idle"
    BY <1>1, <1>7 DEF BlockAnswers, Answer, StoreTypeOK
  <2>2. stage[w] \in {"team", "workflow"}
    BY <1>1, <2>1
  <2> QED BY <1>6, <1>7, <2>1, <2>2 DEF BlockAnswers
<1>8. ASSUME NEW w \in Worker, BlockRefuses(w) PROVE PropertyTypeOK'
  <2>1. pc'[w] = "idle"
    BY <1>8 DEF BlockRefuses, storeVars
  <2> QED BY <1>6, <1>8, <2>1 DEF BlockRefuses
<1>9. ASSUME NEW w \in Worker, SaveRow(w) PROVE PropertyTypeOK'
  <2>1. pc'[w] = "idle" /\ post[w] \in Post
    BY <1>1, <1>9 DEF SaveRow, storeVars
  <2>2. post'[w] = NoPost /\ stage'[w] = "idle"
    BY <1>1, <1>9 DEF SaveRow
  <2> QED BY <1>1, <1>2, <1>9, <2>1, <2>2 DEF SaveRow
<1>10. CASE ProcessDies
  <2>1. \A x \in Worker : pc'[x] = "idle" /\ post'[x] = NoPost /\ stage'[x] = "idle"
    BY <1>10 DEF ProcessDies
  <2> QED BY <1>1, <1>2, <1>10, <2>1 DEF ProcessDies
<1>11. CASE UNCHANGED propertyVars
  BY <1>1, <1>2, <1>11 DEF propertyVars, storeVars
<1> QED BY <1>3, <1>4, <1>5, <1>7, <1>8, <1>9, <1>10, <1>11 DEF PropertyNext

(* The swap: the registry of now becomes the one with the team added.      *)
LEMMA SwapCreates ==
  ASSUME HandlerInv, NEW w \in Worker, Replace(w)
  PROVE  /\ pc[w] = "written" /\ pc'[w] = "saved" /\ post[w] \in Post /\ drawn' = drawn /\ req' = req
         /\ \E q \in Request :
              /\ q = req[w] /\ q.op = "create_team" /\ q.user = OwnerOf[post[w]] /\ q.slug = SlugOf[post[w]]
              /\ q.team \in drawn /\ Unmade(Load(target), q.team) /\ MayCreate(Load(target), q)
              /\ Load(target)' = Result(Load(target), q)
<1>1. /\ StoreTypeOK /\ Prepared(w) /\ CreationInv
  BY DEF HandlerInv, StoreInv, AloneInv
<1>2. pc[w] = "written" /\ tmp = mem[w] /\ tmp \in Registry /\ req[w] \in Request
  BY <1>1 DEF Replace, Prepared, StoreTypeOK
<1>3. PICK t \in TeamId : req[w] = TeamRequest(post[w], t)
  BY <1>1, <1>2 DEF CreationInv
<1>4. PICK q \in Request : q = req[w]
  BY <1>2
<1>5. /\ q.op = "create_team" /\ q.user = OwnerOf[post[w]] /\ q.slug = SlugOf[post[w]] /\ q.team = t
  BY <1>3, <1>4 DEF TeamRequest
<1>6. q.team \in drawn
  BY <1>1, <1>2, <1>4, <1>5 DEF Prepared, Draws
<1>7. MayCreate(Load(target), q)
  BY <1>1, <1>2, <1>4, <1>5 DEF Prepared, BeforeSwap, Accepts
<1>8. Unmade(Load(target), q.team) /\ post[w] \in Post
  BY <1>1, <1>2, <1>4 DEF CreationInv, BeforeSwap
<1>9. pc'[w] = "saved" /\ target' = tmp /\ UNCHANGED <<req, drawn>>
  BY <1>1, <1>2, StoreFiles DEF Replace, StoreTypeOK
<1>10. Load(target)' = Result(Load(target), q)
  BY <1>1, <1>2, <1>4, <1>9, StoreFiles DEF Load, Prepared, BeforeSwap
<1> QED BY <1>2, <1>4, <1>5, <1>6, <1>7, <1>8, <1>9, <1>10

LEMMA HandlerCreates ==
  ASSUME \A v, w \in Worker : v = w, HandlerInv, [PropertyNext]_propertyVars
  PROVE  CreationInv'
<1>1. /\ PropertyTypeOK /\ StoreTypeOK /\ CreationInv /\ Load(target) \in Registry
      /\ \A w \in Worker : Prepared(w)
      /\ (\E w \in Worker : Replace(w)) \/ Load(target)' = Load(target)
  BY HandlerStores DEF HandlerInv, PropertyTypeOK, AloneInv
(* A step that does not swap files.                                        *)
<1>2. ASSUME Load(target)' = Load(target), drawn \subseteq drawn',
             \A w \in Worker : pc'[w] # "idle" =>
               /\ post'[w] \in Post
               /\ \E t \in TeamId : req'[w] = TeamRequest(post'[w], t)
               /\ pc'[w] \in BeforeSwap => Unmade(Load(target), req'[w].team)
      PROVE  CreationInv'
  <2>1. \A t : Unmade(Load(target), t)' <=> Unmade(Load(target), t)
    BY <1>2 DEF Unmade, Exists
  <2>2. \A u : Entries(Load(target), u)' = Entries(Load(target), u)
    BY <1>2 DEF Entries
  <2>3. \A w \in Worker : Unmade(Load(target), req'[w].team) <=> Unmade(Load(target), req[w].team)'
    BY <1>2 DEF Unmade, Exists
  <2>4. \A w \in Worker : (\E t \in TeamId : req'[w] = TeamRequest(post'[w], t))
                            => (\E t \in TeamId : req[w] = TeamRequest(post[w], t))'
    BY DEF TeamRequest
  <2>5. \A t \in TeamId \ drawn' : Unmade(Load(target), t)'
    BY <1>1, <1>2, <2>1 DEF CreationInv
  <2>6. \A u \in User : IsFiniteSet(Entries(Load(target), u))'
    BY <1>1, <2>2 DEF CreationInv
  <2>7. \A w \in Worker : (pc[w] # "idle" =>
          /\ post[w] \in Post
          /\ \E t \in TeamId : req[w] = TeamRequest(post[w], t)
          /\ pc[w] \in BeforeSwap => Unmade(Load(target), req[w].team))'
    BY <1>2, <2>3, <2>4 DEF BeforeSwap
  <2> QED BY <2>5, <2>6, <2>7 DEF CreationInv
<1>3. ASSUME NEW w \in Worker, BlockServes(w) PROVE CreationInv'
  <2>1. PICK t \in TeamId : ServeCopy(w, TeamRequest(post[w], t))
    BY <1>3 DEF BlockServes
  <2>2. PICK q : q = TeamRequest(post[w], t)
    OBVIOUS
  <2>3. q.op = "create_team" /\ q.team = t /\ Draws(q) = {t}
    BY <2>2 DEF TeamRequest, Draws
  <2>4. /\ t \notin drawn /\ drawn' = drawn \cup {t} /\ target' = target
        /\ pc' = [pc EXCEPT ![w] = "served"] /\ req' = [req EXCEPT ![w] = q] /\ post' = post
    BY <1>3, <2>1, <2>2, <2>3 DEF ServeCopy, BlockServes
  <2>5. Unmade(Load(target), t) /\ post[w] \in Post
    BY <1>1, <1>3, <2>4 DEF CreationInv, BlockServes, PropertyTypeOK
  <2>6. \A x \in Worker : x = w /\ req'[x] = q
    BY <1>1, <2>4 DEF StoreTypeOK
  <2>7. Load(target)' = Load(target)
    BY <2>4 DEF Load
  <2> QED BY <1>2, <2>2, <2>3, <2>4, <2>5, <2>6, <2>7
<1>4. ASSUME NEW w \in Worker, OpenTmp(w) \/ WriteText(w) \/ DiskError(w), BlockStores(w)
      PROVE  CreationInv'
  <2>1. /\ pc[w] \in BeforeSwap /\ UNCHANGED <<post, req, drawn>> /\ Load(target)' = Load(target)
    BY <1>1, <1>4 DEF OpenTmp, WriteText, DiskError, BlockStores, BeforeSwap, Prepared, Load
  <2>2. /\ post[w] \in Post /\ \E t \in TeamId : req[w] = TeamRequest(post[w], t)
        /\ Unmade(Load(target), req[w].team)
    BY <1>1, <2>1 DEF CreationInv, BeforeSwap
  <2>3. \A x \in Worker : x = w
    OBVIOUS
  <2> QED BY <1>2, <2>1, <2>2, <2>3
<1>5. ASSUME NEW w \in Worker, Replace(w), BlockStores(w) PROVE CreationInv'
  <2>1. PICK q \in Request :
          /\ pc'[w] = "saved" /\ post[w] \in Post /\ drawn' = drawn /\ req' = req
          /\ q = req[w] /\ q.op = "create_team" /\ q.team \in drawn /\ Unmade(Load(target), q.team)
          /\ Load(target)' = Result(Load(target), q)
    BY <1>5, SwapCreates
  <2>2. PICK r \in Registry : r = Load(target)
    BY <1>1
  <2>3. PICK n : n = Result(r, q)
    OBVIOUS
  <2>4. /\ Load(target)' = n /\ post' = post
    BY <1>5, <2>1, <2>2, <2>3 DEF BlockStores
  <2>5. \A t \in TeamId \ drawn : n.teams[t] = r.teams[t] /\ n.members[t] = r.members[t]
    <3>1. Unmade(r, q.team)
      BY <2>1, <2>2
    <3>2. \A t \in TeamId \ {q.team} : /\ Result(r, q).teams[t] = r.teams[t]
                                        /\ Result(r, q).members[t] = r.members[t]
      BY <2>1, <3>1, CreateAddsTeam
    <3> QED BY <2>1, <2>3, <3>2
  <2>6. \A t \in TeamId \ drawn' : Unmade(n, t)
    BY <1>1, <2>1, <2>2, <2>5 DEF CreationInv, Unmade, Exists
  <2>7. \A u \in User : IsFiniteSet(Entries(n, u))
    BY <1>1, <2>1, <2>2, <2>3, CreateAddsEntries DEF CreationInv
  <2>8. \A x \in Worker : x = w /\ \E t \in TeamId : req[x] = TeamRequest(post[x], t)
    BY <1>1, <1>5 DEF CreationInv, Replace
  <2>9. \A t \in TeamId \ drawn' : Unmade(Load(target), t)'
    BY <2>4, <2>6 DEF Unmade, Exists
  <2>10. \A u \in User : IsFiniteSet(Entries(Load(target), u))'
    BY <2>4, <2>7 DEF Entries
  <2>11. \A x \in Worker : (pc[x] # "idle" =>
           /\ post[x] \in Post
           /\ \E t \in TeamId : req[x] = TeamRequest(post[x], t)
           /\ pc[x] \in BeforeSwap => Unmade(Load(target), req[x].team))'
    BY <2>1, <2>4, <2>8 DEF BeforeSwap, TeamRequest
  <2> QED BY <2>9, <2>10, <2>11 DEF CreationInv
<1>6. ASSUME Load(target)' = Load(target), drawn' = drawn, \A w \in Worker : pc'[w] = "idle"
      PROVE  CreationInv'
  BY <1>2, <1>6
<1>7. ASSUME NEW w \in Worker, BlockAnswers(w) \/ BlockRefuses(w) \/ SaveRow(w) PROVE CreationInv'
  <2>1. UNCHANGED <<target, drawn>> /\ pc'[w] = "idle"
    BY <1>1, <1>7 DEF BlockAnswers, BlockRefuses, SaveRow, Answer, storeVars, StoreTypeOK, PropertyTypeOK
  <2>2. \A x \in Worker : x = w
    OBVIOUS
  <2> QED BY <1>6, <2>1, <2>2 DEF Load
<1>8. ASSUME NEW w \in Worker, NEW p \in Post, BeginPost(w, p) PROVE CreationInv'
  <2>1. UNCHANGED <<target, drawn>> /\ pc'[w] = "idle"
    BY <1>1, <1>8 DEF BeginPost, storeVars, PropertyTypeOK
  <2>2. \A x \in Worker : x = w
    OBVIOUS
  <2> QED BY <1>6, <2>1, <2>2 DEF Load
<1>9. CASE ProcessDies
  BY <1>6, <1>9 DEF ProcessDies, Load
<1>10. CASE UNCHANGED propertyVars
  BY <1>1, <1>2, <1>10 DEF propertyVars, storeVars, Load, CreationInv
<1> QED BY <1>3, <1>4, <1>5, <1>7, <1>8, <1>9, <1>10 DEF PropertyNext, BlockStores

(* A served post stays served: create_team takes no name and no seat away. *)
LEMMA ServedStays ==
  ASSUME HandlerInv, CreationInv, NEW p \in Post, Load(target) \in Registry, Served(p),
         (\E w \in Worker : Replace(w)) \/ Load(target)' = Load(target)
  PROVE  Served(p)'
<1>1. CASE Load(target)' = Load(target)
  BY <1>1 DEF Served, Named, Exists, TeamCount
<1>2. ASSUME NEW w \in Worker, Replace(w) PROVE Served(p)'
  <2>1. PICK q \in Request :
          /\ q.op = "create_team" /\ Unmade(Load(target), q.team) /\ MayCreate(Load(target), q)
          /\ Load(target)' = Result(Load(target), q)
    BY <1>2, SwapCreates
  <2>2. PICK r \in Registry : r = Load(target)
    OBVIOUS
  <2>3. PICK n : n = Result(r, q)
    OBVIOUS
  <2>4. Load(target)' = n
    BY <2>1, <2>2, <2>3
  <2>5. PICK u \in User : u = OwnerOf[p]
    BY PostsNamed
  <2>6. Unmade(r, q.team) /\ MayCreate(r, q) /\ IsFiniteSet(Entries(r, u))
    BY <2>1, <2>2 DEF CreationInv
  <2>7. Named(r, SlugOf[p]) # {} => Named(n, SlugOf[p]) = Named(r, SlugOf[p])
    BY <2>1, <2>3, <2>6, CreateNamesOne
  <2>8. IsFiniteSet(Entries(n, u)) /\ TeamCount(n, u) >= TeamCount(r, u)
    BY <2>1, <2>3, <2>6, CreateAddsEntries
  <2>9. TeamCount(n, u) \in Nat /\ TeamCount(r, u) \in Nat
    <3>1. TeamCount(n, u) = Cardinality(Entries(n, u)) /\ TeamCount(r, u) = Cardinality(Entries(r, u))
      BY DEF TeamCount, Entries
    <3>2. Cardinality(Entries(n, u)) \in Nat
      BY <2>8, FS_CardinalityType
    <3>3. Cardinality(Entries(r, u)) \in Nat
      BY <2>6, FS_CardinalityType
    <3> QED BY <3>1, <3>2, <3>3
  <2>10. Named(r, SlugOf[p]) # {} \/ TeamCount(r, u) >= MaxTeams
    BY <2>2, <2>5 DEF Served
  <2>11. Named(n, SlugOf[p]) # {} \/ TeamCount(n, u) >= MaxTeams
    <3>1. TeamCount(r, u) >= MaxTeams => TeamCount(n, u) >= MaxTeams
      BY <2>8, <2>9, TeamLimits
    <3> QED BY <2>7, <2>10, <3>1
  <2>12. Named(Load(target), SlugOf[p])' = Named(n, SlugOf[p])
    BY <2>4 DEF Named, Exists
  <2>13. TeamCount(Load(target), OwnerOf[p])' = TeamCount(n, u)
    BY <2>4, <2>5 DEF TeamCount
  <2> QED BY <2>11, <2>12, <2>13 DEF Served
<1> QED BY <1>1, <1>2

(* A post is served when its team is swapped in, and when it is refused.   *)
LEMMA SwapServes ==
  ASSUME HandlerInv, NEW w \in Worker, Load(target) \in Registry, Replace(w), NEW p, p = post[w]
  PROVE  Served(p)'
<1>1. PICK q \in Request :
        /\ q.op = "create_team" /\ q.slug = SlugOf[p] /\ Unmade(Load(target), q.team)
        /\ Load(target)' = Result(Load(target), q)
  BY SwapCreates
<1>2. PICK r \in Registry : r = Load(target)
  OBVIOUS
<1>3. PICK n : n = Result(r, q)
  OBVIOUS
<1>4. Unmade(r, q.team) /\ Load(target)' = n
  BY <1>1, <1>2, <1>3
<1>5. q.team \in TeamId /\ Exists(n, q.team) /\ n.teams[q.team].slug = SlugOf[p]
  <2>1. /\ q.team \in TeamId /\ Exists(Result(r, q), q.team)
        /\ Result(r, q).teams[q.team].slug = q.slug
    BY <1>1, <1>4, CreateAddsTeam
  <2> QED BY <1>1, <1>3, <2>1
<1>6. Named(n, SlugOf[p]) # {}
  BY <1>5 DEF Named
<1>7. Named(Load(target), SlugOf[p])' = Named(n, SlugOf[p])
  BY <1>4 DEF Named, Exists
<1> QED BY <1>6, <1>7 DEF Served

LEMMA RefusedIsServed ==
  ASSUME HandlerInv, NEW w \in Worker, Load(target) \in Registry, BlockRefuses(w)
  PROVE  Served(post[w])
<1>1. PICK t \in TeamId : ~Accepts(Load(target), TeamRequest(post[w], t), lapsed)
  BY TeamsCanBeMade DEF BlockRefuses
<1>2. PICK u \in User : u = OwnerOf[post[w]]
  BY PostsNamed DEF HandlerInv, PropertyTypeOK, BlockRefuses
<1>3. PICK r : r = Load(target)
  OBVIOUS
<1>4. \/ ~(TeamCount(r, u) < MaxTeams)
      \/ \E o \in TeamId : Exists(r, o) /\ r.teams[o].slug = SlugOf[post[w]]
  BY <1>1, <1>2, <1>3 DEF Accepts, MayCreate, TeamRequest
<1>5. TeamCount(r, u) \in Nat
  <2>1. IsFiniteSet(Entries(r, u)) /\ TeamCount(r, u) = Cardinality(Entries(r, u))
    BY <1>3 DEF HandlerInv, CreationInv, TeamCount, Entries
  <2> QED BY <2>1, FS_CardinalityType
<1>6. ~(TeamCount(r, u) < MaxTeams) => TeamCount(r, u) >= MaxTeams
  BY <1>5, TeamLimits
<1>7. TeamCount(r, u) >= MaxTeams \/ Named(r, SlugOf[post[w]]) # {}
  BY <1>4, <1>6 DEF Named
<1> QED BY <1>2, <1>3, <1>7 DEF Served

LEMMA HandlerServes ==
  ASSUME \A v, w \in Worker : v = w, HandlerInv, ServedInv, [PropertyNext]_propertyVars,
         ~ \E w \in Worker : pc[w] = "writing" /\ pc'[w] = "saved"
  PROVE  ServedInv'
<1>1. /\ PropertyTypeOK /\ StoreTypeOK /\ CreationInv /\ Load(target) \in Registry
      /\ (\E w \in Worker : Replace(w)) \/ Load(target)' = Load(target)
  BY HandlerStores DEF HandlerInv, PropertyTypeOK
<1>2. \A p \in Post : Served(p) => Served(p)'
  BY <1>1, ServedStays
(* What is left to show of a step.                                         *)
<1>3. ASSUME \A p \in listed' : p \in listed \/ Served(p),
             \A w \in Worker : stage'[w] \in {"workflow", "save"} \/ pc'[w] = "saved" =>
               \E p \in Post : post'[w] = p /\ (Served(p) \/ Served(p)')
      PROVE  ServedInv'
  <2>1. listed' \subseteq Post
    BY HandlerTypes DEF PropertyTypeOK
  <2>2. \A p \in listed' : Served(p)'
    BY <1>2, <1>3, <2>1 DEF ServedInv
  <2>3. ASSUME NEW w \in Worker, (stage[w] \in {"workflow", "save"} \/ pc[w] = "saved")'
        PROVE  Served(post[w])'
    <3>1. PICK p \in Post : post'[w] = p /\ Served(p)'
      BY <1>2, <1>3, <2>3
    <3> QED BY <3>1 DEF Served
  <2> QED BY <2>2, <2>3 DEF ServedInv
(* A step that comes no further in any handler.                            *)
<1>4. ASSUME UNCHANGED <<post, stage, listed>>, \A w \in Worker : pc'[w] = "saved" => pc[w] = "saved"
      PROVE  ServedInv'
  <2>1. \A w \in Worker : stage'[w] \in {"workflow", "save"} \/ pc'[w] = "saved" =>
          post[w] \in Post /\ Served(post[w])
    BY <1>1, <1>4 DEF ServedInv, PropertyTypeOK
  <2> QED BY <1>3, <1>4, <2>1
<1>5. ASSUME NEW w \in Worker, NEW p \in Post, BeginPost(w, p) PROVE ServedInv'
  <2>1. listed' = listed /\ stage'[w] = "team" /\ pc'[w] = "idle"
    BY <1>1, <1>5 DEF BeginPost, storeVars, PropertyTypeOK
  <2>2. \A x \in Worker : x = w
    OBVIOUS
  <2> QED BY <1>3, <2>1, <2>2
<1>6. ASSUME NEW w \in Worker, BlockServes(w) PROVE ServedInv'
  BY <1>1, <1>4, <1>6 DEF BlockServes, ServeCopy, StoreTypeOK
<1>7. ASSUME NEW w \in Worker, BlockStores(w), ~Replace(w) PROVE ServedInv'
  <2>1. OpenTmp(w) \/ WriteText(w)
    BY <1>1, <1>7 DEF BlockStores, DiskError, StoreTypeOK
  <2>2. \A x \in Worker : pc'[x] = "saved" => pc[x] = "saved"
    BY <1>1, <2>1 DEF OpenTmp, WriteText, StoreTypeOK
  <2> QED BY <1>4, <1>7, <2>2 DEF BlockStores
<1>8. ASSUME NEW w \in Worker, BlockStores(w), Replace(w) PROVE ServedInv'
  <2>1. post[w] \in Post /\ UNCHANGED <<post, stage, listed>>
    BY <1>8, SwapCreates DEF BlockStores
  <2>2. \A p : p = post[w] => Served(p)'
    BY <1>1, <1>8, SwapServes
  <2>3. \A x \in Worker : x = w
    OBVIOUS
  <2> QED BY <1>3, <2>1, <2>2, <2>3
<1>9. ASSUME NEW w \in Worker, BlockAnswers(w) PROVE ServedInv'
  <2>1. pc[w] = "saved" /\ UNCHANGED <<post, listed>>
    BY <1>9 DEF BlockAnswers, Answer
  <2>2. post[w] \in Post /\ Served(post[w])
    BY <1>1, <2>1 DEF ServedInv, PropertyTypeOK
  <2>3. \A x \in Worker : x = w
    OBVIOUS
  <2> QED BY <1>3, <2>1, <2>2, <2>3
<1>10. ASSUME NEW w \in Worker, BlockRefuses(w) PROVE ServedInv'
  <2>1. post[w] \in Post /\ UNCHANGED <<post, listed>>
    BY <1>1, <1>10 DEF BlockRefuses, PropertyTypeOK
  <2>2. Served(post[w])
    BY <1>1, <1>10, RefusedIsServed
  <2>3. \A x \in Worker : x = w
    OBVIOUS
  <2> QED BY <1>3, <2>1, <2>2, <2>3
<1>11. ASSUME NEW w \in Worker, SaveRow(w) PROVE ServedInv'
  <2>1. listed' = listed \cup {post[w]} /\ stage'[w] = "idle" /\ pc'[w] = "idle"
    BY <1>1, <1>11 DEF SaveRow, storeVars, PropertyTypeOK
  <2>2. Served(post[w])
    BY <1>11 DEF SaveRow, ServedInv
  <2>3. \A x \in Worker : x = w
    OBVIOUS
  <2> QED BY <1>3, <2>1, <2>2, <2>3
<1>12. CASE ProcessDies
  <2>1. listed' = listed /\ \A x \in Worker : stage'[x] = "idle" /\ pc'[x] = "idle"
    BY <1>12 DEF ProcessDies
  <2> QED BY <1>3, <2>1
<1>13. CASE UNCHANGED propertyVars
  BY <1>4, <1>13 DEF propertyVars, storeVars
<1> QED BY <1>5, <1>6, <1>7, <1>8, <1>9, <1>10, <1>11, <1>12, <1>13 DEF PropertyNext

LEMMA HandlerInvariant ==
  ASSUME \A v, w \in Worker : v = w
  PROVE  ListingSpec => []HandlerInv
<1>1. HandlerInv /\ [ListingNext]_<<propertyVars, diskFailed>> => HandlerInv'
  <2> SUFFICES ASSUME HandlerInv, [ListingNext]_<<propertyVars, diskFailed>> PROVE HandlerInv'
    OBVIOUS
  <2>1. [PropertyNext]_propertyVars
    BY DEF ListingNext
  <2>2. StoreInv' /\ AloneInv' /\ PropertyTypeOK' /\ CreationInv'
    BY <2>1, HandlerStores, HandlerTypes, HandlerCreates
  <2>3. ASSUME ~diskFailed' PROVE ServedInv'
    <3>1. ~diskFailed /\ ~ \E w \in Worker : pc[w] = "writing" /\ pc'[w] = "saved"
      <4>1. CASE ListingNext
        BY <2>3, <4>1 DEF ListingNext
      <4>2. CASE UNCHANGED <<propertyVars, diskFailed>>
        <5>1. pc' = pc /\ diskFailed' = diskFailed
          BY <4>2 DEF propertyVars, storeVars
        <5> QED BY <2>3, <5>1
      <4> QED BY <4>1, <4>2
    <3>2. ServedInv
      BY <3>1 DEF HandlerInv
    <3> QED BY <2>1, <3>1, <3>2, HandlerServes
  <2> QED BY <2>2, <2>3 DEF HandlerInv
<1> QED BY <1>1, HandlerInit, PTL DEF ListingSpec

(* Properties posted one at a time, with a crash at any step of the        *)
(* handler: as long as no save was lost to the disk, a listed row has the  *)
(* team of its name, or its owner was at the limit of teams.               *)
THEOREM ListedPropertiesHaveTeams ==
  ASSUME \A v, w \in Worker : v = w
  PROVE  ListingSpec => []ListedHasTeamIfSaved
<1>1. HandlerInv => ListedHasTeamIfSaved
  <2> SUFFICES ASSUME HandlerInv, ~diskFailed PROVE ListedHasTeam
    BY DEF ListedHasTeamIfSaved, HandlerInv
  <2> QED BY DEF HandlerInv, ServedInv, Served, Named, ListedHasTeam, TeamsNamed
<1> QED BY <1>1, HandlerInvariant, PTL

(* Neither a repeated POST nor one that died half way, and no disk error,  *)
(* replaces a property's team by another or adds a second.                 *)
THEOREM TeamsOfListingsStay ==
  ASSUME \A v, w \in Worker : v = w
  PROVE  ListingSpec => TeamIsStable
<1>1. HandlerInv /\ [ListingNext]_<<propertyVars, diskFailed>> =>
        [\A s \in Slug : TeamsNamed(s) # {} => TeamsNamed(s)' = TeamsNamed(s)]_propertyVars
  <2> SUFFICES ASSUME HandlerInv, [PropertyNext]_propertyVars, NEW s \in Slug, TeamsNamed(s) # {}
               PROVE  TeamsNamed(s)' = TeamsNamed(s)
    BY DEF ListingNext
  <2>1. /\ Load(target) \in Registry
        /\ (\E w \in Worker : Replace(w)) \/ Load(target)' = Load(target)
    BY HandlerStores
  <2>2. CASE Load(target)' = Load(target)
    BY <2>2 DEF TeamsNamed, Exists
  <2>3. ASSUME NEW w \in Worker, Replace(w) PROVE TeamsNamed(s)' = TeamsNamed(s)
    <3>1. PICK q \in Request :
            /\ q.op = "create_team" /\ Unmade(Load(target), q.team) /\ MayCreate(Load(target), q)
            /\ Load(target)' = Result(Load(target), q)
      BY <2>3, SwapCreates
    <3>2. PICK r \in Registry : r = Load(target)
      BY <2>1
    <3>3. Unmade(r, q.team) /\ MayCreate(r, q) /\ Load(target)' = Result(r, q) /\ Named(r, s) # {}
      BY <3>1, <3>2 DEF TeamsNamed, Named
    <3>4. Named(Result(r, q), s) = Named(r, s)
      BY <3>1, <3>3, CreateNamesOne
    <3>5. TeamsNamed(s)' = Named(Result(r, q), s) /\ TeamsNamed(s) = Named(r, s)
      BY <3>2, <3>3 DEF TeamsNamed, Named, Exists
    <3> QED BY <3>4, <3>5
  <2> QED BY <2>1, <2>2, <2>3
<1> QED BY <1>1, HandlerInvariant, PTL DEF ListingSpec, TeamIsStable
=============================================================================
