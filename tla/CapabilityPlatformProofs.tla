---------------------- MODULE CapabilityPlatformProofs ----------------------
(***************************************************************************)
(* What is stored, for any number of threads, requests, capabilities and   *)
(* blocks, under every fault.                                              *)
(***************************************************************************)
EXTENDS MCCapabilityPlatform, TLAPS

(* A thread that serves a request serves one of its own, still unanswered. *)
JobsOwned ==
  /\ \A t \in Thread : job[t] # Nothing => at[t] # "idle" /\ answer[job[t]] = "pending"
  /\ \A t, x \in Thread : job[t] # Nothing /\ job[t] = job[x] => t = x

(* How far a request has come tells where its row is.                      *)
RowFollowsJob ==
  \A t \in Thread :
    /\ at[t] \in {"blocks", "schema", "insert"} =>
         ~Stored(job[t]) /\ \A x \in Thread : open[x] # job[t]
    /\ at[t] = "insert" => open[t] = Nothing
    /\ at[t] = "commit" => open[t] = job[t]
    /\ at[t] = "answer" => Stored(job[t]) /\ \A x \in Thread : open[x] # job[t]
    /\ at[t] \in {"schema", "insert", "commit", "answer"} => job[t] \in ran

(* A request nobody has taken has no row.                                  *)
UnsentHasNoRow ==
  \A p \in Post : answer[p] = "unsent" =>
    ~Stored(p) /\ \A t \in Thread : open[t] # p

PlatformInv ==
  /\ PlatformTypeOK /\ JobsOwned /\ RowFollowsJob /\ UnsentHasNoRow
  /\ OkIsStored /\ StoredAfterBlocks /\ StoredOnce

(* Committing nothing changes no table; committing a row stores that row   *)
(* at the end of its own table and nothing else anywhere.                  *)
LEMMA RowsWithStores ==
  ASSUME PlatformTypeOK, NEW o \in Post \cup {Nothing}, rows' = RowsWith(o)
  PROVE  /\ rows' \in [Capability -> Seq(Post)]
         /\ \A p \in Post : Stored(p)' <=> Stored(p) \/ p = o
         /\ \A c \in Capability :
              /\ Len(rows[c]) <= Len(rows'[c])
              /\ \A i \in DOMAIN rows[c] : rows'[c][i] = rows[c][i]
  <1>. USE PlatformRouting, PlatformNothing
  <1>1. CASE o = Nothing
    BY <1>1 DEF RowsWith, PlatformTypeOK, Stored
  <1>2. CASE o \in Post
    <2>. DEFINE k == CapabilityOf[o]
    <2>1. k \in Capability /\ rows[k] \in Seq(Post) /\ o # Nothing
      BY <1>2 DEF PlatformTypeOK
    <2>2. rows' = [rows EXCEPT ![k] = Append(rows[k], o)]
      BY <2>1 DEF RowsWith
    <2>3. rows' \in [Capability -> Seq(Post)]
      BY <1>2, <2>1, <2>2 DEF PlatformTypeOK
    <2>4. \A c \in Capability : c # k => rows'[c] = rows[c]
      BY <2>2 DEF PlatformTypeOK
    <2>5. rows'[k] = Append(rows[k], o)
      BY <2>1, <2>2 DEF PlatformTypeOK
    <2>6. /\ Len(rows'[k]) = Len(rows[k]) + 1
          /\ rows'[k][Len(rows[k]) + 1] = o
          /\ DOMAIN rows[k] = 1 .. Len(rows[k])
          /\ DOMAIN rows'[k] = 1 .. (Len(rows[k]) + 1)
          /\ Len(rows[k]) \in Nat
          /\ \A i \in DOMAIN rows[k] : rows'[k][i] = rows[k][i]
      BY <1>2, <2>1, <2>5
    <2>7. ASSUME NEW p \in Post PROVE Stored(p)' <=> Stored(p) \/ p = o
      <3>1. CASE CapabilityOf[p] = k
        BY <2>6, <3>1 DEF Stored
      <3>2. CASE CapabilityOf[p] # k
        BY <2>4, <3>2 DEF Stored
      <3>. QED BY <3>1, <3>2
    <2>8. ASSUME NEW c \in Capability
          PROVE  /\ Len(rows[c]) <= Len(rows'[c])
                 /\ \A i \in DOMAIN rows[c] : rows'[c][i] = rows[c][i]
      <3>1. CASE c = k BY <2>6, <3>1
      <3>2. CASE c # k
        <4>1. rows'[c] = rows[c] /\ rows[c] \in Seq(Post)
          BY <2>4, <3>2 DEF PlatformTypeOK
        <4>. QED BY <4>1
      <3>. QED BY <3>1, <3>2
    <2>. QED BY <2>3, <2>7, <2>8
  <1>. QED BY <1>1, <1>2

(* A row that is not stored yet can be committed without repeating one.    *)
LEMMA RowsWithKeepsDistinct ==
  ASSUME PlatformTypeOK, NEW o \in Post \cup {Nothing}, rows' = RowsWith(o),
         o # Nothing => ~Stored(o),
         \A c \in Capability : \A i, j \in DOMAIN rows[c] : rows[c][i] = rows[c][j] => i = j
  PROVE  \A c \in Capability : \A i, j \in DOMAIN rows'[c] : rows'[c][i] = rows'[c][j] => i = j
  <1>. USE PlatformRouting, PlatformNothing
  <1>1. CASE o = Nothing
    BY <1>1 DEF RowsWith
  <1>2. CASE o \in Post
    <2>. DEFINE k == CapabilityOf[o]
    <2>1. k \in Capability /\ rows[k] \in Seq(Post) /\ o # Nothing
      BY <1>2 DEF PlatformTypeOK
    <2>2. rows'[k] = Append(rows[k], o)
          /\ \A c \in Capability : c # k => rows'[c] = rows[c]
      BY <2>1 DEF RowsWith, PlatformTypeOK
    <2>3. /\ DOMAIN rows[k] = 1 .. Len(rows[k])
          /\ DOMAIN rows'[k] = 1 .. (Len(rows[k]) + 1)
          /\ Len(rows[k]) \in Nat
          /\ rows'[k][Len(rows[k]) + 1] = o
          /\ \A i \in DOMAIN rows[k] : rows'[k][i] = rows[k][i]
      BY <1>2, <2>1, <2>2
    <2>4. \A i \in DOMAIN rows[k] : rows[k][i] # o
      BY <2>1 DEF Stored
    <2>5. \A i, j \in DOMAIN rows'[k] : rows'[k][i] = rows'[k][j] => i = j
      BY <2>1, <2>3, <2>4
    <2>6. ASSUME NEW c \in Capability, NEW i \in DOMAIN rows'[c],
                 NEW j \in DOMAIN rows'[c], rows'[c][i] = rows'[c][j]
          PROVE  i = j
      <3>1. CASE c = k BY <2>5, <2>6, <3>1
      <3>2. CASE c # k
        <4>1. rows'[c] = rows[c] BY <2>2, <3>2
        <4>. QED BY <2>6, <4>1
      <3>. QED BY <3>1, <3>2
    <2>. QED BY <2>6
  <1>. QED BY <1>1, <1>2

(* Refusing a request at the door. *)
LEMMA TurnAwayKeeps ==
  ASSUME PlatformInv, NEW q \in Post, TurnAway(q)
  PROVE  PlatformInv'
  <1>. USE PlatformRouting, PlatformNothing DEF PlatformInv
  <1>1. \A p \in Post : Stored(p)' <=> Stored(p)
    BY DEF Stored, TurnAway
  <1>2. PlatformTypeOK'
    BY <1>1 DEF PlatformTypeOK, TurnAway
  <1>3. JobsOwned'
    BY <1>1 DEF PlatformTypeOK, JobsOwned, TurnAway
  <1>4. RowFollowsJob'
    BY <1>1 DEF PlatformTypeOK, JobsOwned, RowFollowsJob, UnsentHasNoRow, TurnAway
  <1>5. UnsentHasNoRow'
    BY <1>1 DEF PlatformTypeOK, UnsentHasNoRow, JobsOwned, TurnAway
  <1>6. OkIsStored'
    BY <1>1 DEF PlatformTypeOK, OkIsStored, RowFollowsJob, TurnAway
  <1>7. StoredAfterBlocks'
    BY <1>1 DEF PlatformTypeOK, StoredAfterBlocks, TurnAway
  <1>8. StoredOnce'
    BY <1>1 DEF PlatformTypeOK, StoredOnce, TurnAway
  <1>. QED BY <1>2, <1>3, <1>4, <1>5, <1>6, <1>7, <1>8

(* Taking a request. *)
LEMMA TakeKeeps ==
  ASSUME PlatformInv, NEW t \in Thread, NEW q \in Post, Take(t, q)
  PROVE  PlatformInv'
  <1>. USE PlatformRouting, PlatformNothing DEF PlatformInv
  <1>1. \A p \in Post : Stored(p)' <=> Stored(p)
    BY DEF Stored, Take
  <1>2. PlatformTypeOK'
    BY <1>1 DEF PlatformTypeOK, Take
  <1>3. JobsOwned'
    BY <1>1 DEF PlatformTypeOK, JobsOwned, Take
  <1>4. RowFollowsJob'
    BY <1>1 DEF PlatformTypeOK, JobsOwned, RowFollowsJob, UnsentHasNoRow, Take
  <1>5. UnsentHasNoRow'
    BY <1>1 DEF PlatformTypeOK, UnsentHasNoRow, JobsOwned, Take
  <1>6. OkIsStored'
    BY <1>1 DEF PlatformTypeOK, OkIsStored, RowFollowsJob, Take
  <1>7. StoredAfterBlocks'
    BY <1>1 DEF PlatformTypeOK, StoredAfterBlocks, Take
  <1>8. StoredOnce'
    BY <1>1 DEF PlatformTypeOK, StoredOnce, Take
  <1>. QED BY <1>2, <1>3, <1>4, <1>5, <1>6, <1>7, <1>8

(* Answering ok False, whatever went wrong. *)
LEMMA RefuseKeeps ==
  ASSUME PlatformInv, NEW t \in Thread, at[t] # "idle", Refuse(t)
  PROVE  PlatformInv'
  <1>. USE PlatformRouting, PlatformNothing DEF PlatformInv
  <1>1. \A p \in Post : Stored(p)' <=> Stored(p)
    BY DEF Stored, Refuse
  <1>2. PlatformTypeOK'
    BY <1>1 DEF PlatformTypeOK, Refuse
  <1>3. JobsOwned'
    BY <1>1 DEF PlatformTypeOK, JobsOwned, Refuse
  <1>4. RowFollowsJob'
    BY <1>1 DEF PlatformTypeOK, JobsOwned, RowFollowsJob, UnsentHasNoRow, Refuse
  <1>5. UnsentHasNoRow'
    BY <1>1 DEF PlatformTypeOK, UnsentHasNoRow, JobsOwned, Refuse
  <1>6. OkIsStored'
    BY <1>1 DEF PlatformTypeOK, OkIsStored, RowFollowsJob, Refuse
  <1>7. StoredAfterBlocks'
    BY <1>1 DEF PlatformTypeOK, StoredAfterBlocks, Refuse
  <1>8. StoredOnce'
    BY <1>1 DEF PlatformTypeOK, StoredOnce, Refuse
  <1>. QED BY <1>2, <1>3, <1>4, <1>5, <1>6, <1>7, <1>8

(* Executing a block. *)
LEMMA RunBlockKeeps ==
  ASSUME PlatformInv, NEW t \in Thread, RunBlock(t)
  PROVE  PlatformInv'
  <1>. USE PlatformRouting, PlatformNothing DEF PlatformInv
  <1>1. \A p \in Post : Stored(p)' <=> Stored(p)
    BY DEF Stored, RunBlock
  <1>2. PlatformTypeOK'
    BY <1>1 DEF PlatformTypeOK, RunBlock
  <1>3. JobsOwned'
    BY <1>1 DEF PlatformTypeOK, JobsOwned, RunBlock
  <1>4. RowFollowsJob'
    BY <1>1 DEF PlatformTypeOK, JobsOwned, RowFollowsJob, UnsentHasNoRow, RunBlock
  <1>5. UnsentHasNoRow'
    BY <1>1 DEF PlatformTypeOK, UnsentHasNoRow, JobsOwned, RunBlock
  <1>6. OkIsStored'
    BY <1>1 DEF PlatformTypeOK, OkIsStored, RowFollowsJob, RunBlock
  <1>7. StoredAfterBlocks'
    BY <1>1 DEF PlatformTypeOK, StoredAfterBlocks, RunBlock
  <1>8. StoredOnce'
    BY <1>1 DEF PlatformTypeOK, StoredOnce, RunBlock
  <1>. QED BY <1>2, <1>3, <1>4, <1>5, <1>6, <1>7, <1>8

(* Going on to the store. *)
LEMMA BeginSaveKeeps ==
  ASSUME PlatformInv, NEW t \in Thread, BeginSave(t)
  PROVE  PlatformInv'
  <1>. USE PlatformRouting, PlatformNothing DEF PlatformInv
  <1>1. \A p \in Post : Stored(p)' <=> Stored(p)
    BY DEF Stored, BeginSave
  <1>2. PlatformTypeOK'
    BY <1>1 DEF PlatformTypeOK, BeginSave
  <1>3. JobsOwned'
    BY <1>1 DEF PlatformTypeOK, JobsOwned, BeginSave
  <1>4. RowFollowsJob'
    BY <1>1 DEF PlatformTypeOK, JobsOwned, RowFollowsJob, UnsentHasNoRow, BeginSave
  <1>5. UnsentHasNoRow'
    BY <1>1 DEF PlatformTypeOK, UnsentHasNoRow, JobsOwned, BeginSave
  <1>6. OkIsStored'
    BY <1>1 DEF PlatformTypeOK, OkIsStored, RowFollowsJob, BeginSave
  <1>7. StoredAfterBlocks'
    BY <1>1 DEF PlatformTypeOK, StoredAfterBlocks, BeginSave
  <1>8. StoredOnce'
    BY <1>1 DEF PlatformTypeOK, StoredOnce, BeginSave
  <1>. QED BY <1>2, <1>3, <1>4, <1>5, <1>6, <1>7, <1>8

(* Answering ok. *)
LEMMA AnswerOkKeeps ==
  ASSUME PlatformInv, NEW t \in Thread, AnswerOk(t)
  PROVE  PlatformInv'
  <1>. USE PlatformRouting, PlatformNothing DEF PlatformInv
  <1>1. \A p \in Post : Stored(p)' <=> Stored(p)
    BY DEF Stored, AnswerOk
  <1>2. PlatformTypeOK'
    BY <1>1 DEF PlatformTypeOK, AnswerOk
  <1>3. JobsOwned'
    BY <1>1 DEF PlatformTypeOK, JobsOwned, AnswerOk
  <1>4. RowFollowsJob'
    BY <1>1 DEF PlatformTypeOK, JobsOwned, RowFollowsJob, UnsentHasNoRow, AnswerOk
  <1>5. UnsentHasNoRow'
    BY <1>1 DEF PlatformTypeOK, UnsentHasNoRow, JobsOwned, AnswerOk
  <1>6. OkIsStored'
    BY <1>1 DEF PlatformTypeOK, OkIsStored, RowFollowsJob, AnswerOk
  <1>7. StoredAfterBlocks'
    BY <1>1 DEF PlatformTypeOK, StoredAfterBlocks, AnswerOk
  <1>8. StoredOnce'
    BY <1>1 DEF PlatformTypeOK, StoredOnce, AnswerOk
  <1>. QED BY <1>2, <1>3, <1>4, <1>5, <1>6, <1>7, <1>8

(* Inserting a row. *)
LEMMA InsertKeeps ==
  ASSUME PlatformInv, NEW t \in Thread, Insert(t)
  PROVE  PlatformInv'
  <1>. USE PlatformRouting, PlatformNothing DEF PlatformInv
  <1>1. \A p \in Post : Stored(p)' <=> Stored(p)
    BY DEF Stored, Insert
  <1>2. PlatformTypeOK'
    BY <1>1 DEF PlatformTypeOK, Insert
  <1>3. JobsOwned'
    BY <1>1 DEF PlatformTypeOK, JobsOwned, Insert
  <1>4. RowFollowsJob'
    BY <1>1 DEF PlatformTypeOK, JobsOwned, RowFollowsJob, UnsentHasNoRow, Insert
  <1>5. UnsentHasNoRow'
    BY <1>1 DEF PlatformTypeOK, UnsentHasNoRow, JobsOwned, Insert
  <1>6. OkIsStored'
    BY <1>1 DEF PlatformTypeOK, OkIsStored, RowFollowsJob, Insert
  <1>7. StoredAfterBlocks'
    BY <1>1 DEF PlatformTypeOK, StoredAfterBlocks, RowFollowsJob, Insert
  <1>8. StoredOnce'
    BY <1>1 DEF PlatformTypeOK, StoredOnce, RowFollowsJob, Insert
  <1>. QED BY <1>2, <1>3, <1>4, <1>5, <1>6, <1>7, <1>8

(* Closing an idle thread's connection. *)
LEMMA ThreadExitKeeps ==
  ASSUME PlatformInv, NEW t \in Thread, ThreadExit(t)
  PROVE  PlatformInv'
  <1>. USE PlatformRouting, PlatformNothing DEF PlatformInv
  <1>1. \A p \in Post : Stored(p)' <=> Stored(p)
    BY DEF Stored, ThreadExit
  <1>2. PlatformTypeOK'
    BY <1>1 DEF PlatformTypeOK, ThreadExit
  <1>3. JobsOwned'
    BY <1>1 DEF PlatformTypeOK, JobsOwned, ThreadExit
  <1>4. RowFollowsJob'
    BY <1>1 DEF PlatformTypeOK, JobsOwned, RowFollowsJob, UnsentHasNoRow, ThreadExit
  <1>5. UnsentHasNoRow'
    BY <1>1 DEF PlatformTypeOK, UnsentHasNoRow, JobsOwned, ThreadExit
  <1>6. OkIsStored'
    BY <1>1 DEF PlatformTypeOK, OkIsStored, RowFollowsJob, ThreadExit
  <1>7. StoredAfterBlocks'
    BY <1>1 DEF PlatformTypeOK, StoredAfterBlocks, ThreadExit
  <1>8. StoredOnce'
    BY <1>1 DEF PlatformTypeOK, StoredOnce, ThreadExit
  <1>. QED BY <1>2, <1>3, <1>4, <1>5, <1>6, <1>7, <1>8

(* The death of the process. *)
LEMMA CrashKeeps ==
  ASSUME PlatformInv, Crash
  PROVE  PlatformInv'
  <1>. USE PlatformRouting, PlatformNothing DEF PlatformInv
  <1>1. \A p \in Post : Stored(p)' <=> Stored(p)
    BY DEF Stored, Crash
  <1>2. PlatformTypeOK'
    BY <1>1 DEF PlatformTypeOK, Crash
  <1>3. JobsOwned'
    BY <1>1 DEF PlatformTypeOK, JobsOwned, Crash
  <1>4. RowFollowsJob'
    BY <1>1 DEF PlatformTypeOK, JobsOwned, RowFollowsJob, UnsentHasNoRow, Crash
  <1>5. UnsentHasNoRow'
    BY <1>1 DEF PlatformTypeOK, UnsentHasNoRow, JobsOwned, Crash
  <1>6. OkIsStored'
    BY <1>1 DEF PlatformTypeOK, OkIsStored, RowFollowsJob, Crash
  <1>7. StoredAfterBlocks'
    BY <1>1 DEF PlatformTypeOK, StoredAfterBlocks, Crash
  <1>8. StoredOnce'
    BY <1>1 DEF PlatformTypeOK, StoredOnce, Crash
  <1>. QED BY <1>2, <1>3, <1>4, <1>5, <1>6, <1>7, <1>8

(* Committing what an earlier request of the thread left open. *)
LEMMA EnsureSchemaKeeps ==
  ASSUME PlatformInv, NEW t \in Thread, EnsureSchema(t)
  PROVE  PlatformInv'
  <1>. USE PlatformRouting, PlatformNothing DEF PlatformInv
  <1>1. open[t] \in Post \cup {Nothing} /\ rows' = RowsWith(open[t])
    BY DEF PlatformTypeOK, EnsureSchema
  <1>2. /\ rows' \in [Capability -> Seq(Post)]
        /\ \A p \in Post : Stored(p)' <=> Stored(p) \/ p = open[t]
    BY <1>1, RowsWithStores
  <1>3. open[t] # Nothing => ~Stored(open[t])
    BY DEF StoredOnce
  <1>4. \A c \in Capability : \A i, j \in DOMAIN rows'[c] : rows'[c][i] = rows'[c][j] => i = j
    BY <1>1, <1>3, RowsWithKeepsDistinct DEF StoredOnce
  <1>5. PlatformTypeOK'
    BY <1>2 DEF PlatformTypeOK, EnsureSchema
  <1>6. JobsOwned'
    BY <1>2 DEF PlatformTypeOK, JobsOwned, EnsureSchema
  <1>7. RowFollowsJob'
    BY <1>2 DEF PlatformTypeOK, JobsOwned, RowFollowsJob, StoredOnce, EnsureSchema
  <1>8. UnsentHasNoRow'
    BY <1>2 DEF PlatformTypeOK, UnsentHasNoRow, EnsureSchema
  <1>9. OkIsStored'
    BY <1>2 DEF PlatformTypeOK, OkIsStored, EnsureSchema
  <1>10. StoredAfterBlocks'
    BY <1>2 DEF PlatformTypeOK, StoredAfterBlocks, EnsureSchema
  <1>11. StoredOnce'
    BY <1>2, <1>4 DEF PlatformTypeOK, StoredOnce, EnsureSchema
  <1>. QED BY <1>5, <1>6, <1>7, <1>8, <1>9, <1>10, <1>11

(* Committing the request's own row. *)
LEMMA CommitKeeps ==
  ASSUME PlatformInv, NEW t \in Thread, Commit(t)
  PROVE  PlatformInv'
  <1>. USE PlatformRouting, PlatformNothing DEF PlatformInv
  <1>1. open[t] \in Post \cup {Nothing} /\ rows' = RowsWith(open[t])
    BY DEF PlatformTypeOK, Commit
  <1>2. /\ rows' \in [Capability -> Seq(Post)]
        /\ \A p \in Post : Stored(p)' <=> Stored(p) \/ p = open[t]
    BY <1>1, RowsWithStores
  <1>3. open[t] # Nothing => ~Stored(open[t])
    BY DEF StoredOnce
  <1>4. \A c \in Capability : \A i, j \in DOMAIN rows'[c] : rows'[c][i] = rows'[c][j] => i = j
    BY <1>1, <1>3, RowsWithKeepsDistinct DEF StoredOnce
  <1>5. PlatformTypeOK'
    BY <1>2 DEF PlatformTypeOK, Commit
  <1>6. JobsOwned'
    BY <1>2 DEF PlatformTypeOK, JobsOwned, Commit
  <1>7. RowFollowsJob'
    BY <1>2 DEF PlatformTypeOK, JobsOwned, RowFollowsJob, StoredOnce, Commit
  <1>8. UnsentHasNoRow'
    BY <1>2 DEF PlatformTypeOK, UnsentHasNoRow, Commit
  <1>9. OkIsStored'
    BY <1>2 DEF PlatformTypeOK, OkIsStored, Commit
  <1>10. StoredAfterBlocks'
    BY <1>2 DEF PlatformTypeOK, StoredAfterBlocks, Commit
  <1>11. StoredOnce'
    BY <1>2, <1>4 DEF PlatformTypeOK, StoredOnce, Commit
  <1>. QED BY <1>5, <1>6, <1>7, <1>8, <1>9, <1>10, <1>11

(* Listing, which commits what the thread left open. *)
LEMMA ListKeeps ==
  ASSUME PlatformInv, NEW t \in Thread, NEW c \in Capability, List(t, c)
  PROVE  PlatformInv'
  <1>. USE PlatformRouting, PlatformNothing DEF PlatformInv
  <1>1. open[t] \in Post \cup {Nothing} /\ rows' = RowsWith(open[t])
    BY DEF PlatformTypeOK, List
  <1>2. /\ rows' \in [Capability -> Seq(Post)]
        /\ \A p \in Post : Stored(p)' <=> Stored(p) \/ p = open[t]
    BY <1>1, RowsWithStores
  <1>3. open[t] # Nothing => ~Stored(open[t])
    BY DEF StoredOnce
  <1>4. \A d \in Capability : \A i, j \in DOMAIN rows'[d] : rows'[d][i] = rows'[d][j] => i = j
    BY <1>1, <1>3, RowsWithKeepsDistinct DEF StoredOnce
  <1>5. PlatformTypeOK'
    BY <1>2 DEF PlatformTypeOK, List
  <1>6. JobsOwned'
    BY <1>2 DEF PlatformTypeOK, JobsOwned, List
  <1>7. RowFollowsJob'
    BY <1>2 DEF PlatformTypeOK, JobsOwned, RowFollowsJob, StoredOnce, List
  <1>8. UnsentHasNoRow'
    BY <1>2 DEF PlatformTypeOK, UnsentHasNoRow, List
  <1>9. OkIsStored'
    BY <1>2 DEF PlatformTypeOK, OkIsStored, List
  <1>10. StoredAfterBlocks'
    BY <1>2 DEF PlatformTypeOK, StoredAfterBlocks, List
  <1>11. StoredOnce'
    BY <1>2, <1>4 DEF PlatformTypeOK, StoredOnce, List
  <1>. QED BY <1>5, <1>6, <1>7, <1>8, <1>9, <1>10, <1>11

(* Every step keeps the invariant.                                         *)
LEMMA PlatformStep ==
  ASSUME PlatformInv, [PlatformNext]_platformVars
  PROVE  PlatformInv'
  <1>1. ASSUME NEW t \in Thread, Progress(t) PROVE PlatformInv'
    <2>1. CASE RunBlock(t) BY <2>1, RunBlockKeeps
    <2>2. CASE BlockRaises(t) BY <2>2, RefuseKeeps DEF BlockRaises
    <2>3. CASE BeginSave(t) BY <2>3, BeginSaveKeeps
    <2>4. CASE EnsureSchema(t) BY <2>4, EnsureSchemaKeeps
    <2>5. CASE SchemaLocked(t) BY <2>5, RefuseKeeps DEF SchemaLocked
    <2>6. CASE Insert(t) BY <2>6, InsertKeeps
    <2>7. CASE InsertLocked(t) BY <2>7, RefuseKeeps DEF InsertLocked
    <2>8. CASE Commit(t) BY <2>8, CommitKeeps
    <2>9. CASE CommitFails(t) BY <2>9, RefuseKeeps DEF CommitFails
    <2>10. CASE AnswerOk(t) BY <2>10, AnswerOkKeeps
    <2>. QED
      BY <1>1, <2>1, <2>2, <2>3, <2>4, <2>5, <2>6, <2>7, <2>8, <2>9, <2>10 DEF Progress
  <1>2. CASE UNCHANGED platformVars
    BY <1>2 DEF platformVars, PlatformInv, PlatformTypeOK, JobsOwned, RowFollowsJob,
                UnsentHasNoRow, OkIsStored, StoredAfterBlocks, StoredOnce, Stored
  <1>. QED
    BY <1>1, <1>2, TurnAwayKeeps, TakeKeeps, ThreadExitKeeps, ListKeeps, CrashKeeps
       DEF PlatformNext

LEMMA PlatformAlways == PlatformSpec => []PlatformInv
  <1>1. PlatformInit => PlatformInv
    <2>. SUFFICES ASSUME PlatformInit PROVE PlatformInv
      OBVIOUS
    <2>. USE PlatformRouting, PlatformNothing DEF PlatformInit
    <2>1. \A p \in Post : ~Stored(p) BY DEF Stored
    <2>2. PlatformTypeOK BY DEF PlatformTypeOK
    <2>3. JobsOwned /\ RowFollowsJob /\ UnsentHasNoRow
      BY <2>1 DEF JobsOwned, RowFollowsJob, UnsentHasNoRow
    <2>4. OkIsStored /\ StoredAfterBlocks
      BY <2>1 DEF OkIsStored, StoredAfterBlocks
    <2>5. StoredOnce BY <2>1 DEF StoredOnce
    <2>. QED BY <2>2, <2>3, <2>4, <2>5 DEF PlatformInv
  <1>2. PlatformInv /\ [PlatformNext]_platformVars => PlatformInv'
    BY PlatformStep
  <1>. QED BY <1>1, <1>2, PTL DEF PlatformSpec

(* Types, with any number of threads and requests and under every fault.   *)
THEOREM PlatformTypeCorrect == PlatformSpec => []PlatformTypeOK
  <1>1. PlatformInv => PlatformTypeOK BY DEF PlatformInv
  <1>. QED BY <1>1, PlatformAlways, PTL

(* What the route answered ok is in the table for good (routes.py,         *)
(* store.py save), whatever fails around it.                               *)
THEOREM PlatformOkIsStored == PlatformSpec => []OkIsStored
  <1>1. PlatformInv => OkIsStored BY DEF PlatformInv
  <1>. QED BY <1>1, PlatformAlways, PTL

(* A row is only ever left by a request whose blocks were all executed     *)
(* (the handlers call ok_envelope last).                                   *)
THEOREM PlatformStoredAfterBlocks == PlatformSpec => []StoredAfterBlocks
  <1>1. PlatformInv => StoredAfterBlocks BY DEF PlatformInv
  <1>. QED BY <1>1, PlatformAlways, PTL

(* No request is stored twice (store.py save and ensure_schema both        *)
(* commit).                                                                *)
THEOREM PlatformStoredOnce == PlatformSpec => []StoredOnce
  <1>1. PlatformInv => StoredOnce BY DEF PlatformInv
  <1>. QED BY <1>1, PlatformAlways, PTL

(* What was listed is the beginning of the table.                          *)
ListedBehind ==
  \A c \in Capability :
    /\ Len(listed[c]) <= Len(rows[c])
    /\ \A i \in DOMAIN listed[c] : listed[c][i] = rows[c][i]

(* Tables only grow, and a listing shows a whole table.                    *)
LEMMA RowsGrow ==
  ASSUME PlatformInv, [PlatformNext]_platformVars, NEW c \in Capability
  PROVE  /\ rows[c] \in Seq(Post) /\ rows'[c] \in Seq(Post) /\ listed[c] \in Seq(Post)
         /\ Len(rows[c]) <= Len(rows'[c])
         /\ \A i \in DOMAIN rows[c] : rows'[c][i] = rows[c][i]
         /\ listed'[c] = listed[c] \/ listed'[c] = rows'[c]
  <1>. USE DEF PlatformInv
  <1>1. /\ rows \in [Capability -> Seq(Post)] /\ listed \in [Capability -> Seq(Post)]
        /\ open \in [Thread -> Post \cup {Nothing}]
        /\ rows[c] \in Seq(Post) /\ listed[c] \in Seq(Post)
    BY DEF PlatformTypeOK
  <1>2. rows' \in [Capability -> Seq(Post)]
    BY PlatformStep DEF PlatformTypeOK
  <1>3. \/ rows' = rows
        \/ \E t \in Thread : rows' = RowsWith(open[t])
    BY DEF PlatformNext, platformVars, TurnAway, Take, Progress, RunBlock, BlockRaises,
           BeginSave, EnsureSchema, SchemaLocked, Insert, InsertLocked, Commit,
           CommitFails, AnswerOk, ThreadExit, List, Crash, Refuse
  <1>4. listed'[c] = listed[c] \/ listed'[c] = rows'[c]
    BY <1>1 DEF PlatformNext, platformVars, TurnAway, Take, Progress, RunBlock, BlockRaises,
           BeginSave, EnsureSchema, SchemaLocked, Insert, InsertLocked, Commit,
           CommitFails, AnswerOk, ThreadExit, List, Crash, Refuse
  <1>5. CASE rows' = rows
    BY <1>1, <1>4, <1>5
  <1>6. ASSUME NEW t \in Thread, rows' = RowsWith(open[t])
        PROVE  /\ Len(rows[c]) <= Len(rows'[c])
               /\ \A i \in DOMAIN rows[c] : rows'[c][i] = rows[c][i]
    BY <1>1, <1>6, RowsWithStores
  <1>. QED BY <1>1, <1>2, <1>3, <1>4, <1>5, <1>6

(* Successive GETs of a capability extend each other (store.py list_all).  *)
THEOREM PlatformListsOnlyGrow == PlatformSpec => ListsOnlyGrow
  <1>1. PlatformInit => ListedBehind
    BY DEF PlatformInit, ListedBehind
  <1>2. ASSUME PlatformInv, ListedBehind, [PlatformNext]_platformVars
        PROVE  /\ ListedBehind'
               /\ \A c \in Capability :
                    /\ Len(listed[c]) <= Len(listed'[c])
                    /\ \A i \in DOMAIN listed[c] : listed'[c][i] = listed[c][i]
    <2>1. ASSUME NEW c \in Capability
          PROVE  /\ Len(listed'[c]) <= Len(rows'[c])
                 /\ \A i \in DOMAIN listed'[c] : listed'[c][i] = rows'[c][i]
                 /\ Len(listed[c]) <= Len(listed'[c])
                 /\ \A i \in DOMAIN listed[c] : listed'[c][i] = listed[c][i]
      <3>1. /\ rows[c] \in Seq(Post) /\ rows'[c] \in Seq(Post) /\ listed[c] \in Seq(Post)
            /\ Len(rows[c]) <= Len(rows'[c])
            /\ \A i \in DOMAIN rows[c] : rows'[c][i] = rows[c][i]
            /\ listed'[c] = listed[c] \/ listed'[c] = rows'[c]
        BY <1>2, RowsGrow
      <3>2. /\ Len(listed[c]) <= Len(rows[c])
            /\ \A i \in DOMAIN listed[c] : listed[c][i] = rows[c][i]
        BY <1>2 DEF ListedBehind
      <3>3. /\ DOMAIN listed[c] = 1 .. Len(listed[c]) /\ Len(listed[c]) \in Nat
            /\ DOMAIN rows[c] = 1 .. Len(rows[c]) /\ Len(rows[c]) \in Nat
            /\ Len(rows'[c]) \in Nat
        BY <3>1
      <3>4. CASE listed'[c] = listed[c]
        <4>1. \A i \in DOMAIN listed[c] : i \in DOMAIN rows[c]
          BY <3>2, <3>3
        <4>2. \A i \in DOMAIN listed[c] : listed[c][i] = rows'[c][i]
          BY <3>1, <3>2, <4>1
        <4>3. Len(listed[c]) <= Len(rows'[c]) /\ Len(listed[c]) <= Len(listed[c])
          BY <3>1, <3>2, <3>3
        <4>. QED BY <3>4, <4>2, <4>3
      <3>5. CASE listed'[c] = rows'[c] BY <3>1, <3>2, <3>3, <3>5
      <3>6. listed'[c] = listed[c] \/ listed'[c] = rows'[c] BY <3>1
      <3>. QED BY <3>4, <3>5, <3>6
    <2>. QED BY <2>1 DEF ListedBehind
  <1>3. PlatformSpec => []ListedBehind
    BY <1>1, <1>2, PlatformAlways, PTL DEF PlatformSpec
  <1>. QED BY <1>2, <1>3, PlatformAlways, PTL DEF PlatformSpec, ListsOnlyGrow

(* As long as no commit has raised, the only row that is open is that of a *)
(* request about to commit it, and a refused request has no row.           *)
NothingLeftOpen ==
  /\ RefusedNeverStored
  /\ \A t \in Thread : open[t] # Nothing => at[t] = "commit"

LEMMA NothingLeftOpenStep ==
  ASSUME PlatformInv, NothingLeftOpen, [PlatformNext]_platformVars,
         ~ \E t \in Thread : at[t] = "commit" /\ answer'[job[t]] = "refused"
  PROVE  NothingLeftOpen'
  <1>. USE PlatformNothing
  <1>1. /\ PlatformTypeOK /\ JobsOwned /\ RowFollowsJob /\ UnsentHasNoRow
        /\ RefusedNeverStored /\ \A t \in Thread : open[t] # Nothing => at[t] = "commit"
    BY DEF PlatformInv, NothingLeftOpen
  <1>2. \A t \in Thread : at[t] # "idle" => job[t] \in Post /\ answer[job[t]] = "pending"
    BY <1>1 DEF PlatformTypeOK, JobsOwned
  (* A step that stores nothing: it may refuse a request without a row.    *)
  <1>3. ASSUME rows' = rows, \A t \in Thread : open'[t] # Nothing => at'[t] = "commit",
               \A p \in Post : answer'[p] = "refused" => answer[p] = "refused" \/ ~Stored(p)
        PROVE  NothingLeftOpen'
    <2>1. \A p \in Post : Stored(p)' <=> Stored(p)
      BY <1>3 DEF Stored
    <2>. QED BY <1>1, <1>3, <2>1 DEF NothingLeftOpen, RefusedNeverStored
  <1>4. ASSUME NEW p \in Post, TurnAway(p) PROVE NothingLeftOpen'
    <2>1. ~Stored(p) /\ \A q \in Post : answer'[q] = "refused" => answer[q] = "refused" \/ q = p
      BY <1>1, <1>4 DEF TurnAway, UnsentHasNoRow, PlatformTypeOK
    <2>. QED BY <1>1, <1>3, <1>4, <2>1 DEF TurnAway
  <1>5. ASSUME NEW t \in Thread, NEW p \in Post, Take(t, p) PROVE NothingLeftOpen'
    <2>1. \A q \in Post : answer'[q] = "refused" => answer[q] = "refused"
      BY <1>1, <1>5 DEF Take, PlatformTypeOK
    <2>2. \A x \in Thread : open[x] # Nothing => at'[x] = "commit"
      BY <1>1, <1>5 DEF Take, PlatformTypeOK
    <2>. QED BY <1>3, <1>5, <2>1, <2>2 DEF Take
  <1>6. ASSUME NEW t \in Thread, Refuse(t), at[t] \in {"blocks", "schema", "insert"}
        PROVE  NothingLeftOpen'
    <2>1. job[t] \in Post /\ ~Stored(job[t])
      BY <1>1, <1>2, <1>6 DEF RowFollowsJob
    <2>2. \A q \in Post : answer'[q] = "refused" => answer[q] = "refused" \/ q = job[t]
      BY <1>1, <1>6 DEF Refuse, PlatformTypeOK
    <2>3. \A x \in Thread : open[x] # Nothing => at'[x] = "commit"
      BY <1>1, <1>6 DEF Refuse, PlatformTypeOK
    <2>. QED BY <1>3, <1>6, <2>1, <2>2, <2>3 DEF Refuse
  <1>7. ASSUME NEW t \in Thread, RunBlock(t) \/ BeginSave(t) PROVE NothingLeftOpen'
    <2>1. rows' = rows /\ open' = open /\ answer' = answer /\ at[t] = "blocks"
          /\ \A x \in Thread : x # t => at'[x] = at[x]
      BY <1>1, <1>7 DEF RunBlock, BeginSave, PlatformTypeOK
    <2>. QED BY <1>1, <1>3, <2>1
  <1>8. ASSUME NEW t \in Thread, EnsureSchema(t) \/ \E c \in Capability : List(t, c)
        PROVE  NothingLeftOpen'
    <2>1. open[t] = Nothing
      BY <1>1, <1>8 DEF EnsureSchema, List
    <2>2. rows' = rows /\ answer' = answer /\ open' = [open EXCEPT ![t] = Nothing]
      BY <1>8, <2>1 DEF EnsureSchema, List, RowsWith
    <2>3. \A x \in Thread : x # t => at'[x] = at[x]
      BY <1>1, <1>8 DEF EnsureSchema, List, PlatformTypeOK
    <2>4. \A x \in Thread : open'[x] # Nothing => at'[x] = "commit"
      BY <1>1, <2>2, <2>3 DEF PlatformTypeOK
    <2>. QED BY <1>3, <2>2, <2>4
  <1>9. ASSUME NEW t \in Thread, Insert(t) PROVE NothingLeftOpen'
    <2>1. \A x \in Thread : open'[x] # Nothing => at'[x] = "commit"
      BY <1>1, <1>9 DEF Insert, PlatformTypeOK
    <2>. QED BY <1>3, <1>9, <2>1 DEF Insert
  (* The row committed is the thread's own request's, which is pending.    *)
  <1>10. ASSUME NEW t \in Thread, Commit(t) PROVE NothingLeftOpen'
    <2>1. open[t] = job[t] /\ job[t] \in Post /\ answer[job[t]] = "pending"
      BY <1>1, <1>2, <1>10 DEF Commit, RowFollowsJob
    <2>2. rows' = RowsWith(open[t]) /\ answer' = answer
      BY <1>10 DEF Commit
    <2>3. \A p \in Post : Stored(p)' <=> Stored(p) \/ p = open[t]
      BY <1>1, <2>1, <2>2, RowsWithStores
    <2>4. \A x \in Thread : open'[x] # Nothing => at'[x] = "commit"
      BY <1>1, <1>10 DEF Commit, PlatformTypeOK
    <2>. QED BY <1>1, <2>1, <2>2, <2>3, <2>4 DEF NothingLeftOpen, RefusedNeverStored
  <1>11. ASSUME NEW t \in Thread, CommitFails(t) PROVE FALSE
    <2>1. at[t] = "commit" /\ job[t] \in Post /\ answer' = [answer EXCEPT ![job[t]] = "refused"]
      BY <1>2, <1>11 DEF CommitFails, Refuse
    <2>. QED BY <1>1, <2>1 DEF PlatformTypeOK
  <1>12. ASSUME NEW t \in Thread, AnswerOk(t) PROVE NothingLeftOpen'
    <2>1. \A q \in Post : answer'[q] = "refused" => answer[q] = "refused"
      BY <1>1, <1>2, <1>12 DEF AnswerOk, PlatformTypeOK
    <2>2. \A x \in Thread : open[x] # Nothing => at'[x] = "commit"
      BY <1>1, <1>12 DEF AnswerOk, PlatformTypeOK
    <2>. QED BY <1>3, <1>12, <2>1, <2>2 DEF AnswerOk
  <1>13. ASSUME NEW t \in Thread, ThreadExit(t) PROVE NothingLeftOpen'
    BY <1>1, <1>13 DEF ThreadExit
  <1>14. CASE Crash
    <2>1. \A q \in Post : answer'[q] = "refused" => answer[q] = "refused"
      BY <1>1, <1>14 DEF Crash, PlatformTypeOK
    <2>. QED BY <1>3, <1>14, <2>1 DEF Crash
  <1>15. CASE UNCHANGED platformVars
    BY <1>1, <1>3, <1>15 DEF platformVars
  <1>16. ASSUME NEW t \in Thread, Progress(t) PROVE NothingLeftOpen'
    BY <1>6, <1>7, <1>8, <1>9, <1>10, <1>11, <1>12, <1>16
       DEF Progress, BlockRaises, SchemaLocked, InsertLocked
  <1>. QED BY <1>4, <1>5, <1>8, <1>13, <1>14, <1>15, <1>16 DEF PlatformNext

(* A request that was answered ok False has left no row and leaves none    *)
(* later, whatever blocks raise, threads end and processes die, as long as *)
(* no commit has raised.                                                   *)
THEOREM PlatformRefusedNeverStored == MCSpec => []RefusedNeverStoredIfCommitted
  <1>. DEFINE Quiet == commitFailed \/ NothingLeftOpen
  <1>1. MCInit => Quiet
    BY DEF MCInit, PlatformInit, NothingLeftOpen, RefusedNeverStored
  <1>2. PlatformInv /\ Quiet /\ [MCNext]_mcVars => Quiet'
    <2>. SUFFICES ASSUME PlatformInv, Quiet, [MCNext]_mcVars, ~commitFailed' PROVE NothingLeftOpen'
      OBVIOUS
    <2>3. ~commitFailed
      <3>1. CASE MCNext
        BY <3>1 DEF MCNext
      <3>2. CASE UNCHANGED mcVars
        BY <3>2 DEF mcVars
      <3>. QED BY <3>1, <3>2
    <2>4. NothingLeftOpen
      BY <2>3
    <2>1. [PlatformNext]_platformVars
      BY DEF MCNext, mcVars
    <2>2. ~ \E t \in Thread : at[t] = "commit" /\ answer'[job[t]] = "refused"
      <3>1. CASE MCNext
        BY <3>1 DEF MCNext
      <3>2. CASE UNCHANGED mcVars
        <4>1. answer' = answer
          BY <3>2 DEF mcVars, platformVars
        <4>2. \A t \in Thread : at[t] = "commit" => answer[job[t]] = "pending"
          BY PlatformNothing DEF PlatformInv, PlatformTypeOK, JobsOwned
        <4>. QED BY <4>1, <4>2
      <3>. QED BY <3>1, <3>2
    <2>. QED BY <2>1, <2>2, <2>4, NothingLeftOpenStep
  <1>3. Quiet => RefusedNeverStoredIfCommitted
    BY DEF NothingLeftOpen, RefusedNeverStoredIfCommitted
  <1>4. MCInit => PlatformInit
    BY DEF MCInit
  <1>5. [MCNext]_mcVars => [PlatformNext]_platformVars
    BY DEF MCNext, mcVars
  <1>. QED BY <1>1, <1>2, <1>3, <1>4, <1>5, PlatformAlways, PTL DEF MCSpec, PlatformSpec
=============================================================================
