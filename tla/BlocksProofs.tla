--------------------------- MODULE BlocksProofs ----------------------------
(***************************************************************************)
(* What TLAPS proves of the block machinery, for every value of the        *)
(* constants: the job queue, the workflow engine, the loader of blocks and *)
(* the event bus. Each part states its inductive invariant, shows that the *)
(* initial state has it and that every action keeps it, and draws its      *)
(* theorems.                                                               *)
(***************************************************************************)
EXTENDS JobQueue, Workflow, BlockLoader, EventBus, SequenceTheorems, TLAPS

----------------------------------------------------------------------------
(* JobQueue: every request is handled as often as it may be, for every     *)
(* number of jobs, queues, kinds and attempts.                             *)

(* The inductive invariant adds that requests are numbered by their first  *)
(* attempt and that the job whose handler is awaited is still running.     *)
RequestsAreFirst == \A i \in DOMAIN jobs : jobs[i].request \in 1..i
CurrentRuns == worker = "handling" => current \in DOMAIN jobs /\ jobs[current].status = "running"
QueueIndInv == QueueInv /\ RequestsAreFirst /\ CurrentRuns

LEMMA QueueInitInv == QueueInit => QueueIndInv
<1> SUFFICES ASSUME QueueInit PROVE QueueIndInv
  OBVIOUS
<1>1. DOMAIN jobs = {} /\ jobs \in Seq(Job)
  BY DEF QueueInit
<1>2. \A q \in Queue : queues[q] = << >> /\ DOMAIN queues[q] = {}
  BY DEF QueueInit
<1>3. QueueTypeOK
  <2>1. queues \in [Queue -> Seq(DOMAIN jobs)] /\ names \in Seq(Queue) /\ rest \in Seq(Queue)
    BY DEF QueueInit
  <2>2. DOMAIN byId = {}
    BY DEF QueueInit
  <2> QED BY <1>1, <2>1, <2>2 DEF QueueInit, QueueTypeOK
<1> QED BY <1>1, <1>2, <1>3 DEF QueueIndInv, QueueInv, PendingQueuedOnce, QueueOrder,
          OneAttemptLeft, IdFindsLatest, RequestsAreFirst, CurrentRuns, QueueInit

----------------------------------------------------------------------------
(* A change of job objects that keeps what the queues are ordered by.      *)
SameJobs(old) ==
  /\ old \in Seq(Job) /\ Len(old) = Len(jobs)
  /\ \A i \in DOMAIN jobs :
       /\ old[i].id = jobs[i].id /\ old[i].queue = jobs[i].queue
       /\ old[i].priority = jobs[i].priority /\ old[i].request = jobs[i].request

(* A pushed job is in front of the others or behind them.                  *)
LEMMA Pushed ==
  ASSUME NEW S, NEW s \in Seq(S), NEW n \in S, NEW p \in Nat
  PROVE  /\ Push(s, n, p) \in Seq(S) /\ Len(Push(s, n, p)) = Len(s) + 1
         /\ DOMAIN s = 1..Len(s) /\ DOMAIN Push(s, n, p) = 1..(Len(s) + 1)
         /\ p > 0 => /\ Push(s, n, p)[1] = n
                     /\ \A k \in 1..Len(s) : Push(s, n, p)[k + 1] = s[k]
         /\ p = 0 => /\ Push(s, n, p)[Len(s) + 1] = n
                     /\ \A k \in 1..Len(s) : Push(s, n, p)[k] = s[k]
<1>1. CASE p > 0
  <2>1. <<n>> \in Seq(S) /\ Len(<<n>>) = 1 /\ <<n>>[1] = n
    OBVIOUS
  <2>2. Push(s, n, p) = <<n>> \o s
    BY <1>1 DEF Push
  <2> QED BY <1>1, <2>1, <2>2
<1>2. CASE p = 0
  BY <1>2 DEF Push
<1> QED BY <1>1, <1>2

(* Enqueueing, with or without a retry marked at the same time, keeps      *)
(* everything but what is said of the attempts.                            *)
LEMMA EnqueuedKeeps ==
  ASSUME QueueIndInv,
         NEW old, SameJobs(old),
         \A i \in DOMAIN jobs : old[i].status = "pending" <=> jobs[i].status = "pending",
         NEW job \in Job, job.status = "pending", job.id = millis,
         job.request \in 1..(Len(jobs) + 1),
         Enqueued(old, job), rest' \in Seq(Queue), millis' = millis,
         worker' \in {"asleep", "passing", "handling", "gone"},
         current' \in DOMAIN jobs \cup {0}
  PROVE  /\ QueueTypeOK' /\ PendingQueuedOnce' /\ QueueOrder' /\ IdFindsLatest'
         /\ RequestsAreFirst'
         /\ Len(jobs') = Len(jobs) + 1 /\ jobs'[Len(jobs) + 1] = job
         /\ DOMAIN jobs = 1..Len(jobs) /\ DOMAIN jobs' = 1..(Len(jobs) + 1)
         /\ \A i \in DOMAIN jobs : jobs'[i] = old[i]
<1> USE DEF QueueIndInv, QueueInv
<1> DEFINE n == Len(jobs) + 1
           q == job.queue
<1>1. /\ jobs \in Seq(Job) /\ Len(jobs) \in Nat
      /\ DOMAIN jobs = 1..Len(jobs) /\ DOMAIN old = 1..Len(jobs)
  BY DEF QueueTypeOK, SameJobs
<1>2. /\ jobs' \in Seq(Job) /\ Len(jobs') = n /\ DOMAIN jobs' = 1..n
      /\ jobs'[n] = job /\ \A i \in 1..Len(jobs) : jobs'[i] = old[i]
  BY <1>1 DEF Enqueued, SameJobs
<1>3. q \in Queue /\ job.priority \in Nat /\ n \in 1..n
  BY <1>1 DEF Job
<1>4. /\ queues \in [Queue -> Seq(1..Len(jobs))]
      /\ \A x \in Queue : DOMAIN queues[x] = 1..Len(queues[x]) /\ queues[x] \in Seq(1..n)
      /\ \A x \in Queue : \A k \in DOMAIN queues[x] : queues[x][k] \in 1..Len(jobs)
  BY <1>1 DEF QueueTypeOK
<1>5. /\ queues' = [queues EXCEPT ![q] = Push(queues[q], n, job.priority)]
      /\ queues'[q] = Push(queues[q], n, job.priority)
      /\ \A x \in Queue \ {q} : queues'[x] = queues[x]
  BY <1>3, <1>4 DEF Enqueued, SameJobs
<1> HIDE DEF n, q
<1>6. /\ queues'[q] \in Seq(1..n) /\ DOMAIN queues'[q] = 1..(Len(queues[q]) + 1)
      /\ job.priority > 0 => /\ queues'[q][1] = n
                 /\ \A k \in 1..Len(queues[q]) : queues'[q][k + 1] = queues[q][k]
      /\ job.priority = 0 => /\ queues'[q][Len(queues[q]) + 1] = n
                 /\ \A k \in 1..Len(queues[q]) : queues'[q][k] = queues[q][k]
  <2> DEFINE S == 1..n
             s == queues[q]
             p == job.priority
  <2>1. s \in Seq(S) /\ n \in S /\ p \in Nat
    BY <1>3, <1>4
  <2> HIDE DEF S, s, p
  <2>2. Push(s, n, p) \in Seq(S)
    BY <2>1, Pushed
  <2>7. DOMAIN Push(s, n, p) = 1..(Len(s) + 1)
    BY <2>1, Pushed
  <2>3. p > 0 => Push(s, n, p)[1] = n
    BY <2>1, Pushed
  <2>4. p > 0 => \A k \in 1..Len(s) : Push(s, n, p)[k + 1] = s[k]
    BY <2>1, Pushed
  <2>5. p = 0 => Push(s, n, p)[Len(s) + 1] = n
    BY <2>1, Pushed
  <2>6. p = 0 => \A k \in 1..Len(s) : Push(s, n, p)[k] = s[k]
    BY <2>1, Pushed
  <2> QED BY <1>5, <2>2, <2>3, <2>4, <2>5, <2>6, <2>7 DEF S, s, p
<1>7. queues' \in [Queue -> Seq(1..n)]
  BY <1>3, <1>4, <1>5, <1>6
<1>8. QueueTypeOK'
  <2>1. names' \in Seq(Queue)
    BY <1>3 DEF Enqueued, QueueTypeOK, q
  <2>2. \A k \in DOMAIN byId' : byId'[k] \in DOMAIN jobs'
    BY <1>1, <1>2 DEF Enqueued, QueueTypeOK, SameJobs, n
  <2>3. current' \in DOMAIN jobs' \cup {0}
    BY <1>1, <1>2 DEF n
  <2> QED BY <1>2, <1>7, <2>1, <2>2, <2>3 DEF QueueTypeOK
(* Where a place in the pushed queue comes from.                           *)
<1> DEFINE From(k) == IF job.priority > 0 THEN k - 1 ELSE k
           Slot == IF job.priority > 0 THEN 1 ELSE Len(queues[q]) + 1
<1>9. /\ Len(queues[q]) \in Nat /\ Slot \in DOMAIN queues'[q] /\ queues'[q][Slot] = n
      /\ \A k \in DOMAIN queues'[q] : k # Slot =>
           From(k) \in DOMAIN queues[q] /\ queues'[q][k] = queues[q][From(k)]
      /\ \A l \in DOMAIN queues[q] :
           \E k \in DOMAIN queues'[q] : k # Slot /\ From(k) = l
      /\ \A k, l \in DOMAIN queues'[q] :
           /\ From(k) = From(l) => k = l
           /\ k < l => From(k) < From(l)
           /\ k < l => (k = Slot => job.priority > 0) /\ (l = Slot => job.priority = 0)
  <2>1. Len(queues[q]) \in Nat /\ DOMAIN queues[q] = 1..Len(queues[q])
    BY <1>3, <1>4
  <2>2. CASE job.priority > 0
    <3>1. \A k \in 2..(Len(queues[q]) + 1) : k - 1 \in 1..Len(queues[q]) /\ (k - 1) + 1 = k
      BY <2>1
    <3>2. \A l \in DOMAIN queues[q] : l + 1 \in DOMAIN queues'[q] /\ l + 1 # 1 /\ (l + 1) - 1 = l
      BY <2>1, <1>6
    <3> QED BY <1>6, <2>1, <2>2, <3>1, <3>2
  <2>3. CASE job.priority = 0
    BY <1>6, <2>1, <2>3
  <2> QED BY <1>3, <2>2, <2>3
<1> HIDE DEF From, Slot
<1>10. \A i \in DOMAIN jobs :
         /\ jobs'[i].queue = jobs[i].queue /\ jobs'[i].priority = jobs[i].priority
         /\ jobs'[i].id = jobs[i].id /\ jobs'[i].request = jobs[i].request
         /\ jobs'[i].status = "pending" <=> jobs[i].status = "pending"
  BY <1>1, <1>2 DEF SameJobs
<1>11. \A i \in DOMAIN jobs : i < n /\ i \in Nat /\ i # n
  BY <1>1 DEF n
<1>12. \A k \in DOMAIN queues[q] : queues[q][k] \in DOMAIN jobs
  BY <1>1, <1>3, <1>4
<1>13. PendingQueuedOnce'
  <2>1. ASSUME NEW x \in Queue, NEW k \in DOMAIN queues'[x]
        PROVE  /\ jobs'[queues'[x][k]].status = "pending" /\ jobs'[queues'[x][k]].queue = x
               /\ \A l \in DOMAIN queues'[x] : queues'[x][k] = queues'[x][l] => k = l
    <3>1. CASE x # q
      <4>1. queues'[x] = queues[x] /\ queues[x][k] \in DOMAIN jobs
        BY <1>1, <1>4, <1>5, <2>1, <3>1
      <4> QED BY <1>10, <2>1, <4>1 DEF PendingQueuedOnce
    <3>2. CASE x = q /\ k = Slot
      <4>1. queues'[x][k] = n /\ jobs'[n].status = "pending" /\ jobs'[n].queue = q
        BY <1>2, <1>9, <3>2 DEF q
      <4>2. \A l \in DOMAIN queues'[x] : l # Slot => queues'[x][l] # n
        BY <1>9, <1>11, <1>12, <3>2
      <4> QED BY <3>2, <4>1, <4>2
    <3>3. CASE x = q /\ k # Slot
      <4>1. From(k) \in DOMAIN queues[q] /\ queues'[x][k] = queues[q][From(k)]
            /\ queues'[x][k] \in DOMAIN jobs /\ queues'[x][k] # n
        BY <1>9, <1>11, <1>12, <2>1, <3>3
      <4>2. /\ jobs[queues[q][From(k)]].status = "pending" /\ jobs[queues[q][From(k)]].queue = q
            /\ \A l \in DOMAIN queues[q] : queues[q][From(k)] = queues[q][l] => From(k) = l
        BY <1>3, <4>1 DEF PendingQueuedOnce
      <4>3. ASSUME NEW l \in DOMAIN queues'[x], queues'[x][k] = queues'[x][l] PROVE k = l
        <5>1. l # Slot
          BY <1>9, <3>3, <4>1, <4>3
        <5>2. From(l) \in DOMAIN queues[q] /\ queues'[x][l] = queues[q][From(l)]
          BY <1>9, <3>3, <4>3, <5>1
        <5>3. From(k) = From(l)
          BY <4>1, <4>2, <4>3, <5>2
        <5> QED BY <1>9, <2>1, <3>3, <4>3, <5>3
      <4> QED BY <1>10, <3>3, <4>1, <4>2, <4>3
    <3> QED BY <3>1, <3>2, <3>3
  <2>2. ASSUME NEW i \in DOMAIN jobs', jobs'[i].status = "pending"
        PROVE  \E k \in DOMAIN queues'[jobs'[i].queue] : queues'[jobs'[i].queue][k] = i
    <3>1. CASE i = n
      BY <1>2, <1>9, <3>1 DEF q
    <3>2. CASE i # n
      <4>1. i \in DOMAIN jobs
        BY <1>1, <1>2, <2>2, <3>2 DEF n
      <4>2. PICK l \in DOMAIN queues[jobs[i].queue] : queues[jobs[i].queue][l] = i
        BY <1>10, <2>2, <4>1 DEF PendingQueuedOnce
      <4>3. CASE jobs[i].queue = q
        <5>1. PICK k \in DOMAIN queues'[q] : k # Slot /\ From(k) = l
          BY <1>9, <4>2, <4>3
        <5>2. queues'[q][k] = i
          BY <1>9, <4>2, <4>3, <5>1
        <5> QED BY <1>10, <4>1, <4>3, <5>1, <5>2
      <4>4. CASE jobs[i].queue # q
        <5>1. jobs[i] \in Job
          BY <4>1 DEF QueueTypeOK
        <5>2. jobs[i].queue \in Queue
          BY <5>1 DEF Job
        <5> QED BY <1>5, <1>10, <4>1, <4>2, <4>4, <5>2
      <4> QED BY <4>3, <4>4
    <3> QED BY <3>1, <3>2
  <2> QED BY <2>1, <2>2 DEF PendingQueuedOnce
<1>14. QueueOrder'
  <2> SUFFICES ASSUME NEW x \in Queue, NEW k \in DOMAIN queues'[x], NEW l \in DOMAIN queues'[x],
                      k < l
               PROVE  /\ jobs'[queues'[x][l]].priority > 0
                           => jobs'[queues'[x][k]].priority > 0 /\ queues'[x][k] > queues'[x][l]
                      /\ jobs'[queues'[x][k]].priority = 0 => queues'[x][k] < queues'[x][l]
    BY DEF QueueOrder
  <2>1. CASE x # q
    <3>1. queues'[x] = queues[x] /\ queues[x][k] \in DOMAIN jobs /\ queues[x][l] \in DOMAIN jobs
      BY <1>1, <1>4, <1>5, <2>1
    <3> QED BY <1>10, <3>1 DEF QueueOrder
  <2>2. CASE x = q /\ k # Slot /\ l # Slot
    <3>1. /\ From(k) \in DOMAIN queues[q] /\ queues'[x][k] = queues[q][From(k)]
          /\ From(l) \in DOMAIN queues[q] /\ queues'[x][l] = queues[q][From(l)]
          /\ queues'[x][k] \in DOMAIN jobs /\ queues'[x][l] \in DOMAIN jobs
          /\ From(k) < From(l)
      BY <1>9, <1>12, <2>2
    <3> QED BY <1>3, <1>10, <3>1 DEF QueueOrder
  <2>3. CASE x = q /\ k = Slot
    <3>1. job.priority > 0 /\ queues'[x][k] = n /\ l # Slot
      BY <1>6, <1>9, <2>3
    <3>2. queues'[x][l] \in DOMAIN jobs
      BY <1>9, <1>12, <2>3, <3>1
    <3> QED BY <1>2, <1>11, <3>1, <3>2, <1>3
  <2>4. CASE x = q /\ l = Slot
    <3>1. job.priority = 0 /\ queues'[x][l] = n /\ k # Slot
      BY <1>6, <1>9, <2>4
    <3>2. queues'[x][k] \in DOMAIN jobs
      BY <1>9, <1>12, <2>4, <3>1
    <3> QED BY <1>2, <1>11, <3>1, <3>2, <1>3
  <2> QED BY <2>1, <2>2, <2>3, <2>4
<1>15. IdFindsLatest'
  <2>1. /\ DOMAIN byId' = DOMAIN byId \cup {millis} /\ byId'[millis] = n
        /\ \A k \in DOMAIN byId \ {millis} : byId'[k] = byId[k]
    BY <1>1 DEF Enqueued, SameJobs, n
  <2>2. ASSUME NEW i \in DOMAIN jobs'
        PROVE  /\ jobs'[i].id \in DOMAIN byId' /\ jobs'[byId'[jobs'[i].id]].id = jobs'[i].id
               /\ byId'[jobs'[i].id] >= i
    <3>1. i <= n /\ i \in Nat /\ n \in Nat
      BY <1>1, <1>2, <2>2 DEF n
    <3>2. CASE jobs'[i].id = millis
      BY <1>2, <2>1, <3>1, <3>2
    <3>3. CASE jobs'[i].id # millis
      <4>1. i \in DOMAIN jobs
        BY <1>1, <1>2, <2>2, <3>3 DEF n
      <4>2. jobs[i].id \in DOMAIN byId \ {millis} /\ byId[jobs[i].id] \in DOMAIN jobs
            /\ byId[jobs[i].id] >= i /\ jobs[byId[jobs[i].id]].id = jobs[i].id
        BY <1>10, <3>3, <4>1 DEF IdFindsLatest, QueueTypeOK
      <4> QED BY <1>10, <2>1, <4>1, <4>2
    <3> QED BY <3>2, <3>3
  <2> QED BY <2>2 DEF IdFindsLatest
<1>16. RequestsAreFirst'
  <2> SUFFICES ASSUME NEW i \in DOMAIN jobs' PROVE jobs'[i].request \in 1..i
    BY DEF RequestsAreFirst
  <2>1. CASE i = n
    BY <1>2, <2>1 DEF n
  <2>2. CASE i # n
    <3>1. i \in DOMAIN jobs
      BY <1>1, <1>2, <2>2 DEF n
    <3> QED BY <1>10, <3>1 DEF RequestsAreFirst
  <2> QED BY <2>1, <2>2
<1> QED BY <1>1, <1>2, <1>8, <1>13, <1>14, <1>15, <1>16 DEF n

(* One attempt of each request is not superseded as long as no job becomes *)
(* or stops being "retrying".                                              *)
LEMMA AttemptsKeep ==
  ASSUME OneAttemptLeft, Len(jobs) \in Nat, DOMAIN jobs' = DOMAIN jobs,
         \A i \in DOMAIN jobs : /\ jobs'[i].request = jobs[i].request
                                /\ jobs'[i].status = "retrying" <=> jobs[i].status = "retrying"
  PROVE  OneAttemptLeft'
<1> SUFFICES ASSUME NEW i \in DOMAIN jobs
             PROVE  \E j \in DOMAIN jobs :
                      /\ jobs'[j].request = jobs'[i].request /\ jobs'[j].status # "retrying"
                      /\ \A k \in DOMAIN jobs :
                           jobs'[k].request = jobs'[i].request /\ jobs'[k].status # "retrying"
                             => k = j
  BY DEF OneAttemptLeft, Superseded
<1>1. PICK j \in DOMAIN jobs :
        /\ jobs[j].request = jobs[i].request /\ jobs[j].status # "retrying"
        /\ \A k \in DOMAIN jobs :
             jobs[k].request = jobs[i].request /\ jobs[k].status # "retrying" => k = j
  BY DEF OneAttemptLeft, Superseded
<1> QED BY <1>1

(* A client's request is new: the job is its one attempt.                  *)
LEMMA EnqueueKeeps ==
  ASSUME QueueIndInv, NEW t \in JobType, NEW q \in Queue, NEW p \in Nat, NEW m \in Nat,
         Enqueue(t, q, p, m)
  PROVE  QueueIndInv'
<1> DEFINE n == Len(jobs) + 1
           job == NewJob(t, q, p, m, n)
<1>1. jobs \in Seq(Job) /\ Len(jobs) \in Nat /\ millis \in Nat
  BY DEF QueueIndInv, QueueInv, QueueTypeOK
<1>2. job \in Job /\ job.status = "pending" /\ job.id = millis /\ job.request = n
  BY <1>1 DEF NewJob, Job, Status
<1>3. SameJobs(jobs)
  BY <1>1 DEF SameJobs
<1>4. Enqueued(jobs, job) /\ UNCHANGED <<worker, rest, current, millis>>
  BY DEF Enqueue
<1>5. /\ rest' \in Seq(Queue) /\ worker' \in {"asleep", "passing", "handling", "gone"}
      /\ current' \in DOMAIN jobs \cup {0} /\ job.request \in 1..(Len(jobs) + 1)
  BY <1>1, <1>2, <1>4 DEF QueueIndInv, QueueInv, QueueTypeOK
<1> HIDE DEF job
<1>6. /\ QueueTypeOK' /\ PendingQueuedOnce' /\ QueueOrder' /\ IdFindsLatest'
      /\ RequestsAreFirst'
      /\ Len(jobs') = Len(jobs) + 1 /\ jobs'[Len(jobs) + 1] = job
      /\ DOMAIN jobs = 1..Len(jobs) /\ DOMAIN jobs' = 1..(Len(jobs) + 1)
      /\ \A i \in DOMAIN jobs : jobs'[i] = jobs[i]
  BY <1>2, <1>3, <1>4, <1>5, EnqueuedKeeps
<1>7. OneAttemptLeft'
  <2>1. \A i \in DOMAIN jobs : jobs'[i].request # n
    BY <1>1, <1>6 DEF QueueIndInv, RequestsAreFirst
  <2>2. jobs'[n].request = n /\ jobs'[n].status # "retrying"
    BY <1>2, <1>6
  <2>3. DOMAIN jobs' = DOMAIN jobs \cup {n}
    BY <1>1, <1>6
  <2> SUFFICES ASSUME NEW i \in DOMAIN jobs'
               PROVE  \E j \in DOMAIN jobs' :
                        /\ jobs'[j].request = jobs'[i].request /\ jobs'[j].status # "retrying"
                        /\ \A k \in DOMAIN jobs' :
                             jobs'[k].request = jobs'[i].request /\ jobs'[k].status # "retrying"
                               => k = j
    BY DEF OneAttemptLeft, Superseded
  <2>4. CASE i = n
    BY <2>1, <2>2, <2>3, <2>4
  <2>5. CASE i # n
    <3>1. i \in DOMAIN jobs
      BY <2>3, <2>5
    <3>2. PICK j \in DOMAIN jobs :
            /\ jobs[j].request = jobs[i].request /\ jobs[j].status # "retrying"
            /\ \A k \in DOMAIN jobs :
                 jobs[k].request = jobs[i].request /\ jobs[k].status # "retrying" => k = j
      BY <3>1 DEF QueueIndInv, QueueInv, OneAttemptLeft, Superseded
    <3> QED BY <1>6, <2>1, <2>2, <2>3, <3>1, <3>2
  <2> QED BY <2>4, <2>5
<1>8. CurrentRuns'
  BY <1>1, <1>4, <1>6 DEF QueueIndInv, CurrentRuns
<1> QED BY <1>6, <1>7, <1>8 DEF QueueIndInv, QueueInv

(* What taking the head of a queue leaves.                                 *)
LEMMA TailElements ==
  ASSUME NEW S, NEW s \in Seq(S), s # << >>
  PROVE  /\ Head(s) \in S /\ Head(s) = s[1] /\ 1 \in DOMAIN s
         /\ Tail(s) \in Seq(S) /\ Len(s) \in Nat /\ DOMAIN s = 1..Len(s)
         /\ DOMAIN Tail(s) = 1..(Len(s) - 1)
         /\ \A k \in 1..(Len(s) - 1) : Tail(s)[k] = s[k + 1]
  OBVIOUS

(* The job objects after one of them changed its status, and perhaps its   *)
(* count.                                                                  *)
JobRestated(new, i, s) ==
  /\ new \in Seq(Job) /\ Len(new) = Len(jobs) /\ DOMAIN new = DOMAIN jobs
  /\ new[i].status = s
  /\ \A j \in DOMAIN jobs :
       /\ new[j].id = jobs[j].id /\ new[j].queue = jobs[j].queue
       /\ new[j].priority = jobs[j].priority /\ new[j].request = jobs[j].request
       /\ j # i => new[j].status = jobs[j].status

LEMMA Restated ==
  ASSUME jobs \in Seq(Job), NEW i \in DOMAIN jobs, NEW s \in Status
  PROVE  /\ JobRestated(SetStatus(i, s), i, s)
         /\ current = i => JobRestated(RaisedJobs(s), i, s)
<1>1. jobs[i] \in Job /\ Len(jobs) \in Nat /\ DOMAIN jobs = 1..Len(jobs)
  OBVIOUS
<1>2. ASSUME NEW f \in Job, f.id = jobs[i].id, f.queue = jobs[i].queue,
             f.priority = jobs[i].priority, f.request = jobs[i].request, f.status = s
      PROVE  JobRestated([jobs EXCEPT ![i] = f], i, s)
  BY <1>1, <1>2 DEF JobRestated
<1>3. JobRestated(SetStatus(i, s), i, s)
  <2> DEFINE f == [jobs[i] EXCEPT !.status = s]
  <2>1. /\ f \in Job /\ f.id = jobs[i].id /\ f.queue = jobs[i].queue
        /\ f.priority = jobs[i].priority /\ f.request = jobs[i].request /\ f.status = s
    BY <1>1 DEF Job
  <2> QED BY <1>2, <2>1 DEF SetStatus
<1>4. ASSUME current = i PROVE JobRestated(RaisedJobs(s), i, s)
  <2> DEFINE f == [[jobs[i] EXCEPT !.retry_count = @ + 1] EXCEPT !.status = s]
  <2>1. jobs[i].retry_count + 1 \in Nat
    BY <1>1 DEF Job
  <2>2. [jobs[i] EXCEPT !.retry_count = @ + 1] \in Job
    BY <1>1, <2>1 DEF Job
  <2>3. /\ f \in Job /\ f.id = jobs[i].id /\ f.queue = jobs[i].queue
        /\ f.priority = jobs[i].priority /\ f.request = jobs[i].request /\ f.status = s
    BY <1>1, <2>2 DEF Job
  <2> HIDE DEF f
  <2>4. RaisedJobs(s) = [jobs EXCEPT ![i] = f]
    BY <1>1, <1>4 DEF RaisedJobs, f
  <2> QED BY <1>2, <2>3, <2>4
<1> QED BY <1>3, <1>4

(* A job that leaves its queue, whoever takes it.                          *)
LEMMA PopKeeps ==
  ASSUME QueueIndInv, NEW q \in Queue, queues[q] # << >>, NEW s \in {"running", "failed"},
         jobs' = SetStatus(Head(queues[q]), s), queues' = Popped(q),
         UNCHANGED <<names, byId, millis>>, rest' \in Seq(Queue),
         \/ UNCHANGED <<worker, current>>
         \/ worker' = "handling" /\ current' = Head(queues[q]) /\ s = "running"
  PROVE  QueueIndInv'
<1> USE DEF QueueIndInv, QueueInv
<1> DEFINE i == Head(queues[q])
<1>1. /\ queues[q] \in Seq(DOMAIN jobs) /\ i \in DOMAIN jobs /\ i = queues[q][1]
      /\ DOMAIN queues[q] = 1..Len(queues[q]) /\ 1 \in DOMAIN queues[q]
      /\ Len(queues[q]) \in Nat
      /\ Tail(queues[q]) \in Seq(DOMAIN jobs)
      /\ DOMAIN Tail(queues[q]) = 1..(Len(queues[q]) - 1)
      /\ \A k \in 1..(Len(queues[q]) - 1) : Tail(queues[q])[k] = queues[q][k + 1]
  BY TailElements DEF QueueTypeOK
<1>2. /\ queues' = [queues EXCEPT ![q] = Tail(queues[q])]
      /\ queues'[q] = Tail(queues[q]) /\ \A x \in Queue \ {q} : queues'[x] = queues[x]
  BY DEF Popped, QueueTypeOK
<1>3. jobs[i].status = "pending" /\ jobs[i].queue = q
  BY <1>1 DEF PendingQueuedOnce
<1> HIDE DEF i
<1>4. JobRestated(jobs', i, s)
  BY <1>1, Restated DEF QueueTypeOK, Status, i
<1>5. QueueTypeOK'
  BY <1>1, <1>2, <1>4 DEF QueueTypeOK, JobRestated, i
<1>6. \A k \in DOMAIN queues'[q] : /\ k \in Nat /\ k + 1 \in DOMAIN queues[q] /\ k + 1 # 1
                                    /\ queues'[q][k] = queues[q][k + 1]
  <2>1. DOMAIN queues'[q] = 1..(Len(queues[q]) - 1)
    BY <1>1, <1>2
  <2>2. \A k \in DOMAIN queues'[q] : k \in Nat /\ k + 1 \in DOMAIN queues[q] /\ k + 1 # 1
    BY <1>1, <2>1
  <2>3. \A k \in DOMAIN queues'[q] : queues'[q][k] = queues[q][k + 1]
    BY <1>1, <1>2, <2>1
  <2> QED BY <2>2, <2>3
<1>7. \A k \in DOMAIN queues[q] : k # 1 => queues[q][k] # i /\ queues[q][k] \in DOMAIN jobs
  BY <1>1 DEF PendingQueuedOnce
<1>8. \A k \in DOMAIN queues'[q] : queues'[q][k] \in DOMAIN jobs /\ queues'[q][k] # i
  BY <1>6, <1>7
<1>9. \A x \in Queue \ {q} : \A k \in DOMAIN queues'[x] :
        /\ queues'[x] = queues[x] /\ k \in DOMAIN queues[x]
        /\ queues[x][k] \in DOMAIN jobs /\ queues[x][k] # i
  BY <1>2, <1>3 DEF PendingQueuedOnce, QueueTypeOK
<1>10. PendingQueuedOnce'
  <2>1. ASSUME NEW x \in Queue, NEW k \in DOMAIN queues'[x]
        PROVE  /\ jobs'[queues'[x][k]].status = "pending" /\ jobs'[queues'[x][k]].queue = x
               /\ \A l \in DOMAIN queues'[x] : queues'[x][k] = queues'[x][l] => k = l
    <3>1. CASE x = q
      <4>1. /\ jobs[queues[q][k + 1]].status = "pending" /\ jobs[queues[q][k + 1]].queue = q
            /\ \A l \in DOMAIN queues[q] : queues[q][k + 1] = queues[q][l] => k + 1 = l
        BY <1>6, <2>1, <3>1 DEF PendingQueuedOnce
      <4>2. jobs'[queues'[x][k]].status = "pending" /\ jobs'[queues'[x][k]].queue = x
        BY <1>4, <1>6, <1>8, <2>1, <3>1, <4>1 DEF JobRestated
      <4>3. \A l \in DOMAIN queues'[x] : queues'[x][k] = queues'[x][l] => k + 1 = l + 1
        BY <1>6, <2>1, <3>1, <4>1
      <4>4. \A l \in DOMAIN queues'[x] : k + 1 = l + 1 => k = l
        BY <1>6, <2>1, <3>1
      <4> QED BY <4>2, <4>3, <4>4
    <3>2. CASE x # q
      <4>1. /\ queues'[x] = queues[x] /\ jobs'[queues[x][k]].status = jobs[queues[x][k]].status
            /\ jobs'[queues[x][k]].queue = jobs[queues[x][k]].queue
        BY <1>4, <1>9, <2>1, <3>2 DEF JobRestated
      <4> QED BY <2>1, <4>1 DEF PendingQueuedOnce
    <3> QED BY <3>1, <3>2
  <2>2. ASSUME NEW j \in DOMAIN jobs', jobs'[j].status = "pending"
        PROVE  \E k \in DOMAIN queues'[jobs'[j].queue] : queues'[jobs'[j].queue][k] = j
    <3>1. /\ j \in DOMAIN jobs /\ j # i /\ jobs[j].status = "pending"
          /\ jobs'[j].queue = jobs[j].queue
      BY <1>4, <2>2 DEF JobRestated
    <3>2. PICK l \in DOMAIN queues[jobs[j].queue] : queues[jobs[j].queue][l] = j
      BY <3>1 DEF PendingQueuedOnce
    <3>3. CASE jobs[j].queue = q
      <4>1. l - 1 \in 1..(Len(queues[q]) - 1) /\ (l - 1) + 1 = l
        BY <1>1, <3>1, <3>2, <3>3
      <4>2. l - 1 \in DOMAIN queues'[q] /\ queues'[q][l - 1] = j
        BY <1>1, <1>2, <3>2, <3>3, <4>1
      <4> QED BY <3>1, <3>3, <4>2
    <3>4. CASE jobs[j].queue # q
      <4>1. jobs[j] \in Job
        BY <3>1 DEF QueueTypeOK
      <4>2. jobs[j].queue \in Queue
        BY <4>1 DEF Job
      <4> QED BY <1>2, <3>1, <3>2, <3>4, <4>2
    <3> QED BY <3>3, <3>4
  <2> QED BY <2>1, <2>2 DEF PendingQueuedOnce
<1>11. QueueOrder'
  <2> SUFFICES ASSUME NEW x \in Queue, NEW k \in DOMAIN queues'[x], NEW l \in DOMAIN queues'[x],
                      k < l
               PROVE  /\ jobs'[queues'[x][l]].priority > 0
                           => jobs'[queues'[x][k]].priority > 0 /\ queues'[x][k] > queues'[x][l]
                      /\ jobs'[queues'[x][k]].priority = 0 => queues'[x][k] < queues'[x][l]
    BY DEF QueueOrder
  <2>1. /\ jobs'[queues'[x][l]].priority = jobs[queues'[x][l]].priority
        /\ jobs'[queues'[x][k]].priority = jobs[queues'[x][k]].priority
    BY <1>4, <1>8, <1>9 DEF JobRestated
  <2>2. CASE x = q
    <3>1. /\ k + 1 < l + 1 /\ k + 1 \in DOMAIN queues[q] /\ l + 1 \in DOMAIN queues[q]
          /\ queues'[q][k] = queues[q][k + 1] /\ queues'[q][l] = queues[q][l + 1]
      BY <1>6, <2>2
    <3> HIDE <1>4
    <3> QED BY <2>1, <2>2, <3>1 DEF QueueOrder
  <2>3. CASE x # q
    <3>1. queues'[x] = queues[x]
      BY <1>2, <2>3
    <3> QED BY <2>1, <3>1 DEF QueueOrder
  <2> QED BY <2>2, <2>3
<1>12. OneAttemptLeft'
  <2>1. Len(jobs) \in Nat /\ DOMAIN jobs' = DOMAIN jobs
    BY <1>4 DEF QueueTypeOK, JobRestated
  <2>2. ASSUME NEW j \in DOMAIN jobs
        PROVE  /\ jobs'[j].request = jobs[j].request
               /\ jobs'[j].status = "retrying" <=> jobs[j].status = "retrying"
    <3>1. CASE j = i
      BY <1>3, <1>4, <3>1 DEF JobRestated
    <3>2. CASE j # i
      BY <1>4, <3>2 DEF JobRestated
    <3> QED BY <3>1, <3>2
  <2> QED BY <2>1, <2>2, AttemptsKeep
<1>13. IdFindsLatest'
  <2>1. \A j \in DOMAIN jobs : byId[jobs[j].id] \in DOMAIN jobs
    BY DEF QueueTypeOK, IdFindsLatest
  <2>2. ASSUME NEW j \in DOMAIN jobs
        PROVE  /\ jobs'[j].id = jobs[j].id /\ jobs'[byId[jobs[j].id]].id = jobs[byId[jobs[j].id]].id
               /\ jobs[j].id \in DOMAIN byId /\ byId[jobs[j].id] >= j
               /\ jobs[byId[jobs[j].id]].id = jobs[j].id
    BY <1>4, <2>1 DEF IdFindsLatest, JobRestated
  <2>3. DOMAIN jobs' = DOMAIN jobs /\ byId' = byId
    BY <1>4 DEF JobRestated
  <2> QED BY <2>2, <2>3 DEF IdFindsLatest
<1>14. RequestsAreFirst'
  BY <1>4 DEF RequestsAreFirst, JobRestated
<1>15. CurrentRuns'
  <2>1. CASE UNCHANGED <<worker, current>>
    BY <1>3, <1>4, <2>1 DEF CurrentRuns, JobRestated
  <2>2. CASE worker' = "handling" /\ current' = Head(queues[q]) /\ s = "running"
    BY <1>1, <1>4, <2>2 DEF CurrentRuns, JobRestated, i
  <2> QED BY <2>1, <2>2
<1> QED BY <1>5, <1>10, <1>11, <1>12, <1>13, <1>14, <1>15

LEMMA DequeueKeeps ==
  ASSUME QueueIndInv, NEW q \in Queue, Dequeue(q)
  PROVE  QueueIndInv'
<1>1. rest' \in Seq(Queue)
  BY DEF Dequeue, QueueIndInv, QueueInv, QueueTypeOK
<1> QED BY <1>1, PopKeeps DEF Dequeue

LEMMA StartKeeps ==
  ASSUME QueueIndInv, StartHandler
  PROVE  QueueIndInv'
<1>1. rest \in Seq(Queue) /\ rest # << >>
  BY DEF StartHandler, QueueIndInv, QueueInv, QueueTypeOK
<1>2. Head(rest) \in Queue /\ Tail(rest) \in Seq(Queue)
  BY <1>1
<1> DEFINE q == Head(rest)
<1>3. /\ queues[q] # << >> /\ queues' = Popped(q) /\ rest' = Tail(rest)
      /\ UNCHANGED <<names, byId, millis>>
  BY DEF StartHandler
<1>4. \/ jobs' = SetStatus(Head(queues[q]), "running") /\ worker' = "handling"
         /\ current' = Head(queues[q])
      \/ jobs' = SetStatus(Head(queues[q]), "failed") /\ UNCHANGED <<worker, current>>
  BY DEF StartHandler
<1> HIDE DEF q
<1> QED BY <1>2, <1>3, <1>4, PopKeeps DEF q

(* A pass that begins, ends or goes on, and time that passes.              *)
LEMMA PassKeeps ==
  ASSUME QueueIndInv, Wake \/ SkipEmpty \/ Sleep \/ NextMillisecond
  PROVE  QueueIndInv'
<1>1. UNCHANGED <<jobs, queues, names, byId, current>>
  BY DEF Wake, SkipEmpty, Sleep, NextMillisecond
<1>2. rest' \in Seq(Queue)
  <2>1. names \in Seq(Queue) /\ rest \in Seq(Queue)
    BY DEF QueueIndInv, QueueInv, QueueTypeOK
  <2>2. rest # << >> => Tail(rest) \in Seq(Queue)
    BY <2>1
  <2> QED BY <2>1, <2>2 DEF Wake, SkipEmpty, Sleep, NextMillisecond
<1>3. /\ worker' \in {"asleep", "passing", "handling", "gone"} /\ millis' \in Nat
      /\ worker' = "handling" => worker = "handling"
  BY DEF Wake, SkipEmpty, Sleep, NextMillisecond, LoopFree, QueueIndInv, QueueInv, QueueTypeOK
<1>4. QueueTypeOK'
  BY <1>1, <1>2, <1>3 DEF QueueIndInv, QueueInv, QueueTypeOK
<1>5. PendingQueuedOnce' /\ QueueOrder'
  BY <1>1 DEF QueueIndInv, QueueInv, PendingQueuedOnce, QueueOrder
<1>6. OneAttemptLeft' /\ IdFindsLatest' /\ RequestsAreFirst' /\ CurrentRuns'
  BY <1>1, <1>3 DEF QueueIndInv, QueueInv, OneAttemptLeft, Superseded, IdFindsLatest,
       RequestsAreFirst, CurrentRuns
<1> QED BY <1>4, <1>5, <1>6 DEF QueueIndInv, QueueInv

(* A handler that returns, or that fails for the last time.                *)
LEMMA EndKeeps ==
  ASSUME QueueIndInv, HandlerReturns \/ HandlerFails
  PROVE  QueueIndInv'
<1> USE DEF QueueIndInv, QueueInv
<1>1. /\ worker = "handling" /\ current \in DOMAIN jobs /\ jobs[current].status = "running"
      /\ jobs \in Seq(Job)
  BY DEF HandlerReturns, HandlerFails, CurrentRuns, QueueTypeOK
<1>2. /\ UNCHANGED <<queues, names, byId, rest, millis>> /\ worker' = "passing" /\ current' = 0
  BY DEF HandlerReturns, HandlerFails, BackToPass
<1>3. PICK s \in {"completed", "failed"} : JobRestated(jobs', current, s)
  BY <1>1, Restated DEF HandlerReturns, HandlerFails, Status
<1>4. QueueTypeOK'
  BY <1>2, <1>3 DEF QueueTypeOK, JobRestated
<1>5. \A x \in Queue : \A k \in DOMAIN queues[x] :
        queues[x][k] \in DOMAIN jobs /\ queues[x][k] # current
  BY <1>1 DEF PendingQueuedOnce, QueueTypeOK
<1>6. PendingQueuedOnce'
  <2>1. ASSUME NEW x \in Queue, NEW k \in DOMAIN queues[x]
        PROVE  /\ jobs'[queues[x][k]].status = "pending" /\ jobs'[queues[x][k]].queue = x
               /\ \A l \in DOMAIN queues[x] : queues[x][k] = queues[x][l] => k = l
    BY <1>3, <1>5 DEF PendingQueuedOnce, JobRestated
  <2>2. ASSUME NEW j \in DOMAIN jobs', jobs'[j].status = "pending"
        PROVE  \E k \in DOMAIN queues[jobs'[j].queue] : queues[jobs'[j].queue][k] = j
    <3>1. j \in DOMAIN jobs /\ jobs[j].status = "pending" /\ jobs'[j].queue = jobs[j].queue
      BY <1>3, <2>2 DEF JobRestated
    <3> QED BY <3>1 DEF PendingQueuedOnce
  <2> QED BY <1>2, <2>1, <2>2 DEF PendingQueuedOnce
<1>7. QueueOrder'
  <2> SUFFICES ASSUME NEW x \in Queue, NEW k \in DOMAIN queues[x], NEW l \in DOMAIN queues[x],
                      k < l
               PROVE  /\ jobs'[queues[x][l]].priority > 0
                           => jobs'[queues[x][k]].priority > 0 /\ queues[x][k] > queues[x][l]
                      /\ jobs'[queues[x][k]].priority = 0 => queues[x][k] < queues[x][l]
    BY <1>2 DEF QueueOrder
  <2>1. /\ jobs'[queues[x][l]].priority = jobs[queues[x][l]].priority
        /\ jobs'[queues[x][k]].priority = jobs[queues[x][k]].priority
    BY <1>3, <1>5 DEF JobRestated
  <2> QED BY <2>1 DEF QueueOrder
<1>8. OneAttemptLeft'
  <2>1. Len(jobs) \in Nat /\ DOMAIN jobs' = DOMAIN jobs
    BY <1>3 DEF QueueTypeOK, JobRestated
  <2>2. ASSUME NEW j \in DOMAIN jobs
        PROVE  /\ jobs'[j].request = jobs[j].request
               /\ jobs'[j].status = "retrying" <=> jobs[j].status = "retrying"
    <3>1. CASE j = current
      BY <1>1, <1>3, <3>1 DEF JobRestated
    <3>2. CASE j # current
      BY <1>3, <3>2 DEF JobRestated
    <3> QED BY <3>1, <3>2
  <2> QED BY <2>1, <2>2, AttemptsKeep
<1>9. IdFindsLatest'
  <2>1. \A j \in DOMAIN jobs : byId[jobs[j].id] \in DOMAIN jobs
    BY DEF QueueTypeOK, IdFindsLatest
  <2>2. ASSUME NEW j \in DOMAIN jobs
        PROVE  /\ jobs'[j].id = jobs[j].id /\ jobs'[byId[jobs[j].id]].id = jobs[byId[jobs[j].id]].id
               /\ jobs[j].id \in DOMAIN byId /\ byId[jobs[j].id] >= j
               /\ jobs[byId[jobs[j].id]].id = jobs[j].id
    BY <1>3, <2>1 DEF IdFindsLatest, JobRestated
  <2>3. DOMAIN jobs' = DOMAIN jobs /\ byId' = byId
    BY <1>2, <1>3 DEF JobRestated
  <2> QED BY <2>2, <2>3 DEF IdFindsLatest
<1>10. RequestsAreFirst' /\ CurrentRuns'
  BY <1>2, <1>3 DEF RequestsAreFirst, CurrentRuns, JobRestated
<1> QED BY <1>4, <1>6, <1>7, <1>8, <1>9, <1>10

(* A retry: the failed attempt is superseded by the new job, which is the  *)
(* one attempt of the request from then on.                                *)
LEMMA RetryKeeps ==
  ASSUME QueueIndInv, HandlerRetries
  PROVE  QueueIndInv'
<1> DEFINE n == Len(jobs) + 1
           old == RaisedJobs("retrying")
           job == RetryJob
<1>1. /\ worker = "handling" /\ current \in DOMAIN jobs /\ jobs[current].status = "running"
      /\ jobs \in Seq(Job) /\ Len(jobs) \in Nat /\ DOMAIN jobs = 1..Len(jobs) /\ millis \in Nat
      /\ rest \in Seq(Queue)
  BY DEF HandlerRetries, CurrentRuns, QueueIndInv, QueueInv, QueueTypeOK
<1>2. /\ Enqueued(old, job) /\ UNCHANGED <<rest, millis>> /\ worker' = "passing" /\ current' = 0
  BY DEF HandlerRetries, BackToPass
<1>3. jobs[current] \in Job /\ jobs[current].request \in 1..current
  BY <1>1 DEF QueueIndInv, RequestsAreFirst
<1>4. /\ job \in Job /\ job.status = "pending" /\ job.id = millis
      /\ job.request = jobs[current].request
  BY <1>1, <1>3 DEF RetryJob, NewJob, Job, Status
<1>5. JobRestated(old, current, "retrying")
  BY <1>1, Restated DEF Status
<1> HIDE DEF old, job
<1>6. SameJobs(old)
  BY <1>5 DEF SameJobs, JobRestated
<1>7. \A i \in DOMAIN jobs : old[i].status = "pending" <=> jobs[i].status = "pending"
  <2> SUFFICES ASSUME NEW i \in DOMAIN jobs
               PROVE  old[i].status = "pending" <=> jobs[i].status = "pending"
    OBVIOUS
  <2>1. CASE i = current
    BY <1>1, <1>5, <2>1 DEF JobRestated
  <2>2. CASE i # current
    BY <1>5, <2>2 DEF JobRestated
  <2> QED BY <2>1, <2>2
<1>8. /\ rest' \in Seq(Queue) /\ worker' \in {"asleep", "passing", "handling", "gone"}
      /\ current' \in DOMAIN jobs \cup {0} /\ millis' = millis
  BY <1>1, <1>2
<1>9. job.request \in 1..(Len(jobs) + 1)
  BY <1>1, <1>3, <1>4
<1>10. /\ QueueTypeOK' /\ PendingQueuedOnce' /\ QueueOrder' /\ IdFindsLatest'
       /\ RequestsAreFirst'
       /\ Len(jobs') = Len(jobs) + 1 /\ jobs'[Len(jobs) + 1] = job
       /\ DOMAIN jobs = 1..Len(jobs) /\ DOMAIN jobs' = 1..(Len(jobs) + 1)
       /\ \A i \in DOMAIN jobs : jobs'[i] = old[i]
  BY <1>2, <1>4, <1>6, <1>7, <1>8, <1>9, EnqueuedKeeps
<1>11. OneAttemptLeft'
  <2>1. DOMAIN jobs' = DOMAIN jobs \cup {n} /\ n \notin DOMAIN jobs
    BY <1>1, <1>10
  <2>2. jobs'[n].request = jobs[current].request /\ jobs'[n].status # "retrying"
    BY <1>4, <1>10
  <2>3. \A i \in DOMAIN jobs : /\ jobs'[i].request = jobs[i].request
                               /\ i # current => jobs'[i].status = jobs[i].status
    BY <1>5, <1>10 DEF JobRestated
  <2>4. jobs'[current].status = "retrying"
    BY <1>1, <1>5, <1>10 DEF JobRestated
  <2>5. \A k \in DOMAIN jobs :
          jobs[k].request = jobs[current].request /\ jobs[k].status # "retrying" => k = current
    <3>1. PICK j \in DOMAIN jobs :
            \A k \in DOMAIN jobs :
              jobs[k].request = jobs[current].request /\ jobs[k].status # "retrying" => k = j
      BY <1>1 DEF QueueIndInv, QueueInv, OneAttemptLeft, Superseded
    <3>2. j = current
      BY <1>1, <3>1
    <3> QED BY <3>1, <3>2
  <2> HIDE DEF n
  <2> SUFFICES ASSUME NEW i \in DOMAIN jobs'
               PROVE  \E j \in DOMAIN jobs' :
                        /\ jobs'[j].request = jobs'[i].request /\ jobs'[j].status # "retrying"
                        /\ \A k \in DOMAIN jobs' :
                             jobs'[k].request = jobs'[i].request /\ jobs'[k].status # "retrying"
                               => k = j
    BY DEF OneAttemptLeft, Superseded
  <2>6. CASE jobs'[i].request = jobs[current].request
    <3>1. \A k \in DOMAIN jobs' :
            jobs'[k].request = jobs[current].request /\ jobs'[k].status # "retrying" => k = n
      BY <2>1, <2>3, <2>4, <2>5
    <3> QED BY <2>1, <2>2, <2>6, <3>1
  <2>7. CASE jobs'[i].request # jobs[current].request
    <3>1. i \in DOMAIN jobs /\ jobs'[i].request = jobs[i].request
      BY <2>1, <2>2, <2>3, <2>7
    <3>2. PICK j \in DOMAIN jobs :
            /\ jobs[j].request = jobs[i].request /\ jobs[j].status # "retrying"
            /\ \A k \in DOMAIN jobs :
                 jobs[k].request = jobs[i].request /\ jobs[k].status # "retrying" => k = j
      BY <3>1 DEF QueueIndInv, QueueInv, OneAttemptLeft, Superseded
    <3>3. j # current /\ jobs'[j].request = jobs'[i].request /\ jobs'[j].status # "retrying"
      BY <2>3, <2>7, <3>1, <3>2
    <3>4. ASSUME NEW k \in DOMAIN jobs', jobs'[k].request = jobs'[i].request,
                 jobs'[k].status # "retrying"
          PROVE  k = j
      <4>1. k \in DOMAIN jobs /\ k # current
        BY <2>1, <2>2, <2>3, <2>4, <2>7, <3>1, <3>4
      <4> QED BY <2>3, <3>1, <3>2, <3>4, <4>1
    <3> QED BY <2>1, <3>2, <3>3, <3>4
  <2> QED BY <2>6, <2>7
<1>12. CurrentRuns'
  BY <1>2 DEF CurrentRuns
<1> QED BY <1>10, <1>11, <1>12 DEF QueueIndInv, QueueInv

LEMMA QueueStepInv == QueueIndInv /\ [QueueNext]_queueVars => QueueIndInv'
<1> SUFFICES ASSUME QueueIndInv, [QueueNext]_queueVars PROVE QueueIndInv'
  OBVIOUS
<1>1. CASE ClientStep
  BY <1>1, EnqueueKeeps, DequeueKeeps, QueueNumbers DEF ClientStep
<1>2. CASE NextMillisecond \/ WorkerStep
  BY <1>2, PassKeeps, StartKeeps DEF WorkerStep
<1>3. CASE HandlerEnds
  BY <1>3, EndKeeps, RetryKeeps DEF HandlerEnds
<1>4. CASE UNCHANGED queueVars
  <2>1. UNCHANGED <<jobs, queues, names, byId, worker, rest, current, millis>>
    BY <1>4 DEF queueVars
  <2> QED BY <2>1 DEF QueueIndInv, QueueInv, QueueTypeOK, PendingQueuedOnce, QueueOrder,
            OneAttemptLeft, Superseded, IdFindsLatest, RequestsAreFirst, CurrentRuns
<1> QED BY <1>1, <1>2, <1>3, <1>4 DEF QueueNext

(* However many queues, clients, priorities and retries there are, and     *)
(* whatever happens while a handler is awaited: a pending job is in its    *)
(* queue once and in order, each request has one live attempt, and an id   *)
(* finds the latest job that bears it.                                     *)
THEOREM QueueCorrect == QueueSpec => []QueueInv
<1>1. QueueIndInv => QueueInv
  BY DEF QueueIndInv
<1> QED BY QueueInitInv, QueueStepInv, <1>1, PTL DEF QueueSpec

(* A job that has just been created waits in no queue.                     *)
LEMMA NewIsNotWaiting ==
  ASSUME QueueInv
  PROVE  Len(jobs) + 1 \in Nat \ {0} /\ ~Turns!Waits(Len(jobs) + 1)
<1>1. jobs \in Seq(Job) /\ Len(jobs) \in Nat /\ DOMAIN jobs = 1..Len(jobs)
  BY DEF QueueInv, QueueTypeOK
<1>2. ASSUME NEW q \in Queue, NEW k \in DOMAIN queues[q]
      PROVE  queues[q][k] # Len(jobs) + 1
  <2>1. queues[q] \in Seq(DOMAIN jobs)
    BY DEF QueueInv, QueueTypeOK
  <2>2. queues[q][k] \in DOMAIN jobs
    BY <2>1
  <2> QED BY <1>1, <2>2
<1> QED BY <1>1, <1>2 DEF Turns!Waits, Turns!Range

LEMMA EnqueueIsATurn ==
  ASSUME QueueInv, NEW t \in JobType, NEW q \in Queue, NEW p \in Nat, NEW m \in Nat,
         Enqueue(t, q, p, m)
  PROVE  \E r \in Nat \ {0} : Turns!PutInFront(q, r) \/ Turns!PutBehind(q, r)
<1>1. PICK r \in Nat \ {0} : r = Len(jobs) + 1 /\ ~Turns!Waits(r)
  BY NewIsNotWaiting
<1>2. /\ queues' = [queues EXCEPT ![q] = Push(@, r, p)]
      /\ names' = IF q \in Range(names) THEN names ELSE Append(names, q)
      /\ worker # "passing" /\ worker' = worker /\ rest' = rest
  BY <1>1 DEF Enqueue, Enqueued, NewJob, LoopFree
<1>3. CASE p > 0
  <2>1. Turns!Placed(q, <<r>> \o queues[q])
    BY <1>2, <1>3 DEF Turns!Placed, Push, Turns!Range, Range
  <2> QED BY <1>1, <1>2, <2>1 DEF Turns!PutInFront
<1>4. CASE ~(p > 0)
  <2>1. Turns!Placed(q, Append(queues[q], r))
    BY <1>2, <1>4 DEF Turns!Placed, Push, Turns!Range, Range
  <2> QED BY <1>1, <1>2, <2>1 DEF Turns!PutBehind
<1> QED BY <1>3, <1>4

LEMMA RetryIsATurn ==
  ASSUME QueueIndInv, HandlerRetries
  PROVE  Turns!HandlerOver
<1>1. PICK r \in Nat \ {0} : r = Len(jobs) + 1 /\ ~Turns!Waits(r)
  BY NewIsNotWaiting DEF QueueIndInv
<1>2. current \in DOMAIN jobs /\ jobs \in Seq(Job)
  BY DEF HandlerRetries, QueueIndInv, CurrentRuns, QueueInv, QueueTypeOK
<1>3. PICK q \in Queue : q = jobs[current].queue
  <2>1. jobs[current] \in Job
    BY <1>2
  <2> QED BY <2>1 DEF Job
<1>4. Len(RaisedJobs("retrying")) = Len(jobs)
  BY <1>2 DEF RaisedJobs
<1>5. /\ queues' = [queues EXCEPT ![q] = Append(@, r)]
      /\ names' = IF q \in Range(names) THEN names ELSE Append(names, q)
  <2>1. PICK job : job = RetryJob
    OBVIOUS
  <2>2. job.queue = q /\ job.priority = 0
    BY <1>3, <2>1 DEF RetryJob, NewJob
  <2>3. Enqueued(RaisedJobs("retrying"), job)
    BY <2>1 DEF HandlerRetries
  <2>4. /\ queues' = [queues EXCEPT ![q] = Push(@, r, 0)]
        /\ names' = IF q \in Range(names) THEN names ELSE Append(names, q)
    BY <1>1, <1>4, <2>2, <2>3 DEF Enqueued
  <2> QED BY <2>4 DEF Push
<1>6. Turns!Retried(q, r)
  BY <1>1, <1>5 DEF Turns!Retried, Turns!Placed, Turns!Range, Range
<1>7. worker = "handling" /\ worker' = "passing" /\ rest' = rest
  BY DEF HandlerRetries, BackToPass
<1> QED BY <1>6, <1>7 DEF Turns!HandlerOver

(* Whoever waits, waits for the turns of QueueTurns alone: with any        *)
(* queues, clients, priorities and retries, the block begins with no job   *)
(* in a queue, and each of its steps is one of QueueTurns or leaves every  *)
(* queue and the worker's place in its pass as they are.                   *)
THEOREM QueueImplementsTurns == QueueSpec => Turns!TurnsSpec
<1>1. QueueInit => Turns!TurnsInit
  BY DEF QueueInit, Turns!TurnsInit
<1>2. ASSUME QueueIndInv, [QueueNext]_queueVars
      PROVE  [Turns!TurnsNext]_(Turns!turnsVars)
  <2>1. ASSUME NEW t \in JobType, NEW q \in Queue, NEW p \in Priority, NEW m \in Retries[t],
               Enqueue(t, q, p, m)
        PROVE  Turns!TurnsNext
    <3>1. p \in Nat /\ m \in Nat
      BY QueueNumbers
    <3> QED BY <1>2, <2>1, <3>1, EnqueueIsATurn DEF QueueIndInv, Turns!TurnsNext
  <2>2. ASSUME NEW q \in Queue, Dequeue(q) PROVE Turns!TurnsNext
    <3>1. Turns!Take(q)
      BY <2>2 DEF Dequeue, LoopFree, Popped, Turns!Take
    <3> QED BY <3>1 DEF Turns!TurnsNext
  <2>3. CASE NextMillisecond
    BY <2>3 DEF NextMillisecond, Turns!turnsVars
  <2>4. CASE Wake
    BY <2>4 DEF Wake, Turns!BeginPass, Turns!Pass, Turns!TurnsNext
  <2>5. CASE SkipEmpty
    BY <2>5 DEF SkipEmpty, Turns!PassBy, Turns!Pass, Turns!TurnsNext
  <2>6. CASE StartHandler
    <3>1. worker' \in {"passing", "handling"}
      BY <2>6 DEF StartHandler
    <3>2. Turns!TakeTurn
      BY <2>6, <3>1 DEF StartHandler, Popped, Turns!TakeTurn
    <3> QED BY <3>2 DEF Turns!Pass, Turns!TurnsNext
  <2>7. CASE Sleep
    BY <2>7 DEF Sleep, Turns!EndPass, Turns!Pass, Turns!TurnsNext
  <2>8. CASE HandlerReturns \/ HandlerFails
    BY <2>8 DEF HandlerReturns, HandlerFails, BackToPass, Turns!HandlerOver, Turns!TurnsNext
  <2>9. CASE HandlerRetries
    BY <1>2, <2>9, RetryIsATurn DEF Turns!TurnsNext
  <2>10. CASE UNCHANGED queueVars
    BY <2>10 DEF queueVars, Turns!turnsVars
  <2> QED BY <1>2, <2>1, <2>2, <2>3, <2>4, <2>5, <2>6, <2>7, <2>8, <2>9, <2>10
          DEF QueueNext, ClientStep, WorkerStep, HandlerEnds
<1> QED BY QueueInitInv, QueueStepInv, <1>1, <1>2, PTL DEF QueueSpec, Turns!TurnsSpec

----------------------------------------------------------------------------
(* Workflow: what the history records is what the run did, for every set   *)
(* of definitions and loops.                                               *)

Outcome == {"success", "error", "failed"}
RunType ==
  [pc : {"free", "created", "running", "awaiting", "sleeping", "answered", "crashed"},
   pipeline : Pipeline \cup {None}, steps : Seq(StepType), todo : Seq(StepType),
   outcomes : Seq(Outcome), status : {"completed", "partial"},
   trigger : {"no", "seconds", "unusable"}]
RecordType == [pipeline : Pipeline \cup {None}, status : {"completed", "partial"},
               steps : Seq(StepType), outcomes : Seq(Outcome)]

WorkflowTypeOK ==
  /\ pipelines \in [Pipeline -> DefinitionType \cup {NoDefinition}]
  /\ tasks \in [Pipeline -> Loop \cup {None}]
  /\ run \in [Runner -> RunType]
  /\ history \in Seq(RecordType)

(* What a run has noted is about the steps it has behind it, and unless it *)
(* broke off, the steps it has before it are the rest of its own.          *)
Bad(rec, k) == rec.outcomes[k] = "failed" \/ Stops(rec.steps[k], rec.outcomes[k])
StatusRight(rec) == rec.status = "completed" <=> \A k \in DOMAIN rec.outcomes : ~Bad(rec, k)
RestLeft(state) ==
  /\ Len(state.outcomes) + Len(state.todo) = Len(state.steps)
  /\ \A j \in DOMAIN state.todo : state.todo[j] = state.steps[Len(state.outcomes) + j]
BrokeOff(state) == state.todo = << >> /\ state.status = "partial"
RunSound(state) ==
  state.pc \in {"running", "awaiting"} =>
    /\ StatusRight(state)
    /\ RestLeft(state) \/ BrokeOff(state)
    /\ state.pc = "awaiting" => state.todo # << >>

(* A task that lives has a pipeline.                                       *)
LoopsHaveOne == \A l \in Loop : Alive(l) => run[l].pipeline \in Pipeline
WorkflowIndInv ==
  /\ WorkflowTypeOK /\ WorkflowInv /\ LoopsHaveOne
  /\ \A r \in Runner : RunSound(run[r])

LEMMA RestingSound == Resting \in RunType /\ RunSound(Resting) /\ Resting.pc = "free"
<1>1. << >> \in Seq(StepType) /\ << >> \in Seq(Outcome)
  OBVIOUS
<1> QED BY <1>1 DEF Resting, RunType, RunSound

LEMMA WorkflowInitInv == WorkflowInit => WorkflowIndInv
<1> SUFFICES ASSUME WorkflowInit PROVE WorkflowIndInv
  OBVIOUS
<1>1. WorkflowTypeOK
  BY RestingSound DEF WorkflowInit, WorkflowTypeOK
<1>2. \A l \in Loop : ~Alive(l)
  BY RestingSound DEF WorkflowInit, Alive, Runner
<1>3. CompletedIsComplete
  BY DEF WorkflowInit, CompletedIsComplete
<1> QED BY <1>1, <1>2, <1>3, RestingSound DEF WorkflowIndInv, WorkflowInv, OneLoopEach,
          LoopsHaveOne, WorkflowInit

(* What becomes of a run that begins.                                      *)
LEMMA Begins ==
  ASSUME NEW r \in Runner, NEW p \in Pipeline, NEW steps \in Seq(StepType),
         NEW trigger \in {"no", "seconds", "unusable"}, RunPipeline(r, p, steps, trigger)
  PROVE  \E s \in RunType : /\ run' = [run EXCEPT ![r] = s] /\ s.pipeline = p /\ RunSound(s)
                            /\ s.pc # "free"
<1> DEFINE s0 == [Resting EXCEPT !.pipeline = p, !.steps = steps, !.trigger = trigger]
           s1 == Ended(r, [s0 EXCEPT !.trigger = "unusable"])
           s2 == Ended(r, s0)
           s3 == [s0 EXCEPT !.pc = "running", !.todo = steps]
<1>1. /\ s0 = [pc |-> "free", pipeline |-> p, steps |-> steps, todo |-> << >>,
               outcomes |-> << >>, status |-> "completed", trigger |-> trigger]
      /\ << >> \in Seq(StepType) /\ << >> \in Seq(Outcome) /\ Len(<< >>) = 0
  <2>1. << >> \in Seq(StepType) /\ << >> \in Seq(Outcome) /\ Len(<< >>) = 0
    OBVIOUS
  <2> DEFINE Fresh(a, b, c) ==
        [pc |-> "free", pipeline |-> a, steps |-> b, todo |-> << >>,
         outcomes |-> << >>, status |-> "completed", trigger |-> c]
  <2>2. ASSUME NEW x, NEW a, NEW b, NEW c, x = Fresh(a, b, c)
        PROVE  /\ \A y : [x EXCEPT !.pipeline = y] = Fresh(y, b, c)
               /\ \A y : [x EXCEPT !.steps = y] = Fresh(a, y, c)
               /\ \A y : [x EXCEPT !.trigger = y] = Fresh(a, b, y)
    BY <2>2
  <2>3. Resting = Fresh(None, << >>, "no")
    BY DEF Resting
  <2> HIDE DEF Fresh
  <2>4. PICK x1 : x1 = [Resting EXCEPT !.pipeline = p]
    OBVIOUS
  <2>5. PICK x2 : x2 = [x1 EXCEPT !.steps = steps]
    OBVIOUS
  <2>6. PICK x3 : x3 = [x2 EXCEPT !.trigger = trigger]
    OBVIOUS
  <2>7. s0 = x3
    BY <2>4, <2>5, <2>6
  <2>8. x1 = Fresh(p, << >>, "no")
    BY <2>2, <2>3, <2>4
  <2>9. x2 = Fresh(p, steps, "no")
    BY <2>2, <2>5, <2>8
  <2>10. x3 = Fresh(p, steps, trigger)
    BY <2>2, <2>6, <2>9
  <2> QED BY <2>1, <2>7, <2>10 DEF Fresh
<1>2. \A s \in RunType : /\ Ended(r, s) \in RunType /\ Ended(r, s).pipeline = s.pipeline
                         /\ Ended(r, s).pc \in {"answered", "sleeping", "crashed"}
  BY DEF Ended, RunType
<1>3. s0 \in RunType /\ [s0 EXCEPT !.trigger = "unusable"] \in RunType
      /\ s0.pipeline = p /\ [s0 EXCEPT !.trigger = "unusable"].pipeline = p
  BY <1>1 DEF RunType
<1>4. /\ s3 \in RunType /\ s3.pipeline = p /\ s3.pc = "running" /\ s3.todo = steps
      /\ s3.steps = steps /\ s3.outcomes = << >> /\ s3.status = "completed"
  BY <1>1 DEF RunType
<1>5. RunSound(s3)
  <2> HIDE DEF s3
  <2>1. Len(steps) \in Nat
    OBVIOUS
  <2> QED BY <1>1, <1>4, <2>1 DEF RunSound, StatusRight, RestLeft
<1>6. run' = [run EXCEPT ![r] = s1] \/ run' = [run EXCEPT ![r] = s2] \/ run' = [run EXCEPT ![r] = s3]
  BY DEF RunPipeline, Becomes
<1>7. /\ s1 \in RunType /\ s1.pipeline = p /\ RunSound(s1) /\ s1.pc # "free"
      /\ s2 \in RunType /\ s2.pipeline = p /\ RunSound(s2) /\ s2.pc # "free"
  <2> HIDE DEF s0
  <2> QED BY <1>2, <1>3 DEF RunSound
<1> HIDE DEF s1, s2, s3
<1> QED BY <1>4, <1>5, <1>6, <1>7

(* What is noted of a step: the next one is before the run, or none if it  *)
(* breaks off.                                                             *)
LEMMA NotedSound ==
  ASSUME NEW r \in Runner, run[r] \in RunType, RunSound(run[r]),
         run[r].pc \in {"running", "awaiting"}, run[r].todo # << >>,
         NEW outcome \in Outcome, NEW tail, NEW status \in {"completed", "partial"},
         LET bad == outcome = "failed" \/ Stops(Here(r), outcome)
         IN /\ status = IF bad THEN "partial" ELSE run[r].status
            /\ tail = Tail(run[r].todo) \/ (bad /\ tail = << >>)
  PROVE  /\ Noted(r, outcome, tail, status) \in RunType
         /\ Noted(r, outcome, tail, status).pipeline = run[r].pipeline
         /\ Noted(r, outcome, tail, status).pc = "running"
         /\ RunSound(Noted(r, outcome, tail, status))
<1> DEFINE s == run[r]
           n == Len(s.outcomes)
           new == Noted(r, outcome, tail, status)
           bad == outcome = "failed" \/ Stops(Here(r), outcome)
<1>1. /\ s \in RunType /\ s.outcomes \in Seq(Outcome) /\ s.steps \in Seq(StepType)
      /\ s.todo \in Seq(StepType) /\ s.todo # << >> /\ n \in Nat /\ DOMAIN s.outcomes = 1..n
      /\ Len(s.todo) \in Nat \ {0} /\ DOMAIN s.todo = 1..Len(s.todo)
  BY DEF RunType
<1>2. /\ Tail(s.todo) \in Seq(StepType) /\ Len(Tail(s.todo)) = Len(s.todo) - 1
      /\ \A j \in 1..(Len(s.todo) - 1) : Tail(s.todo)[j] = s.todo[j + 1]
      /\ DOMAIN Tail(s.todo) = 1..(Len(s.todo) - 1) /\ Here(r) = s.todo[1]
      /\ << >> \in Seq(StepType)
  BY <1>1 DEF Here
<1>3. /\ Append(s.outcomes, outcome) \in Seq(Outcome) /\ Len(Append(s.outcomes, outcome)) = n + 1
      /\ DOMAIN Append(s.outcomes, outcome) = 1..(n + 1)
      /\ Append(s.outcomes, outcome)[n + 1] = outcome
      /\ \A k \in 1..n : Append(s.outcomes, outcome)[k] = s.outcomes[k]
  BY <1>1
<1>4. tail \in Seq(StepType)
  BY <1>2
<1>5. /\ new \in RunType /\ new.pipeline = s.pipeline /\ new.pc = "running"
      /\ new.outcomes = Append(s.outcomes, outcome) /\ new.todo = tail /\ new.status = status
      /\ new.steps = s.steps
  BY <1>1, <1>3, <1>4 DEF Noted, RunType
<1> HIDE DEF new
<1>6. RestLeft(s) /\ StatusRight(s)
  BY <1>1 DEF RunSound, BrokeOff
<1>7. s.steps[n + 1] = Here(r) /\ n + 1 \in 1..Len(s.steps)
  <2> HIDE DEF s, n
  <2>1. 1 \in DOMAIN s.todo
    BY <1>1
  <2>2. n + Len(s.todo) = Len(s.steps)
    BY <1>6 DEF RestLeft, n
  <2>3. s.todo[1] = s.steps[n + 1]
    BY <1>6, <2>1 DEF RestLeft, n
  <2>4. n + 1 \in 1..Len(s.steps)
    <3>1. Len(s.todo) \in Nat /\ Len(s.todo) >= 1 /\ n \in Nat
      BY <1>1
    <3>2. ASSUME NEW a \in Nat, NEW b \in Nat, b >= 1 PROVE a + 1 \in 1..(a + b)
      BY <3>2
    <3> QED BY <2>2, <3>1, <3>2
  <2> QED BY <1>2, <2>3, <2>4
<1>8. status = (IF bad THEN "partial" ELSE s.status) /\ (tail = Tail(s.todo) \/ (bad /\ tail = << >>))
  OBVIOUS
<1>9. Bad(new, n + 1) <=> bad
  BY <1>3, <1>5, <1>7 DEF Bad
<1>10. \A k \in 1..n : Bad(new, k) <=> Bad(s, k)
  BY <1>1, <1>3, <1>5 DEF Bad
<1>11. DOMAIN new.outcomes = 1..n \cup {n + 1}
  BY <1>1, <1>3, <1>5
<1> HIDE DEF bad, n, s
<1>12. StatusRight(new)
  <2>1. CASE bad
    BY <1>5, <1>8, <1>9, <1>11, <2>1 DEF StatusRight
  <2>2. CASE ~bad
    BY <1>1, <1>5, <1>6, <1>8, <1>9, <1>10, <1>11, <2>2 DEF StatusRight
  <2> QED BY <2>1, <2>2
<1>13. CASE tail = Tail(s.todo)
  <2>1. Len(new.outcomes) + Len(new.todo) = Len(new.steps)
    <3>1. Len(new.outcomes) = n + 1
      BY <1>3, <1>5
    <3>2. Len(new.todo) = Len(s.todo) - 1
      BY <1>2, <1>5, <1>13
    <3>3. n + Len(s.todo) = Len(s.steps)
      BY <1>6 DEF RestLeft, n
    <3>4. new.steps = s.steps
      BY <1>5
    <3>5. n \in Nat /\ Len(s.todo) \in Nat
      BY <1>1
    <3>6. \A a, b \in Nat : (a + 1) + (b - 1) = a + b
      OBVIOUS
    <3> QED BY <3>1, <3>2, <3>3, <3>4, <3>5, <3>6
  <2>2. ASSUME NEW j \in DOMAIN new.todo PROVE new.todo[j] = new.steps[Len(new.outcomes) + j]
    <3>1. j \in 1..(Len(s.todo) - 1) /\ j + 1 \in DOMAIN s.todo /\ n + (j + 1) = (n + 1) + j
      <4>1. DOMAIN new.todo = 1..(Len(s.todo) - 1)
        BY <1>2, <1>5, <1>13
      <4>2. j \in 1..(Len(s.todo) - 1)
        BY <4>1
      <4>3. DOMAIN s.todo = 1..Len(s.todo) /\ Len(s.todo) \in Nat /\ n \in Nat
        BY <1>1
      <4> QED BY <4>2, <4>3
    <3>2. new.todo[j] = s.todo[j + 1]
      BY <1>2, <1>5, <1>13, <3>1
    <3>3. s.todo[j + 1] = s.steps[n + (j + 1)]
      BY <1>6, <3>1 DEF RestLeft, n
    <3> QED BY <1>3, <1>5, <3>1, <3>2, <3>3
  <2> QED BY <1>5, <1>12, <2>1, <2>2 DEF RunSound, RestLeft, new, s
<1>14. CASE bad /\ tail = << >>
  BY <1>5, <1>8, <1>12, <1>14 DEF RunSound, BrokeOff, new, s
<1> QED BY <1>5, <1>8, <1>13, <1>14 DEF new, s, bad

RecordRight(rec) ==
  /\ StatusRight(rec)
  /\ rec.status = "completed" => Len(rec.outcomes) = Len(rec.steps)

LEMMA RecordsRight ==
  CompletedIsComplete <=> \A i \in DOMAIN history : RecordRight(history[i])
BY DEF CompletedIsComplete, RecordRight, StatusRight, Bad

(* Only the run of r changes: tasks stay, and no definition goes.          *)
LEMMA RunChanges ==
  ASSUME WorkflowIndInv, NEW r \in Runner, NEW s \in RunType, RunSound(s),
         run' = [run EXCEPT ![r] = s], tasks' = tasks,
         r \in Loop => Alive(r) /\ s.pipeline = run[r].pipeline,
         pipelines' \in [Pipeline -> DefinitionType \cup {NoDefinition}],
         \A p \in Pipeline : pipelines[p] # NoDefinition => pipelines'[p] # NoDefinition,
         history' \in Seq(RecordType), CompletedIsComplete'
  PROVE  WorkflowIndInv'
<1>1. WorkflowTypeOK /\ OneLoopEach /\ LoopsHaveOne /\ \A q \in Runner : RunSound(run[q])
  BY DEF WorkflowIndInv, WorkflowInv
<1>2. run' \in [Runner -> RunType] /\ run'[r] = s /\ \A q \in Runner \ {r} : run'[q] = run[q]
  BY <1>1 DEF WorkflowTypeOK
<1>3. WorkflowTypeOK'
  BY <1>1, <1>2 DEF WorkflowTypeOK
<1>4. ASSUME NEW l \in Loop, Alive(l)'
      PROVE  /\ Alive(l) /\ run'[l].pipeline = run[l].pipeline
  <2>1. CASE l = r
    BY <1>2, <2>1
  <2>2. CASE l # r
    BY <1>2, <1>4, <2>2 DEF Alive, Runner
  <2> QED BY <2>1, <2>2
<1>5. OneLoopEach'
  BY <1>1, <1>4 DEF OneLoopEach, LoopsHaveOne
<1>6. LoopsHaveOne'
  BY <1>1, <1>4 DEF LoopsHaveOne
<1>7. ASSUME NEW q \in Runner PROVE RunSound(run'[q])
  BY <1>1, <1>2
<1> QED BY <1>3, <1>5, <1>6, <1>7 DEF WorkflowIndInv, WorkflowInv

LEMMA SameRecords == CompletedIsComplete /\ history' = history => CompletedIsComplete'
BY DEF CompletedIsComplete

LEMMA SentIsDefinition == \A d \in Definition : d \in DefinitionType /\ d # NoDefinition
BY WorkflowDefinitions DEF NoDefinition, DefinitionType

LEMMA RunKeeps ==
  ASSUME WorkflowIndInv, NEW c \in Caller, NEW p \in Pipeline, NEW d \in Definition, Run(c, p, d)
  PROVE  WorkflowIndInv'
<1>1. d \in DefinitionType /\ d # NoDefinition /\ d.steps \in Seq(StepType)
  BY SentIsDefinition DEF DefinitionType
<1>2. c \in Runner /\ c \notin Loop /\ RunPipeline(c, p, d.steps, "no")
  BY WorkflowRunners DEF Run, Runner
<1>3. PICK s \in RunType : /\ run' = [run EXCEPT ![c] = s] /\ s.pipeline = p /\ RunSound(s)
                           /\ s.pc # "free"
  BY <1>1, <1>2, Begins
<1>4. WorkflowTypeOK /\ CompletedIsComplete
  BY DEF WorkflowIndInv, WorkflowInv
<1>5. pipelines' = [pipelines EXCEPT ![p] = d] /\ tasks' = tasks /\ history' = history
  BY DEF Run
<1>6. /\ pipelines' \in [Pipeline -> DefinitionType \cup {NoDefinition}]
      /\ \A q \in Pipeline : pipelines[q] # NoDefinition => pipelines'[q] # NoDefinition
      /\ history' \in Seq(RecordType)
  BY <1>1, <1>4, <1>5 DEF WorkflowTypeOK
<1>7. CompletedIsComplete'
  BY <1>4, <1>5, SameRecords
<1> QED BY <1>2, <1>3, <1>5, <1>6, <1>7, RunChanges

LEMMA TurnKeeps ==
  ASSUME WorkflowIndInv, NEW l \in Loop, Turn(l)
  PROVE  WorkflowIndInv'
<1> DEFINE p == run[l].pipeline
<1>1. WorkflowTypeOK /\ CompletedIsComplete /\ LoopsHaveOne
  BY DEF WorkflowIndInv, WorkflowInv
<1>2. l \in Runner /\ run[l] \in RunType /\ Alive(l)
  BY <1>1 DEF Turn, Alive, Runner, WorkflowTypeOK
<1>3. p \in Pipeline
  BY <1>1, <1>2 DEF LoopsHaveOne
<1>4. pipelines[p].steps \in Seq(StepType)
  <2>1. pipelines[p] \in DefinitionType \/ pipelines[p] = NoDefinition
    BY <1>1, <1>3 DEF WorkflowTypeOK
  <2>2. NoDefinition.steps \in Seq(StepType)
    <3>1. << >> \in Seq(StepType)
      OBVIOUS
    <3> QED BY <3>1 DEF NoDefinition
  <2>3. CASE pipelines[p] \in DefinitionType
    BY <2>3 DEF DefinitionType
  <2>4. CASE pipelines[p] = NoDefinition
    BY <2>2, <2>4
  <2> QED BY <2>1, <2>3, <2>4
<1>5. run[l].trigger \in {"no", "seconds", "unusable"}
  BY <1>2 DEF RunType
<1>6. RunPipeline(l, p, pipelines[p].steps, run[l].trigger) /\ UNCHANGED <<pipelines, tasks, history>>
  BY DEF Turn
<1> HIDE DEF p
<1>7. PICK s \in RunType : /\ run' = [run EXCEPT ![l] = s] /\ s.pipeline = p /\ RunSound(s)
                           /\ s.pc # "free"
  BY <1>2, <1>3, <1>4, <1>5, <1>6, Begins
<1>8. CompletedIsComplete' /\ history' \in Seq(RecordType)
  BY <1>1, <1>6, SameRecords DEF WorkflowTypeOK
<1>9. /\ pipelines' \in [Pipeline -> DefinitionType \cup {NoDefinition}]
      /\ \A q \in Pipeline : pipelines[q] # NoDefinition => pipelines'[q] # NoDefinition
  BY <1>1, <1>6 DEF WorkflowTypeOK
<1>10. s.pipeline = run[l].pipeline
  BY <1>7 DEF p
<1> QED BY <1>2, <1>6, <1>7, <1>8, <1>9, <1>10, RunChanges

(* An action on the run of r alone, by one who is at a step.               *)
LEMMA StepsKeep ==
  ASSUME WorkflowIndInv, NEW r \in Runner, NEW s \in RunType, RunSound(s), Busy(r),
         run' = [run EXCEPT ![r] = s], s.pipeline = run[r].pipeline,
         UNCHANGED <<pipelines, tasks, history>>
  PROVE  WorkflowIndInv'
<1>1. WorkflowTypeOK /\ CompletedIsComplete
  BY DEF WorkflowIndInv, WorkflowInv
<1>2. /\ pipelines' \in [Pipeline -> DefinitionType \cup {NoDefinition}]
      /\ history' \in Seq(RecordType)
      /\ \A q \in Pipeline : pipelines[q] # NoDefinition => pipelines'[q] # NoDefinition
  BY <1>1 DEF WorkflowTypeOK
<1>3. CompletedIsComplete'
  BY <1>1, SameRecords
<1>4. Alive(r)
  BY DEF Busy, Alive
<1> QED BY <1>2, <1>3, <1>4, RunChanges

LEMMA StepNotFoundKeeps ==
  ASSUME WorkflowIndInv, NEW r \in Runner, StepNotFound(r)
  PROVE  WorkflowIndInv'
<1> DEFINE s == Noted(r, "failed", Tail(run[r].todo), "partial")
<1>1. /\ run[r] \in RunType /\ RunSound(run[r]) /\ run[r].pc \in {"running", "awaiting"}
      /\ run[r].todo # << >>
  BY DEF WorkflowIndInv, WorkflowTypeOK, StepNotFound, AtStep
<1>2. s \in RunType /\ s.pipeline = run[r].pipeline /\ RunSound(s)
  BY <1>1, NotedSound DEF Outcome
<1>3. run' = [run EXCEPT ![r] = s] /\ UNCHANGED <<pipelines, tasks, history>>
  BY DEF StepNotFound, Becomes
<1>4. Busy(r)
  BY <1>1 DEF Busy
<1> HIDE DEF s
<1> QED BY <1>2, <1>3, <1>4, StepsKeep

LEMMA ExecuteStepKeeps ==
  ASSUME WorkflowIndInv, NEW r \in Runner, ExecuteStep(r)
  PROVE  WorkflowIndInv'
<1> DEFINE s == [run[r] EXCEPT !.pc = "awaiting"]
<1>1. /\ run[r] \in RunType /\ RunSound(run[r]) /\ run[r].pc = "running"
      /\ run[r].todo # << >> /\ run \in [Runner -> RunType]
  BY DEF WorkflowIndInv, WorkflowTypeOK, ExecuteStep, AtStep
<1>2. s \in RunType /\ s.pipeline = run[r].pipeline
  BY <1>1 DEF RunType
<1>3. /\ s.pc = "awaiting" /\ s.todo = run[r].todo /\ s.outcomes = run[r].outcomes
      /\ s.steps = run[r].steps /\ s.status = run[r].status
  BY <1>1 DEF RunType
<1>4. run' = [run EXCEPT ![r] = s] /\ UNCHANGED <<pipelines, tasks, history>>
  BY <1>1 DEF ExecuteStep
<1> HIDE DEF s
<1>5. RunSound(s)
  BY <1>1, <1>3 DEF RunSound, StatusRight, RestLeft, BrokeOff, Bad
<1>6. Busy(r)
  BY <1>1 DEF Busy
<1> QED BY <1>2, <1>4, <1>5, <1>6, StepsKeep

LEMMA StepReturnsKeeps ==
  ASSUME WorkflowIndInv, NEW r \in Runner, NEW outcome \in Outcome, StepReturns(r, outcome)
  PROVE  WorkflowIndInv'
<1> DEFINE stops == Stops(Here(r), outcome)
           tail == IF stops /\ Here(r).break_on_error THEN << >> ELSE Tail(run[r].todo)
           status == IF stops \/ outcome = "failed" THEN "partial" ELSE run[r].status
           s == Noted(r, outcome, tail, status)
<1>1. /\ run[r] \in RunType /\ RunSound(run[r]) /\ run[r].pc \in {"running", "awaiting"}
      /\ run[r].todo # << >>
  BY DEF WorkflowIndInv, WorkflowTypeOK, StepReturns, RunSound
<1>2. status \in {"completed", "partial"}
  BY <1>1 DEF RunType
<1>3. /\ status = IF outcome = "failed" \/ stops THEN "partial" ELSE run[r].status
      /\ tail = Tail(run[r].todo) \/ ((outcome = "failed" \/ stops) /\ tail = << >>)
  OBVIOUS
<1>4. run' = [run EXCEPT ![r] = s] /\ UNCHANGED <<pipelines, tasks, history>>
  BY DEF StepReturns, Becomes
<1>5. Busy(r)
  BY <1>1 DEF Busy
<1> HIDE DEF tail, status
<1>6. s \in RunType /\ s.pipeline = run[r].pipeline /\ RunSound(s)
  BY <1>1, <1>2, <1>3, NotedSound
<1> HIDE DEF s
<1> QED BY <1>4, <1>5, <1>6, StepsKeep

(* The history after a run is remembered: the run's record is its last,    *)
(* and all others were there before.                                       *)
LEMMA Remembered ==
  ASSUME history \in Seq(RecordType), NEW rec \in RecordType,
         history' = LET all == Append(history, rec)
                    IN IF Len(all) > HistoryCap THEN Tail(all) ELSE all
  PROVE  /\ history' \in Seq(RecordType)
         /\ history' # << >> /\ history'[Len(history')] = rec
         /\ \A i \in DOMAIN history' :
              history'[i] = rec \/ \E k \in DOMAIN history : history'[i] = history[k]
<1> DEFINE all == Append(history, rec)
           n == Len(history)
<1>1. /\ n \in Nat /\ all \in Seq(RecordType) /\ Len(all) = n + 1 /\ all[n + 1] = rec
      /\ DOMAIN all = 1..(n + 1) /\ DOMAIN history = 1..n /\ \A i \in 1..n : all[i] = history[i]
      /\ all # << >>
  OBVIOUS
<1>2. \A i \in 1..(n + 1) : all[i] = rec \/ \E k \in DOMAIN history : all[i] = history[k]
  <2>1. ASSUME NEW i \in 1..(n + 1) PROVE i \in 1..n \/ i = n + 1
    BY <1>1
  <2> HIDE DEF all, n
  <2> QED BY <1>1, <2>1
<1> HIDE DEF all
<1>3. CASE Len(all) > HistoryCap
  <2>1. history' = Tail(all)
    BY <1>3 DEF all
  <2>2. n >= 1
    BY <1>1, <1>3, WorkflowBounds
  <2>3. /\ Tail(all) \in Seq(RecordType) /\ Len(Tail(all)) = n /\ DOMAIN Tail(all) = 1..n
        /\ \A i \in 1..n : Tail(all)[i] = all[i + 1]
    BY <1>1, <2>2
  <2> HIDE DEF n
  <2>4. history' # << >> /\ history'[Len(history')] = rec
    <3>1. n \in 1..n
      BY <1>1, <2>2
    <3>2. history'[n] = rec
      BY <1>1, <2>1, <2>3, <3>1
    <3>3. Len(history') = n
      BY <2>1, <2>3
    <3>4. history' # << >>
      BY <2>2, <3>3
    <3> QED BY <3>2, <3>3, <3>4
  <2>5. \A i \in 1..n : i + 1 \in 1..(n + 1)
    BY <1>1
  <2>6. DOMAIN history' = 1..n /\ \A i \in 1..n : history'[i] = all[i + 1]
    BY <2>1, <2>3
  <2> QED BY <1>2, <2>1, <2>3, <2>4, <2>5, <2>6
<1>4. CASE ~(Len(all) > HistoryCap)
  <2>1. history' = all
    BY <1>4 DEF all
  <2> QED BY <1>1, <1>2, <2>1
<1> QED BY <1>3, <1>4

LEMMA FinishRemembers ==
  ASSUME WorkflowIndInv, NEW r \in Runner, Finish(r)
  PROVE  /\ history' \in Seq(RecordType) /\ CompletedIsComplete'
         /\ history' # << >> /\ history'[Len(history')] = RunRecord(r)
<1> DEFINE rec == RunRecord(r)
<1>1. /\ run[r] \in RunType /\ RunSound(run[r]) /\ run[r].pc = "running" /\ run[r].todo = << >>
      /\ history \in Seq(RecordType) /\ CompletedIsComplete
  BY DEF WorkflowIndInv, WorkflowInv, WorkflowTypeOK, Finish
<1>2. rec \in RecordType
  BY <1>1 DEF RunRecord, RecordType, RunType
<1>3. /\ rec.status = run[r].status /\ rec.steps = run[r].steps /\ rec.outcomes = run[r].outcomes
  BY DEF RunRecord
<1> HIDE DEF rec
<1>4. RecordRight(rec)
  <2>1. StatusRight(rec)
    BY <1>1, <1>3 DEF RunSound, StatusRight, Bad
  <2>2. ASSUME rec.status = "completed" PROVE Len(rec.outcomes) = Len(rec.steps)
    <3>1. RestLeft(run[r])
      BY <1>1, <1>3, <2>2 DEF RunSound, BrokeOff
    <3>2. Len(run[r].outcomes) + Len(run[r].todo) = Len(run[r].steps)
      BY <3>1 DEF RestLeft
    <3>3. Len(run[r].todo) = 0 /\ Len(run[r].outcomes) \in Nat
      BY <1>1 DEF RunType
    <3> QED BY <1>3, <3>2, <3>3
  <2> QED BY <2>1, <2>2 DEF RecordRight
<1>5. history' = LET all == Append(history, rec)
                 IN IF Len(all) > HistoryCap THEN Tail(all) ELSE all
  BY DEF Finish, rec
<1>6. /\ history' \in Seq(RecordType)
      /\ history' # << >> /\ history'[Len(history')] = rec
      /\ \A i \in DOMAIN history' :
           history'[i] = rec \/ \E k \in DOMAIN history : history'[i] = history[k]
  BY <1>1, <1>2, <1>5, Remembered
<1>7. \A i \in DOMAIN history' : RecordRight(history'[i])
  BY <1>1, <1>4, <1>6, RecordsRight
<1>8. CompletedIsComplete'
  BY <1>7 DEF CompletedIsComplete, RecordRight, StatusRight, Bad
<1> QED BY <1>6, <1>8 DEF rec

LEMMA FinishKeeps ==
  ASSUME WorkflowIndInv, NEW r \in Runner, Finish(r)
  PROVE  WorkflowIndInv'
<1> DEFINE s == Ended(r, run[r])
<1>1. run[r] \in RunType /\ run[r].pc = "running" /\ WorkflowTypeOK
  BY DEF WorkflowIndInv, WorkflowTypeOK, Finish
<1>2. s \in RunType /\ s.pipeline = run[r].pipeline /\ s.pc \notin {"running", "awaiting"}
  BY <1>1 DEF Ended, RunType
<1>3. run' = [run EXCEPT ![r] = s] /\ UNCHANGED <<pipelines, tasks>>
  BY DEF Finish, Becomes
<1> HIDE DEF s
<1>4. RunSound(s)
  BY <1>2 DEF RunSound
<1>5. Alive(r)
  BY <1>1 DEF Alive
<1>6. /\ pipelines' \in [Pipeline -> DefinitionType \cup {NoDefinition}]
      /\ \A q \in Pipeline : pipelines[q] # NoDefinition => pipelines'[q] # NoDefinition
  BY <1>1, <1>3 DEF WorkflowTypeOK
<1> QED BY <1>2, <1>3, <1>4, <1>5, <1>6, FinishRemembers, RunChanges

(* After a cancellation no task of the pipeline lives, and the others are  *)
(* as they were.                                                           *)
LEMMA CancelledLeaves ==
  ASSUME WorkflowIndInv, NEW p \in Pipeline
  PROVE  /\ Cancelled(p) \in [Runner -> RunType]
         /\ \A q \in Runner : RunSound(Cancelled(p)[q])
         /\ \A l \in Loop : Cancelled(p)[l].pc \in {"created", "running", "awaiting", "sleeping"} =>
              Alive(l) /\ Cancelled(p)[l] = run[l] /\ run[l].pipeline \in Pipeline \ {p}
<1>1. WorkflowTypeOK /\ OneLoopEach /\ LoopsHaveOne /\ \A q \in Runner : RunSound(run[q])
  BY DEF WorkflowIndInv, WorkflowInv
<1>2. CASE tasks[p] = None
  <2>1. Cancelled(p) = run
    BY <1>2 DEF Cancelled
  <2>2. ASSUME NEW l \in Loop, Alive(l) PROVE run[l].pipeline \in Pipeline \ {p}
    BY <1>1, <1>2, <2>2, WorkflowRunners DEF OneLoopEach, LoopsHaveOne
  <2> QED BY <1>1, <2>1, <2>2 DEF WorkflowTypeOK, Alive
<1>3. CASE tasks[p] # None
  <2>1. tasks[p] \in Loop /\ tasks[p] \in Runner
    BY <1>1, <1>3 DEF WorkflowTypeOK, Runner
  <2>2. Cancelled(p) = [run EXCEPT ![tasks[p]] = Resting]
    BY <1>3 DEF Cancelled
  <2>3. /\ Cancelled(p) \in [Runner -> RunType]
        /\ Cancelled(p)[tasks[p]] = Resting
        /\ \A q \in Runner \ {tasks[p]} : Cancelled(p)[q] = run[q]
    BY <1>1, <2>1, <2>2, RestingSound DEF WorkflowTypeOK
  <2>4. ASSUME NEW q \in Runner PROVE RunSound(Cancelled(p)[q])
    BY <1>1, <2>3, RestingSound
  <2>5. ASSUME NEW l \in Loop,
               Cancelled(p)[l].pc \in {"created", "running", "awaiting", "sleeping"}
        PROVE  Alive(l) /\ Cancelled(p)[l] = run[l] /\ run[l].pipeline \in Pipeline \ {p}
    <3>1. l # tasks[p] /\ l \in Runner
      BY <2>3, <2>5, RestingSound DEF Runner
    <3>2. Cancelled(p)[l] = run[l]
      BY <2>3, <3>1
    <3>3. Alive(l)
      BY <2>5, <3>2 DEF Alive
    <3> QED BY <1>1, <3>1, <3>2, <3>3 DEF OneLoopEach, LoopsHaveOne
  <2> QED BY <2>3, <2>4, <2>5
<1> QED BY <1>2, <1>3

LEMMA UnscheduleKeeps ==
  ASSUME WorkflowIndInv, NEW p \in Pipeline, Unschedule(p)
  PROVE  WorkflowIndInv'
<1> DEFINE after == Cancelled(p)
<1>1. WorkflowTypeOK /\ OneLoopEach /\ CompletedIsComplete
  BY DEF WorkflowIndInv, WorkflowInv
<1>2. /\ after \in [Runner -> RunType] /\ \A q \in Runner : RunSound(after[q])
      /\ \A l \in Loop : after[l].pc \in {"created", "running", "awaiting", "sleeping"} =>
           Alive(l) /\ after[l] = run[l] /\ run[l].pipeline \in Pipeline \ {p}
  BY CancelledLeaves
<1>3. /\ run' = after /\ history' = history
      /\ tasks' = [tasks EXCEPT ![p] = None]
      /\ pipelines' = [pipelines EXCEPT ![p] = NoDefinition]
  BY DEF Unschedule
<1> HIDE DEF after
<1>4. WorkflowTypeOK'
  BY <1>1, <1>2, <1>3 DEF WorkflowTypeOK
<1>5. ASSUME NEW l \in Loop, Alive(l)'
      PROVE  /\ Alive(l) /\ run'[l].pipeline = run[l].pipeline
             /\ run[l].pipeline \in Pipeline \ {p}
  BY <1>2, <1>3, <1>5 DEF Alive
<1>6. OneLoopEach'
  <2> SUFFICES ASSUME NEW l \in Loop, Alive(l)'
               PROVE  /\ tasks'[run'[l].pipeline] = l
                      /\ pipelines'[run'[l].pipeline] # NoDefinition
    BY DEF OneLoopEach
  <2>1. Alive(l) /\ run'[l].pipeline = run[l].pipeline /\ run[l].pipeline \in Pipeline \ {p}
    BY <1>5
  <2>2. tasks[run[l].pipeline] = l /\ pipelines[run[l].pipeline] # NoDefinition
    BY <1>1, <2>1 DEF OneLoopEach
  <2> QED BY <1>1, <1>3, <2>1, <2>2 DEF WorkflowTypeOK
<1>7. LoopsHaveOne'
  BY <1>5 DEF LoopsHaveOne
<1>8. CompletedIsComplete'
  BY <1>1, <1>3, SameRecords
<1>9. ASSUME NEW q \in Runner PROVE RunSound(run'[q])
  BY <1>2, <1>3
<1> QED BY <1>4, <1>6, <1>7, <1>8, <1>9 DEF WorkflowIndInv, WorkflowInv

LEMMA ScheduleKeeps ==
  ASSUME WorkflowIndInv, NEW p \in Pipeline, NEW d \in Definition, NEW new \in Loop,
         Schedule(p, d, new)
  PROVE  WorkflowIndInv'
<1> DEFINE left == Cancelled(p)
           s == [Resting EXCEPT !.pc = "created", !.pipeline = p, !.trigger = d.trigger]
<1>1. WorkflowTypeOK /\ OneLoopEach /\ CompletedIsComplete
  BY DEF WorkflowIndInv, WorkflowInv
<1>2. /\ left \in [Runner -> RunType] /\ \A q \in Runner : RunSound(left[q])
      /\ \A l \in Loop : left[l].pc \in {"created", "running", "awaiting", "sleeping"} =>
           Alive(l) /\ left[l] = run[l] /\ run[l].pipeline \in Pipeline \ {p}
  BY CancelledLeaves
<1>3. /\ run' = [left EXCEPT ![new] = s] /\ history' = history
      /\ tasks' = [tasks EXCEPT ![p] = new]
      /\ pipelines' = [pipelines EXCEPT ![p] = d]
  BY DEF Schedule
<1>4. d \in DefinitionType /\ d # NoDefinition /\ d.trigger \in {"no", "seconds", "unusable"}
  BY SentIsDefinition DEF DefinitionType
<1>5. s \in RunType /\ s.pc = "created" /\ s.pipeline = p
  <2>1. << >> \in Seq(StepType) /\ << >> \in Seq(Outcome)
    OBVIOUS
  <2> QED BY <1>4, <2>1 DEF Resting, RunType
<1> HIDE DEF left, s
<1>6. RunSound(s)
  BY <1>5 DEF RunSound
<1>7. /\ run' \in [Runner -> RunType] /\ run'[new] = s
      /\ \A q \in Runner \ {new} : run'[q] = left[q]
  BY <1>2, <1>3, <1>5 DEF Runner
<1>8. WorkflowTypeOK'
  BY <1>1, <1>3, <1>4, <1>7 DEF WorkflowTypeOK
<1>9. /\ tasks'[p] = new /\ pipelines'[p] = d
      /\ \A q \in Pipeline \ {p} : tasks'[q] = tasks[q] /\ pipelines'[q] = pipelines[q]
  BY <1>1, <1>3 DEF WorkflowTypeOK
<1>10. ASSUME NEW l \in Loop, Alive(l)'
       PROVE  /\ run'[l].pipeline \in Pipeline
              /\ tasks'[run'[l].pipeline] = l
              /\ pipelines'[run'[l].pipeline] # NoDefinition
  <2>1. CASE l = new
    BY <1>4, <1>5, <1>7, <1>9, <2>1
  <2>2. CASE l # new
    <3>1. run'[l] = left[l]
      BY <1>7, <2>2 DEF Runner
    <3>2. Alive(l) /\ left[l] = run[l] /\ run[l].pipeline \in Pipeline \ {p}
      BY <1>2, <1>10, <3>1 DEF Alive
    <3>3. tasks[run[l].pipeline] = l /\ pipelines[run[l].pipeline] # NoDefinition
      BY <1>1, <3>2 DEF OneLoopEach
    <3> QED BY <1>9, <3>1, <3>2, <3>3
  <2> QED BY <2>1, <2>2
<1>11. CompletedIsComplete'
  BY <1>1, <1>3, SameRecords
<1>12. ASSUME NEW q \in Runner PROVE RunSound(run'[q])
  BY <1>2, <1>6, <1>7
<1>13. OneLoopEach' /\ LoopsHaveOne'
  BY <1>10 DEF OneLoopEach, LoopsHaveOne
<1> QED BY <1>8, <1>11, <1>12, <1>13 DEF WorkflowIndInv, WorkflowInv

LEMMA WorkflowStepInv == WorkflowIndInv /\ [WorkflowNext]_workflowVars => WorkflowIndInv'
<1> SUFFICES ASSUME WorkflowIndInv, [WorkflowNext]_workflowVars PROVE WorkflowIndInv'
  OBVIOUS
<1>1. ASSUME NEW p \in Pipeline, NEW d \in Definition, NEW c \in Caller, Run(c, p, d)
      PROVE WorkflowIndInv'
  BY <1>1, RunKeeps
<1>2. ASSUME NEW p \in Pipeline, NEW d \in Definition, NEW l \in Loop, Schedule(p, d, l)
      PROVE WorkflowIndInv'
  BY <1>2, ScheduleKeeps
<1>3. ASSUME NEW p \in Pipeline, Unschedule(p) PROVE WorkflowIndInv'
  BY <1>3, UnscheduleKeeps
<1>4. ASSUME NEW l \in Loop, Turn(l) PROVE WorkflowIndInv'
  BY <1>4, TurnKeeps
<1>5. ASSUME NEW r \in Runner, Progress(r) PROVE WorkflowIndInv'
  BY <1>5, StepNotFoundKeeps, ExecuteStepKeeps, StepReturnsKeeps, FinishKeeps DEF Progress, Outcome
<1>6. CASE UNCHANGED workflowVars
  BY <1>6 DEF workflowVars, WorkflowIndInv, WorkflowTypeOK, WorkflowInv, OneLoopEach,
              CompletedIsComplete, LoopsHaveOne, Alive
<1> QED BY <1>1, <1>2, <1>3, <1>4, <1>5, <1>6 DEF WorkflowNext, Ask

(* However pipelines are run, scheduled, rescheduled and unscheduled in    *)
(* the middle of one another, one task at most runs each, the one          *)
(* _scheduled_tasks names, and always with a definition; and a record that *)
(* says "completed" is of a run whose every step was tried.                *)
THEOREM WorkflowCorrect == WorkflowSpec => []WorkflowInv
<1>1. WorkflowIndInv => WorkflowInv
  BY DEF WorkflowIndInv
<1> QED BY <1>1, WorkflowInitInv, WorkflowStepInv, PTL DEF WorkflowSpec

(* A run that had begun ends with its own record the last of the history,  *)
(* unless its schedule was changed under it.                               *)
THEOREM WorkflowRecordsRuns == WorkflowSpec => RunsAreRecorded
<1> DEFINE Recorded(r) ==
      Busy(r) /\ ~Busy(r)' =>
       \/ history' # << >> /\ history'[Len(history')] = RunRecord(r)
       \/ r \in Loop /\ tasks[run[r].pipeline] = r /\ run'[r] = Resting
            /\ history' = history
<1>1. ASSUME WorkflowIndInv, WorkflowNext, NEW r \in Runner, Busy(r), ~Busy(r)'
      PROVE  Recorded(r)
  <2>1. WorkflowTypeOK /\ OneLoopEach
    BY <1>1 DEF WorkflowIndInv, WorkflowInv
  <2>2. run \in [Runner -> RunType]
    BY <2>1 DEF WorkflowTypeOK
  <2>3. ASSUME NEW q \in Runner, NEW s, run' = [run EXCEPT ![q] = s], q # r PROVE FALSE
    BY <1>1, <2>2, <2>3 DEF Busy
  <2>4. ASSUME NEW p \in Pipeline, NEW d \in Definition, NEW c \in Caller, Run(c, p, d)
        PROVE FALSE
    <3>1. c \in Runner /\ c # r
      BY <1>1, <2>4 DEF Run, Runner
    <3>2. \E s : run' = [run EXCEPT ![c] = s]
      BY <2>4 DEF Run, RunPipeline, Becomes
    <3> QED BY <2>3, <3>1, <3>2
  <2>5. ASSUME NEW l \in Loop, Turn(l) PROVE FALSE
    <3>1. l \in Runner /\ l # r
      BY <1>1, <2>5 DEF Turn, Runner, Busy
    <3>2. \E s : run' = [run EXCEPT ![l] = s]
      BY <2>5 DEF Turn, RunPipeline, Becomes
    <3> QED BY <2>3, <3>1, <3>2
  <2>6. ASSUME NEW q \in Runner, Finish(q) PROVE Recorded(r)
    <3>1. \E s : run' = [run EXCEPT ![q] = s]
      BY <2>6 DEF Finish, Becomes
    <3>2. q = r
      BY <2>3, <3>1
    <3> QED BY <1>1, <2>6, <3>2, FinishRemembers
  <2>7. ASSUME NEW q \in Runner, NEW s, run' = [run EXCEPT ![q] = s],
               s.pc \in {"running", "awaiting"}
        PROVE  FALSE
    <3>1. q = r
      BY <2>3, <2>7
    <3>2. run'[r] = s
      BY <2>2, <2>7, <3>1
    <3> QED BY <1>1, <2>7, <3>2 DEF Busy
  <2>8. ASSUME NEW q \in Runner, NEW outcome, NEW tail, NEW status
        PROVE  Noted(q, outcome, tail, status).pc = "running"
    BY <2>2 DEF Noted, RunType
  <2>9. ASSUME NEW q \in Runner, Progress(q) PROVE Recorded(r)
    <3>1. CASE StepNotFound(q)
      <4>1. run' = [run EXCEPT ![q] = Noted(q, "failed", Tail(run[q].todo), "partial")]
        BY <3>1 DEF StepNotFound, Becomes
      <4> QED BY <2>7, <2>8, <4>1
    <3>2. CASE ExecuteStep(q)
      <4>1. run' = [run EXCEPT ![q] = [run[q] EXCEPT !.pc = "awaiting"]]
        BY <2>2, <3>2 DEF ExecuteStep
      <4>2. [run[q] EXCEPT !.pc = "awaiting"].pc = "awaiting"
        BY <2>2 DEF RunType
      <4> QED BY <2>7, <4>1, <4>2
    <3>3. ASSUME NEW outcome, StepReturns(q, outcome) PROVE Recorded(r)
      <4>1. \E tail, status : run' = [run EXCEPT ![q] = Noted(q, outcome, tail, status)]
        BY <3>3 DEF StepReturns, Becomes
      <4> QED BY <2>7, <2>8, <4>1
    <3> QED BY <2>6, <2>9, <3>1, <3>2, <3>3 DEF Progress
  <2>10. ASSUME NEW q \in Runner, q = r, q \in Loop
         PROVE  tasks[run[r].pipeline] = r
    BY <1>1, <2>1, <2>10 DEF OneLoopEach, Alive, Busy
  <2>11. ASSUME NEW p \in Pipeline, Cancelled(p)[r] # run[r]
         PROVE  r \in Loop /\ Cancelled(p)[r] = Resting
    BY <2>1, <2>2, <2>11 DEF Cancelled, WorkflowTypeOK
  <2>12. ASSUME NEW p \in Pipeline, Unschedule(p) PROVE Recorded(r)
    <3>1. run' = Cancelled(p) /\ history' = history
      BY <2>12 DEF Unschedule
    <3>2. Cancelled(p)[r] # run[r]
      BY <1>1, <3>1 DEF Busy
    <3> QED BY <2>10, <2>11, <3>1, <3>2
  <2>13. ASSUME NEW p \in Pipeline, NEW d \in Definition, NEW l \in Loop, Schedule(p, d, l)
         PROVE  Recorded(r)
    <3>1. \E s : run' = [Cancelled(p) EXCEPT ![l] = s] /\ history' = history
      BY <2>13 DEF Schedule
    <3>2. l # r
      BY <1>1, <2>13 DEF Schedule, Busy
    <3>3. run'[r] = Cancelled(p)[r]
      BY <1>1, <3>1, <3>2, CancelledLeaves
    <3>4. Cancelled(p)[r] # run[r]
      BY <1>1, <3>3 DEF Busy
    <3> QED BY <2>10, <2>11, <3>1, <3>3, <3>4
  <2> QED BY <1>1, <2>4, <2>5, <2>9, <2>12, <2>13 DEF WorkflowNext, Ask
<1>2. ASSUME UNCHANGED workflowVars, NEW r \in Runner PROVE Recorded(r)
  BY <1>2 DEF workflowVars, Busy
<1>3. WorkflowIndInv /\ [WorkflowNext]_workflowVars => [\A r \in Runner : Recorded(r)]_workflowVars
  BY <1>1, <1>2
<1> QED BY <1>3, WorkflowInitInv, WorkflowStepInv, PTL DEF WorkflowSpec, RunsAreRecorded

----------------------------------------------------------------------------
(* BlockLoader: two first uses of a block, for every number of threads.    *)

(* A module that is being executed is somebody's who executes it; there is *)
(* an entry for notification once anybody is past the publication; the     *)
(* import lock is held by who loads, and nobody completes under it; and an *)
(* entry for knowledge that is missed is somebody's to import.             *)
Misses(t) == pc[t] \in {"drop", "load"} \/ (pc[t] \in {"get", "ok"} /\ block[t] = "knowledge")
NotificationKept ==
  /\ \A t \in Thread : notification = t => pc[t] = "exec"
  /\ notification = "absent" => \A t \in Thread : pc[t] \in {"idle", "check", "publish"}
LockKept ==
  /\ \A t \in Thread : pc[t] = "load" <=> import_lock = t
  /\ \A t \in Thread : knowledge = t => import_lock = t
  /\ import_lock # "free" => knowledge # "complete"
KnowledgeKept ==
  knowledge = "absent" =>
    (\E u \in Thread : pc[u] = "import") \/ \A t \in Thread : ~Misses(t)
LoaderIndInv == LoaderTypeOK /\ NotificationKept /\ LockKept /\ KnowledgeKept

LEMMA LoaderInitInv == LoaderInit => LoaderIndInv
BY LoaderThreads DEF LoaderInit, LoaderIndInv, LoaderTypeOK, ModuleEntry, Place, NotificationKept,
   LockKept, KnowledgeKept, Misses

LEMMA Settled == LoaderIndInv => LoaderInv
<1> SUFFICES ASSUME LoaderIndInv, \A t \in Thread : ~Active(t)
             PROVE  /\ (\E t \in Thread : pc[t] # "idle") => notification = "complete"
                    /\ (\E t \in Thread : pc[t] = "ok" /\ block[t] = "knowledge") =>
                         knowledge = "complete"
  BY DEF LoaderInv, EntriesSettle, LoaderIndInv
<1>1. \A t \in Thread : pc[t] \in {"idle", "ok", "failed"}
  BY DEF Active
<1>2. notification \notin Thread /\ knowledge \notin Thread
  BY <1>1 DEF LoaderIndInv, NotificationKept, LockKept
<1>3. notification \in {"absent", "complete"} /\ knowledge \in {"absent", "complete"}
  BY <1>2 DEF LoaderIndInv, LoaderTypeOK, ModuleEntry
<1>4. ASSUME NEW t \in Thread, pc[t] # "idle" PROVE notification = "complete"
  BY <1>1, <1>3, <1>4 DEF LoaderIndInv, NotificationKept
<1>5. ASSUME NEW t \in Thread, pc[t] = "ok", block[t] = "knowledge" PROVE knowledge = "complete"
  BY <1>1, <1>3, <1>5 DEF LoaderIndInv, KnowledgeKept, Misses
<1> QED BY <1>4, <1>5

(* Where a call is after a repair, and that nobody else moves.             *)
LEMMA Repaired ==
  ASSUME LoaderTypeOK, NEW t \in Thread, AfterRepair(t)
  PROVE  /\ pc' \in [Thread -> Place] /\ repaired' \in [Thread -> {"never", "once", "twice"}]
         /\ pc'[t] \in {"check", "look"} \/ (pc'[t] = "get" /\ block[t] # "knowledge")
         /\ \A u \in Thread \ {t} : pc'[u] = pc[u]
BY DEF AfterRepair, Goto, LoaderTypeOK, Place

LEMMA LoaderStepInv == LoaderIndInv /\ [LoaderNext]_loaderVars => LoaderIndInv'
<1> SUFFICES ASSUME LoaderIndInv, [LoaderNext]_loaderVars PROVE LoaderIndInv'
  OBVIOUS
<1>0. LoaderTypeOK /\ NotificationKept /\ LockKept /\ KnowledgeKept
  BY DEF LoaderIndInv
<1> USE LoaderThreads DEF LoaderIndInv
<1>1. ASSUME NEW t \in Thread, NEW b \in Wanted, Call(t, b) PROVE LoaderIndInv'
  <2>1. LoaderTypeOK'
    BY <1>0, <1>1, LoaderBlocks DEF Call, Goto, LoaderTypeOK, Place
  <2>2. NotificationKept'
    BY <1>0, <1>1 DEF Call, Goto, LoaderTypeOK, NotificationKept
  <2>3. LockKept'
    BY <1>0, <1>1 DEF Call, Goto, LoaderTypeOK, LockKept
  <2>4. KnowledgeKept'
    BY <1>0, <1>1 DEF Call, Goto, LoaderTypeOK, KnowledgeKept, Misses
  <2> QED BY <2>1, <2>2, <2>3, <2>4
<1>2. ASSUME NEW t \in Thread, CheckUsable(t) PROVE LoaderIndInv'
  <2>0. /\ pc' \in [Thread -> Place] /\ repaired' \in [Thread -> {"never", "once", "twice"}]
        /\ pc'[t] \in {"check", "look"} \/ (pc'[t] = "get" /\ block[t] # "knowledge")
        /\ \A u \in Thread \ {t} : pc'[u] = pc[u]
        /\ pc[t] = "check" /\ notification = "complete"
        /\ UNCHANGED <<notification, knowledge, import_lock, block>>
    BY <1>0, <1>2, Repaired DEF CheckUsable, At
  <2>1. LoaderTypeOK'
    BY <1>0, <2>0 DEF LoaderTypeOK
  <2>2. NotificationKept'
    BY <1>0, <2>0 DEF NotificationKept
  <2>3. LockKept'
    BY <1>0, <2>0 DEF LockKept
  <2>4. KnowledgeKept'
    BY <1>0, <2>0 DEF KnowledgeKept, Misses
  <2> QED BY <2>1, <2>2, <2>3, <2>4
<1>3. ASSUME NEW t \in Thread, Exec(t) PROVE LoaderIndInv'
  <2>0. /\ pc' \in [Thread -> Place] /\ repaired' \in [Thread -> {"never", "once", "twice"}]
        /\ pc'[t] \in {"check", "look"} \/ (pc'[t] = "get" /\ block[t] # "knowledge")
        /\ \A u \in Thread \ {t} : pc'[u] = pc[u]
        /\ pc[t] = "exec" /\ notification' = IF notification = t THEN "complete" ELSE notification
        /\ UNCHANGED <<knowledge, import_lock, block>>
    BY <1>0, <1>3, Repaired DEF Exec, At
  <2>1. LoaderTypeOK'
    BY <1>0, <2>0 DEF LoaderTypeOK, ModuleEntry
  <2>2. NotificationKept'
    BY <1>0, <2>0 DEF NotificationKept
  <2>3. LockKept'
    BY <1>0, <2>0 DEF LockKept
  <2>4. KnowledgeKept'
    BY <1>0, <2>0 DEF KnowledgeKept, Misses
  <2> QED BY <2>1, <2>2, <2>3, <2>4
<1>4. ASSUME NEW t \in Thread, CheckUnusable(t) \/ Publish(t) PROVE LoaderIndInv'
  <2>1. LoaderTypeOK'
    BY <1>0, <1>4 DEF CheckUnusable, Publish, Goto, LoaderTypeOK, Place, ModuleEntry
  <2>2. NotificationKept'
    BY <1>0, <1>4 DEF CheckUnusable, Publish, At, Goto, LoaderTypeOK, NotificationKept
  <2>3. LockKept'
    BY <1>0, <1>4 DEF CheckUnusable, Publish, At, Goto, LoaderTypeOK, LockKept
  <2>4. KnowledgeKept'
    BY <1>0, <1>4 DEF CheckUnusable, Publish, At, Goto, LoaderTypeOK, KnowledgeKept, Misses
  <2> QED BY <2>1, <2>2, <2>3, <2>4
<1>5. ASSUME NEW t \in Thread, Look(t) \/ Drop(t) \/ DropFails(t) PROVE LoaderIndInv'
  <2>1. LoaderTypeOK'
    BY <1>0, <1>5 DEF Look, Drop, DropFails, Goto, LoaderTypeOK, Place, ModuleEntry
  <2>2. NotificationKept'
    BY <1>0, <1>5 DEF Look, Drop, DropFails, At, Goto, LoaderTypeOK, NotificationKept
  <2>3. LockKept'
    BY <1>0, <1>5 DEF Look, Drop, DropFails, At, Goto, LoaderTypeOK, LockKept
  <2>4. KnowledgeKept'
    BY <1>0, <1>5 DEF Look, Drop, DropFails, At, Goto, LoaderTypeOK, KnowledgeKept, Misses
  <2> QED BY <2>1, <2>2, <2>3, <2>4
<1>6. ASSUME NEW t \in Thread, ImportFound(t) \/ ImportStarts(t) \/ ImportEnds(t) \/ ImportFails(t)
      PROVE LoaderIndInv'
  <2>1. LoaderTypeOK'
    BY <1>0, <1>6 DEF ImportFound, ImportStarts, ImportEnds, ImportFails, Goto, LoaderTypeOK,
       Place, ModuleEntry
  <2>2. NotificationKept'
    BY <1>0, <1>6 DEF ImportFound, ImportStarts, ImportEnds, ImportFails, At, Goto, LoaderTypeOK,
       NotificationKept
  <2>3. LockKept'
    BY <1>0, <1>6 DEF ImportFound, ImportStarts, ImportEnds, ImportFails, At, Goto, LoaderTypeOK,
       LockKept
  <2>4. KnowledgeKept'
    BY <1>0, <1>6 DEF ImportFound, ImportStarts, ImportEnds, ImportFails, At, Goto, LoaderTypeOK,
       KnowledgeKept, LockKept, Misses
  <2> QED BY <2>1, <2>2, <2>3, <2>4
<1>7. ASSUME NEW t \in Thread, Get(t) \/ GetFails(t) PROVE LoaderIndInv'
  <2>1. LoaderTypeOK'
    BY <1>0, <1>7 DEF Get, GetFails, Goto, LoaderTypeOK, Place
  <2>2. NotificationKept'
    BY <1>0, <1>7 DEF Get, GetFails, At, Goto, LoaderTypeOK, NotificationKept
  <2>3. LockKept'
    BY <1>0, <1>7 DEF Get, GetFails, At, Goto, LoaderTypeOK, LockKept
  <2>4. KnowledgeKept'
    BY <1>0, <1>7 DEF Get, GetFails, At, Goto, LoaderTypeOK, KnowledgeKept, Misses
  <2> QED BY <2>1, <2>2, <2>3, <2>4
<1>8. CASE UNCHANGED loaderVars
  BY <1>0, <1>8 DEF loaderVars, LoaderTypeOK, NotificationKept, LockKept, KnowledgeKept, Misses
<1> QED BY <1>1, <1>2, <1>3, <1>4, <1>5, <1>6, <1>7, <1>8 DEF LoaderNext, Step

(* Whatever the threads overwrite and delete under each other, once they   *)
(* are done the entries of sys.modules are usable.                         *)
THEOREM LoaderCorrect == LoaderSpec => []LoaderInv
BY LoaderInitInv, LoaderStepInv, Settled, PTL DEF LoaderSpec

(* A call of execute fails only while another one is at work.              *)
THEOREM LoaderServesAlone == LoaderSpec => NoFailureAlone
<1> DEFINE Excused(t) == pc[t] # "failed" /\ pc'[t] = "failed" => \E u \in Thread \ {t} : Active(u)
<1>1. ASSUME LoaderIndInv, LoaderNext, NEW t \in Thread, pc[t] # "failed", pc'[t] = "failed"
      PROVE  \E u \in Thread \ {t} : Active(u)
  <2>1. LoaderTypeOK /\ NotificationKept /\ LockKept /\ KnowledgeKept
    BY <1>1 DEF LoaderIndInv
  <2>2. ASSUME NEW u \in Thread, Step(u) \/ \E b \in Wanted : Call(u, b)
        PROVE  DropFails(t) \/ ImportFails(t) \/ GetFails(t)
    BY <1>1, <2>1, <2>2 DEF Step, Call, CheckUsable, CheckUnusable, Publish, Exec, AfterRepair, Look,
       Drop, DropFails, ImportFound, ImportStarts, ImportEnds, ImportFails, Get, GetFails, Goto, At,
       LoaderTypeOK
  <2>3. CASE DropFails(t) \/ ImportFails(t)
    <3>1. pc[t] \in {"drop", "load"} /\ knowledge = "absent"
      BY <2>1, <2>3, LoaderThreads DEF DropFails, ImportFails, At, LockKept, LoaderTypeOK, ModuleEntry
    <3>2. PICK u \in Thread : pc[u] = "import"
      BY <2>1, <3>1 DEF KnowledgeKept, Misses
    <3> QED BY <3>1, <3>2 DEF Active
  <2>4. CASE GetFails(t)
    <3>1. pc[t] = "get" /\ notification # "complete"
      BY <2>4 DEF GetFails, Usable, At
    <3>2. PICK u \in Thread : notification = u
      BY <2>1, <3>1 DEF NotificationKept, LoaderTypeOK, ModuleEntry
    <3> QED BY <2>1, <3>1, <3>2 DEF NotificationKept, Active
  <2> QED BY <1>1, <2>2, <2>3, <2>4 DEF LoaderNext
<1>2. ASSUME UNCHANGED loaderVars, NEW t \in Thread PROVE Excused(t)
  BY <1>2 DEF loaderVars
<1>3. LoaderIndInv /\ [LoaderNext]_loaderVars => [\A t \in Thread : Excused(t)]_loaderVars
  BY <1>1, <1>2
<1> QED BY <1>3, LoaderInitInv, LoaderStepInv, PTL DEF LoaderSpec, NoFailureAlone

----------------------------------------------------------------------------
(* EventBus: requests are answered once, for every set of topics, handlers *)
(* and correlation ids.                                                    *)

RequestRecord == [pc : {"new", "waiting", "answered", "expiring", "cancelling", "ok",
                      "timeout", "gone"},
                answer : Handler \cup {Nobody}]

(* The types the argument needs, and BusInv; an id that nobody asked under *)
(* yet has no answer and nobody who could give one.                        *)
BusTypeInv ==
  /\ seen \subseteq Handler \X Cid /\ started \subseteq Handler \X Cid
  /\ pending \subseteq Cid
  /\ request \in [Cid -> RequestRecord]
  /\ told \in [Cid -> Seq(Handler)]
NewUntold == \A c \in Cid : request[c].pc = "new" => told[c] = << >>
BusIndInv == BusTypeInv /\ NewUntold /\ BusInv

USE DEF Nobody, Handler, RequestRecord

LEMMA BusInitInv == BusInit => BusIndInv
  BY DEF BusInit, BusIndInv, BusTypeInv, NewUntold, BusInv

(* What an event reaches are handlers.                                     *)
LEMMA NotifyTypes ==
  ASSUME NEW t, NEW c \in Cid, BusIndInv, Notify(t, c)
  PROVE  /\ seen' \subseteq Handler \X Cid /\ started' \subseteq Handler \X Cid
         /\ seen \subseteq seen'
  BY DEF Notify, BusIndInv, BusTypeInv

LEMMA RequestKeeps ==
  ASSUME BusIndInv, NEW c \in Cid, NEW t \in Target, Request(c, t)
  PROVE  BusIndInv'
<1>1. seen' \subseteq Handler \X Cid /\ started' \subseteq Handler \X Cid /\ seen \subseteq seen'
  BY NotifyTypes DEF Request
<1>2. /\ request' = [request EXCEPT ![c].pc = "waiting"] /\ request[c].pc = "new"
      /\ pending' = pending \cup {c} /\ told' = told
  BY DEF Request
<1>3. BusTypeInv'
  BY <1>1, <1>2 DEF BusIndInv, BusTypeInv
<1>4. request'[c].pc = "waiting" /\ told[c] = << >>
  BY <1>2 DEF BusIndInv, BusTypeInv, NewUntold
<1>5. \A d \in Cid \ {c} : request'[d] = request[d] /\ (d \in pending' <=> d \in pending)
  BY <1>2 DEF BusIndInv, BusTypeInv
<1>6. NewUntold'
  BY <1>2, <1>4, <1>5 DEF BusIndInv, NewUntold
<1>7. BusInv'
  <2> SUFFICES ASSUME NEW d \in Cid
               PROVE  BusInv!(d)'
    BY DEF BusInv
  <2>1. CASE d = c
    BY <1>2, <1>4, <2>1
  <2>2. CASE d # c
    BY <1>1, <1>2, <1>5, <2>2 DEF BusIndInv, BusInv
  <2> QED BY <2>1, <2>2
<1> QED BY <1>3, <1>6, <1>7 DEF BusIndInv

(* An answer is delivered to a request that waits and was not answered, or *)
(* it only takes out an id that nobody waits for.                          *)
LEMMA RespondKeeps ==
  ASSUME BusIndInv, NEW h \in Handler, NEW c \in Cid, Respond(h, c)
  PROVE  BusIndInv'
<1>1. CASE c \in pending /\ request[c].pc = "waiting"
  <2>1. told[c] = << >>
    BY <1>1 DEF BusIndInv, BusInv
  <2>2. /\ told' = [told EXCEPT ![c] = <<h>>]
        /\ request' = [request EXCEPT ![c] = [pc |-> "answered", answer |-> h]]
        /\ pending' = pending \ {c} /\ seen' = seen /\ started' = started
        /\ <<h, c>> \in seen
    BY <1>1, <2>1 DEF Respond
  <2>3. <<h>> \in Seq(Handler) /\ Len(<<h>>) = 1 /\ <<h>>[1] = h /\ <<h>> # << >>
    OBVIOUS
  <2>4. BusTypeInv'
    BY <2>2, <2>3 DEF BusIndInv, BusTypeInv
  <2>5. NewUntold'
    BY <2>2 DEF BusIndInv, BusTypeInv, NewUntold
  <2>6. BusInv'
    <3> SUFFICES ASSUME NEW d \in Cid
                 PROVE  BusInv!(d)'
      BY DEF BusInv
    <3>1. CASE d = c
      BY <2>2, <2>3, <3>1 DEF BusIndInv, BusTypeInv
    <3>2. CASE d # c
      <4>1. /\ request'[d] = request[d] /\ told'[d] = told[d]
            /\ d \in pending' <=> d \in pending
        BY <2>2, <3>2 DEF BusIndInv, BusTypeInv
      <4> QED BY <2>2, <4>1 DEF BusIndInv, BusInv
    <3> QED BY <3>1, <3>2
  <2> QED BY <2>4, <2>5, <2>6 DEF BusIndInv
<1>2. CASE ~(c \in pending /\ request[c].pc = "waiting")
  <2>1. pending' = pending \ {c} /\ UNCHANGED <<request, told, seen, started>>
    BY <1>2 DEF Respond
  <2>2. \A d \in Cid : request[d].pc = "waiting" => d \in pending'
    BY <1>2, <2>1 DEF BusIndInv, BusInv
  <2>3. BusInv'
    BY <2>1, <2>2 DEF BusIndInv, BusInv
  <2> QED BY <2>1, <2>3 DEF BusIndInv, BusTypeInv, NewUntold
<1> QED BY <1>1, <1>2

(* The requester only moves its own request on, and only after a timeout   *)
(* takes its own id out.                                                   *)
LEMMA RequesterKeeps ==
  ASSUME BusIndInv, NEW c \in Cid, TimerFires(c) \/ Cancel(c) \/ Resumes(c)
  PROVE  BusIndInv'
<1>1. PICK to \in {"expiring", "cancelling", "ok", "timeout", "gone"} :
        /\ request' = [request EXCEPT ![c].pc = to]
        /\ to = "ok" => request[c].pc = "answered"
        /\ to \in {"expiring", "cancelling", "ok"} => request[c].pc # "new"
        /\ UNCHANGED <<told, seen, started>>
        /\ \/ pending' = pending /\ to \in {"expiring", "cancelling"}
           \/ pending' = pending \ {c} /\ to = "timeout"
           \/ pending' = pending /\ (to = "ok" \/ to = "gone")
  BY DEF TimerFires, Cancel, Resumes, Resolve
<1>2. request'[c].pc = to /\ request'[c].answer = request[c].answer
  BY <1>1 DEF BusIndInv, BusTypeInv
<1>3. \A d \in Cid \ {c} : request'[d] = request[d] /\ (d \in pending' <=> d \in pending)
  BY <1>1 DEF BusIndInv, BusTypeInv
<1>4. BusTypeInv'
  BY <1>1 DEF BusIndInv, BusTypeInv
<1>5. NewUntold'
  BY <1>1, <1>2, <1>3 DEF BusIndInv, NewUntold
<1>6. BusInv'
  <2> SUFFICES ASSUME NEW d \in Cid
               PROVE  BusInv!(d)'
    BY DEF BusInv
  <2>1. CASE d = c
    BY <1>1, <1>2, <2>1 DEF BusIndInv, BusInv
  <2>2. CASE d # c
    BY <1>1, <1>3, <2>2 DEF BusIndInv, BusInv
  <2> QED BY <2>1, <2>2
<1> QED BY <1>4, <1>5, <1>6 DEF BusIndInv

LEMMA SubscribersKeep ==
  ASSUME BusIndInv,
         \/ \E t \in Topic, h \in Handler : Subscribe(t, h)
         \/ \E h \in Handler, c \in Cid : HandlerRuns(h, c)
  PROVE  BusIndInv'
  BY DEF Subscribe, HandlerRuns, BusIndInv, BusTypeInv, NewUntold, BusInv

LEMMA BusNextKeeps == BusIndInv /\ [BusNext]_busVars => BusIndInv'
<1> SUFFICES ASSUME BusIndInv, [BusNext]_busVars PROVE BusIndInv'
  OBVIOUS
<1>1. CASE UNCHANGED busVars
  BY <1>1 DEF busVars, BusIndInv, BusTypeInv, NewUntold, BusInv
<1>2. CASE BusNext
  BY <1>2, RequestKeeps, RespondKeeps, RequesterKeeps, SubscribersKeep DEF BusNext
<1> QED BY <1>1, <1>2

(* However many requesters and responders there are, and in whatever order *)
(* answers, timers and cancellations come: at most one responder is told   *)
(* that it answered, and its answer is the one the requester gets.         *)
THEOREM BusCorrect == BusSpec => []BusInv
<1>1. BusIndInv => BusInv
  BY DEF BusIndInv
<1> QED BY BusInitInv, BusNextKeeps, <1>1, PTL DEF BusSpec
=============================================================================
