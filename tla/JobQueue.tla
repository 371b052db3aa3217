------------------------------ MODULE JobQueue ------------------------------
(***************************************************************************)
(* The in-memory queue block.  Jobs are objects on a heap: the queues hold *)
(* references to them, _jobs finds them by an id made of the millisecond.  *)
(* One worker task passes over the queues; it and the clients share one    *)
(* event loop, so a client acts only while the worker sleeps or awaits a   *)
(* handler.  A handler that raises makes the worker enqueue a new job.     *)
(***************************************************************************)
EXTENDS Integers, Sequences, FiniteSets, SequencesExt

CONSTANTS
  Queue,     \* queue names
  JobType,   \* job types
  Handled,   \* the types with a registered handler
  Priority,  \* priorities clients ask for: 0 = normal, above = high
  Retries    \* values of max_retries clients ask for, per type

ASSUME QueueHandled == Handled \subseteq JobType
ASSUME QueueNumbers == Priority \subseteq Nat /\ Retries \in [JobType -> SUBSET Nat]

VARIABLES
  jobs,     \* the job objects in the order they were created
  queues,   \* _queues: what each queue refers to
  names,    \* the keys of _queues in insertion order
  byId,     \* _jobs
  worker,   \* "asleep", "passing", "handling", or "gone" with its loop
  rest,     \* the queues left of this pass: a snapshot of names
  current,  \* the job whose handler is awaited, 0 for none
  millis       \* int(time.time() * 1000)

queueVars == <<jobs, queues, names, byId, worker, rest, current, millis>>

Status == {"pending", "running", "completed", "failed", "retrying"}
Job == [id : Nat, type : JobType, queue : Queue, priority : Nat,
        status : Status, retry_count : Nat, max_retries : Nat, request : Nat]

QueueTypeOK ==
  /\ jobs \in Seq(Job)
  /\ queues \in [Queue -> Seq(DOMAIN jobs)]
  /\ names \in Seq(Queue)
  /\ rest \in Seq(Queue)
  /\ worker \in {"asleep", "passing", "handling", "gone"}
  /\ current \in DOMAIN jobs \cup {0}
  /\ millis \in Nat
  /\ \A k \in DOMAIN byId : byId[k] \in DOMAIN jobs

(* The loop that _legacy_initialize started the worker in stays alive, or  *)
(* it has ended and the worker with it (asyncio.run of the vendored shim). *)
QueueInit ==
  /\ jobs = << >>
  /\ queues = [q \in Queue |-> << >>]
  /\ names = << >>
  /\ byId = << >>
  /\ worker \in {"asleep", "gone"}
  /\ rest = << >>
  /\ current = 0
  /\ millis = 0

(* A coroutine that does not await leaves the loop to nobody.              *)
LoopFree == worker # "passing"

----------------------------------------------------------------------------
(* _enqueue.  "request" is the first attempt a job is a retry of: no field *)
(* of the program, kept to state what a retry is for.                      *)
NewJob(type, queue, priority, max, request) ==
  [id |-> millis, type |-> type, queue |-> queue, priority |-> priority,
   status |-> "pending", retry_count |-> 0, max_retries |-> max, request |-> request]

Push(s, i, priority) == IF priority > 0 THEN <<i>> \o s ELSE Append(s, i)

Enqueued(old, job) ==
  /\ jobs' = Append(old, job)
  /\ queues' = [queues EXCEPT ![job.queue] = Push(@, Len(old) + 1, job.priority)]
  /\ names' = IF job.queue \in Range(names) THEN names ELSE Append(names, job.queue)
  /\ byId' = [k \in DOMAIN byId \cup {job.id} |->
                IF k = job.id THEN Len(old) + 1 ELSE byId[k]]

Enqueue(type, queue, priority, max) ==
  /\ LoopFree
  /\ Enqueued(jobs, NewJob(type, queue, priority, max, Len(jobs) + 1))
  /\ UNCHANGED <<worker, rest, current, millis>>

SetStatus(i, s) == [jobs EXCEPT ![i].status = s]

(* Faulty: the job is read and not removed.                                *)
Peeked(queue) == queues

Popped(queue) == [queues EXCEPT ![queue] = Tail(@)]

(* A client takes the head: it is "running" from then on, whatever becomes *)
(* of it.                                                                  *)
Dequeue(queue) ==
  /\ LoopFree
  /\ queues[queue] # << >>
  /\ jobs' = SetStatus(Head(queues[queue]), "running")
  /\ queues' = Popped(queue)
  /\ UNCHANGED <<names, byId, worker, rest, current, millis>>

NextMillisecond ==
  /\ LoopFree
  /\ millis' = millis + 1
  /\ UNCHANGED <<jobs, queues, names, byId, worker, rest, current>>

----------------------------------------------------------------------------
(* The worker: a pass over the queues that existed when it began, one job  *)
(* of each, then a sleep of 0.1 s.                                         *)
Wake ==
  /\ worker = "asleep"
  /\ worker' = "passing"
  /\ rest' = names
  /\ UNCHANGED <<jobs, queues, names, byId, current, millis>>

SkipEmpty ==
  /\ worker = "passing"
  /\ rest # << >>
  /\ queues[Head(rest)] = << >>
  /\ rest' = Tail(rest)
  /\ UNCHANGED <<jobs, queues, names, byId, worker, current, millis>>

StartHandler ==
  /\ worker = "passing"
  /\ rest # << >>
  /\ queues[Head(rest)] # << >>
  /\ LET i == Head(queues[Head(rest)]) IN
       /\ queues' = Popped(Head(rest))
       /\ rest' = Tail(rest)
       /\ IF jobs[i].type \in Handled
            THEN /\ jobs' = SetStatus(i, "running")
                 /\ worker' = "handling"
                 /\ current' = i
            ELSE /\ jobs' = SetStatus(i, "failed")  \* no_handler
                 /\ UNCHANGED <<worker, current>>
  /\ UNCHANGED <<names, byId, millis>>

Sleep ==
  /\ worker = "passing"
  /\ rest = << >>
  /\ worker' = "asleep"
  /\ UNCHANGED <<jobs, queues, names, byId, rest, current, millis>>

BackToPass == worker' = "passing" /\ current' = 0 /\ UNCHANGED <<rest, millis>>

HandlerReturns ==
  /\ worker = "handling"
  /\ jobs' = SetStatus(current, "completed")
  /\ BackToPass
  /\ UNCHANGED <<queues, names, byId>>

(* _process_job after an exception: retry_count is counted on the old job, *)
(* and the retry is a new one with the default priority and max_retries.   *)
RaisedJobs(s) == [jobs EXCEPT ![current].retry_count = @ + 1, ![current].status = s]
LastTry == jobs[current].retry_count + 1 >= jobs[current].max_retries
RetryJob == NewJob(jobs[current].type, jobs[current].queue, 0, 3, jobs[current].request)

HandlerFails ==
  /\ worker = "handling"
  /\ LastTry
  /\ jobs' = RaisedJobs("failed")
  /\ BackToPass
  /\ UNCHANGED <<queues, names, byId>>

HandlerRetries ==
  /\ worker = "handling"
  /\ ~LastTry
  /\ Enqueued(RaisedJobs("retrying"), RetryJob)
  /\ BackToPass

WorkerStep == Wake \/ SkipEmpty \/ StartHandler \/ Sleep
HandlerEnds == HandlerReturns \/ HandlerFails \/ HandlerRetries
ClientStep ==
  \/ \E t \in JobType, q \in Queue, p \in Priority :
       \E m \in Retries[t] : Enqueue(t, q, p, m)
  \/ \E q \in Queue : Dequeue(q)
QueueNext == ClientStep \/ NextMillisecond \/ WorkerStep \/ HandlerEnds

QueueSpec == QueueInit /\ [][QueueNext]_queueVars

----------------------------------------------------------------------------
(* A job is pending exactly as long as a queue refers to it, its own queue *)
(* and in one place; no job is taken twice and none is dropped.            *)
PendingQueuedOnce ==
  /\ \A q \in Queue : \A k \in DOMAIN queues[q] :
       /\ jobs[queues[q][k]].status = "pending"
       /\ jobs[queues[q][k]].queue = q
       /\ \A l \in DOMAIN queues[q] : queues[q][k] = queues[q][l] => k = l
  /\ \A i \in DOMAIN jobs : jobs[i].status = "pending" =>
       \E k \in DOMAIN queues[jobs[i].queue] : queues[jobs[i].queue][k] = i

(* High priority is served first, the latest of it before the others;      *)
(* normal priority is served in the order it came.                         *)
QueueOrder ==
  \A q \in Queue : \A k, l \in DOMAIN queues[q] : k < l =>
    LET x == queues[q][k]  y == queues[q][l] IN
      /\ jobs[y].priority > 0 => jobs[x].priority > 0 /\ x > y
      /\ jobs[x].priority = 0 => x < y

(* However often a request is retried, exactly one of its attempts is not  *)
(* superseded: retries neither lose a request nor run it side by side.     *)
Superseded(i) == jobs[i].status = "retrying"
OneAttemptLeft ==
  \A i \in DOMAIN jobs :
    \E j \in DOMAIN jobs :
      /\ jobs[j].request = jobs[i].request /\ ~Superseded(j)
      /\ \A k \in DOMAIN jobs :
           jobs[k].request = jobs[i].request /\ ~Superseded(k) => k = j

(* An id is of one millisecond, and finds the last job created in it: a    *)
(* client is shown that job's status for its own, but never an older one.  *)
IdFindsLatest ==
  \A i \in DOMAIN jobs : /\ jobs[i].id \in DOMAIN byId
                         /\ jobs[byId[jobs[i].id]].id = jobs[i].id
                         /\ byId[jobs[i].id] >= i

(* Nothing is lost, taken twice, served out of order or run side by side,  *)
(* whatever the clients do while the worker awaits a handler.              *)
QueueInv ==
  QueueTypeOK /\ PendingQueuedOnce /\ QueueOrder /\ OneAttemptLeft /\ IdFindsLatest

(* Without the jobs, what is left is whose turn it is: QueueTurns says who *)
(* may be kept waiting, and BlocksProofs that this block takes its steps.  *)
Turns == INSTANCE QueueTurns WITH Ref <- Nat \ {0}
=============================================================================
