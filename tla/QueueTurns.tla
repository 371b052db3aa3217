----------------------------- MODULE QueueTurns -----------------------------
(***************************************************************************)
(* Whose turn it is in the queue block: the queues as the clients and the  *)
(* worker move them, without what becomes of a job.  Here the enqueues     *)
(* have no end, and with them neither has the flow of high priority jobs   *)
(* that go to the front.  JobQueue, which keeps every job, is one way to   *)
(* go through these steps.                                                 *)
(***************************************************************************)
EXTENDS Naturals, Sequences, SequencesExt

CONSTANTS
  Queue,     \* queue names
  Ref        \* references to jobs: one that is not in a queue may stand for the next job

VARIABLES
  queues,   \* _queues: what each queue refers to
  names,    \* the keys of _queues in insertion order
  worker,   \* "asleep", "passing", "handling", or "gone" with its loop
  rest      \* the queues left of this pass: a snapshot of names

turnsVars == <<queues, names, worker, rest>>

TurnsInit ==
  /\ queues = [q \in Queue |-> << >>]
  /\ names = << >>
  /\ worker \in {"asleep", "gone"}
  /\ rest = << >>

Waits(r) == \E q \in Queue : r \in Range(queues[q])

----------------------------------------------------------------------------
(* _enqueue: in front of all others or behind them.                        *)
Placed(q, s) ==
  /\ queues' = [queues EXCEPT ![q] = s]
  /\ names' = IF q \in Range(names) THEN names ELSE Append(names, q)

PutInFront(q, r) ==
  /\ worker # "passing"
  /\ ~Waits(r)
  /\ Placed(q, <<r>> \o queues[q])
  /\ UNCHANGED <<worker, rest>>

PutBehind(q, r) ==
  /\ worker # "passing"
  /\ ~Waits(r)
  /\ Placed(q, Append(queues[q], r))
  /\ UNCHANGED <<worker, rest>>

(* A client's dequeue.                                                     *)
Take(q) ==
  /\ worker # "passing"
  /\ queues[q] # << >>
  /\ queues' = [queues EXCEPT ![q] = Tail(@)]
  /\ UNCHANGED <<names, worker, rest>>

----------------------------------------------------------------------------
(* The worker: every pass takes the head of each queue there was when the  *)
(* pass began.                                                             *)
BeginPass ==
  /\ worker = "asleep"
  /\ worker' = "passing"
  /\ rest' = names
  /\ UNCHANGED <<queues, names>>

PassBy ==
  /\ worker = "passing"
  /\ rest # << >>
  /\ queues[Head(rest)] = << >>
  /\ rest' = Tail(rest)
  /\ UNCHANGED <<queues, names, worker>>

(* The handler of the head is awaited, unless its type has none.           *)
TakeTurn ==
  /\ worker = "passing"
  /\ rest # << >>
  /\ queues[Head(rest)] # << >>
  /\ queues' = [queues EXCEPT ![Head(rest)] = Tail(@)]
  /\ rest' = Tail(rest)
  /\ worker' \in {"passing", "handling"}
  /\ UNCHANGED names

EndPass ==
  /\ worker = "passing"
  /\ rest = << >>
  /\ worker' = "asleep"
  /\ UNCHANGED <<queues, names, rest>>

(* Faulty: the retry is put back where the job was taken.                  *)
RetriedFirst(q, r) == ~Waits(r) /\ Placed(q, <<r>> \o queues[q])

(* A handler ends, and may leave a retry, which has normal priority.       *)
Retried(q, r) == ~Waits(r) /\ Placed(q, Append(queues[q], r))

HandlerOver ==
  /\ worker = "handling"
  /\ worker' = "passing"
  /\ \/ UNCHANGED <<queues, names>>
     \/ \E q \in Queue, r \in Ref : Retried(q, r)
  /\ UNCHANGED rest

Pass == BeginPass \/ PassBy \/ TakeTurn \/ EndPass
TurnsNext ==
  \/ \E q \in Queue, r \in Ref : PutInFront(q, r) \/ PutBehind(q, r)
  \/ \E q \in Queue : Take(q)
  \/ Pass
  \/ HandlerOver

TurnsSpec == TurnsInit /\ [][TurnsNext]_turnsVars
(* The loop runs its tasks, and every handler ends one way or the other.   *)
TurnsFair == WF_turnsVars(Pass) /\ WF_turnsVars(HandlerOver)

----------------------------------------------------------------------------
(* A client puts a job in front of one that waits.                         *)
Overtaken(r) ==
  \E q \in Queue, first \in Ref : r \in Range(queues[q]) /\ PutInFront(q, first)

(* While the loop that started the worker lives, a job waits for ever only *)
(* if clients put others in front of it for ever: what is in other queues  *)
(* or behind it, retries, and what clients take never keep it waiting, nor *)
(* do high priority jobs that come to an end.                              *)
PendingLeaves ==
  \A r \in Ref :
    \/ []<><<Overtaken(r)>>_turnsVars
    \/ (Waits(r) /\ worker # "gone") ~> ~Waits(r)

(* Not what the code does: a steady flow of high priority jobs makes a job *)
(* of normal priority, or an earlier one of high priority, wait for ever.  *)
NobodyStarves == \A r \in Ref : (Waits(r) /\ worker # "gone") ~> ~Waits(r)
=============================================================================
