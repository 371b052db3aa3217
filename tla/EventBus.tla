------------------------------ MODULE EventBus ------------------------------
(***************************************************************************)
(* The event bus block: publish, subscribe, and requests that wait for an  *)
(* answer under a correlation id, on one event loop.  A requester waits on *)
(* a future; an answer, its timer and a cancellation of its task each make *)
(* it runnable, and what happens before it then runs decides what it gets. *)
(* The event history and the topology, which nothing reads, are left out.  *)
(***************************************************************************)
EXTENDS Naturals, Sequences, FiniteSets

CONSTANTS
  Topic,      \* the topics that are subscribed to, patterns with a * among them
  Target,     \* the topics requests are published under
  Matches,    \* Matches[t]: the patterns that a topic t matches
  Plain,      \* handlers that are functions
  Coroutine,  \* handlers that are coroutine functions
  Cid,        \* correlation ids, each of one request
  MaxHandlers \* bound: subscriptions per topic

Handler == Plain \cup Coroutine
ASSUME BusTopics == Target \subseteq Topic /\ Matches \in [Target -> SUBSET Topic]
ASSUME BusHandlers == Plain \cap Coroutine = {} /\ MaxHandlers \in Nat

VARIABLES
  subscribers,  \* _subscribers
  started,      \* tasks of coroutine handlers that have not run: <<handler, cid>>
  seen,         \* handlers that have the event of a request: <<handler, cid>>
  pending,      \* the keys of _pending
  request,      \* where each request is, and whose answer its future holds
  told          \* the responders that were told "delivered"

busVars == <<subscribers, started, seen, pending, request, told>>

Nobody == "nobody"
BusInit ==
  /\ subscribers = [t \in Topic |-> << >>]
  /\ started = {} /\ seen = {} /\ pending = {}
  /\ request = [c \in Cid |-> [pc |-> "new", answer |-> Nobody]]
  /\ told = [c \in Cid |-> << >>]

Subscribe(t, h) ==
  /\ Len(subscribers[t]) < MaxHandlers
  /\ subscribers' = [subscribers EXCEPT ![t] = Append(@, h)]
  /\ UNCHANGED <<started, seen, pending, request, told>>

(* _publish: functions are called at once, coroutines become tasks.  A     *)
(* function that raises has the event all the same.                        *)
Notified(t) == UNION {{subscribers[s][i] : i \in DOMAIN subscribers[s]} :
                        s \in {t} \cup Matches[t]}
Notify(t, c) ==
  /\ seen' = seen \cup ((Notified(t) \cap Plain) \X {c})
  /\ started' = started \cup ((Notified(t) \cap Coroutine) \X {c})
HandlerRuns(h, c) ==
  /\ <<h, c>> \in started
  /\ started' = started \ {<<h, c>>}
  /\ seen' = seen \cup {<<h, c>>}
  /\ UNCHANGED <<subscribers, pending, request, told>>

(* Nothing is awaited between the future and the wait for it.              *)
Request(c, t) ==
  /\ request[c].pc = "new"
  /\ pending' = pending \cup {c}
  /\ request' = [request EXCEPT ![c].pc = "waiting"]
  /\ Notify(t, c)
  /\ UNCHANGED <<subscribers, told>>

(* Faulty: the id stays in _pending, and whether it is done is not asked.  *)
RespondAgain(h, c) ==
  /\ <<h, c>> \in seen
  /\ IF c \in pending
     THEN /\ request' = [request EXCEPT ![c] = [pc |-> IF @.pc = "waiting" THEN "answered"
                                                       ELSE @.pc, answer |-> h]]
          /\ told' = [told EXCEPT ![c] = IF Len(@) < 2 THEN Append(@, h) ELSE @]
     ELSE UNCHANGED <<request, told>>
  /\ UNCHANGED <<subscribers, started, seen, pending>>

(* A future is done once it has an answer or its waiter was cancelled.     *)
Respond(h, c) ==
  /\ <<h, c>> \in seen
  /\ pending' = pending \ {c}
  /\ IF c \in pending /\ request[c].pc = "waiting"
     THEN /\ request' = [request EXCEPT ![c] = [pc |-> "answered", answer |-> h]]
          /\ told' = [told EXCEPT ![c] = Append(@, h)]
     ELSE UNCHANGED <<request, told>>
  /\ UNCHANGED <<subscribers, started, seen>>

(* wait_for's timer and a cancellation take the answer away even when the  *)
(* future has one; a task that is both cancelled and expired is cancelled. *)
Resolve(c, from, to) ==
  /\ request[c].pc \in from
  /\ request' = [request EXCEPT ![c].pc = to]
  /\ UNCHANGED <<subscribers, started, seen, told>>
TimerFires(c) == Resolve(c, {"waiting", "answered"}, "expiring") /\ UNCHANGED pending
Cancel(c) == /\ Resolve(c, {"waiting", "answered", "expiring"}, "cancelling")
             /\ UNCHANGED pending

(* The requester runs again: only after a timeout does it take its id out. *)
Resumes(c) ==
  \/ Resolve(c, {"answered"}, "ok") /\ UNCHANGED pending
  \/ Resolve(c, {"expiring"}, "timeout") /\ pending' = pending \ {c}
  \/ Resolve(c, {"cancelling"}, "gone") /\ UNCHANGED pending

BusNext ==
  \/ \E t \in Topic, h \in Handler : Subscribe(t, h)
  \/ \E c \in Cid :
       \/ \E t \in Target : Request(c, t)
       \/ TimerFires(c) \/ Cancel(c) \/ Resumes(c)
       \/ \E h \in Handler : HandlerRuns(h, c) \/ Respond(h, c)
BusSpec == BusInit /\ [][BusNext]_busVars
----------------------------------------------------------------------------
(* Whoever answers, times out or is cancelled in whatever order: a request *)
(* that waits can be answered; at most one responder is told that its      *)
(* answer was delivered, and an answer the requester gets is that one's;   *)
(* an id that stays behind is that of a requester that was cancelled.      *)
BusInv ==
  \A c \in Cid : LET pc == request[c].pc IN
    /\ pc = "waiting" => c \in pending /\ told[c] = << >>
    /\ c \in pending => pc \in {"waiting", "expiring", "cancelling", "gone"}
    /\ Len(told[c]) <= 1
    /\ pc \in {"answered", "ok"} => told[c] = <<request[c].answer>>
    /\ told[c] # << >> => c \notin pending /\ <<told[c][1], c>> \in seen
=============================================================================
