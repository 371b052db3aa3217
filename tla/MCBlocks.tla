------------------------------ MODULE MCBlocks ------------------------------
(* How a block is got at and what goes on in one that lives on: threads    *)
(* that load block modules, the workflow scheduler, the event bus, and     *)
(* whose turn it is in the job queue.  They share nothing, so a behaviour  *)
(* is one of one of them, while the others stay as they begin.             *)
EXTENDS BlockLoader, Workflow, EventBus, TLC

CONSTANTS t1, t2, t3,
          caller, loop1, loop2, rates,
          rooms, any, plain, coroutine, id1,
          mail, audit

ThreeThreads == {t1, t2, t3}

Named(key, known, stops, breaks) ==
  [key |-> key, known |-> known, fits |-> TRUE, stop_on_error |-> stops,
   break_on_error |-> breaks]
Ordinary == Named("block", TRUE, TRUE, FALSE)
Definitions ==
  {[steps |-> <<Ordinary, Named("block", TRUE, FALSE, FALSE)>>, trigger |-> "seconds"],
   [steps |-> <<Named("block", TRUE, TRUE, TRUE), Ordinary>>, trigger |-> "no"],
   [steps |-> <<Named("none", FALSE, TRUE, FALSE)>>, trigger |-> "unusable"],
   [steps |-> <<Named("block_id", TRUE, TRUE, FALSE), Ordinary>>, trigger |-> "no"],
   [steps |-> <<Named("malformed", FALSE, TRUE, FALSE)>>, trigger |-> "seconds"]}
Loops == {loop1, loop2}
Patterns == rooms :> {any}

VARIABLES
  part,                                         \* the block this behaviour is about
  turnQueues, turnNames, turnWorker, turnRest   \* the queue block's

turnVars == <<turnQueues, turnNames, turnWorker, turnRest>>
mcVars == <<loaderVars, workflowVars, busVars, turnVars, part>>

Few == INSTANCE QueueTurns WITH
         queues <- turnQueues, names <- turnNames, worker <- turnWorker, rest <- turnRest,
         Queue <- {mail, audit}, Ref <- 1 .. 3

Init == /\ LoaderInit /\ WorkflowInit /\ BusInit /\ Few!TurnsInit
        /\ part \in {"loader", "workflow", "bus", "turns"}
        /\ part # "turns" => turnWorker = "gone"
Next ==
  /\ UNCHANGED part
  /\ \/ part = "loader" /\ LoaderNext /\ UNCHANGED <<workflowVars, busVars, turnVars>>
     \/ part = "workflow" /\ WorkflowNext /\ UNCHANGED <<loaderVars, busVars, turnVars>>
     \/ part = "bus" /\ BusNext /\ UNCHANGED <<loaderVars, workflowVars, turnVars>>
     \/ part = "turns" /\ Few!TurnsNext /\ UNCHANGED <<loaderVars, workflowVars, busVars>>
Spec == Init /\ [][Next]_mcVars /\ LoaderFair /\ WorkflowFair /\ Few!TurnsFair

(* No job in a queue whose worker lives waits for ever, unless clients put *)
(* others in front of it for ever: PendingLeaves of QueueTurns.            *)
PendingLeaves == Few!PendingLeaves
=============================================================================
