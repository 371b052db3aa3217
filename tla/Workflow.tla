------------------------------ MODULE Workflow ------------------------------
(***************************************************************************)
(* The workflow block: pipelines run by callers and by scheduler loops, on *)
(* one instance and one event loop.  Whoever runs keeps the loop until it  *)
(* awaits the block of a step, or sleeps; an awaited step is answered, or  *)
(* times out.  The scheduler is enabled.  A definition is what _pipelines  *)
(* holds of an id: run and schedule both store theirs, whatever becomes    *)
(* of it.                                                                  *)
(***************************************************************************)
EXTENDS Naturals, Sequences, FiniteSets

CONSTANTS
  Pipeline,    \* pipeline ids
  Caller,      \* callers of run
  Loop,        \* scheduler tasks
  Definition,  \* what callers send
  MaxSteps,    \* max_pipeline_steps, 20 by default
  HistoryCap   \* the last 100 runs are kept

None == "none"
Runner == Caller \cup Loop

(* key: how the step names its block; "malformed" is no mapping at all.    *)
StepType == [key : {"block", "block_id", "none", "malformed"}, known : BOOLEAN,
             fits : BOOLEAN, stop_on_error : BOOLEAN, break_on_error : BOOLEAN]
(* trigger: no interval or cron, one that can be slept, or one that cannot.*)
DefinitionType == [steps : Seq(StepType), trigger : {"no", "seconds", "unusable"}]

ASSUME WorkflowDefinitions == Definition \subseteq DefinitionType
ASSUME WorkflowRunners == Caller \cap Loop = {} /\ None \notin Loop
ASSUME WorkflowBounds == MaxSteps \in Nat /\ HistoryCap \in Nat \ {0}

VARIABLES
  pipelines,   \* _pipelines, None where there is no definition
  tasks,       \* _scheduled_tasks
  run,         \* what each caller and each scheduler task is doing
  history      \* _execution_history

workflowVars == <<pipelines, tasks, run, history>>

NoDefinition == [steps |-> << >>, trigger |-> "absent"]   \* .get(id, {})
Resting == [pc |-> "free", pipeline |-> None, steps |-> << >>, todo |-> << >>,
            outcomes |-> << >>, status |-> "completed", trigger |-> "no"]

WorkflowInit ==
  /\ pipelines = [p \in Pipeline |-> NoDefinition]
  /\ tasks = [p \in Pipeline |-> None]
  /\ run = [r \in Runner |-> Resting]
  /\ history = << >>

NobodyRuns == \A r \in Runner : run[r].pc # "running"
Busy(r) == run[r].pc \in {"running", "awaiting"}
Alive(l) == run[l].pc \in {"created", "running", "awaiting", "sleeping"}
Becomes(r, state) == run' = [run EXCEPT ![r] = state]

----------------------------------------------------------------------------
(* _run_pipeline up to its first step.                                     *)
Registered(step) == step.key = "block" /\ step.known
ChainErrors(steps) ==
  \E i \in 1 .. Len(steps) - 1 :
     ~Registered(steps[i]) \/ ~Registered(steps[i + 1]) \/ ~steps[i + 1].fits
Rejected(steps) == steps = << >> \/ Len(steps) > MaxSteps \/ ChainErrors(steps)
(* A step that is no mapping raises where a run first looks at it.         *)
Raises(steps) ==
  Len(steps) \in 1 .. MaxSteps /\ \E i \in DOMAIN steps : steps[i].key = "malformed"

(* A loop sleeps after a rejected run as after any other, or its sleep     *)
(* raises; an exception ends it, and neither touches _scheduled_tasks.     *)
Ended(r, state) ==
  [state EXCEPT !.pc = CASE r \in Caller -> "answered"
                         [] r \in Loop /\ state.trigger = "seconds" -> "sleeping"
                         [] OTHER -> "crashed"]

RunPipeline(r, p, steps, trigger) ==
  LET state == [Resting EXCEPT !.pipeline = p, !.steps = steps, !.trigger = trigger]
  IN Becomes(r, CASE Raises(steps) -> Ended(r, [state EXCEPT !.trigger = "unusable"])
                  [] Rejected(steps) /\ ~Raises(steps) -> Ended(r, state)
                  [] OTHER -> [state EXCEPT !.pc = "running", !.todo = steps])

Run(c, p, d) ==
  /\ NobodyRuns /\ ~Busy(c)
  /\ pipelines' = [pipelines EXCEPT ![p] = d]
  /\ RunPipeline(c, p, d.steps, "no")
  /\ UNCHANGED <<tasks, history>>

(* The scheduler looks its definition up for every run.                    *)
Turn(l) ==
  /\ NobodyRuns /\ run[l].pc \in {"created", "sleeping"}
  /\ RunPipeline(l, run[l].pipeline, pipelines[run[l].pipeline].steps, run[l].trigger)
  /\ UNCHANGED <<pipelines, tasks, history>>

----------------------------------------------------------------------------
Here(r) == Head(run[r].todo)
AtStep(r) == run[r].pc = "running" /\ run[r].todo # << >>
Executable(step) == step.key \in {"block", "block_id"} /\ step.known
Noted(r, outcome, rest, status) ==
  [run[r] EXCEPT !.pc = "running", !.outcomes = Append(@, outcome), !.todo = rest,
                 !.status = status]

(* "No block specified", "Block not found".                                *)
StepNotFound(r) ==
  /\ AtStep(r) /\ ~Executable(Here(r))
  /\ Becomes(r, Noted(r, "failed", Tail(run[r].todo), "partial"))
  /\ UNCHANGED <<pipelines, tasks, history>>
ExecuteStep(r) ==
  /\ AtStep(r) /\ Executable(Here(r))
  /\ run' = [run EXCEPT ![r].pc = "awaiting"]
  /\ UNCHANGED <<pipelines, tasks, history>>

Stops(step, outcome) == outcome = "error" /\ step.stop_on_error

(* Faulty: a step that times out or raises is tried again.                 *)
StepRetried(r, outcome) ==
  /\ NobodyRuns /\ run[r].pc = "awaiting"
  /\ Becomes(r, IF outcome = "failed" THEN [run[r] EXCEPT !.pc = "running"]
                ELSE Noted(r, outcome, Tail(run[r].todo), run[r].status))
  /\ UNCHANGED <<pipelines, tasks, history>>

(* The block returned "success" or "error"; "failed" is a timeout or an    *)
(* exception, and never breaks.  The next step sees whatever there is.     *)
StepReturns(r, outcome) ==
  /\ NobodyRuns /\ run[r].pc = "awaiting"
  /\ LET stops == Stops(Here(r), outcome)
     IN Becomes(r, Noted(r, outcome,
          IF stops /\ Here(r).break_on_error THEN << >> ELSE Tail(run[r].todo),
          IF stops \/ outcome = "failed" THEN "partial" ELSE run[r].status))
  /\ UNCHANGED <<pipelines, tasks, history>>

RunRecord(r) == [pipeline |-> run[r].pipeline, status |-> run[r].status,
                 steps |-> run[r].steps, outcomes |-> run[r].outcomes]
(* Faulty: only a run that completed is remembered.                        *)
FinishCompleted(r) ==
  /\ run[r].pc = "running" /\ run[r].todo = << >>
  /\ history' = IF run[r].status = "completed" THEN <<RunRecord(r)>> ELSE history
  /\ Becomes(r, Ended(r, run[r]))
  /\ UNCHANGED <<pipelines, tasks>>

Finish(r) ==
  /\ run[r].pc = "running" /\ run[r].todo = << >>
  /\ LET all == Append(history, RunRecord(r))
     IN history' = IF Len(all) > HistoryCap THEN Tail(all) ELSE all
  /\ Becomes(r, Ended(r, run[r]))
  /\ UNCHANGED <<pipelines, tasks>>

----------------------------------------------------------------------------
(* A cancelled task runs no further: neither a block nor the run catches   *)
(* CancelledError, and the loop only passes.                               *)
Cancelled(p) == IF tasks[p] = None THEN run ELSE [run EXCEPT ![tasks[p]] = Resting]

(* Faulty: the task before is forgotten, not cancelled.                    *)
ScheduleAnother(p, d, l) ==
  /\ NobodyRuns /\ d.trigger # "no" /\ run[l].pc = "free"
  /\ pipelines' = [pipelines EXCEPT ![p] = d]
  /\ tasks' = [tasks EXCEPT ![p] = l]
  /\ run' = [run EXCEPT ![l] = [Resting EXCEPT !.pc = "created", !.pipeline = p,
                                               !.trigger = d.trigger]]
  /\ UNCHANGED history

Schedule(p, d, l) ==
  /\ NobodyRuns /\ d.trigger # "no" /\ run[l].pc = "free"
  /\ pipelines' = [pipelines EXCEPT ![p] = d]
  /\ tasks' = [tasks EXCEPT ![p] = l]
  /\ run' = [Cancelled(p) EXCEPT ![l] = [Resting EXCEPT !.pc = "created", !.pipeline = p,
                                                        !.trigger = d.trigger]]
  /\ UNCHANGED history

Unschedule(p) ==
  /\ NobodyRuns
  /\ run' = Cancelled(p)
  /\ tasks' = [tasks EXCEPT ![p] = None]
  /\ pipelines' = [pipelines EXCEPT ![p] = NoDefinition]
  /\ UNCHANGED history

Progress(r) ==
  \/ StepNotFound(r) \/ ExecuteStep(r) \/ Finish(r)
  \/ \E outcome \in {"success", "error", "failed"} : StepReturns(r, outcome)
Ask ==
  \E p \in Pipeline :
     \/ \E d \in Definition : \/ \E c \in Caller : Run(c, p, d)
                              \/ \E l \in Loop : Schedule(p, d, l)
     \/ Unschedule(p)
WorkflowNext == Ask \/ (\E l \in Loop : Turn(l)) \/ \E r \in Runner : Progress(r)

(* The event loop takes its tasks in turn, and every step is answered or   *)
(* times out.                                                              *)
WorkflowSpec == WorkflowInit /\ [][WorkflowNext]_workflowVars
WorkflowFair == /\ \A c \in Caller : SF_workflowVars(Progress(c))
                /\ \A l \in Loop : SF_workflowVars(Progress(l) \/ Turn(l))

----------------------------------------------------------------------------
(* A run that has begun and ends has one record, which is that run's; only *)
(* a run whose schedule was changed under it ends without.                 *)
RunsAreRecorded ==
  [][\A r \in Runner : Busy(r) /\ ~Busy(r)' =>
       \/ history' # << >> /\ history'[Len(history')] = RunRecord(r)
       \/ r \in Loop /\ tasks[run[r].pipeline] = r /\ run'[r] = Resting
            /\ history' = history]_workflowVars

(* "completed" is said of a run all of whose steps were tried and returned,*)
(* with no error that was to stop it; and a step is left out only after an *)
(* error that was to break.                                                *)
CompletedIsComplete ==
  \A i \in DOMAIN history :
    LET rec == history[i]
        Bad(k) == rec.outcomes[k] = "failed" \/ Stops(rec.steps[k], rec.outcomes[k])
    IN /\ rec.status = "completed" <=> \A k \in DOMAIN rec.outcomes : ~Bad(k)
       /\ rec.status = "completed" => Len(rec.outcomes) = Len(rec.steps)

(* However often a pipeline is scheduled, rescheduled and unscheduled, in  *)
(* the middle of a run or between two, one task at most runs it, the one   *)
(* in _scheduled_tasks; and whatever else stores a definition of that id,  *)
(* one that was scheduled always has a definition to run.                  *)
OneLoopEach ==
  \A l \in Loop : Alive(l) =>
    /\ tasks[run[l].pipeline] = l
    /\ pipelines[run[l].pipeline] # NoDefinition

(* Tasks and records are right whoever calls what in the middle of a run.  *)
WorkflowInv == OneLoopEach /\ CompletedIsComplete

(* Whichever of its steps hang, fail or are unknown and whoever else runs, *)
(* a caller is answered, and a pipeline that stays scheduled is run again  *)
(* and again; unless its task has crashed or what a caller stored under    *)
(* the id is rejected, of which _scheduled_tasks shows nothing.            *)
Lost(l) ==
  \/ run[l].pc \in {"free", "crashed"}
  \/ Rejected(pipelines[run[l].pipeline].steps)
RunsGoOn ==
  /\ \A c \in Caller : Busy(c) ~> ~Busy(c)
  /\ \A l \in Loop : []<>Lost(l) \/ []<><<Turn(l)>>_workflowVars

(* A caller whose steps all name a registered block that fits is not       *)
(* refused, by whichever of the two names the step has it: "block_id" is   *)
(* accepted as an alias.                                                   *)
AliasAccepted ==
  \A c \in Caller :
    run[c].pc = "answered" /\ Len(run[c].steps) \in 1 .. MaxSteps
      /\ (\A i \in DOMAIN run[c].steps : Executable(run[c].steps[i]) /\ run[c].steps[i].fits)
    => run[c].outcomes # << >>
=============================================================================
