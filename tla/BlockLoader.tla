----------------------------- MODULE BlockLoader -----------------------------
(***************************************************************************)
(* How dispatch.execute gets at the class of a block.  The vendored source *)
(* of the notification block does not compile, so every call of execute,   *)
(* whatever its block, first looks whether sys.modules holds a usable      *)
(* notification module and, if not, publishes a new module object and then *)
(* executes the corrected source in it, under no lock.  The knowledge      *)
(* block is imported, after an entry without its class has been deleted.   *)
(* The routes call execute from the threads of the server's pool.          *)
(*                                                                         *)
(* A module whose code has run is "complete", and all such are alike; a    *)
(* module in which a thread is still running the code is that thread.      *)
(***************************************************************************)
CONSTANTS
  Thread,  \* the threads of the pool
  Wanted   \* the blocks they call: "notification", "workflow", "knowledge", "other"

ASSUME LoaderBlocks == Wanted \subseteq {"notification", "workflow", "knowledge", "other"}
ASSUME LoaderThreads == Thread \cap {"absent", "complete", "free"} = {}

VARIABLES
  notification,  \* the entries of sys.modules: "absent", "complete" or the
  knowledge,     \* thread that is executing the module
  import_lock,   \* the thread that holds the import lock of knowledge
  pc,            \* where each call is
  block,         \* the block it is for
  repaired       \* how often _repair_notification_module returned to it

loaderVars == <<notification, knowledge, import_lock, pc, block, repaired>>

Place == {"idle", "check", "publish", "exec", "look", "drop", "import", "load",
          "get", "ok", "failed"}
ModuleEntry == {"absent", "complete"} \cup Thread

LoaderTypeOK ==
  /\ notification \in ModuleEntry
  /\ knowledge \in ModuleEntry
  /\ import_lock \in Thread \cup {"free"}
  /\ pc \in [Thread -> Place]
  /\ block \in [Thread -> {"notification", "workflow", "knowledge", "other"}]
  /\ repaired \in [Thread -> {"never", "once", "twice"}]

LoaderInit ==
  /\ notification = "absent"
  /\ knowledge = "absent"
  /\ import_lock = "free"
  /\ pc = [t \in Thread |-> "idle"]
  /\ block = [t \in Thread |-> "other"]
  /\ repaired = [t \in Thread |-> "never"]

Goto(t, place) == pc' = [pc EXCEPT ![t] = place]
At(t, place) == pc[t] = place

----------------------------------------------------------------------------
Call(t, b) ==
  /\ pc[t] \in {"idle", "ok", "failed"}
  /\ Goto(t, "check")
  /\ block' = [block EXCEPT ![t] = b]
  /\ repaired' = [repaired EXCEPT ![t] = "never"]
  /\ UNCHANGED <<notification, knowledge, import_lock>>

(* Faulty: the repair is tried again for as long as the block is wanted.   *)
AfterRepairAgain(t) ==
  IF block[t] \in {"notification", "workflow"}
    THEN /\ repaired' = [repaired EXCEPT ![t] = "once"]
         /\ Goto(t, "check")
    ELSE /\ repaired' = [repaired EXCEPT ![t] = "twice"]
         /\ Goto(t, IF block[t] = "knowledge" THEN "look" ELSE "get")

(* execute repairs once for every block, _instantiate once more for        *)
(* notification and workflow; then the class is looked for.                *)
AfterRepair(t) ==
  IF block[t] \in {"notification", "workflow"} /\ repaired[t] = "never"
    THEN /\ repaired' = [repaired EXCEPT ![t] = "once"]
         /\ Goto(t, "check")
    ELSE /\ repaired' = [repaired EXCEPT ![t] = "twice"]
         /\ Goto(t, IF block[t] = "knowledge" THEN "look" ELSE "get")

CheckUsable(t) ==
  /\ At(t, "check")
  /\ notification = "complete"
  /\ AfterRepair(t)
  /\ UNCHANGED <<notification, knowledge, import_lock, block>>

CheckUnusable(t) ==
  /\ At(t, "check")
  /\ notification # "complete"
  /\ Goto(t, "publish")
  /\ UNCHANGED <<notification, knowledge, import_lock, block, repaired>>

Publish(t) ==
  /\ At(t, "publish")
  /\ notification' = t
  /\ Goto(t, "exec")
  /\ UNCHANGED <<knowledge, import_lock, block, repaired>>

(* Faulty: the text that was to be replaced is not found.                  *)
ExecRaises(t) ==
  /\ At(t, "exec")
  /\ Goto(t, "failed")
  /\ UNCHANGED <<notification, knowledge, import_lock, block, repaired>>

(* Faulty: the entry is taken out again after use.                         *)
ExecAndRemove(t) ==
  /\ At(t, "exec")
  /\ notification' = "absent"
  /\ AfterRepair(t)
  /\ UNCHANGED <<knowledge, import_lock, block>>

(* The code has run: if another thread has published a module since, that  *)
(* one is still the entry.                                                 *)
Exec(t) ==
  /\ At(t, "exec")
  /\ notification' = IF notification = t THEN "complete" ELSE notification
  /\ AfterRepair(t)
  /\ UNCHANGED <<knowledge, import_lock, block>>

----------------------------------------------------------------------------
(* _instantiate("knowledge"): an entry without the class is a failed       *)
(* import, or one that another thread is in the middle of.                 *)
Look(t) ==
  /\ At(t, "look")
  /\ Goto(t, IF knowledge \in Thread THEN "drop" ELSE "import")
  /\ UNCHANGED <<notification, knowledge, import_lock, block, repaired>>

Drop(t) ==
  /\ At(t, "drop")
  /\ knowledge # "absent"
  /\ knowledge' = "absent"
  /\ Goto(t, "import")
  /\ UNCHANGED <<notification, import_lock, block, repaired>>

(* The entry has gone since: KeyError.                                     *)
DropFails(t) ==
  /\ At(t, "drop")
  /\ knowledge = "absent"
  /\ Goto(t, "failed")
  /\ UNCHANGED <<notification, knowledge, import_lock, block, repaired>>

(* importlib: one thread at a time executes a module; the others wait for  *)
(* its lock and then find the entry.                                       *)
ImportFound(t) ==
  /\ At(t, "import")
  /\ knowledge = "complete"
  /\ Goto(t, "get")
  /\ UNCHANGED <<notification, knowledge, import_lock, block, repaired>>

ImportStarts(t) ==
  /\ At(t, "import")
  /\ import_lock = "free"
  /\ knowledge = "absent"
  /\ import_lock' = t
  /\ knowledge' = t
  /\ Goto(t, "load")
  /\ UNCHANGED <<notification, block, repaired>>

ImportEnds(t) ==
  /\ At(t, "load")
  /\ knowledge = t
  /\ knowledge' = "complete"
  /\ import_lock' = "free"
  /\ Goto(t, "get")
  /\ UNCHANGED <<notification, block, repaired>>

(* importlib takes the entry out and puts it back: KeyError if it is gone. *)
ImportFails(t) ==
  /\ At(t, "load")
  /\ knowledge # t
  /\ import_lock' = "free"
  /\ Goto(t, "failed")
  /\ UNCHANGED <<notification, knowledge, block, repaired>>

(* getattr(module, class): AttributeError is none of the exceptions that   *)
(* _instantiate catches.                                                   *)
Usable(t) == block[t] = "notification" => notification = "complete"
Get(t) ==
  /\ At(t, "get")
  /\ Usable(t)
  /\ Goto(t, "ok")
  /\ UNCHANGED <<notification, knowledge, import_lock, block, repaired>>

GetFails(t) ==
  /\ At(t, "get")
  /\ ~Usable(t)
  /\ Goto(t, "failed")
  /\ UNCHANGED <<notification, knowledge, import_lock, block, repaired>>

Step(t) ==
  \/ CheckUsable(t) \/ CheckUnusable(t) \/ Publish(t) \/ Exec(t)
  \/ Look(t) \/ Drop(t) \/ DropFails(t)
  \/ ImportFound(t) \/ ImportStarts(t) \/ ImportEnds(t) \/ ImportFails(t)
  \/ Get(t) \/ GetFails(t)

LoaderNext == \E t \in Thread : Step(t) \/ \E b \in Wanted : Call(t, b)

(* A thread that can run is run; nobody has to call.                       *)
LoaderSpec == LoaderInit /\ [][LoaderNext]_loaderVars
LoaderFair == \A t \in Thread : WF_loaderVars(Step(t))

----------------------------------------------------------------------------
Active(t) == pc[t] \notin {"idle", "ok", "failed"}

(* Whatever the threads overwrote and deleted under each other, once they  *)
(* are done the entries are usable: the next call finds them.              *)
EntriesSettle ==
  (\A t \in Thread : ~Active(t)) =>
    /\ (\E t \in Thread : pc[t] # "idle") => notification = "complete"
    /\ (\E t \in Thread : pc[t] = "ok" /\ block[t] = "knowledge") => knowledge = "complete"

LoaderInv == LoaderTypeOK /\ EntriesSettle

(* A call fails only while another one is at work: requests that follow    *)
(* each other are all served.                                              *)
NoFailureAlone ==
  [][\A t \in Thread : pc[t] # "failed" /\ pc'[t] = "failed" =>
       \E u \in Thread \ {t} : Active(u)]_loaderVars

(* Once no more calls come, every call of execute gets its class or an     *)
(* exception; the import lock keeps nobody waiting for ever.  (Threads     *)
(* that call for ever could pass it round without the others.)             *)
CallsStop == <>[][\A t \in Thread, b \in Wanted : ~Call(t, b)]_loaderVars
CallEnds == CallsStop => \A t \in Thread : Active(t) ~> ~Active(t)

(* No call fails for want of a module that the source can provide.         *)
NobodyFails == \A t \in Thread : pc[t] # "failed"
=============================================================================
