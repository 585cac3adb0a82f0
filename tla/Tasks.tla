---------------------------------- MODULE Tasks ---------------------------------
(* What an application starts with: the models it registers, and its         *)
(* watchers, workers and cronjobs, each a file of a folder or an action      *)
(* class, started in the files' order within one turn.  The first that       *)
(* throws keeps the rest of its kind from being started.                     *)
EXTENDS Streams

CONSTANTS TaskList,     \* the tasks, in the order of their files
          ModelFiles    \* the files of models, in their order

Nothing == "nothing"
Initiated    == {"watcher", "worker", "cronjob"}
AddedActions == {"action watcher", "action worker", "action cronjob"}
Kinds        == Initiated \cup AddedActions
Task    == [kind: Kinds, init: BOOLEAN, waitForInit: BOOLEAN, throws: BOOLEAN,
            observes: Sources \cup {Nothing}]
File    == [collection: Collections, default: BOOLEAN, excluded: BOOLEAN]

ASSUME TasksAssumption == TaskList \in Seq(Task) /\ ModelFiles \in Seq(File)

(* Of a cronjob it is the schedule that is started here. *)
ASSUME CronjobsAssumption ==
    \A t \in DOMAIN TaskList :
       TaskList[t].kind \in {"cronjob", "action cronjob"} => TaskList[t].observes = Nothing

VARIABLES
    stage,       \* of each task: not started, waiting for its init, running or failed
    promises,    \* of each task's init
    initiated,   \* the kinds whose folder was gone through
    models       \* the collections whose model is registered

tasks == <<stage, promises, initiated, models>>

AllTasks == DOMAIN TaskList

TasksInit ==
    /\ stage = [t \in AllTasks |-> "idle"]
    /\ promises = [t \in AllTasks |-> "none"]
    /\ initiated = {} /\ models = {}

(* processModels: the first file without a model throws. *)
ProcessModels ==
    LET listed == {f \in DOMAIN ModelFiles : ~ModelFiles[f].excluded}
        broken == {f \in listed : ~ModelFiles[f].default}
        taken  == {f \in listed : \A b \in broken : f < b}
    IN models' = models \cup {ModelFiles[f].collection : f \in taken}

(* A store is configured for the first time, for a collection whose model is *)
(* known: without a model, or a database, its start throws.                  *)
StoreObserves(c) ==
    /\ c \in models /\ Observable(c)
    /\ Construct({c})

-------------------------------------------------------------------------------
(* Tasks. *)

MustWait_NotWatchers(t) ==
    TaskList[t].init /\ TaskList[t].kind \notin {"watcher", "action watcher"}

(* An action cannot ask its watcher to wait. *)
MustWait(t) ==
    /\ TaskList[t].init
    /\ TaskList[t].kind = "watcher" => TaskList[t].waitForInit
    /\ TaskList[t].kind # "action watcher"

(* A task observes a collection, or the database, when it runs. *)
CanRun(t) ==
    /\ ~TaskList[t].throws
    /\ TaskList[t].observes # Nothing => Observable(TaskList[t].observes)

ObservedBy(T) == {TaskList[t].observes : t \in T} \ {Nothing}

(* executeWatcher, executeWorker and executeCronjob on the files of a kind.  *)
(* The init of a watcher that does not wait for it is called all the same.   *)
Initiate(kind) ==
    LET mine    == {t \in AllTasks : TaskList[t].kind = kind}
        throw   == {t \in mine : ~MustWait(t) /\ ~CanRun(t)}
        reached == {t \in mine : \A u \in throw : t <= u}
        run     == {t \in reached : ~MustWait(t)} \ throw
    IN /\ kind \notin initiated /\ mine # {}
       /\ initiated' = initiated \cup {kind}
       /\ stage' = [t \in AllTasks |-> CASE t \in run                -> "running"
                                         [] t \in reached \cap throw -> "failed"
                                         [] t \in reached /\ MustWait(t) -> "waiting"
                                         [] OTHER                    -> stage[t]]
       /\ promises' = [t \in AllTasks |-> IF t \in reached /\ TaskList[t].init
                                          THEN "pending" ELSE promises[t]]
       /\ Construct(ObservedBy(run))
       /\ UNCHANGED models

InitSettles_RejectedWaits(t) ==
    /\ promises[t] = "pending"
    /\ \E outcome \in {"resolved", "rejected"} : promises' = [promises EXCEPT ![t] = outcome]
    /\ UNCHANGED <<stage, initiated, models>>

(* The init is the application's.  A rejection is nobody's to handle. *)
InitSettles(t) ==
    /\ promises[t] = "pending"
    /\ \/ promises' = [promises EXCEPT ![t] = "resolved"] /\ UNCHANGED stage
       \/ /\ promises' = [promises EXCEPT ![t] = "rejected"]
          /\ stage' = [stage EXCEPT ![t] = IF @ = "waiting" THEN "failed" ELSE @]
    /\ UNCHANGED <<initiated, models>>

(* What was passed to then. *)
RunAfterInit(t) ==
    /\ stage[t] = "waiting" /\ promises[t] = "resolved"
    /\ \/ CanRun(t) /\ stage' = [stage EXCEPT ![t] = "running"] /\ Construct(ObservedBy({t}))
       \/ ~CanRun(t) /\ stage' = [stage EXCEPT ![t] = "failed"] /\ UNCHANGED <<streams, lifecycle>>
    /\ UNCHANGED <<promises, initiated, models>>

TasksTypeOk ==
    /\ stage \in [AllTasks -> {"idle", "waiting", "running", "failed"}]
    /\ promises \in [AllTasks -> {"none", "pending", "resolved", "rejected"}]
    /\ \A t \in AllTasks : stage[t] = "waiting" => promises[t] \in {"pending", "resolved"}
    /\ initiated \subseteq Kinds /\ models \subseteq Collections

(* A worker or a cronjob with an init, and a watcher that asks for it, does  *)
(* not run before its init is done, nor after it was rejected.               *)
WaitsForInit ==
    \A t \in AllTasks :
       /\ stage[t] = "running" /\ TaskList[t].init
       /\ TaskList[t].kind # "action watcher"
       /\ TaskList[t].kind = "watcher" => TaskList[t].waitForInit
       => promises[t] = "resolved"
===============================================================================
