--------------------------------- MODULE Startup --------------------------------
(* The start of an application: the connection to the database, the models,  *)
(* the tasks and the stores that want its change streams, and the streams.   *)
(* The host calls all of it in whatever order it likes.                      *)
EXTENDS Tasks

vars == <<connector, feedVars, tasks>>

Init == ConnectorInit /\ StreamsInit /\ TasksInit

Connect == ConnectorNext /\ UNCHANGED <<feedVars, tasks>>

Pass == StreamsNext /\ UNCHANGED <<connector, tasks>>

Register ==
    /\ ProcessModels
    /\ UNCHANGED <<connector, feedVars, stage, promises, initiated>>

Configure ==
    /\ \E c \in Collections : StoreObserves(c)
    /\ UNCHANGED <<connector, oplog, emitted, breaks, tasks>>

Start ==
    /\ \/ \E kind \in Kinds : Initiate(kind)
       \/ \E t \in AllTasks : RunAfterInit(t)
    /\ UNCHANGED <<connector, oplog, emitted, breaks>>

Settle == (\E t \in AllTasks : InitSettles(t)) /\ UNCHANGED <<connector, feedVars>>

Next == Connect \/ Pass \/ Register \/ Configure \/ Start \/ Settle

(* The server opens streams and sends changes; MongoDB is there. *)
Spec     == Init /\ [][Next]_vars
FairSpec == Spec /\ StreamsFairness

-------------------------------------------------------------------------------
TypeOk == ConnectorTypeOk /\ StreamsTypeOk /\ TasksTypeOk

NoneFails ==
    connection => \A t \in AllTasks : stage[t] # "failed" /\ stage'[t] = "failed" =>
                                        TaskList[t].throws \/ promises'[t] = "rejected"

(* Once an init has returned, no task fails but for a reason of its own: a   *)
(* connection that was announced is one that change streams can be opened    *)
(* with, whichever caller of init it was announced to.                       *)
NoneFailsOnceConnected == [][NoneFails]_vars
===============================================================================
