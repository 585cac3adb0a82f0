------------------------------ MODULE StartupProofs -----------------------------
(* What holds of an application's start and of its change streams for every  *)
(* set of callers and collections, every list of tasks and every bound.      *)
EXTENDS Startup, TLAPS

-------------------------------------------------------------------------------
(* The connector. *)

(* _connection is set by an init that resumed, and none does before mongoose *)
(* has a database.                                                           *)
ConnectorInv == ConnectorTypeOk /\ (connection => handle)

LEMMA ConnectorNextInv ==
    ASSUME ConnectorInv, [ConnectorNext]_connector
    PROVE  ConnectorInv'
<1> USE DEF ConnectorInv, ConnectorTypeOk, Connecting
<1>1. CASE MongooseConnects
  BY <1>1 DEF MongooseConnects
<1>2. ASSUME NEW c \in Callers, CallInit(c) PROVE ConnectorInv'
  BY <1>2 DEF CallInit
<1>3. ASSUME NEW c \in Callers, InitConnected(c) PROVE ConnectorInv'
  BY <1>3 DEF InitConnected
<1>4. ASSUME NEW c \in Callers, InitFails(c) PROVE ConnectorInv'
  BY <1>4 DEF InitFails
<1>5. CASE UNCHANGED connector
  BY <1>5 DEF connector
<1> QED
  BY <1>1, <1>2, <1>3, <1>4, <1>5 DEF ConnectorNext

LEMMA ConnectorSteps == [Next]_vars => [ConnectorNext]_connector
BY DEF Next, vars, Connect, Pass, Register, Configure, Start, Settle

LEMMA ConnectorInvAlways == Spec => []ConnectorInv
<1>1. Init => ConnectorInv
  BY DEF Init, ConnectorInit, ConnectorInv, ConnectorTypeOk
<1>2. ConnectorInv /\ [Next]_vars => ConnectorInv'
  BY ConnectorSteps, ConnectorNextInv
<1> QED
  BY <1>1, <1>2, PTL DEF Spec

-------------------------------------------------------------------------------
(* The tasks. *)

(* A task of which anything is known is one of a kind that was initiated,    *)
(* and one that runs has waited as it must.                                  *)
TasksInv ==
    /\ TasksTypeOk
    /\ \A t \in AllTasks : TaskList[t].kind \notin initiated => stage[t] = "idle"
    /\ WaitsForInit

LEMMA InitiateTasks ==
    ASSUME TasksInv, ConnectorInv, NEW kind \in Kinds, Initiate(kind)
    PROVE  TasksInv' /\ NoneFails
<1> DEFINE mine    == {t \in AllTasks : TaskList[t].kind = kind}
           throw   == {t \in mine : ~MustWait(t) /\ ~CanRun(t)}
           reached == {t \in mine : \A u \in throw : t <= u}
           run     == {t \in reached : ~MustWait(t)} \ throw
<1>1. /\ kind \notin initiated /\ initiated' = initiated \cup {kind}
      /\ stage' = [t \in AllTasks |-> CASE t \in run                -> "running"
                                        [] t \in reached \cap throw -> "failed"
                                        [] t \in reached /\ MustWait(t) -> "waiting"
                                        [] OTHER                    -> stage[t]]
      /\ promises' = [t \in AllTasks |-> IF t \in reached /\ TaskList[t].init
                                         THEN "pending" ELSE promises[t]]
  BY DEF Initiate
<1>2. \A t \in reached : TaskList[t].kind = kind /\ t \in AllTasks
  OBVIOUS
<1>3. \A t \in run : ~MustWait(t) /\ t \in reached
  OBVIOUS
<1>4. \A t \in reached \cap throw : ~CanRun(t)
  OBVIOUS
<1>5. \A t \in reached : t \in run \/ t \in throw \/ MustWait(t)
  OBVIOUS
<1> HIDE DEF mine, throw, reached, run
<1>6. stage' \in [AllTasks -> {"idle", "waiting", "running", "failed"}]
  BY <1>1 DEF TasksInv, TasksTypeOk
<1>7. promises' \in [AllTasks -> {"none", "pending", "resolved", "rejected"}]
  BY <1>1 DEF TasksInv, TasksTypeOk
<1>8. ASSUME NEW t \in AllTasks, TaskList[t].kind \notin initiated' PROVE stage'[t] = "idle"
  <2>1. t \notin reached /\ t \notin run /\ stage[t] = "idle"
    BY <1>1, <1>2, <1>3, <1>8 DEF TasksInv, TasksTypeOk
  <2> QED
    BY <1>1, <2>1
<1>9. ASSUME NEW t \in AllTasks, stage'[t] = "running", TaskList[t].init,
             TaskList[t].kind # "action watcher",
             TaskList[t].kind = "watcher" => TaskList[t].waitForInit
      PROVE promises'[t] = "resolved"
  <2>1. MustWait(t) /\ t \notin run
    BY <1>3, <1>9 DEF MustWait
  <2>2. stage[t] = "running" /\ t \notin reached
    <3>1. CASE t \in reached
      BY <1>1, <1>9, <2>1, <3>1
    <3>2. CASE t \notin reached
      BY <1>1, <1>9, <2>1, <3>2
    <3> QED
      BY <1>1, <1>2, <1>9, <2>1, <3>1, <3>2 DEF TasksInv, TasksTypeOk
  <2> QED
    BY <1>1, <1>9, <2>2 DEF TasksInv, WaitsForInit
<1>10. ASSUME connection, NEW t \in AllTasks, stage[t] # "failed", stage'[t] = "failed"
      PROVE TaskList[t].throws
  <2>1. ~CanRun(t)
    BY <1>1, <1>4, <1>10
  <2> QED
    BY <1>10, <2>1 DEF CanRun, Observable, ConnectorInv
<1>11. ASSUME NEW t \in AllTasks, stage'[t] = "waiting"
       PROVE  promises'[t] \in {"pending", "resolved"}
  <2>1. CASE t \in reached
    BY <1>1, <1>5, <1>11, <2>1 DEF MustWait
  <2>2. CASE t \notin reached
    BY <1>1, <1>3, <1>11, <2>2 DEF TasksInv, TasksTypeOk
  <2> QED
    BY <2>1, <2>2
<1>12. TasksTypeOk'
  BY <1>1, <1>6, <1>7, <1>11 DEF Initiate, TasksInv, TasksTypeOk
<1> QED
  BY <1>8, <1>9, <1>10, <1>12 DEF TasksInv, WaitsForInit, NoneFails

LEMMA TasksNextInv ==
    ASSUME TasksInv, ConnectorInv, [Next]_vars
    PROVE  TasksInv' /\ NoneFails
<1>1. CASE UNCHANGED <<stage, promises, initiated, models>>
  BY <1>1 DEF TasksInv, TasksTypeOk, WaitsForInit, NoneFails
<1>2. CASE Register
  <2>1. \A f \in DOMAIN ModelFiles : ModelFiles[f] \in File
    BY TasksAssumption
  <2>2. \A f \in DOMAIN ModelFiles : ModelFiles[f].collection \in Collections
    BY <2>1 DEF File
  <2>3. models' \subseteq Collections
    BY <1>2, <2>2 DEF Register, ProcessModels, TasksInv, TasksTypeOk
  <2> QED
    BY <1>2, <2>3 DEF Register, TasksInv, TasksTypeOk, WaitsForInit, NoneFails
<1>3. ASSUME NEW t \in AllTasks, InitSettles(t) PROVE TasksInv' /\ NoneFails
  BY <1>3 DEF InitSettles, TasksInv, TasksTypeOk, WaitsForInit, NoneFails
<1>4. ASSUME NEW t \in AllTasks, RunAfterInit(t) PROVE TasksInv' /\ NoneFails
  <2>1. ASSUME connection, ~CanRun(t) PROVE TaskList[t].throws
    BY <2>1 DEF CanRun, Observable, ConnectorInv
  <2>2. /\ stage[t] = "waiting" /\ promises[t] = "resolved"
        /\ \/ stage' = [stage EXCEPT ![t] = "running"]
           \/ ~CanRun(t) /\ stage' = [stage EXCEPT ![t] = "failed"]
        /\ UNCHANGED <<promises, initiated, models>>
    BY <1>4 DEF RunAfterInit
  <2>3. TasksInv'
    BY <2>2 DEF TasksInv, TasksTypeOk, WaitsForInit
  <2>4. NoneFails
    BY <2>1, <2>2 DEF TasksInv, TasksTypeOk, NoneFails
  <2> QED
    BY <2>3, <2>4
<1> QED
  BY <1>1, <1>3, <1>4, <1>2, InitiateTasks
     DEF Next, vars, tasks, Connect, Pass, Register, Configure, Start, Settle

LEMMA TasksInvAlways == Spec => [](TasksInv /\ ConnectorInv)
<1>1. Init => TasksInv /\ ConnectorInv
  BY DEF Init, TasksInit, ConnectorInit, ConnectorInv, ConnectorTypeOk, TasksInv, TasksTypeOk,
         WaitsForInit
<1>2. TasksInv /\ ConnectorInv /\ [Next]_vars => TasksInv' /\ ConnectorInv'
  BY TasksNextInv, ConnectorSteps, ConnectorNextInv
<1> QED
  BY <1>1, <1>2, PTL DEF Spec

(* A worker or cronjob with an init, and a watcher that asks for it, never   *)
(* runs before its init is done, for any list of tasks.                      *)
THEOREM InitComesFirst == Spec => []WaitsForInit
<1>1. TasksInv => WaitsForInit
  BY DEF TasksInv
<1> QED
  BY <1>1, TasksInvAlways, PTL

(* What init has announced, tasks can rely on: once it has returned none     *)
(* fails for want of a database.                                             *)
THEOREM ConnectionSuffices == Spec => NoneFailsOnceConnected
<1>1. TasksInv /\ ConnectorInv /\ [Next]_vars => [NoneFails]_vars
  BY TasksNextInv
<1> QED
  BY <1>1, TasksInvAlways, PTL DEF Spec, NoneFailsOnceConnected

-------------------------------------------------------------------------------
(* The streams. *)

(* What a subject has sent lies behind the stream it listens to, and behind  *)
(* the end of the oplog, where the next one opens.                           *)
Behind(s, at) == \A j \in DOMAIN emitted[s] : emitted[s][j] <= at

(* A stream is listened to until it breaks. *)
ListenedTo ==
    \A s \in Sources : \A i \in DOMAIN streams[s] :
       streams[s][i].listening <=> streams[s][i].state \in {"opening", "open"}

(* What the last word of a lifecycle says of a stream, the last or not. *)
Truthful(stream, last, word) ==
    /\ stream.listening => last /\ word \in {"live", "error"}
    /\ last /\ word = "live" => stream.listening

StreamsInv ==
    /\ StreamsTypeOk /\ HeardOnce /\ LiveMeansListening /\ ListenedTo
    /\ \A s \in Sources : Behind(s, Len(oplog))
    /\ \A s \in Sources : \A i \in DOMAIN streams[s] :
          streams[s][i].state = "open" /\ streams[s][i].listening =>
             streams[s][i].at <= Len(oplog) /\ Behind(s, streams[s][i].at)

(* A stream is a stream. *)
LEMMA StreamType ==
    ASSUME StreamsInv, NEW s \in Sources, NEW i \in DOMAIN streams[s]
    PROVE  /\ streams[s] \in Seq(Stream) /\ streams[s][i] \in Stream
           /\ streams[s][i].at \in Nat /\ streams[s][i].listening \in BOOLEAN
<1>1. streams[s] \in Seq(Stream)
  BY DEF StreamsInv, StreamsTypeOk
<1>2. streams[s][i] \in Stream
  BY <1>1
<1> QED
  BY <1>1, <1>2 DEF Stream

(* No subject has a stream to begin with. *)
LEMMA StreamsInitInv == StreamsInit => StreamsInv
BY DEF StreamsInit, StreamsInv, StreamsTypeOk, HeardOnce, LiveMeansListening, ListenedTo, Behind

(* A write puts more behind the end. *)
LEMMA WriteInv ==
    ASSUME StreamsInv, NEW c \in Collections, Write(c)
    PROVE  StreamsInv'
<1>1. /\ oplog' \in Seq(Collections) /\ Len(oplog') = Len(oplog) + 1 /\ Len(oplog) \in Nat
      /\ UNCHANGED <<streams, lifecycle, emitted, breaks>>
  BY DEF Write, subjects, StreamsInv, StreamsTypeOk
<1>2. \A s \in Sources : \A j \in DOMAIN emitted[s] : emitted[s][j] \in Nat
  BY DEF StreamsInv, StreamsTypeOk
<1>3. \A s \in Sources : \A i \in DOMAIN streams[s] : streams[s][i].at \in Nat
  BY StreamType
<1> QED
  BY <1>1, <1>2, <1>3
     DEF StreamsInv, StreamsTypeOk, HeardOnce, LiveMeansListening, ListenedTo, Behind

(* A subject that is constructed listens to its one stream. *)
LEMMA ConstructInv ==
    ASSUME StreamsInv, NEW S, Construct(S), UNCHANGED <<oplog, emitted, breaks>>
    PROVE  StreamsInv'
<1>1. /\ Fresh \in Stream /\ Fresh.listening = TRUE /\ Fresh.state = "opening"
      /\ <<Fresh>> \in Seq(Stream) /\ Len(<<Fresh>>) = 1 /\ <<Fresh>>[1] = Fresh
      /\ DOMAIN <<Fresh>> = {1}
  BY DEF Fresh, Stream
<1>2. ASSUME NEW s \in Sources
      PROVE  \/ streams'[s] = <<Fresh>> /\ lifecycle'[s] = "live"
             \/ streams'[s] = streams[s] /\ lifecycle'[s] = lifecycle[s]
  BY DEF Construct
<1>3. streams' \in [Sources -> Seq(Stream)]
  BY <1>1 DEF Construct, StreamsInv, StreamsTypeOk
<1>4. lifecycle' \in [Sources -> Events \cup {"none", "live"}]
  BY DEF Construct, StreamsInv, StreamsTypeOk
<1>5. LiveMeansListening'
  <2> SUFFICES ASSUME NEW s \in Sources, NEW i \in DOMAIN streams'[s]
               PROVE  Truthful(streams'[s][i], i = Len(streams'[s]), lifecycle'[s])
    BY DEF LiveMeansListening, Truthful
  <2>1. CASE streams'[s] = <<Fresh>> /\ lifecycle'[s] = "live"
    BY <1>1, <2>1 DEF Truthful
  <2>2. CASE streams'[s] = streams[s] /\ lifecycle'[s] = lifecycle[s]
    BY <2>2 DEF LiveMeansListening, StreamsInv, Truthful
  <2> QED
    BY <1>2, <2>1, <2>2
<1>6. \A s \in Sources : \A i \in DOMAIN streams'[s] :
         streams'[s][i].state = "open" /\ streams'[s][i].listening =>
            streams'[s][i].at <= Len(oplog) /\ Behind(s, streams'[s][i].at)
  BY <1>1, <1>2 DEF StreamsInv
<1>7. ListenedTo'
  BY <1>1, <1>2 DEF ListenedTo, StreamsInv
<1> QED
  BY <1>3, <1>4, <1>5, <1>6, <1>7 DEF StreamsInv, StreamsTypeOk, HeardOnce, Behind

(* A stream opens at the end of the oplog. *)
LEMMA OpensInv ==
    ASSUME StreamsInv, NEW s \in Sources, NEW i \in DOMAIN streams[s], Opens(s, i)
    PROVE  StreamsInv'
<1> DEFINE opened == [streams[s][i] EXCEPT !.state = "open", !.at = Len(oplog)]
<1>1. streams[s] \in Seq(Stream) /\ Len(oplog) \in Nat /\ streams[s][i] \in Stream
  BY DEF StreamsInv, StreamsTypeOk
<1>2. /\ opened \in Stream /\ opened.at = Len(oplog) /\ opened.state = "open"
      /\ opened.listening = streams[s][i].listening
  BY <1>1 DEF Stream
<1>3. streams' = [streams EXCEPT ![s] = [@ EXCEPT ![i] = opened]]
  BY <1>1 DEF Opens, StreamsInv, StreamsTypeOk
<1> HIDE DEF opened
<1>4. [streams[s] EXCEPT ![i] = opened] \in Seq(Stream)
  BY <1>1, <1>2
<1>5. /\ streams' \in [Sources -> Seq(Stream)]
      /\ \A r \in Sources : r # s => streams'[r] = streams[r]
      /\ streams'[s] = [streams[s] EXCEPT ![i] = opened]
  BY <1>3, <1>4 DEF StreamsInv, StreamsTypeOk
<1>6. /\ DOMAIN streams'[s] = DOMAIN streams[s] /\ Len(streams'[s]) = Len(streams[s])
      /\ streams'[s][i] = opened
      /\ \A j \in DOMAIN streams[s] : j # i => streams'[s][j] = streams[s][j]
  BY <1>1, <1>5
<1>7. UNCHANGED <<oplog, lifecycle, emitted, breaks>>
  BY DEF Opens
<1>8. LiveMeansListening'
  <2> SUFFICES ASSUME NEW r \in Sources, NEW j \in DOMAIN streams'[r]
               PROVE  Truthful(streams'[r][j], j = Len(streams'[r]), lifecycle'[r])
    BY DEF LiveMeansListening, Truthful
  <2>1. /\ j \in DOMAIN streams[r] /\ Len(streams'[r]) = Len(streams[r])
        /\ streams'[r][j].listening = streams[r][j].listening
    BY <1>2, <1>5, <1>6
  <2> QED
    BY <1>7, <2>1 DEF LiveMeansListening, StreamsInv, Truthful
<1>9. \A r \in Sources : \A j \in DOMAIN streams'[r] :
         streams'[r][j].state = "open" /\ streams'[r][j].listening =>
            streams'[r][j].at <= Len(oplog) /\ Behind(r, streams'[r][j].at)
  BY <1>1, <1>2, <1>5, <1>6 DEF StreamsInv
<1>10. ListenedTo'
  <2> SUFFICES ASSUME NEW r \in Sources, NEW j \in DOMAIN streams'[r]
               PROVE  streams'[r][j].listening <=> streams'[r][j].state \in {"opening", "open"}
    BY DEF ListenedTo
  <2>1. CASE r = s /\ j = i
    BY <1>2, <1>6, <2>1 DEF StreamsInv, ListenedTo, Opens
  <2>2. CASE ~(r = s /\ j = i)
    BY <1>5, <1>6, <2>2 DEF StreamsInv, ListenedTo
  <2> QED
    BY <2>1, <2>2
<1> QED
  BY <1>5, <1>7, <1>8, <1>9, <1>10 DEF StreamsInv, StreamsTypeOk, HeardOnce, Behind

(* A change that is passed on lies beyond all that were; after one that is   *)
(* not the stream is listened to still.                                      *)
LEMMA HandlesInv ==
    ASSUME StreamsInv, NEW s \in Sources, NEW i \in DOMAIN streams[s], Passes(s, i) \/ Catches(s, i)
    PROVE  StreamsInv'
<1>1. PICK p \in 1 .. Len(oplog) :
         /\ Takes(s, i, p)
         /\ \/ emitted' = [emitted EXCEPT ![s] = Append(@, p)] /\ lifecycle' = lifecycle
            \/ emitted' = emitted /\ lifecycle' = [lifecycle EXCEPT ![s] = "error"]
  BY DEF Passes, Catches
<1> DEFINE moved == [streams[s][i] EXCEPT !.at = p]
<1>2. /\ streams[s] \in Seq(Stream) /\ Len(oplog) \in Nat /\ streams[s][i] \in Stream
      /\ streams[s][i].at \in Nat /\ emitted[s] \in Seq(Nat)
  BY StreamType DEF StreamsInv, StreamsTypeOk
<1>3. p \in Nat /\ p <= Len(oplog) /\ streams[s][i].at < p
  BY <1>1, <1>2 DEF Takes, NextChanges
<1>4. /\ streams[s][i].state = "open" /\ streams[s][i].listening
      /\ UNCHANGED oplog /\ streams' = [streams EXCEPT ![s][i].at = p]
  BY <1>1 DEF Takes
<1>22. breaks' \in Nat
  BY DEF Passes, Catches, StreamsInv, StreamsTypeOk
<1>5. \A j \in DOMAIN emitted[s] : emitted[s][j] \in Nat /\ emitted[s][j] < p
  BY <1>2, <1>3, <1>4 DEF StreamsInv, Behind
<1>6. /\ moved \in Stream /\ moved.at = p /\ moved.state = streams[s][i].state
      /\ moved.listening = streams[s][i].listening
  BY <1>2, <1>3 DEF Stream
<1>7. streams' = [streams EXCEPT ![s] = [@ EXCEPT ![i] = moved]]
  BY <1>2, <1>4 DEF StreamsInv, StreamsTypeOk
<1> HIDE DEF moved
<1>8. [streams[s] EXCEPT ![i] = moved] \in Seq(Stream)
  BY <1>2, <1>6
<1>9. /\ streams' \in [Sources -> Seq(Stream)]
      /\ \A r \in Sources : r # s => streams'[r] = streams[r]
      /\ streams'[s] = [streams[s] EXCEPT ![i] = moved]
  BY <1>7, <1>8 DEF StreamsInv, StreamsTypeOk
<1>10. /\ DOMAIN streams'[s] = DOMAIN streams[s] /\ Len(streams'[s]) = Len(streams[s])
       /\ streams'[s][i] = moved
       /\ \A j \in DOMAIN streams[s] : j # i => streams'[s][j] = streams[s][j]
  BY <1>2, <1>9
<1>11. /\ emitted' \in [Sources -> Seq(Nat)]
       /\ \A r \in Sources : r # s => emitted'[r] = emitted[r]
       /\ emitted'[s] = Append(emitted[s], p) \/ emitted'[s] = emitted[s]
  <2>1. emitted \in [Sources -> Seq(Nat)] /\ Append(emitted[s], p) \in Seq(Nat)
    BY <1>2, <1>3 DEF StreamsInv, StreamsTypeOk
  <2>2. CASE emitted' = [emitted EXCEPT ![s] = Append(@, p)]
    <3> DEFINE longer == Append(emitted[s], p)
    <3>1. longer \in Seq(Nat) /\ emitted' = [emitted EXCEPT ![s] = longer]
      BY <2>1, <2>2
    <3> HIDE DEF longer
    <3>2. /\ emitted' \in [Sources -> Seq(Nat)] /\ emitted'[s] = longer
          /\ \A r \in Sources : r # s => emitted'[r] = emitted[r]
      BY <2>1, <3>1
    <3> QED
      BY <3>2 DEF longer
  <2>3. CASE emitted' = emitted
    BY <2>1, <2>3
  <2> QED
    BY <1>1, <2>2, <2>3
<1>12. /\ DOMAIN emitted[s] \subseteq DOMAIN emitted'[s]
       /\ \A j \in DOMAIN emitted[s] : emitted'[s][j] = emitted[s][j]
       /\ \A j \in DOMAIN emitted'[s] \ DOMAIN emitted[s] :
             emitted'[s][j] = p /\ j = Len(emitted[s]) + 1
       /\ DOMAIN emitted[s] = 1 .. Len(emitted[s]) /\ Len(emitted[s]) \in Nat
  <2>1. DOMAIN emitted[s] = 1 .. Len(emitted[s]) /\ Len(emitted[s]) \in Nat
    BY <1>2
  <2>2. CASE emitted'[s] = Append(emitted[s], p)
    <3> DEFINE longer == Append(emitted[s], p)
    <3>1. /\ DOMAIN longer = 1 .. Len(emitted[s]) + 1 /\ longer[Len(emitted[s]) + 1] = p
          /\ \A j \in DOMAIN emitted[s] : longer[j] = emitted[s][j]
      BY <1>2, <1>3
    <3> HIDE DEF longer
    <3>2. emitted'[s] = longer
      BY <2>2 DEF longer
    <3> QED
      BY <2>1, <3>1, <3>2
  <2>3. CASE emitted'[s] = emitted[s]
    BY <2>1, <2>3
  <2> QED
    BY <1>11, <2>2, <2>3
<1>21. /\ lifecycle' \in [Sources -> Events \cup {"none", "live"}]
       /\ \A r \in Sources : lifecycle'[r] = lifecycle[r] \/ (r = s /\ lifecycle'[r] = "error")
  BY <1>1 DEF StreamsInv, StreamsTypeOk, Events
<1>13. LiveMeansListening'
  <2> SUFFICES ASSUME NEW r \in Sources, NEW j \in DOMAIN streams'[r]
               PROVE  Truthful(streams'[r][j], j = Len(streams'[r]), lifecycle'[r])
    BY DEF LiveMeansListening, Truthful
  <2>1. /\ j \in DOMAIN streams[r] /\ Len(streams'[r]) = Len(streams[r])
        /\ streams'[r][j].listening = streams[r][j].listening
    BY <1>6, <1>9, <1>10
  <2>2. lifecycle'[r] = lifecycle[r] \/ (r = s /\ lifecycle'[r] = "error")
    BY <1>21
  <2>3. streams[s][i].listening /\ i = Len(streams[s])
    BY <1>4 DEF LiveMeansListening, StreamsInv
  <2> QED
    BY <2>1, <2>2, <2>3 DEF LiveMeansListening, StreamsInv, Truthful
<1>14. HeardOnce'
  <2>1. ASSUME NEW j \in DOMAIN emitted'[s], NEW k \in DOMAIN emitted'[s], j < k
        PROVE emitted'[s][j] < emitted'[s][k]
    <3>1. emitted'[s] \in Seq(Nat) /\ j \in Nat /\ k \in Nat
      BY <1>11
    <3>2. j \in DOMAIN emitted[s]
      <4>1. CASE k \in DOMAIN emitted[s]
        BY <1>12, <2>1, <3>1, <4>1
      <4>2. CASE k \notin DOMAIN emitted[s]
        BY <1>12, <2>1, <3>1, <4>2
      <4> QED
        BY <4>1, <4>2
    <3>3. CASE k \in DOMAIN emitted[s]
      BY <1>12, <2>1, <3>2, <3>3 DEF StreamsInv, HeardOnce
    <3>4. CASE k \notin DOMAIN emitted[s]
      BY <1>5, <1>12, <3>2, <3>4
    <3> QED
      BY <3>3, <3>4
  <2> QED
    BY <1>11, <2>1 DEF StreamsInv, HeardOnce
<1>15. ASSUME NEW at \in Nat, p <= at
       PROVE  \A j \in DOMAIN emitted'[s] : emitted'[s][j] <= at
  <2>1. ASSUME NEW j \in DOMAIN emitted'[s] PROVE emitted'[s][j] <= at
    <3>1. CASE j \in DOMAIN emitted[s]
      BY <1>3, <1>5, <1>12, <1>15, <3>1
    <3>2. CASE j \notin DOMAIN emitted[s]
      BY <1>12, <1>15, <3>2
    <3> QED
      BY <3>1, <3>2
  <2> QED
    BY <2>1
<1>17. ASSUME NEW r \in Sources PROVE Behind(r, Len(oplog))'
  <2>1. Len(oplog)' = Len(oplog)
    BY <1>4
  <2>2. CASE r = s
    BY <1>2, <1>3, <1>15, <2>1, <2>2 DEF Behind
  <2>3. CASE r # s
    BY <1>11, <2>1, <2>3 DEF StreamsInv, Behind
  <2> QED
    BY <2>2, <2>3
<1>18. i = Len(streams[s]) /\ \A j \in DOMAIN streams[s] : streams[s][j].listening => j = i
  BY <1>4 DEF StreamsInv, LiveMeansListening
<1>19. ASSUME NEW r \in Sources, NEW j \in DOMAIN streams'[r],
              streams'[r][j].state = "open", streams'[r][j].listening
       PROVE  streams'[r][j].at <= Len(oplog) /\ Behind(r, streams[r][j].at)'
  <2>1. CASE r = s
    <3>1. j \in DOMAIN streams[s] /\ streams[s][j].listening
      BY <1>6, <1>10, <1>19, <2>1
    <3>2. streams'[r][j].at = p
      BY <1>6, <1>10, <1>18, <2>1, <3>1
    <3> QED
      BY <1>3, <1>15, <2>1, <3>2 DEF Behind
  <2>2. CASE r # s
    <3>1. streams'[r] = streams[r] /\ emitted'[r] = emitted[r]
      BY <1>9, <1>11, <2>2
    <3> QED
      BY <1>19, <3>1 DEF StreamsInv, Behind
  <2> QED
    BY <2>1, <2>2
<1>20. ListenedTo'
  <2> SUFFICES ASSUME NEW r \in Sources, NEW j \in DOMAIN streams'[r]
               PROVE  streams'[r][j].listening <=> streams'[r][j].state \in {"opening", "open"}
    BY DEF ListenedTo
  <2>1. /\ j \in DOMAIN streams[r] /\ streams'[r][j].listening = streams[r][j].listening
        /\ streams'[r][j].state = streams[r][j].state
    BY <1>6, <1>9, <1>10
  <2> QED
    BY <2>1 DEF StreamsInv, ListenedTo
<1> QED
  BY <1>4, <1>9, <1>11, <1>13, <1>14, <1>17, <1>19, <1>20, <1>21, <1>22
     DEF StreamsInv, StreamsTypeOk, Behind

(* Whatever a stream reports, the subject listens to its last one only: the  *)
(* old one is let go of before another is watched.                           *)
LEMMA ReportInv ==
    ASSUME StreamsInv, NEW s \in Sources, NEW i \in DOMAIN streams[s], NEW event \in Events,
           Report(s, i, event), UNCHANGED <<oplog, emitted>>, breaks' \in Nat
    PROVE  StreamsInv'
<1> DEFINE after == IF event = "close" THEN "over" ELSE "closing"
           gone  == [streams[s][i] EXCEPT !.state = after]
           known == [streams[s] EXCEPT ![i] = gone]
<1>0. /\ streams[s] \in Seq(Stream) /\ streams[s][i] \in Stream
      /\ streams[s][i].listening \in BOOLEAN
  BY StreamType
<1>1. /\ gone \in Stream /\ gone.listening = streams[s][i].listening
      /\ gone.state \notin {"opening", "open"} /\ gone.at = streams[s][i].at
  BY <1>0 DEF Stream
<1>2. known = [streams[s] EXCEPT ![i].state = after]
  BY <1>0
<1> HIDE DEF gone
<1>3. /\ known \in Seq(Stream) /\ Len(known) = Len(streams[s])
      /\ DOMAIN known = 1 .. Len(streams[s]) /\ DOMAIN streams[s] = 1 .. Len(streams[s])
      /\ Len(streams[s]) \in Nat /\ known[i] = gone
      /\ \A j \in DOMAIN streams[s] : j # i => known[j] = streams[s][j]
  BY <1>0, <1>1
<1> DEFINE silent == [known[i] EXCEPT !.listening = FALSE]
           released == [known EXCEPT ![i] = silent]
<1>4. silent \in Stream /\ silent.listening = FALSE /\ silent.state \notin {"opening", "open"}
  BY <1>1, <1>3 DEF Stream
<1>5. i = Len(streams[s]) => released = [known EXCEPT ![Len(known)].listening = FALSE]
  BY <1>3
<1>6. \/ /\ ~streams[s][i].listening
         /\ streams' = [streams EXCEPT ![s] = known] /\ UNCHANGED lifecycle
      \/ streams[s][i].listening /\ Reconnect(s, known, event)
  BY <1>2 DEF Report
<1> HIDE DEF known, silent
<1>7. /\ released \in Seq(Stream) /\ Len(released) = Len(streams[s])
      /\ DOMAIN released = 1 .. Len(streams[s])
      /\ released[i] = silent
      /\ \A j \in DOMAIN streams[s] : j # i => released[j] = streams[s][j]
  BY <1>3, <1>4
<1> HIDE DEF released
<1>8. Fresh \in Stream /\ Fresh.listening = TRUE /\ Fresh.state = "opening"
  BY DEF Fresh, Stream
<1>9. \A j \in DOMAIN streams[s] : Truthful(streams[s][j], j = Len(streams[s]), lifecycle[s])
  BY DEF StreamsInv, LiveMeansListening, Truthful
<1>10. ASSUME NEW new \in Seq(Stream), NEW word \in Events \cup {"none", "live"},
              streams' = [streams EXCEPT ![s] = new], lifecycle' = [lifecycle EXCEPT ![s] = word],
              \A j \in DOMAIN new : Truthful(new[j], j = Len(new), word),
              \A j \in DOMAIN new : new[j].listening => new[j].state # "open",
              \A j \in DOMAIN new : new[j].listening <=> new[j].state \in {"opening", "open"}
       PROVE  StreamsInv'
  <2>1. /\ streams' \in [Sources -> Seq(Stream)] /\ streams'[s] = new
        /\ \A r \in Sources : r # s => streams'[r] = streams[r]
    BY <1>10 DEF StreamsInv, StreamsTypeOk
  <2>2. /\ lifecycle' \in [Sources -> Events \cup {"none", "live"}] /\ lifecycle'[s] = word
        /\ \A r \in Sources : r # s => lifecycle'[r] = lifecycle[r]
    BY <1>10 DEF StreamsInv, StreamsTypeOk
  <2>3. LiveMeansListening'
    <3> SUFFICES ASSUME NEW r \in Sources, NEW j \in DOMAIN streams'[r]
                 PROVE  Truthful(streams'[r][j], j = Len(streams'[r]), lifecycle'[r])
      BY DEF LiveMeansListening, Truthful
    <3>1. CASE r = s
      BY <1>10, <2>1, <2>2, <3>1 DEF Truthful
    <3>2. CASE r # s
      BY <2>1, <2>2, <3>2 DEF StreamsInv, LiveMeansListening, Truthful
    <3> QED
      BY <3>1, <3>2
  <2>4. \A r \in Sources : \A j \in DOMAIN streams'[r] :
           streams'[r][j].state = "open" /\ streams'[r][j].listening =>
              streams'[r][j].at <= Len(oplog) /\ Behind(r, streams'[r][j].at)
    BY <1>10, <2>1 DEF StreamsInv
  <2>5. ListenedTo'
    BY <1>10, <2>1 DEF StreamsInv, ListenedTo
  <2> QED
    BY <2>1, <2>2, <2>3, <2>4, <2>5 DEF StreamsInv, StreamsTypeOk, HeardOnce, Behind
<1>11. CASE ~streams[s][i].listening
  <2>1. streams' = [streams EXCEPT ![s] = known] /\ lifecycle' = [lifecycle EXCEPT ![s] = lifecycle[s]]
    BY <1>6, <1>11 DEF StreamsInv, StreamsTypeOk
  <2>2. \A j \in DOMAIN known : Truthful(known[j], j = Len(known), lifecycle[s])
    <3> SUFFICES ASSUME NEW j \in DOMAIN streams[s]
                 PROVE  Truthful(known[j], j = Len(streams[s]), lifecycle[s])
      BY <1>3 DEF Truthful
    <3>1. known[j].listening = streams[s][j].listening
      BY <1>1, <1>3
    <3> QED
      BY <1>9, <3>1 DEF Truthful
  <2>3. /\ streams' \in [Sources -> Seq(Stream)] /\ streams'[s] = known
        /\ \A r \in Sources : r # s => streams'[r] = streams[r]
        /\ lifecycle' = lifecycle
    BY <1>3, <2>1 DEF StreamsInv, StreamsTypeOk
  <2>4. LiveMeansListening'
    <3> SUFFICES ASSUME NEW r \in Sources, NEW j \in DOMAIN streams'[r]
                 PROVE  Truthful(streams'[r][j], j = Len(streams'[r]), lifecycle'[r])
      BY DEF LiveMeansListening, Truthful
    <3>1. CASE r = s
      BY <2>2, <2>3, <3>1 DEF Truthful
    <3>2. CASE r # s
      BY <2>3, <3>2 DEF StreamsInv, LiveMeansListening, Truthful
    <3> QED
      BY <3>1, <3>2
  <2>5. ASSUME NEW r \in Sources, NEW j \in DOMAIN streams'[r],
               streams'[r][j].state = "open", streams'[r][j].listening
        PROVE  streams'[r][j] = streams[r][j] /\ j \in DOMAIN streams[r]
    <3>1. CASE r = s
      BY <1>1, <1>3, <1>11, <2>3, <2>5, <3>1
    <3>2. CASE r # s
      BY <2>3, <3>2
    <3> QED
      BY <3>1, <3>2
  <2>6. \A r \in Sources : \A j \in DOMAIN streams'[r] :
           streams'[r][j].state = "open" /\ streams'[r][j].listening =>
              streams'[r][j].at <= Len(oplog) /\ Behind(r, streams'[r][j].at)
    BY <2>5 DEF StreamsInv
  <2>7. \A j \in DOMAIN known : known[j].listening <=> known[j].state \in {"opening", "open"}
    BY <1>1, <1>3, <1>11 DEF StreamsInv, ListenedTo
  <2>8. ListenedTo'
    BY <2>3, <2>7 DEF StreamsInv, ListenedTo
  <2> QED
    BY <2>3, <2>4, <2>6, <2>8 DEF StreamsInv, StreamsTypeOk, HeardOnce, Behind
<1>12. CASE streams[s][i].listening
  <2>1. i = Len(streams[s]) /\ \A j \in DOMAIN streams[s] : j # i => ~streams[s][j].listening
    BY <1>9, <1>12 DEF Truthful
  <2>2. ASSUME NEW j \in DOMAIN released
        PROVE  ~released[j].listening /\ released[j].state \notin {"opening", "open"}
    BY <1>3, <1>4, <1>7, <2>1 DEF StreamsInv, ListenedTo
  <2>3. CASE /\ streams' = [streams EXCEPT ![s] = Append(released, Fresh)]
             /\ lifecycle' = [lifecycle EXCEPT ![s] = "live"]
    <3> DEFINE new == Append(released, Fresh)
    <3>1. /\ new \in Seq(Stream) /\ Len(new) = Len(streams[s]) + 1
          /\ DOMAIN new = 1 .. Len(streams[s]) + 1 /\ new[Len(streams[s]) + 1] = Fresh
          /\ \A j \in DOMAIN released : new[j] = released[j]
      BY <1>3, <1>7, <1>8
    <3> HIDE DEF new
    <3>2. ASSUME NEW j \in DOMAIN new
          PROVE  /\ Truthful(new[j], j = Len(new), "live")
                 /\ new[j].listening => new[j].state # "open"
                 /\ new[j].listening <=> new[j].state \in {"opening", "open"}
      <4>1. CASE j = Len(streams[s]) + 1
        BY <1>8, <3>1, <4>1 DEF Truthful
      <4>2. CASE j \in DOMAIN released
        BY <1>3, <1>7, <2>2, <3>1, <4>2 DEF Truthful
      <4> QED
        BY <1>3, <1>7, <3>1, <4>1, <4>2
    <3> QED
      BY <1>10, <2>3, <3>1, <3>2 DEF new
  <2>4. CASE /\ streams' = [streams EXCEPT ![s] = released]
             /\ lifecycle' = [lifecycle EXCEPT ![s] = event]
    <3>1. event # "live" /\ event \in Events \cup {"none", "live"}
      BY DEF Events
    <3>2. \A j \in DOMAIN released :
             /\ Truthful(released[j], j = Len(released), event)
             /\ released[j].listening => released[j].state # "open"
             /\ released[j].listening <=> released[j].state \in {"opening", "open"}
      BY <2>2, <3>1 DEF Truthful
    <3> QED
      BY <1>7, <1>10, <2>4, <3>1, <3>2
  <2> QED
    BY <1>5, <1>6, <1>12, <2>1, <2>3, <2>4 DEF Reconnect
<1> QED
  BY <1>11, <1>12

(* Every step keeps the streams in order. *)
LEMMA StreamsNextInv == StreamsInv /\ [Next]_vars => StreamsInv'
<1> SUFFICES ASSUME StreamsInv, [Next]_vars PROVE StreamsInv'
  OBVIOUS
<1>1. CASE UNCHANGED feedVars
  BY <1>1 DEF feedVars, subjects, StreamsInv, StreamsTypeOk, HeardOnce, LiveMeansListening,
              ListenedTo, Behind
<1>2. ASSUME NEW s \in Sources, SubjectStep(s) PROVE StreamsInv'
  <2>1. ASSUME NEW i \in DOMAIN streams[s], Breaks(s, i) \/ LateClose(s, i) PROVE StreamsInv'
    <3>1. PICK event \in Events : Report(s, i, event)
      BY <2>1 DEF Breaks, LateClose, Events
    <3>2. breaks' \in Nat /\ UNCHANGED <<oplog, emitted>>
      BY <2>1 DEF Breaks, LateClose, StreamsInv, StreamsTypeOk
    <3> QED
      BY <3>1, <3>2, ReportInv
  <2> QED
    BY <1>2, <2>1, OpensInv, HandlesInv DEF SubjectStep, Opened, Handles
<1>3. CASE Pass
  BY <1>2, <1>3, WriteInv DEF Pass, StreamsNext, ModelStep, DatabaseStep, Sources
<1>4. CASE Configure
  BY <1>4, ConstructInv DEF Configure, StoreObserves
<1>5. ASSUME NEW t \in AllTasks, RunAfterInit(t), UNCHANGED <<connector, oplog, emitted, breaks>>
      PROVE  StreamsInv'
  <2>1. CASE Construct(ObservedBy({t}))
    BY <1>5, <2>1, ConstructInv
  <2>2. CASE UNCHANGED <<streams, lifecycle>>
    BY <1>1, <1>5, <2>2 DEF feedVars, subjects
  <2> QED
    BY <1>5, <2>1, <2>2 DEF RunAfterInit
<1>6. ASSUME NEW kind \in Kinds, Initiate(kind), UNCHANGED <<connector, oplog, emitted, breaks>>
      PROVE  StreamsInv'
  <2>1. PICK S : Construct(S)
    BY <1>6 DEF Initiate
  <2> QED
    BY <1>6, <2>1, ConstructInv
<1>7. CASE Start
  BY <1>5, <1>6, <1>7 DEF Start
<1> QED
  BY <1>1, <1>3, <1>4, <1>7 DEF Next, vars, Connect, Register, Settle

LEMMA StreamsInvAlways == Spec => []StreamsInv
<1>1. Init => StreamsInv
  BY StreamsInitInv DEF Init
<1> QED
  BY <1>1, StreamsNextInv, PTL DEF Spec

(* A subject sends no change twice nor out of order, for any number of       *)
(* collections, writes and broken streams.                                   *)
THEOREM ChangesHeardOnce == Spec => []HeardOnce
<1>1. StreamsInv => HeardOnce
  BY DEF StreamsInv
<1> QED
  BY <1>1, StreamsInvAlways, PTL

(* The lifecycle of a subject tells the truth: when its last word is live    *)
(* the last of its streams is listened to, when it is end or close none is,  *)
(* and no other stream ever is.                                              *)
THEOREM LifecycleTellsTruth == Spec => []LiveMeansListening
<1>1. StreamsInv => LiveMeansListening
  BY DEF StreamsInv
<1> QED
  BY <1>1, StreamsInvAlways, PTL

(* Every variable of the start keeps its type, and a task that waits waits   *)
(* for an init that can still be done.                                       *)
THEOREM StartupTypeCorrect == Spec => []TypeOk
<1>1. TasksInv /\ ConnectorInv /\ StreamsInv => TypeOk
  BY DEF TasksInv, ConnectorInv, StreamsInv, TypeOk
<1> QED
  BY <1>1, TasksInvAlways, StreamsInvAlways, PTL
===============================================================================
