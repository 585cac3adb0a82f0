--------------------------------- MODULE Store ---------------------------------
(* One reactive store (AStore and its three subclasses) over one collection. *)
(*                                                                           *)
(* The database's writes are appended to the oplog.  The collection's change *)
(* stream (ObservableModel) reads the oplog at its cursor and pushes every   *)
(* change into the store's pipeline: throttleTime with a leading and a       *)
(* trailing edge, for a DocumentStore a filter, and then load, which decides *)
(* whether to query the database again.  A query is asked, answered by the   *)
(* server and resumed in three steps, and any number of them may be in       *)
(* flight; resuming sends the message the client shows.                      *)
EXTENDS ChangeFilter, Sequences

CONSTANTS InitialDatabases,   \* what the collection may hold at first
          InitialStreams,     \* whether other stores have opened the stream before
          TestConfigs,   \* the configs a client asks for
          MaxWrites,     \* bound on the writes to the collection
          MaxRestarts,   \* bound on restarts of the pipeline
          MaxFaults,     \* bound on failed queries, lost streams and failed starts
          MaxEvents      \* bound on writes and faults together

(* The collection's ObservableModel: not there yet, its watch not answered,  *)
(* open, about to close as the collection was dropped, or dead for good: it  *)
(* could not be opened again.                                                *)
Streams == {"none", "opening", "open", "closing", "dead"}

ASSUME InitialAssumption == InitialDatabases \subseteq Databases
ASSUME StreamsAssumption == InitialStreams \subseteq Streams
ASSUME ConfigsAssumption == TestConfigs \subseteq Configs
ASSUME BoundsAssumption  == {MaxWrites, MaxRestarts, MaxFaults, MaxEvents} \subseteq Nat

VARIABLES
    history,     \* the database after each write; history[1] is where it starts
    oplog,       \* the writes: write n leads from history[n] to history[n + 1]
    cursor,      \* how many of the writes the change stream has read
    stream,      \* the collection's ObservableModel
    live,        \* the store has a subscription to the change stream
    open,        \* its throttle window is open
    pend,        \* the change the window holds back, or None
    applied,     \* the configs set so far; the last one is in force
    loads,       \* the queries in flight
    started,     \* how many loads were started
    out,         \* the last message sent
    destroyed,   \* the store was destroyed
    raised,      \* what failing loads did beyond sending an error message
    restarts,    \* restarts so far (bounded)
    faults,      \* faults so far (bounded)
    lost         \* changes dropped since the youngest load started, and why:
                 \* read by properties only

database == <<history, oplog>>
pipeline == <<live, open, pend>>
vars == <<history, oplog, cursor, stream, live, open, pend, applied, loads, started, out,
          destroyed, raised, restarts, faults, lost>>

Unanswered == -1   \* asOf of a load whose query the server has not run yet

Dropping == [op |-> "drop", id |-> None, touched |-> {}]
Writes   == [op: Operations, id: Ids, touched: SUBSET Paths] \cup {Dropping}
Pending  == [n: Nat, ch: Changes]
Loads    == [n: Nat, cfg: Nat, initial: BOOLEAN, asOf: Nat \cup {Unanswered}]
Messages == [n: Nat, cfg: Nat, label: Nat, asOf: Nat \cup {Unanswered},
             kind: {"none", "data", "delete", "error"}]
Reasons  == {"swallowed", "ignored", "gap"}

ASSUME NoChangeAssumption == None \notin Pending

NoMessage == [n |-> 0, cfg |-> 0, label |-> 0, asOf |-> 0, kind |-> "none"]

Db == history[Len(history)]

(* Before the first config a store's query is {}. *)
ConfigAt(k) == IF k = 0 THEN Unconfigured ELSE applied[k]
Config      == ConfigAt(Len(applied))

Init ==
    /\ history \in {<<db>> : db \in InitialDatabases}
    /\ oplog = <<>> /\ cursor = 0 /\ stream \in InitialStreams
    /\ live = FALSE /\ open = FALSE /\ pend = None
    /\ applied = <<>>
    /\ loads = {} /\ started = 0
    /\ out = NoMessage
    /\ destroyed = FALSE
    /\ raised = {}
    /\ restarts = 0 /\ faults = 0
    /\ lost = {}

(* The bound on events: writes and faults take from the same supply. *)
MoreEvents == Len(oplog) + faults < MaxEvents

-------------------------------------------------------------------------------
(* The database.  An update or replacement that changes nothing is no write. *)

Written(w, db) == oplog' = Append(oplog, w) /\ history' = Append(history, db)

TouchedBetween(old, new) == {f \in Fields : old[f] # new[f]}

(* The server reports each field an update altered by one of its names. *)
Reported(altered) == {{<<f, name[f]>> : f \in altered} : name \in [altered -> Names]}

WriteOf(d, new, op) ==
    LET old     == Db[d]
        touched == CASE op = "update"  -> Reported(TouchedBetween(old, new))
                     [] op = "replace" -> {TouchedBetween(old, new) \X Names}
                     [] OTHER          -> {{}}
    IN  /\ op = CASE old = None /\ new # None -> "insert"
                  [] old # None /\ new = None -> "delete"
                  [] OTHER                    -> op
        /\ old # None /\ new # None => op \in {"update", "replace"}
        /\ \E t \in touched : Written([op |-> op, id |-> d, touched |-> t],
                                      [Db EXCEPT ![d] = new])

(* The collection is dropped.  A rename, and the invalidate event that       *)
(* follows either, look the same to every store.                             *)
DropCollection ==
    /\ \E d \in Ids : Db[d] # None
    /\ Written(Dropping, [d \in Ids |-> None])

Write ==
    /\ Len(oplog) < MaxWrites /\ MoreEvents
    /\ \/ \E d \in Ids, new \in Documents \cup {None}, op \in Operations :
             new # Db[d] /\ WriteOf(d, new, op)
       \/ DropCollection
    /\ UNCHANGED <<cursor, stream, pipeline, applied, loads, started, out, destroyed, raised,
                   restarts, faults, lost>>

-------------------------------------------------------------------------------
(* Loading.  A load takes the query that is in force when it starts, in the  *)
(* same turn as the call that started it.                                    *)

LoadRecord(k, initial) ==
    [n |-> started + 1, cfg |-> k, initial |-> initial, asOf |-> Unanswered]

StartLoad(k, initial) ==
    /\ loads' = loads \cup {LoadRecord(k, initial)}
    /\ started' = started + 1
    /\ lost' = {}

(* Subject.next: ignored once the subject has been stopped by an error. *)
Emit(m) == out' = IF "stopped" \in raised THEN out ELSE m

Dropped(n, why) == [n |-> n, why |-> why]

(* load's early return, or the DocumentStore's filter before it. *)
Ignore(e) ==
    /\ ~Accepts(Config, e.ch)
    /\ lost' = lost \cup {Dropped(e.n, "ignored")}
    /\ UNCHANGED <<loads, started, out>>

(* emitDelete: no query is asked. *)
SendDelete(e) ==
    /\ Accepts(Config, e.ch)
    /\ IsOwnDelete(Config, e.ch)
    /\ started' = started + 1
    /\ Emit([n |-> started + 1, cfg |-> Len(applied), label |-> Len(applied), asOf |-> e.n,
             kind |-> "delete"])
    /\ lost' = {x \in lost : x.n > e.n}
    /\ UNCHANGED loads

LoadFor(e) ==
    /\ Accepts(Config, e.ch)
    /\ ~IsOwnDelete(Config, e.ch)
    /\ StartLoad(Len(applied), FALSE)
    /\ UNCHANGED out

(* The pipeline's subscriber. *)
Act(e) == Ignore(e) \/ SendDelete(e) \/ LoadFor(e)

-------------------------------------------------------------------------------
(* The change stream and the throttle. *)

(* The document of a change is the one written, except for an update: the    *)
(* server looks it up when it reads the change, and finds any later version. *)
Lookups(n) == IF oplog[n].op = "update" THEN n .. Len(oplog) ELSE {n}

Event(n, m) ==
    LET w == oplog[n]
    IN  [n |-> n, ch |-> [op |-> w.op, id |-> w.id, touched |-> w.touched,
                          doc |-> IF w.op = "drop" THEN None ELSE history[m + 1][w.id]]]

HoldBack_KeepsFirst(e) ==
    /\ open
    /\ pend' = IF pend = None THEN e ELSE pend
    /\ UNCHANGED <<open, loads, started, out, lost>>

(* A change inside the window replaces the one held back. *)
HoldBack(e) ==
    /\ open
    /\ pend' = e
    /\ lost' = IF pend = None THEN lost ELSE lost \cup {Dropped(pend.n, "swallowed")}
    /\ UNCHANGED <<open, loads, started, out>>

PassThrough(e) ==
    /\ ~open
    /\ open' = TRUE
    /\ Act(e)
    /\ UNCHANGED pend

(* Nobody listens: the collection's stream goes on without this store. *)
NoSubscriber ==
    /\ ~live
    /\ UNCHANGED <<open, pend, loads, started, out, lost>>

(* The server closes the stream of a collection that was dropped. *)
Deliver ==
    /\ stream = "open"
    /\ cursor < Len(oplog)
    /\ cursor' = cursor + 1
    /\ stream' = IF oplog[cursor + 1].op = "drop" THEN "closing" ELSE stream
    /\ \/ NoSubscriber
       \/ /\ live
          /\ \E m \in Lookups(cursor + 1) :
                HoldBack(Event(cursor + 1, m)) \/ PassThrough(Event(cursor + 1, m))
    /\ UNCHANGED <<database, live, applied, destroyed, raised, restarts, faults>>

WindowEnds_LeadingOnly ==
    /\ open
    /\ open' = FALSE /\ pend' = None
    /\ UNCHANGED <<database, cursor, stream, live, applied, loads, started, out, destroyed, raised,
                   restarts, faults, lost>>

WindowEnds_KeepsChange ==
    /\ open
    /\ open' = FALSE
    /\ UNCHANGED <<database, cursor, stream, live, pend, applied, loads, started, out, destroyed, raised,
                   restarts, faults, lost>>

(* The trailing edge passes the change held back and opens the next window. *)
WindowEnds ==
    /\ open
    /\ \/ /\ pend = None
          /\ open' = FALSE
          /\ UNCHANGED <<pend, loads, started, out, lost>>
       \/ /\ pend # None
          /\ pend' = None
          /\ Act(pend)
          /\ UNCHANGED open
    /\ UNCHANGED <<database, cursor, stream, live, applied, destroyed, raised, restarts, faults>>

(* _reconnect watches again, from nowhere, or throws: then nobody is left to *)
(* try once more.                                                            *)
Reconnect == stream' \in {"opening", "dead"}

(* The stream fails, closes or ends, or its watch is refused; one that is     *)
(* refused and asked for again is where it was.                              *)
StreamLost ==
    /\ faults < MaxFaults /\ MoreEvents
    /\ faults' = faults + 1
    /\ stream \in {"opening", "open"}
    /\ Reconnect /\ stream' # stream
    /\ UNCHANGED <<database, cursor, pipeline, applied, loads, started, out, destroyed, raised,
                   restarts, lost>>

(* It closes after a drop. *)
StreamCloses ==
    /\ stream = "closing"
    /\ Reconnect
    /\ UNCHANGED <<database, cursor, pipeline, applied, loads, started, out, destroyed, raised,
                   restarts, faults, lost>>

StreamOpens_PastEnd ==
    /\ stream = "opening"
    /\ stream' = "open"
    /\ cursor' = Len(oplog) + 1
    /\ UNCHANGED <<database, pipeline, applied, loads, started, out, destroyed, raised, restarts,
                   faults, lost>>

(* The server answers the watch: the stream begins with the next write.      *)
StreamOpens ==
    /\ stream = "opening"
    /\ stream' = "open"
    /\ cursor' = Len(oplog)
    /\ lost' = lost \cup {Dropped(n, "gap") : n \in (cursor + 1) .. Len(oplog)}
    /\ UNCHANGED <<database, pipeline, applied, loads, started, out, destroyed, raised, restarts,
                   faults>>

-------------------------------------------------------------------------------
(* The store's operations. *)

(* ObservableModelsMap.get: the collection's first subscriber has it watched. *)
OpenStream == stream' = IF stream = "none" THEN "opening" ELSE stream

Restart_LoadsOnce(k) ==
    /\ restarts < MaxRestarts
    /\ restarts' = restarts + 1
    /\ OpenStream
    /\ live' = TRUE /\ open' = FALSE /\ pend' = None
    /\ IF live THEN UNCHANGED <<loads, started, lost>> ELSE StartLoad(k, TRUE)

(* restartSubscription: a new pipeline, the old one is unsubscribed (with    *)
(* its window and the change it held back), and an initial load.             *)
Restart(k) ==
    /\ restarts < MaxRestarts
    /\ restarts' = restarts + 1
    /\ OpenStream
    /\ live' = TRUE /\ open' = FALSE /\ pend' = None
    /\ StartLoad(k, TRUE)

(* set config, with a config that differs from the one in force. *)
SetConfig(c) ==
    /\ ~destroyed
    /\ applied = <<>> \/ c # Config
    /\ applied' = Append(applied, c)
    /\ Restart(Len(applied) + 1)
    /\ UNCHANGED <<database, cursor, out, destroyed, raised, faults>>

(* The collection's first stream cannot be opened: the config is in force    *)
(* and restartSubscription has thrown.                                       *)
SetConfigFails(c) ==
    /\ ~destroyed /\ stream = "none"
    /\ faults < MaxFaults /\ MoreEvents
    /\ faults' = faults + 1
    /\ applied = <<>> \/ c # Config
    /\ applied' = Append(applied, c)
    /\ UNCHANGED <<database, cursor, stream, pipeline, loads, started, out, destroyed, raised,
                   restarts, lost>>

(* The client asks for a reload. *)
Reload ==
    /\ ~destroyed
    /\ Restart(Len(applied))
    /\ UNCHANGED <<database, cursor, applied, out, destroyed, raised, faults>>

Destroy_KeepsWindow ==
    /\ ~destroyed
    /\ destroyed' = TRUE
    /\ live' = FALSE
    /\ UNCHANGED <<database, cursor, stream, open, pend, applied, loads, started, out, raised, restarts,
                   faults, lost>>

(* The client unsubscribes or leaves.  Queries in flight are not cancelled. *)
Destroy ==
    /\ ~destroyed
    /\ destroyed' = TRUE
    /\ live' = FALSE /\ open' = FALSE /\ pend' = None
    /\ UNCHANGED <<database, cursor, stream, applied, loads, started, out, raised, restarts, faults, lost>>

-------------------------------------------------------------------------------
(* Queries in flight. *)

(* The server runs the query. *)
Answer(l) ==
    /\ l.asOf = Unanswered
    /\ loads' = (loads \ {l}) \cup {[l EXCEPT !.asOf = Len(oplog)]}
    /\ UNCHANGED <<database, cursor, stream, pipeline, applied, started, out, destroyed, raised,
                   restarts, faults, lost>>

(* The subscription id a message carries: a CollectionStore remembers the    *)
(* one its load started under, the others read the field after the query.    *)
LabelOf(l) == IF Type = "collection" THEN l.cfg ELSE Len(applied)

MessageOf(l, kind) ==
    [n |-> l.n, cfg |-> l.cfg, label |-> LabelOf(l), asOf |-> l.asOf, kind |-> kind]

(* The load resumes after its query (and its populates and virtuals). *)
Resume(l) ==
    /\ l.asOf # Unanswered
    /\ loads' = loads \ {l}
    /\ Emit(MessageOf(l, "data"))
    /\ UNCHANGED <<database, cursor, stream, pipeline, applied, started, destroyed, raised, restarts,
                   faults, lost>>

(* A query fails.  Only a CountStore lets the error out of load: from an     *)
(* initial load nobody catches it, from a change it stops the store.         *)
Fail(l) ==
    /\ faults < MaxFaults /\ MoreEvents
    /\ faults' = faults + 1
    /\ l.asOf = Unanswered \/ Type # "count"
    /\ loads' = loads \ {l}
    /\ \/ /\ Type # "count"
          /\ Emit(MessageOf(l, "error"))
          /\ UNCHANGED raised
       \/ /\ Type = "count"
          /\ raised' = raised \cup {IF l.initial THEN "unhandled" ELSE "stopped"}
          /\ UNCHANGED out
    /\ UNCHANGED <<database, cursor, stream, pipeline, applied, started, destroyed, restarts, lost>>

AnswerSome == \E l \in loads : Answer(l)
ResumeSome == \E l \in loads : Resume(l)
FailSome   == \E l \in loads : Fail(l)

Next ==
    \/ Write
    \/ Deliver
    \/ WindowEnds
    \/ StreamLost
    \/ StreamCloses
    \/ StreamOpens
    \/ \E c \in TestConfigs : SetConfig(c) \/ SetConfigFails(c)
    \/ Reload
    \/ Destroy
    \/ AnswerSome
    \/ ResumeSome
    \/ FailSome

(* The stream is opened, delivers what it reads and is closed after a drop,  *)
(* timers fire, the server answers and promises are resumed.  Nobody has to  *)
(* write, ask or fail.                                                       *)
Fairness ==
    /\ WF_vars(StreamOpens)
    /\ WF_vars(StreamCloses)
    /\ WF_vars(Deliver)
    /\ WF_vars(WindowEnds)
    /\ WF_vars(AnswerSome)
    /\ WF_vars(ResumeSome)

Spec     == Init /\ [][Next]_vars
FairSpec == Spec /\ Fairness

-------------------------------------------------------------------------------
(* Properties. *)

(* The types of the variables; the oplog and the database go together. *)
TypeOk ==
    /\ oplog \in Seq(Writes) /\ history \in Seq(Databases)
    /\ Len(history) = Len(oplog) + 1
    /\ cursor \in 0 .. Len(oplog) /\ stream \in Streams
    /\ live \in BOOLEAN /\ open \in BOOLEAN /\ pend \in Pending \cup {None}
    /\ applied \in Seq(TestConfigs)
    /\ loads \subseteq Loads /\ started \in Nat
    /\ out \in Messages
    /\ destroyed \in BOOLEAN
    /\ raised \subseteq {"unhandled", "stopped"}
    /\ restarts \in Nat /\ faults \in Nat
    /\ lost \subseteq [n: Nat, why: Reasons]

(* Nothing is under way: what the client shows is what it goes on showing    *)
(* until somebody writes or asks again.                                      *)
Quiescent ==
    /\ live
    /\ stream = "open"
    /\ cursor = Len(oplog)
    /\ pend = None
    /\ loads = {}

(* Nothing is under way, and nothing will be: the stream is dead, and the    *)
(* client is not told.                                                       *)
Deaf ==
    /\ live
    /\ stream = "dead"
    /\ pend = None
    /\ loads = {}

(* What the client shows after the last message. *)
Shown ==
    CASE out.kind = "data"   -> Loaded(ConfigAt(out.cfg), history[out.asOf + 1])
      [] out.kind = "delete" -> Nothing
      [] OTHER               -> None

Fresh == out.kind \in {"data", "delete"} /\ Shown = Loaded(Config, Db)

(* A younger load was started, and answered before an older one. *)
Overtaken == out.n < started

(* The README's promise: once all is quiet, what the client shows is what    *)
(* the database holds, unless it was told of an error.                       *)
StaysFresh == Quiescent => Fresh \/ out.kind = "error"

(* Dropping the change cost the client something: it happened after the      *)
(* state the message shows, and the throttle, the reconnection or a blind    *)
(* spot of the filter is to blame.                                           *)
Costly(x) ==
    /\ x.n > out.asOf
    /\ x.why = "ignored" => BlindTo(Config, oplog[x.n])

(* Why the client may be left with something else than the query's result:   *)
(* it was told of an error or the store was stopped by one, an older answer  *)
(* overtook a younger one, or a change was dropped that mattered.            *)
Excused ==
    \/ out.kind = "error" \/ raised # {}
    \/ Overtaken
    \/ \E x \in lost : Costly(x)

(* When all is quiet the client shows what the database holds, but for those *)
(* causes.  Loads, the throttle's trailing edge, the filters outside their   *)
(* blind spots, restarts and reloads lose nothing.                           *)
StaleOnlyIfMissed == Quiescent => Fresh \/ Excused

(* Whatever its blind spots: when no change was dropped that happened after  *)
(* the state the client shows, that state is what the database holds.        *)
FreshUnlessLost ==
    Quiescent => \/ Fresh
                 \/ out.kind = "error" \/ raised # {}
                 \/ Overtaken
                 \/ \E x \in lost : x.n > out.asOf

(* Stale for any cause but the throttle: whatever change it drops is made up *)
(* for by the one it passes in its place.                                    *)
ThrottleLosesNothing ==
    Quiescent => \/ Fresh
                 \/ out.kind = "error" \/ raised # {}
                 \/ Overtaken
                 \/ \E x \in lost : Costly(x) /\ x.why # "swallowed"

(* Every write that the youngest load does not see is ahead of the stream,   *)
(* held back by the throttle, or on record as dropped.                       *)
Seen(a) == \A w \in (a + 1) .. Len(oplog) :
              \/ w > cursor
              \/ pend # None /\ pend.n = w
              \/ \E x \in lost : x.n = w

Accounted ==
    live => /\ \A l \in loads : l.n = started /\ l.asOf # Unanswered => Seen(l.asOf)
            /\ out.n = started /\ out.kind \in {"data", "delete"} => Seen(out.asOf)

(* A message whose data is one subscription's and whose id is another's was  *)
(* overtaken: the config that came in between started a load of its own.     *)
MislabelledOnlyIfOvertaken == out.label # out.cfg => Overtaken

(* A destroyed store starts no query: no timer and no change reaches it.     *)
DestroyedStartsNothing == [][destroyed => started' = started]_vars

(* A store that is not destroyed comes to rest, in time with the database or *)
(* left alone by a dead stream: nothing it waits for is forgotten, whatever  *)
(* was restarted, dropped or failed on the way.                              *)
Settles == live ~> (Quiescent \/ Deaf \/ destroyed)

(* The store implements a live view of its query. *)
View == INSTANCE LiveView WITH truth   <- Loaded(Config, Db),
                               shown   <- Shown,
                               settled <- Quiescent,
                               excused <- Excused

ImplementsLiveView == View!Spec
===============================================================================
