--------------------------------- MODULE Totals ---------------------------------
(* The totals of one CollectionStore: how many documents its query has, as   *)
(* counted after each load (sendCount), at once when the load is the first   *)
(* of a new query and throttled otherwise, and the map of subscription diffs *)
(* that tells the two apart.                                                 *)
(*                                                                           *)
(* Store says which changes the store acts upon and what its loads return.   *)
(* Here a change that alters the count is acted upon or lost on its way, for *)
(* any of the reasons there are, and a load is only whether it has resumed.  *)
EXTENDS Integers, Sequences, FiniteSets

CONSTANTS TestConfigs,   \* the configs a client asks for
          MaxWrites,     \* bound on the writes that alter the counts
          MaxRestarts,   \* bound on restarts (configs and reloads)
          MaxFaults,     \* bound on failed queries and failed starts
          MaxEvents      \* bound on writes, restarts and faults together

Configs == [query: {"a", "b"}, view: {1, 2}, incremental: BOOLEAN]

ASSUME ConfigsAssumption == TestConfigs \subseteq Configs
ASSUME BoundsAssumption  == {MaxWrites, MaxRestarts, MaxFaults, MaxEvents} \subseteq Nat

VARIABLES
    version,      \* how many writes there were: each alters every count
    due,          \* the changes on their way to the store, the oldest first
    live,         \* the store has a subscription to the change stream
    destroyed,    \* the store was destroyed
    applied,      \* the configs set so far; a position stands for a subscription id
    diffs,        \* _subscriptionDiffs: whether the subscription changed the query
    finds,        \* loads in flight, by the subscription they started under
    counts,       \* countDocuments in flight
    begun,        \* how many were begun
    throttle,     \* delaySendCount: never or long ago called, timer armed, just fired
    waiting,      \* the subscription the throttle holds back for, or NoOne
    total,        \* _totalCount, or NoTotal
    told,         \* the last message with a total
    uncounted,    \* since the last count was begun, a change was lost, or a load failed
                  \* or did without a count
    abandoned,    \* subscriptions whose start, load or first count failed
    restarts, faults

pipe   == <<due, live, destroyed>>
timer  == <<throttle, waiting>>
bounds == <<restarts, faults>>
vars   == <<version, pipe, applied, diffs, finds, counts, begun, timer, total, told, uncounted,
            abandoned, bounds>>

NoOne      == -1
Unanswered == -1

(* A store that was never configured has the query {} and no id. *)
Subs == 0 .. Len(applied)
Unconfigured == [query |-> "none", view |-> 0, incremental |-> FALSE]
ConfigAt(k)  == IF k = 0 THEN Unconfigured ELSE applied[k]
Now          == Len(applied)
Config       == ConfigAt(Now)

Diffs  == [sub: Nat, changed: BOOLEAN]
Counts == [n: Nat, label: Nat, of: Nat, at: Nat \cup {Unanswered}, awaited: BOOLEAN]
Tolds  == [n: Nat, of: Nat, at: Nat, label: Nat, kind: {"data", "total"}]

NoTotal == [n |-> 0, of |-> 0, at |-> 0]

Init ==
    /\ version = 0
    /\ due = <<>> /\ live = FALSE /\ destroyed = FALSE
    /\ applied = <<>> /\ diffs = {}
    /\ finds = [k \in {0} |-> 0]
    /\ counts = {} /\ begun = 0
    /\ throttle = "idle" /\ waiting = NoOne
    /\ total = NoTotal
    /\ told = [n |-> 0, of |-> 0, at |-> 0, label |-> 0, kind |-> "total"]
    /\ uncounted = FALSE /\ abandoned = {}
    /\ restarts = 0 /\ faults = 0

MoreEvents == version + restarts + faults < MaxEvents
Fault      == faults < MaxFaults /\ MoreEvents /\ faults' = faults + 1

-------------------------------------------------------------------------------
(* The collection and its change stream. *)

Kinds == {"document", "deletion"}

(* A change has a document, or none: a deletion, a drop, an update of a      *)
(* document that is gone when the server looks it up.                        *)
Write(kind) ==
    /\ version < MaxWrites /\ MoreEvents
    /\ version' = version + 1
    /\ due' = IF live THEN Append(due, kind) ELSE due
    /\ UNCHANGED <<live, destroyed, applied, diffs, finds, counts, begun, timer, total, told, uncounted,
                   abandoned, bounds>>

(* The change fell in a gap of the stream, or the stream is dead; a later    *)
(* one replaced it in the pipeline's throttle; or it is an update of what    *)
(* the query selects on, under a name that is none of the query's keys.      *)
ChangeLost ==
    /\ due # <<>>
    /\ due' = Tail(due)
    /\ uncounted' = TRUE
    /\ UNCHANGED <<version, live, destroyed, applied, diffs, finds, counts, begun, timer, total, told,
                   abandoned, bounds>>

Load(k) == finds' = [finds EXCEPT ![k] = @ + 1]

(* load of a change: in incremental mode the document itself is sent, with   *)
(* neither query nor count; a deletion has none and is loaded for.           *)
ChangeArrives ==
    /\ due # <<>>
    /\ due' = Tail(due)
    /\ \/ /\ Config.incremental /\ Head(due) = "document"
          /\ uncounted' = TRUE
          /\ UNCHANGED finds
       \/ /\ ~(Config.incremental /\ Head(due) = "document")
          /\ Load(Now)
          /\ UNCHANGED uncounted
    /\ UNCHANGED <<version, live, destroyed, applied, diffs, counts, begun, timer, total, told,
                   abandoned, bounds>>

-------------------------------------------------------------------------------
(* The store's operations. *)

(* The change the old pipeline holds back is dropped with it, those still    *)
(* under way reach the new one.                                              *)
Restart ==
    /\ restarts < MaxRestarts /\ MoreEvents
    /\ restarts' = restarts + 1
    /\ live' = TRUE
    /\ due' \in {due} \cup (IF due = <<>> THEN {} ELSE {Tail(due)})

(* _addSubscriptionDiff.  Nothing is like the query a store begins with.     *)
RecordDiff(c) ==
    diffs' = diffs \cup {[sub |-> Now + 1, changed |-> Now = 0 \/ c.query # Config.query]}

(* set config, with a config that differs from the one in force. *)
SetConfig(c) ==
    /\ ~destroyed /\ c # Config
    /\ applied' = Append(applied, c)
    /\ RecordDiff(c)
    /\ Restart
    /\ finds' = [k \in 0 .. Now + 1 |-> IF k = Now + 1 THEN 1 ELSE finds[k]]
    /\ UNCHANGED <<version, destroyed, counts, begun, timer, total, told, uncounted, abandoned, faults>>

(* The collection's first stream cannot be opened. *)
SetConfigFails(c) ==
    /\ ~destroyed /\ ~live /\ c # Config
    /\ Fault
    /\ applied' = Append(applied, c)
    /\ RecordDiff(c)
    /\ finds' = [k \in 0 .. Now + 1 |-> IF k = Now + 1 THEN 0 ELSE finds[k]]
    /\ abandoned' = abandoned \cup {Now + 1}
    /\ UNCHANGED <<version, pipe, counts, begun, timer, total, told, uncounted, restarts>>

Reload ==
    /\ ~destroyed
    /\ Restart
    /\ Load(Now)
    /\ UNCHANGED <<version, destroyed, applied, diffs, counts, begun, timer, total, told, uncounted,
                   abandoned, faults>>

Destroy_KeepsPipeline ==
    /\ ~destroyed
    /\ destroyed' = TRUE
    /\ UNCHANGED <<version, due, live, applied, diffs, finds, counts, begun, timer, total, told,
                   uncounted, abandoned, bounds>>

(* Neither loads and counts in flight are cancelled, nor the throttle. *)
Destroy ==
    /\ ~destroyed
    /\ destroyed' = TRUE /\ live' = FALSE /\ due' = <<>>
    /\ UNCHANGED <<version, applied, diffs, finds, counts, begun, timer, total, told, uncounted,
                   abandoned, bounds>>

-------------------------------------------------------------------------------
(* Counting. *)

SendCount_OfItsSubscription(k, awaited) ==
    /\ begun' = begun + 1
    /\ counts' = counts \cup {[n |-> begun + 1, label |-> k, of |-> k, at |-> Unanswered,
                               awaited |-> awaited]}
    /\ uncounted' = FALSE

(* sendCount, up to the await: what is counted is the query in force now,    *)
(* whatever subscription the total is for.                                   *)
SendCount(k, awaited) ==
    /\ begun' = begun + 1
    /\ counts' = counts \cup {[n |-> begun + 1, label |-> k, of |-> Now, at |-> Unanswered,
                               awaited |-> awaited]}
    /\ uncounted' = FALSE

DelaySendCount_LeadingOnly(k) ==
    /\ throttle' = "armed"
    /\ waiting' = NoOne
    /\ \/ SendCount(k, FALSE)
       \/ throttle # "idle" /\ UNCHANGED <<counts, begun, uncounted>>

(* lodash's throttle, leading and trailing.  A call after a long time is     *)
(* made at once; so is one whose time has come although the timer is late;   *)
(* any other replaces the one held back until the timer fires.               *)
DelaySendCount(k) ==
    /\ throttle' = "armed"
    /\ \/ waiting' = NoOne /\ SendCount(k, FALSE)
       \/ throttle # "idle" /\ waiting' = k /\ UNCHANGED <<counts, begun, uncounted>>

TimerExpires_LeadingOnly ==
    /\ throttle = "armed"
    /\ throttle' = "idle"
    /\ UNCHANGED <<version, pipe, applied, diffs, finds, counts, begun, waiting, total, told, uncounted,
                   abandoned, bounds>>

TimerExpires ==
    /\ throttle = "armed"
    /\ waiting' = NoOne
    /\ \/ /\ waiting = NoOne
          /\ throttle' = "idle"
          /\ UNCHANGED <<counts, begun, uncounted>>
       \/ /\ waiting # NoOne
          /\ throttle' = "cooling"
          /\ SendCount(waiting, FALSE)
    /\ UNCHANGED <<version, pipe, applied, diffs, finds, total, told, abandoned, bounds>>

(* emitMany: a data message carries the last total counted, but for none and *)
(* in incremental mode.                                                      *)
EmitData(k) ==
    told' = IF Config.incremental \/ total = NoTotal
            THEN told
            ELSE [n |-> total.n, of |-> total.of, at |-> total.at, label |-> k, kind |-> "data"]

IsQueryChange(k)          == [sub |-> k, changed |-> TRUE] \in diffs
RemoveSubscriptionDiff(k) == diffs' = {d \in diffs : d.sub # k}

(* loadAll resumes after its query: the first load of a new query awaits the *)
(* count, and forgets the diff after that.                                   *)
FindResumes(k) ==
    /\ finds[k] > 0
    /\ finds' = [finds EXCEPT ![k] = @ - 1]
    /\ EmitData(k)
    /\ \/ IsQueryChange(k) /\ SendCount(k, TRUE) /\ UNCHANGED <<timer, diffs>>
       \/ ~IsQueryChange(k) /\ DelaySendCount(k) /\ RemoveSubscriptionDiff(k)
    /\ UNCHANGED <<version, pipe, applied, total, abandoned, bounds>>

(* The error is sent; the diff stays. *)
FindFails(k) ==
    /\ finds[k] > 0
    /\ Fault
    /\ finds' = [finds EXCEPT ![k] = @ - 1]
    /\ abandoned' = abandoned \cup {k}
    /\ uncounted' = TRUE
    /\ UNCHANGED <<version, pipe, applied, diffs, counts, begun, timer, total, told,
                   restarts>>

AnswerCount(c) ==
    /\ c.at = Unanswered
    /\ counts' = (counts \ {c}) \cup {[c EXCEPT !.at = version]}
    /\ UNCHANGED <<version, pipe, applied, diffs, finds, begun, timer, total, told, uncounted,
                   abandoned, bounds>>

CountResumes_KeepsDiff(c) ==
    /\ c.at # Unanswered
    /\ counts' = counts \ {c}
    /\ total' = [n |-> c.n, of |-> c.of, at |-> c.at]
    /\ told' = [n |-> c.n, of |-> c.of, at |-> c.at, label |-> c.label, kind |-> "total"]
    /\ UNCHANGED <<version, pipe, applied, diffs, finds, begun, timer, uncounted, abandoned,
                   bounds>>

CountResumes_CurrentLabel(c) ==
    /\ c.at # Unanswered
    /\ counts' = counts \ {c}
    /\ total' = [n |-> c.n, of |-> c.of, at |-> c.at]
    /\ told' = [n |-> c.n, of |-> c.of, at |-> c.at, label |-> Now, kind |-> "total"]
    /\ IF c.awaited THEN RemoveSubscriptionDiff(c.label) ELSE UNCHANGED diffs
    /\ UNCHANGED <<version, pipe, applied, finds, begun, timer, uncounted, abandoned,
                   bounds>>

(* sendCount resumes, and the load that awaited it. *)
CountResumes(c) ==
    /\ c.at # Unanswered
    /\ counts' = counts \ {c}
    /\ total' = [n |-> c.n, of |-> c.of, at |-> c.at]
    /\ told' = [n |-> c.n, of |-> c.of, at |-> c.at, label |-> c.label, kind |-> "total"]
    /\ IF c.awaited THEN RemoveSubscriptionDiff(c.label) ELSE UNCHANGED diffs
    /\ UNCHANGED <<version, pipe, applied, finds, begun, timer, uncounted, abandoned,
                   bounds>>

(* An awaited count's error is load's to send; a throttled one's is nobody's: *)
(* the throttle has dropped the promise.                                     *)
CountFails(c) ==
    /\ Fault
    /\ counts' = counts \ {c}
    /\ abandoned' = IF c.awaited THEN abandoned \cup {c.label} ELSE abandoned
    /\ UNCHANGED <<version, pipe, applied, diffs, finds, begun, timer, total, told, uncounted,
                   restarts>>

ResumeSome == \E k \in Subs : FindResumes(k)
AnswerSome == \E c \in counts : AnswerCount(c)
CountSome  == \E c \in counts : CountResumes(c)
FailSome   == (\E k \in Subs : FindFails(k)) \/ (\E c \in counts : CountFails(c))

Next ==
    \/ \E kind \in Kinds : Write(kind)
    \/ ChangeArrives
    \/ ChangeLost
    \/ \E c \in TestConfigs : SetConfig(c) \/ SetConfigFails(c)
    \/ Reload
    \/ Destroy
    \/ ResumeSome \/ AnswerSome \/ CountSome \/ FailSome
    \/ TimerExpires

(* Changes are delivered or lost, queries answered, promises resumed, timers *)
(* fire.                                                                     *)
Fairness ==
    /\ WF_vars(ChangeArrives \/ ChangeLost)
    /\ WF_vars(ResumeSome) /\ WF_vars(AnswerSome) /\ WF_vars(CountSome)
    /\ WF_vars(TimerExpires)

Spec     == Init /\ [][Next]_vars
FairSpec == Spec /\ Fairness

-------------------------------------------------------------------------------
(* Properties. *)

(* The types of the variables. *)
TypeOk ==
    /\ version \in Nat /\ due \in Seq(Kinds)
    /\ live \in BOOLEAN /\ destroyed \in BOOLEAN
    /\ applied \in Seq(TestConfigs) /\ diffs \subseteq Diffs
    /\ finds \in [Subs -> Nat]
    /\ counts \subseteq Counts /\ begun \in Nat
    /\ throttle \in {"idle", "armed", "cooling"} /\ waiting \in Subs \cup {NoOne}
    /\ waiting # NoOne => throttle = "armed"
    /\ total \in [n: Nat, of: Nat, at: Nat] /\ told \in Tolds
    /\ uncounted \in BOOLEAN /\ abandoned \subseteq Nat
    /\ restarts \in Nat /\ faults \in Nat

(* Nothing is under way that would tell the client another total. *)
AtRest ==
    /\ due = <<>>
    /\ \A k \in Subs : finds[k] = 0
    /\ counts = {}
    /\ waiting = NoOne

(* The total is the number of documents the present query has now. *)
Right(t) == t.n > 0 /\ ConfigAt(t.of).query = Config.query /\ t.at = version

(* Once all is quiet, the last total the client was told is that of the      *)
(* query in force and of the present database, however configs, reloads,     *)
(* changes and counts overlapped, whichever of them were throttled and       *)
(* whatever stale total went with the data; unless the youngest count failed *)
(* or an older one came after it, or nothing was counted since a change was  *)
(* lost, a load failed or a document was sent by itself.                     *)
TotalRight == live /\ AtRest => Right(told) \/ told.n < begun \/ uncounted

(* A total that was counted for its message is never of a query older than   *)
(* the subscription it is sent to.                                           *)
TotalNotOlder == told.kind = "total" => told.label <= told.of

(* Every diff on record is going to be removed by a load in flight, or by    *)
(* the count it awaits, or belongs to a subscription whose start, load or    *)
(* count failed: the map does not grow with the configs a client sets.       *)
DiffsAwaited ==
    \A d \in diffs :
       \/ d.sub \in Subs /\ finds[d.sub] > 0
       \/ \E c \in counts : c.awaited /\ c.label = d.sub
       \/ d.sub \in abandoned

(* Counts in flight, and one more if one is held back. *)
Counting == Cardinality(counts) + (IF waiting = NoOne THEN 0 ELSE 1)

(* A destroyed store is told of no change and loads nothing more: what was   *)
(* in flight or held back counts once more at most, and is over.             *)
DestroyedDwindles ==
    [][destroyed => \/ UNCHANGED finds /\ Counting' <= Counting
                    \/ /\ Counting' <= Counting + 1
                       /\ \E k \in Subs : /\ finds[k] > 0
                                          /\ finds' = [finds EXCEPT ![k] = @ - 1]]_vars

(* The store comes to rest again and again: no count is put off for good.    *)
ComesToRest == []<>AtRest

(* What the client was told: of which query and as of which write. *)
Shown == IF told.n = 0 THEN <<>> ELSE <<ConfigAt(told.of).query, told.at>>

(* The store implements a live view of its query's total, which alters with  *)
(* the query and with every write.                                           *)
View == INSTANCE LiveView WITH truth   <- <<Config.query, version>>,
                               shown   <- Shown,
                               settled <- live /\ AtRest,
                               excused <- told.n < begun \/ uncounted

ImplementsLiveView == View!Spec
===================================================================================
