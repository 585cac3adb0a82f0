--------------------------------- MODULE Streams --------------------------------
(* The subjects that pass on MongoDB's change streams: an ObservableModel for *)
(* each collection somebody observes, kept in the map of them, and one        *)
(* ObservableDatabase.  A subject has a stream at a time; when that reports   *)
(* an error, that it has ended or that it was closed, it lets go of it and    *)
(* watches anew.  The streams it has let go of are kept here, to see that     *)
(* they no longer matter.                                                     *)
EXTENDS Connector, Integers, Sequences

CONSTANTS Collections,   \* the collections of the database
          MaxEvents      \* bound on the writes, the streams that break and the changes
                         \* that cannot be passed on together

Whole   == "*"
Sources == Collections \cup {Whole}

ASSUME StreamsAssumption == MaxEvents \in Nat /\ Whole \notin Collections

VARIABLES
    oplog,       \* the collections written to, in order
    streams,     \* the streams each subject has opened, the last one is _stream
    lifecycle,   \* the event in the lifecycle's replay buffer
    emitted,     \* the changes each subject has sent, as positions in the oplog
    breaks       \* how many streams broke and changes could not be passed on

subjects == <<streams, lifecycle, emitted>>
feedVars == <<oplog, subjects, breaks>>

(* A stream that has reported an error or its end still has to be closed. *)
Stream == [state: {"opening", "open", "closing", "over"}, at: Nat, listening: BOOLEAN]
Events == {"error", "end", "close"}
Fresh  == [state |-> "opening", at |-> 0, listening |-> TRUE]

StreamsInit ==
    /\ oplog = <<>>
    /\ streams = [s \in Sources |-> <<>>]
    /\ lifecycle = [s \in Sources |-> "none"]
    /\ emitted = [s \in Sources |-> <<>>]
    /\ breaks = 0

Covered(s) == IF s = Whole THEN Collections ELSE {s}

MoreEvents == Len(oplog) + breaks < MaxEvents

Write(c) ==
    /\ MoreEvents
    /\ oplog' = Append(oplog, c)
    /\ UNCHANGED <<subjects, breaks>>

-------------------------------------------------------------------------------
(* A subject. *)

(* Those of S that are observed for the first time are constructed, which    *)
(* opens a stream and announces it at once.                                  *)
Construct(S) ==
    /\ streams' = [s \in Sources |-> IF s \in S /\ streams[s] = <<>> THEN <<Fresh>> ELSE streams[s]]
    /\ lifecycle' = [s \in Sources |-> IF s \in S /\ streams[s] = <<>> THEN "live" ELSE lifecycle[s]]

(* Without a database handle there is no constructing one, nor is it kept.   *)
Observable(s) == streams[s] # <<>> \/ handle

(* The server opens the stream, at the present. *)
Opens(s, i) ==
    /\ streams[s][i].state = "opening"
    /\ streams' = [streams EXCEPT ![s][i].state = "open", ![s][i].at = Len(oplog)]
    /\ UNCHANGED <<oplog, lifecycle, emitted, breaks>>

NextChanges(s, at) ==
    {p \in at + 1 .. Len(oplog) :
        /\ oplog[p] \in Covered(s)
        /\ \A q \in at + 1 .. p - 1 : oplog[q] \notin Covered(s)}

(* The stream hands the subject the next change. *)
Takes(s, i, p) ==
    /\ streams[s][i].state = "open" /\ streams[s][i].listening
    /\ p \in NextChanges(s, streams[s][i].at)
    /\ streams' = [streams EXCEPT ![s][i].at = p]
    /\ UNCHANGED oplog

(* The handler of change. *)
Passes(s, i) ==
    \E p \in 1 .. Len(oplog) :
       /\ Takes(s, i, p)
       /\ emitted' = [emitted EXCEPT ![s] = Append(@, p)]
       /\ UNCHANGED <<lifecycle, breaks>>

(* Its catch: the lifecycle is told of an error, and the stream goes on. *)
Catches(s, i) ==
    /\ MoreEvents /\ breaks' = breaks + 1
    /\ \E p \in 1 .. Len(oplog) : Takes(s, i, p)
    /\ lifecycle' = [lifecycle EXCEPT ![s] = "error"]
    /\ UNCHANGED emitted

Reconnect_KeepsListeners(s, known, event) ==
    \/ /\ streams' = [streams EXCEPT ![s] = Append(known, Fresh)]
       /\ lifecycle' = [lifecycle EXCEPT ![s] = "live"]
    \/ /\ streams' = [streams EXCEPT ![s] = known]
       /\ lifecycle' = [lifecycle EXCEPT ![s] = event]

Reconnect_SwallowsThrow(s, known, event) ==
    LET released == [known EXCEPT ![Len(known)].listening = FALSE]
    IN /\ streams' \in {[streams EXCEPT ![s] = Append(released, Fresh)],
                        [streams EXCEPT ![s] = released]}
       /\ lifecycle' = [lifecycle EXCEPT ![s] = "live"]

(* _reconnect, after the event went to the lifecycle: the stream loses its   *)
(* listeners, and another is watched, or watching throws.                    *)
Reconnect(s, known, event) ==
    LET released == [known EXCEPT ![Len(known)].listening = FALSE]
    IN \/ /\ streams' = [streams EXCEPT ![s] = Append(released, Fresh)]
          /\ lifecycle' = [lifecycle EXCEPT ![s] = "live"]
       \/ /\ streams' = [streams EXCEPT ![s] = released]
          /\ lifecycle' = [lifecycle EXCEPT ![s] = event]

Report_EndUnheard(s, i, event) ==
    LET known == [streams[s] EXCEPT ![i].state = IF event = "close" THEN "over" ELSE "closing"]
    IN \/ streams[s][i].listening /\ event # "end" /\ Reconnect(s, known, event)
       \/ /\ ~streams[s][i].listening \/ event = "end"
          /\ streams' = [streams EXCEPT ![s] = known]
          /\ UNCHANGED lifecycle

(* A stream reports an event, to the subject if that still listens. *)
Report(s, i, event) ==
    LET known == [streams[s] EXCEPT ![i].state = IF event = "close" THEN "over" ELSE "closing"]
    IN \/ streams[s][i].listening /\ Reconnect(s, known, event)
       \/ /\ ~streams[s][i].listening
          /\ streams' = [streams EXCEPT ![s] = known]
          /\ UNCHANGED lifecycle

Breaks(s, i) ==
    /\ streams[s][i].state \in {"opening", "open"}
    /\ MoreEvents /\ breaks' = breaks + 1
    /\ \E event \in Events : Report(s, i, event)
    /\ UNCHANGED <<oplog, emitted>>

(* The driver closes a stream that reported an error or its end. *)
LateClose(s, i) ==
    /\ streams[s][i].state = "closing"
    /\ Report(s, i, "close")
    /\ UNCHANGED <<oplog, emitted, breaks>>

Opened(s)   == \E i \in DOMAIN streams[s] : Opens(s, i)
Handles(s)  == \E i \in DOMAIN streams[s] : Passes(s, i) \/ Catches(s, i)

(* ObservableModel and ObservableDatabase are two classes, alike but for     *)
(* what they watch.                                                          *)
SubjectStep(s) ==
    \/ Opened(s) \/ Handles(s)
    \/ \E i \in DOMAIN streams[s] : Breaks(s, i) \/ LateClose(s, i)

ModelStep(c) == SubjectStep(c)
DatabaseStep == SubjectStep(Whole)

StreamsNext ==
    \/ \E c \in Collections : Write(c) \/ ModelStep(c)
    \/ DatabaseStep

StreamsFairness == \A s \in Sources : WF_feedVars(Opened(s)) /\ WF_feedVars(Handles(s))

-------------------------------------------------------------------------------
(* Properties. *)

StreamsTypeOk ==
    /\ oplog \in Seq(Collections)
    /\ streams \in [Sources -> Seq(Stream)]
    /\ lifecycle \in [Sources -> Events \cup {"none", "live"}]
    /\ emitted \in [Sources -> Seq(Nat)]
    /\ breaks \in Nat

(* A subject sends no change twice nor out of order, however its streams     *)
(* break and whatever the old ones still report.                             *)
HeardOnce ==
    \A s \in Sources : \A i, j \in DOMAIN emitted[s] : i < j => emitted[s][i] < emitted[s][j]

Current(s) == streams[s][Len(streams[s])]

(* Only the last stream of a subject is listened to.  It is when the last    *)
(* word of the lifecycle is that it is live, and it is not when that word is *)
(* that the stream has ended or was closed.  An error alone tells neither:   *)
(* the stream goes on after a change that could not be passed on, and is     *)
(* dead when it could not be opened again.                                   *)
LiveMeansListening ==
    \A s \in Sources : \A i \in DOMAIN streams[s] :
       /\ streams[s][i].listening => i = Len(streams[s]) /\ lifecycle[s] \in {"live", "error"}
       /\ i = Len(streams[s]) /\ lifecycle[s] = "live" => streams[s][i].listening

StatusOf(s) ==
    IF streams[s] = <<>> THEN "none"
    ELSE IF Current(s).listening THEN Current(s).state ELSE "dead"

PositionOf(s) == IF StatusOf(s) = "open" THEN Current(s).at ELSE 0

Observed ==
    INSTANCE Feeds WITH Carries  <- Covered,
                        status   <- [s \in Sources |-> StatusOf(s)],
                        position <- [s \in Sources |-> PositionOf(s)],
                        word     <- lifecycle

(* To whoever observes it, a subject with all its streams is a single feed.  *)
ImplementsFeeds == Observed!Spec
===============================================================================
