------------------------------- MODULE FeedsProofs ------------------------------
(* A subject with all the streams it has opened is, to whoever observes it,  *)
(* one feed: every step of an application's start and of its change streams  *)
(* is a step of Feeds or leaves it as it is.                                 *)
EXTENDS StartupProofs

(* The status of a subject depends on the last of its streams. *)
LEMMA StatusFacts ==
    ASSUME StreamsInv, NEW s \in Sources
    PROVE  /\ streams[s] = <<>> => StatusOf(s) = "none"
           /\ streams[s] # <<>> =>
                /\ Len(streams[s]) \in DOMAIN streams[s] /\ Current(s) \in Stream
                /\ Current(s).state = "opening" => StatusOf(s) = "opening"
                /\ Current(s).state = "open" => StatusOf(s) = "open"
                /\ Current(s).state \in {"closing", "over"} => StatusOf(s) = "dead"
<1>1. CASE streams[s] = <<>>
  BY <1>1 DEF StatusOf
<1>2. CASE streams[s] # <<>>
  <2>1. streams[s] \in Seq(Stream)
    BY DEF StreamsInv, StreamsTypeOk
  <2>2. Len(streams[s]) \in DOMAIN streams[s]
    BY <1>2, <2>1
  <2>3. Current(s) \in Stream /\ Current(s) = streams[s][Len(streams[s])]
    BY <2>2, StreamType DEF Current
  <2>4. Current(s).listening <=> Current(s).state \in {"opening", "open"}
    BY <2>2, <2>3 DEF StreamsInv, ListenedTo
  <2>5. Current(s).state \in {"opening", "open", "closing", "over"}
    BY <2>3 DEF Stream
  <2> QED
    BY <1>2, <2>2, <2>3, <2>4, <2>5 DEF StatusOf
<1> QED
  BY <1>1, <1>2

(* A stream that has not broken is the last. *)
LEMMA UnbrokenIsCurrent ==
    ASSUME StreamsInv, NEW s \in Sources, NEW i \in DOMAIN streams[s],
           streams[s][i].state \in {"opening", "open"}
    PROVE  i = Len(streams[s]) /\ streams[s] # <<>> /\ Current(s) = streams[s][i]
<1>1. i = Len(streams[s])
  BY DEF StreamsInv, ListenedTo, LiveMeansListening
<1>2. streams[s] \in Seq(Stream)
  BY DEF StreamsInv, StreamsTypeOk
<1> QED
  BY <1>1, <1>2 DEF Current

(* When the streams of one subject change, only its feed does. *)
LEMMA OneFeed ==
    ASSUME StreamsInv, NEW s \in Sources, NEW new, streams' = [streams EXCEPT ![s] = new]
    PROVE  /\ [r \in Sources |-> StatusOf(r)]'
                = [[r \in Sources |-> StatusOf(r)] EXCEPT ![s] = StatusOf(s)']
           /\ [r \in Sources |-> PositionOf(r)]'
                = [[r \in Sources |-> PositionOf(r)] EXCEPT ![s] = PositionOf(s)']
           /\ streams'[s] = new
<1>1. streams \in [Sources -> Seq(Stream)]
  BY DEF StreamsInv, StreamsTypeOk
<1>2. streams'[s] = new /\ \A r \in Sources : r # s => streams'[r] = streams[r]
  BY <1>1
<1>3. \A r \in Sources : r # s => StatusOf(r)' = StatusOf(r) /\ PositionOf(r)' = PositionOf(r)
  BY <1>2 DEF StatusOf, PositionOf, Current
<1> QED
  BY <1>2, <1>3

(* The server opens a stream: the feed starts. *)
LEMMA OpensStarts ==
    ASSUME StreamsInv, NEW s \in Sources, NEW i \in DOMAIN streams[s], Opens(s, i)
    PROVE  Observed!Start(s)
<1> DEFINE opened == [streams[s][i] EXCEPT !.state = "open", !.at = Len(oplog)]
<1>1. /\ streams[s] \in Seq(Stream) /\ streams[s][i] \in Stream
      /\ streams[s][i].state = "opening"
      /\ i = Len(streams[s]) /\ streams[s] # <<>> /\ Current(s) = streams[s][i]
  BY StreamType, UnbrokenIsCurrent DEF Opens
<1>2. streams' = [streams EXCEPT ![s] = [@ EXCEPT ![i] = opened]]
  <2>1. streams[s] \in Seq(Stream) /\ streams[s][i] \in Stream
    BY <1>1
  <2> QED
    BY <2>1 DEF Opens, StreamsInv, StreamsTypeOk
<1>3. opened.state = "open" /\ opened.at = Len(oplog) /\ opened.listening
  BY <1>1 DEF Stream, StreamsInv, ListenedTo
<1> HIDE DEF opened
<1> DEFINE new == [streams[s] EXCEPT ![i] = opened]
<1>4. new # <<>> /\ Len(new) = Len(streams[s]) /\ new[Len(new)] = opened
  BY <1>1
<1>5. streams' = [streams EXCEPT ![s] = new]
  BY <1>2 DEF StreamsInv, StreamsTypeOk
<1> HIDE DEF new
<1>6. Current(s)' = opened /\ streams'[s] # <<>>
  BY <1>4, <1>5, OneFeed DEF Current
<1>7. StatusOf(s) = "opening" /\ StatusOf(s)' = "open"
  BY <1>1, <1>3, <1>6, StatusFacts DEF StatusOf
<1>8. PositionOf(s)' = Len(oplog)
  BY <1>3, <1>6, <1>7 DEF PositionOf
<1>9. /\ [r \in Sources |-> StatusOf(r)]' = [[r \in Sources |-> StatusOf(r)] EXCEPT ![s] = "open"]
      /\ [r \in Sources |-> PositionOf(r)]'
           = [[r \in Sources |-> PositionOf(r)] EXCEPT ![s] = Len(oplog)]
  BY <1>5, <1>7, <1>8, OneFeed
<1> QED
  BY <1>7, <1>9 DEF Observed!Start, Opens

(* A stream that hands over its next change is open, and so is the feed,     *)
(* which moves to that change.                                               *)
LEMMA TakesMoves ==
    ASSUME StreamsInv, NEW s \in Sources, NEW i \in DOMAIN streams[s], NEW p, Takes(s, i, p)
    PROVE  /\ [r \in Sources |-> StatusOf(r)][s] = "open"
           /\ [r \in Sources |-> StatusOf(r)]' = [r \in Sources |-> StatusOf(r)]
           /\ p \in Observed!NextChanges(s)
           /\ [r \in Sources |-> PositionOf(r)]'
                = [[r \in Sources |-> PositionOf(r)] EXCEPT ![s] = p]
           /\ oplog' = oplog
<1>1. /\ p \in NextChanges(s, streams[s][i].at)
      /\ streams' = [streams EXCEPT ![s][i].at = p]
      /\ oplog' = oplog
  BY DEF Takes
<1> DEFINE moved == [streams[s][i] EXCEPT !.at = p]
<1>2. /\ streams[s] \in Seq(Stream) /\ streams[s][i] \in Stream
      /\ streams[s][i].state = "open" /\ streams[s][i].listening
      /\ i = Len(streams[s]) /\ streams[s] # <<>> /\ Current(s) = streams[s][i]
  BY StreamType, UnbrokenIsCurrent DEF Takes
<1>3. streams' = [streams EXCEPT ![s] = [@ EXCEPT ![i] = moved]]
  <2>1. streams[s] \in Seq(Stream) /\ streams[s][i] \in Stream
    BY <1>2
  <2> QED
    BY <1>1, <2>1 DEF StreamsInv, StreamsTypeOk
<1>4. moved.state = "open" /\ moved.at = p /\ moved.listening
  BY <1>2 DEF Stream
<1> HIDE DEF moved
<1> DEFINE new == [streams[s] EXCEPT ![i] = moved]
<1>5. new # <<>> /\ Len(new) = Len(streams[s]) /\ new[Len(new)] = moved
  BY <1>2
<1>6. streams' = [streams EXCEPT ![s] = new]
  BY <1>3 DEF StreamsInv, StreamsTypeOk
<1> HIDE DEF new
<1>7. Current(s)' = moved /\ streams'[s] # <<>>
  BY <1>5, <1>6, OneFeed DEF Current
<1>8. StatusOf(s) = "open" /\ StatusOf(s)' = "open"
  BY <1>2, <1>4, <1>7, StatusFacts DEF StatusOf
<1>9. PositionOf(s) = streams[s][i].at /\ PositionOf(s)' = p
  BY <1>2, <1>4, <1>7, <1>8 DEF PositionOf
<1>10. /\ [r \in Sources |-> StatusOf(r)]' = [[r \in Sources |-> StatusOf(r)] EXCEPT ![s] = "open"]
       /\ [r \in Sources |-> PositionOf(r)]' = [[r \in Sources |-> PositionOf(r)] EXCEPT ![s] = p]
  BY <1>6, <1>8, <1>9, OneFeed
<1>11. [r \in Sources |-> StatusOf(r)]' = [r \in Sources |-> StatusOf(r)]
  BY <1>8, <1>10
<1>12. p \in Observed!NextChanges(s)
  BY <1>1, <1>9 DEF NextChanges, Observed!NextChanges
<1> QED
  BY <1>1, <1>8, <1>10, <1>11, <1>12

(* A change is passed on: the feed sends its next. *)
LEMMA PassesEmits ==
    ASSUME StreamsInv, NEW s \in Sources, NEW i \in DOMAIN streams[s], Passes(s, i)
    PROVE  Observed!Emit(s)
<1>1. PICK p \in 1 .. Len(oplog) :
         /\ Takes(s, i, p) /\ emitted' = [emitted EXCEPT ![s] = Append(@, p)]
         /\ UNCHANGED lifecycle
  BY DEF Passes
<1> QED
  BY <1>1, TakesMoves DEF Observed!Emit

(* A change is not passed on: the feed skips it. *)
LEMMA CatchesSkips ==
    ASSUME StreamsInv, NEW s \in Sources, NEW i \in DOMAIN streams[s], Catches(s, i)
    PROVE  Observed!Skip(s)
<1>1. PICK p \in 1 .. Len(oplog) :
         /\ Takes(s, i, p) /\ lifecycle' = [lifecycle EXCEPT ![s] = "error"]
         /\ UNCHANGED emitted
  BY DEF Catches
<1> QED
  BY <1>1, TakesMoves DEF Observed!Skip

(* A stream breaks: so does the feed, for a while or for good. *)
LEMMA BreaksBreaks ==
    ASSUME StreamsInv, NEW s \in Sources, NEW i \in DOMAIN streams[s], Breaks(s, i)
    PROVE  Observed!Break(s)
<1>1. PICK event \in Events : Report(s, i, event)
  BY DEF Breaks
<1> DEFINE known == [streams[s] EXCEPT ![i].state = IF event = "close" THEN "over" ELSE "closing"]
           released == [known EXCEPT ![Len(known)].listening = FALSE]
<1>2. /\ streams[s] \in Seq(Stream) /\ streams[s][i] \in Stream
      /\ streams[s][i].state \in {"opening", "open"}
      /\ i = Len(streams[s]) /\ streams[s] # <<>> /\ Current(s) = streams[s][i]
  BY StreamType, UnbrokenIsCurrent DEF Breaks
<1>3. streams[s][i].listening
  BY <1>2 DEF StreamsInv, ListenedTo
<1>4. \/ /\ streams' = [streams EXCEPT ![s] = Append(released, Fresh)]
         /\ lifecycle' = [lifecycle EXCEPT ![s] = "live"]
      \/ /\ streams' = [streams EXCEPT ![s] = released]
         /\ lifecycle' = [lifecycle EXCEPT ![s] = event]
  BY <1>1, <1>3 DEF Report, Reconnect
<1>5. known \in Seq(Stream) /\ Len(known) = Len(streams[s]) /\ i \in DOMAIN known
  BY <1>2 DEF Stream
<1>6. /\ released \in Seq(Stream) /\ Len(released) = Len(streams[s])
      /\ released[i].listening = FALSE
  <2> HIDE DEF known
  <2> DEFINE silent == [known[i] EXCEPT !.listening = FALSE]
  <2>1. known[i] \in Stream /\ i = Len(known)
    BY <1>2, <1>5
  <2>2. silent \in Stream /\ silent.listening = FALSE
    BY <2>1 DEF Stream
  <2>3. released = [known EXCEPT ![i] = silent]
    BY <1>5, <2>1
  <2> HIDE DEF silent, released
  <2> QED
    BY <1>5, <2>2, <2>3
<1> HIDE DEF known, released
<1>7. Fresh \in Stream /\ Fresh.listening /\ Fresh.state = "opening"
  BY DEF Fresh, Stream
<1>8. \E next \in {"opening"} \X {"live"} \cup {"dead"} \X Events :
         StatusOf(s)' = next[1] /\ lifecycle' = [lifecycle EXCEPT ![s] = next[2]]
  <2>1. CASE /\ streams' = [streams EXCEPT ![s] = Append(released, Fresh)]
             /\ lifecycle' = [lifecycle EXCEPT ![s] = "live"]
    <3> DEFINE new == Append(released, Fresh)
    <3>1. new # <<>> /\ new[Len(new)] = Fresh
      BY <1>6, <1>7
    <3> HIDE DEF new
    <3>2. streams'[s] = new
      BY <2>1, OneFeed DEF new
    <3>3. StatusOf(s)' = "opening"
      BY <1>7, <3>1, <3>2 DEF StatusOf, Current
    <3> WITNESS <<"opening", "live">> \in {"opening"} \X {"live"} \cup {"dead"} \X Events
    <3> QED
      BY <2>1, <3>3
  <2>2. CASE /\ streams' = [streams EXCEPT ![s] = released]
             /\ lifecycle' = [lifecycle EXCEPT ![s] = event]
    <3>1. streams'[s] = released
      BY <2>2, OneFeed
    <3>2. released # <<>> /\ i = Len(released)
      BY <1>2, <1>6
    <3>3. StatusOf(s)' = "dead"
      BY <1>6, <3>1, <3>2 DEF StatusOf, Current
    <3> WITNESS <<"dead", event>> \in {"opening"} \X {"live"} \cup {"dead"} \X Events
    <3> QED
      BY <2>2, <3>3
  <2> QED
    BY <1>4, <2>1, <2>2
<1>9. StatusOf(s)' \in {"opening", "dead"} /\ PositionOf(s)' = 0
  BY <1>8 DEF PositionOf
<1>10. StatusOf(s) \in {"opening", "open"}
  BY <1>2, StatusFacts
<1>11. /\ [r \in Sources |-> StatusOf(r)]'
            = [[r \in Sources |-> StatusOf(r)] EXCEPT ![s] = StatusOf(s)']
       /\ [r \in Sources |-> PositionOf(r)]' = [[r \in Sources |-> PositionOf(r)] EXCEPT ![s] = 0]
  BY <1>4, <1>9, OneFeed
<1>12. UNCHANGED <<oplog, emitted>>
  BY DEF Breaks
<1> QED
  BY <1>8, <1>10, <1>11, <1>12 DEF Observed!Break, Events

(* The feed knows nothing of a stream the subject has let go of. *)
LEMMA LateCloseUnheard ==
    ASSUME StreamsInv, NEW s \in Sources, NEW i \in DOMAIN streams[s], LateClose(s, i)
    PROVE  /\ [r \in Sources |-> StatusOf(r)]' = [r \in Sources |-> StatusOf(r)]
           /\ [r \in Sources |-> PositionOf(r)]' = [r \in Sources |-> PositionOf(r)]
           /\ lifecycle' = lifecycle
<1> DEFINE known == [streams[s] EXCEPT ![i].state = "over"]
<1>1. /\ streams[s] \in Seq(Stream) /\ streams[s][i] \in Stream
      /\ streams[s][i].state = "closing"
  BY StreamType DEF LateClose
<1>2. ~streams[s][i].listening
  BY <1>1 DEF StreamsInv, ListenedTo
<1>3. streams' = [streams EXCEPT ![s] = known] /\ lifecycle' = lifecycle
  BY <1>2 DEF LateClose, Report
<1>4. /\ known # <<>> /\ Len(known) = Len(streams[s]) /\ streams[s] # <<>>
      /\ Len(streams[s]) \in DOMAIN streams[s]
  BY <1>1
<1>5. CASE i = Len(streams[s])
  <2>1. known[Len(known)].listening = streams[s][i].listening
    BY <1>1, <1>4, <1>5 DEF Stream
  <2> HIDE DEF known
  <2>2. StatusOf(s) = "dead" /\ StatusOf(s)' = "dead"
    BY <1>2, <1>3, <1>4, <1>5, <2>1, OneFeed DEF StatusOf, Current
  <2>3. PositionOf(s) = 0 /\ PositionOf(s)' = 0
    BY <2>2 DEF PositionOf
  <2> QED
    BY <1>3, <2>2, <2>3, OneFeed
<1>6. CASE i # Len(streams[s])
  <2>1. known[Len(known)] = streams[s][Len(streams[s])]
    BY <1>1, <1>4, <1>6
  <2> HIDE DEF known
  <2>2. Current(s)' = Current(s) /\ streams'[s] # <<>>
    BY <1>3, <1>4, <2>1, OneFeed DEF Current
  <2>3. StatusOf(s)' = StatusOf(s) /\ PositionOf(s)' = PositionOf(s)
    BY <1>4, <2>2 DEF StatusOf, PositionOf
  <2> QED
    BY <1>3, <2>3, OneFeed
<1> QED
  BY <1>5, <1>6

(* Subjects are constructed: their feeds are observed. *)
LEMMA ConstructObserves ==
    ASSUME StreamsInv, NEW S, Construct(S), UNCHANGED <<oplog, emitted>>
    PROVE  Observed!Observe
<1> DEFINE New == {s \in Sources : s \in S /\ streams[s] = <<>>}
<1>1. <<Fresh>> # <<>> /\ <<Fresh>>[Len(<<Fresh>>)] = Fresh /\ Fresh.listening
      /\ Fresh.state = "opening"
  BY DEF Fresh
<1>2. ASSUME NEW s \in Sources
      PROVE  /\ s \in New => StatusOf(s) = "none" /\ StatusOf(s)' = "opening"
             /\ s \notin New => StatusOf(s)' = StatusOf(s)
             /\ PositionOf(s)' = PositionOf(s)
  <2>1. CASE s \in New
    <3>1. streams'[s] = <<Fresh>> /\ streams[s] = <<>>
      BY <2>1 DEF Construct
    <3>2. StatusOf(s) = "none" /\ StatusOf(s)' = "opening"
      BY <1>1, <3>1 DEF StatusOf, Current
    <3> QED
      BY <2>1, <3>2 DEF PositionOf
  <2>2. CASE s \notin New
    <3>1. streams'[s] = streams[s]
      BY <2>2 DEF Construct
    <3> QED
      BY <2>2, <3>1 DEF StatusOf, PositionOf, Current
  <2> QED
    BY <2>1, <2>2
<1>6. lifecycle' = [s \in Sources |-> IF s \in New THEN "live" ELSE lifecycle[s]]
  BY DEF Construct
<1> HIDE DEF New
<1>3. New \in SUBSET {s \in Sources : [r \in Sources |-> StatusOf(r)][s] = "none"}
  BY <1>2 DEF New
<1>4. [r \in Sources |-> StatusOf(r)]'
         = [s \in Sources |-> IF s \in New THEN "opening" ELSE [r \in Sources |-> StatusOf(r)][s]]
  BY <1>2
<1>5. [r \in Sources |-> PositionOf(r)]' = [r \in Sources |-> PositionOf(r)]
  BY <1>2
<1> QED
  BY <1>3, <1>4, <1>5, <1>6 DEF Observed!Observe

(* A write, which no feed has sent yet. *)
LEMMA WriteWrites ==
    ASSUME StreamsInv, NEW c \in Collections, Write(c)
    PROVE  Observed!Written
<1>1. /\ oplog \in Seq(Collections) /\ oplog' = Append(oplog, c)
      /\ UNCHANGED <<streams, lifecycle, emitted>>
  BY DEF Write, subjects, StreamsInv, StreamsTypeOk
<1>2. Len(oplog') = Len(oplog) + 1
  BY <1>1
<1>3. \A s \in Sources : StatusOf(s)' = StatusOf(s) /\ PositionOf(s)' = PositionOf(s)
  BY <1>1 DEF StatusOf, PositionOf, Current
<1> QED
  BY <1>1, <1>2, <1>3 DEF Observed!Written

(* What leaves the streams alone leaves the feeds alone. *)
LEMMA FeedsStay ==
    ASSUME UNCHANGED <<oplog, streams, lifecycle, emitted>>
    PROVE  UNCHANGED Observed!feeds
<1>1. \A s \in Sources : StatusOf(s)' = StatusOf(s) /\ PositionOf(s)' = PositionOf(s)
  BY DEF StatusOf, PositionOf, Current
<1> QED
  BY <1>1 DEF Observed!feeds

LEMMA StreamsStepFeeds ==
    ASSUME StreamsInv, StreamsNext
    PROVE  Observed!Next \/ UNCHANGED Observed!feeds
<1>1. ASSUME NEW c \in Collections, Write(c)
      PROVE  Observed!Next
  BY <1>1, WriteWrites DEF Observed!Next
<1>2. ASSUME NEW s \in Sources, SubjectStep(s)
      PROVE  Observed!Next \/ UNCHANGED Observed!feeds
  <2>1. ASSUME NEW i \in DOMAIN streams[s], Opens(s, i)
        PROVE  Observed!Next
    BY <2>1, OpensStarts DEF Observed!Next
  <2>2. ASSUME NEW i \in DOMAIN streams[s], Passes(s, i) \/ Catches(s, i)
        PROVE  Observed!Next
    BY <2>2, PassesEmits, CatchesSkips DEF Observed!Next
  <2>3. ASSUME NEW i \in DOMAIN streams[s], Breaks(s, i)
        PROVE  Observed!Next
    BY <2>3, BreaksBreaks DEF Observed!Next
  <2>4. ASSUME NEW i \in DOMAIN streams[s], LateClose(s, i)
        PROVE  UNCHANGED Observed!feeds
    BY <2>4, LateCloseUnheard DEF Observed!feeds, LateClose
  <2> QED
    BY <1>2, <2>1, <2>2, <2>3, <2>4 DEF SubjectStep, Opened, Handles
<1> QED
  BY <1>1, <1>2 DEF StreamsNext, ModelStep, DatabaseStep, Sources

(* The stores and tasks that are started observe the collections, or none. *)
LEMMA StartupStepFeeds ==
    ASSUME StreamsInv, Next
    PROVE  Observed!Next \/ UNCHANGED Observed!feeds
<1>1. CASE Connect \/ Register \/ Settle
  BY <1>1, FeedsStay DEF Connect, Register, Settle, feedVars, subjects
<1>2. CASE Pass
  BY <1>2, StreamsStepFeeds DEF Pass
<1>3. CASE Configure
  <2>1. PICK c \in Collections : Construct({c})
    BY <1>3 DEF Configure, StoreObserves
  <2> QED
    BY <1>3, <2>1, ConstructObserves DEF Configure, Observed!Next
<1>4. CASE Start
  <2>1. UNCHANGED <<oplog, emitted>>
    BY <1>4 DEF Start
  <2>2. ASSUME NEW kind \in Kinds, Initiate(kind)
        PROVE  \E S : Construct(S)
    BY <2>2 DEF Initiate
  <2>3. ASSUME NEW t \in AllTasks, RunAfterInit(t)
        PROVE  (\E S : Construct(S)) \/ UNCHANGED <<streams, lifecycle>>
    BY <2>3 DEF RunAfterInit
  <2>4. (\E S : Construct(S)) \/ UNCHANGED <<streams, lifecycle>>
    BY <1>4, <2>2, <2>3 DEF Start
  <2> QED
    BY <2>1, <2>4, ConstructObserves, FeedsStay DEF Observed!Next
<1> QED
  BY <1>1, <1>2, <1>3, <1>4 DEF Next

(* Whatever breaks and is reopened underneath, whoever observes a subject    *)
(* sees one feed: ObservableModel and ObservableDatabase, with their         *)
(* _reconnect, leave out no change from where a stream was opened without    *)
(* announcing an error, repeat none, and announce themselves live after a    *)
(* break just when they are watched anew.                                    *)
THEOREM SubjectsAreFeeds == Spec => Observed!Safety
<1>1. Init => Observed!Init
  <2>1. StreamsInit => \A s \in Sources : StatusOf(s) = "none" /\ PositionOf(s) = 0
    BY DEF StreamsInit, StatusOf, PositionOf
  <2> QED
    BY <2>1 DEF Init, StreamsInit, Observed!Init
<1>2. StreamsInv /\ [Next]_vars => [Observed!Next]_(Observed!feeds)
  <2>1. UNCHANGED vars => UNCHANGED Observed!feeds
    BY FeedsStay DEF vars, feedVars, subjects
  <2> QED
    BY <2>1, StartupStepFeeds
<1> QED
  BY <1>1, <1>2, StreamsInvAlways, PTL DEF Spec, Observed!Safety
===============================================================================
