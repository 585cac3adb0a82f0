---------------------------- MODULE FreshnessProofs ----------------------------
(* A store at rest shows what its query returns, unless a change was lost:   *)
(* the filters are sound outside their blind spots, whatever version of a    *)
(* document they are shown.                                                  *)
EXTENDS StoreProofs

-------------------------------------------------------------------------------
(* The oplog explains the history: what differs between two states of the    *)
(* database was written in between.                                          *)

(* A delete removes its document, a drop all of them. *)
Removed(i, j, d) ==
    \E w \in i .. (j - 1) : oplog[w].op = "drop" \/ (oplog[w].op = "delete" /\ oplog[w].id = d)

Inserted(i, j, d) == \E w \in i .. (j - 1) : oplog[w].op = "insert" /\ oplog[w].id = d

TouchedIn(i, j, d, f) ==
    \E w \in i .. (j - 1) : /\ oplog[w].op \in {"update", "replace"} /\ oplog[w].id = d
                           /\ f \in FieldsOf(oplog[w].touched)

Explained(i, j, d) ==
    /\ history[i][d] # None /\ history[j][d] = None => Removed(i, j, d)
    /\ history[i][d] = None /\ history[j][d] # None => Inserted(i, j, d)
    /\ history[i][d] # None /\ history[j][d] # None =>
          \A f \in Fields : \/ history[i][d][f] = history[j][d][f]
                            \/ Removed(i, j, d)
                            \/ TouchedIn(i, j, d, f)

OplogExplains ==
    \A i, j \in 1 .. Len(history) : i <= j => \A d \in Ids : Explained(i, j, d)

(* A document is gone after a delete, and there after any other write of it. *)
WritesLeave ==
    \A n \in 1 .. Len(oplog) :
       oplog[n].op # "drop" => (history[n + 1][oplog[n].id] = None <=> oplog[n].op = "delete")

(* The change held back was read from the oplog, with a document looked up.  *)
Read(e) == e.n \in 1 .. Len(oplog) /\ \E m \in Lookups(e.n) : e = Event(e.n, m)

(* The config in force turned down some reading of the write. *)
TurnedDown(c, n) == \E m \in Lookups(n) : ~Accepts(c, Event(n, m).ch)

IgnoredRightly ==
    \A x \in lost : x.why = "ignored" => x.n \in 1 .. Len(oplog) /\ TurnedDown(Config, x.n)

(* No change is dropped before the collection is watched. *)
NothingLostUnwatched == stream = "none" => lost = {}

LInv ==
    /\ OplogExplains
    /\ WritesLeave
    /\ pend # None => Read(pend)
    /\ IgnoredRightly
    /\ NothingLostUnwatched

(* What was read of the oplog and the history is still there after a write,  *)
(* which adds one entry to each.                                             *)
LEMMA WriteExtends ==
    ASSUME TypeOk, NEW w \in Writes, NEW db \in Databases, Written(w, db)
    PROVE  /\ Len(oplog) \in Nat /\ Len(history) = Len(oplog) + 1
           /\ Len(oplog') = Len(oplog) + 1 /\ Len(history') = Len(oplog) + 2
           /\ \A n \in 1 .. Len(oplog) : oplog'[n] = oplog[n]
           /\ \A n \in 1 .. Len(oplog) + 1 : history'[n] = history[n]
           /\ oplog'[Len(oplog) + 1] = w /\ history'[Len(oplog) + 2] = db
           /\ Db = history[Len(oplog) + 1]
  BY DEF Written, TypeOk, Db

LEMMA KeptByWrite ==
    ASSUME TypeOk, NEW w \in Writes, NEW db \in Databases, Written(w, db), NEW n \in 1 .. Len(oplog)
    PROVE  /\ Lookups(n) \subseteq Lookups(n)'
           /\ \A m \in Lookups(n) : Event(n, m)' = Event(n, m)
<1>1. /\ Len(oplog) \in Nat /\ Len(oplog') = Len(oplog) + 1 /\ oplog'[n] = oplog[n]
      /\ \A k \in 1 .. Len(oplog) + 1 : history'[k] = history[k]
  BY WriteExtends
<1>2. Lookups(n) \subseteq Lookups(n)'
  BY <1>1 DEF Lookups
<1>3. \A m \in Lookups(n) : m + 1 \in 1 .. Len(oplog) + 1
  BY <1>1 DEF Lookups
<1> QED
  BY <1>1, <1>2, <1>3 DEF Event

(* The last write explains the last difference. *)
LEMMA LastExplained ==
    ASSUME TypeOk, NEW w \in Writes, NEW db \in Databases, Written(w, db), LeadsTo(w, Db, db),
           NEW e \in Ids, NEW N, N = Len(oplog) + 1
    PROVE  Explained(N, N + 1, e)'
<1>1. /\ N \in Nat /\ N + 1 = Len(oplog) + 2
      /\ history'[N] = Db /\ history'[N + 1] = db /\ oplog'[N] = w
  BY WriteExtends
<1>2. N \in N .. (N + 1) - 1
  BY <1>1
<1>3. CASE w = Dropping
  <2>1. db[e] = None
    BY <1>3 DEF LeadsTo, Dropping, Operations
  <2> QED
    BY <1>1, <1>2, <1>3, <2>1 DEF Explained, Removed, Dropping
<1>4. CASE w # Dropping /\ e # w.id
  <2>1. db[e] = Db[e]
    BY <1>4 DEF LeadsTo
  <2> QED
    BY <1>1, <2>1 DEF Explained
<1>5. CASE w # Dropping /\ e = w.id
  <2>1. /\ db[e] = None => w.op = "delete"
        /\ Db[e] = None /\ db[e] # None => w.op = "insert"
        /\ Db[e] # None /\ db[e] # None =>
              /\ w.op \in {"update", "replace"}
              /\ \A f \in Fields : Db[e][f] = db[e][f] \/ f \in FieldsOf(w.touched)
    BY <1>5 DEF LeadsTo
  <2> QED
    BY <1>1, <1>2, <1>5, <2>1 DEF Explained, Removed, Inserted, TouchedIn
<1> QED
  BY <1>3, <1>4, <1>5

(* What some writes explain, and the next one, all of them explain.          *)
LEMMA ExplainedOnwards ==
    ASSUME NEW i \in Nat, NEW j \in Nat, i <= j, NEW d,
           Explained(i, j, d)', Explained(j, j + 1, d)'
    PROVE  Explained(i, j + 1, d)'
<1>1. \A w \in i .. (j - 1) : w \in i .. (j + 1) - 1
  OBVIOUS
<1>2. \A w \in j .. (j + 1) - 1 : w \in i .. (j + 1) - 1
  OBVIOUS
<1>3. /\ Removed(i, j, d)' \/ Removed(j, j + 1, d)' => Removed(i, j + 1, d)'
      /\ Inserted(i, j, d)' \/ Inserted(j, j + 1, d)' => Inserted(i, j + 1, d)'
  BY <1>1, <1>2 DEF Removed, Inserted
<1>4. \A f : TouchedIn(i, j, d, f)' \/ TouchedIn(j, j + 1, d, f)' => TouchedIn(i, j + 1, d, f)'
  BY <1>1, <1>2 DEF TouchedIn
<1> QED
  BY <1>3, <1>4 DEF Explained

(* The oplog goes on explaining the history, and the change held back and    *)
(* those turned down are still what they were.                               *)
LEMMA LWrite == IInv /\ LInv /\ Write => LInv'
<1> SUFFICES ASSUME IInv, LInv, Write PROVE LInv'
  OBVIOUS
<1>1. TypeOk
  BY DEF IInv
<1>2. PICK w \in Writes, db \in Databases : Written(w, db) /\ LeadsTo(w, Db, db)
  BY <1>1, WriteTells
<1>3. UNCHANGED <<pend, applied, lost, stream>>
  BY DEF Write, pipeline
<1>4. /\ Len(oplog) \in Nat /\ Len(history) = Len(oplog) + 1
      /\ Len(oplog') = Len(oplog) + 1 /\ Len(history') = Len(oplog) + 2
      /\ \A n \in 1 .. Len(oplog) : oplog'[n] = oplog[n]
      /\ \A n \in 1 .. Len(history) : history'[n] = history[n]
      /\ oplog'[Len(oplog) + 1] = w /\ history'[Len(oplog) + 2] = db
  BY <1>1, <1>2, WriteExtends
<1>5. OplogExplains'
  <2> SUFFICES ASSUME NEW i \in 1 .. Len(history'), NEW j \in 1 .. Len(history'), i <= j, NEW e \in Ids
               PROVE  Explained(i, j, e)'
    BY DEF OplogExplains
  <2>1. ASSUME NEW k \in 1 .. Len(history), i <= k PROVE Explained(i, k, e)'
    <3>1. i \in 1 .. Len(history) /\ Explained(i, k, e)
      BY <1>4, <2>1 DEF LInv, OplogExplains
    <3>2. history'[i] = history[i] /\ history'[k] = history[k]
      BY <1>4, <2>1, <3>1
    <3>3. \A n \in i .. (k - 1) : oplog'[n] = oplog[n]
      BY <1>4, <2>1, <3>1
    <3>4. (Removed(i, k, e)' <=> Removed(i, k, e)) /\ (Inserted(i, k, e)' <=> Inserted(i, k, e))
      BY <3>3 DEF Removed, Inserted
    <3>5. \A f : TouchedIn(i, k, e, f)' <=> TouchedIn(i, k, e, f)
      BY <3>3 DEF TouchedIn
    <3> QED
      BY <3>1, <3>2, <3>4, <3>5 DEF Explained
  <2>2. CASE j \in 1 .. Len(history)
    BY <2>1, <2>2
  <2>3. CASE i = Len(oplog) + 2 /\ j = Len(oplog) + 2
    BY <2>3 DEF Explained
  <2>4. CASE i \in 1 .. Len(history) /\ j = Len(oplog) + 2
    <3>1. PICK k : k = Len(oplog) + 1
      OBVIOUS
    <3>2. k \in 1 .. Len(history) /\ i <= k /\ j = k + 1 /\ k \in Nat /\ i \in Nat
      BY <1>4, <2>4, <3>1
    <3>3. Explained(i, k, e)'
      BY <2>1, <3>2
    <3>4. Explained(k, k + 1, e)'
      BY <1>1, <1>2, <3>1, LastExplained
    <3>5. Explained(i, k + 1, e)'
      BY <3>2, <3>3, <3>4, ExplainedOnwards
    <3> QED
      BY <3>2, <3>5
  <2> QED
    BY <1>4, <2>2, <2>3, <2>4
<1>6. WritesLeave'
  <2> SUFFICES ASSUME NEW n \in 1 .. Len(oplog')
               PROVE  oplog'[n].op # "drop" =>
                         (history'[n + 1][oplog'[n].id] = None <=> oplog'[n].op = "delete")
    BY DEF WritesLeave
  <2>1. CASE n \in 1 .. Len(oplog)
    <3>1. oplog'[n] = oplog[n] /\ history'[n + 1] = history[n + 1]
      BY <1>4, <2>1
    <3> QED
      BY <2>1, <3>1 DEF LInv, WritesLeave
  <2>2. CASE n = Len(oplog) + 1
    <3>1. w.op # "drop" => (db[w.id] = None <=> w.op = "delete")
      BY <1>2 DEF LeadsTo, Dropping
    <3>2. n + 1 = Len(oplog) + 2
      BY <1>4, <2>2
    <3> QED
      BY <1>4, <2>2, <3>1, <3>2
  <2> QED
    BY <1>4, <2>1, <2>2
<1>7. pend' # None => Read(pend)'
  <2> SUFFICES ASSUME pend # None PROVE Read(pend)'
    BY <1>3
  <2>1. pend.n \in 1 .. Len(oplog) /\ pend.n \in 1 .. Len(oplog')
    BY <1>4 DEF LInv, Read
  <2>2. PICK m \in Lookups(pend.n) : pend = Event(pend.n, m)
    BY DEF LInv, Read
  <2>3. PICK n : n = pend.n
    OBVIOUS
  <2>4. m \in Lookups(n)' /\ Event(n, m)' = Event(n, m)
    BY <1>1, <1>2, <2>1, <2>2, <2>3, KeptByWrite
  <2> QED
    BY <1>3, <2>1, <2>2, <2>3, <2>4 DEF Read
<1>8. IgnoredRightly'
  <2> SUFFICES ASSUME NEW x \in lost, x.why = "ignored"
               PROVE  x.n \in 1 .. Len(oplog') /\ TurnedDown(Config, x.n)'
    BY <1>3 DEF IgnoredRightly
  <2>1. x.n \in 1 .. Len(oplog) /\ x.n \in 1 .. Len(oplog')
    BY <1>4 DEF LInv, IgnoredRightly
  <2>2. PICK m \in Lookups(x.n) : ~Accepts(Config, Event(x.n, m).ch)
    BY DEF LInv, IgnoredRightly, TurnedDown
  <2>3. m \in Lookups(x.n)' /\ Event(x.n, m)' = Event(x.n, m)
    BY <1>1, <1>2, <2>1, <2>2, KeptByWrite
  <2>4. Config' = Config
    BY <1>3 DEF Config, ConfigAt
  <2> QED
    BY <2>1, <2>2, <2>3, <2>4 DEF TurnedDown
<1>9. NothingLostUnwatched'
  BY <1>3 DEF LInv, NothingLostUnwatched
<1> QED
  BY <1>5, <1>6, <1>7, <1>8, <1>9 DEF LInv

(* Nothing is written, held back or dropped at first. *)
LEMMA LInit == Init => LInv
<1> SUFFICES ASSUME Init PROVE LInv
  OBVIOUS
<1>1. oplog = <<>> /\ Len(oplog) = 0 /\ lost = {} /\ pend = None
  BY DEF Init
<1>2. Len(history) = 1
  BY DEF Init
<1>3. OplogExplains
  BY <1>2 DEF OplogExplains, Explained
<1>4. WritesLeave /\ IgnoredRightly /\ NothingLostUnwatched
  BY <1>1 DEF WritesLeave, IgnoredRightly, NothingLostUnwatched
<1> QED
  BY <1>1, <1>3, <1>4 DEF LInv

(* The part of the invariant that is about writes, and what it takes to keep *)
(* the rest.                                                                 *)
LEMMA LKept ==
    ASSUME LInv, UNCHANGED <<oplog, history>>,
           pend' # None => pend' = pend \/ Read(pend'),
           stream' = "none" => lost' = {},
           \A x \in lost' : x.why = "ignored" =>
              x.n \in 1 .. Len(oplog) /\ TurnedDown(Config', x.n)
    PROVE  LInv'
<1>1. OplogExplains' /\ WritesLeave'
  BY DEF LInv, OplogExplains, Explained, Removed, Inserted, TouchedIn, WritesLeave
<1>2. \A n, m : Event(n, m)' = Event(n, m)
  BY DEF Event
<1>3. \A n : Lookups(n)' = Lookups(n)
  BY DEF Lookups
<1>4. pend' # None => Read(pend)'
  BY <1>2, <1>3 DEF LInv, Read
<1>5. IgnoredRightly'
  BY <1>2, <1>3 DEF IgnoredRightly, TurnedDown
<1>6. NothingLostUnwatched'
  BY DEF NothingLostUnwatched
<1> QED
  BY <1>1, <1>4, <1>5, <1>6 DEF LInv

(* An event that the stream hands over was read from the oplog. *)
LEMMA EventRead ==
    ASSUME NEW n \in 1 .. Len(oplog), NEW m \in Lookups(n)
    PROVE  Read(Event(n, m))
<1>1. Event(n, m).n = n
  BY DEF Event
<1> QED
  BY <1>1 DEF Read

(* What the subscriber drops, the config in force turned down. *)
LEMMA LActs ==
    ASSUME IInv, LInv, NEW e, Read(e), Act(e), UNCHANGED <<oplog, history, applied>>,
           stream' # "none", pend' = None \/ pend' = pend
    PROVE  LInv'
<1>1. Config' = Config
  BY DEF Config, ConfigAt
<1>2. CASE Ignore(e)
  <2>1. lost' = lost \cup {Dropped(e.n, "ignored")} /\ ~Accepts(Config, e.ch)
    BY <1>2 DEF Ignore
  <2>2. e.n \in 1 .. Len(oplog) /\ TurnedDown(Config, e.n)
    BY <2>1 DEF Read, TurnedDown
  <2>3. ASSUME NEW x \in lost', x.why = "ignored"
        PROVE  x.n \in 1 .. Len(oplog) /\ TurnedDown(Config', x.n)
    BY <1>1, <2>1, <2>2, <2>3 DEF Dropped, LInv, IgnoredRightly
  <2> QED
    BY <2>3, LKept
<1>3. CASE SendDelete(e)
  <2>1. lost' \subseteq lost
    BY <1>3 DEF SendDelete
  <2> QED
    BY <1>1, <2>1, LKept DEF LInv, IgnoredRightly
<1>4. CASE LoadFor(e)
  <2>1. lost' = {}
    BY <1>4 DEF LoadFor, StartLoad
  <2> QED
    BY <2>1, LKept
<1> QED
  BY <1>2, <1>3, <1>4 DEF Act

(* A change that is read is held back, or dropped or acted upon. *)
LEMMA LDeliver == IInv /\ LInv /\ Deliver => LInv'
<1> SUFFICES ASSUME IInv, LInv, Deliver PROVE LInv'
  OBVIOUS
<1>1. cursor + 1 \in 1 .. Len(oplog) /\ stream' # "none"
  BY DEF IInv, TypeOk, Deliver
<1>2. UNCHANGED <<oplog, history, applied>> /\ Config' = Config
  BY DEF Deliver, database, Config, ConfigAt
<1>3. CASE NoSubscriber
  BY <1>1, <1>2, <1>3, LKept DEF NoSubscriber, LInv, IgnoredRightly
<1>4. ASSUME NEW m \in Lookups(cursor + 1), HoldBack(Event(cursor + 1, m)) PROVE LInv'
  <2>1. pend' = Event(cursor + 1, m) /\ Read(pend')
    BY <1>1, <1>4, EventRead DEF HoldBack
  <2>2. ASSUME NEW x \in lost', x.why = "ignored" PROVE x \in lost
    BY <1>4, <2>2 DEF HoldBack, Dropped
  <2> QED
    BY <1>1, <1>2, <2>1, <2>2, LKept DEF LInv, IgnoredRightly
<1>5. ASSUME NEW m \in Lookups(cursor + 1), PassThrough(Event(cursor + 1, m)) PROVE LInv'
  <2>1. Read(Event(cursor + 1, m))
    BY <1>1, EventRead
  <2> QED
    BY <1>1, <1>2, <1>5, <2>1, LActs DEF PassThrough
<1> QED
  BY <1>3, <1>4, <1>5 DEF Deliver

(* The trailing edge, in a window that only a watched collection opens. *)
LEMMA LWindowEnds == IInv /\ StreamFirst /\ LInv /\ WindowEnds => LInv'
<1> SUFFICES ASSUME IInv, StreamFirst, LInv, WindowEnds PROVE LInv'
  OBVIOUS
<1>1. UNCHANGED <<oplog, history, applied, stream>> /\ Config' = Config /\ stream' # "none"
  BY DEF WindowEnds, database, Config, ConfigAt, StreamFirst, IInv, WindowOk
<1>2. CASE UNCHANGED <<pend, lost>>
  BY <1>1, <1>2, LKept DEF LInv, IgnoredRightly
<1>3. CASE pend # None /\ pend' = None /\ Act(pend)
  BY <1>1, <1>3, LActs DEF LInv
<1> QED
  BY <1>2, <1>3 DEF WindowEnds

(* The stream breaks or is opened again, with a gap on record. *)
LEMMA LStream == LInv /\ (StreamLost \/ StreamCloses \/ StreamOpens) => LInv'
<1> SUFFICES ASSUME LInv, StreamLost \/ StreamCloses \/ StreamOpens PROVE LInv'
  OBVIOUS
<1>1. UNCHANGED <<oplog, history, pend>> /\ Config' = Config /\ stream' # "none"
  BY DEF StreamLost, StreamCloses, Reconnect, StreamOpens, database, pipeline, Config, ConfigAt
<1>2. ASSUME NEW x \in lost', x.why = "ignored" PROVE x \in lost
  BY <1>2 DEF StreamLost, StreamCloses, StreamOpens, Dropped
<1> QED
  BY <1>1, <1>2, LKept DEF LInv, IgnoredRightly

(* A new config turned nothing down yet: the load it starts empties the      *)
(* record, or, when the stream cannot be opened, there was none.             *)
LEMMA LRequests ==
    ASSUME LInv,
           \/ \E c \in TestConfigs : SetConfig(c) \/ SetConfigFails(c)
           \/ Reload
           \/ Destroy
    PROVE  LInv'
<1>1. UNCHANGED <<oplog, history>>
  BY DEF SetConfig, SetConfigFails, Reload, Destroy, database
<1>2. ASSUME NEW k, Restart(k) PROVE LInv'
  BY <1>1, <1>2, LKept DEF Restart, StartLoad
<1>3. ASSUME NEW c \in TestConfigs, SetConfigFails(c) PROVE LInv'
  <2>1. lost = {} /\ lost' = {} /\ pend' = pend
    BY <1>3 DEF SetConfigFails, pipeline, LInv, NothingLostUnwatched
  <2> QED
    BY <1>1, <2>1, LKept
<1>4. CASE Destroy
  <2>1. pend' = None /\ UNCHANGED <<lost, stream, applied>> /\ Config' = Config
    BY <1>4 DEF Destroy, Config, ConfigAt
  <2> QED
    BY <1>1, <2>1, LKept DEF LInv, IgnoredRightly, NothingLostUnwatched
<1> QED
  BY <1>2, <1>3, <1>4 DEF SetConfig, Reload

(* Every step keeps it. *)
LEMMA LNext == IInv /\ StreamFirst /\ LInv /\ [Next]_vars => LInv'
<1> SUFFICES ASSUME IInv, StreamFirst, LInv, [Next]_vars PROVE LInv'
  OBVIOUS
<1>1. ASSUME UNCHANGED <<oplog, history, pend, lost, stream, applied>> PROVE LInv'
  <2>1. Config' = Config
    BY <1>1 DEF Config, ConfigAt
  <2> QED
    BY <1>1, <2>1, LKept DEF LInv, IgnoredRightly, NothingLostUnwatched
<1>2. CASE UNCHANGED vars
  BY <1>1, <1>2 DEF vars
<1>3. ASSUME NEW l \in loads, Answer(l) \/ Resume(l) \/ Fail(l) PROVE LInv'
  BY <1>1, <1>3 DEF Answer, Resume, Fail, database, pipeline
<1> QED
  BY <1>2, <1>3, LWrite, LDeliver, LWindowEnds, LStream, LRequests
     DEF Next, AnswerSome, ResumeSome, FailSome

LEMMA LInvAlways == Spec => []LInv
<1>1. Init => StreamFirst
  BY DEF Init, StreamFirst
<1> QED
  BY <1>1, InvInit, InvNext, StreamFirstNext, LInit, LNext, PTL DEF Spec

-------------------------------------------------------------------------------
(* The filters are sound: when each of the writes since some state of the    *)
(* database was turned down, though the store is not blind to it, the query  *)
(* returns what it returned then.                                            *)

Overlooked(c, n) == TurnedDown(c, n) /\ ~BlindTo(c, oplog[n])

OverlookedSince(c, i) == \A n \in i .. Len(oplog) : Overlooked(c, n)

(* Two databases that look the same to a config. *)
SameView(c, D, E) ==
    /\ Matching(c, D) = Matching(c, E)
    /\ \A d \in Matching(c, D) : /\ Project(c, D[d]) = Project(c, E[d])
                                 /\ c.sort => D[d].p = E[d].p

(* The same documents in the same order have the same first. *)
LEMMA SameFirst ==
    ASSUME NEW c, NEW D, NEW E, NEW S,
           \A d \in S : Project(c, D[d]) = Project(c, E[d]) /\ (c.sort => D[d].p = E[d].p)
    PROVE  First(c, D, S) = First(c, E, S)
<1>1. \A d \in S, e \in S : c.sort => (Before(D, d, e) <=> Before(E, d, e))
  BY DEF Before
<1>2. {d \in S : \A e \in S : IF c.sort THEN Before(D, d, e) ELSE d <= e}
         = {d \in S : \A e \in S : IF c.sort THEN Before(E, d, e) ELSE d <= e}
  BY <1>1
<1> QED
  BY <1>2 DEF First

(* Every store loads the same from them; the store of a single document that *)
(* it finds by its id looks at that document alone.                          *)
LEMMA SameLoaded ==
    ASSUME NEW c, NEW D, NEW E, SameView(c, D, E),
           Type = "document" /\ c.id # None => D[c.id] = E[c.id]
    PROVE  Loaded(c, D) = Loaded(c, E)
<1>1. LoadedCount(c, D) = LoadedCount(c, E)
  BY DEF LoadedCount, SameView
<1>2. LoadedCollection(c, D) = LoadedCollection(c, E)
  <2>1. {<<d, Project(c, D[d])>> : d \in Matching(c, D)} = {<<d, Project(c, E[d])>> : d \in Matching(c, E)}
    BY DEF SameView
  <2>2. c.sort => \A pair \in Matching(c, D) \X Matching(c, D) :
                     Before(D, pair[1], pair[2]) <=> Before(E, pair[1], pair[2])
    BY DEF SameView, Before
  <2>3. c.sort => {pair \in Matching(c, D) \X Matching(c, D) : Before(D, pair[1], pair[2])}
                   = {pair \in Matching(c, E) \X Matching(c, E) : Before(E, pair[1], pair[2])}
    BY <2>2 DEF SameView
  <2> QED
    BY <2>1, <2>3 DEF LoadedCollection
<1>3. ASSUME Type = "document" PROVE LoadedDocument(c, D) = LoadedDocument(c, E)
  <2>1. CASE c.id # None /\ ~c.sort
    <3>1. {d \in {c.id} : D[d] # None} = {d \in {c.id} : E[d] # None}
      BY <1>3, <2>1
    <3>2. First(c, D, {d \in {c.id} : D[d] # None}) = First(c, E, {d \in {c.id} : D[d] # None})
      BY <1>3, <2>1, SameFirst
    <3> QED
      BY <2>1, <3>1, <3>2 DEF LoadedDocument
  <2>2. CASE ~(c.id # None /\ ~c.sort)
    <3>1. First(c, D, Matching(c, D)) = First(c, E, Matching(c, D))
      BY SameFirst DEF SameView
    <3> QED
      BY <2>2, <3>1 DEF LoadedDocument, SameView
  <2> QED
    BY <2>1, <2>2
<1> QED
  BY <1>1, <1>2, <1>3, TypeAssumption DEF Loaded, Types

(* Contents of the database are documents. *)
LEMMA ContentType ==
    ASSUME TypeOk, NEW j \in 1 .. Len(history), NEW d \in Ids
    PROVE  /\ history[j] \in Databases
           /\ history[j][d] # None => history[j][d] \in [v: Int, p: Int]
<1>1. history[j] \in Databases
  BY DEF TypeOk
<1> QED
  BY <1>1, DocumentsAssumption DEF Databases

(* While nothing is deleted a document stays, and what no update or          *)
(* replacement touched stays as it was.                                      *)
LEMMA Stays ==
    ASSUME TypeOk, OplogExplains, NEW i \in 1 .. Len(history), NEW j \in i .. Len(history),
           NEW d \in Ids, history[i][d] # None,
           \A n \in i .. (j - 1) : oplog[n].op \notin {"delete", "drop"}
    PROVE  /\ history[j][d] # None
           /\ \A f \in Fields : history[i][d][f] = history[j][d][f] \/ TouchedIn(i, j, d, f)
<1>1. Explained(i, j, d)
  BY DEF OplogExplains, TypeOk
<1>2. ~Removed(i, j, d)
  BY DEF Removed
<1> QED
  BY <1>1, <1>2 DEF Explained

(* Projections differ in a field they show. *)
LEMMA SameProject ==
    ASSUME NEW c \in Configs, NEW a, NEW b,
           \A f \in Fields : (c.fields = {} \/ f \in FieldsOf(c.fields)) => a[f] = b[f]
    PROVE  Project(c, a) = Project(c, b)
<1>1. FieldsOf(c.fields) \subseteq Fields
  BY DEF Configs, FieldsOf, Paths
<1> QED
  BY <1>1 DEF Project

(* An event tells what was written, and a document from then on. *)
LEMMA EventTells ==
    ASSUME TypeOk, NEW n \in 1 .. Len(oplog), NEW m \in Lookups(n)
    PROVE  LET ch == Event(n, m).ch
           IN  /\ ch.op = oplog[n].op /\ ch.id = oplog[n].id /\ ch.touched = oplog[n].touched
               /\ ch.op # "drop" => ch.doc = history[m + 1][oplog[n].id]
               /\ m \in n .. Len(oplog) /\ m + 1 \in 1 .. Len(history)
               /\ oplog[n].op # "update" => m = n
               /\ oplog[n].op \in Operations \cup {"drop"}
<1>1. oplog[n] \in Writes
  BY DEF TypeOk
<1>2. oplog[n].op \in Operations \cup {"drop"}
  BY <1>1 DEF Writes, Dropping
<1>3. m \in n .. Len(oplog) /\ m + 1 \in 1 .. Len(history) /\ (oplog[n].op # "update" => m = n)
  BY DEF Lookups, TypeOk
<1> QED
  BY <1>2, <1>3 DEF Event

(* What leaves the field alone that the query selects on alters no selection. *)
LEMMA SameMatching ==
    ASSUME TypeOk, OplogExplains, NEW c \in Configs, NEW i \in 1 .. Len(history),
           \A n \in i .. Len(oplog) : /\ oplog[n].op \in {"update", "replace"}
                                      /\ ~Reselects(c, oplog[n])
    PROVE  /\ Matching(c, history[i]) = Matching(c, Db)
           /\ \A d \in Ids : history[i][d] = None <=> Db[d] = None
           /\ \A d \in Matching(c, Db), f \in Fields :
                 history[i][d][f] = Db[d][f] \/ TouchedIn(i, Len(history), d, f)
<1>1. Len(history) = Len(oplog) + 1 /\ Len(oplog) \in Nat
  BY DEF TypeOk
<1>2. Len(history) \in i .. Len(history) /\ Len(history) - 1 = Len(oplog)
  BY <1>1
<1>3. ASSUME NEW d \in Ids, history[i][d] # None
      PROVE  /\ Db[d] # None
             /\ \A f \in Fields : history[i][d][f] = Db[d][f] \/ TouchedIn(i, Len(history), d, f)
  BY <1>2, <1>3, Stays DEF Db
<1>4. ASSUME NEW d \in Ids, history[i][d] = None PROVE Db[d] = None
  <2>1. Explained(i, Len(history), d)
    BY <1>2 DEF OplogExplains
  <2> QED
    BY <1>2, <1>4, <2>1 DEF Explained, Inserted, Db
<1>5. ASSUME NEW d \in Ids, history[i][d] # None, c.v # None PROVE history[i][d].v = Db[d].v
  <2>1. ~TouchedIn(i, Len(history), d, "v")
    BY <1>2, <1>5 DEF TouchedIn, Reselects
  <2> QED
    BY <1>3, <1>5, <2>1 DEF Fields
<1>6. Matching(c, history[i]) = Matching(c, Db)
  BY <1>3, <1>4, <1>5 DEF Matching
<1>7. \A d \in Matching(c, Db) : d \in Ids /\ history[i][d] # None
  BY <1>4 DEF Matching
<1> QED
  BY <1>3, <1>4, <1>6, <1>7

(* A CountStore only sees to what is inserted and deleted. *)
LEMMA CountSound ==
    ASSUME TypeOk, OplogExplains, NEW c \in Configs, NEW i \in 1 .. Len(history),
           Type = "count", OverlookedSince(c, i)
    PROVE  Loaded(c, history[i]) = Loaded(c, Db)
<1>1. ASSUME NEW n \in i .. Len(oplog)
      PROVE  oplog[n].op \in {"update", "replace"} /\ ~Reselects(c, oplog[n])
  <2>1. n \in 1 .. Len(oplog) /\ Overlooked(c, n)
    BY DEF OverlookedSince, TypeOk
  <2>2. PICK m \in Lookups(n) : ~Accepts(c, Event(n, m).ch)
    BY <2>1 DEF Overlooked, TurnedDown
  <2>3. Event(n, m).ch.op = oplog[n].op /\ oplog[n].op \in Operations \cup {"drop"}
    BY <2>1, EventTells
  <2>4. ~CountReloads(Event(n, m).ch)
    BY <2>2 DEF Accepts, PipeFilter, ShouldReload
  <2>5. oplog[n].op \in {"update", "replace"}
    BY <2>1, <2>3, <2>4 DEF CountReloads, Operations, Overlooked, BlindTo
  <2> QED
    BY <2>1, <2>5 DEF Overlooked, BlindTo
<1>2. Matching(c, history[i]) = Matching(c, Db)
  BY <1>1, SameMatching
<1> QED
  BY <1>2 DEF Loaded, LoadedCount

(* A CollectionStore turns down updates that, unless it is blind to them,    *)
(* leave alone what the query selects on, its order, and what it would show: *)
(* no field of its projection, or no document of its query.                  *)
LEMMA CollectionOverlooks ==
    ASSUME TypeOk, NEW c \in Configs, NEW n \in 1 .. Len(oplog),
           Type = "collection", Overlooked(c, n)
    PROVE  /\ oplog[n].op = "update" /\ ~Reselects(c, oplog[n])
           /\ c.sort => "p" \notin FieldsOf(oplog[n].touched)
           /\ c.fields # {} => FieldsOf(c.fields) \cap FieldsOf(oplog[n].touched) = {}
           /\ c.fields = {} => \E m \in n .. Len(oplog) :
                                  ~TestDocument(c, oplog[n].id, history[m + 1][oplog[n].id])
<1>1. PICK m \in Lookups(n) : ~Accepts(c, Event(n, m).ch)
  BY DEF Overlooked, TurnedDown
<1>2. ~CollectionReloads(c, Event(n, m).ch)
  BY <1>1 DEF Accepts, PipeFilter, ShouldReload
<1>3. /\ Event(n, m).ch.op = oplog[n].op /\ Event(n, m).ch.id = oplog[n].id
      /\ Event(n, m).ch.touched = oplog[n].touched /\ m \in n .. Len(oplog)
      /\ Event(n, m).ch.op # "drop" => Event(n, m).ch.doc = history[m + 1][oplog[n].id]
  BY EventTells
<1>4. oplog[n].op = "update" /\ c.keys \cap oplog[n].touched = {}
  BY <1>2, <1>3 DEF CollectionReloads
<1>5. ~Reorders(c, oplog[n]) /\ ~KeyMissed(c, oplog[n]) /\ ~FieldMissed(c, oplog[n])
  BY <1>4 DEF Overlooked, BlindTo
<1>6. ~Reselects(c, oplog[n]) /\ (c.sort => "p" \notin FieldsOf(oplog[n].touched))
  BY <1>4, <1>5 DEF KeyMissed, Reorders
<1>7. /\ c.fields # {} => c.fields \cap oplog[n].touched = {}
      /\ c.fields = {} => ~TestDocument(c, oplog[n].id, history[m + 1][oplog[n].id])
  BY <1>2, <1>3, <1>4 DEF CollectionReloads
<1>8. c.fields # {} => FieldsOf(c.fields) \cap FieldsOf(oplog[n].touched) = {}
  BY <1>5, <1>7 DEF FieldMissed
<1> QED
  BY <1>3, <1>4, <1>6, <1>7, <1>8

(* So it turns down no update of a document of its query that it would show, *)
(* whatever version of it was looked up.                                     *)
LEMMA CollectionSound ==
    ASSUME TypeOk, OplogExplains, NEW c \in Configs, NEW i \in 1 .. Len(history),
           Type = "collection", OverlookedSince(c, i)
    PROVE  Loaded(c, history[i]) = Loaded(c, Db)
<1>1. Len(history) = Len(oplog) + 1 /\ Len(oplog) \in Nat
  BY DEF TypeOk
<1>2. \A n \in i .. Len(oplog) : n \in 1 .. Len(oplog) /\ Overlooked(c, n)
  BY <1>1 DEF OverlookedSince
<1>3. \A n \in i .. Len(oplog) : /\ oplog[n].op \in {"update", "replace"}
                                 /\ ~Reselects(c, oplog[n])
  BY <1>2, CollectionOverlooks
<1>4. /\ Matching(c, history[i]) = Matching(c, Db)
      /\ \A d \in Ids : history[i][d] = None <=> Db[d] = None
      /\ \A d \in Matching(c, Db), f \in Fields :
            history[i][d][f] = Db[d][f] \/ TouchedIn(i, Len(history), d, f)
  BY <1>3, SameMatching
<1>5. ASSUME NEW d \in Matching(c, Db), NEW f \in Fields, c.fields = {} \/ f \in FieldsOf(c.fields)
      PROVE  history[i][d][f] = Db[d][f]
  <2> SUFFICES ASSUME TouchedIn(i, Len(history), d, f) PROVE FALSE
    BY <1>4
  <2>1. PICK n \in i .. Len(oplog) : oplog[n].id = d /\ f \in FieldsOf(oplog[n].touched)
    BY <1>1 DEF TouchedIn
  <2>2. c.fields = {}
    BY <1>2, <1>5, <2>1, CollectionOverlooks
  <2>3. PICK m \in n .. Len(oplog) : ~TestDocument(c, d, history[m + 1][d])
    BY <1>2, <2>1, <2>2, CollectionOverlooks
  <2>4. d \in Ids /\ d \in Matching(c, history[i]) /\ history[i][d] # None
    BY <1>4 DEF Matching
  <2>5. m + 1 \in i .. Len(history) /\ \A k \in i .. (m + 1) - 1 : k \in i .. Len(oplog)
    BY <1>1, <2>3
  <2>6. /\ history[m + 1][d] # None
        /\ history[i][d].v = history[m + 1][d].v \/ TouchedIn(i, m + 1, d, "v")
    BY <1>3, <2>4, <2>5, Stays DEF Fields
  <2>7. c.v # None => ~TouchedIn(i, m + 1, d, "v")
    BY <1>3, <2>5 DEF TouchedIn, Reselects
  <2> QED
    BY <2>3, <2>4, <2>6, <2>7 DEF TestDocument, Matching
<1>6. ASSUME NEW d \in Matching(c, Db), c.sort PROVE history[i][d].p = Db[d].p
  <2>1. ~TouchedIn(i, Len(history), d, "p")
    BY <1>1, <1>2, <1>6, CollectionOverlooks DEF TouchedIn
  <2> QED
    BY <1>4, <2>1 DEF Fields
<1>7. \A d \in Matching(c, Db) : Project(c, history[i][d]) = Project(c, Db[d])
  BY <1>5, SameProject
<1>8. SameView(c, history[i], Db)
  BY <1>4, <1>6, <1>7 DEF SameView
<1> QED
  BY <1>8, SameLoaded

(* A DocumentStore, unless it is blind to them, turns down no deletion and   *)
(* no write of the document it asks for by its id; an update that touches    *)
(* nothing it shows; and, when it asks for the first document of a query in  *)
(* no particular order, what is not of its query when it is looked up.       *)
LEMMA DocumentOverlooks ==
    ASSUME TypeOk, NEW c \in Configs, NEW n \in 1 .. Len(oplog),
           Type = "document", Overlooked(c, n)
    PROVE  LET w == oplog[n]
               At(m) == history[m + 1][w.id]
               Hidden == c.fields # {} /\ FieldsOf(c.fields) \cap FieldsOf(w.touched) = {}
           IN  /\ w.op \notin {"delete", "drop"}
               /\ c.id # None => w.id # c.id
               /\ c.id = None =>
                    /\ w.op \in {"update", "replace"} => ~Reselects(c, w)
                    /\ c.sort => w.op = "update" /\ "p" \notin FieldsOf(w.touched) /\ Hidden
                    /\ ~c.sort /\ w.op # "update" => ~TestDocument(c, w.id, At(n))
                    /\ ~c.sort /\ w.op = "update" =>
                          Hidden \/ \E m \in n .. Len(oplog) : ~TestDocument(c, w.id, At(m))
<1>1. PICK m \in Lookups(n) : ~Accepts(c, Event(n, m).ch)
  BY DEF Overlooked, TurnedDown
<1>2. /\ Event(n, m).ch.op = oplog[n].op /\ Event(n, m).ch.id = oplog[n].id
      /\ Event(n, m).ch.touched = oplog[n].touched /\ m \in n .. Len(oplog)
      /\ Event(n, m).ch.op # "drop" => Event(n, m).ch.doc = history[m + 1][oplog[n].id]
      /\ oplog[n].op # "update" => m = n
      /\ oplog[n].op \in Operations \cup {"drop"}
  BY EventTells
<1>3. ~PipeFilter(c, Event(n, m).ch) \/ ~DocumentReloads(c, Event(n, m).ch)
  BY <1>1 DEF Accepts, ShouldReload
<1>4. oplog[n].op # "delete" /\ oplog[n].op # "drop"
  <2>1. oplog[n].op # "delete"
    BY <1>2, <1>3 DEF PipeFilter, DocumentReloads
  <2>2. oplog[n].op # "drop"
    BY DEF Overlooked, BlindTo
  <2> QED
    BY <2>1, <2>2
<1>5. ASSUME c.id # None, oplog[n].id = c.id PROVE FALSE
  <2>1. oplog[n].op # "insert"
    BY <1>5 DEF Overlooked, BlindTo
  <2> QED
    BY <1>2, <1>3, <1>4, <1>5, <2>1 DEF PipeFilter, DocumentReloads, Operations
<1>6. ASSUME c.id = None
      PROVE  /\ oplog[n].op \in {"update", "replace"} => ~Reselects(c, oplog[n])
             /\ c.sort /\ oplog[n].op \in {"update", "replace"} =>
                   "p" \notin FieldsOf(oplog[n].touched)
             /\ oplog[n].op = "update" /\ c.fields \cap oplog[n].touched = {} =>
                   FieldsOf(c.fields) \cap FieldsOf(oplog[n].touched) = {}
  BY <1>6 DEF Overlooked, BlindTo, Reorders, FieldMissed
<1>7. ASSUME c.id = None, c.sort
      PROVE  oplog[n].op = "update" /\ c.fields # {} /\ c.fields \cap oplog[n].touched = {}
  BY <1>2, <1>3, <1>4, <1>7 DEF PipeFilter, DocumentReloads, Operations
<1>8. ASSUME c.id = None, ~c.sort, oplog[n].op # "update"
      PROVE  ~TestDocument(c, oplog[n].id, history[n + 1][oplog[n].id])
  BY <1>2, <1>3, <1>4, <1>8 DEF PipeFilter, DocumentReloads, Operations
<1>9. ASSUME c.id = None, ~c.sort, oplog[n].op = "update"
      PROVE  \/ c.fields # {} /\ c.fields \cap oplog[n].touched = {}
             \/ ~TestDocument(c, oplog[n].id, history[m + 1][oplog[n].id])
  BY <1>2, <1>3, <1>4, <1>9 DEF PipeFilter, DocumentReloads
<1> QED
  BY <1>2, <1>4, <1>5, <1>6, <1>7, <1>8, <1>9

(* A document nobody wrote is what it was. *)
LEMMA Unwritten ==
    ASSUME TypeOk, OplogExplains, NEW i \in 1 .. Len(history), NEW d \in Ids,
           \A n \in i .. Len(oplog) : oplog[n].id # d /\ oplog[n].op # "drop"
    PROVE  history[i][d] = Db[d]
<1>1. Len(history) = Len(oplog) + 1 /\ Len(oplog) \in Nat /\ Len(history) - 1 = Len(oplog)
  BY DEF TypeOk
<1>2. Explained(i, Len(history), d)
  BY <1>1 DEF OplogExplains
<1>3. /\ ~Removed(i, Len(history), d) /\ ~Inserted(i, Len(history), d)
      /\ \A f : ~TouchedIn(i, Len(history), d, f)
  BY <1>1 DEF Removed, Inserted, TouchedIn
<1>4. history[i][d] = None <=> Db[d] = None
  BY <1>2, <1>3 DEF Explained, Db
<1>5. CASE history[i][d] # None
  <2>1. history[i][d].v = Db[d].v /\ history[i][d].p = Db[d].p
    BY <1>2, <1>3, <1>4, <1>5 DEF Explained, Db, Fields
  <2>2. history[i][d] \in [v: Int, p: Int] /\ Db[d] \in [v: Int, p: Int]
    BY <1>1, <1>4, <1>5, ContentType DEF Db
  <2> QED
    BY <2>1, <2>2
<1> QED
  BY <1>4, <1>5

(* A document that is there stays, and stays in or out of the query. *)
LEMMA StaysSelected ==
    ASSUME TypeOk, OplogExplains, NEW c \in Configs, NEW i \in 1 .. Len(history),
           \A n \in i .. Len(oplog) :
              /\ oplog[n].op \notin {"delete", "drop"}
              /\ oplog[n].op \in {"update", "replace"} => ~Reselects(c, oplog[n]),
           NEW k \in i .. Len(history), NEW j \in k .. Len(history), NEW d \in Ids,
           history[k][d] # None
    PROVE  history[j][d] # None /\ (c.v # None => history[j][d].v = history[k][d].v)
<1>1. Len(history) = Len(oplog) + 1 /\ Len(oplog) \in Nat /\ k \in 1 .. Len(history)
  BY DEF TypeOk
<1>2. \A n \in k .. (j - 1) : n \in i .. Len(oplog)
  BY <1>1
<1>3. /\ history[j][d] # None
      /\ history[k][d].v = history[j][d].v \/ TouchedIn(k, j, d, "v")
  BY <1>1, <1>2, Stays DEF Fields
<1>4. c.v # None => ~TouchedIn(k, j, d, "v")
  BY <1>2 DEF TouchedIn, Reselects
<1> QED
  BY <1>3, <1>4

(* The first document of a query in no particular order. *)
LEMMA FirstOfQuerySound ==
    ASSUME TypeOk, OplogExplains, WritesLeave, NEW c \in Configs, NEW i \in 1 .. Len(history),
           Type = "document", OverlookedSince(c, i), c.id = None, ~c.sort
    PROVE  SameView(c, history[i], Db)
<1>1. Len(history) = Len(oplog) + 1 /\ Len(oplog) \in Nat /\ Len(history) - 1 = Len(oplog)
  BY DEF TypeOk
<1>2. \A n \in i .. Len(oplog) : n \in 1 .. Len(oplog) /\ n + 1 \in i .. Len(history) /\ Overlooked(c, n)
  BY <1>1 DEF OverlookedSince
<1>3. \A n \in i .. Len(oplog) :
         /\ oplog[n].op \notin {"delete", "drop"}
         /\ oplog[n].op \in {"update", "replace"} => ~Reselects(c, oplog[n])
  BY <1>2, DocumentOverlooks
<1>4. ASSUME NEW d \in Ids, NEW k \in i .. Len(history), history[k][d] # None
      PROVE  Db[d] # None /\ (c.v # None => Db[d].v = history[k][d].v)
  BY <1>1, <1>3, <1>4, StaysSelected DEF Db
<1>5. ASSUME NEW d \in Ids, NEW k \in i .. Len(history), history[i][d] # None
      PROVE  history[k][d] # None /\ (c.v # None => history[k][d].v = history[i][d].v)
  BY <1>1, <1>3, <1>5, StaysSelected
<1>6. ASSUME NEW d \in Matching(c, Db), history[i][d] = None PROVE FALSE
  <2>1. d \in Ids /\ Db[d] # None /\ (c.v # None => Db[d].v = c.v)
    BY DEF Matching
  <2>2. Explained(i, Len(history), d)
    BY <1>1, <2>1 DEF OplogExplains
  <2>3. PICK n \in i .. Len(oplog) : oplog[n].id = d /\ oplog[n].op = "insert"
    BY <1>1, <1>6, <2>1, <2>2 DEF Explained, Inserted, Db
  <2>4. history[n + 1][d] # None
    BY <1>2, <1>3, <2>3 DEF WritesLeave
  <2>5. ~TestDocument(c, d, history[n + 1][d])
    BY <1>2, <2>3, DocumentOverlooks
  <2>6. c.v # None => Db[d].v = history[n + 1][d].v
    BY <1>2, <1>4, <2>1, <2>4
  <2> QED
    BY <2>1, <2>4, <2>5, <2>6 DEF TestDocument
<1>7. Matching(c, history[i]) = Matching(c, Db)
  <2>1. ASSUME NEW d \in Matching(c, history[i]) PROVE d \in Matching(c, Db)
    <3>1. i \in i .. Len(history)
      BY <1>1
    <3> QED
      BY <1>4, <3>1 DEF Matching
  <2>2. ASSUME NEW d \in Matching(c, Db) PROVE d \in Matching(c, history[i])
    <3>1. d \in Ids /\ history[i][d] # None /\ Len(history) \in i .. Len(history)
      BY <1>1, <1>6 DEF Matching
    <3> QED
      BY <1>5, <3>1 DEF Matching, Db
  <2> QED
    BY <2>1, <2>2
<1>8. ASSUME NEW d \in Matching(c, Db), NEW f \in Fields, c.fields = {} \/ f \in FieldsOf(c.fields)
      PROVE  history[i][d][f] = Db[d][f]
  <2>1. d \in Ids /\ history[i][d] # None /\ c.v \in {None, history[i][d].v}
    BY <1>7 DEF Matching
  <2>2. ASSUME NEW m \in i .. Len(oplog) PROVE TestDocument(c, d, history[m + 1][d])
    <3>1. history[m + 1][d] # None /\ (c.v # None => history[m + 1][d].v = history[i][d].v)
      BY <1>2, <1>5, <2>1
    <3> QED
      BY <2>1, <3>1 DEF TestDocument
  <2> SUFFICES ASSUME TouchedIn(i, Len(history), d, f) PROVE FALSE
    <3>1. Len(history) \in i .. Len(history) /\ \A n \in i .. (Len(history) - 1) : n \in i .. Len(oplog)
      BY <1>1
    <3> QED
      BY <1>3, <2>1, <3>1, Stays DEF Db
  <2>3. PICK n \in i .. Len(oplog) :
           /\ oplog[n].id = d /\ oplog[n].op \in {"update", "replace"}
           /\ f \in FieldsOf(oplog[n].touched)
    BY <1>1 DEF TouchedIn
  <2>4. CASE oplog[n].op = "replace"
    <3>1. ~TestDocument(c, d, history[n + 1][d])
      BY <1>2, <2>3, <2>4, DocumentOverlooks
    <3> QED
      BY <2>2, <3>1
  <2>5. CASE oplog[n].op = "update"
    <3>1. ~(c.fields # {} /\ FieldsOf(c.fields) \cap FieldsOf(oplog[n].touched) = {})
      BY <1>8, <2>3
    <3>2. PICK m \in n .. Len(oplog) : ~TestDocument(c, d, history[m + 1][d])
      BY <1>2, <2>3, <2>5, <3>1, DocumentOverlooks
    <3>3. m \in i .. Len(oplog)
      BY <1>1
    <3> QED
      BY <2>2, <3>2, <3>3
  <2> QED
    BY <2>3, <2>4, <2>5
<1>9. \A d \in Matching(c, Db) : Project(c, history[i][d]) = Project(c, Db[d])
  BY <1>8, SameProject
<1> QED
  BY <1>7, <1>9 DEF SameView

(* The first document of a query, in the order of p. *)
LEMMA FirstInOrderSound ==
    ASSUME TypeOk, OplogExplains, NEW c \in Configs, NEW i \in 1 .. Len(history),
           Type = "document", OverlookedSince(c, i), c.id = None, c.sort
    PROVE  SameView(c, history[i], Db)
<1>1. Len(history) = Len(oplog) + 1 /\ Len(oplog) \in Nat /\ Len(history) - 1 = Len(oplog)
  BY DEF TypeOk
<1>2. \A n \in i .. Len(oplog) : n \in 1 .. Len(oplog) /\ Overlooked(c, n)
  BY <1>1 DEF OverlookedSince
<1>3. \A n \in i .. Len(oplog) :
         /\ oplog[n].op = "update" /\ ~Reselects(c, oplog[n])
         /\ "p" \notin FieldsOf(oplog[n].touched)
         /\ c.fields # {} /\ FieldsOf(c.fields) \cap FieldsOf(oplog[n].touched) = {}
  BY <1>2, DocumentOverlooks
<1>4. /\ Matching(c, history[i]) = Matching(c, Db)
      /\ \A d \in Matching(c, Db), f \in Fields :
            history[i][d][f] = Db[d][f] \/ TouchedIn(i, Len(history), d, f)
  BY <1>3, SameMatching
<1>5. \A d : ~TouchedIn(i, Len(history), d, "p")
  BY <1>1, <1>3 DEF TouchedIn
<1>6. ASSUME NEW d \in Matching(c, Db), NEW f \in Fields, c.fields = {} \/ f \in FieldsOf(c.fields)
      PROVE  history[i][d][f] = Db[d][f]
  <2>1. ~TouchedIn(i, Len(history), d, f)
    <3> SUFFICES ASSUME TouchedIn(i, Len(history), d, f) PROVE FALSE
      OBVIOUS
    <3>1. PICK n \in i .. Len(oplog) : f \in FieldsOf(oplog[n].touched)
      BY <1>1 DEF TouchedIn
    <3> QED
      BY <1>3, <1>6, <3>1
  <2> QED
    BY <1>4, <2>1
<1>7. \A d \in Matching(c, Db) : Project(c, history[i][d]) = Project(c, Db[d])
  BY <1>6, SameProject
<1>8. \A d \in Matching(c, Db) : history[i][d].p = Db[d].p
  BY <1>4, <1>5 DEF Fields
<1> QED
  BY <1>4, <1>7, <1>8 DEF SameView

(* A DocumentStore: by id, in order, or whichever comes first. *)
LEMMA DocumentSound ==
    ASSUME TypeOk, OplogExplains, WritesLeave, NEW c \in Configs, NEW i \in 1 .. Len(history),
           Type = "document", OverlookedSince(c, i)
    PROVE  Loaded(c, history[i]) = Loaded(c, Db)
<1>1. CASE c.id = None
  BY <1>1, FirstOfQuerySound, FirstInOrderSound, SameLoaded
<1>2. CASE c.id # None
  <2>1. c.id \in Ids
    BY <1>2 DEF Configs
  <2>2. \A n \in i .. Len(oplog) : n \in 1 .. Len(oplog) /\ Overlooked(c, n)
    BY DEF OverlookedSince, TypeOk
  <2>3. \A n \in i .. Len(oplog) : oplog[n].id # c.id /\ oplog[n].op # "drop"
    BY <1>2, <2>2, DocumentOverlooks
  <2>4. history[i][c.id] = Db[c.id]
    BY <2>1, <2>3, Unwritten
  <2>5. SameView(c, history[i], Db)
    BY <1>2, <2>4 DEF SameView, Matching
  <2> QED
    BY <2>4, <2>5, SameLoaded
<1> QED
  BY <1>1, <1>2

(* When every write since the state i of the database was overlooked, the    *)
(* query returns what it returned in i.                                      *)
LEMMA OverlookedSound ==
    ASSUME TypeOk, OplogExplains, WritesLeave, NEW c \in Configs, NEW i \in 1 .. Len(history),
           OverlookedSince(c, i)
    PROVE  Loaded(c, history[i]) = Loaded(c, Db)
  BY CountSound, CollectionSound, DocumentSound, TypeAssumption DEF Types

FilterMissesNothing ==
    \A c \in Configs, i \in 1 .. Len(history) :
       OverlookedSince(c, i) => Loaded(c, history[i]) = Loaded(c, Db)

(* Outside its blind spots no kind of store turns down what it would show:   *)
(* however often the documents were written since a state of the database,   *)
(* and whatever versions of them the server found for the changes, when the  *)
(* filters turned all of these down the query returns what it returned then. *)
THEOREM FiltersSound == Spec => []FilterMissesNothing
<1>1. TypeOk /\ LInv => FilterMissesNothing
  BY OverlookedSound DEF LInv, FilterMissesNothing
<1> QED
  BY <1>1, TypeCorrect, LInvAlways, PTL

(* The change of a write from db to after is turned down although it alters  *)
(* the result.                                                               *)
Misses(c, ch, db, after) == ~Accepts(c, ch) /\ Loaded(c, after) # Loaded(c, db)

(* The change of an update reported by the names t. *)
Update(d, new, t) == [op |-> "update", id |-> d, touched |-> t, doc |-> new]

Only(d, x) == [k \in Ids |-> IF k = d THEN x ELSE None]

(* What is loaded of a database of one document. *)
LEMMA OneDocument ==
    ASSUME NEW d \in Ids, NEW x \in Documents, NEW c \in Configs, ~c.sort,
           c.id \in {None, d}, c.v \in {None, x.v}
    PROVE  /\ LoadedCount(c, Only(d, x)) = 1
           /\ <<d, Project(c, x)>> \in LoadedCollection(c, Only(d, x)).docs
           /\ LoadedDocument(c, Only(d, x)) = {<<d, Project(c, x)>>}
<1> DEFINE db == Only(d, x)
<1>1. x # None /\ d \in Int /\ db[d] = x
  BY NoneAssumption, IdsAssumption DEF Only
<1>2. Matching(c, db) = {d}
  BY <1>1 DEF Matching, Only
<1>3. {k \in {c.id} : db[k] # None} = {d} \/ c.id = None
  BY <1>1
<1>4. First(c, db, {d}) = {<<d, Project(c, x)>>}
  BY <1>1 DEF First, Before
<1>5. LoadedDocument(c, db) = First(c, db, {d})
  BY <1>2, <1>3 DEF LoadedDocument
<1>6. LoadedCount(c, db) = 1
  BY <1>2, FS_Singleton DEF LoadedCount
<1>7. <<d, Project(c, x)>> \in LoadedCollection(c, db).docs
  BY <1>1, <1>2 DEF LoadedCollection
<1> QED
  BY <1>4, <1>5, <1>6, <1>7

(* What is loaded when nothing matches. *)
LEMMA NoDocument ==
    ASSUME NEW c, NEW db, Matching(c, db) = {}, c.id = None \/ db[c.id] = None
    PROVE  /\ LoadedCount(c, db) = 0 /\ LoadedDocument(c, db) = Nothing
           /\ LoadedCollection(c, db).docs = {}
<1>1. \A S : S = {} => First(c, db, S) = {}
  BY DEF First
<1>2. c.id # None => {d \in {c.id} : db[d] # None} = {}
  OBVIOUS
<1>3. LoadedDocument(c, db) = Nothing
  BY <1>1, <1>2 DEF LoadedDocument, Nothing
<1>4. LoadedCount(c, db) = 0
  BY FS_EmptySet DEF LoadedCount
<1>5. LoadedCollection(c, db).docs = {}
  BY DEF LoadedCollection
<1> QED
  BY <1>3, <1>4, <1>5

(* Any store overlooks the update that moves the only document of its query  *)
(* out of it, a collection store when the query does not name the field as   *)
(* the server does.                                                          *)
LEMMA BlindToReselection ==
    ASSUME NEW d \in Ids, NEW x \in Documents, NEW y \in Documents, x.v # y.v,
           NEW keys \in SUBSET ({"v"} \X Names), NEW t \in SUBSET Paths, keys \cap t = {}
    PROVE  \E c \in Configs : /\ c.keys = keys /\ Only(d, x) \in Databases
                             /\ Misses(c, Update(d, y, t), Only(d, x), Only(d, y))
<1> DEFINE c == [id |-> None, v |-> x.v, keys |-> keys, fields |-> {}, sort |-> FALSE]
<1>1. x.v \in Int /\ x.v # None /\ x # None /\ y # None /\ d # None
  BY DocumentsAssumption, NoneAssumption, IdsAssumption
<1>2. c \in Configs /\ Only(d, x) \in Databases
  BY <1>1 DEF Configs, Databases, Only
<1>3. ~TestDocument(c, d, y)
  BY <1>1 DEF TestDocument
<1>4. ~Accepts(c, Update(d, y, t))
  BY <1>1, <1>3, TypeAssumption
     DEF Update, Accepts, PipeFilter, ShouldReload, CountReloads, CollectionReloads,
         DocumentReloads, Types
<1>5. Matching(c, Only(d, y)) = {}
  BY <1>1 DEF Matching, Only
<1>6. /\ LoadedCount(c, Only(d, y)) = 0 /\ LoadedDocument(c, Only(d, y)) = Nothing
      /\ LoadedCollection(c, Only(d, y)).docs = {}
  BY <1>5, NoDocument
<1>7. /\ LoadedCount(c, Only(d, x)) = 1
      /\ LoadedDocument(c, Only(d, x)) # Nothing
      /\ LoadedCollection(c, Only(d, x)).docs # {}
  <2>1. ~c.sort /\ c.id \in {None, d} /\ c.v \in {None, x.v}
    OBVIOUS
  <2> HIDE DEF c
  <2>2. /\ LoadedCount(c, Only(d, x)) = 1
        /\ <<d, Project(c, x)>> \in LoadedCollection(c, Only(d, x)).docs
        /\ LoadedDocument(c, Only(d, x)) = {<<d, Project(c, x)>>}
    BY <1>2, <2>1, OneDocument
  <2> QED
    BY <2>2 DEF Nothing
<1>8. Loaded(c, Only(d, y)) # Loaded(c, Only(d, x))
  <2> HIDE DEF c
  <2>1. LoadedCollection(c, Only(d, y)) # LoadedCollection(c, Only(d, x))
    BY <1>6, <1>7
  <2> QED
    BY <1>6, <1>7, <2>1, TypeAssumption DEF Loaded, Types
<1> QED
  BY <1>2, <1>4, <1>8 DEF Misses

(* A projection overlooks the update of what it shows under another name. *)
LEMMA BlindToPart ==
    ASSUME Type \in {"collection", "document"},
           NEW d \in Ids, NEW x \in Documents, NEW y \in Documents, x.p # y.p,
           NEW a \in Names, NEW b \in Names, a # b
    PROVE  \E c \in Configs : /\ Only(d, x) \in Databases
                             /\ Misses(c, Update(d, y, {<<"p", b>>}), Only(d, x), Only(d, y))
<1> DEFINE c == [id |-> None, v |-> None, keys |-> {}, fields |-> {<<"p", a>>}, sort |-> FALSE]
<1>1. x # None /\ y # None /\ d # None
  BY NoneAssumption, IdsAssumption
<1>2. c \in Configs /\ Only(d, x) \in Databases
  BY DEF Configs, Databases, Only, Paths, Fields
<1>3. ~Accepts(c, Update(d, y, {<<"p", b>>}))
  <2>1. <<"p", a>> # <<"p", b>> /\ c.fields = {<<"p", a>>}
    OBVIOUS
  <2>2. c.fields \cap {<<"p", b>>} = {} /\ c.fields # {}
    BY <2>1, Zenon
  <2> QED
    BY <1>1, <2>2 DEF Update, Accepts, ShouldReload, CollectionReloads, DocumentReloads
<1>4. FieldsOf(c.fields) = {"p"}
  BY DEF FieldsOf
<1>5. Project(c, x) # Project(c, y)
  <2>1. Project(c, x)["p"] = x.p /\ Project(c, y)["p"] = y.p
    BY <1>4 DEF Project
  <2> QED
    BY <2>1
<1>6. /\ <<d, Project(c, x)>> \in LoadedCollection(c, Only(d, x)).docs
      /\ LoadedDocument(c, Only(d, x)) = {<<d, Project(c, x)>>}
      /\ LoadedDocument(c, Only(d, y)) = {<<d, Project(c, y)>>}
  BY <1>2, OneDocument
<1>7. <<d, Project(c, x)>> \notin LoadedCollection(c, Only(d, y)).docs
  <2>1. \A k \in Matching(c, Only(d, y)) : k = d /\ Only(d, y)[k] = y
    BY DEF Matching, Only
  <2> HIDE DEF c
  <2> SUFFICES ASSUME NEW k \in Matching(c, Only(d, y)),
                      <<d, Project(c, x)>> = <<k, Project(c, Only(d, y)[k])>>
               PROVE  FALSE
    BY DEF LoadedCollection
  <2> QED
    BY <1>5, <2>1
<1>8. Loaded(c, Only(d, y)) # Loaded(c, Only(d, x))
  <2> HIDE DEF c
  <2>1. LoadedCollection(c, Only(d, y)) # LoadedCollection(c, Only(d, x))
    BY <1>6, <1>7
  <2>2. {<<d, Project(c, x)>>} # {<<d, Project(c, y)>>}
    <3>1. <<d, Project(c, x)>> # <<d, Project(c, y)>>
      BY <1>5
    <3> QED
      BY <3>1, Zenon
  <2> QED
    BY <1>6, <2>1, <2>2 DEF Loaded
<1> QED
  BY <1>2, <1>3, <1>8 DEF Misses

(* A document store overlooks the insertion of the document it waits for. *)
LEMMA BlindToInsert ==
    ASSUME Type = "document", NEW d \in Ids, NEW x \in Documents
    PROVE  \E c \in Configs :
              /\ Only(d, None) \in Databases
              /\ Misses(c, [op |-> "insert", id |-> d, touched |-> {}, doc |-> x],
                        Only(d, None), Only(d, x))
<1> DEFINE c  == [id |-> d, v |-> None, keys |-> {}, fields |-> {}, sort |-> FALSE]
           ch == [op |-> "insert", id |-> d, touched |-> {}, doc |-> x]
<1>1. d # None
  BY NoneAssumption, IdsAssumption
<1>2. c \in Configs /\ Only(d, None) \in Databases
  BY DEF Configs, Databases, Only
<1>3. ~Accepts(c, ch)
  BY <1>1 DEF Accepts, ShouldReload, DocumentReloads
<1>4. LoadedDocument(c, Only(d, x)) # Nothing
  <2>1. ~c.sort /\ c.id = d /\ c.v = None
    OBVIOUS
  <2> HIDE DEF c
  <2>2. LoadedDocument(c, Only(d, x)) = {<<d, Project(c, x)>>}
    BY <1>2, <2>1, OneDocument
  <2> QED
    BY <2>2 DEF Nothing
<1>5. LoadedDocument(c, Only(d, None)) = Nothing
  <2>1. Matching(c, Only(d, None)) = {} /\ Only(d, None)[d] = None
    BY DEF Matching, Only
  <2> QED
    BY <2>1, NoDocument
<1> QED
  BY <1>2, <1>3, <1>4, <1>5 DEF Misses, Loaded

(* A count store and a document store overlook the drop of the collection. *)
LEMMA BlindToDrop ==
    ASSUME Type \in {"count", "document"}, NEW d \in Ids, NEW x \in Documents
    PROVE  \E c \in Configs : /\ Only(d, x) \in Databases
                             /\ Misses(c, Drop, Only(d, x), Only(d, None))
<1> DEFINE c == [id |-> None, v |-> None, keys |-> {}, fields |-> {}, sort |-> FALSE]
<1>1. c \in Configs /\ Only(d, x) \in Databases
  BY DEF Configs, Databases, Only
<1>2. ~Accepts(c, Drop)
  BY DEF Drop, Accepts, ShouldReload, CountReloads, DocumentReloads
<1>3. LoadedCount(c, Only(d, x)) = 1 /\ LoadedDocument(c, Only(d, x)) # Nothing
  <2>1. ~c.sort /\ c.id = None /\ c.v = None
    OBVIOUS
  <2> HIDE DEF c
  <2>2. LoadedCount(c, Only(d, x)) = 1 /\ LoadedDocument(c, Only(d, x)) = {<<d, Project(c, x)>>}
    BY <1>1, <2>1, OneDocument
  <2> QED
    BY <2>2 DEF Nothing
<1>4. LoadedCount(c, Only(d, None)) = 0 /\ LoadedDocument(c, Only(d, None)) = Nothing
  <2>1. Matching(c, Only(d, None)) = {}
    BY DEF Matching, Only
  <2> QED
    BY <2>1, NoDocument
<1> QED
  BY <1>1, <1>2, <1>3, <1>4 DEF Misses, Loaded

(* A sorted query is blind to the update that moves a document down its      *)
(* order, when the projection leaves the sort key out.                       *)
LEMMA BlindToOrder ==
    ASSUME Type \in {"collection", "document"}, NEW d \in Ids, NEW e \in Ids, d < e,
           NEW x \in Documents, NEW y \in Documents, x.p < y.p, NEW b \in Names
    PROVE  \E c \in Configs, db \in Databases :
              /\ db[d] = x
              /\ Misses(c, Update(d, y, {<<"p", b>>}), db, [db EXCEPT ![d] = y])
<1> DEFINE c  == [id |-> None, v |-> None, keys |-> {}, fields |-> {<<"v", b>>}, sort |-> TRUE]
           db == [k \in Ids |-> IF k \in {d, e} THEN x ELSE None]
           ch == Update(d, y, {<<"p", b>>})
           after == [db EXCEPT ![d] = y]
<1>1. x.p \in Int /\ y.p \in Int /\ x # None /\ y # None /\ d \in Int /\ e \in Int
  BY DocumentsAssumption, NoneAssumption, IdsAssumption
<1>2. c \in Configs /\ db \in Databases /\ db[d] = x
  BY DEF Configs, Databases, Fields, Paths
<1>3. c.fields \cap {<<"p", b>>} = {}
  OBVIOUS
<1>4. ~Accepts(c, ch)
  BY <1>1, <1>3, NoneAssumption
     DEF Update, Accepts, ShouldReload, CollectionReloads, DocumentReloads
<1>5. Matching(c, db) = {d, e} /\ Matching(c, after) = {d, e}
  BY <1>1 DEF Matching
<1>6. after[d] = y /\ after[e] = x /\ db[d] = x /\ db[e] = x
  BY <1>1
<1>7. Before(db, d, e) /\ ~Before(after, d, e)
  BY <1>1, <1>6 DEF Before
<1>8. CASE Type = "collection"
  <2>1. <<d, e>> \in LoadedCollection(c, db).order
    BY <1>5, <1>7 DEF LoadedCollection
  <2>2. <<d, e>> \notin LoadedCollection(c, after).order
    BY <1>5, <1>7 DEF LoadedCollection
  <2>3. Loaded(c, after) # Loaded(c, db)
    BY <1>8, <2>1, <2>2 DEF Loaded
  <2> QED
    BY <1>2, <1>4, <2>3 DEF Misses
<1>9. CASE Type = "document"
  <2>1. <<d, Project(c, db[d])>> \in First(c, db, {d, e})
    BY <1>1, <1>6, <1>7 DEF First, Before
  <2>2. \A r : <<d, r>> \notin First(c, after, {d, e})
    BY <1>7 DEF First
  <2>3. First(c, after, {d, e}) # First(c, db, {d, e})
    BY <2>1, <2>2, Zenon
  <2>4. Loaded(c, after) # Loaded(c, db)
    BY <1>5, <1>9, <2>3 DEF Loaded, LoadedDocument
  <2> QED
    BY <1>2, <1>4, <2>4 DEF Misses
<1> QED
  BY <1>8, <1>9

(* The blind spots are no weakness of the proof: each of them holds a write  *)
(* that alters what the store ought to show and that it turns down.  The     *)
(* first is an update that moves a document out of the query, by whichever   *)
(* names the two go if they share none; a query under $or has no names.      *)
THEOREM BlindSpotsReal ==
    /\ \A d \in Ids, x, y \in Documents, keys \in SUBSET ({"v"} \X Names), t \in SUBSET Paths :
          x.v # y.v /\ keys \cap t = {} =>
             \E c \in Configs : /\ c.keys = keys /\ Only(d, x) \in Databases
                              /\ Misses(c, Update(d, y, t), Only(d, x), Only(d, y))
    /\ Type \in {"collection", "document"} =>
          \A d \in Ids, x, y \in Documents, a, b \in Names : x.p # y.p /\ a # b =>
             \E c \in Configs : /\ Only(d, x) \in Databases
                              /\ Misses(c, Update(d, y, {<<"p", b>>}), Only(d, x), Only(d, y))
    /\ Type = "document" =>
          \A d \in Ids, x \in Documents :
             \E c \in Configs :
                /\ Only(d, None) \in Databases
                /\ Misses(c, [op |-> "insert", id |-> d, touched |-> {}, doc |-> x],
                          Only(d, None), Only(d, x))
    /\ Type \in {"count", "document"} =>
          \A d \in Ids, x \in Documents :
             \E c \in Configs : /\ Only(d, x) \in Databases
                              /\ Misses(c, Drop, Only(d, x), Only(d, None))
    /\ Type \in {"collection", "document"} =>
          \A d, e \in Ids, x, y \in Documents, b \in Names : d < e /\ x.p < y.p =>
             \E c \in Configs, db \in Databases :
                /\ db[d] = x
                /\ Misses(c, Update(d, y, {<<"p", b>>}), db, [db EXCEPT ![d] = y])
  BY BlindToReselection, BlindToPart, BlindToInsert, BlindToDrop, BlindToOrder

-------------------------------------------------------------------------------
(* So a store at rest that shows something else has an excuse. *)
LEMMA FreshOrExcused == IInv /\ JInv /\ LInv => StaleOnlyIfMissed
<1> SUFFICES ASSUME IInv, JInv, LInv, Quiescent, ~Excused PROVE Fresh
  BY DEF StaleOnlyIfMissed
<1>1. TypeOk /\ Len(oplog) \in Nat /\ Len(history) = Len(oplog) + 1 /\ started \in Nat /\ out \in Messages
  BY DEF IInv, TypeOk
<1>2. out.kind # "error" /\ ~Overtaken /\ \A x \in lost : ~Costly(x)
  BY DEF Excused
<1>3. live /\ started > 0 /\ out.n = started
  BY <1>1, <1>2 DEF Quiescent, JInv, Current, Overtaken, IInv, Numbered, Messages
<1>4. out.kind \in {"data", "delete"}
  BY <1>1, <1>2, <1>3 DEF JInv, Current, Messages
<1>5. out.asOf \in Nat /\ out.asOf <= Len(oplog)
  <2>1. out.kind = "delete" => out.asOf \in 1 .. Len(oplog)
    BY DEF JInv, DeleteIsOwn
  <2> QED
    BY <1>1, <1>4, <2>1 DEF JInv, Reached
<1>6. PICK i : i = out.asOf + 1
  OBVIOUS
<1>7. i \in 1 .. Len(history)
  BY <1>1, <1>5, <1>6
<1>8. Config \in Configs /\ ConfigAt(out.cfg) = Config
  <2>1. applied \in Seq(TestConfigs) /\ Len(applied) \in Nat
    BY <1>1 DEF TypeOk
  <2>2. Unconfigured \in Configs
    BY DEF Unconfigured, Configs
  <2>3. Len(applied) # 0 => applied[Len(applied)] \in Configs
    BY <2>1, ConfigsAssumption
  <2>4. out.cfg = Len(applied)
    BY <1>1, <1>3 DEF JInv, Current
  <2> QED
    BY <2>2, <2>3, <2>4 DEF Config, ConfigAt
<1>9. OverlookedSince(Config, i)
  <2> SUFFICES ASSUME NEW n \in i .. Len(oplog) PROVE Overlooked(Config, n)
    BY DEF OverlookedSince
  <2>1. Seen(out.asOf)
    BY <1>3, <1>4 DEF IInv, Accounted
  <2>2. PICK x \in lost : x.n = n
    BY <1>1, <1>5, <1>6, <2>1 DEF Seen, Quiescent
  <2>3. x.n > out.asOf
    BY <1>5, <1>6, <2>2
  <2>4. x.why = "ignored" /\ ~BlindTo(Config, oplog[n])
    BY <1>2, <2>2, <2>3 DEF Costly
  <2>5. TurnedDown(Config, n)
    BY <2>2, <2>4 DEF LInv, IgnoredRightly
  <2> QED
    BY <2>4, <2>5 DEF Overlooked
<1>10. Loaded(Config, history[i]) = Loaded(Config, Db)
  BY <1>1, <1>7, <1>8, <1>9, OverlookedSound DEF LInv
<1>11. CASE out.kind = "data"
  BY <1>6, <1>8, <1>10, <1>11 DEF Fresh, Shown
<1>12. CASE out.kind = "delete"
  <2>1. /\ Type = "document" /\ out.asOf \in 1 .. Len(oplog)
        /\ oplog[out.asOf].op = "delete" /\ oplog[out.asOf].id = Config.id
    BY <1>8, <1>12 DEF JInv, DeleteIsOwn
  <2>2. oplog \in Seq(Writes)
    BY <1>1 DEF TypeOk
  <2>3. oplog[out.asOf] \in Writes
    BY <2>1, <2>2
  <2>4. oplog[out.asOf].id \in Ids
    BY <2>1, <2>3 DEF Writes, Dropping
  <2>5. history[i][Config.id] = None
    BY <1>6, <2>1 DEF JInv, DeleteRemoves
  <2>6. Loaded(Config, history[i]) = Nothing
    BY <2>1, <2>4, <2>5, NothingWithoutIt
  <2> QED
    BY <1>10, <1>12, <2>6 DEF Fresh, Shown
<1> QED
  BY <1>4, <1>11, <1>12

(* Once all is quiet a store shows what its query returns from the present   *)
(* database, unless the client was told of an error, an older answer came    *)
(* after a younger one, or a change since the state it shows was swallowed,  *)
(* fell in a gap of the stream, or in a blind spot of the filter.            *)
THEOREM StaleOnlyIfMissedAlways == Spec => []StaleOnlyIfMissed
<1>1. Init => StreamFirst
  BY DEF Init, StreamFirst
<1> QED
  BY <1>1, InvInit, InvNext, StreamFirstNext, JInit, JNext, LInit, LNext, FreshOrExcused, PTL DEF Spec

-------------------------------------------------------------------------------
(* A store is a live view of its query: LiveView without its machinery. *)

(* What the client shows does not depend on later writes and configs. *)
LEMMA ShownStays ==
    ASSUME IInv, JInv, out' = out,
           \A n \in 1 .. Len(history) : history'[n] = history[n],
           \A k \in 1 .. Len(applied) : applied'[k] = applied[k]
    PROVE  Shown' = Shown
<1>1. /\ out \in Messages /\ Len(history) = Len(oplog) + 1
      /\ Len(oplog) \in Nat /\ Len(applied) \in Nat
  BY DEF IInv, TypeOk
<1>2. CASE out.kind = "data"
  <2>1. out.asOf \in Nat /\ out.asOf <= Len(oplog)
    BY <1>2 DEF JInv, Reached
  <2>2. history'[out.asOf + 1] = history[out.asOf + 1]
    BY <1>1, <2>1
  <2>3. out.cfg \in Nat /\ out.cfg <= Len(applied)
    BY <1>1 DEF Messages, IInv, LabelFaithful
  <2>4. ConfigAt(out.cfg)' = ConfigAt(out.cfg)
    BY <1>1, <2>3 DEF ConfigAt
  <2> QED
    BY <1>2, <2>2, <2>4 DEF Shown
<1>3. CASE out.kind # "data"
  BY <1>3 DEF Shown
<1> QED
  BY <1>2, <1>3

(* What a store at rest may do: close an idle window, which nobody notices,  *)
(* or what disturbs the rest and leaves the display alone.                   *)
LEMMA QuietStep ==
    ASSUME IInv, Quiescent, [Next]_vars
    PROVE  /\ out' = out
           /\ \A n \in 1 .. Len(history) : history'[n] = history[n]
           /\ \A k \in 1 .. Len(applied) : applied'[k] = applied[k]
           /\ ~Quiescent' \/ UNCHANGED <<database, applied, started, raised, lost>>
<1>1. /\ TypeOk /\ Len(oplog) \in Nat /\ live /\ stream = "open" /\ cursor = Len(oplog)
      /\ pend = None /\ loads = {}
  BY DEF IInv, TypeOk, Quiescent
<1>2. CASE UNCHANGED vars
  BY <1>2 DEF vars, database
<1>3. CASE Write
  <2>1. PICK w \in Writes, db \in Databases : Written(w, db)
    BY <1>1, <1>3, WriteTells
  <2>2. /\ Len(oplog') = Len(oplog) + 1
        /\ \A n \in 1 .. Len(history) : history'[n] = history[n]
    BY <1>1, <2>1, WriteExtends
  <2>3. UNCHANGED <<cursor, out, applied>>
    BY <1>3 DEF Write
  <2>4. ~Quiescent'
    BY <1>1, <2>2, <2>3 DEF Quiescent
  <2> QED
    BY <2>2, <2>3, <2>4
<1>4. CASE WindowEnds
  BY <1>1, <1>4 DEF WindowEnds, database
<1>5. CASE Deliver \/ StreamOpens
  BY <1>1, <1>5 DEF Deliver, StreamOpens
<1>6. CASE StreamLost \/ StreamCloses
  <2>1. UNCHANGED <<history, applied, out>> /\ stream' \in {"opening", "dead"}
    BY <1>6 DEF StreamLost, StreamCloses, Reconnect, database
  <2> QED
    BY <2>1 DEF Quiescent
<1>7. ASSUME NEW k, Restart(k) PROVE ~Quiescent'
  BY <1>7 DEF Restart, StartLoad, Quiescent
<1>8. ASSUME NEW c \in TestConfigs, SetConfig(c)
      PROVE  /\ out' = out /\ history' = history /\ ~Quiescent'
             /\ \A k \in 1 .. Len(applied) : applied'[k] = applied[k]
  BY <1>1, <1>7, <1>8 DEF SetConfig, TypeOk, database
<1>9. ASSUME NEW c \in TestConfigs, SetConfigFails(c) PROVE FALSE
  BY <1>1, <1>9 DEF SetConfigFails
<1>10. CASE Reload
  BY <1>7, <1>10 DEF Reload, database
<1>11. CASE Destroy
  BY <1>11 DEF Destroy, database, Quiescent
<1>12. ASSUME NEW l \in loads PROVE FALSE
  BY <1>1
<1> QED
  BY <1>2, <1>3, <1>4, <1>5, <1>6, <1>8, <1>9, <1>10, <1>11, <1>12
     DEF Next, AnswerSome, ResumeSome, FailSome

(* Every step of a store is one of the view's or leaves it as it is. *)
LEMMA StepOfView ==
    ASSUME IInv, JInv, StaleOnlyIfMissed', [Next]_vars
    PROVE  [View!Next]_(View!view)
<1>1. CASE ~Quiescent /\ ~Quiescent'
  BY <1>1 DEF View!Next, View!Work
<1>2. CASE ~Quiescent /\ Quiescent'
  <2>1. Shown' = Loaded(Config, Db)' \/ Excused'
    BY <1>2 DEF StaleOnlyIfMissed, Fresh
  <2> QED
    BY <1>2, <2>1 DEF View!Next, View!Settle
<1>3. CASE Quiescent
  <2>1. Shown' = Shown
    BY <1>3, QuietStep, ShownStays
  <2>2. CASE ~Quiescent'
    BY <1>3, <2>1, <2>2 DEF View!Next, View!Disturb
  <2>3. CASE Quiescent'
    <3>1. UNCHANGED <<history, oplog, applied, started, raised, lost, out>>
      BY <1>3, <2>3, QuietStep DEF database
    <3>2. Config' = Config /\ Db' = Db
      BY <3>1 DEF Config, ConfigAt, Db
    <3>3. Loaded(Config, Db)' = Loaded(Config, Db)
      BY <3>2
    <3>4. Excused' = Excused
      BY <3>1, <3>2 DEF Excused, Overtaken, Costly
    <3>5. Quiescent' = Quiescent
      BY <1>3, <2>3 DEF Quiescent
    <3> QED
      BY <2>1, <3>3, <3>4, <3>5 DEF View!view
  <2> QED
    BY <2>2, <2>3
<1> QED
  BY <1>1, <1>2, <1>3

(* A store implements a live view of its query: while it is settled neither  *)
(* the result nor the display changes, whatever alters the result unsettles  *)
(* it first, and it settles on the result or with an excuse.                 *)
THEOREM StoreIsLiveView == Spec => ImplementsLiveView
<1>1. Init => StreamFirst
  BY DEF Init, StreamFirst
<1>2. Init => View!Init
  BY DEF Init, View!Init, Quiescent
<1>3. IInv /\ JInv /\ StaleOnlyIfMissed' /\ [Next]_vars => [View!Next]_(View!view)
  BY StepOfView
<1> QED
  BY <1>1, <1>2, <1>3, InvInit, InvNext, StreamFirstNext, JInit, JNext, StaleOnlyIfMissedAlways, PTL
     DEF Spec, ImplementsLiveView, View!Spec

-------------------------------------------------------------------------------
(* The totals.  Of the changes that alter how many documents a query has, a  *)
(* CollectionStore turns down those its query misses by name: these are the  *)
(* ones a TotalReload loses to the filter.                                   *)

LastWrite == oplog[Len(oplog)]

(* Its change, with whatever document the server finds. *)
LastChange(doc) == [op |-> LastWrite.op, id |-> LastWrite.id, touched |-> LastWrite.touched,
                    doc |-> doc]

CountsHeard ==
    [][\A c \in Configs :
          LoadedCount(c, Db)' # LoadedCount(c, Db) =>
             \/ LastWrite'.op = "update" /\ KeyMissed(c, LastWrite')
             \/ \A doc \in Documents \cup {None} : CollectionReloads(c, LastChange(doc)')]_vars

(* An update that leaves what the query selects on alone leaves what matches *)
(* alone.                                                                    *)
LEMMA CountedWriteHeard ==
    ASSUME TypeOk, Write, NEW c \in Configs, Matching(c, Db') # Matching(c, Db),
           LastWrite'.op = "update"
    PROVE  Reselects(c, LastWrite')
<1>1. PICK w \in Writes, db \in Databases : Written(w, db) /\ LeadsTo(w, Db, db)
  BY WriteTells
<1>2. LastWrite' = w /\ Db' = db /\ Len(oplog) \in Nat
  BY <1>1, WriteExtends DEF LastWrite, Db
<1>3. w # Dropping /\ w.op = "update"
  BY <1>2 DEF Dropping
<1>4. SUFFICES ASSUME ~Reselects(c, w) PROVE \A k \in Ids : k \in Matching(c, db) <=> k \in Matching(c, Db)
  <2>1. Matching(c, db) \subseteq Ids /\ Matching(c, Db) \subseteq Ids
    BY DEF Matching
  <2> QED
    BY <1>2, <1>4, <2>1
<1>5. c.v = None \/ "v" \notin FieldsOf(w.touched)
  BY <1>4 DEF Reselects
<1>6. ASSUME NEW k \in Ids PROVE (db[k] = None <=> Db[k] = None) /\ (Db[k] # None => c.v = None \/ db[k].v = Db[k].v)
  BY <1>1, <1>3, <1>5 DEF LeadsTo, Fields
<1> QED
  BY <1>6 DEF Matching

(* Whatever a client asks a CollectionStore for, no write alters how many    *)
(* documents the query has but by a change that the store acts upon, with    *)
(* whatever version of the document it comes, or by an update of what the    *)
(* query selects on under a name that is none of the query's keys.           *)
THEOREM TotalsAreHeard == Spec => CountsHeard
<1>1. ASSUME TypeOk, [Next]_vars, NEW c \in Configs, LoadedCount(c, Db)' # LoadedCount(c, Db),
             LastWrite'.op # "update" \/ ~KeyMissed(c, LastWrite'), NEW doc \in Documents \cup {None}
      PROVE  CollectionReloads(c, LastChange(doc)')
  <2>1. Matching(c, Db') # Matching(c, Db)
    BY <1>1 DEF LoadedCount
  <2>2. history' # history
    BY <2>1 DEF Db
  <2>3. Write
    BY <1>1, <2>2
       DEF Next, Deliver, WindowEnds, StreamLost, StreamCloses, StreamOpens, SetConfig,
           SetConfigFails, Reload, Destroy, AnswerSome, ResumeSome, FailSome, Answer, Resume, Fail,
           database, vars
  <2>4. LastChange(doc)'.op = LastWrite'.op /\ LastChange(doc)'.touched = LastWrite'.touched
    BY DEF LastChange
  <2>5. CASE LastWrite'.op # "update"
    BY <2>4, <2>5 DEF CollectionReloads
  <2>6. CASE LastWrite'.op = "update"
    <3>1. Reselects(c, LastWrite')
      BY <1>1, <2>1, <2>3, <2>6, CountedWriteHeard
    <3>2. c.keys \cap LastWrite'.touched # {}
      BY <1>1, <2>6, <3>1 DEF KeyMissed
    <3> QED
      BY <2>4, <3>2 DEF CollectionReloads
  <2> QED
    BY <2>5, <2>6
<1>2. TypeOk /\ [Next]_vars =>
         [\A c \in Configs :
             LoadedCount(c, Db)' # LoadedCount(c, Db) =>
                \/ LastWrite'.op = "update" /\ KeyMissed(c, LastWrite')
                \/ \A doc \in Documents \cup {None} : CollectionReloads(c, LastChange(doc)')]_vars
  BY <1>1
<1> QED
  BY <1>2, TypeCorrect, PTL DEF Spec, CountsHeard

-------------------------------------------------------------------------------
(* The throttle.  What it swallows matters only if the filter turns down the *)
(* change it passes instead.                                                 *)

AcceptsAll == \A c \in TestConfigs \cup {Unconfigured}, ch \in Changes : Accepts(c, ch)

(* Whatever was swallowed, a later change is held back for it.               *)
Overshadowed ==
    /\ pend # None => pend.n <= cursor
    /\ live => \A x \in lost : x.why = "swallowed" => pend # None /\ x.n < pend.n

LEMMA OvershadowedNext ==
    ASSUME AcceptsAll, IInv, Overshadowed, [Next]_vars
    PROVE  Overshadowed'
<1> USE DEF pipeline
<1>1. /\ TypeOk /\ WindowOk /\ cursor \in Nat /\ Len(oplog) \in Nat /\ cursor <= Len(oplog)
      /\ \A x \in lost : x.n \in Nat
  BY DEF IInv, TypeOk
<1>2. Config \in TestConfigs \cup {Unconfigured}
  BY DEF Config, ConfigAt, IInv, TypeOk
<1>3. CASE UNCHANGED <<live, pend, lost>> /\ cursor' = cursor
  BY <1>3 DEF Overshadowed
<1>4. ASSUME NEW e \in Pending, Act(e), pend' = None, live' = live,
             \A x \in lost : x.why = "swallowed" => x.n < e.n
      PROVE  Overshadowed'
  <2>1. Accepts(Config, e.ch)
    BY <1>2 DEF AcceptsAll, Pending
  <2>2. ~Ignore(e)
    BY <2>1 DEF Ignore
  <2>3. CASE SendDelete(e)
    <3>1. lost' = {x \in lost : x.n > e.n} /\ e.n \in Nat
      BY <2>3 DEF SendDelete, Pending
    <3>2. \A x \in lost' : x.why # "swallowed"
      BY <1>1, <1>4, <3>1
    <3> QED
      BY <1>4, <3>2 DEF Overshadowed
  <2>4. CASE LoadFor(e)
    BY <1>4, <2>4 DEF LoadFor, StartLoad, Overshadowed
  <2> QED
    BY <1>4, <2>2, <2>3, <2>4 DEF Act
<1>5. CASE Deliver
  <2>1. cursor + 1 \in 1 .. Len(oplog) /\ cursor' = cursor + 1 /\ live' = live
    BY <1>1, <1>5 DEF Deliver
  <2>2. CASE NoSubscriber
    BY <1>1, <1>5, <2>1, <2>2 DEF NoSubscriber, Deliver, Overshadowed, IInv, TypeOk, Pending
  <2>3. ASSUME NEW m \in Lookups(cursor + 1), live,
               HoldBack(Event(cursor + 1, m)) \/ PassThrough(Event(cursor + 1, m))
        PROVE  Overshadowed'
    <3> DEFINE e == Event(cursor + 1, m)
    <3>1. e \in Pending /\ e.n = cursor + 1 /\ e # None
      <4>1. e \in Pending
        BY <1>1, <2>1, EventType
      <4>2. e.n = cursor + 1
        BY DEF Event
      <4> QED
        BY <4>1, <4>2, PendingIsSome
    <3>2. live' = live
      BY <1>5 DEF Deliver
    <3> HIDE DEF e
    <3>3. CASE HoldBack(e)
      <4>1. pend' = e
            /\ lost' = IF pend = None THEN lost ELSE lost \cup {Dropped(pend.n, "swallowed")}
        BY <3>3 DEF HoldBack
      <4>2. \A x \in lost' : x \in lost \/ (pend # None /\ x.n = pend.n)
        BY <4>1 DEF Dropped
      <4>3. \A x \in lost' : x.why = "swallowed" => x.n < cursor + 1
        BY <1>1, <2>3, <4>2 DEF Overshadowed, IInv, TypeOk, Pending
      <4> QED
        BY <1>1, <2>1, <3>1, <3>2, <4>1, <4>3 DEF Overshadowed
    <3>4. CASE PassThrough(e)
      <4>1. pend = None /\ pend' = None /\ Act(e)
        BY <1>1, <3>4 DEF PassThrough, WindowOk
      <4>2. \A x \in lost : x.why # "swallowed"
        BY <2>3, <4>1 DEF Overshadowed
      <4> QED
        BY <1>1, <1>4, <3>1, <3>2, <4>1, <4>2
    <3> QED
      BY <2>3, <3>3, <3>4 DEF e
  <2> QED
    BY <1>5, <2>2, <2>3 DEF Deliver
<1>6. CASE WindowEnds
  <2>1. live' = live /\ cursor' = cursor /\ live
    BY <1>1, <1>6 DEF WindowEnds, WindowOk
  <2>2. CASE pend = None
    BY <1>6, <2>1, <2>2 DEF WindowEnds, Overshadowed
  <2>3. CASE pend # None
    <3>1. pend \in Pending /\ pend' = None /\ Act(pend)
      BY <1>1, <1>6, <2>3 DEF WindowEnds, TypeOk
    <3>2. \A x \in lost : x.why = "swallowed" => x.n < pend.n
      BY <2>1 DEF Overshadowed
    <3> QED
      BY <1>4, <2>1, <3>1, <3>2 DEF Pending
  <2> QED
    BY <2>2, <2>3
<1>7. CASE StreamOpens
  <2>1. /\ cursor' = Len(oplog) /\ UNCHANGED <<live, pend>>
        /\ \A x \in lost' : x \in lost \/ x.why = "gap"
    BY <1>7 DEF StreamOpens, Dropped
  <2> QED
    BY <1>1, <2>1 DEF Overshadowed, IInv, TypeOk, Pending
<1>8. ASSUME NEW k, Restart(k) PROVE Overshadowed'
  BY <1>8 DEF Restart, StartLoad, Overshadowed
<1>9. CASE Destroy
  BY <1>9 DEF Destroy, Overshadowed
<1> QED
  BY <1>3, <1>5, <1>6, <1>7, <1>8, <1>9
     DEF Next, Write, StreamLost, StreamCloses, SetConfig, SetConfigFails, Reload, AnswerSome,
         ResumeSome, FailSome, Answer, Resume, Fail, vars

(* A CollectionStore that shows whole documents of a whole collection, in    *)
(* whatever order, loses nothing to the throttle.                            *)
THEOREM WholeCollectionsLoseNothing ==
    ASSUME Type = "collection",
           \A c \in TestConfigs : c.id = None /\ c.v = None /\ c.fields = {}
    PROVE  Spec => []ThrottleLosesNothing
<1>1. AcceptsAll
  <2> SUFFICES ASSUME NEW c \in TestConfigs \cup {Unconfigured}, NEW ch \in Changes
               PROVE  Accepts(c, ch)
    BY DEF AcceptsAll
  <2>1. c.id = None /\ c.v = None /\ c.fields = {}
    BY DEF Unconfigured
  <2>2. TestDocument(c, ch.id, ch.doc)
    BY <2>1 DEF TestDocument
  <2> QED
    BY <2>1, <2>2 DEF Accepts, PipeFilter, ShouldReload, CollectionReloads
<1>2. Init => Overshadowed
  BY DEF Init, Overshadowed
<1>3. IInv /\ Overshadowed /\ [Next]_vars => Overshadowed'
  BY <1>1, OvershadowedNext
<1>4. Overshadowed /\ StaleOnlyIfMissed => ThrottleLosesNothing
  <2> SUFFICES ASSUME Overshadowed, StaleOnlyIfMissed, Quiescent PROVE
                      \/ Fresh \/ out.kind = "error" \/ raised # {} \/ Overtaken
                      \/ \E x \in lost : Costly(x) /\ x.why # "swallowed"
    BY DEF ThrottleLosesNothing
  <2>1. \A x \in lost : x.why # "swallowed"
    BY DEF Overshadowed, Quiescent
  <2> QED
    BY <2>1 DEF StaleOnlyIfMissed, Excused
<1> QED
  BY <1>2, <1>3, <1>4, InvInit, InvNext, StaleOnlyIfMissedAlways, PTL DEF Spec
===============================================================================
