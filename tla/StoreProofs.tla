------------------------------ MODULE StoreProofs ------------------------------
(* What holds of a store for every collection, config and bound.             *)
EXTENDS Store, FiniteSetTheorems, TLAPS

(* A change event carries a document of the collection, or none. *)
LEMMA EventType ==
    ASSUME TypeOk, NEW n \in 1 .. Len(oplog), NEW m \in Lookups(n)
    PROVE  Event(n, m) \in Pending
<1>1. oplog[n] \in Writes
  BY DEF TypeOk
<1>2. m \in 1 .. Len(oplog)
  BY DEF Lookups, TypeOk
<1>3. history[m + 1] \in Databases
  BY <1>2 DEF TypeOk
<1>4. CASE oplog[n] = Dropping
  <2>1. Event(n, m).ch = Drop
    BY <1>4 DEF Event, Dropping, Drop
  <2> QED
    BY <2>1 DEF Event, Pending, Changes
<1>5. CASE oplog[n] \in [op: Operations, id: Ids, touched: SUBSET Paths]
  <2>1. history[m + 1][oplog[n].id] \in Documents \cup {None} /\ oplog[n].op # "drop"
    BY <1>3, <1>5 DEF Databases, Operations
  <2> QED
    BY <1>5, <2>1 DEF Event, Pending, Changes
<1> QED
  BY <1>1, <1>4, <1>5 DEF Writes

(* What the pipeline does with a change keeps the types. *)
LEMMA ActType ==
    ASSUME TypeOk, NEW e \in Pending, Act(e)
    PROVE  /\ loads' \subseteq Loads
           /\ started' \in Nat
           /\ out' \in Messages
           /\ lost' \subseteq [n: Nat, why: Reasons]
<1>1. Len(applied) \in Nat
  BY DEF TypeOk
<1>2. CASE Ignore(e)
  BY <1>2 DEF Ignore, TypeOk, Dropped, Reasons, Pending
<1>3. CASE SendDelete(e)
  BY <1>1, <1>3 DEF SendDelete, TypeOk, Emit, Messages, Pending
<1>4. CASE LoadFor(e)
  <2>1. LoadRecord(Len(applied), FALSE) \in Loads
    BY <1>1 DEF LoadRecord, Loads, TypeOk
  <2>2. loads' \subseteq Loads
    BY <1>4, <2>1 DEF LoadFor, StartLoad, TypeOk
  <2>3. started' \in Nat
    BY <1>4 DEF LoadFor, StartLoad, TypeOk
  <2>4. out' \in Messages
    BY <1>4 DEF LoadFor, StartLoad, TypeOk
  <2>5. lost' \subseteq [n: Nat, why: Reasons]
    BY <1>4 DEF LoadFor, StartLoad, TypeOk
  <2> QED
    BY <2>2, <2>3, <2>4, <2>5
<1> QED
  BY <1>2, <1>3, <1>4 DEF Act

(* The present state of the database is one. *)
LEMMA DbType == TypeOk => Db \in Databases
  BY DEF TypeOk, Db

(* The types hold at first, and the lemmas that follow keep them, one action *)
(* or group of actions each.                                                 *)
LEMMA TypeInit == Init => TypeOk
<1> SUFFICES ASSUME Init PROVE TypeOk
  OBVIOUS
<1>1. PICK db \in InitialDatabases : history = <<db>>
  BY DEF Init
<1>2. history \in Seq(Databases) /\ Len(history) = 1
  BY <1>1, InitialAssumption
<1>3. out \in Messages
  BY DEF Init, NoMessage, Messages
<1>4. oplog \in Seq(Writes) /\ Len(oplog) = 0 /\ applied \in Seq(TestConfigs)
  BY DEF Init
<1>5. /\ cursor \in 0 .. Len(oplog) /\ started \in Nat /\ restarts \in Nat /\ faults \in Nat
      /\ stream \in Streams
  BY <1>4, StreamsAssumption DEF Init
<1>6. loads \subseteq Loads /\ lost \subseteq [n: Nat, why: Reasons]
  BY DEF Init
<1>7. /\ live \in BOOLEAN /\ open \in BOOLEAN /\ destroyed \in BOOLEAN
      /\ pend \in Pending \cup {None} /\ raised \subseteq {"unhandled", "stopped"}
  BY DEF Init
<1> QED
  BY <1>2, <1>3, <1>4, <1>5, <1>6, <1>7 DEF TypeOk

(* An entry of the oplog that led from one database to the next. *)
LeadsTo(w, old, new) ==
    \/ /\ w = Dropping
       /\ \A d \in Ids : new[d] = None
    \/ /\ w \in [op: Operations, id: Ids, touched: SUBSET Paths]
       /\ \A d \in Ids \ {w.id} : new[d] = old[d]
       /\ w.op = "delete" <=> new[w.id] = None
       /\ old[w.id] = None /\ new[w.id] # None => w.op = "insert"
       /\ old[w.id] # None /\ new[w.id] # None =>
             /\ w.op \in {"update", "replace"}
             /\ \A f \in Fields : old[w.id][f] = new[w.id][f] \/ f \in FieldsOf(w.touched)

(* Reporting a field by any of its names tells that it was touched. *)
LEMMA ReportTells ==
    ASSUME NEW altered \in SUBSET Fields, NEW t,
           t \in Reported(altered) \/ t = altered \X Names
    PROVE  t \subseteq Paths /\ \A f \in altered : f \in FieldsOf(t)
<1>1. CASE t \in Reported(altered)
  <2>1. PICK name \in [altered -> Names] : t = {<<f, name[f]>> : f \in altered}
    BY <1>1 DEF Reported
  <2>2. t \subseteq Paths
    BY <2>1 DEF Paths
  <2>3. ASSUME NEW f \in altered PROVE f \in FieldsOf(t)
    <3>1. <<f, name[f]>> \in t /\ <<f, name[f]>>[1] = f
      BY <2>1
    <3> QED
      BY <3>1 DEF FieldsOf
  <2> QED
    BY <2>2, <2>3
<1>2. CASE t = altered \X Names
  <2>1. ASSUME NEW f \in altered PROVE f \in FieldsOf(t)
    <3>1. PICK a \in Names : TRUE
      BY NamesAssumption
    <3>2. <<f, a>> \in t /\ <<f, a>>[1] = f
      BY <1>2
    <3> QED
      BY <3>2 DEF FieldsOf
  <2> QED
    BY <1>2, <2>1 DEF Paths
<1> QED
  BY <1>1, <1>2

(* A write appends one entry to the oplog and one state to the history. *)
LEMMA WriteTells ==
    ASSUME TypeOk, Write
    PROVE  \E w \in Writes, db \in Databases : Written(w, db) /\ LeadsTo(w, Db, db)
<1>1. Db \in [Ids -> Documents \cup {None}]
  BY DbType DEF Databases
<1>2. CASE DropCollection
  <2> DEFINE db == [d \in Ids |-> None]
  <2>1. db \in Databases /\ Dropping \in Writes
    BY DEF Databases, Writes
  <2>2. Written(Dropping, db) /\ LeadsTo(Dropping, Db, db)
    BY <1>2 DEF DropCollection, LeadsTo
  <2> QED
    BY <2>1, <2>2
<1>3. ASSUME NEW d \in Ids, NEW new \in Documents \cup {None}, NEW op \in Operations,
             new # Db[d], WriteOf(d, new, op)
      PROVE  \E w \in Writes, db \in Databases : Written(w, db) /\ LeadsTo(w, Db, db)
  <2> DEFINE db == [Db EXCEPT ![d] = new]
             altered == TouchedBetween(Db[d], new)
  <2>1. db \in Databases /\ db[d] = new /\ \A e \in Ids \ {d} : db[e] = Db[e]
    BY <1>1 DEF Databases
  <2>2. PICK t : /\ Written([op |-> op, id |-> d, touched |-> t], db)
                 /\ op = "update" => t \in Reported(altered)
                 /\ op = "replace" => t = altered \X Names
                 /\ op \notin {"update", "replace"} => t = {}
    BY <1>3 DEF WriteOf
  <2>3. altered \in SUBSET Fields /\ \A f \in Fields : Db[d][f] = new[f] \/ f \in altered
    BY DEF TouchedBetween
  <2>4. op \in {"update", "replace"} => t \subseteq Paths /\ \A f \in altered : f \in FieldsOf(t)
    <3> HIDE DEF altered
    <3> QED
      BY <2>2, <2>3, ReportTells
  <2>5. t \subseteq Paths
    BY <2>2, <2>4
  <2>6. /\ Db[d] # None /\ new = None => op = "delete"
        /\ Db[d] = None /\ new # None => op = "insert"
        /\ Db[d] # None /\ new # None => op \in {"update", "replace"}
    BY <1>3 DEF WriteOf
  <2>7. op = "delete" <=> new = None
    BY <1>3, <2>6
  <2> DEFINE w == [op |-> op, id |-> d, touched |-> t]
  <2>8. w \in [op: Operations, id: Ids, touched: SUBSET Paths] /\ w.op = op /\ w.id = d /\ w.touched = t
    BY <2>5
  <2>9. Written(w, db)
    BY <2>2
  <2> HIDE DEF db, altered, w
  <2>10. Db[d] # None /\ db[d] # None =>
            \A f \in Fields : Db[d][f] = db[d][f] \/ f \in FieldsOf(t)
    BY <2>1, <2>3, <2>4, <2>6
  <2>11. LeadsTo(w, Db, db)
    BY <2>1, <2>6, <2>7, <2>8, <2>10 DEF LeadsTo
  <2> QED
    BY <2>1, <2>8, <2>9, <2>11 DEF Writes
<1> QED
  BY <1>2, <1>3 DEF Write

LEMMA TypeWrite == TypeOk /\ Write => TypeOk'
<1> SUFFICES ASSUME TypeOk, Write PROVE TypeOk'
  OBVIOUS
<1>1. PICK w \in Writes, db \in Databases : Written(w, db)
  BY WriteTells
<1>2. history' \in Seq(Databases) /\ Len(history') = Len(history) + 1
  BY <1>1 DEF Written, TypeOk
<1>3. oplog' \in Seq(Writes) /\ Len(oplog') = Len(oplog) + 1
  BY <1>1 DEF Written, TypeOk
<1> QED
  BY <1>2, <1>3 DEF Write, TypeOk, pipeline

(* Reading the stream, whether anybody listens, the window is open or not. *)
LEMMA TypeDeliver == TypeOk /\ Deliver => TypeOk'
<1> SUFFICES ASSUME TypeOk, Deliver PROVE TypeOk'
  OBVIOUS
<1>1. /\ cursor + 1 \in 1 .. Len(oplog) /\ cursor' \in 0 .. Len(oplog)
      /\ stream' \in Streams
  BY DEF TypeOk, Deliver, Streams
<1>2. CASE NoSubscriber
  BY <1>1, <1>2 DEF NoSubscriber, Deliver, TypeOk, database
<1>3. ASSUME NEW m \in Lookups(cursor + 1), HoldBack(Event(cursor + 1, m))
      PROVE  TypeOk'
  <2>1. Event(cursor + 1, m) \in Pending
    BY <1>1, EventType
  <2>2. pend # None => pend \in Pending
    BY DEF TypeOk
  <2>3. lost' \subseteq [n: Nat, why: Reasons]
    BY <1>3, <2>2 DEF HoldBack, TypeOk, Dropped, Reasons, Pending
  <2> QED
    BY <1>1, <1>3, <2>1, <2>3 DEF HoldBack, Deliver, TypeOk, database
<1>4. ASSUME NEW m \in Lookups(cursor + 1), PassThrough(Event(cursor + 1, m))
      PROVE  TypeOk'
  <2>1. Event(cursor + 1, m) \in Pending
    BY <1>1, EventType
  <2>2. Act(Event(cursor + 1, m))
    BY <1>4 DEF PassThrough
  <2> QED
    BY <1>1, <1>4, <2>1, <2>2, ActType DEF PassThrough, Deliver, TypeOk, database
<1> QED
  BY <1>2, <1>3, <1>4 DEF Deliver

(* The trailing edge. *)
LEMMA TypeWindowEnds == TypeOk /\ WindowEnds => TypeOk'
<1> SUFFICES ASSUME TypeOk, WindowEnds PROVE TypeOk'
  OBVIOUS
<1>1. CASE pend = None /\ open' = FALSE
  BY <1>1 DEF WindowEnds, TypeOk, database
<1>2. CASE pend # None /\ pend' = None /\ Act(pend) /\ open' = open
  <2>1. pend \in Pending
    BY <1>2 DEF TypeOk
  <2> QED
    BY <1>2, <2>1, ActType DEF WindowEnds, TypeOk, database
<1> QED
  BY <1>1, <1>2 DEF WindowEnds

(* A reconnection skips no further than the end of the oplog. *)
LEMMA TypeStreamOpens == TypeOk /\ StreamOpens => TypeOk'
<1> SUFFICES ASSUME TypeOk, StreamOpens PROVE TypeOk'
  OBVIOUS
<1>1. lost' \subseteq [n: Nat, why: Reasons]
  BY DEF StreamOpens, TypeOk, Dropped, Reasons
<1> QED
  BY <1>1 DEF StreamOpens, Streams, TypeOk, database, pipeline

(* A stream that is lost or closed is watched again or dead; what it has     *)
(* read stays read.                                                          *)
LEMMA TypeStreamLost == TypeOk /\ (StreamLost \/ StreamCloses) => TypeOk'
<1> SUFFICES ASSUME TypeOk, StreamLost \/ StreamCloses PROVE TypeOk'
  OBVIOUS
<1>1. stream' \in Streams /\ faults' \in Nat
  BY DEF StreamLost, StreamCloses, Reconnect, TypeOk, Streams
<1>2. UNCHANGED <<oplog, history, cursor, live, open, pend, applied, loads, started, out, destroyed,
                  raised, restarts, lost>>
  BY DEF StreamLost, StreamCloses, database, pipeline
<1> QED
  BY <1>1, <1>2 DEF TypeOk

(* A restart starts a load of the right type. *)
LEMMA RestartType ==
    ASSUME TypeOk, NEW k \in Nat, Restart(k)
    PROVE  /\ loads' \subseteq Loads
           /\ started' \in Nat /\ restarts' \in Nat
           /\ live' \in BOOLEAN /\ open' \in BOOLEAN /\ pend' \in Pending \cup {None}
           /\ lost' \subseteq [n: Nat, why: Reasons] /\ stream' \in Streams
<1>1. LoadRecord(k, TRUE) \in Loads
  BY DEF LoadRecord, Loads, TypeOk
<1>2. loads' \subseteq Loads
  BY <1>1 DEF Restart, StartLoad, TypeOk
<1>3. lost' \subseteq [n: Nat, why: Reasons]
  BY DEF Restart, StartLoad
<1>4. started' \in Nat /\ restarts' \in Nat
  BY DEF Restart, StartLoad, TypeOk
<1>5. live' \in BOOLEAN /\ open' \in BOOLEAN /\ pend' \in Pending \cup {None}
  BY DEF Restart
<1>6. stream' \in Streams
  BY DEF Restart, OpenStream, TypeOk, Streams
<1> QED
  BY <1>2, <1>3, <1>4, <1>5, <1>6

(* The store's operations. *)
LEMMA TypeRequests ==
    ASSUME TypeOk,
           \/ \E c \in TestConfigs : SetConfig(c) \/ SetConfigFails(c)
           \/ Reload
           \/ Destroy
    PROVE  TypeOk'
<1>1. Len(applied) \in Nat /\ Len(applied) + 1 \in Nat
  BY DEF TypeOk
<1>2. ASSUME NEW c \in TestConfigs, SetConfig(c) PROVE TypeOk'
  <2>1. Restart(Len(applied) + 1) /\ applied' \in Seq(TestConfigs)
    BY <1>2 DEF SetConfig, TypeOk
  <2> QED
    BY <1>1, <1>2, <2>1, RestartType DEF SetConfig, TypeOk, database
<1>3. ASSUME NEW c \in TestConfigs, SetConfigFails(c) PROVE TypeOk'
  <2>1. applied' \in Seq(TestConfigs)
    BY <1>3 DEF SetConfigFails, TypeOk
  <2> QED
    BY <1>3, <2>1 DEF SetConfigFails, TypeOk, database, pipeline
<1>4. CASE Reload
  <2>1. Restart(Len(applied))
    BY <1>4 DEF Reload
  <2> QED
    BY <1>1, <1>4, <2>1, RestartType DEF Reload, TypeOk, database
<1>5. CASE Destroy
  BY <1>5 DEF Destroy, TypeOk, database
<1> QED
  BY <1>2, <1>3, <1>4, <1>5

(* Answers, messages and failures of the queries in flight. *)
LEMMA TypeQueries ==
    ASSUME TypeOk, NEW l \in loads, Answer(l) \/ Resume(l) \/ Fail(l)
    PROVE  TypeOk'
<1>1. l \in Loads /\ Len(applied) \in Nat /\ Len(oplog) \in Nat
  BY DEF TypeOk
<1>2. \A kind \in {"data", "error"} : MessageOf(l, kind) \in Messages
  BY <1>1 DEF MessageOf, LabelOf, Messages, Loads
<1>3. CASE Answer(l)
  <2>1. [l EXCEPT !.asOf = Len(oplog)] \in Loads
    BY <1>1 DEF Loads
  <2> QED
    BY <1>3, <2>1 DEF Answer, TypeOk, database, pipeline
<1>4. CASE Resume(l)
  BY <1>2, <1>4 DEF Resume, Emit, TypeOk, database, pipeline
<1>5. CASE Fail(l)
  <2>1. out' \in Messages /\ raised' \subseteq {"unhandled", "stopped"}
    BY <1>2, <1>5 DEF Fail, Emit, TypeOk
  <2>2. loads' \subseteq Loads /\ faults' \in Nat
    BY <1>5 DEF Fail, TypeOk
  <2> QED
    BY <1>5, <2>1, <2>2 DEF Fail, TypeOk, database, pipeline
<1> QED
  BY <1>3, <1>4, <1>5

(* A step that changes nothing. *)
LEMMA TypeStutter == TypeOk /\ UNCHANGED vars => TypeOk'
  BY DEF TypeOk, vars

(* The variables keep their types, and the oplog and the states of the       *)
(* database stay in step, in every behaviour of the store.                   *)
THEOREM TypeCorrect == Spec => []TypeOk
<1>1. Init => TypeOk
  BY TypeInit
<1>2. TypeOk /\ [Next]_vars => TypeOk'
  BY TypeWrite, TypeDeliver, TypeWindowEnds, TypeStreamOpens, TypeStreamLost, TypeRequests, TypeQueries,
     TypeStutter DEF Next, AnswerSome, ResumeSome, FailSome
<1> QED
  BY <1>1, <1>2, PTL DEF Spec

-------------------------------------------------------------------------------
(* The inductive invariant.  Accounted is not inductive by itself: that the  *)
(* trailing edge's own delete is seen needs HeldIsLast, which needs that     *)
(* only an open window of a live pipeline holds a change; and that a load    *)
(* just started is the only youngest one needs the numbering.                *)

WindowOk ==
    /\ open => live
    /\ pend # None => open
    /\ destroyed => ~live

Numbered ==
    /\ \A l \in loads : l.n <= started /\ l.cfg <= Len(applied)
    /\ out.n <= started

HeldIsLast ==
    pend # None => \A w \in (pend.n + 1) .. cursor : \E x \in lost : x.n = w

(* A message never carries the id of a subscription older than its data. *)
LabelFaithful == out.cfg <= out.label /\ out.label <= Len(applied)

IInv == TypeOk /\ WindowOk /\ Numbered /\ HeldIsLast /\ Accounted /\ LabelFaithful

(* None stands for no change: it is no change itself. *)
LEMMA PendingIsSome == \A e \in Pending : e # None
  BY NoChangeAssumption

(* What a message of a load has to be for the numbering and the labels. *)
MessageLike(m) ==
    /\ m.n <= started
    /\ m.cfg <= m.label /\ m.label <= Len(applied)

(* The message of a load is one of those. *)
LEMMA MessageOk ==
    ASSUME IInv, NEW l \in loads, NEW kind
    PROVE  MessageLike(MessageOf(l, kind))
  BY DEF IInv, Numbered, MessageLike, MessageOf, LabelOf, TypeOk, Loads

(* Nothing is under way at first. *)
LEMMA InvInit == Init => IInv
<1> SUFFICES ASSUME Init PROVE IInv
  OBVIOUS
<1>1. TypeOk
  BY TypeInit
<1>2. WindowOk /\ HeldIsLast /\ Accounted
  BY DEF Init, WindowOk, HeldIsLast, Accounted
<1>3. Numbered /\ LabelFaithful
  BY DEF Init, Numbered, LabelFaithful, NoMessage
<1> QED
  BY <1>1, <1>2, <1>3 DEF IInv

(* A step that leaves the stream, the throttle and the record of dropped     *)
(* changes alone, and the loads and the last message too.                    *)
LEMMA InvSame ==
    ASSUME IInv, TypeOk',
           UNCHANGED <<oplog, cursor, live, open, pend, loads, started, out, destroyed, lost>>,
           Len(applied') >= Len(applied)
    PROVE  IInv'
<1>1. WindowOk' /\ HeldIsLast'
  BY DEF IInv, WindowOk, HeldIsLast
<1>2. Numbered' /\ LabelFaithful'
  BY DEF IInv, Numbered, LabelFaithful, TypeOk, Loads, Messages
<1>3. Accounted'
  BY DEF IInv, Accounted, Seen
<1> QED
  BY <1>1, <1>2, <1>3 DEF IInv

(* Accounted survives a step that keeps the loads and the last message and   *)
(* after which everything that was accounted for still is.                   *)
LEMMA AccountedKept ==
    ASSUME TypeOk, Accounted, live' => live, UNCHANGED <<loads, started, out>>,
           \A a \in Int : Seen(a) => Seen(a)'
    PROVE  Accounted'
<1>1. \A l \in loads : l.asOf \in Int
  BY DEF TypeOk, Loads, Unanswered
<1>2. out.asOf \in Int
  BY DEF TypeOk, Messages, Unanswered
<1> QED
  BY <1>1, <1>2 DEF Accounted

(* A new write is one still to be delivered. *)
LEMMA InvWrite == IInv /\ Write => IInv'
<1> SUFFICES ASSUME IInv, Write PROVE IInv'
  OBVIOUS
<1>1. TypeOk /\ TypeOk'
  BY TypeWrite DEF IInv
<1>2. Len(oplog') = Len(oplog) + 1
  BY <1>1, WriteTells DEF Written, TypeOk
<1>3. WindowOk' /\ HeldIsLast' /\ Numbered' /\ LabelFaithful'
  BY DEF IInv, Write, pipeline, WindowOk, HeldIsLast, Numbered, LabelFaithful
<1>4. ASSUME NEW a \in Int, Seen(a) PROVE Seen(a)'
  <2> SUFFICES ASSUME NEW w \in (a + 1) .. Len(oplog')
               PROVE  w > cursor \/ (pend # None /\ pend.n = w) \/ \E x \in lost : x.n = w
    BY DEF Seen, Write, pipeline
  <2>1. CASE w \in (a + 1) .. Len(oplog)
    BY <1>4, <2>1 DEF Seen
  <2>2. CASE w = Len(oplog) + 1
    BY <1>1, <2>2 DEF TypeOk
  <2> QED
    BY <1>1, <1>2, <2>1, <2>2 DEF TypeOk
<1>5. Accounted'
  BY <1>1, <1>4, AccountedKept DEF IInv, Write, pipeline
<1> QED
  BY <1>1, <1>3, <1>5 DEF IInv

(* A load that was just started is the youngest, and unanswered. *)
LEMMA InvStarted ==
    ASSUME IInv, TypeOk', NEW k \in Nat, NEW initial \in BOOLEAN, StartLoad(k, initial),
           k <= Len(applied'), Len(applied) <= Len(applied'),
           out' = out, pend' = None, open' => live', destroyed' => ~live'
    PROVE  IInv'
<1>1. WindowOk' /\ HeldIsLast'
  BY DEF WindowOk, HeldIsLast
<1>2. \A l \in loads' : l = LoadRecord(k, initial) \/ (l \in loads /\ l.n <= started /\ l.cfg <= Len(applied))
  BY DEF StartLoad, IInv, Numbered
<1>3. started' = started + 1 /\ started \in Nat
  BY DEF StartLoad, IInv, TypeOk
<1>4. Numbered'
  <2>1. \A l \in loads' : l.n <= started' /\ l.cfg <= Len(applied')
    BY <1>2, <1>3 DEF LoadRecord, IInv, TypeOk, Loads
  <2>2. out'.n <= started'
    BY <1>3 DEF IInv, Numbered, TypeOk, Messages
  <2> QED
    BY <2>1, <2>2 DEF Numbered
<1>5. LabelFaithful'
  BY DEF IInv, LabelFaithful, TypeOk, Messages
<1>6. Accounted'
  <2>1. \A l \in loads' : l.n = started' => l.asOf = Unanswered
    BY <1>2, <1>3 DEF LoadRecord, IInv, TypeOk, Loads
  <2>2. out'.n # started'
    BY <1>3 DEF IInv, Numbered, TypeOk, Messages
  <2> QED
    BY <2>1, <2>2 DEF Accounted
<1> QED
  BY <1>1, <1>4, <1>5, <1>6 DEF IInv

(* What the pipeline's subscriber does with a change: before, everything     *)
(* delivered but that change was accounted for, and nothing is held back.    *)
LEMMA InvActs ==
    ASSUME IInv, TypeOk', NEW e \in Pending, Act(e),
           pend' = None, live' = live, open' => live', UNCHANGED <<oplog, applied, destroyed>>,
           \A w \in (e.n + 1) .. cursor' : \E x \in lost : x.n = w,
           \A a \in Int : Seen(a) =>
              \A w \in (a + 1) .. Len(oplog) : w > cursor' \/ w = e.n \/ \E x \in lost : x.n = w
    PROVE  IInv'
<1>1. WindowOk' /\ HeldIsLast'
  BY DEF IInv, WindowOk, HeldIsLast
<1>2. CASE Ignore(e)
  <2>1. Numbered' /\ LabelFaithful'
    BY <1>2 DEF Ignore, IInv, Numbered, LabelFaithful
  <2>2. lost' = lost \cup {Dropped(e.n, "ignored")} /\ Dropped(e.n, "ignored").n = e.n
    BY <1>2 DEF Ignore, Dropped
  <2>3. ASSUME NEW a \in Int, Seen(a) PROVE Seen(a)'
    BY <2>2, <2>3 DEF Seen
  <2>4. Accounted'
    BY <1>2, <2>3, AccountedKept DEF Ignore, IInv
  <2> QED
    BY <1>1, <2>1, <2>4 DEF IInv
<1>3. CASE SendDelete(e)
  <2> DEFINE m == [n |-> started + 1, cfg |-> Len(applied), label |-> Len(applied),
                   asOf |-> e.n, kind |-> "delete"]
  <2>1. /\ started' = started + 1 /\ started \in Nat /\ loads' = loads
        /\ lost' = {x \in lost : x.n > e.n}
        /\ out' = m \/ out' = out
    BY <1>3 DEF SendDelete, Emit, IInv, TypeOk
  <2>2. Numbered'
    BY <2>1 DEF IInv, Numbered, TypeOk, Loads, Messages
  <2>3. LabelFaithful'
    BY <2>1 DEF IInv, LabelFaithful, TypeOk
  <2>4. \A l \in loads' : l.n # started'
    BY <2>1 DEF IInv, Numbered, TypeOk, Loads
  <2>5. Seen(e.n)'
    <3> SUFFICES ASSUME NEW w \in (e.n + 1) .. Len(oplog)
                 PROVE  w > cursor' \/ \E x \in lost' : x.n = w
      BY DEF Seen
    <3>1. CASE w > cursor'
      BY <3>1
    <3>2. CASE w \in (e.n + 1) .. cursor'
      BY <2>1, <3>2 DEF Pending
    <3> QED
      BY <3>1, <3>2 DEF TypeOk, Pending
  <2>6. out' = out => out'.n # started'
    BY <2>1 DEF IInv, Numbered, TypeOk, Messages
  <2>7. Accounted'
    BY <2>1, <2>4, <2>5, <2>6 DEF Accounted
  <2> QED
    BY <1>1, <2>2, <2>3, <2>7 DEF IInv
<1>4. CASE LoadFor(e)
  <2>1. Len(applied) \in Nat /\ Len(applied) <= Len(applied')
    BY DEF IInv, TypeOk
  <2> QED
    BY <1>1, <1>4, <2>1, InvStarted DEF LoadFor, WindowOk
<1> QED
  BY <1>2, <1>3, <1>4 DEF Act

(* A change that is read is dropped, held back or acted upon. *)
LEMMA InvDeliver == IInv /\ Deliver => IInv'
<1> SUFFICES ASSUME IInv, Deliver PROVE IInv'
  OBVIOUS
<1>1. TypeOk /\ TypeOk' /\ WindowOk
  BY TypeDeliver DEF IInv
<1>2. /\ cursor' = cursor + 1 /\ cursor + 1 \in 1 .. Len(oplog)
      /\ UNCHANGED <<oplog, live, applied, destroyed>>
  BY <1>1 DEF Deliver, TypeOk, database
<1>3. \A n, m : Event(n, m).n = n
  BY DEF Event
<1>4. CASE NoSubscriber
  <2>1. WindowOk' /\ HeldIsLast' /\ Accounted'
    BY <1>1, <1>2, <1>4 DEF NoSubscriber, WindowOk, HeldIsLast, Accounted
  <2>2. Numbered' /\ LabelFaithful'
    BY <1>2, <1>4 DEF NoSubscriber, IInv, Numbered, LabelFaithful
  <2> QED
    BY <1>1, <2>1, <2>2 DEF IInv
<1>5. ASSUME NEW m \in Lookups(cursor + 1), live, HoldBack(Event(cursor + 1, m))
      PROVE  IInv'
  <2>1. pend'.n = cursor + 1
    BY <1>5 DEF HoldBack, Event
  <2>2. pend' = Event(cursor + 1, m) /\ Event(cursor + 1, m) \in Pending
    BY <1>2, <1>5, EventType, <1>1 DEF HoldBack
  <2>3. pend' # None
    BY <2>2, PendingIsSome
  <2>4. WindowOk' /\ Numbered' /\ LabelFaithful'
    BY <1>1, <1>2, <1>5 DEF HoldBack, IInv, WindowOk, Numbered, LabelFaithful
  <2>5. HeldIsLast'
    BY <1>1, <1>2, <2>1, <2>3 DEF HeldIsLast, TypeOk
  <2>6. /\ lost \subseteq lost'
        /\ pend # None => \E x \in lost' : x.n = pend.n
    <3>1. Dropped(pend.n, "swallowed").n = pend.n
      BY DEF Dropped
    <3> QED
      BY <1>5, <3>1 DEF HoldBack
  <2>7. ASSUME NEW a \in Int, Seen(a) PROVE Seen(a)'
    <3> SUFFICES ASSUME NEW w \in (a + 1) .. Len(oplog)
                 PROVE  w > cursor + 1 \/ pend'.n = w \/ \E x \in lost' : x.n = w
      BY <1>2, <2>3 DEF Seen
    <3>1. w > cursor \/ (pend # None /\ pend.n = w) \/ \E x \in lost : x.n = w
      BY <2>7 DEF Seen
    <3> QED
      BY <1>1, <2>1, <2>3, <2>6, <3>1 DEF TypeOk
  <2>8. Accounted'
    BY <1>1, <1>2, <1>5, <2>7, AccountedKept DEF HoldBack, IInv
  <2> QED
    BY <1>1, <2>4, <2>5, <2>8 DEF IInv
<1>6. ASSUME NEW m \in Lookups(cursor + 1), live, PassThrough(Event(cursor + 1, m))
      PROVE  IInv'
  <2> DEFINE e == Event(cursor + 1, m)
  <2>1. e \in Pending /\ e.n = cursor + 1
    BY <1>1, <1>2, <1>3, EventType
  <2>2. pend = None /\ pend' = None
    BY <1>1, <1>6 DEF PassThrough, WindowOk
  <2>5. Act(e) /\ (open' => live')
    BY <1>2, <1>6 DEF PassThrough
  <2> HIDE DEF e
  <2>3. \A w \in (e.n + 1) .. cursor' : \E x \in lost : x.n = w
    BY <1>2, <2>1 DEF TypeOk
  <2>4. ASSUME NEW a \in Int, Seen(a), NEW w \in (a + 1) .. Len(oplog)
        PROVE  w > cursor' \/ w = e.n \/ \E x \in lost : x.n = w
    <3>1. w > cursor \/ \E x \in lost : x.n = w
      BY <2>2, <2>4 DEF Seen
    <3> QED
      BY <1>1, <1>2, <2>1, <3>1 DEF TypeOk
  <2> QED
    BY <1>1, <1>2, <2>1, <2>2, <2>3, <2>4, <2>5, InvActs
<1> QED
  BY <1>4, <1>5, <1>6 DEF Deliver

(* The change held back is the last one read, or those after it are on record. *)
LEMMA InvWindowEnds == IInv /\ WindowEnds => IInv'
<1> SUFFICES ASSUME IInv, WindowEnds PROVE IInv'
  OBVIOUS
<1>1. TypeOk /\ TypeOk' /\ WindowOk /\ live
  BY TypeWindowEnds DEF IInv, WindowOk, WindowEnds
<1>2. UNCHANGED <<oplog, cursor, live, applied, destroyed>>
  BY DEF WindowEnds, database
<1>3. CASE pend = None /\ open' = FALSE /\ UNCHANGED <<pend, loads, started, out, lost>>
  <2>1. WindowOk' /\ HeldIsLast' /\ Numbered' /\ LabelFaithful'
    BY <1>1, <1>2, <1>3 DEF IInv, WindowOk, HeldIsLast, Numbered, LabelFaithful
  <2>2. Accounted'
    BY <1>2, <1>3 DEF IInv, Accounted, Seen
  <2> QED
    BY <1>1, <2>1, <2>2 DEF IInv
<1>4. CASE pend # None /\ pend' = None /\ Act(pend) /\ open' = open
  <2>1. pend \in Pending
    BY <1>1, <1>4 DEF TypeOk
  <2>2. \A w \in (pend.n + 1) .. cursor' : \E x \in lost : x.n = w
    BY <1>2, <1>4 DEF IInv, HeldIsLast
  <2>3. \A a \in Int : Seen(a) =>
           \A w \in (a + 1) .. Len(oplog) : w > cursor' \/ w = pend.n \/ \E x \in lost : x.n = w
    BY <1>2 DEF Seen
  <2> QED
    BY <1>1, <1>2, <1>4, <2>1, <2>2, <2>3, InvActs
<1> QED
  BY <1>3, <1>4 DEF WindowEnds

(* What the reconnection skips is put on record. *)
LEMMA InvStreamOpens == IInv /\ StreamOpens => IInv'
<1> SUFFICES ASSUME IInv, StreamOpens PROVE IInv'
  OBVIOUS
<1>1. TypeOk /\ TypeOk'
  BY TypeStreamOpens DEF IInv
<1>2. UNCHANGED <<oplog, live, open, pend, applied, loads, started, out, destroyed>>
  BY DEF StreamOpens, database, pipeline
<1>3. lost \subseteq lost' /\ \A w \in (cursor + 1) .. Len(oplog) : \E x \in lost' : x.n = w
  <2>1. \A w : Dropped(w, "gap").n = w
    BY DEF Dropped
  <2> QED
    BY <2>1 DEF StreamOpens
<1>4. WindowOk' /\ Numbered' /\ LabelFaithful'
  BY <1>2 DEF IInv, WindowOk, Numbered, LabelFaithful
<1>5. HeldIsLast'
  <2> SUFFICES ASSUME pend # None, NEW w \in (pend.n + 1) .. Len(oplog)
               PROVE  \E x \in lost' : x.n = w
    BY <1>2 DEF HeldIsLast, StreamOpens
  <2>1. CASE w \in (cursor + 1) .. Len(oplog)
    BY <1>3, <2>1
  <2>2. CASE w \in (pend.n + 1) .. cursor
    BY <1>3, <2>2 DEF IInv, HeldIsLast
  <2> QED
    BY <1>1, <2>1, <2>2 DEF TypeOk, Pending
<1>6. ASSUME NEW a \in Int, Seen(a) PROVE Seen(a)'
  <2> SUFFICES ASSUME NEW w \in (a + 1) .. Len(oplog)
               PROVE  (pend # None /\ pend.n = w) \/ \E x \in lost' : x.n = w
    BY <1>2 DEF Seen
  <2>1. CASE w \in (cursor + 1) .. Len(oplog)
    BY <1>3, <2>1
  <2>2. CASE w <= cursor
    BY <1>1, <1>3, <1>6, <2>2 DEF Seen, TypeOk
  <2> QED
    BY <1>1, <2>1, <2>2 DEF TypeOk
<1>7. Accounted'
  BY <1>1, <1>2, <1>6, AccountedKept DEF IInv
<1> QED
  BY <1>1, <1>4, <1>5, <1>7 DEF IInv

(* The loss of the stream itself drops nothing yet. *)
LEMMA InvStreamLost == IInv /\ (StreamLost \/ StreamCloses) => IInv'
  BY TypeStreamLost, InvSame DEF StreamLost, StreamCloses, IInv, database, pipeline, TypeOk

(* A restart or a reload may drop the change held back, for its own load is  *)
(* younger.                                                                  *)
LEMMA InvRequests ==
    ASSUME IInv,
           \/ \E c \in TestConfigs : SetConfig(c) \/ SetConfigFails(c)
           \/ Reload
           \/ Destroy
    PROVE  IInv'
<1>1. TypeOk /\ TypeOk' /\ Len(applied) \in Nat
  BY TypeRequests DEF IInv, TypeOk
<1>2. ASSUME NEW c \in TestConfigs, SetConfig(c) PROVE IInv'
  <2>1. Len(applied') = Len(applied) + 1
    BY <1>1, <1>2 DEF SetConfig, TypeOk
  <2>2. StartLoad(Len(applied) + 1, TRUE) /\ out' = out /\ pend' = None
    BY <1>2 DEF SetConfig, Restart
  <2>3. (open' => live') /\ (destroyed' => ~live')
    BY <1>2 DEF SetConfig, Restart
  <2>4. /\ Len(applied) + 1 \in Nat /\ TRUE \in BOOLEAN
        /\ Len(applied) + 1 <= Len(applied') /\ Len(applied) <= Len(applied')
    BY <1>1, <2>1
  <2> QED
    BY <1>1, <2>2, <2>3, <2>4, InvStarted
<1>3. ASSUME NEW c \in TestConfigs, SetConfigFails(c) PROVE IInv'
  <2>1. Len(applied') >= Len(applied)
    BY <1>1, <1>3 DEF SetConfigFails, TypeOk
  <2> QED
    BY <1>1, <1>3, <2>1, InvSame DEF SetConfigFails, database, pipeline
<1>4. CASE Reload
  <2>1. StartLoad(Len(applied), TRUE) /\ out' = out /\ pend' = None /\ applied' = applied
    BY <1>4 DEF Reload, Restart
  <2>2. (open' => live') /\ (destroyed' => ~live')
    BY <1>4 DEF Reload, Restart
  <2>3. TRUE \in BOOLEAN /\ Len(applied) <= Len(applied')
    BY <1>1, <2>1
  <2> QED
    BY <1>1, <2>1, <2>2, <2>3, InvStarted
<1>5. CASE Destroy
  <2>1. WindowOk' /\ HeldIsLast' /\ Accounted'
    BY <1>5 DEF Destroy, WindowOk, HeldIsLast, Accounted
  <2>2. Numbered' /\ LabelFaithful'
    BY <1>5 DEF Destroy, IInv, Numbered, LabelFaithful
  <2> QED
    BY <1>1, <2>1, <2>2 DEF IInv
<1> QED
  BY <1>2, <1>3, <1>4, <1>5

(* An answer sees every write there is; a message sees what its load has seen. *)
LEMMA InvQueries ==
    ASSUME IInv, NEW l \in loads, Answer(l) \/ Resume(l) \/ Fail(l)
    PROVE  IInv'
<1>1. TypeOk /\ TypeOk' /\ l \in Loads /\ Len(applied) \in Nat
  BY TypeQueries DEF IInv, TypeOk
<1>2. UNCHANGED <<oplog, cursor, live, open, pend, applied, started, destroyed, lost>>
  BY DEF Answer, Resume, Fail, database, pipeline
<1>3. WindowOk' /\ HeldIsLast'
  BY <1>2 DEF IInv, WindowOk, HeldIsLast
<1>4. \A a : Seen(a)' <=> Seen(a)
  BY <1>2 DEF Seen
<1>5. CASE Answer(l)
  <2> DEFINE r == [l EXCEPT !.asOf = Len(oplog)]
  <2>1. loads' = (loads \ {l}) \cup {r} /\ out' = out
    BY <1>5 DEF Answer
  <2>2. r.n = l.n /\ r.cfg = l.cfg /\ r.asOf = Len(oplog)
    BY <1>1 DEF Loads
  <2>3. Seen(r.asOf)
    BY <1>1, <2>2 DEF Seen, TypeOk
  <2> HIDE DEF r
  <2>4. Numbered' /\ LabelFaithful'
    BY <1>2, <2>1, <2>2 DEF IInv, Numbered, LabelFaithful
  <2>5. Accounted'
    BY <1>2, <1>4, <2>1, <2>3 DEF IInv, Accounted
  <2> QED
    BY <1>1, <1>3, <2>4, <2>5 DEF IInv
<1>6. CASE Resume(l)
  <2>1. loads' \subseteq loads /\ (out' = out \/ out' = MessageOf(l, "data")) /\ l.asOf # Unanswered
    BY <1>6 DEF Resume, Emit
  <2>2. MessageLike(MessageOf(l, "data"))
    BY <1>1, MessageOk
  <2>3. Numbered' /\ LabelFaithful'
    BY <1>2, <2>1, <2>2 DEF MessageLike, IInv, Numbered, LabelFaithful
  <2>4. MessageOf(l, "data").n = l.n /\ MessageOf(l, "data").asOf = l.asOf
    BY DEF MessageOf
  <2>5. Accounted'
    BY <1>2, <1>4, <2>1, <2>4 DEF IInv, Accounted
  <2> QED
    BY <1>1, <1>3, <2>3, <2>5 DEF IInv
<1>7. CASE Fail(l)
  <2>1. loads' \subseteq loads /\ (out' = out \/ out' = MessageOf(l, "error"))
    BY <1>7 DEF Fail, Emit
  <2>2. MessageLike(MessageOf(l, "error")) /\ MessageOf(l, "error").kind = "error"
    BY <1>1, MessageOk DEF MessageOf
  <2>3. Numbered' /\ LabelFaithful'
    BY <1>2, <2>1, <2>2 DEF MessageLike, IInv, Numbered, LabelFaithful
  <2>4. Accounted'
    BY <1>2, <1>4, <2>1, <2>2 DEF IInv, Accounted
  <2> QED
    BY <1>1, <1>3, <2>3, <2>4 DEF IInv
<1> QED
  BY <1>5, <1>6, <1>7

(* Every step keeps the invariant. *)
LEMMA InvNext == IInv /\ [Next]_vars => IInv'
<1> SUFFICES ASSUME IInv, [Next]_vars PROVE IInv'
  OBVIOUS
<1>1. CASE UNCHANGED vars
  <2>1. TypeOk' /\ Len(applied') >= Len(applied)
    BY <1>1, TypeStutter DEF IInv, TypeOk, vars
  <2> QED
    BY <1>1, <2>1, InvSame DEF vars
<1>2. CASE Next
  BY <1>2, InvWrite, InvDeliver, InvWindowEnds, InvStreamOpens, InvStreamLost, InvRequests, InvQueries
     DEF Next, AnswerSome, ResumeSome, FailSome
<1> QED
  BY <1>1, <1>2

(* The invariant holds in every behaviour. *)
LEMMA InvAlways == Spec => []IInv
  BY InvInit, InvNext, PTL DEF Spec

(* Every write the youngest load does not see is still to be delivered, held *)
(* back by the throttle or on record as dropped: restarts, reloads, answers  *)
(* out of order and lost streams included, no change is silently forgotten.  *)
THEOREM NothingForgotten == Spec => []Accounted
<1>1. IInv => Accounted
  BY DEF IInv
<1> QED
  BY <1>1, InvAlways, PTL

(* After destroy neither a change nor the throttle's timer starts a query.   *)
THEOREM DestroyStopsLoading == Spec => DestroyedStartsNothing
<1>1. IInv /\ [Next]_vars => [destroyed => started' = started]_vars
  <2> SUFFICES ASSUME IInv, Next, destroyed PROVE started' = started
    BY DEF vars
  <2>1. ~live /\ ~open
    BY DEF IInv, WindowOk
  <2> QED
    BY <2>1 DEF Next, Write, Deliver, NoSubscriber, WindowEnds, StreamLost, StreamCloses, StreamOpens,
                SetConfig, SetConfigFails, Reload, Destroy, AnswerSome, Answer, ResumeSome, Resume,
                FailSome, Fail
<1> QED
  BY <1>1, InvAlways, PTL DEF Spec, DestroyedStartsNothing

-------------------------------------------------------------------------------
(* When nothing was lost, what the client shows is what the database holds.  *)
(* This needs besides that the youngest load is for the config in force and  *)
(* that a change held back still says what the oplog says.                   *)

(* The youngest load, in flight or answered, is for the config in force. *)
Current ==
    /\ live => started > 0
    /\ \A l \in loads : l.n > 0 /\ (l.n = started => l.cfg = Len(applied))
    /\ out.n > 0 /\ out.n = started => out.cfg = Len(applied)
    /\ out.kind = "none" => out.n = 0
    /\ out.n = 0 => out.label = out.cfg

(* Nothing was read from a state the database has not reached. *)
Reached ==
    /\ \A l \in loads : l.asOf <= Len(oplog)
    /\ out.asOf <= Len(oplog)
    /\ out.kind = "data" => out.asOf \in Nat

(* A delete in the oplog takes its document out of the database. *)
DeleteRemoves ==
    \A n \in 1 .. Len(oplog) : oplog[n].op = "delete" => history[n + 1][oplog[n].id] = None

(* e reports the write it is numbered after. *)
Reports(e) ==
    /\ e.n \in 1 .. Len(oplog)
    /\ e.ch.op = oplog[e.n].op
    /\ e.ch.id = oplog[e.n].id

(* A delete message is about the very document its config asks for. *)
DeleteIsOwn(m) ==
    m.kind = "delete" =>
        /\ Type = "document"
        /\ m.cfg <= Len(applied)
        /\ m.asOf \in 1 .. Len(oplog)
        /\ oplog[m.asOf].op = "delete"
        /\ oplog[m.asOf].id = ConfigAt(m.cfg).id

JInv ==
    /\ Current
    /\ Reached
    /\ DeleteRemoves
    /\ pend # None => Reports(pend)
    /\ DeleteIsOwn(out)

(* Nothing was asked of a collection that nobody watches: every load follows *)
(* a restart, and a restart has it watched.                                  *)
StreamFirst == stream = "none" => started = 0 /\ ~live

(* Only a restart, which opens the stream, starts what StreamFirst forbids.  *)
LEMMA StreamFirstNext == IInv /\ StreamFirst /\ [Next]_vars => StreamFirst'
<1> SUFFICES ASSUME IInv, StreamFirst, [Next]_vars, stream' = "none"
             PROVE  started' = 0 /\ ~live'
  BY DEF StreamFirst
<1>1. CASE UNCHANGED vars
  BY <1>1 DEF vars, StreamFirst
<1>2. CASE Write
  BY <1>2 DEF Write, StreamFirst, pipeline
<1>3. CASE Deliver \/ StreamLost \/ StreamCloses \/ StreamOpens
  BY <1>3 DEF Deliver, StreamLost, StreamCloses, Reconnect, StreamOpens
<1>4. CASE WindowEnds
  BY <1>4 DEF WindowEnds, IInv, WindowOk, StreamFirst
<1>5. ASSUME NEW k, Restart(k) PROVE FALSE
  BY <1>5 DEF Restart, OpenStream
<1>6. ASSUME NEW c \in TestConfigs, SetConfig(c) \/ SetConfigFails(c) PROVE started' = 0 /\ ~live'
  BY <1>5, <1>6 DEF SetConfig, SetConfigFails, StreamFirst, pipeline
<1>7. CASE Reload \/ Destroy
  BY <1>5, <1>7 DEF Reload, Destroy, StreamFirst
<1>8. ASSUME NEW l \in loads, Answer(l) \/ Resume(l) \/ Fail(l) PROVE started' = 0 /\ ~live'
  BY <1>8 DEF Answer, Resume, Fail, StreamFirst, pipeline
<1> QED
  BY <1>1, <1>2, <1>3, <1>4, <1>6, <1>7, <1>8 DEF Next, AnswerSome, ResumeSome, FailSome

(* At first no load, message or change is about. *)
LEMMA JInit == Init => JInv
<1> SUFFICES ASSUME Init PROVE JInv
  OBVIOUS
<1>1. /\ live = FALSE /\ loads = {} /\ out = NoMessage /\ started = 0 /\ pend = None
      /\ oplog = <<>> /\ Len(oplog) = 0
  BY DEF Init
<1>2. Current /\ Reached
  BY <1>1 DEF Current, Reached, NoMessage
<1>3. DeleteRemoves /\ DeleteIsOwn(out)
  BY <1>1 DEF DeleteRemoves, DeleteIsOwn, NoMessage
<1> QED
  BY <1>1, <1>2, <1>3 DEF JInv

(* A write ages the answers, which stay within the oplog. *)
LEMMA JWrite == IInv /\ JInv /\ Write => JInv'
<1> SUFFICES ASSUME IInv, JInv, Write PROVE JInv'
  OBVIOUS
<1>1. TypeOk /\ TypeOk'
  BY TypeWrite DEF IInv
<1>2. PICK w \in Writes, db \in Databases : Written(w, db) /\ LeadsTo(w, Db, db)
  BY <1>1, WriteTells
<1>3. /\ Len(oplog') = Len(oplog) + 1 /\ Len(history) = Len(oplog) + 1
      /\ \A n \in 1 .. Len(oplog) : oplog'[n] = oplog[n]
      /\ \A n \in 1 .. Len(history) : history'[n] = history[n]
      /\ oplog'[Len(oplog) + 1] = w /\ history'[Len(history) + 1] = db
  BY <1>1, <1>2 DEF Written, TypeOk
<1>4. UNCHANGED <<live, pend, applied, loads, started, out>>
  BY DEF Write, pipeline
<1>5. Current' /\ Reached'
  <2>1. \A l \in loads : l.asOf \in Int
    BY <1>1 DEF TypeOk, Loads, Unanswered
  <2>2. out.asOf \in Int /\ Len(oplog) \in Nat
    BY <1>1 DEF TypeOk, Messages, Unanswered
  <2> QED
    BY <1>3, <1>4, <2>1, <2>2 DEF JInv, Current, Reached
<1>6. w.op = "delete" => db[w.id] = None
  BY <1>2 DEF LeadsTo, Dropping
<1>8. DeleteRemoves'
  <2> SUFFICES ASSUME NEW n \in 1 .. Len(oplog'), oplog'[n].op = "delete"
               PROVE  history'[n + 1][oplog'[n].id] = None
    BY DEF DeleteRemoves
  <2>1. CASE n = Len(oplog) + 1
    BY <1>3, <1>6, <2>1
  <2>2. CASE n \in 1 .. Len(oplog)
    <3>1. n + 1 \in 1 .. Len(history) /\ oplog'[n] = oplog[n]
      BY <1>1, <1>3, <2>2 DEF TypeOk
    <3>2. history'[n + 1] = history[n + 1]
      BY <1>3, <3>1
    <3>3. oplog[n].op = "delete"
      BY <3>1
    <3> QED
      BY <2>2, <3>1, <3>2, <3>3 DEF JInv, DeleteRemoves
  <2> QED
    BY <1>1, <1>3, <2>1, <2>2 DEF TypeOk
<1>9. pend' # None => Reports(pend)'
  BY <1>1, <1>3, <1>4 DEF JInv, Reports, TypeOk
<1>10. DeleteIsOwn(out)'
  BY <1>1, <1>3, <1>4 DEF JInv, DeleteIsOwn, ConfigAt, TypeOk
<1> QED
  BY <1>5, <1>8, <1>9, <1>10 DEF JInv

(* Steps of the pipeline: nothing is written or asked. *)
LEMMA JActs ==
    ASSUME IInv, JInv, NEW e \in Pending, Reports(e), Act(e), live,
           UNCHANGED <<database, applied, live>>
    PROVE  Current' /\ Reached' /\ DeleteIsOwn(out)'
<1>1. TypeOk /\ Len(oplog) \in Nat /\ Len(applied) \in Nat /\ started \in Nat
  BY DEF IInv, TypeOk
<1>2. UNCHANGED <<oplog, applied, live>>
  BY DEF database
<1>3. ASSUME out' = out PROVE DeleteIsOwn(out)'
  BY <1>2, <1>3 DEF JInv, DeleteIsOwn, ConfigAt
<1>4. CASE Ignore(e)
  BY <1>2, <1>3, <1>4 DEF Ignore, JInv, Current, Reached
<1>5. CASE SendDelete(e)
  <2> DEFINE m == [n |-> started + 1, cfg |-> Len(applied), label |-> Len(applied),
                   asOf |-> e.n, kind |-> "delete"]
  <2>1. started' = started + 1 /\ loads' = loads /\ (out' = m \/ out' = out)
    BY <1>5 DEF SendDelete, Emit
  <2>2. \A l \in loads : l.n # started'
    BY <1>1, <2>1 DEF IInv, Numbered, TypeOk, Loads
  <2>3. out' = out => out'.n # started'
    BY <1>1, <2>1 DEF IInv, Numbered, TypeOk, Messages
  <2>4. Current'
    BY <1>1, <1>2, <2>1, <2>2, <2>3 DEF JInv, Current
  <2>5. Reached'
    BY <1>2, <2>1 DEF JInv, Reached, Reports
  <2>6. e.ch.op = "delete" /\ e.ch.id = Config.id /\ Type = "document"
    BY <1>5 DEF SendDelete, IsOwnDelete
  <2>7. DeleteIsOwn(m)
    <3>1. m.cfg = Len(applied) /\ m.asOf = e.n
      OBVIOUS
    <3>2. oplog[m.asOf].op = "delete" /\ oplog[m.asOf].id = ConfigAt(m.cfg).id
      BY <2>6, <3>1 DEF Reports, Config
    <3>3. m.asOf \in 1 .. Len(oplog) /\ m.cfg <= Len(applied)
      BY <1>1, <3>1 DEF Reports
    <3> QED
      BY <2>6, <3>2, <3>3 DEF DeleteIsOwn
  <2>8. DeleteIsOwn(out)'
    BY <1>2, <1>3, <2>1, <2>7 DEF DeleteIsOwn, ConfigAt
  <2> QED
    BY <2>4, <2>5, <2>8
<1>6. CASE LoadFor(e)
  <2>1. started' = started + 1 /\ loads' = loads \cup {LoadRecord(Len(applied), FALSE)} /\ out' = out
    BY <1>6 DEF LoadFor, StartLoad
  <2>2. \A l \in loads : l.n # started'
    BY <1>1, <2>1 DEF IInv, Numbered, TypeOk, Loads
  <2>3. out'.n # started'
    BY <1>1, <2>1 DEF IInv, Numbered, TypeOk, Messages
  <2>4. Current'
    BY <1>1, <1>2, <2>1, <2>2, <2>3 DEF JInv, Current, LoadRecord
  <2>5. Reached'
    BY <1>1, <1>2, <2>1 DEF JInv, Reached, LoadRecord, Unanswered
  <2> QED
    BY <1>3, <2>1, <2>4, <2>5
<1> QED
  BY <1>4, <1>5, <1>6 DEF Act

(* An event tells the operation and the document of the write it is read from. *)
LEMMA EventReports ==
    ASSUME TypeOk, NEW n \in 1 .. Len(oplog), NEW m
    PROVE  Reports(Event(n, m))
<1>1. Event(n, m).n = n /\ Event(n, m).ch.op = oplog[n].op /\ Event(n, m).ch.id = oplog[n].id
  BY DEF Event
<1> QED
  BY <1>1 DEF Reports

(* A change that is read. *)
LEMMA JDeliver == IInv /\ JInv /\ Deliver => JInv'
<1> SUFFICES ASSUME IInv, JInv, Deliver PROVE JInv'
  OBVIOUS
<1>1. cursor + 1 \in 1 .. Len(oplog) /\ TypeOk
  BY DEF IInv, TypeOk, Deliver
<1>2. UNCHANGED <<database, applied, live, oplog, history>>
  BY DEF Deliver, database
<1>3. DeleteRemoves'
  BY <1>2 DEF JInv, DeleteRemoves
<1>4. CASE NoSubscriber
  <2>1. UNCHANGED <<pend, loads, started, out>>
    BY <1>4 DEF NoSubscriber
  <2> QED
    BY <1>2, <1>3, <2>1 DEF JInv, Current, Reached, Reports, DeleteIsOwn, ConfigAt
<1>5. ASSUME NEW m \in Lookups(cursor + 1), HoldBack(Event(cursor + 1, m)) PROVE JInv'
  <2>1. UNCHANGED <<loads, started, out>> /\ pend' = Event(cursor + 1, m)
    BY <1>5 DEF HoldBack
  <2>2. Reports(pend)'
    BY <1>1, <1>2, <2>1, EventReports DEF Reports
  <2>3. Current' /\ Reached' /\ DeleteIsOwn(out)'
    BY <1>2, <2>1 DEF JInv, Current, Reached, DeleteIsOwn, ConfigAt
  <2> QED
    BY <1>3, <2>2, <2>3 DEF JInv
<1>6. ASSUME NEW m \in Lookups(cursor + 1), live, PassThrough(Event(cursor + 1, m)) PROVE JInv'
  <2>1. Event(cursor + 1, m) \in Pending /\ Reports(Event(cursor + 1, m))
    BY <1>1, EventType, EventReports
  <2>2. Act(Event(cursor + 1, m)) /\ pend' = pend
    BY <1>6 DEF PassThrough
  <2>3. Current' /\ Reached' /\ DeleteIsOwn(out)'
    BY <1>2, <1>6, <2>1, <2>2, JActs
  <2>4. pend' # None => Reports(pend)'
    BY <1>2, <2>2 DEF JInv, Reports
  <2> QED
    BY <1>3, <2>3, <2>4 DEF JInv
<1> QED
  BY <1>4, <1>5, <1>6 DEF Deliver

(* A change that was held back. *)
LEMMA JWindowEnds == IInv /\ JInv /\ WindowEnds => JInv'
<1> SUFFICES ASSUME IInv, JInv, WindowEnds PROVE JInv'
  OBVIOUS
<1>1. UNCHANGED <<database, applied, live, oplog, history>>
  BY DEF WindowEnds, database
<1>2. DeleteRemoves'
  BY <1>1 DEF JInv, DeleteRemoves
<1>3. CASE UNCHANGED <<pend, loads, started, out, lost>>
  BY <1>1, <1>2, <1>3 DEF JInv, Current, Reached, Reports, DeleteIsOwn, ConfigAt
<1>4. CASE pend # None /\ pend' = None /\ Act(pend)
  <2>1. pend \in Pending /\ Reports(pend) /\ live
    BY <1>4 DEF IInv, TypeOk, JInv, WindowOk
  <2>2. Current' /\ Reached' /\ DeleteIsOwn(out)'
    BY <1>1, <1>4, <2>1, JActs
  <2> QED
    BY <1>2, <1>4, <2>2 DEF JInv
<1> QED
  BY <1>3, <1>4 DEF WindowEnds

(* A restart's initial load is the youngest, for the config in force. *)
LEMMA JStarted ==
    ASSUME IInv, JInv, loads' = loads \cup {LoadRecord(Len(applied'), TRUE)},
           started' = started + 1, out' = out, UNCHANGED oplog
    PROVE  Current' /\ Reached'
<1>1. Len(oplog) \in Nat /\ started \in Nat
  BY DEF IInv, TypeOk
<1>2. \A l \in loads : l.n # started'
  BY <1>1 DEF IInv, Numbered, TypeOk, Loads
<1>3. out'.n # started'
  BY <1>1 DEF IInv, Numbered, TypeOk, Messages
<1>4. Current'
  BY <1>1, <1>2, <1>3 DEF JInv, Current, LoadRecord
<1>5. Reached'
  BY <1>1 DEF JInv, Reached, LoadRecord, Unanswered
<1> QED
  BY <1>4, <1>5

(* The store's operations. *)
LEMMA JRequests ==
    ASSUME IInv, JInv, StreamFirst,
           \/ \E c \in TestConfigs : SetConfig(c) \/ SetConfigFails(c)
           \/ Reload
           \/ Destroy
    PROVE  JInv'
<1>1. TypeOk /\ Len(applied) \in Nat
  BY DEF IInv, TypeOk
<1>2. UNCHANGED <<oplog, history, out>>
  BY DEF SetConfig, SetConfigFails, Reload, Destroy, database
<1>3. DeleteRemoves'
  BY <1>2 DEF JInv, DeleteRemoves
<1>4. ASSUME NEW c \in TestConfigs, applied' = Append(applied, c) PROVE DeleteIsOwn(out)'
  <2>1. Len(applied') = Len(applied) + 1
    BY <1>1, <1>4 DEF TypeOk
  <2>2. out.cfg \in Nat
    BY <1>1 DEF TypeOk, Messages
  <2>3. out.cfg <= Len(applied) => ConfigAt(out.cfg)' = ConfigAt(out.cfg)
    BY <1>1, <1>2, <1>4, <2>2 DEF ConfigAt, TypeOk
  <2> QED
    BY <1>1, <1>2, <2>1, <2>2, <2>3 DEF JInv, DeleteIsOwn
<1>5. ASSUME applied' = applied PROVE DeleteIsOwn(out)'
  BY <1>2, <1>5 DEF JInv, DeleteIsOwn, ConfigAt
<1>6. ASSUME NEW c \in TestConfigs, SetConfig(c) PROVE JInv'
  <2>1. /\ applied' = Append(applied, c) /\ Len(applied') = Len(applied) + 1
        /\ loads' = loads \cup {LoadRecord(Len(applied) + 1, TRUE)} /\ started' = started + 1
        /\ pend' = None
    BY <1>1, <1>6 DEF SetConfig, Restart, StartLoad, TypeOk
  <2> QED
    BY <1>2, <1>3, <1>4, <2>1, JStarted DEF JInv
<1>7. ASSUME NEW c \in TestConfigs, SetConfigFails(c) PROVE JInv'
  <2>1. /\ applied' = Append(applied, c) /\ UNCHANGED <<live, pend, loads, started>>
        /\ started = 0
    BY <1>7 DEF SetConfigFails, pipeline, StreamFirst
  <2>2. \A l \in loads : l.n # started
    BY <2>1 DEF JInv, Current
  <2>3. ~(out.n > 0 /\ out.n = started)
    BY <2>1
  <2>4. Current'
    BY <1>2, <2>1, <2>2, <2>3 DEF JInv, Current
  <2> QED
    BY <1>2, <1>3, <1>4, <2>1, <2>4 DEF JInv, Reached, Reports
<1>8. CASE Reload
  <2>1. /\ applied' = applied
        /\ loads' = loads \cup {LoadRecord(Len(applied), TRUE)} /\ started' = started + 1
        /\ pend' = None
    BY <1>8 DEF Reload, Restart, StartLoad
  <2> QED
    BY <1>2, <1>3, <1>5, <2>1, JStarted DEF JInv
<1>9. CASE Destroy
  <2>1. UNCHANGED <<applied, loads, started>> /\ live' = FALSE /\ pend' = None
    BY <1>9 DEF Destroy
  <2> QED
    BY <1>2, <1>3, <1>5, <2>1 DEF JInv, Current, Reached
<1> QED
  BY <1>6, <1>7, <1>8, <1>9

(* Answers, messages and failures. *)
LEMMA JQueries ==
    ASSUME IInv, JInv, NEW l \in loads, Answer(l) \/ Resume(l) \/ Fail(l)
    PROVE  JInv'
<1>1. TypeOk /\ l \in Loads /\ Len(oplog) \in Nat
  BY DEF IInv, TypeOk
<1>2. UNCHANGED <<oplog, history, live, pend, applied, started>>
  BY DEF Answer, Resume, Fail, database, pipeline
<1>3. DeleteRemoves' /\ (pend' # None => Reports(pend)')
  BY <1>2 DEF JInv, DeleteRemoves, Reports
<1>4. ASSUME out' = out PROVE DeleteIsOwn(out)'
  BY <1>2, <1>4 DEF JInv, DeleteIsOwn, ConfigAt
<1>5. CASE Answer(l)
  <2> DEFINE r == [l EXCEPT !.asOf = Len(oplog)]
  <2>1. loads' = (loads \ {l}) \cup {r} /\ out' = out
    BY <1>5 DEF Answer
  <2>2. r.n = l.n /\ r.cfg = l.cfg /\ r.asOf = Len(oplog)
    BY <1>1 DEF Loads
  <2> HIDE DEF r
  <2>3. Current' /\ Reached'
    BY <1>1, <1>2, <2>1, <2>2 DEF JInv, Current, Reached
  <2> QED
    BY <1>3, <1>4, <2>1, <2>3 DEF JInv
<1>6. ASSUME NEW kind \in {"data", "error"}, loads' = loads \ {l},
             out' = out \/ out' = MessageOf(l, kind),
             kind = "data" => l.asOf # Unanswered
      PROVE  JInv'
  <2> DEFINE m == MessageOf(l, kind)
  <2>1. m.n = l.n /\ m.cfg = l.cfg /\ m.asOf = l.asOf /\ m.kind = kind
    BY DEF MessageOf
  <2> HIDE DEF m
  <2>2. Current'
    BY <1>2, <1>6, <2>1 DEF JInv, Current, m
  <2>3. kind = "data" => l.asOf \in Nat
    BY <1>1, <1>6 DEF Loads
  <2>4. Reached'
    BY <1>2, <1>6, <2>1, <2>3 DEF JInv, Reached, m
  <2>5. DeleteIsOwn(out)'
    BY <1>4, <1>6, <2>1 DEF DeleteIsOwn, m
  <2> QED
    BY <1>3, <2>2, <2>4, <2>5 DEF JInv
<1>7. CASE Resume(l)
  BY <1>6, <1>7 DEF Resume, Emit
<1>8. CASE Fail(l)
  BY <1>6, <1>8 DEF Fail, Emit
<1> QED
  BY <1>5, <1>7, <1>8

(* Every step keeps the second invariant. *)
LEMMA JNext == IInv /\ JInv /\ StreamFirst /\ [Next]_vars => JInv'
<1> SUFFICES ASSUME IInv, JInv, StreamFirst, [Next]_vars PROVE JInv'
  OBVIOUS
<1>1. CASE UNCHANGED vars
  BY <1>1 DEF vars, JInv, Current, Reached, DeleteRemoves, Reports, DeleteIsOwn, ConfigAt
<1>2. CASE StreamLost \/ StreamCloses \/ StreamOpens
  <2>1. UNCHANGED <<oplog, history, live, pend, applied, loads, started, out>>
    BY <1>2 DEF StreamLost, StreamCloses, StreamOpens, database, pipeline
  <2> QED
    BY <2>1 DEF JInv, Current, Reached, DeleteRemoves, Reports, DeleteIsOwn, ConfigAt
<1>3. CASE Next
  BY <1>2, <1>3, JWrite, JDeliver, JWindowEnds, JRequests, JQueries
     DEF Next, AnswerSome, ResumeSome, FailSome
<1> QED
  BY <1>1, <1>3

(* A message under another subscription's id than its data's was overtaken:  *)
(* were its load the youngest, it would be for the config in force, and then *)
(* no id is left between the two that the message could carry.               *)
THEOREM LabelsFaithful == Spec => []MislabelledOnlyIfOvertaken
<1>1. Init => StreamFirst
  BY DEF Init, StreamFirst
<1>2. IInv /\ JInv => MislabelledOnlyIfOvertaken
  <2> SUFFICES ASSUME IInv, JInv, ~Overtaken PROVE out.label = out.cfg
    BY DEF MislabelledOnlyIfOvertaken
  <2>1. /\ out \in Messages /\ started \in Nat /\ Len(applied) \in Nat
        /\ out.n = started /\ out.cfg <= out.label /\ out.label <= Len(applied)
    BY DEF IInv, TypeOk, Numbered, LabelFaithful, Overtaken, Messages
  <2>2. CASE out.n > 0
    BY <2>1, <2>2 DEF JInv, Current, Messages
  <2>3. CASE out.n = 0
    BY <2>3 DEF JInv, Current
  <2> QED
    BY <2>1, <2>2, <2>3 DEF Messages
<1> QED
  BY <1>1, <1>2, InvNext, JNext, StreamFirstNext, InvInit, JInit, PTL DEF Spec

(* A config that asks for a document by its id returns nothing without it.   *)
LEMMA NothingWithoutIt ==
    ASSUME NEW c, NEW db, NEW d \in Ids, Type = "document", c.id = d, db[d] = None
    PROVE  Loaded(c, db) = Nothing
<1>1. d # None
  BY IdsAssumption, NoneAssumption
<1>2. {x \in {c.id} : db[x] # None} = {}
  OBVIOUS
<1>3. Matching(c, db) = {}
  BY <1>1 DEF Matching
<1>4. First(c, db, {}) = Nothing
  BY DEF First, Nothing
<1> QED
  BY <1>2, <1>3, <1>4 DEF Loaded, LoadedDocument

(* The two invariants together: the youngest load was for the config in force, *)
(* and every write it has not seen would be on record as dropped.            *)
LEMMA FreshWhenNothingLost == IInv /\ JInv => FreshUnlessLost
<1> SUFFICES ASSUME IInv, JInv, Quiescent, out.kind # "error", raised = {}, ~Overtaken,
                    \A x \in lost : ~(x.n > out.asOf)
             PROVE  Fresh
  BY DEF FreshUnlessLost
<1>1. TypeOk /\ Len(oplog) \in Nat /\ started \in Nat /\ out \in Messages
  BY DEF IInv, TypeOk
<1>2. live /\ started > 0 /\ out.n = started
  BY <1>1 DEF Quiescent, JInv, Current, Overtaken, IInv, Numbered, Messages
<1>3. out.kind \in {"data", "delete"}
  BY <1>1, <1>2 DEF JInv, Current, Messages
<1>4. out.asOf = Len(oplog)
  <2>1. Seen(out.asOf)
    BY <1>2, <1>3 DEF IInv, Accounted
  <2>4. out.asOf \in Int
    BY <1>1 DEF Messages, Unanswered
  <2>2. \A w \in (out.asOf + 1) .. Len(oplog) : FALSE
    <3> SUFFICES ASSUME NEW w \in (out.asOf + 1) .. Len(oplog) PROVE FALSE
      OBVIOUS
    <3>1. PICK x \in lost : x.n = w
      BY <1>1, <2>1 DEF Seen, Quiescent
    <3> QED
      BY <1>1, <2>4, <3>1
  <2>3. out.asOf <= Len(oplog) /\ out.asOf \in Int
    BY <1>1 DEF JInv, Reached, Messages, Unanswered
  <2> QED
    BY <1>1, <2>2, <2>3
<1>5. history[out.asOf + 1] = Db
  BY <1>1, <1>4 DEF Db, TypeOk
<1>6. ConfigAt(out.cfg) = Config
  BY <1>1, <1>2 DEF JInv, Current, Config
<1>7. CASE out.kind = "data"
  BY <1>5, <1>6, <1>7 DEF Fresh, Shown
<1>8. CASE out.kind = "delete"
  <2>1. /\ Type = "document" /\ out.asOf \in 1 .. Len(oplog)
        /\ oplog[out.asOf].op = "delete" /\ oplog[out.asOf].id = Config.id
    BY <1>6, <1>8 DEF JInv, DeleteIsOwn
  <2>2. oplog[out.asOf].id \in Ids
    <3>1. oplog \in Seq(Writes)
      BY <1>1 DEF TypeOk
    <3>2. oplog[out.asOf] \in Writes
      BY <2>1, <3>1
    <3> QED
      BY <2>1, <3>2 DEF Writes, Dropping
  <2>3. Db[Config.id] = None
    BY <1>5, <2>1 DEF JInv, DeleteRemoves
  <2>4. Loaded(Config, Db) = Nothing
    BY <2>1, <2>2, <2>3, NothingWithoutIt
  <2> QED
    BY <1>8, <2>4 DEF Fresh, Shown
<1> QED
  BY <1>3, <1>7, <1>8

(* When all is quiet, no error was met, no older answer overtook a younger   *)
(* one and no change was dropped after the state the client shows, that      *)
(* state is what the database holds, through any number of restarts, deletes *)
(* and lost streams.                                                         *)
THEOREM FreshUnlessLostAlways == Spec => []FreshUnlessLost
<1>1. Init => StreamFirst
  BY DEF Init, StreamFirst
<1> QED
  BY <1>1, InvNext, JNext, StreamFirstNext, InvInit, JInit, FreshWhenNothingLost, PTL DEF Spec

-------------------------------------------------------------------------------
(* A store that is left alone comes to rest.  What it has to do is counted   *)
(* so that each step on its own part leaves less: a change to be read weighs *)
(* more than the change held back, the window and the query it may become,   *)
(* and the closing of the stream, and a query that was not answered more     *)
(* than one that was.                                                        *)

Asked == {l \in loads : l.asOf = Unanswered}

Weight(is, w) == IF is THEN w ELSE 0

Work ==
    6 * (Len(oplog) - cursor)
    + Weight(stream = "closing", 2) + Weight(stream = "opening", 1) + Weight(pend # None, 3) + Weight(open, 1)
    + Cardinality(loads) + Cardinality(Asked)

Finite == IsFiniteSet(loads)

(* What becomes of the store when nobody writes, asks or fails.              *)
LeftAlone == StreamOpens \/ StreamCloses \/ Deliver \/ WindowEnds \/ AnswerSome \/ ResumeSome

(* One of these is to do as long as the store is not at rest.                *)
Busy ==
    \/ stream \in {"opening", "closing"}
    \/ stream = "open" /\ cursor < Len(oplog)
    \/ open
    \/ loads # {}

Resting ==
    /\ Work \in Nat
    /\ live /\ ~Quiescent /\ ~Deaf => Busy /\ Work > 0

WorkDwindles == [][LeftAlone => Work' < Work]_vars

LEMMA Sizes ==
    ASSUME Finite
    PROVE  IsFiniteSet(Asked) /\ Cardinality(loads) \in Nat /\ Cardinality(Asked) \in Nat
<1>1. IsFiniteSet(Asked)
  BY FS_Subset DEF Asked, Finite
<1> QED
  BY <1>1, FS_CardinalityType DEF Finite

(* A set with one more element. *)
LEMMA OneMore ==
    ASSUME NEW S, IsFiniteSet(S), NEW x
    PROVE  /\ IsFiniteSet(S \cup {x})
           /\ Cardinality(S \cup {x}) \in Nat
           /\ Cardinality(S \cup {x}) <= Cardinality(S) + 1
<1>1. Cardinality(S) \in Nat
  BY FS_CardinalityType
<1>2. /\ IsFiniteSet(S \cup {x})
      /\ Cardinality(S \cup {x}) = IF x \in S THEN Cardinality(S) ELSE Cardinality(S) + 1
  BY FS_AddElement
<1> QED
  BY <1>1, <1>2

(* A set with one element less. *)
LEMMA OneLess ==
    ASSUME NEW S, IsFiniteSet(S), NEW x \in S
    PROVE  /\ IsFiniteSet(S \ {x})
           /\ Cardinality(S \ {x}) \in Nat
           /\ Cardinality(S \ {x}) = Cardinality(S) - 1
  BY FS_RemoveElement, FS_CardinalityType

(* A load that starts adds a query that is in flight and not answered. *)
LEMMA StartedSize ==
    ASSUME Finite, NEW k, NEW initial, StartLoad(k, initial)
    PROVE  /\ Finite'
           /\ Cardinality(loads)' <= Cardinality(loads) + 1
           /\ Cardinality(Asked)' <= Cardinality(Asked) + 1
<1> DEFINE r == LoadRecord(k, initial)
<1>1. loads' = loads \cup {r} /\ r.asOf = Unanswered
  BY DEF StartLoad, LoadRecord
<1>2. Asked' = Asked \cup {r}
  BY <1>1 DEF Asked
<1> HIDE DEF r
<1>3. IsFiniteSet(Asked)
  BY Sizes
<1> QED
  BY <1>1, <1>2, <1>3, OneMore DEF Finite

(* A change costs the store one query at most. *)
LEMMA ActSize ==
    ASSUME Finite, NEW e, Act(e)
    PROVE  /\ Finite'
           /\ Cardinality(loads)' <= Cardinality(loads) + 1
           /\ Cardinality(Asked)' <= Cardinality(Asked) + 1
<1>1. Cardinality(loads) \in Nat /\ Cardinality(Asked) \in Nat
  BY Sizes
<1>2. CASE UNCHANGED loads
  BY <1>1, <1>2 DEF Finite, Asked
<1>3. CASE StartLoad(Len(applied), FALSE)
  BY <1>3, StartedSize
<1> QED
  BY <1>2, <1>3 DEF Act, Ignore, SendDelete, LoadFor

(* Each query that is in flight is answered once and resumed once. *)
LEMMA AnsweredSize ==
    ASSUME TypeOk, Finite, NEW l \in loads, Answer(l)
    PROVE  /\ Finite'
           /\ Cardinality(loads)' <= Cardinality(loads)
           /\ Cardinality(Asked)' = Cardinality(Asked) - 1
<1> DEFINE r == [l EXCEPT !.asOf = Len(oplog)]
<1>1. l \in Asked /\ r.asOf # Unanswered
  BY DEF Answer, Asked, TypeOk, Loads, Unanswered
<1>2. loads' = (loads \ {l}) \cup {r} /\ Asked' = Asked \ {l}
  BY <1>1 DEF Answer, Asked
<1> HIDE DEF r
<1>3. /\ IsFiniteSet(loads \ {l}) /\ Cardinality(loads \ {l}) = Cardinality(loads) - 1
  BY OneLess DEF Finite
<1>4. /\ IsFiniteSet((loads \ {l}) \cup {r})
      /\ Cardinality((loads \ {l}) \cup {r}) \in Nat
      /\ Cardinality((loads \ {l}) \cup {r}) <= Cardinality(loads \ {l}) + 1
  BY <1>3, OneMore
<1>5. IsFiniteSet(Asked)
  BY Sizes
<1>6. Cardinality(Asked \ {l}) = Cardinality(Asked) - 1
  BY <1>1, <1>5, OneLess
<1>7. Cardinality(loads) \in Nat
  BY Sizes
<1> QED
  BY <1>2, <1>3, <1>4, <1>6, <1>7 DEF Finite

LEMMA ResumedSize ==
    ASSUME Finite, NEW l \in loads, loads' = loads \ {l}
    PROVE  /\ Finite'
           /\ Cardinality(loads)' = Cardinality(loads) - 1
           /\ Cardinality(Asked)' <= Cardinality(Asked)
<1>1. IsFiniteSet(Asked) /\ Asked' \subseteq Asked
  BY Sizes DEF Asked
<1>2. Cardinality(Asked') <= Cardinality(Asked)
  BY <1>1, FS_Subset
<1>3. IsFiniteSet(loads \ {l}) /\ Cardinality(loads \ {l}) = Cardinality(loads) - 1
  BY OneLess DEF Finite
<1> QED
  BY <1>2, <1>3 DEF Finite

(* A store has finitely many queries in flight. *)
LEMMA FiniteNext == TypeOk /\ Finite /\ [Next]_vars => Finite'
<1> SUFFICES ASSUME TypeOk, Finite, [Next]_vars PROVE Finite'
  OBVIOUS
<1>1. CASE UNCHANGED loads
  BY <1>1 DEF Finite
<1>2. ASSUME NEW e, Act(e) PROVE Finite'
  BY <1>2, ActSize
<1>3. ASSUME NEW k, Restart(k) PROVE Finite'
  BY <1>3, StartedSize DEF Restart
<1>4. ASSUME NEW l \in loads, Answer(l) \/ Resume(l) \/ Fail(l) PROVE Finite'
  BY <1>4, AnsweredSize, ResumedSize DEF Resume, Fail
<1>5. CASE Deliver \/ WindowEnds
  BY <1>1, <1>2, <1>5 DEF Deliver, NoSubscriber, HoldBack, PassThrough, WindowEnds
<1> QED
  BY <1>1, <1>3, <1>4, <1>5
     DEF Next, Write, StreamLost, StreamCloses, StreamOpens, SetConfig, SetConfigFails, Reload,
         Destroy, AnswerSome, ResumeSome, FailSome, vars

(* Each step of a store that is left alone leaves less to do. *)
LEMMA WorkStep ==
    ASSUME IInv, Finite, LeftAlone
    PROVE  Work' < Work
<1>1. /\ TypeOk /\ WindowOk /\ cursor \in Nat /\ Len(oplog) \in Nat /\ cursor <= Len(oplog)
      /\ Cardinality(loads) \in Nat /\ Cardinality(Asked) \in Nat
  BY Sizes DEF IInv, TypeOk
<1>2. Finite' => Cardinality(loads)' \in Nat /\ Cardinality(Asked)' \in Nat
  <2> SUFFICES ASSUME Finite' PROVE Cardinality(loads') \in Nat /\ Cardinality(Asked') \in Nat
    OBVIOUS
  <2>1. IsFiniteSet(loads') /\ Asked' \subseteq loads'
    BY DEF Finite, Asked
  <2>2. IsFiniteSet(Asked')
    BY <2>1, FS_Subset
  <2> QED
    BY <2>1, <2>2, FS_CardinalityType
<1>3. UNCHANGED loads => Asked' = Asked
  BY DEF Asked
<1>4. CASE StreamOpens
  <2>1. /\ cursor' = Len(oplog) /\ stream = "opening" /\ stream' = "open"
        /\ UNCHANGED <<oplog, pend, open, loads>>
    BY <1>4 DEF StreamOpens, pipeline, database
  <2> QED
    BY <1>1, <1>3, <2>1 DEF Work, Weight
<1>9. CASE StreamCloses
  <2>1. /\ stream = "closing" /\ stream' \in {"opening", "dead"}
        /\ UNCHANGED <<oplog, cursor, pend, open, loads>>
    BY <1>9 DEF StreamCloses, Reconnect, pipeline, database
  <2> QED
    BY <1>1, <1>3, <2>1 DEF Work, Weight
<1>5. CASE Deliver
  <2>1. /\ cursor' = cursor + 1 /\ cursor + 1 <= Len(oplog) /\ UNCHANGED oplog
        /\ stream = "open" /\ stream' \in {"open", "closing"}
    BY <1>1, <1>5 DEF Deliver, database
  <2>2. CASE NoSubscriber
    BY <1>1, <1>3, <2>1, <2>2 DEF NoSubscriber, Work, Weight
  <2>3. ASSUME NEW e, HoldBack(e) PROVE Work' < Work
    <3>1. open /\ UNCHANGED <<open, loads>>
      BY <2>3 DEF HoldBack
    <3> QED
      BY <1>1, <1>3, <2>1, <3>1 DEF Work, Weight
  <2>4. ASSUME NEW e, PassThrough(e) PROVE Work' < Work
    <3>1. ~open /\ open' = TRUE /\ UNCHANGED pend /\ Act(e)
      BY <2>4 DEF PassThrough
    <3>2. /\ Finite'
          /\ Cardinality(loads)' <= Cardinality(loads) + 1
          /\ Cardinality(Asked)' <= Cardinality(Asked) + 1
      BY <3>1, ActSize
    <3>3. pend = None
      BY <1>1, <3>1 DEF WindowOk
    <3> QED
      BY <1>1, <1>2, <2>1, <3>1, <3>2, <3>3 DEF Work, Weight
  <2> QED
    BY <1>5, <2>2, <2>3, <2>4 DEF Deliver
<1>6. CASE WindowEnds
  <2>1. UNCHANGED <<oplog, cursor, stream>> /\ open
    BY <1>6 DEF WindowEnds, database
  <2>2. CASE pend = None
    <3>1. open' = FALSE /\ UNCHANGED <<pend, loads>>
      BY <1>6, <2>2 DEF WindowEnds
    <3> QED
      BY <1>1, <1>3, <2>1, <3>1 DEF Work, Weight
  <2>3. CASE pend # None
    <3>1. pend' = None /\ open' = open /\ Act(pend)
      BY <1>6, <2>3 DEF WindowEnds
    <3>2. /\ Finite'
          /\ Cardinality(loads)' <= Cardinality(loads) + 1
          /\ Cardinality(Asked)' <= Cardinality(Asked) + 1
      BY <3>1, ActSize
    <3> QED
      BY <1>1, <1>2, <2>1, <2>3, <3>1, <3>2 DEF Work, Weight
  <2> QED
    BY <2>2, <2>3
<1>7. ASSUME NEW l \in loads, Answer(l) PROVE Work' < Work
  <2>1. UNCHANGED <<oplog, cursor, stream, pend, open>>
    BY <1>7 DEF Answer, database, pipeline
  <2>2. /\ Finite'
        /\ Cardinality(loads)' <= Cardinality(loads)
        /\ Cardinality(Asked)' = Cardinality(Asked) - 1
    BY <1>1, <1>7, AnsweredSize
  <2> QED
    BY <1>1, <1>2, <2>1, <2>2 DEF Work, Weight
<1>8. ASSUME NEW l \in loads, Resume(l) PROVE Work' < Work
  <2>1. UNCHANGED <<oplog, cursor, stream, pend, open>> /\ loads' = loads \ {l}
    BY <1>8 DEF Resume, database, pipeline
  <2>2. /\ Finite'
        /\ Cardinality(loads)' = Cardinality(loads) - 1
        /\ Cardinality(Asked)' <= Cardinality(Asked)
    BY <2>1, ResumedSize
  <2> QED
    BY <1>1, <1>2, <2>1, <2>2 DEF Work, Weight
<1> QED
  BY <1>4, <1>5, <1>6, <1>7, <1>8, <1>9 DEF LeftAlone, AnswerSome, ResumeSome

(* The work is never negative, and a store that is not at rest has some.     *)
LEMMA RestingAlways == Spec => []Resting
<1>1. Init => StreamFirst /\ Finite
  BY FS_EmptySet DEF Init, StreamFirst, Finite
<1>2. IInv => TypeOk
  BY DEF IInv
<1>3. IInv /\ StreamFirst /\ Finite => Resting
  <2> SUFFICES ASSUME IInv, StreamFirst, Finite PROVE Resting
    OBVIOUS
  <2>1. /\ TypeOk /\ WindowOk /\ cursor \in Nat /\ Len(oplog) \in Nat /\ cursor <= Len(oplog)
        /\ Cardinality(loads) \in Nat /\ Cardinality(Asked) \in Nat
    BY Sizes DEF IInv, TypeOk
  <2>2. Work \in Nat
    BY <2>1 DEF Work, Weight
  <2>3. loads # {} => Cardinality(loads) > 0
    BY <2>1, FS_EmptySet DEF Finite
  <2>4. ASSUME live, ~Quiescent, ~Deaf PROVE Busy /\ Work > 0
    <3>1. stream \in {"opening", "open", "closing", "dead"}
      BY <2>1, <2>4 DEF StreamFirst, TypeOk, Streams
    <3>2. \/ stream \in {"opening", "closing"}
          \/ stream = "open" /\ cursor < Len(oplog)
          \/ pend # None \/ loads # {}
      BY <2>1, <2>4, <3>1 DEF Quiescent, Deaf
    <3>3. Busy
      BY <2>1, <3>1, <3>2 DEF Busy, WindowOk
    <3>4. Work > 0
      BY <2>1, <2>3, <3>2 DEF Work, Weight
    <3> QED
      BY <3>3, <3>4
  <2> QED
    BY <2>2, <2>4 DEF Resting
<1> QED
  BY <1>1, <1>2, <1>3, InvInit, InvNext, StreamFirstNext, FiniteNext, PTL DEF Spec

(* Each step of a store that is left alone, of the change stream, the        *)
(* throttle's timer or a query, takes from a finite amount of work, and as   *)
(* long as a live store is neither at rest nor left alone by a dead stream   *)
(* there is such a step to take: with the fairness of these steps, that is   *)
(* why it settles.                                                           *)
THEOREM StoresComeToRest == Spec => WorkDwindles /\ []Resting
<1>1. Init => Finite
  BY FS_EmptySet DEF Init, Finite
<1>2. IInv => TypeOk
  BY DEF IInv
<1>3. IInv /\ Finite /\ [Next]_vars => [LeftAlone => Work' < Work]_vars
  BY WorkStep
<1> QED
  BY <1>1, <1>2, <1>3, InvInit, InvNext, FiniteNext, RestingAlways, PTL DEF Spec, WorkDwindles
===============================================================================
