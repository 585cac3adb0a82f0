------------------------------ MODULE TotalsProofs ------------------------------
(* What holds of a CollectionStore's totals for every set of configs and     *)
(* every bound.                                                              *)
EXTENDS Totals, FiniteSetTheorems, TLAPS

(* Counts are numbered in the order they were begun, each is of the query in *)
(* force then, which is no older than the subscription it is for.            *)
Numbered ==
    /\ \A c \in counts : c.n <= begun /\ c.label <= c.of
    /\ total.n <= begun /\ told.n <= begun

(* Whatever is known of the youngest count is right. *)
YoungestRight ==
    /\ begun > 0
    /\ \A c \in counts : c.n = begun => /\ ConfigAt(c.of).query = Config.query
                                        /\ c.at \in {Unanswered, version}
    /\ total.n = begun => Right(total)
    /\ told.n = begun => Right(told)

SomeLoad == \E k \in Subs : finds[k] > 0

(* While the store lives, whoever waits for the right total waits for        *)
(* something that is under way.                                              *)
Pursued ==
    live => \/ uncounted \/ due # <<>> \/ SomeLoad \/ waiting # NoOne
            \/ YoungestRight

IInv == TypeOk /\ Numbered /\ TotalNotOlder /\ DiffsAwaited /\ Pursued

(* A store begins without subscription. *)
LEMMA InvInit == Init => IInv
<1> SUFFICES ASSUME Init PROVE IInv
  OBVIOUS
<1>1. applied \in Seq(TestConfigs) /\ Subs = {0} /\ due \in Seq(Kinds)
  BY DEF Init, Subs
<1>2. TypeOk
  BY <1>1 DEF Init, TypeOk, Tolds, NoTotal
<1>3. Numbered /\ TotalNotOlder /\ DiffsAwaited /\ Pursued
  BY DEF Init, Numbered, TotalNotOlder, DiffsAwaited, Pursued, NoTotal
<1> QED
  BY <1>2, <1>3 DEF IInv

-------------------------------------------------------------------------------
(* Types. *)

(* A count that is begun is a count. *)
LEMMA CountType ==
    ASSUME TypeOk, NEW k \in Subs, NEW b \in BOOLEAN, SendCount(k, b)
    PROVE  counts' \subseteq Counts /\ begun' \in Nat /\ uncounted' \in BOOLEAN
<1> DEFINE c == [n |-> begun + 1, label |-> k, of |-> Now, at |-> Unanswered, awaited |-> b]
<1>1. Now \in Nat /\ k \in Nat
  BY DEF TypeOk, Now, Subs
<1>2. c \in Counts
  BY <1>1 DEF Counts, TypeOk
<1>3. counts' = counts \cup {c} /\ begun' = begun + 1 /\ uncounted' = FALSE
  BY DEF SendCount
<1>4. counts \subseteq Counts /\ begun \in Nat
  BY DEF TypeOk
<1> HIDE DEF c
<1>5. counts' \subseteq Counts
  BY <1>2, <1>3, <1>4
<1>6. begun' \in Nat
  BY <1>3, <1>4
<1>7. uncounted' \in BOOLEAN
  BY <1>3, Zenon
<1> QED
  BY <1>5, <1>6, <1>7

(* A new config extends the subscriptions by one. *)
LEMMA NewSub ==
    ASSUME TypeOk, NEW c \in TestConfigs, NEW v \in Nat, applied' = Append(applied, c),
           finds' = [k \in 0 .. Now + 1 |-> IF k = Now + 1 THEN v ELSE finds[k]]
    PROVE  /\ applied' \in Seq(TestConfigs) /\ Now' = Now + 1 /\ Now \in Nat
           /\ Subs' = Subs \cup {Now + 1} /\ Now + 1 \notin Subs
           /\ finds' \in [Subs' -> Nat] /\ finds'[Now + 1] = v
           /\ \A k \in Subs : finds'[k] = finds[k]
<1>1. applied' \in Seq(TestConfigs) /\ Now' = Now + 1 /\ Now \in Nat
  BY DEF TypeOk, Now
<1>2. Subs' = 0 .. Now + 1 /\ Subs = 0 .. Now
  BY <1>1 DEF Subs, Now
<1>3. \A k \in Subs : k # Now + 1 /\ finds[k] \in Nat
  BY <1>1, <1>2 DEF TypeOk
<1>4. Subs' = Subs \cup {Now + 1} /\ Now + 1 \notin Subs
  BY <1>1, <1>2
<1>5. \A k \in Subs' : finds'[k] = IF k = Now + 1 THEN v ELSE finds[k]
  BY <1>1, <1>2
<1>6. finds' \in [Subs' -> Nat]
  BY <1>1, <1>2, <1>3, <1>4
<1> QED
  BY <1>1, <1>3, <1>4, <1>5, <1>6

(* A restart drops the oldest change on its way or none. *)
LEMMA RestartType ==
    ASSUME TypeOk, Restart
    PROVE  due' \in Seq(Kinds) /\ restarts' \in Nat /\ live' \in BOOLEAN
<1>1. due \in Seq(Kinds)
  BY DEF TypeOk
<1>2. due' = due \/ (due # <<>> /\ due' = Tail(due))
  BY DEF Restart
<1>3. due' \in Seq(Kinds)
  BY <1>1, <1>2
<1> QED
  BY <1>3 DEF Restart, TypeOk

(* Every step keeps the types. *)
LEMMA TypeNext == TypeOk /\ [Next]_vars => TypeOk'
<1> SUFFICES ASSUME TypeOk, [Next]_vars PROVE TypeOk'
  OBVIOUS
<1> USE DEF pipe, timer, bounds
<1>0. Now \in Subs /\ Subs \subseteq Nat
  BY DEF TypeOk, Now, Subs
<1>1. ASSUME NEW kind \in Kinds, Write(kind) PROVE TypeOk'
  <2>1. version' \in Nat /\ due' \in Seq(Kinds)
    BY <1>1 DEF Write, TypeOk
  <2> QED
    BY <1>1, <2>1 DEF Write, TypeOk, Subs
<1>2. CASE ChangeArrives \/ ChangeLost
  <2>1. finds' \in [Subs -> Nat] /\ uncounted' \in BOOLEAN
    <3>1. CASE UNCHANGED finds /\ uncounted' = TRUE
      BY <3>1 DEF TypeOk
    <3>2. CASE Load(Now) /\ UNCHANGED uncounted
      BY <1>0, <3>2 DEF Load, TypeOk
    <3> QED
      BY <1>2, <3>1, <3>2 DEF ChangeArrives, ChangeLost
  <2>2. due' \in Seq(Kinds)
    <3>1. due \in Seq(Kinds) /\ due # <<>> /\ due' = Tail(due)
      BY <1>2 DEF ChangeArrives, ChangeLost, TypeOk
    <3> QED
      BY <3>1
  <2> QED
    BY <1>2, <2>1, <2>2 DEF ChangeArrives, ChangeLost, TypeOk, Subs
<1>3. ASSUME NEW c \in TestConfigs, SetConfig(c) \/ SetConfigFails(c) PROVE TypeOk'
  <2>1. PICK v \in Nat : finds' = [k \in 0 .. Now + 1 |-> IF k = Now + 1 THEN v ELSE finds[k]]
    BY <1>3 DEF SetConfig, SetConfigFails
  <2>2. applied' = Append(applied, c)
    BY <1>3 DEF SetConfig, SetConfigFails
  <2>3. /\ applied' \in Seq(TestConfigs) /\ Now \in Nat
        /\ finds' \in [Subs' -> Nat] /\ Subs \subseteq Subs'
    BY <2>1, <2>2, NewSub
  <2>4. [sub |-> Now + 1, changed |-> Now = 0 \/ c.query # Config.query] \in Diffs
    BY <2>3 DEF Diffs
  <2>5. diffs' \subseteq Diffs
    BY <1>3, <2>4 DEF SetConfig, SetConfigFails, RecordDiff, TypeOk
  <2>6. restarts' \in Nat /\ faults' \in Nat /\ live' \in BOOLEAN /\ abandoned' \subseteq Nat
        /\ due' \in Seq(Kinds)
    <3>1. CASE SetConfig(c)
      BY <3>1, RestartType DEF SetConfig, TypeOk
    <3>2. CASE SetConfigFails(c)
      BY <2>3, <3>2 DEF SetConfigFails, Fault, TypeOk
    <3> QED
      BY <1>3, <3>1, <3>2
  <2>7. UNCHANGED <<version, destroyed, counts, begun, throttle, waiting, total, told, uncounted>>
    BY <1>3 DEF SetConfig, SetConfigFails
  <2> QED
    BY <2>3, <2>5, <2>6, <2>7 DEF TypeOk
<1>4. CASE Reload
  <2>1. /\ due' \in Seq(Kinds) /\ restarts' \in Nat /\ live' \in BOOLEAN
        /\ finds' \in [Subs -> Nat] /\ Subs' = Subs
    BY <1>0, <1>4, RestartType DEF Reload, Load, TypeOk, Subs
  <2> QED
    BY <1>4, <2>1 DEF Reload, TypeOk
<1>5. CASE Destroy
  <2>1. due' \in Seq(Kinds) /\ live' \in BOOLEAN /\ destroyed' \in BOOLEAN
    <3>1. due' = <<>> /\ live' = FALSE /\ destroyed' = TRUE
      BY <1>5 DEF Destroy
    <3>2. <<>> \in Seq(Kinds)
      OBVIOUS
    <3> QED
      BY <3>1, <3>2, Zenon
  <2> QED
    BY <1>5, <2>1 DEF Destroy, TypeOk, Subs
<1>6. ASSUME NEW k \in Subs, FindResumes(k) PROVE TypeOk'
  <2>1. finds' \in [Subs -> Nat] /\ diffs' \subseteq Diffs
    <3>1. finds' = [finds EXCEPT ![k] = @ - 1] /\ finds[k] - 1 \in Nat
      BY <1>6 DEF FindResumes, TypeOk
    <3>2. diffs' \subseteq diffs
      BY <1>6 DEF FindResumes, RemoveSubscriptionDiff
    <3> QED
      BY <3>1, <3>2 DEF TypeOk
  <2>2. told' \in Tolds
    BY <1>0, <1>6 DEF FindResumes, EmitData, Tolds, TypeOk
  <2>3. CASE \E b \in BOOLEAN : SendCount(k, b)
    <3>1. counts' \subseteq Counts /\ begun' \in Nat /\ uncounted' \in BOOLEAN
      BY <2>3, CountType
    <3>2. throttle' \in {"idle", "armed", "cooling"} /\ waiting' \in Subs \cup {NoOne}
          /\ (waiting' # NoOne => throttle' = "armed")
      BY <1>6 DEF FindResumes, DelaySendCount, TypeOk
    <3> QED
      BY <1>6, <2>1, <2>2, <3>1, <3>2 DEF FindResumes, TypeOk, Subs
  <2>4. CASE throttle' = "armed" /\ waiting' = k /\ UNCHANGED <<counts, begun, uncounted>>
    BY <1>6, <2>1, <2>2, <2>4 DEF FindResumes, TypeOk, Subs
  <2> QED
    BY <1>6, <2>3, <2>4 DEF FindResumes, DelaySendCount
<1>7. ASSUME NEW k \in Subs, FindFails(k) PROVE TypeOk'
  BY <1>0, <1>7 DEF FindFails, Fault, TypeOk, Subs
<1>8. ASSUME NEW c \in counts, AnswerCount(c) PROVE TypeOk'
  <2>1. [c EXCEPT !.at = version] \in Counts
    BY DEF TypeOk, Counts
  <2> QED
    BY <1>8, <2>1 DEF AnswerCount, TypeOk, Subs
<1>9. ASSUME NEW c \in counts, CountResumes(c) PROVE TypeOk'
  <2>1. c \in Counts /\ c.at # Unanswered
    BY <1>9 DEF CountResumes, TypeOk
  <2>2. total' \in [n: Nat, of: Nat, at: Nat] /\ told' \in Tolds
    BY <1>9, <2>1 DEF CountResumes, Counts, Tolds
  <2>3. diffs' \subseteq Diffs
    BY <1>9 DEF CountResumes, RemoveSubscriptionDiff, TypeOk
  <2> QED
    BY <1>9, <2>2, <2>3 DEF CountResumes, TypeOk, Subs
<1>10. ASSUME NEW c \in counts, CountFails(c) PROVE TypeOk'
  <2>1. c.label \in Nat
    BY DEF TypeOk, Counts
  <2>2. abandoned' \subseteq Nat
    BY <1>10, <2>1 DEF CountFails, TypeOk
  <2>3. counts' \subseteq Counts /\ faults' \in Nat
    BY <1>10 DEF CountFails, Fault, TypeOk
  <2> QED
    BY <1>10, <2>2, <2>3 DEF CountFails, TypeOk, Subs
<1>11. CASE TimerExpires
  <2>1. CASE waiting = NoOne
    BY <1>11, <2>1 DEF TimerExpires, TypeOk, Subs
  <2>2. CASE waiting \in Subs /\ SendCount(waiting, FALSE)
    <3>1. counts' \subseteq Counts /\ begun' \in Nat /\ uncounted' \in BOOLEAN
      BY <2>2, CountType
    <3> QED
      BY <1>11, <2>2, <3>1 DEF TimerExpires, TypeOk, Subs
  <2> QED
    BY <1>11, <2>1, <2>2 DEF TimerExpires, TypeOk
<1>12. CASE UNCHANGED vars
  BY <1>12 DEF vars, TypeOk, Subs
<1> QED
  BY <1>1, <1>2, <1>3, <1>4, <1>5, <1>6, <1>7, <1>8, <1>9, <1>10, <1>11, <1>12
     DEF Next, ResumeSome, AnswerSome, CountSome, FailSome

-------------------------------------------------------------------------------
(* Counts. *)

(* A count that is begun has the highest number and is of the present query. *)
LEMMA NumberedBegin ==
    ASSUME TypeOk, Numbered, NEW k \in Subs, NEW b \in BOOLEAN, SendCount(k, b)
    PROVE  (\A c \in counts' : c.n <= begun' /\ c.label <= c.of) /\ begun <= begun'
<1>1. Now \in Nat /\ k \in Nat /\ k <= Now /\ begun \in Nat
  BY DEF TypeOk, Now, Subs
<1>2. \A c \in counts : c.n \in Nat /\ c.n <= begun /\ c.label <= c.of
  BY DEF TypeOk, Counts, Numbered
<1>3. begun' = begun + 1
      /\ counts' = counts \cup {[n |-> begun + 1, label |-> k, of |-> Now, at |-> Unanswered,
                                 awaited |-> b]}
  BY DEF SendCount
<1> QED
  BY <1>1, <1>2, <1>3

(* No step makes a count younger than the last one begun. *)
LEMMA NumberedNext == IInv /\ [Next]_vars => Numbered' /\ TotalNotOlder'
<1> SUFFICES ASSUME IInv, [Next]_vars PROVE Numbered' /\ TotalNotOlder'
  OBVIOUS
<1> USE DEF pipe, timer, bounds
<1>0. TypeOk /\ Numbered /\ TotalNotOlder
  BY DEF IInv
<1>1. CASE UNCHANGED <<counts, begun, total, told>>
  BY <1>0, <1>1 DEF Numbered, TotalNotOlder
<1>2. ASSUME NEW k \in Subs, FindResumes(k) PROVE Numbered' /\ TotalNotOlder'
  <2>1. (\A c \in counts' : c.n <= begun' /\ c.label <= c.of) /\ begun <= begun'
    <3>1. CASE \E b \in BOOLEAN : SendCount(k, b)
      BY <1>0, <3>1, NumberedBegin
    <3>2. CASE UNCHANGED <<counts, begun>>
      BY <1>0, <3>2 DEF Numbered, TypeOk
    <3> QED
      BY <1>2, <3>1, <3>2 DEF FindResumes, DelaySendCount
  <2>2. begun \in Nat /\ begun' \in Nat /\ total.n \in Nat /\ told.n \in Nat
    BY <1>0, TypeNext DEF TypeOk, Tolds
  <2>3. told' = told \/ (told'.n = total.n /\ told'.kind = "data")
    BY <1>2 DEF FindResumes, EmitData
  <2>4. total' = total
    BY <1>2 DEF FindResumes
  <2> QED
    BY <1>0, <2>1, <2>2, <2>3, <2>4 DEF Numbered, TotalNotOlder
<1>3. ASSUME NEW c \in counts, AnswerCount(c) PROVE Numbered' /\ TotalNotOlder'
  <2>1. [c EXCEPT !.at = version].n = c.n /\ [c EXCEPT !.at = version].label = c.label
        /\ [c EXCEPT !.at = version].of = c.of
    BY <1>0 DEF TypeOk, Counts
  <2> QED
    BY <1>0, <1>3, <2>1 DEF AnswerCount, Numbered, TotalNotOlder
<1>4. ASSUME NEW c \in counts, CountResumes(c) PROVE Numbered' /\ TotalNotOlder'
  <2>1. /\ total'.n = c.n /\ told'.n = c.n /\ told'.label = c.label /\ told'.of = c.of
        /\ counts' \subseteq counts /\ begun' = begun
    BY <1>4 DEF CountResumes
  <2> QED
    BY <1>0, <2>1 DEF Numbered, TotalNotOlder
<1>5. ASSUME NEW c \in counts, CountFails(c) PROVE Numbered' /\ TotalNotOlder'
  BY <1>0, <1>5 DEF CountFails, Numbered, TotalNotOlder
<1>6. CASE TimerExpires
  <2>1. waiting \in Subs \/ UNCHANGED <<counts, begun>>
    BY <1>0, <1>6 DEF TimerExpires, TypeOk
  <2>2. (\A c \in counts' : c.n <= begun' /\ c.label <= c.of) /\ begun <= begun'
    <3>1. CASE UNCHANGED <<counts, begun>>
      BY <1>0, <3>1 DEF Numbered, TypeOk
    <3>2. CASE waiting \in Subs /\ SendCount(waiting, FALSE)
      BY <1>0, <3>2, NumberedBegin
    <3> QED
      BY <1>6, <2>1, <3>1, <3>2 DEF TimerExpires
  <2>3. begun \in Nat /\ begun' \in Nat /\ total.n \in Nat /\ told.n \in Nat
    BY <1>0, TypeNext DEF TypeOk, Tolds
  <2>4. UNCHANGED <<total, told>>
    BY <1>6 DEF TimerExpires
  <2> QED
    BY <1>0, <2>2, <2>3, <2>4 DEF Numbered, TotalNotOlder
<1> QED
  BY <1>1, <1>2, <1>3, <1>4, <1>5, <1>6
     DEF Next, ResumeSome, AnswerSome, CountSome, FailSome, Write, ChangeArrives, ChangeLost,
         SetConfig, SetConfigFails, Reload, Destroy, FindFails, vars


(* A diff goes with the load or the count it is kept for, or that fails.     *)
LEMMA DiffsNext == IInv /\ [Next]_vars => DiffsAwaited'
<1> SUFFICES ASSUME IInv, [Next]_vars PROVE DiffsAwaited'
  OBVIOUS
<1> USE DEF pipe, timer, bounds
<1>0. TypeOk /\ DiffsAwaited /\ Now \in Subs /\ Subs' \subseteq Nat
  BY TypeNext DEF IInv, TypeOk, Now, Subs
<1>1. ASSUME UNCHANGED <<applied, diffs, abandoned>>, counts \subseteq counts',
             \A k \in Subs : finds[k] > 0 => finds'[k] > 0
      PROVE DiffsAwaited'
  BY <1>0, <1>1 DEF DiffsAwaited, Subs
<1>2. ASSUME Load(Now) PROVE \A k \in Subs : finds[k] > 0 => finds'[k] > 0
  BY <1>0, <1>2 DEF Load, TypeOk
<1>3. ASSUME NEW c \in TestConfigs, SetConfig(c) \/ SetConfigFails(c) PROVE DiffsAwaited'
  <2>1. PICK v \in Nat :
           /\ finds' = [k \in 0 .. Now + 1 |-> IF k = Now + 1 THEN v ELSE finds[k]]
           /\ v > 0 \/ Now + 1 \in abandoned'
    BY <1>3 DEF SetConfig, SetConfigFails
  <2>2. /\ Subs' = Subs \cup {Now + 1} /\ finds'[Now + 1] = v
        /\ \A k \in Subs : finds'[k] = finds[k]
    BY <1>0, <1>3, <2>1, NewSub DEF SetConfig, SetConfigFails
  <2>3. counts' = counts /\ abandoned \subseteq abandoned'
    BY <1>3 DEF SetConfig, SetConfigFails
  <2>4. \A d \in diffs' : d \in diffs \/ d.sub = Now + 1
    BY <1>3 DEF SetConfig, SetConfigFails, RecordDiff
  <2> QED
    BY <1>0, <2>1, <2>2, <2>3, <2>4 DEF DiffsAwaited
<1>4. ASSUME NEW k \in Subs, FindResumes(k) PROVE DiffsAwaited'
  <2>1. /\ finds' = [finds EXCEPT ![k] = @ - 1] /\ Subs' = Subs
        /\ \A j \in Subs : j # k => finds'[j] = finds[j]
        /\ abandoned' = abandoned /\ counts \subseteq counts' /\ diffs' \subseteq diffs
    BY <1>0, <1>4 DEF FindResumes, RemoveSubscriptionDiff, DelaySendCount, SendCount, TypeOk, Subs
  <2>2. \A d \in diffs' : d.sub = k => \E c \in counts' : c.awaited /\ c.label = d.sub
    <3>1. CASE SendCount(k, TRUE)
      <4>1. [n |-> begun + 1, label |-> k, of |-> Now, at |-> Unanswered, awaited |-> TRUE]
              \in counts'
        BY <3>1 DEF SendCount
      <4> QED
        BY <4>1
    <3>2. CASE RemoveSubscriptionDiff(k)
      BY <3>2 DEF RemoveSubscriptionDiff
    <3> QED
      BY <1>4, <3>1, <3>2 DEF FindResumes
  <2> QED
    BY <1>0, <2>1, <2>2 DEF DiffsAwaited
<1>5. ASSUME NEW k \in Subs, FindFails(k) PROVE DiffsAwaited'
  <2>1. /\ Subs' = Subs /\ diffs' = diffs /\ counts' = counts /\ abandoned' = abandoned \cup {k}
        /\ \A j \in Subs : j # k => finds'[j] = finds[j]
    BY <1>0, <1>5 DEF FindFails, TypeOk, Subs
  <2> QED
    BY <1>0, <2>1 DEF DiffsAwaited
<1>6. ASSUME NEW c \in counts, AnswerCount(c) PROVE DiffsAwaited'
  <2>1. /\ [c EXCEPT !.at = version].awaited = c.awaited
        /\ [c EXCEPT !.at = version].label = c.label
    BY <1>0 DEF TypeOk, Counts
  <2>2. /\ Subs' = Subs /\ UNCHANGED <<diffs, finds, abandoned>>
        /\ counts' = (counts \ {c}) \cup {[c EXCEPT !.at = version]}
    BY <1>6 DEF AnswerCount, Subs
  <2>3. ASSUME NEW x \in counts, x.awaited
        PROVE \E y \in counts' : y.awaited /\ y.label = x.label
    BY <2>1, <2>2, <2>3
  <2> QED
    BY <1>0, <2>2, <2>3 DEF DiffsAwaited
<1>7. ASSUME NEW c \in counts, CountResumes(c) PROVE DiffsAwaited'
  <2>1. /\ Subs' = Subs /\ UNCHANGED <<finds, abandoned>> /\ counts' = counts \ {c}
        /\ IF c.awaited THEN diffs' = {d \in diffs : d.sub # c.label} ELSE diffs' = diffs
    BY <1>7 DEF CountResumes, RemoveSubscriptionDiff, Subs
  <2>2. \A d \in diffs' : d \in diffs /\ ~(c.awaited /\ c.label = d.sub)
    BY <2>1
  <2> QED
    BY <1>0, <2>1, <2>2 DEF DiffsAwaited
<1>8. ASSUME NEW c \in counts, CountFails(c) PROVE DiffsAwaited'
  <2>1. /\ Subs' = Subs /\ UNCHANGED <<finds, diffs>> /\ counts' = counts \ {c}
        /\ abandoned \subseteq abandoned' /\ (c.awaited => c.label \in abandoned')
    BY <1>8 DEF CountFails, Subs
  <2> QED
    BY <1>0, <2>1 DEF DiffsAwaited
<1> QED
  BY <1>1, <1>2, <1>3, <1>4, <1>5, <1>6, <1>7, <1>8
     DEF Next, ResumeSome, AnswerSome, CountSome, FailSome, Write, ChangeArrives, ChangeLost,
         Reload, Destroy, TimerExpires, SendCount, vars

-------------------------------------------------------------------------------
(* The total. *)

(* A count that is begun is the youngest and of the query in force, and no   *)
(* total that is known or told is as young.                                  *)
LEMMA BegunRight ==
    ASSUME TypeOk, Numbered, NEW k \in Subs, NEW b \in BOOLEAN, SendCount(k, b),
           UNCHANGED <<version, applied, total>>, told' = told \/ told'.n = total.n
    PROVE  YoungestRight'
<1> DEFINE new == [n |-> begun + 1, label |-> k, of |-> Now, at |-> Unanswered, awaited |-> b]
<1>1. begun \in Nat /\ total.n \in Nat /\ told.n \in Nat /\ total.n <= begun /\ told.n <= begun
  BY DEF TypeOk, Numbered, Tolds
<1>2. \A c \in counts : c.n \in Nat /\ c.n <= begun
  BY DEF TypeOk, Counts, Numbered
<1>3. begun' = begun + 1 /\ counts' = counts \cup {new}
  BY DEF SendCount
<1>4. total'.n < begun' /\ told'.n < begun' /\ begun' > 0
  BY <1>1, <1>3
<1>5. ASSUME NEW c \in counts', c.n = begun' PROVE c.of = Now /\ c.at = Unanswered
  BY <1>1, <1>2, <1>3, <1>5
<1>6. ConfigAt(Now)' = Config'
  BY DEF Config
<1>7. Now' = Now /\ \A j : ConfigAt(j)' = ConfigAt(j)
  BY DEF Now, ConfigAt
<1>8. \A c \in counts' : c.n = begun' => ConfigAt(c.of)'.query = Config'.query
  BY <1>5, <1>6, <1>7
<1>9. total'.n # begun' /\ told'.n # begun'
  BY <1>1, <1>3
<1> QED
  BY <1>4, <1>5, <1>8, <1>9 DEF YoungestRight

(* Whoever waits for the right total goes on waiting for something. *)
LEMMA PursuedNext == IInv /\ [Next]_vars => Pursued'
<1> SUFFICES ASSUME IInv, [Next]_vars, live' PROVE Pursued'
  BY DEF Pursued
<1> USE DEF pipe, timer, bounds
<1>0. TypeOk /\ Numbered /\ Pursued /\ Now \in Subs
  BY DEF IInv, TypeOk, Now, Subs
<1>1. ASSUME UNCHANGED <<live, uncounted, due, applied, finds, waiting>>,
             YoungestRight => YoungestRight'
      PROVE Pursued'
  BY <1>0, <1>1 DEF Pursued, SomeLoad, Subs
<1>2. ASSUME NEW kind \in Kinds, Write(kind) PROVE Pursued'
  BY <1>2 DEF Write, Pursued
<1>3. ASSUME Load(Now), applied' = applied PROVE SomeLoad'
  <2>1. finds'[Now] > 0 /\ Now \in Subs'
    BY <1>0, <1>3 DEF Load, TypeOk, Subs
  <2> QED
    BY <2>1 DEF SomeLoad
<1>4. CASE ChangeArrives \/ ChangeLost \/ Reload
  BY <1>3, <1>4 DEF ChangeArrives, ChangeLost, Reload, Pursued
<1>5. ASSUME NEW c \in TestConfigs, SetConfig(c) PROVE Pursued'
  <2>1. Now + 1 \in Subs' /\ finds'[Now + 1] = 1
    BY <1>0, <1>5, NewSub DEF SetConfig
  <2> QED
    BY <2>1 DEF SomeLoad, Pursued
<1>6. ASSUME NEW c \in TestConfigs, SetConfigFails(c) PROVE Pursued'
  BY <1>6 DEF SetConfigFails
<1>7. CASE Destroy
  BY <1>7 DEF Destroy
<1>8. ASSUME NEW k \in Subs, NEW b \in BOOLEAN, SendCount(k, b),
             UNCHANGED <<version, applied, total>>, told' = told \/ told'.n = total.n
      PROVE Pursued'
  BY <1>0, <1>8, BegunRight DEF Pursued
<1>9. ASSUME NEW k \in Subs, FindResumes(k) PROVE Pursued'
  <2>1. UNCHANGED <<version, applied, total>> /\ (told' = told \/ told'.n = total.n)
    BY <1>9 DEF FindResumes, EmitData
  <2>2. CASE waiting' = k
    BY <1>0, <2>2 DEF Pursued, Subs, NoOne, Now, TypeOk
  <2> QED
    BY <1>8, <1>9, <2>1, <2>2 DEF FindResumes, DelaySendCount
<1>10. ASSUME NEW k \in Subs, FindFails(k) PROVE Pursued'
  BY <1>10 DEF FindFails, Pursued
<1>11. ASSUME NEW c \in counts, AnswerCount(c) PROVE Pursued'
  <2>1. /\ [c EXCEPT !.at = version].n = c.n /\ [c EXCEPT !.at = version].of = c.of
        /\ [c EXCEPT !.at = version].at = version
    BY <1>0 DEF TypeOk, Counts
  <2>2. /\ UNCHANGED <<version, applied, begun, total, told>>
        /\ counts' = (counts \ {c}) \cup {[c EXCEPT !.at = version]}
    BY <1>11 DEF AnswerCount
  <2>3. YoungestRight => YoungestRight'
    BY <2>1, <2>2 DEF YoungestRight, Right, ConfigAt, Config, Now
  <2> QED
    BY <1>1, <1>11, <2>3 DEF AnswerCount
<1>12. ASSUME NEW c \in counts, CountResumes(c) PROVE Pursued'
  <2>1. /\ total'.n = c.n /\ total'.of = c.of /\ total'.at = c.at
        /\ told'.n = c.n /\ told'.of = c.of /\ told'.at = c.at
        /\ c.at # Unanswered /\ counts' \subseteq counts
        /\ UNCHANGED <<version, applied, begun>>
    BY <1>12 DEF CountResumes
  <2>2. YoungestRight => YoungestRight'
    BY <2>1 DEF YoungestRight, Right, ConfigAt, Config, Now
  <2> QED
    BY <1>1, <1>12, <2>2 DEF CountResumes
<1>13. ASSUME NEW c \in counts, CountFails(c) PROVE Pursued'
  <2>1. YoungestRight => YoungestRight'
    BY <1>13 DEF CountFails, YoungestRight, Right, ConfigAt, Config, Now
  <2> QED
    BY <1>1, <1>13, <2>1 DEF CountFails
<1>14. CASE TimerExpires
  <2>1. UNCHANGED <<version, applied, total, told>>
    BY <1>14 DEF TimerExpires
  <2>2. CASE waiting = NoOne
    <3>1. YoungestRight => YoungestRight'
      BY <1>14, <2>2 DEF TimerExpires, YoungestRight, Right, ConfigAt, Config, Now
    <3> QED
      BY <1>1, <1>14, <2>2, <3>1 DEF TimerExpires
  <2>3. CASE waiting # NoOne
    BY <1>0, <1>8, <1>14, <2>1, <2>3 DEF TimerExpires, TypeOk
  <2> QED
    BY <2>2, <2>3
<1>15. CASE UNCHANGED vars
  <2>1. YoungestRight => YoungestRight'
    BY <1>15 DEF vars, YoungestRight, Right, ConfigAt, Config, Now
  <2> QED
    BY <1>1, <1>15, <2>1 DEF vars
<1> QED
  BY <1>2, <1>4, <1>5, <1>6, <1>7, <1>9, <1>10, <1>11, <1>12, <1>13, <1>14, <1>15
     DEF Next, ResumeSome, AnswerSome, CountSome, FailSome

-------------------------------------------------------------------------------
(* The theorems. *)

(* The inductive invariant holds throughout. *)
LEMMA IInvAlways == Spec => []IInv
<1>1. IInv /\ [Next]_vars => IInv'
  BY TypeNext, NumberedNext, DiffsNext, PursuedNext DEF IInv
<1> QED
  BY InvInit, <1>1, PTL DEF Spec

(* Every variable of a store's totals keeps its type, for every set of       *)
(* configs.                                                                  *)
THEOREM TotalsTypeCorrect == Spec => []TypeOk
<1>1. IInv => TypeOk
  BY DEF IInv
<1> QED
  BY IInvAlways, <1>1, PTL

(* However loads, counts, configs and the throttle overlap, a store that has *)
(* come to rest has told the right total last: the youngest count, if it was *)
(* not lost or overtaken, is of the query and the database of now.           *)
THEOREM TotalRightAtRest == Spec => []TotalRight
<1>1. IInv => TotalRight
  <2> SUFFICES ASSUME IInv, live, AtRest, ~uncounted, ~(told.n < begun) PROVE Right(told)
    BY DEF TotalRight
  <2>1. YoungestRight
    BY DEF IInv, Pursued, AtRest, SomeLoad, TypeOk
  <2>2. told.n = begun
    BY DEF IInv, Numbered, TypeOk, Tolds
  <2> QED
    BY <2>1, <2>2 DEF YoungestRight
<1> QED
  BY IInvAlways, <1>1, PTL

(* A count that was put off or overtaken is of the query its subscription    *)
(* asked for or a later one, never an earlier.                               *)
THEOREM TotalsNeverOlder == Spec => []TotalNotOlder
<1>1. IInv => TotalNotOlder
  BY DEF IInv
<1> QED
  BY IInvAlways, <1>1, PTL

(* The map of subscription diffs holds no more than the loads and counts in  *)
(* flight and those that failed.                                             *)
THEOREM DiffsDoNotPileUp == Spec => []DiffsAwaited
<1>1. IInv => DiffsAwaited
  BY DEF IInv
<1> QED
  BY IInvAlways, <1>1, PTL

-------------------------------------------------------------------------------
(* The end of a store. *)

(* A destroyed store has no subscription and no change is on its way to it.  *)
Ended == destroyed => ~live /\ due = <<>>

Finite == IsFiniteSet(counts)

LEMMA EndedNext == Ended /\ [Next]_vars => Ended'
<1> SUFFICES ASSUME Ended, [Next]_vars PROVE Ended'
  OBVIOUS
<1> USE DEF pipe
<1>1. CASE UNCHANGED <<due, live, destroyed>>
  BY <1>1 DEF Ended
<1>2. ASSUME NEW kind, Write(kind) PROVE Ended'
  BY <1>2 DEF Write, Ended
<1>3. CASE ChangeArrives \/ ChangeLost \/ Destroy
  BY <1>3 DEF ChangeArrives, ChangeLost, Destroy, Ended
<1>4. ASSUME NEW c \in TestConfigs, SetConfig(c) \/ SetConfigFails(c) PROVE Ended'
  BY <1>4 DEF SetConfig, SetConfigFails, Ended
<1>5. CASE Reload
  BY <1>5 DEF Reload, Ended
<1> QED
  BY <1>1, <1>2, <1>3, <1>4, <1>5
     DEF Next, ResumeSome, AnswerSome, CountSome, FailSome, FindResumes, FindFails, AnswerCount,
         CountResumes, CountFails, TimerExpires, vars

(* How many counts a step adds or ends. *)
LEMMA OneBegun ==
    ASSUME Finite, NEW k, NEW b, SendCount(k, b)
    PROVE  Finite' /\ Cardinality(counts') <= Cardinality(counts) + 1
<1>1. Cardinality(counts) \in Nat
  BY FS_CardinalityType DEF Finite
<1>2. PICK c : counts' = counts \cup {c}
  BY DEF SendCount
<1> QED
  BY <1>1, <1>2, FS_AddElement DEF Finite

LEMMA OneEnded ==
    ASSUME Finite, NEW c \in counts, counts' = counts \ {c}
    PROVE  Finite' /\ Cardinality(counts') = Cardinality(counts) - 1
  BY FS_RemoveElement DEF Finite

LEMMA OneReplaced ==
    ASSUME Finite, NEW c \in counts, NEW r, counts' = (counts \ {c}) \cup {r}
    PROVE  Finite' /\ Cardinality(counts') <= Cardinality(counts)
<1>1. Cardinality(counts) \in Nat
  BY FS_CardinalityType DEF Finite
<1> DEFINE rest == counts \ {c}
<1>2. IsFiniteSet(rest) /\ Cardinality(rest) = Cardinality(counts) - 1
  BY FS_RemoveElement DEF Finite
<1>3. counts' = rest \cup {r}
  OBVIOUS
<1> HIDE DEF rest
<1>4. /\ IsFiniteSet(rest \cup {r})
      /\ Cardinality(rest \cup {r}) = IF r \in rest THEN Cardinality(rest)
                                                   ELSE Cardinality(rest) + 1
  BY <1>2, FS_AddElement
<1>5. Cardinality(rest \cup {r}) <= Cardinality(counts)
  BY <1>1, <1>2, <1>4
<1> QED
  BY <1>3, <1>4, <1>5 DEF Finite

(* What each step does to the counts: the steps that begin one use up a load *)
(* or the call that the throttle held back.                                  *)
LEMMA CountingStep ==
    ASSUME TypeOk, Finite, [Next]_vars
    PROVE  /\ Finite'
           /\ \/ Counting' <= Counting
              \/ /\ Counting' <= Counting + 1
                 /\ \E k \in Subs : finds[k] > 0 /\ finds' = [finds EXCEPT ![k] = @ - 1]
<1> USE DEF timer
<1>0. Cardinality(counts) \in Nat /\ \A k \in Subs : k # NoOne
  BY FS_CardinalityType DEF Finite, Subs, NoOne, TypeOk
<1>1. CASE UNCHANGED <<counts, waiting>>
  BY <1>0, <1>1 DEF Counting, Finite
<1>2. ASSUME NEW k \in Subs, FindResumes(k)
      PROVE  Finite' /\ Counting' <= Counting + 1
  <2>1. ASSUME NEW b, SendCount(k, b), waiting' = waiting \/ waiting' = NoOne
        PROVE  Finite' /\ Counting' <= Counting + 1
    <3>1. Finite' /\ Cardinality(counts') <= Cardinality(counts) + 1 /\ Cardinality(counts') \in Nat
      BY <2>1, OneBegun, FS_CardinalityType DEF Finite
    <3> QED
      BY <1>0, <2>1, <3>1 DEF Counting
  <2>2. CASE UNCHANGED counts
    BY <1>0, <2>2 DEF Counting, Finite
  <2> QED
    BY <1>2, <2>1, <2>2 DEF FindResumes, DelaySendCount
<1>3. ASSUME NEW c \in counts, AnswerCount(c) PROVE Finite' /\ Counting' <= Counting
  <2>1. Finite' /\ Cardinality(counts') <= Cardinality(counts) /\ waiting' = waiting
    BY <1>3, OneReplaced DEF AnswerCount
  <2>2. Cardinality(counts') \in Nat
    BY <2>1, FS_CardinalityType DEF Finite
  <2> QED
    BY <1>0, <2>1, <2>2 DEF Counting
<1>4. ASSUME NEW c \in counts, CountResumes(c) \/ CountFails(c) PROVE Finite' /\ Counting' <= Counting
  <2>1. Finite' /\ Cardinality(counts') = Cardinality(counts) - 1 /\ waiting' = waiting
    BY <1>4, OneEnded DEF CountResumes, CountFails
  <2> QED
    BY <1>0, <2>1 DEF Counting
<1>5. CASE TimerExpires
  <2>1. CASE waiting = NoOne /\ UNCHANGED counts
    BY <1>0, <1>5, <2>1 DEF TimerExpires, Counting, Finite
  <2>2. CASE waiting # NoOne /\ SendCount(waiting, FALSE)
    <3>1. Finite' /\ Cardinality(counts') <= Cardinality(counts) + 1 /\ waiting' = NoOne
      BY <1>5, <2>2, OneBegun DEF TimerExpires
    <3>2. Cardinality(counts') \in Nat
      BY <3>1, FS_CardinalityType DEF Finite
    <3> QED
      BY <1>0, <2>2, <3>1, <3>2 DEF Counting
  <2> QED
    BY <1>5, <2>1, <2>2 DEF TimerExpires
<1> QED
  BY <1>1, <1>2, <1>3, <1>4, <1>5
     DEF Next, ResumeSome, AnswerSome, CountSome, FailSome, Write, ChangeArrives, ChangeLost,
         SetConfig, SetConfigFails, Reload, Destroy, FindResumes, FindFails, vars

(* The steps that a destroyed store can take. *)
LEMMA DwindleStep ==
    ASSUME TypeOk, Ended, Finite, destroyed, [Next]_vars
    PROVE  \/ UNCHANGED finds /\ Counting' <= Counting
           \/ /\ Counting' <= Counting + 1
              /\ \E k \in Subs : finds[k] > 0 /\ finds' = [finds EXCEPT ![k] = @ - 1]
<1>0. Cardinality(counts) \in Nat /\ Counting \in Nat
  BY FS_CardinalityType DEF Finite, Counting
<1>1. CASE UNCHANGED finds
  <2>1. ASSUME NEW k \in Subs, finds[k] > 0 PROVE finds # [finds EXCEPT ![k] = @ - 1]
    BY <2>1 DEF TypeOk
  <2> QED
    BY <1>1, <2>1, CountingStep
<1>2. ASSUME NEW k \in Subs, FindResumes(k) \/ FindFails(k)
      PROVE  finds[k] > 0 /\ finds' = [finds EXCEPT ![k] = @ - 1]
  BY <1>2 DEF FindResumes, FindFails
<1>3. Counting' <= Counting \/ Counting' <= Counting + 1
  BY CountingStep
<1>4. Counting' <= Counting + 1
  <2>1. Finite'
    BY CountingStep
  <2>2. Counting' \in Nat
    BY <2>1, FS_CardinalityType DEF Finite, Counting
  <2> QED
    BY <1>0, <1>3, <2>2
<1>5. ~ChangeArrives /\ ~ChangeLost /\ ~Reload /\ \A c : ~SetConfig(c) /\ ~SetConfigFails(c)
  BY DEF ChangeArrives, ChangeLost, Reload, SetConfig, SetConfigFails, Ended
<1> QED
  BY <1>1, <1>2, <1>4, <1>5
     DEF Next, ResumeSome, AnswerSome, CountSome, FailSome, Write, Destroy, AnswerCount,
         CountResumes, CountFails, TimerExpires, vars

(* What a destroyed store has in flight dwindles: each load begins or puts   *)
(* off one count at most, and nothing begins a load.                         *)
THEOREM DestroyedStoresDwindle == Spec => DestroyedDwindles
<1>1. Init => Ended /\ Finite
  BY FS_EmptySet DEF Init, Ended, Finite
<1>2. TypeOk /\ Finite /\ [Next]_vars => Finite'
  BY CountingStep
<1>3. TypeOk /\ Ended /\ Finite /\ [Next]_vars =>
         [destroyed => \/ UNCHANGED finds /\ Counting' <= Counting
                       \/ /\ Counting' <= Counting + 1
                          /\ \E k \in Subs : /\ finds[k] > 0
                                             /\ finds' = [finds EXCEPT ![k] = @ - 1]]_vars
  BY DwindleStep
<1> QED
  BY <1>1, <1>2, <1>3, EndedNext, TotalsTypeCorrect, PTL DEF Spec, DestroyedDwindles

-------------------------------------------------------------------------------
(* The totals as a live view. *)

(* No total, counted, known or told, is of a query that was not asked yet.   *)
OfPast ==
    /\ \A c \in counts : c.of <= Now
    /\ total.of <= Now /\ told.of <= Now

LEMMA OfPastNext == TypeOk /\ OfPast /\ [Next]_vars => OfPast'
<1> SUFFICES ASSUME TypeOk, OfPast, [Next]_vars PROVE OfPast'
  OBVIOUS
<1> USE DEF pipe, timer, bounds
<1>1. Now \in Nat /\ total.of \in Nat /\ told.of \in Nat /\ \A c \in counts : c.of \in Nat
  BY DEF TypeOk, Now, Tolds, Counts
<1>2. CASE UNCHANGED <<applied, counts, total, told>>
  BY <1>2 DEF OfPast, Now
<1>3. ASSUME NEW k, NEW b, SendCount(k, b) PROVE \A c \in counts' : c \in counts \/ c.of = Now
  BY <1>3 DEF SendCount
<1>4. ASSUME NEW c \in TestConfigs, SetConfig(c) \/ SetConfigFails(c) PROVE OfPast'
  <2>1. Now' = Now + 1 /\ UNCHANGED <<counts, total, told>>
    BY <1>4 DEF SetConfig, SetConfigFails, TypeOk, Now
  <2> QED
    BY <1>1, <2>1 DEF OfPast
<1>5. ASSUME NEW k \in Subs, FindResumes(k) PROVE OfPast'
  <2>1. \A c \in counts' : c \in counts \/ c.of = Now
    BY <1>3, <1>5 DEF FindResumes, DelaySendCount
  <2>2. total' = total /\ Now' = Now /\ (told' = told \/ told'.of = total.of)
    BY <1>5 DEF FindResumes, EmitData, Now
  <2> QED
    BY <1>1, <2>1, <2>2 DEF OfPast
<1>6. ASSUME NEW c \in counts, AnswerCount(c) PROVE OfPast'
  <2>1. [c EXCEPT !.at = version].of = c.of
    BY DEF TypeOk, Counts
  <2> QED
    BY <1>6, <2>1 DEF AnswerCount, OfPast, Now
<1>7. ASSUME NEW c \in counts, CountResumes(c) \/ CountFails(c) PROVE OfPast'
  BY <1>7 DEF CountResumes, CountFails, OfPast, Now
<1>8. CASE TimerExpires
  <2>1. \A c \in counts' : c \in counts \/ c.of = Now
    BY <1>3, <1>8 DEF TimerExpires
  <2>2. UNCHANGED <<total, told, applied>>
    BY <1>8 DEF TimerExpires
  <2> QED
    BY <1>1, <2>1, <2>2 DEF OfPast, Now
<1> QED
  BY <1>2, <1>4, <1>5, <1>6, <1>7, <1>8
     DEF Next, ResumeSome, AnswerSome, CountSome, FailSome, Write, ChangeArrives, ChangeLost,
         Reload, Destroy, FindFails, vars

(* What a store may do whose totals are at rest: find that its timer has     *)
(* expired for nobody, which nobody notices, or what disturbs the rest and   *)
(* leaves what was told alone.                                               *)
LEMMA RestingStep ==
    ASSUME TypeOk, live, AtRest, [Next]_vars
    PROVE  /\ told' = told
           /\ \A k \in 1 .. Now : applied'[k] = applied[k]
           /\ ~(live /\ AtRest)' \/ UNCHANGED <<version, applied, begun, uncounted>>
<1> USE DEF pipe, timer, bounds
<1>1. /\ Now \in Subs /\ Now \in Nat /\ due = <<>> /\ counts = {} /\ waiting = NoOne
      /\ \A k \in Subs : finds[k] = 0
  BY DEF TypeOk, AtRest, Now, Subs
<1>2. CASE UNCHANGED vars
  BY <1>2 DEF vars
<1>3. ASSUME NEW kind \in Kinds, Write(kind)
      PROVE  told' = told /\ applied' = applied /\ ~AtRest'
  BY <1>3 DEF Write, AtRest
<1>4. ASSUME NEW c \in TestConfigs, SetConfig(c)
      PROVE  told' = told /\ (\A k \in 1 .. Now : applied'[k] = applied[k]) /\ ~AtRest'
  <2>1. Now + 1 \in Subs' /\ finds'[Now + 1] = 1
    BY <1>4, NewSub DEF SetConfig
  <2>2. ~AtRest'
    BY <2>1 DEF AtRest
  <2>3. told' = told /\ applied' = Append(applied, c)
    BY <1>4 DEF SetConfig
  <2> QED
    BY <2>2, <2>3 DEF TypeOk, Now
<1>5. ASSUME NEW c, SetConfigFails(c) PROVE FALSE
  BY <1>5 DEF SetConfigFails
<1>6. CASE Reload
  <2>1. Now \in Subs' /\ finds'[Now] = 1 /\ UNCHANGED <<told, applied>>
    BY <1>1, <1>6 DEF Reload, Load, TypeOk, Subs
  <2>2. ~AtRest'
    BY <2>1 DEF AtRest
  <2> QED
    BY <2>1, <2>2
<1>7. CASE Destroy
  BY <1>7 DEF Destroy
<1>8. CASE TimerExpires
  BY <1>1, <1>8 DEF TimerExpires
<1>9. CASE ChangeArrives \/ ChangeLost
  BY <1>1, <1>9 DEF ChangeArrives, ChangeLost
<1>10. ASSUME NEW k \in Subs, FindResumes(k) \/ FindFails(k) PROVE FALSE
  <2>1. finds[k] > 0
    BY <1>10 DEF FindResumes, FindFails
  <2> QED
    BY <1>1, <2>1
<1> QED
  BY <1>1, <1>2, <1>3, <1>4, <1>5, <1>6, <1>7, <1>8, <1>9, <1>10
     DEF Next, ResumeSome, AnswerSome, CountSome, FailSome

(* What was told is of the past, which stays as it is. *)
LEMMA ShownStays ==
    ASSUME TypeOk, OfPast, told' = told, Now' \in Nat,
           \A k \in 1 .. Now : applied'[k] = applied[k]
    PROVE  Shown' = Shown
<1>1. told.of \in Nat /\ told.of <= Now /\ Now \in Nat
  BY DEF TypeOk, OfPast, Tolds, Now
<1>2. ConfigAt(told.of)' = ConfigAt(told.of)
  BY <1>1 DEF ConfigAt
<1> QED
  BY <1>2 DEF Shown

(* Every step of the totals is one of the view's or leaves it as it is. *)
LEMMA StepOfView ==
    ASSUME TypeOk, TypeOk', OfPast, TotalRight', [Next]_vars
    PROVE  [View!Next]_(View!view)
<1> DEFINE settled == live /\ AtRest
<1>1. settled \in BOOLEAN /\ settled' \in BOOLEAN
  BY DEF TypeOk, AtRest
<1>2. CASE ~settled /\ ~settled'
  BY <1>2 DEF View!Next, View!Work
<1>3. CASE ~settled /\ settled'
  <2>1. Right(told)' \/ (told.n < begun \/ uncounted)'
    BY <1>3 DEF TotalRight
  <2>2. ASSUME Right(told)' PROVE Shown' = <<Config.query, version>>'
    <3>1. told'.n # 0
      BY <2>2 DEF Right, TypeOk, Tolds
    <3> QED
      BY <2>2, <3>1 DEF Right, Shown
  <2> QED
    BY <1>3, <2>1, <2>2 DEF View!Next, View!Settle
<1>4. CASE settled
  <2>1. /\ told' = told
        /\ ~settled' \/ UNCHANGED <<version, applied, begun, uncounted>>
        /\ \A k \in 1 .. Now : applied'[k] = applied[k]
    BY <1>4, RestingStep
  <2>2. Shown' = Shown
    BY <2>1, ShownStays DEF TypeOk, Now
  <2>3. CASE ~settled'
    BY <1>4, <2>2, <2>3 DEF View!Next, View!Disturb
  <2>4. CASE settled'
    <3>1. UNCHANGED <<version, applied, begun, uncounted, told>>
      BY <2>1, <2>4
    <3>2. Config' = Config
      BY <3>1 DEF Config, ConfigAt, Now
    <3>3. <<Config.query, version>>' = <<Config.query, version>>
      BY <3>1, <3>2
    <3>4. (told.n < begun \/ uncounted)' = (told.n < begun \/ uncounted)
      BY <3>1
    <3>5. settled' = settled
      BY <1>1, <1>4, <2>4
    <3> QED
      BY <2>2, <3>3, <3>4, <3>5 DEF View!view
  <2> QED
    BY <2>3, <2>4
<1> QED
  BY <1>2, <1>3, <1>4

(* A collection store implements a live view of its query's total: what the  *)
(* client was told is left alone while all is quiet, whatever alters the     *)
(* count sets off a load or a count first, and the store comes to rest on    *)
(* the right total or with an excuse.                                        *)
THEOREM TotalIsLiveView == Spec => ImplementsLiveView
<1>1. Init => OfPast
  BY DEF Init, OfPast, Now, NoTotal
<1>2. Init => View!Init
  BY DEF Init, View!Init
<1>3. TypeOk /\ TypeOk' /\ OfPast /\ TotalRight' /\ [Next]_vars => [View!Next]_(View!view)
  BY StepOfView
<1> QED
  BY <1>1, <1>2, <1>3, OfPastNext, TotalsTypeCorrect, TotalRightAtRest, PTL
     DEF Spec, ImplementsLiveView, View!Spec
===============================================================================
