------------------------------ MODULE ClientProofs ------------------------------
(* What holds of a client's subscriptions for every set of targets and every *)
(* bound.                                                                    *)
EXTENDS OwservableClient, TLAPS

(* NoOrphans is not inductive by itself: a reload starts the pipeline of the *)
(* store a target is entered with, which must be one made for that target.   *)
MadeForIt == \A t \in Targets : stores[t] # NoStore => targetOf[stores[t]] = t

ClientInv == ClientTypeOk /\ NoOrphans /\ MadeForIt

(* A client begins without stores. *)
LEMMA ClientInvInit == ClientInit => ClientInv
<1> SUFFICES ASSUME ClientInit PROVE ClientInv
  OBVIOUS
<1>1. targetOf \in Seq(Targets) /\ sent \in Seq(Messages)
  BY DEF ClientInit
<1>2. ClientTypeOk
  BY <1>1 DEF ClientInit, ClientTypeOk
<1>3. NoOrphans /\ MadeForIt
  BY DEF ClientInit, NoOrphans, MadeForIt
<1> QED
  BY <1>2, <1>3 DEF ClientInv

(* Configuring a store that a target is entered with. *)
LEMMA Configured ==
    ASSUME ClientInv, NEW t \in Targets, stores[t] # NoStore, Configure(stores[t]),
           UNCHANGED <<connected, stores, subs, targetOf, attached, messages>>
    PROVE  ClientInv'
<1>1. stores[t] \in Stores /\ targetOf[stores[t]] = t
  BY DEF ClientInv, ClientTypeOk, MadeForIt
<1>2. /\ running' \subseteq running \cup {stores[t]}
      /\ refused' \subseteq refused \cup {"start"}
  BY DEF Configure, Start
<1>3. ClientTypeOk'
  BY <1>1, <1>2 DEF ClientInv, ClientTypeOk, Stores, messages, Refusals
<1>4. NoOrphans' /\ MadeForIt'
  BY <1>1, <1>2 DEF ClientInv, NoOrphans, MadeForIt
<1> QED
  BY <1>3, <1>4 DEF ClientInv

(* The new store is the one its target is entered with, and no other target's. *)
LEMMA InvSubscribe == ASSUME ClientInv, NEW t \in Targets, Subscribe(t) PROVE ClientInv'
<1> DEFINE s == Len(targetOf) + 1
<1>1. /\ targetOf' = Append(targetOf, t) /\ targetOf \in Seq(Targets)
      /\ stores[t] = NoStore
      /\ stores' = [stores EXCEPT ![t] = s] /\ subs' = [subs EXCEPT ![t] = s]
      /\ attached' = attached \cup {s}
      /\ running' \subseteq running \cup {s} /\ refused' \subseteq refused \cup {"start"}
      /\ UNCHANGED <<connected, emitted, processing, sent, stopped>>
  BY DEF Subscribe, Configure, Start, messages, ClientInv, ClientTypeOk
<1>2. /\ targetOf' \in Seq(Targets) /\ Len(targetOf') = s /\ s \in Nat \ {0}
      /\ targetOf'[s] = t /\ \A i \in Stores : targetOf'[i] = targetOf[i]
  BY <1>1 DEF Stores
<1>3. Stores' = Stores \cup {s} /\ s \notin Stores
  BY <1>1, <1>2 DEF Stores
<1> HIDE DEF s
<1>4. ClientTypeOk'
  BY <1>1, <1>2, <1>3 DEF ClientInv, ClientTypeOk, Refusals
<1>5. NoOrphans'
  <2>1. subs' = stores'
    BY <1>1 DEF ClientInv, NoOrphans
  <2>2. ASSUME NEW i \in attached' \cup running', i # s PROVE stores'[targetOf'[i]] = i
    <3>1. i \in Stores /\ stores[targetOf[i]] = i
      BY <1>1, <2>2 DEF ClientInv, NoOrphans, ClientTypeOk
    <3>2. targetOf[i] # t /\ targetOf[i] \in Targets
      BY <1>1, <3>1 DEF Stores, NoStore
    <3> QED
      BY <1>1, <1>2, <3>1, <3>2 DEF ClientInv, ClientTypeOk
  <2>3. stores'[targetOf'[s]] = s
    BY <1>1, <1>2 DEF ClientInv, ClientTypeOk
  <2> QED
    BY <2>1, <2>2, <2>3 DEF NoOrphans
<1>6. MadeForIt'
  <2> SUFFICES ASSUME NEW u \in Targets, stores'[u] # NoStore PROVE targetOf'[stores'[u]] = u
    BY DEF MadeForIt
  <2>1. CASE u = t
    BY <1>1, <1>2, <2>1 DEF ClientInv, ClientTypeOk
  <2>2. CASE u # t
    <3>1. stores'[u] = stores[u]
      BY <1>1, <2>2 DEF ClientInv, ClientTypeOk
    <3>2. stores[u] \in Stores /\ targetOf[stores[u]] = u
      BY <3>1 DEF ClientInv, ClientTypeOk, MadeForIt
    <3> QED
      BY <1>2, <3>1, <3>2
  <2> QED
    BY <2>1, <2>2
<1> QED
  BY <1>4, <1>5, <1>6 DEF ClientInv

(* The target's store is both the one unsubscribed from and the one destroyed. *)
LEMMA InvUnsubscribe == ASSUME ClientInv, NEW t \in Targets, Unsubscribe(t) PROVE ClientInv'
<1>1. /\ attached' = attached \ {subs[t]} /\ running' = running \ {stores[t]}
      /\ stores' = [stores EXCEPT ![t] = NoStore] /\ subs' = [subs EXCEPT ![t] = NoStore]
      /\ UNCHANGED <<connected, targetOf, emitted, processing, sent, stopped, refused>>
  BY DEF Unsubscribe, messages
<1>2. ClientTypeOk'
  BY <1>1 DEF ClientInv, ClientTypeOk, Stores
<1>3. NoOrphans'
  <2>1. subs = stores /\ subs' = stores'
    BY <1>1 DEF ClientInv, NoOrphans
  <2>2. ASSUME NEW i \in attached' \cup running' PROVE stores'[targetOf[i]] = i
    <3>1. i \in Stores /\ stores[targetOf[i]] = i /\ i # stores[t]
      BY <1>1, <2>1, <2>2 DEF ClientInv, NoOrphans, ClientTypeOk
    <3>2. targetOf[i] \in Targets /\ targetOf[i] # t
      BY <3>1 DEF ClientInv, ClientTypeOk, Stores
    <3> QED
      BY <1>1, <3>1, <3>2 DEF ClientInv, ClientTypeOk
  <2> QED
    BY <1>1, <2>1, <2>2 DEF NoOrphans
<1>4. MadeForIt'
  BY <1>1 DEF ClientInv, MadeForIt, ClientTypeOk
<1> QED
  BY <1>2, <1>3, <1>4 DEF ClientInv

(* Every store that runs or is attached is in the maps, and they are emptied. *)
LEMMA InvDisconnected == ASSUME ClientInv, Disconnected PROVE ClientInv'
<1>1. /\ attached' = attached \ {subs[t] : t \in Targets}
      /\ running' = running \ {stores[t] : t \in Targets}
      /\ stores' = [t \in Targets |-> NoStore] /\ subs' = [t \in Targets |-> NoStore]
      /\ connected' = FALSE
      /\ UNCHANGED <<targetOf, emitted, processing, sent, stopped, refused>>
  BY DEF Disconnected, ClearSubscriptions, messages
<1>2. attached' = {} /\ running' = {}
  <2>1. \A i \in attached \cup running : targetOf[i] \in Targets /\ stores[targetOf[i]] = i
    BY DEF ClientInv, ClientTypeOk, NoOrphans, Stores
  <2>2. subs = stores
    BY DEF ClientInv, NoOrphans
  <2> QED
    BY <1>1, <2>1, <2>2
<1>3. ClientTypeOk'
  BY <1>1, <1>2 DEF ClientInv, ClientTypeOk, Stores
<1>4. NoOrphans' /\ MadeForIt'
  BY <1>1, <1>2 DEF NoOrphans, MadeForIt
<1> QED
  BY <1>3, <1>4 DEF ClientInv

(* Messages come and go without touching the maps. *)
LEMMA InvMessages ==
    ASSUME ClientInv, \/ \E s \in attached : Receive(s) \/ StoreFails(s)
                 \/ \E m \in processing : Processed(m) \/ ProcessingFails(m)
    PROVE  ClientInv'
<1>1. UNCHANGED <<connected, stores, subs, targetOf, running, refused>> /\ attached' \subseteq attached
  BY DEF Receive, StoreFails, Processed, ProcessingFails
<1>2. NoOrphans' /\ MadeForIt'
  BY <1>1 DEF ClientInv, NoOrphans, MadeForIt
<1>3. ASSUME NEW m \in Messages, Send(m) PROVE sent' \in Seq(Messages)
  BY <1>3 DEF Send, ClientInv, ClientTypeOk
<1>4. ASSUME NEW s \in attached, Receive(s) PROVE ClientTypeOk'
  <2> DEFINE m == [n |-> emitted + 1, target |-> targetOf[s], store |-> s]
  <2>1. m \in Messages
    BY DEF ClientInv, ClientTypeOk, Messages, Stores
  <2>2. /\ emitted' = emitted + 1 /\ stopped' = stopped
        /\ processing' = processing \/ processing' = processing \cup {m}
        /\ sent' = sent \/ Send(m)
    BY <1>4 DEF Receive, IsValidTarget
  <2> HIDE DEF m
  <2>3. processing' \subseteq Messages /\ emitted' \in Nat
    BY <2>1, <2>2 DEF ClientInv, ClientTypeOk
  <2>4. sent' \in Seq(Messages)
    BY <1>3, <2>1, <2>2 DEF ClientInv, ClientTypeOk
  <2> QED
    BY <1>1, <2>2, <2>3, <2>4 DEF ClientInv, ClientTypeOk, Stores
<1>5. ASSUME NEW s \in attached, StoreFails(s) PROVE ClientTypeOk'
  BY <1>1, <1>5 DEF StoreFails, ClientInv, ClientTypeOk, Stores
<1>6. ASSUME NEW m \in processing, Processed(m) PROVE ClientTypeOk'
  <2>1. m \in Messages /\ Send(m) /\ processing' \subseteq processing
    BY <1>6 DEF Processed, ClientInv, ClientTypeOk
  <2>2. sent' \in Seq(Messages)
    BY <1>3, <2>1
  <2> QED
    BY <1>1, <1>6, <2>1, <2>2 DEF Processed, ClientInv, ClientTypeOk, Stores
<1>7. ASSUME NEW m \in processing, ProcessingFails(m) PROVE ClientTypeOk'
  BY <1>1, <1>7 DEF ProcessingFails, ClientInv, ClientTypeOk, Stores
<1> QED
  BY <1>2, <1>4, <1>5, <1>6, <1>7 DEF ClientInv

(* The steps of the client that concern its subscriptions: the session's     *)
(* leave them as they are.                                                   *)
LEMMA ClientSteps ==
    [Next]_vars => \/ \E t \in Targets : Reconfigure(t) \/ Subscribe(t) \/ Unsubscribe(t) \/ Reload(t)
                   \/ Disconnected
                   \/ \E s \in attached : Receive(s) \/ StoreFails(s)
                   \/ \E m \in processing : Processed(m) \/ ProcessingFails(m)
                   \/ UNCHANGED clientVars
  BY DEF Next, vars, Consume, Forward, CheckEnds, NextCheck, clientVars, Authenticate, CheckDone,
         CheckRejected, TimerFires

(* Every step keeps the invariant. *)
LEMMA ClientInvNext == ClientInv /\ [Next]_vars => ClientInv'
<1> SUFFICES ASSUME ClientInv, [Next]_vars PROVE ClientInv'
  OBVIOUS
<1>1. CASE UNCHANGED clientVars
  BY <1>1 DEF clientVars, client, ClientInv, ClientTypeOk, NoOrphans, MadeForIt, Stores
<1>2. ASSUME NEW t \in Targets, Reconfigure(t) PROVE ClientInv'
  BY <1>2, Configured DEF Reconfigure
<1>3. ASSUME NEW t \in Targets, Reload(t) PROVE ClientInv'
  <2>1. CASE stores[t] # NoStore /\ Start(stores[t])
    BY <1>3, <2>1, Configured DEF Reload, Configure
  <2>2. CASE running' = running /\ refused' = refused \cup {"reload"}
    <3>1. UNCHANGED <<connected, stores, subs, targetOf, attached, emitted, processing, sent, stopped>>
      BY <1>3 DEF Reload, messages
    <3>2. ClientTypeOk'
      BY <2>2, <3>1 DEF ClientInv, ClientTypeOk, Stores, Refusals
    <3>3. NoOrphans' /\ MadeForIt'
      BY <2>2, <3>1 DEF ClientInv, NoOrphans, MadeForIt
    <3> QED
      BY <3>2, <3>3 DEF ClientInv
  <2> QED
    BY <1>3, <2>1, <2>2 DEF Reload
<1> QED
  BY <1>1, <1>2, <1>3, InvSubscribe, InvUnsubscribe, InvDisconnected, InvMessages, ClientSteps

(* The invariant holds in every behaviour. *)
LEMMA ClientInvAlways == Spec => []ClientInv
  <1>1. Init => ClientInit
  BY DEF Init
<1> QED
  BY <1>1, ClientInvInit, ClientInvNext, PTL DEF Spec

(* The variables keep their types. *)
THEOREM ClientTypeCorrect == Spec => []ClientTypeOk
<1>1. ClientInv => ClientTypeOk
  BY DEF ClientInv
<1> QED
  BY <1>1, ClientInvAlways, PTL

(* Every store attached to the client or running a pipeline is the one its   *)
(* target is entered with, and the two maps agree.                           *)
THEOREM NoStoreLeftBehind == Spec => []NoOrphans
<1>1. ClientInv => NoOrphans
  BY DEF ClientInv
<1> QED
  BY <1>1, ClientInvAlways, PTL

-------------------------------------------------------------------------------
(* Only messages of targets with a middleware wait for one. *)
Awaiting == \A m \in processing : m.target \in Filtered

(* A message is only ever put to wait when its target has a middleware. *)
LEMMA AwaitingNext == Awaiting /\ [Next]_vars => Awaiting'
<1> SUFFICES ASSUME Awaiting, [Next]_vars PROVE Awaiting'
  OBVIOUS
<1>1. CASE UNCHANGED processing
  BY <1>1 DEF Awaiting
<1>2. ASSUME NEW s \in attached, Receive(s) PROVE Awaiting'
  BY <1>2 DEF Receive, Awaiting
<1>3. ASSUME NEW m \in processing, Processed(m) \/ ProcessingFails(m) PROVE Awaiting'
  BY <1>3 DEF Processed, ProcessingFails, Awaiting
<1>4. ASSUME NEW t \in Targets, Reconfigure(t) \/ Subscribe(t) \/ Unsubscribe(t) \/ Reload(t)
      PROVE  UNCHANGED processing
  BY <1>4 DEF Reconfigure, Subscribe, Unsubscribe, Reload, messages
<1>5. ASSUME NEW s \in attached, StoreFails(s) PROVE UNCHANGED processing
  BY <1>5 DEF StoreFails
<1>6. Disconnected \/ UNCHANGED clientVars => UNCHANGED processing
  BY DEF Disconnected, ClearSubscriptions, messages, clientVars, client
<1> QED
  BY <1>1, <1>2, <1>3, <1>4, <1>5, <1>6, ClientSteps

(* What is new among the messages sent, if anything, is the message given.   *)
LEMMA NewInSent ==
    ASSUME ClientInv, NEW m, Send(m), NEW i \in (Len(sent) + 1) .. Len(sent')
    PROVE  sent'[i] = m
<1>1. sent' = sent \/ sent' = Append(sent, m)
  BY DEF Send
<1>2. sent \in Seq(Messages) /\ i \in Int /\ i > Len(sent) /\ i <= Len(sent')
  BY DEF ClientInv, ClientTypeOk
<1>3. sent' = Append(sent, m) /\ i = Len(sent) + 1
  BY <1>1, <1>2
<1> QED
  BY <1>2, <1>3

(* A message a store sends past no middleware is one of its target's present *)
(* store; the others that are sent were waiting for a middleware.            *)
LEMMA NewMessages ==
    ASSUME ClientInv, Awaiting, [Next]_vars, NEW i \in (Len(sent) + 1) .. Len(sent')
    PROVE  sent'[i].target \in Filtered \/ stores[sent'[i].target] = sent'[i].store
<1>1. CASE UNCHANGED sent
  BY <1>1 DEF ClientInv, ClientTypeOk
<1>2. ASSUME NEW s \in attached, Receive(s)
      PROVE  stores[sent'[i].target] = sent'[i].store
  <2> DEFINE m == [n |-> emitted + 1, target |-> targetOf[s], store |-> s]
  <2>1. stores[m.target] = m.store
    BY DEF ClientInv, NoOrphans
  <2>2. CASE Send(m)
    BY <2>1, <2>2, NewInSent
  <2>3. CASE UNCHANGED sent
    BY <2>3 DEF ClientInv, ClientTypeOk
  <2> QED
    BY <1>2, <2>2, <2>3 DEF Receive
<1>3. ASSUME NEW m \in processing, Processed(m) PROVE sent'[i].target \in Filtered
  BY <1>3, NewInSent DEF Processed, Awaiting
<1>4. ASSUME NEW m \in processing, ProcessingFails(m) PROVE UNCHANGED sent
  BY <1>4 DEF ProcessingFails
<1>5. ASSUME NEW t \in Targets, Reconfigure(t) \/ Subscribe(t) \/ Unsubscribe(t) \/ Reload(t)
      PROVE  UNCHANGED sent
  BY <1>5 DEF Reconfigure, Subscribe, Unsubscribe, Reload, messages
<1>6. ASSUME NEW s \in attached, StoreFails(s) PROVE UNCHANGED sent
  BY <1>6 DEF StoreFails
<1>7. Disconnected \/ UNCHANGED clientVars => UNCHANGED sent
  BY DEF Disconnected, ClearSubscriptions, messages, clientVars, client
<1> QED
  BY <1>1, <1>2, <1>3, <1>4, <1>5, <1>6, <1>7, ClientSteps

(* Of a target without a middleware the client only sends what the store the *)
(* target is entered with at that moment has said.                           *)
THEOREM OnlyPresentStoresSpeak == Spec => SpeaksForItself
<1>1. Init => Awaiting
  BY DEF Init, ClientInit, Awaiting
<1>2. ClientInv /\ Awaiting /\ [Next]_vars =>
        [\A i \in (Len(sent) + 1) .. Len(sent') :
            LET m == sent'[i] IN m.target \notin Filtered => stores[m.target] = m.store]_clientVars
  BY NewMessages
<1> QED
  BY <1>1, <1>2, AwaitingNext, ClientInvAlways, PTL DEF Spec, SpeaksForItself

===============================================================================
