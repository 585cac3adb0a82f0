------------------------- MODULE OwservableClientProofs -------------------------
(* What holds of a client's subscriptions and its session together.          *)
EXTENDS ClientProofs, SessionProofs, FiniteSetTheorems

(* A client that has left has no targets. *)
Emptied == ~connected => \A t \in Targets : stores[t] = NoStore

(* Whoever leaves empties the maps, and no request comes after that. *)
LEMMA EmptiedNext == Emptied /\ [Next]_vars => Emptied'
<1> SUFFICES ASSUME Emptied, [Next]_vars PROVE Emptied'
  OBVIOUS
<1>1. ASSUME NEW t \in Targets, Reconfigure(t) \/ Subscribe(t) \/ Unsubscribe(t) \/ Reload(t)
      PROVE  connected'
  BY <1>1 DEF Reconfigure, Subscribe, Unsubscribe, Reload
<1>2. CASE Disconnected
  BY <1>2 DEF Disconnected, ClearSubscriptions, Emptied
<1>3. ASSUME \/ \E s \in attached : Receive(s) \/ StoreFails(s)
             \/ \E m \in processing : Processed(m) \/ ProcessingFails(m)
      PROVE  UNCHANGED <<connected, stores>>
  BY <1>3 DEF Receive, StoreFails, Processed, ProcessingFails
<1>4. UNCHANGED clientVars => UNCHANGED <<connected, stores>>
  BY DEF clientVars, client
<1> QED
  BY <1>1, <1>2, <1>3, <1>4, ClientSteps DEF Emptied

(* No target is left that a store could be attached or running for. *)
LEMMA NothingRuns == ClientInv /\ Emptied /\ ~connected => attached = {} /\ running = {}
<1> SUFFICES ASSUME ClientInv, Emptied, ~connected, NEW s \in attached \cup running PROVE FALSE
  OBVIOUS
<1>1. s \in Stores /\ targetOf[s] \in Targets /\ stores[targetOf[s]] = s
  BY DEF ClientInv, ClientTypeOk, NoOrphans, Stores
<1> QED
  BY <1>1 DEF Emptied, Stores, NoStore

(* Each check arms one timer in place of the last, each timer starts one check. *)
LEMMA ChecksDwindle ==
    ASSUME SessionInv, ~connected, [Next]_vars
    PROVE  checks' + Cardinality(armed') <= checks + Cardinality(armed)
<1>1. SessionInv' /\ checks \in Nat
  BY SessionInvNext DEF SessionInv, SessionTypeOk
<1>2. /\ armed = {} \/ armed = {timeout}
      /\ armed' = {} \/ armed' = {timeout'}
  BY <1>1 DEF SessionInv, OneSessionTimer
<1>3. /\ Cardinality({}) = 0 /\ Cardinality({timeout}) = 1 /\ Cardinality({timeout'}) = 1
  BY FS_EmptySet, FS_Singleton
<1>4. CASE CheckDone
  <2>1. checks' = checks - 1
    BY <1>4 DEF CheckDone
  <2>2. Cardinality(armed) \in 0 .. 1 /\ Cardinality(armed') \in 0 .. 1
    BY <1>2, <1>3
  <2> QED
    BY <1>1, <2>1, <2>2
<1>5. CASE CheckRejected
  <2>1. checks' = checks - 1 /\ armed' = armed /\ Cardinality(armed) \in Nat
    BY <1>2, <1>3, <1>5 DEF CheckRejected
  <2> QED
    BY <1>1, <2>1
<1>6. CASE TimerFires
  <2>1. armed = {timeout} /\ armed' = {} /\ checks' = checks + 1
    BY <1>2, <1>6 DEF TimerFires
  <2> QED
    BY <1>1, <1>3, <2>1
<1>7. CASE UNCHANGED sessionVars
  <2>1. checks' = checks /\ armed' = armed /\ Cardinality(armed) \in Nat
    BY <1>2, <1>3, <1>7 DEF sessionVars, session
  <2> QED
    BY <1>1, <2>1
<1> QED
  BY <1>4, <1>5, <1>6, <1>7, SessionSteps DEF Authenticate, Disconnected

(* Nobody hands a message to the middleware of a target that is gone. *)
LEMMA ProcessingDwindles ==
    ASSUME ~connected, [Next]_vars PROVE processing' \subseteq processing
<1>1. ASSUME NEW s \in attached, Receive(s) PROVE UNCHANGED processing
  BY <1>1 DEF Receive, IsValidTarget
<1>2. ASSUME NEW s \in attached, StoreFails(s) PROVE UNCHANGED processing
  BY <1>2 DEF StoreFails
<1>3. ASSUME NEW m \in processing, Processed(m) \/ ProcessingFails(m)
      PROVE  processing' \subseteq processing
  BY <1>3 DEF Processed, ProcessingFails
<1>4. UNCHANGED clientVars => UNCHANGED processing
  BY DEF clientVars, client
<1> QED
  BY <1>1, <1>2, <1>3, <1>4, ClientSteps
     DEF Reconfigure, Subscribe, Unsubscribe, Reload, Disconnected

(* Once the client has left, none of its stores runs or is heard, and its    *)
(* messages under way and its session checks only become fewer.              *)
THEOREM GoneClientsWindDown == Spec => OnlyWindsDown
<1>1. Init => Emptied
  BY DEF Init, ClientInit, Emptied
<1>2. ClientInv /\ Emptied /\ SessionInv /\ [Next]_vars => [WindDown]_vars
  <2> SUFFICES ASSUME ClientInv, Emptied, SessionInv, [Next]_vars, ~connected PROVE WindDown
    BY DEF WindDown
  <2>1. attached = {} /\ running = {}
    BY NothingRuns
  <2>2. \/ \E m \in processing : Processed(m) \/ ProcessingFails(m)
        \/ UNCHANGED clientVars
    BY <2>1, ClientSteps DEF Reconfigure, Subscribe, Unsubscribe, Reload, Disconnected
  <2>3. UNCHANGED <<attached, running>>
    BY <2>2 DEF Processed, ProcessingFails, clientVars, client
  <2> QED
    BY <2>1, <2>3, ChecksDwindle, ProcessingDwindles DEF WindDown
<1> QED
  BY <1>1, <1>2, EmptiedNext, ClientInvAlways, SessionInvAlways, PTL DEF Spec, OnlyWindsDown
===============================================================================
