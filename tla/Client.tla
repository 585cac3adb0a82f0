--------------------------------- MODULE Client --------------------------------
(* The subscriptions of one OwservableClient: the map of stores and the map  *)
(* of subscriptions to them, and the way of a store's message to the client, *)
(* past the middleware of the store's collection.                            *)
(*                                                                           *)
(* A store is a number, given out in the order of creation.  What a store    *)
(* sends and when is left open here: it may send whenever it is attached.    *)
EXTENDS Connection, Integers, Sequences, FiniteSets

CONSTANTS Targets,      \* the names clients give to their subscriptions
          Filtered,     \* the targets whose collection has a middleware
          MaxStores,    \* bound on the stores created
          MaxMessages   \* bound on the messages stores send

ASSUME FilteredAssumption == Filtered \subseteq Targets
ASSUME ClientAssumption   == MaxStores \in Nat /\ MaxMessages \in Nat

VARIABLES
    stores,      \* _stores: a store for each target, or NoStore
    subs,        \* _subscriptions: the store each one is a subscription to
    targetOf,    \* the target each store was created for
    attached,    \* stores whose messages reach the client's handler
    running,     \* stores with a pipeline on their collection's change stream
    emitted,     \* how many messages stores have sent (bounded)
    processing,  \* messages awaiting the middleware
    sent,        \* the messages the client has sent
    stopped,     \* the client was stopped by the error of a store
    refused      \* requests that ended in an exception

client     == <<stores, subs, targetOf, attached, running, emitted, processing, sent, stopped,
                refused>>
clientVars == <<connected, client>>

NoStore == 0
Stores  == 1 .. Len(targetOf)

Messages == [n: Nat, target: Targets, store: Nat]
Refusals == {"reload", "start"}

ClientInit ==
    /\ connected = TRUE
    /\ stores = [t \in Targets |-> NoStore]
    /\ subs = [t \in Targets |-> NoStore]
    /\ targetOf = <<>>
    /\ attached = {} /\ running = {}
    /\ emitted = 0 /\ processing = {} /\ sent = <<>>
    /\ stopped = FALSE
    /\ refused = {}

messages == <<emitted, processing, sent, stopped>>

-------------------------------------------------------------------------------
(* Requests.  The transport hands over no message after it has closed. *)

(* restartSubscription: the store has a pipeline from then on, unless it is   *)
(* the first of its collection and there is no database yet.                 *)
Start(s) ==
    \/ running' = running \cup {s} /\ UNCHANGED refused
    \/ s \notin running /\ refused' = refused \cup {"start"} /\ UNCHANGED running

(* store.config = config: a missing config, or one equal to the last, is     *)
(* passed over, also when that one failed to start the store.                *)
Configure(s) == Start(s) \/ UNCHANGED <<running, refused>>

Reconfigure_UnknownTarget(t) ==
    /\ connected
    /\ Configure(stores[t])
    /\ UNCHANGED <<connected, stores, subs, targetOf, attached, messages>>

(* A target that has a store keeps it. *)
Reconfigure(t) ==
    /\ connected
    /\ stores[t] # NoStore
    /\ Configure(stores[t])
    /\ UNCHANGED <<connected, stores, subs, targetOf, attached, messages>>

Subscribe_Replaces(t) ==
    /\ connected
    /\ Len(targetOf) < MaxStores
    /\ LET s == Len(targetOf) + 1
       IN  /\ targetOf' = Append(targetOf, t)
           /\ stores' = [stores EXCEPT ![t] = s]
           /\ attached' = attached \cup {s}
           /\ subs' = [subs EXCEPT ![t] = s]
           /\ Configure(s)
    /\ UNCHANGED <<connected, messages>>

(* A new target: the store is entered in the maps and subscribed to before   *)
(* it is configured.                                                         *)
Subscribe(t) ==
    /\ connected
    /\ stores[t] = NoStore
    /\ Len(targetOf) < MaxStores
    /\ LET s == Len(targetOf) + 1
       IN  /\ targetOf' = Append(targetOf, t)
           /\ stores' = [stores EXCEPT ![t] = s]
           /\ attached' = attached \cup {s}
           /\ subs' = [subs EXCEPT ![t] = s]
           /\ Configure(s)
    /\ UNCHANGED <<connected, messages>>

Unsubscribe_KeepsSubscription(t) ==
    /\ connected
    /\ subs' = [subs EXCEPT ![t] = NoStore]
    /\ running' = running \ {stores[t]}
    /\ stores' = [stores EXCEPT ![t] = NoStore]
    /\ UNCHANGED <<connected, targetOf, attached, messages, refused>>

(* removeSubscription, of a target that may be unknown. *)
Unsubscribe(t) ==
    /\ connected
    /\ attached' = attached \ {subs[t]}
    /\ subs' = [subs EXCEPT ![t] = NoStore]
    /\ running' = running \ {stores[t]}
    /\ stores' = [stores EXCEPT ![t] = NoStore]
    /\ UNCHANGED <<connected, targetOf, messages, refused>>

(* reloadData: restartSubscription of the target's store, if it has one.     *)
Reload(t) ==
    /\ connected
    /\ \/ stores[t] # NoStore /\ Start(stores[t])
       \/ stores[t] = NoStore /\ refused' = refused \cup {"reload"} /\ UNCHANGED running
    /\ UNCHANGED <<connected, stores, subs, targetOf, attached, messages>>

ClearSubscriptions_KeepsStores ==
    /\ attached' = attached \ {subs[t] : t \in Targets}
    /\ subs' = [t \in Targets |-> NoStore]
    /\ stores' = [t \in Targets |-> NoStore]
    /\ UNCHANGED <<targetOf, running, messages, refused>>

(* Every subscription is ended, every store destroyed, the maps are gone. *)
ClearSubscriptions ==
    /\ attached' = attached \ {subs[t] : t \in Targets}
    /\ subs' = [t \in Targets |-> NoStore]
    /\ running' = running \ {stores[t] : t \in Targets}
    /\ stores' = [t \in Targets |-> NoStore]
    /\ UNCHANGED <<targetOf, messages, refused>>

-------------------------------------------------------------------------------
(* Messages. *)

(* Subject.next: ignored once the client was stopped. *)
Send(m) == sent' = IF stopped THEN sent ELSE Append(sent, m)

IsValidTarget(t) == connected /\ stores[t] # NoStore

(* A store sends a message and the client's handler runs, up to the await. *)
Receive(s) ==
    LET t == targetOf[s]
        m == [n |-> emitted + 1, target |-> t, store |-> s]
    IN  /\ emitted < MaxMessages
        /\ emitted' = emitted + 1
        /\ IF IsValidTarget(t) /\ t \notin Filtered THEN Send(m) ELSE UNCHANGED sent
        /\ processing' = IF IsValidTarget(t) /\ t \in Filtered THEN processing \cup {m} ELSE processing
        /\ UNCHANGED <<connected, stores, subs, targetOf, attached, running, stopped, refused>>

(* The middleware's promise is resolved: its result is sent. *)
Processed(m) ==
    /\ processing' = processing \ {m}
    /\ Send(m)
    /\ UNCHANGED <<connected, stores, subs, targetOf, attached, running, emitted, stopped, refused>>

(* The middleware throws: nobody awaits the handler, the message is gone. *)
ProcessingFails(m) ==
    /\ processing' = processing \ {m}
    /\ UNCHANGED <<connected, stores, subs, targetOf, attached, running, emitted, sent, stopped,
                   refused>>

(* A store ends in an error (a CountStore whose query failed): so does the   *)
(* client, for all its targets.                                              *)
StoreFails(s) ==
    /\ attached' = attached \ {s}
    /\ stopped' = TRUE
    /\ UNCHANGED <<connected, stores, subs, targetOf, running, emitted, processing, sent, refused>>

-------------------------------------------------------------------------------
(* The types of the variables. *)
ClientTypeOk ==
    /\ connected \in BOOLEAN /\ stopped \in BOOLEAN
    /\ targetOf \in Seq(Targets)
    /\ stores \in [Targets -> Stores \cup {NoStore}]
    /\ subs \in [Targets -> Stores \cup {NoStore}]
    /\ attached \subseteq Stores /\ running \subseteq Stores
    /\ emitted \in Nat
    /\ processing \subseteq Messages /\ sent \in Seq(Messages)
    /\ refused \subseteq Refusals

(* Every store that can reach the client or that costs a pipeline is the one *)
(* its target is entered under: whatever is unsubscribed, refused, replaced  *)
(* or disconnected, no store is left behind, and the two maps agree.         *)
NoOrphans ==
    /\ \A s \in attached \cup running : stores[targetOf[s]] = s
    /\ subs = stores

(* Of a target without a middleware, the client only sends what the target's *)
(* present store says: a store that was replaced never speaks for its target.*)
SpeaksForItself ==
    [][\A i \in (Len(sent) + 1) .. Len(sent') :
          LET m == sent'[i] IN m.target \notin Filtered => stores[m.target] = m.store]_clientVars

(* Of a target without a store the client sends nothing. *)
NothingForGoneTargets ==
    [][\A i \in (Len(sent) + 1) .. Len(sent') : stores[sent'[i].target] # NoStore]_clientVars
===============================================================================
