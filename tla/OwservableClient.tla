---------------------------- MODULE OwservableClient ----------------------------
(* An OwservableClient: its subscriptions and its session, which share the   *)
(* connection they belong to and the connection manager, and which end with  *)
(* it together.                                                              *)
EXTENDS Client, Session

vars == <<connected, client, session>>

Init == ClientInit /\ SessionInit

(* consume: a message is an authentication or a request for a target. *)
Consume ==
    \/ Authenticate /\ UNCHANGED client
    \/ /\ \E t \in Targets : Reconfigure(t) \/ Subscribe(t) \/ Unsubscribe(t) \/ Reload(t)
       /\ UNCHANGED session

(* The host calls disconnected() when the transport closes. *)
Disconnected ==
    /\ connected
    /\ connected' = FALSE
    /\ ClearSubscriptions
    /\ ClearTimer

(* What goes on without the client asking. *)
Forward ==
    /\ \/ \E s \in attached : Receive(s) \/ StoreFails(s)
       \/ \E m \in processing : Processed(m) \/ ProcessingFails(m)
    /\ UNCHANGED session

CheckEnds == (CheckDone \/ CheckRejected) /\ UNCHANGED client
NextCheck == TimerFires /\ UNCHANGED client

Next == Consume \/ Disconnected \/ Forward \/ CheckEnds \/ NextCheck

(* Timers fire.  A connection manager may never answer a check, a middleware *)
(* never resolve.                                                            *)
Fairness == WF_vars(NextCheck)

Spec     == Init /\ [][Next]_vars
FairSpec == Spec /\ Fairness

-------------------------------------------------------------------------------
WindDown ==
    ~connected =>
        /\ attached' = {} /\ running' = {}
        /\ processing' \subseteq processing
        /\ checks' + Cardinality(armed') <= checks + Cardinality(armed)

(* Once the client has left, its stores neither send nor cost a pipeline,    *)
(* and what was under way only dwindles: no message is put before a          *)
(* middleware, and session checks do not multiply.                           *)
OnlyWindsDown == [][WindDown]_vars
===============================================================================
