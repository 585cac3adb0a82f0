-------------------------------- MODULE Session --------------------------------
(* The session of one OwservableClient: the chain of session checks, each of *)
(* which arms the timer for the next one.                                    *)
(*                                                                           *)
(* checkSession is awaited, so that any number of checks may be in flight:   *)
(* one for each "authenticate" message and the one the timer started.        *)
EXTENDS Connection, Integers, FiniteSets

CONSTANTS Timers,     \* timer handles
          NoTimer,    \* _timeout before the first timer is armed
          MaxChecks   \* bound on checks in flight together with the armed timer

ASSUME TimersAssumption == NoTimer \notin Timers
ASSUME ChecksAssumption == MaxChecks \in Nat

VARIABLES
    authenticated,  \* a client has sent its token
    checks,         \* session checks awaiting the connection manager's answer
    armed,          \* session timers that will fire
    timeout,        \* _timeout, the handle disconnected() clears
    rejected        \* a check was rejected: nothing arms its timer

session     == <<authenticated, checks, armed, timeout, rejected>>
sessionVars == <<connected, session>>

SessionInit ==
    /\ connected = TRUE
    /\ authenticated = FALSE
    /\ checks = 0 /\ armed = {} /\ timeout = NoTimer
    /\ rejected = FALSE

(* consume of an "authenticate" message: the connection manager is told, and *)
(* the check starts without waiting for it.  The transport hands over no     *)
(* message after it has closed.                                              *)
Authenticate ==
    /\ connected
    /\ checks + Cardinality(armed) < MaxChecks
    /\ authenticated' = TRUE
    /\ checks' = checks + 1
    /\ UNCHANGED <<connected, armed, timeout, rejected>>

(* A handle the runtime gives out is neither armed nor the one last kept. *)
FreshTimers == Timers \ (armed \cup {timeout})

CheckDone_KeepsTimer ==
    /\ checks > 0
    /\ checks' = checks - 1
    /\ \E t \in FreshTimers :
          /\ armed' = armed \cup {t}
          /\ timeout' = t
    /\ UNCHANGED <<connected, authenticated, rejected>>

CheckDone_OnlyOnAnswer ==
    /\ checks > 0
    /\ checks' = checks - 1
    /\ \/ \E t \in FreshTimers : armed' = (armed \ {timeout}) \cup {t} /\ timeout' = t
       \/ UNCHANGED <<armed, timeout>>
    /\ UNCHANGED <<connected, authenticated, rejected>>

(* With or without an answer the timer of the next check replaces the one    *)
(* last armed.                                                               *)
CheckDone ==
    /\ checks > 0
    /\ checks' = checks - 1
    /\ \E t \in FreshTimers :
          /\ armed' = (armed \ {timeout}) \cup {t}
          /\ timeout' = t
    /\ UNCHANGED <<connected, authenticated, rejected>>

(* The connection manager throws. *)
CheckRejected ==
    /\ checks > 0
    /\ checks' = checks - 1
    /\ rejected' = TRUE
    /\ UNCHANGED <<connected, authenticated, armed, timeout>>

TimerFires ==
    /\ \E t \in armed : armed' = armed \ {t}
    /\ checks' = checks + 1
    /\ UNCHANGED <<connected, authenticated, timeout, rejected>>

(* The last thing disconnected() does. *)
ClearTimer ==
    /\ armed' = armed \ {timeout}
    /\ UNCHANGED <<authenticated, checks, timeout, rejected>>

-------------------------------------------------------------------------------
(* The types of the variables. *)
SessionTypeOk ==
    /\ connected \in BOOLEAN /\ authenticated \in BOOLEAN /\ rejected \in BOOLEAN
    /\ checks \in Nat
    /\ armed \subseteq Timers
    /\ timeout \in Timers \cup {NoTimer}

(* However many checks end in whatever order, the only session timer that    *)
(* can fire is the one the client still holds: checks do not multiply.       *)
OneSessionTimer == armed \subseteq {timeout}

(* A client that has authenticated goes on being checked: until it leaves or *)
(* a check is rejected, a check is in flight or a timer for one is armed.    *)
ChainUnbroken ==
    connected /\ authenticated /\ ~rejected => checks > 0 \/ armed # {}

(* A client that has authenticated is checked over and over: it never waits  *)
(* for its next check in vain, unless it leaves or a check is rejected.      *)
KeepsBeingChecked == authenticated ~> (checks > 0 \/ rejected \/ ~connected)

(* disconnected() clears the session timer: none is left to fire. *)
DisconnectClearsTimer == ~connected => armed = {}
===============================================================================
