----------------------------- MODULE SessionProofs -----------------------------
(* What holds of a client's session checks for every bound.                  *)
EXTENDS OwservableClient, TLAPS

SessionInv == SessionTypeOk /\ OneSessionTimer /\ ChainUnbroken

(* Nobody has authenticated. *)
LEMMA SessionInvInit == SessionInit => SessionInv
<1> SUFFICES ASSUME SessionInit PROVE SessionInv
  OBVIOUS
<1>1. SessionTypeOk
  BY DEF SessionInit, SessionTypeOk
<1>2. OneSessionTimer
  BY DEF SessionInit, OneSessionTimer
<1>3. ChainUnbroken
  BY Zenon DEF SessionInit, ChainUnbroken
<1> QED
  BY <1>1, <1>2, <1>3 DEF SessionInv

(* The steps of the client that concern its session: requests for targets    *)
(* and messages leave it as it is.                                           *)
LEMMA SessionSteps ==
    [Next]_vars => \/ Authenticate \/ CheckDone \/ CheckRejected \/ TimerFires \/ Disconnected
                   \/ UNCHANGED sessionVars
  BY DEF Next, vars, Consume, Forward, CheckEnds, NextCheck, sessionVars, Reconfigure, Subscribe,
         Unsubscribe, Reload, Receive, StoreFails, Processed, ProcessingFails

(* A check that ends replaces the timer; one that is rejected is on record. *)
LEMMA SessionInvNext == SessionInv /\ [Next]_vars => SessionInv'
<1> SUFFICES ASSUME SessionInv, [Next]_vars PROVE SessionInv'
  OBVIOUS
<1>1. CASE Authenticate
  BY <1>1 DEF Authenticate, SessionInv, SessionTypeOk, OneSessionTimer, ChainUnbroken
<1>2. CASE CheckDone
  <2>1. PICK t \in FreshTimers : armed' = (armed \ {timeout}) \cup {t} /\ timeout' = t
    BY <1>2 DEF CheckDone
  <2>2. armed' = {t} /\ t \in Timers
    BY <2>1 DEF SessionInv, OneSessionTimer, FreshTimers
  <2> QED
    BY <1>2, <2>1, <2>2 DEF CheckDone, SessionInv, SessionTypeOk, OneSessionTimer, ChainUnbroken
<1>3. CASE CheckRejected
  BY <1>3 DEF CheckRejected, SessionInv, SessionTypeOk, OneSessionTimer, ChainUnbroken
<1>4. CASE TimerFires
  BY <1>4 DEF TimerFires, SessionInv, SessionTypeOk, OneSessionTimer, ChainUnbroken
<1>5. CASE Disconnected
  BY <1>5 DEF Disconnected, ClearTimer, SessionInv, SessionTypeOk, OneSessionTimer, ChainUnbroken
<1>6. CASE UNCHANGED sessionVars
  BY <1>6 DEF sessionVars, session, SessionInv, SessionTypeOk, OneSessionTimer, ChainUnbroken
<1> QED
  BY <1>1, <1>2, <1>3, <1>4, <1>5, <1>6, SessionSteps

(* The invariant holds in every behaviour. *)
LEMMA SessionInvAlways == Spec => []SessionInv
  <1>1. Init => SessionInit
  BY DEF Init
<1> QED
  BY <1>1, SessionInvInit, SessionInvNext, PTL DEF Spec

(* However many checks are in flight and in whatever order they end, at most *)
(* one session timer is armed, and it is the one disconnected() would clear. *)
THEOREM ChecksDoNotMultiply == Spec => []OneSessionTimer
<1>1. SessionInv => OneSessionTimer
  BY DEF SessionInv
<1> QED
  BY <1>1, SessionInvAlways, PTL

(* While an authenticated client stays and no check is rejected, the next    *)
(* check is in flight or its timer is armed.                                 *)
THEOREM ChainNeverBreaks == Spec => []ChainUnbroken
<1>1. SessionInv => ChainUnbroken
  BY DEF SessionInv
<1> QED
  BY <1>1, SessionInvAlways, PTL
===============================================================================
