------------------------------- MODULE Connection -------------------------------
(* What a client's subscriptions and its session have in common: whether the *)
(* client is still there.                                                    *)
VARIABLE connected   \* disconnected() has not been called
===============================================================================
