------------------------------- MODULE Connector -------------------------------
(* MongoDBConnector: callers of init, which may overlap, and the database     *)
(* handle of mongoose, which everything that opens a change stream needs.     *)

CONSTANT Callers   \* those who call init

VARIABLES
    inits,        \* how far each caller's init is
    connection,   \* _connection is set
    registered,   \* callers whose init registered the listeners
    handle        \* mongoose.connection.db is set

connector == <<inits, connection, registered, handle>>

Connecting == {c \in Callers : inits[c] = "connecting"}

ConnectorInit ==
    /\ inits = [c \in Callers |-> "idle"]
    /\ connection = FALSE /\ registered = {} /\ handle = FALSE

CallInit_FlagsFirst(c) ==
    /\ inits[c] = "idle"
    /\ inits' = [inits EXCEPT ![c] = IF connection THEN "done" ELSE "connecting"]
    /\ connection' = TRUE
    /\ UNCHANGED <<registered, handle>>

(* init, up to the await. *)
CallInit(c) ==
    /\ inits[c] = "idle"
    /\ inits' = [inits EXCEPT ![c] = IF connection THEN "done" ELSE "connecting"]
    /\ UNCHANGED <<connection, registered, handle>>

MongooseConnects ==
    /\ Connecting # {} /\ ~handle
    /\ handle' = TRUE
    /\ UNCHANGED <<inits, connection, registered>>

(* init resumes, whether or not another one has since. *)
InitConnected(c) ==
    /\ inits[c] = "connecting" /\ handle
    /\ inits' = [inits EXCEPT ![c] = "done"]
    /\ registered' = registered \cup {c}
    /\ connection' = TRUE
    /\ UNCHANGED handle

(* Nothing is left of an init that failed: it may be called again. *)
InitFails(c) ==
    /\ inits[c] = "connecting" /\ ~handle
    /\ inits' = [inits EXCEPT ![c] = "idle"]
    /\ UNCHANGED <<connection, registered, handle>>

ConnectorNext ==
    \/ MongooseConnects
    \/ \E c \in Callers : CallInit(c) \/ InitConnected(c) \/ InitFails(c)

ConnectorTypeOk ==
    /\ inits \in [Callers -> {"idle", "connecting", "done"}]
    /\ connection \in BOOLEAN /\ registered \subseteq Callers /\ handle \in BOOLEAN
===============================================================================
