---------------------------------- MODULE Feeds ---------------------------------
(* What whoever observes a collection, or the whole database, may count on:  *)
(* one feed of its changes, which from where it was last opened leaves none  *)
(* out but with an error and repeats none, which is opened again when it     *)
(* breaks unless that failed, and which goes on as long as it is open.  Of   *)
(* all that it is told the last word.                                        *)
EXTENDS Integers, Sequences

CONSTANTS Sources,     \* what can be observed
          Carries(_)   \* the collections whose changes a source's feed carries

VARIABLES oplog,     \* the collections written to, in order
          status,    \* of each feed: none, opening, open or dead
          position,  \* how far an open feed has come in the oplog
          word,      \* what was last announced of each: none, live or how it broke
          emitted    \* the positions of the changes each has sent

feeds == <<oplog, status, position, word, emitted>>

Init ==
    /\ oplog = <<>>
    /\ status = [s \in Sources |-> "none"]
    /\ position = [s \in Sources |-> 0]
    /\ word = [s \in Sources |-> "none"]
    /\ emitted = [s \in Sources |-> <<>>]

NextChanges(s) ==
    {p \in position[s] + 1 .. Len(oplog) :
        /\ oplog[p] \in Carries(s)
        /\ \A q \in position[s] + 1 .. p - 1 : oplog[q] \notin Carries(s)}

Written == Len(oplog') = Len(oplog) + 1 /\ UNCHANGED <<status, position, word, emitted>>

Observe ==
    /\ \E S \in SUBSET {s \in Sources : status[s] = "none"} :
          /\ status' = [s \in Sources |-> IF s \in S THEN "opening" ELSE status[s]]
          /\ word' = [s \in Sources |-> IF s \in S THEN "live" ELSE word[s]]
    /\ UNCHANGED <<oplog, position, emitted>>

Start(s) ==
    /\ status[s] = "opening"
    /\ status' = [status EXCEPT ![s] = "open"]
    /\ position' = [position EXCEPT ![s] = Len(oplog)]
    /\ UNCHANGED <<oplog, word, emitted>>

Emit(s) ==
    /\ status[s] = "open"
    /\ \E p \in NextChanges(s) :
          /\ position' = [position EXCEPT ![s] = p]
          /\ emitted' = [emitted EXCEPT ![s] = Append(@, p)]
    /\ UNCHANGED <<oplog, status, word>>

(* The next change is left out, and an error announced. *)
Skip(s) ==
    /\ status[s] = "open"
    /\ \E p \in NextChanges(s) : position' = [position EXCEPT ![s] = p]
    /\ word' = [word EXCEPT ![s] = "error"]
    /\ UNCHANGED <<oplog, status, emitted>>

(* A feed that is dead is not announced to be live. *)
Break(s) ==
    /\ status[s] \in {"opening", "open"}
    /\ \E next \in {"opening"} \X {"live"} \cup {"dead"} \X {"error", "end", "close"} :
          /\ status' = [status EXCEPT ![s] = next[1]]
          /\ word' = [word EXCEPT ![s] = next[2]]
    /\ position' = [position EXCEPT ![s] = 0]
    /\ UNCHANGED <<oplog, emitted>>

Next == Written \/ Observe \/ \E s \in Sources : Start(s) \/ Emit(s) \/ Skip(s) \/ Break(s)

Safety == Init /\ [][Next]_feeds

Spec ==
    /\ Safety
    /\ \A s \in Sources : WF_feeds(Start(s)) /\ WF_feeds(Emit(s) \/ Skip(s))
===============================================================================
