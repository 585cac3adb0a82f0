------------------------------- MODULE MCStartup -------------------------------
(* A small instance of Startup for TLC. *)
EXTENDS Startup

Tsk(kind, init, waitForInit, throws, observes) ==
    [kind |-> kind, init |-> init, waitForInit |-> waitForInit, throws |-> throws,
     observes |-> observes]

(* The second watcher waits for its init; the first worker throws.           *)
FewTasks ==
    << Tsk("watcher", FALSE, FALSE, FALSE, Whole), Tsk("watcher", TRUE, TRUE, FALSE, "a"),
       Tsk("action worker", FALSE, FALSE, TRUE, Nothing),
       Tsk("action worker", FALSE, FALSE, FALSE, Nothing) >>

FewModels ==
    << [collection |-> "a", default |-> FALSE, excluded |-> TRUE],
       [collection |-> "a", default |-> TRUE, excluded |-> FALSE],
       [collection |-> "a", default |-> FALSE, excluded |-> FALSE] >>
===============================================================================
