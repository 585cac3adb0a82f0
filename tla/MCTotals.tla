-------------------------------- MODULE MCTotals --------------------------------
(* A small instance of Totals for TLC. *)
EXTENDS Totals

Cfg(query, view, incremental) == [query |-> query, view |-> view, incremental |-> incremental]

(* Two queries, one of them in two orders, and one in incremental mode. *)
FewConfigs == {Cfg("a", 1, FALSE), Cfg("b", 1, FALSE), Cfg("b", 2, TRUE)}
===============================================================================
