-------------------------------- MODULE MCStore --------------------------------
(* Small instances of Store for TLC: two documents with a few contents and a *)
(* few configs for each kind of store.                                       *)
EXTENDS Store, TLC

Doc(v, p) == [v |-> v, p |-> p]

(* What queries on v = 1 select and what they do not; another order. *)
TwoDocuments   == {Doc(1, 1), Doc(2, 1)}
Contrasted     == {Doc(1, 1), Doc(2, 2)}
ThreeDocuments == TwoDocuments \cup {Doc(1, 2)}

Db2(a, b) == (1 :> a) @@ (2 :> b)

(* The first absent; none; both of the query. *)
OneDatabase    == {Db2(None, Doc(1, 1))}
NoDocuments    == {Db2(None, None)}
BothSelected   == {Db2(Doc(1, 1), Doc(1, 1))}

(* The names of a field; with two, an update may be reported by the other.   *)
OneName  == {"whole"}
TwoNames == {"whole", "part"}

Whole(f) == {<<f, "whole">>}

Cfg(id, v, keys, fields, sort) ==
    [id |-> id, v |-> v, keys |-> keys, fields |-> fields, sort |-> sort]

(* A query, the same query under $or, the whole collection, a document by   *)
(* its id, a projection and an order.                                       *)
Selected      == Cfg(None, 1, Whole("v"), {}, FALSE)
UnderOr       == Cfg(None, 1, {}, {}, FALSE)
Everything    == Cfg(None, None, {}, {}, FALSE)
ById          == Cfg(1, None, {}, {}, FALSE)
ProjectedOn_p == Cfg(None, 1, Whole("v"), Whole("p"), FALSE)
SortedOn_p    == Cfg(None, 1, Whole("v"), Whole("p"), TRUE)
LastOn_p      == Cfg(None, None, {}, {}, TRUE)

CountConfigs      == {Selected, Everything}
CollectionConfigs == {Selected, UnderOr, SortedOn_p}
DocumentConfigs   == {ById, LastOn_p}
LookedUpConfigs   == {ById, ProjectedOn_p, SortedOn_p}
JustSelected      == {Selected}
JustById          == {ById}
===============================================================================
