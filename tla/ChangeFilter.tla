----------------------------- MODULE ChangeFilter -----------------------------
(* What a store does with one change event, and what its query returns.      *)
(*                                                                           *)
(* A database is a function from the documents' ids to their content, None   *)
(* when the document does not exist.  A document has two fields: "v", the    *)
(* one queries select on, and "p", the one results are sorted on.  A query,  *)
(* a projection and the server's report of an update may name a field        *)
(* differently, as 'address', 'address.city' or 'tags.0', and the filters    *)
(* compare the names: <<"v", a>> is the field v under its name a.  Which     *)
(* store is modelled (CountStore, CollectionStore or DocumentStore) is the   *)
(* constant Type.                                                            *)
EXTENDS Integers, FiniteSets

CONSTANTS Ids,        \* documents' ids; their order is the collection's natural order
          Documents,  \* what a document can hold
          Names,      \* the names a field goes by: whole, or one of its parts
          None,       \* no document, no id, no selection on v
          Type        \* which of the three stores

Types == {"count", "collection", "document"}

ASSUME IdsAssumption       == Ids \subseteq Int
ASSUME DocumentsAssumption == Documents \subseteq [v: Int, p: Int]
ASSUME NamesAssumption     == Names # {}
ASSUME NoneAssumption      == None \notin Int \cup Documents
ASSUME TypeAssumption      == Type \in Types

Fields    == {"v", "p"}
Paths     == Fields \X Names
Databases == [Ids -> Documents \cup {None}]

FieldsOf(paths) == {path[1] : path \in paths}

(* A subscription's config: the query selects by id, by v, by both or        *)
(* nothing.  keys are its own keys, but for _id: the names it gives to v, or *)
(* none when v stands under $or, $and or $expr.  fields is the projection,   *)
(* under the names it uses (empty: all fields).                              *)
Configs == [id: Ids \cup {None}, v: Int \cup {None}, keys: SUBSET ({"v"} \X Names),
            fields: SUBSET Paths, sort: BOOLEAN]

(* The config of a store nobody has configured yet: {___initial___: true}.   *)
Unconfigured == [id |-> None, v |-> None, keys |-> {}, fields |-> {}, sort |-> FALSE]

(* A change event: the names an update was reported by (a replacement has no *)
(* report: all names of what it altered) and the full document, which for an *)
(* update the server looks up after the write (None: gone by then).  The     *)
(* collection's drop is of no document.                                      *)
Operations == {"insert", "update", "replace", "delete"}
Drop       == [op |-> "drop", id |-> None, touched |-> {}, doc |-> None]
Changes    == [op: Operations, id: Ids, touched: SUBSET Paths, doc: Documents \cup {None}]
              \cup {Drop}

-------------------------------------------------------------------------------
(* sift on the query, for the document of a change.  A missing document only *)
(* passes the empty query.                                                   *)
TestDocument(c, id, doc) ==
    /\ c.id \in {None, id}
    /\ c.v = None \/ (doc # None /\ doc.v = c.v)
    /\ doc # None \/ c.id = None

CountReloads_InsertOnly(ch) == ch.op = "insert"

CountReloads(ch) == ch.op \in {"insert", "delete"}

CollectionReloads_NoQueryKeys(c, ch) ==
    \/ ch.op # "update"
    \/ IF c.fields # {} THEN c.fields \cap ch.touched # {}
                        ELSE TestDocument(c, ch.id, ch.doc)

CollectionReloads(c, ch) ==
    \/ ch.op # "update"
    \/ c.keys \cap ch.touched # {}
    \/ IF c.fields # {} THEN c.fields \cap ch.touched # {}
                        ELSE TestDocument(c, ch.id, ch.doc)

DocumentReloads(c, ch) ==
    \/ ch.op = "delete"
    \/ ch.op = "insert" /\ c.id = None
    \/ ch.op = "replace"
    \/ /\ ch.op = "update"
       /\ c.id = ch.id \/ c.fields = {} \/ c.fields \cap ch.touched # {}

ShouldReload(c, ch) ==
    CASE Type = "count"      -> CountReloads(ch)
      [] Type = "collection" -> CollectionReloads(c, ch)
      [] Type = "document"   -> DocumentReloads(c, ch)

PipeFilter_NoDelete(c, ch) ==
    \/ Type # "document"
    \/ c.sort
    \/ ch.id = c.id
    \/ TestDocument(c, ch.id, ch.doc)

(* DocumentStore filters its pipeline a first time, before it loads. *)
PipeFilter(c, ch) ==
    \/ Type # "document"
    \/ c.sort
    \/ ch.op = "delete"
    \/ ch.id = c.id
    \/ TestDocument(c, ch.id, ch.doc)

(* A change the store acts upon. *)
Accepts(c, ch) == PipeFilter(c, ch) /\ ShouldReload(c, ch)

IsOwnDelete_AnyDelete(c, ch) == Type = "document" /\ ch.op = "delete"

(* A change answered at once, without a query: the store's own document went. *)
IsOwnDelete(c, ch) == Type = "document" /\ ch.op = "delete" /\ ch.id = c.id

-------------------------------------------------------------------------------
(* What the database returns for a config. *)

Project(c, doc) == [f \in (IF c.fields = {} THEN Fields ELSE FieldsOf(c.fields)) |-> doc[f]]

Matching(c, db) ==
    {d \in Ids : /\ db[d] # None
                 /\ c.id \in {None, d}
                 /\ c.v \in {None, db[d].v}}

(* d comes before e in the result, when it is sorted. *)
Before(db, d, e) == db[d].p < db[e].p \/ (db[d].p = db[e].p /\ d <= e)

(* The first of the documents S and what is returned of it; nothing of none. *)
First(c, db, S) ==
    LET least == {d \in S : \A e \in S : IF c.sort THEN Before(db, d, e) ELSE d <= e}
    IN  {<<d, Project(c, db[d])>> : d \in least}

Nothing == {}

LoadedCount(c, db) == Cardinality(Matching(c, db))

(* The documents, and their order when one is asked for. *)
LoadedCollection(c, db) ==
    LET M == Matching(c, db)
    IN  [docs  |-> {<<d, Project(c, db[d])>> : d \in M},
         order |-> IF c.sort THEN {pair \in M \X M : Before(db, pair[1], pair[2])} ELSE {}]

(* findById looks at the id alone; a sorted query and findOne at all of it. *)
LoadedDocument(c, db) ==
    IF c.id # None /\ ~c.sort
    THEN First(c, db, {d \in {c.id} : db[d] # None})
    ELSE First(c, db, Matching(c, db))

Loaded(c, db) ==
    CASE Type = "count"      -> LoadedCount(c, db)
      [] Type = "collection" -> LoadedCollection(c, db)
      [] Type = "document"   -> LoadedDocument(c, db)

-------------------------------------------------------------------------------
(* Blind spots: a write, known by its op, id and touched names, that can     *)
(* alter what the config returns although Accepts may turn its change down.  *)

(* It alters what the query selects on. *)
Reselects(c, w) == c.v # None /\ "v" \in FieldsOf(w.touched)

(* The query does not name what it selects on as the server reports it. *)
KeyMissed(c, w) == Reselects(c, w) /\ c.keys \cap w.touched = {}

(* Nor does the projection what it shows. *)
FieldMissed(c, w) ==
    FieldsOf(c.fields) \cap FieldsOf(w.touched) # {} /\ c.fields \cap w.touched = {}

Reorders(c, w) == c.sort /\ "p" \in FieldsOf(w.touched)

(*   count       the collection is dropped; a document is moved into or out  *)
(*               of the query                                                *)
(*   collection  an update alters the order and nothing else, or is missed   *)
(*               by its name                                                 *)
(*   document    the collection is dropped; the document waited for is       *)
(*               inserted; the first document is moved out of the query or   *)
(*               down the order; an update of it is missed by its name       *)
BlindTo(c, w) ==
    CASE Type = "count" ->
             w.op = "drop" \/ (w.op \in {"update", "replace"} /\ Reselects(c, w))
      [] Type = "collection" ->
             w.op = "update" /\ (Reorders(c, w) \/ KeyMissed(c, w) \/ FieldMissed(c, w))
      [] Type = "document" ->
             \/ w.op = "drop"
             \/ w.op = "insert" /\ w.id = c.id
             \/ /\ w.op \in {"update", "replace"} /\ c.id = None
                /\ Reselects(c, w) \/ Reorders(c, w)
             \/ w.op = "update" /\ c.id = None /\ FieldMissed(c, w)
===============================================================================
