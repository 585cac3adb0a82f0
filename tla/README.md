# A formal model of owservable

owservable keeps web clients' views of MongoDB collections up to date: a client subscribes to a
query, a store runs it, and runs it again whenever the collection's change stream reports a
change that might matter. The question this project asks of it is the one its users ask: *when
nothing is going on any more, does the client show what the database holds?* The modules here
are written from `src/src/`; paths below are relative to that directory.

- [1. The system](#1-the-system)
- [2. The modules](#2-the-modules)
- [3. What the runs check](#3-what-the-runs-check)
- [4. What is proved](#4-what-is-proved)
- [5. Where the code falls short](#5-where-the-code-falls-short)
- [6. What is not modelled, and the plan](#6-what-is-not-modelled-and-the-plan)

## 1. The system

| component | state | operations | modelled in |
|---|---|---|---|
| `store/*.store.ts` | config, subscription to the change stream, queries in flight, subscription id | `set config`, `restartSubscription`, `load`, `destroy` | `ChangeFilter`, `Store` |
| `store/collection.store.ts`, totals | the last total, the subscription diffs, the throttle of counts | `sendCount`, `delaySendCount`, `loadIncremental` | `Totals` |
| `mongodb/functions/observable.model.ts`, `.models.map.ts` | one subject per collection, its stream, its lifecycle | watch, pass a change on, reconnect | `Streams`; as a store sees it, `Store` |
| `mongodb/functions/observable.database.ts` | the same for the whole database | the same | `Streams` |
| `owservable.client.ts`, subscriptions | the maps `_stores` and `_subscriptions` | subscribe, unsubscribe, reload, disconnected, forward a message | `Client` |
| `owservable.client.ts`, session | the timer `_timeout`, checks in flight | authenticate, check, disconnected | `Session` |
| `owservable.client.ts`, pings and locations | the last ping and location | `ping`, pong, location | no |
| `middleware/data.middleware.map.ts` | collection → processor | `addMiddleware`, `getMiddleware` | `Client`, as a constant |
| `mongodb/mongodb.connector.ts` | the connection | `init` | `Connector` |
| `mongodb/collections.models.map.ts`, `process.models.ts` | collection → model | filled at start-up | `Tasks` |
| `functions/execute`, `functions/action`, `functions/initiate.*` | none | start watchers, workers and cronjobs found in folders | `Tasks` |
| `mongodb/functions/index`, `functions/performance` | none | helpers | no |

**How they interact.** A client's `subscribe` message makes `OwservableClient` create a store
(`storeFactory`), subscribe to its messages, and set its config. Setting a config restarts the
store: it subscribes a throttled pipeline to the collection's `ObservableModel` (which the first
subscriber creates, so that the collection is watched), drops the old pipeline, and starts an
initial load. The model's change stream pushes each change of the
collection into the pipelines of all its stores. A store's `load` decides whether the change
matters, queries the database and sends a message, which the client passes on, through the
collection's middleware when there is one. A `CollectionStore` counts as well, in messages of
their own. Before any of that, the host connects (`MongoDBConnector.init`), registers models, and
starts watchers, workers and cronjobs, which may open change streams themselves.

**What is hard.** Everything runs on one JavaScript thread, but a handler gives it up at every
`await`. So:

- *Interleaving.* Any number of a store's queries and counts are in flight at once, and nothing
  orders their answers. The same holds for messages in a middleware, for session checks, and for
  several callers that connect.
- *Lossy stages.* A change passes a throttle, then a filter, before it starts a query; the
  throttle keeps only the last change of its window, the filter judges a change by the
  document the server looked up after it and by the names it was reported under. Each may drop a
  change that mattered.
- *The present.* A stream begins with what is written after the server opens it. The first load
  does not wait for that, and a stream that was lost is opened again without a resume token.
- *Failure.* The stream may be lost, a query or a count may fail, the first stream may not open, a
  reconnection may throw and leave the stream dead, passing a change on may throw, and an old
  stream may still report something.
- *Ends.* Stores are configured again, reloaded and destroyed, and clients disconnect, while
  all of that is under way.

**What makes each component correct.** A *store* at rest shows its query's result
(`StaysFresh`, and precisely when it may not: `StaleOnlyIfMissed`), accounts for every change
(`Accounted`), never leaves a message with another subscription's id as the last word
(`MislabelledOnlyIfOvertaken`), does nothing once destroyed (`DestroyedStartsNothing`) and comes to
rest, or is left with a dead stream (`Settles`). A *client* leaves no store behind
(`NoOrphans`) and never mistakes a replaced store's message for its target's
(`SpeaksForItself`). A *session* goes on being checked (`ChainUnbroken`, `KeepsBeingChecked`),
once at a time (`OneSessionTimer`), until the client leaves; after that neither begins anything, and what
is under way dwindles (`OnlyWindsDown`). A *CollectionStore's last total* is the query's, unless the change that altered it was lost
on its way (`TotalRight`), and what it keeps
to decide when to count does not pile up (`DiffsAwaited`). A *subject* of change streams is a
single feed to whoever observes it, whatever streams it goes through (`HeardOnce`,
`ImplementsFeeds`), and its lifecycle does not call a dead stream live nor report the end of
one that is listened to (`LiveMeansListening`). A *start-up* works
once the database is connected, whatever the order (`NoneFailsOnceConnected`).

## 2. The modules

| module | what it is |
|---|---|
| `ChangeFilter` | what each kind of store does with a change event, and what its query returns: operators only |
| `Store` | one store, its pipeline, its queries, the change stream and the database |
| `LiveView` | the abstract specification of a live query |
| `MCStore` | documents, databases and configs small enough for TLC |
| `Totals`, `MCTotals` | the totals of a `CollectionStore` |
| `Connection` | whether a client is still there: what the next two share |
| `Client` | one client's subscriptions and its stores' messages |
| `Session` | one client's session checks |
| `OwservableClient` | a client: `Client` and `Session` composed |
| `Connector` | callers of `MongoDBConnector.init` |
| `Streams` | the subjects that pass change streams on; extends `Connector`, whose handle they need |
| `Feeds` | the abstract specification of those subjects |
| `Tasks` | models, watchers, workers and cronjobs; extends `Streams`, which they open |
| `Startup`, `MCStartup` | `Connector`, `Streams` and `Tasks` composed |
| `StoreProofs`, `FreshnessProofs`, `TotalsProofs`, `ClientProofs`, `SessionProofs`, `OwservableClientProofs`, `StartupProofs`, `FeedsProofs` | theorems about them |

Each definition that stands for code is listed with its lines in `PROJECT.json` under `map`.
A definition with a suffix (`WindowEnds_LeadingOnly`, `Destroy_KeepsWindow`, ...) stands for no
code: it is a plausible bug in the definition of the name before the underscore. Put in its
place, it makes TLC find the property violated that `PROJECT.json` names under `mutants`, which
shows that the property depends on that piece of code.

### ChangeFilter

A database is a function from ids to documents or `None`. A document has a field `v`, which
queries select on, and a field `p`, which results are sorted on: two fields are the fewest that
tell a query's keys, the projection and the sort keys apart, which is what the filters look at.
A config selects by id, by `v`, by both or by nothing, has a projection, and may be sorted.

The filters never look at a query but through its top-level keys, and at an update but through
the keys of `updatedFields` and `removedFields`, which are paths. So a field goes by several
`Names`: `<<"v", a>>` may stand for `address`, `address.city` or `tags.0`, and the model compares
these pairs, as the code compares strings. A config says by which names it refers to what it
selects on (`keys`; none at all if that is under `$or`, `$and` or `$expr`) and to what it shows
(`fields`). The server chooses the names it reports an update by (`Reported`). Two fields go by the
same name only if they are the same field.

`CountReloads`, `CollectionReloads` and `DocumentReloads` are the three `shouldReload`,
`PipeFilter` is `DocumentStore._pipeFilter`, `TestDocument` is `testDocument` (sift on the
query). An event of a collection's drop has no document; a rename and the invalidation that
follows either of them look the same to a store, and are `Drop` as well. `Loaded` is what the three `load` ask of the database. `BlindTo` is no code: it says of
which writes a store may not notice that they alter its result, and is as narrow as the
properties allow.

### Store

| state | in the code |
|---|---|
| `history`, `oplog` | the collection after each write; the writes |
| `stream`, `cursor` | no `ObservableModel` yet (`none`), one whose `watch` the server has not answered (`opening`), an `open` one, one about to close as its collection was dropped (`closing`), or one that could not be opened again (`dead`); how far it has read |
| `live`, `open`, `pend` | `_subscription`; the throttle's window and the value it keeps for its trailing edge |
| `applied` | the configs set; the last is `_config`. A config's position stands for its `subscriptionId` |
| `loads` | calls of `load` that await their query |
| `out` | the last message: what the client shows |
| `destroyed` | the client has called `destroy` for good |
| `raised` | what a load did whose error nobody caught |
| `started`, `lost` | bookkeeping of the properties: the number of loads, and the changes dropped since the last one, with the reason |

`Write` is the world outside: any insert, update, replacement or deletion of a document, or the
drop of the collection (`DropCollection`). `Deliver` is the
`change` handler and everything it calls: `throttleTime` either passes the change to the
subscriber (`PassThrough`), keeps it (`HoldBack`), or nobody listens. `WindowEnds` is the
throttle's timer. What the subscriber does is `Act`: drop the change (`Ignore`), send a delete
message (`SendDelete`), or query (`LoadFor`). As rxjs has it, a value passed on the leading or
on the trailing edge opens the next window. `OpenStream`, part of every restart, is
`ObservableModelsMap.get`, which has the collection watched by its first subscriber; the server
opens the stream some time later (`StreamOpens`), at the oplog's end. `StreamLost` is the
handlers of `error`, `close` and `end` with `_reconnect`, after which the stream is opening
again, or dead if watching it threw: there is no other attempt. `StreamCloses` is the same for
the close that follows a drop. `InitialStreams` says whether other stores of the process have opened it before.
`SetConfig`, `SetConfigFails` (no first stream), `Reload` and
`Destroy` are what the client calls. A query is answered (`Answer`), and its `load` resumed
(`Resume`), or fails (`Fail`).

Order of arrival is not assumed anywhere: queries are answered and resumed in any order, and
the document in an update's event is any version from the write on (`Lookups`), as the server
looks it up later.

### LiveView

The promise, without the machinery: a view is settled or not; while it is settled, neither the
query's result nor what is shown changes without unsettling it; and it only settles on the
query's result, or with an excuse. `Store` implements it with *settled* mapped to `Quiescent`
(nothing undelivered, held back or in flight), *truth* to what the query would return now,
*shown* to what the last message said and *excused* to `Excused`. `Totals` implements it as well,
with the query in force and the number of writes for the *truth*, since there each write alters
the count.

### Totals

What a `CollectionStore` does beside its data: after each load it counts, at once and awaited when
the load is the first of a changed query, through a throttle of five seconds otherwise. `Store`
says which changes reach a store and what its loads return; `Totals` abstracts from both. A write
alters every query's count. `due` are the changes the store is still to be told of, in order. A
change need not arrive: it may fall in a gap of the stream, be replaced in the pipeline's throttle,
or be turned down as an update under a name that is no key of the query, and `ChangeLost` is any of
these. `TotalsAreHeard` shows of `Store` that the filter turns down no other. A load in `finds` is
only whether it has resumed. `ChangeArrives` is `load` of a change, which in incremental mode sends
the document itself, if the change has one, and counts nothing.

| state | in the code |
|---|---|
| `applied` | the configs set; a position stands for a `subscriptionId`, which a client is assumed not to use twice |
| `diffs` | `_subscriptionDiffs` |
| `counts` | calls of `sendCount` that await `countDocuments`: the subscription they are for, and the config whose query they count, which is read when they begin |
| `throttle`, `waiting` | lodash's throttle: its timer, and the subscription of the call it holds back |
| `total` | `_totalCount`, which the next data message carries as well |
| `told` | the last message with a total |
| `uncounted`, `abandoned` | bookkeeping of the properties: what excuses a total that is not up to date, or a diff nobody will remove |

### Client, Session and OwservableClient

A store is a number in order of creation. `attached` are the stores whose messages still reach
the client's handler, `running` those with a pipeline; the code removes a store from them
through its two maps only, so that the interesting question is whether the maps ever lose one.
`Configure` is the setter of a store's config, which passes over a config that is missing or no
different from the last; `Start` is `restartSubscription`, which a reload calls directly.
`Filtered` are the targets whose collection has a middleware; their messages wait in
`processing`. `refused` records requests that end in an exception: a reload of an unknown
target, and a restart that finds no database. When the stores send is left open: any store that
is attached may send at any time. `Store` models when they do.

`checks` counts the calls of `_checkSession` that await the connection manager; `armed` are the
timers that will fire, `timeout` is the handle the client keeps. The distinction between the
last two is the whole point: `clearTimeout` can only clear the timer whose handle was kept.

`OwservableClient` puts the two together as `consume` and `disconnected` do: a message is for the
one or the other, and the end is one step of both. The websocket host, which is not part of this
repository, is assumed to hand over no message after it has called `disconnected`, and the
connection manager's own `disconnected` not to throw.

### Connector, Streams, Tasks and Startup

`Connector` splits `init` at its `await`: a caller that finds no `_connection` connects, and
whoever resumes registers the listeners and sets it. Several may, as nothing keeps a second
caller from connecting until the first has resumed. `handle` is `mongoose.connection.db`, without
which no stream can be opened.

`Streams` has a subject for each collection and one (`"*"`) for the database; the two classes do the
same, and so are instances of one `SubjectStep`. A subject's `streams` are all it has ever opened:
the last is `_stream`, the others are those it took its listeners from. A stream is opened
by the server some time after `watch`, at the end of the oplog, hands over the changes it covers one
by one, and `Breaks` with an error, an end or a close; the driver closes one that reported the
first two later (`LateClose`), and a closed one reports nothing more. `Report` and `Reconnect` are the handlers:
the event goes to the lifecycle, the old stream loses its listeners, and `watch` is called
again, which may throw. `Passes` and `Catches` are the two ways through the handler of a change:
it is sent, or sending it threw; then the lifecycle gets an error, the change is gone, and the
stream is listened to as before (`test/mongodb/functions/observable.model.spec.ts:185` has that
case). `emitted` are the positions in the oplog of what the subject's observers
were sent.

`Feeds` is what that amounts to for an observer: a source has a status (`none`, `opening`, `open`,
`dead`), while open a position, and the last word its observers had of it; it sends the next change
it carries, skips it with the word that there was an error, or breaks, and after a break its word is
`live` just when it is being opened again. There are
no streams in it and no listeners. `Observed` in `Streams` is the refinement mapping:
status and position are those of the subject's last stream, `dead` once that has no listeners, and
the word is the one in the lifecycle's replay buffer.

`Tasks` starts the tasks of a kind in the files' order within one step: those that need not wait
run, the first one that throws ends the loop, those with an init that must be waited for run
when it is resolved (`RunAfterInit`), and never if it is rejected. An action (`addActionWatchers`
and the like) is a task as well, one whose watcher never waits. A cronjob that "runs" is one that
is scheduled. A task that observes a collection needs `handle`, or a subject that already
exists. `ProcessModels` registers the models of the listed files up to the first without one, and
`StoreObserves` is the first start of a store, which needs its model.

`Startup` lets all of it happen in any order.

## 3. What the runs check

| run | states | shows |
|---|---|---|
| `restarts_count` | 10,287,774 | `StaleOnlyIfMissed`, `DestroyedStartsNothing`, `TypeOk` for a CountStore |
| `restarts_collection` | 12,092,966 | `StaleOnlyIfMissed`, `Accounted` for a CollectionStore, with fields that go by two names |
| `restarts_document` | 8,130,825 | `StaleOnlyIfMissed`, `FreshUnlessLost`, `MislabelledOnlyIfOvertaken` for a DocumentStore, with fields that go by two names |
| `live_document` | 1,732,916 | `ImplementsLiveView`, `Settles` under fairness, `StaleOnlyIfMissed` and `Accounted`, for a DocumentStore and three writes |
| `totals` | 1,151,946 | `TotalRight`, `TotalNotOlder`, `DiffsAwaited`, `DestroyedDwindles`, `ImplementsLiveView`, and `ComesToRest` under fairness |
| `client` | 995,884 | `NoOrphans`, `SpeaksForItself`, `OneSessionTimer`, `ChainUnbroken`, `OnlyWindsDown`, and `KeepsBeingChecked` under fairness |
| `startup` | 489,948 | `HeardOnce`, `LiveMeansListening`, `WaitsForInit`, `NoneFailsOnceConnected`, and `ImplementsFeeds` under fairness |
| `stale_*`, `session_gone`, `client_gone` | | the disagreements of section 5 |

**StaleOnlyIfMissed** is the central property. When all is quiet, the client shows the query's
result unless (a) it was told of an error or an error ended the store, (b) the answer of an
older query was resumed after that of a younger one, or (c) a change was dropped that happened
*after the state the client shows*, by the throttle, while the stream was not open, or in a
blind spot of the filter. So it says that the leading and trailing edges together miss nothing,
that a filter drops nothing relevant outside its blind spots, whatever version of the document
it sees, and that restarts and reloads make up for everything their old pipeline held.

**TotalRight** says the same of totals. When all is quiet, the last total told is that of the query
in force and of the present database, unless the youngest count failed or an older one was
resumed after it, or since it was begun a change was lost or did not count (its load failed, or it
was sent as a document in incremental mode). So the awaited counts and the throttle's leading and trailing edges leave no change that
arrives uncounted, although what a throttled call counts is the query of the moment it is made, and
although a data message repeats the last total whatever query that was of.

**MislabelledOnlyIfOvertaken**: two of the stores read the id their message carries after the query,
so that the data of one subscription may go out under the id of the next. The property says that
this is never the last the client hears: the config that came in between started a load that
is still to be resumed, or was.

**Settles** says that nothing is forgotten: from any state a store comes to rest, unless it is destroyed
or `_reconnect` has thrown. Then it goes on living without a stream, at rest and out of date
(`Deaf`), and nothing in the code ends that.

**OnlyWindsDown** is about the end of a client. Middlewares and checks in flight outlive
`disconnected`, and may still send a message or arm a timer (section 5); the property says that
this is all: no store sends or costs a pipeline, and what is under way never grows.

**ImplementsFeeds** is the promise of `observableModel` and `observableDatabase`. It fails as soon as
an event is not handled, a change is left out without an error, or a stream that was let go of is
still heard. **LiveMeansListening** is what is left to conclude from a lifecycle: `live` is true, `end`
and `close` are true, and `error` says nothing of whether the stream is alive, since the handler of
a change and a reconnection that threw announce the same.

**Bounds.** `MaxWrites`, `MaxRestarts` and `MaxFaults` bound the writes to the collection, the
restarts (configs and reloads together) and the faults (failed queries, lost streams, failed
starts). `MaxEvents` bounds writes and faults together in `Store`, so that each of them may
happen as often as its own bound says but not all of them in one behaviour, and likewise, with
the restarts, in `Totals`. Two documents are needed for a change of *another* document, two writes for a change
inside the throttle's window, three for one that the throttle swallows (`live_document`),
two restarts for a config that replaces another while its queries are in flight, and a fault
for each error path. `MCStore` names the configs: one by id, queries with and without a
projection, and sorted ones. The three contents of a document differ
from one another in `v` alone and in `p` alone, which queries, projections and orders can tell
apart; `live_document` has two. `restarts_collection` and `restarts_document` have two `Names` for
each field, one the configs use and one the server may report an update by, and `UnderOr` is a
query with no keys; the other runs have one name, as counts and queries by id look at none. Most runs begin before the stream is there
(`InitialStreams = {"none"}`), so that it is opened while the first load is in flight;
`restarts_collection` and two of the violations begin with it open. The number of queries in
flight is not bounded other than by what starts them.

In `totals`, two restarts set a second query, a second view of it and the incremental mode, or
reload, and `MaxEvents = 4` leaves room for two changes beside them, or one and a fault.
In `client`, `MaxStores = 3` lets a target be subscribed to twice while another one is;
`MaxChecks = 2` lets a check overlap another one or an armed timer, and the two `Timers` are as
many handles as can be told apart then; the two targets differ in having a middleware. In
`startup`, two callers are enough for an `init` during another one's and after it, one
collection beside the database for a subject of each kind, and three events (writes, breaks and
changes that cannot be passed on) for two changes and a
break between them, two breaks and a change after them, or a change that is caught and a break after it. Its tasks are a watcher that observes the database at
once, one that waits for its init and observes the collection, and two workers, of which
the first throws; the theorems have any list of tasks. There is no symmetry to use: ids are numbers because their order is
the natural order of the collection, and targets and tasks are told apart by what they are.

**Deadlock** is not checked in any run: a store without writes left to see rests, a client
that has disconnected and an application that has started stop.

**Fairness.** `Store.FairSpec` assumes weak fairness of `StreamOpens` (the server answers a
`watch`), `StreamCloses` (the server closes the stream of a dropped collection), `Deliver` (the driver
goes on reading the stream), `WindowEnds` (a timer fires),
`AnswerSome` and `ResumeSome` (the server answers some query or other, and promises are
resumed). It is fairness of *some* query being answered,
not of each; that is enough since queries are finite. Nothing makes the world write, a client
ask or a query fail, nor a stream that could not be opened be opened again. `Totals.FairSpec` assumes
that changes arrive or are lost, that loads and counts are answered and resumed, and that the
throttle's timer fires. `OwservableClient.FairSpec` assumes that timers fire, and not that the connection
manager ever answers a check or a middleware ever resolves. `Startup.FairSpec` assumes of each
source that its stream is opened and goes on being read, with or without an error in the handler; not that an init of anybody's is settled, nor
that a reconnection succeeds.

## 4. What is proved

TLAPS checks these for every set of documents, ids, configs, targets, callers and collections, every
list of tasks and every bound; the assumptions are those named in `ChangeFilter`, `Store`, `Totals`,
`Client`, `Session`, `Streams` and `Tasks` (ids are
integers, `None` is none of the values it stands beside, bounds are natural numbers, a
middleware belongs to a target, `"*"` is no collection, tasks and files are records of their kind).

| theorem | states |
|---|---|
| `StoreProofs!TypeCorrect` | `[]TypeOk` |
| `StoreProofs!NothingForgotten` | `[]Accounted` |
| `StoreProofs!LabelsFaithful` | `[]MislabelledOnlyIfOvertaken`, that no label is older than its data, and that a CollectionStore's is always that of its data |
| `StoreProofs!DestroyStopsLoading` | `DestroyedStartsNothing` |
| `StoreProofs!FreshUnlessLostAlways` | `[]FreshUnlessLost` |
| `StoreProofs!StoresComeToRest` | the safety half of `Settles`: what a store has to do runs out, and until it does, or the stream is dead, there is a step to take |
| `FreshnessProofs!FiltersSound` | outside `BlindTo`, what the filters turn down does not alter the result |
| `FreshnessProofs!BlindSpotsReal` | in each blind spot there is a write that does, and is turned down: for an update, by whichever names it and the query go if they share none |
| `FreshnessProofs!StaleOnlyIfMissedAlways` | `[]StaleOnlyIfMissed` |
| `FreshnessProofs!StoreIsLiveView` | `ImplementsLiveView`, of `Store` |
| `FreshnessProofs!WholeCollectionsLoseNothing` | `[]ThrottleLosesNothing`, for CollectionStores that show whole documents of a whole collection |
| `FreshnessProofs!TotalsAreHeard` | a CollectionStore acts upon the change of every write that alters its query's count, but for an update under a name that is none of the query's keys |
| `TotalsProofs!TotalsTypeCorrect` | `[]TypeOk` |
| `TotalsProofs!TotalRightAtRest` | `[]TotalRight` |
| `TotalsProofs!TotalsNeverOlder` | `[]TotalNotOlder` |
| `TotalsProofs!DiffsDoNotPileUp` | `[]DiffsAwaited` |
| `TotalsProofs!DestroyedStoresDwindle` | `DestroyedDwindles` |
| `TotalsProofs!TotalIsLiveView` | `ImplementsLiveView`, of `Totals` |
| `ClientProofs!ClientTypeCorrect` | `[]ClientTypeOk` |
| `ClientProofs!NoStoreLeftBehind` | `[]NoOrphans` |
| `ClientProofs!OnlyPresentStoresSpeak` | `SpeaksForItself` |
| `SessionProofs!ChecksDoNotMultiply` | `[]OneSessionTimer` |
| `SessionProofs!ChainNeverBreaks` | `[]ChainUnbroken` |
| `OwservableClientProofs!GoneClientsWindDown` | `OnlyWindsDown` |
| `StartupProofs!StartupTypeCorrect` | `[]TypeOk` |
| `StartupProofs!ConnectionSuffices` | `NoneFailsOnceConnected` |
| `StartupProofs!InitComesFirst` | `[]WaitsForInit` |
| `StartupProofs!ChangesHeardOnce` | `[]HeardOnce` |
| `StartupProofs!LifecycleTellsTruth` | `[]LiveMeansListening` |
| `FeedsProofs!SubjectsAreFeeds` | `Observed!Safety`: the refinement, without fairness |

**The store's invariant.** `Accounted` speaks of the youngest load only, and only once it is
answered, so it is not inductive. `IInv` adds: the window is only open, and only holds a change
back, while the store listens (`WindowOk`; so a destroyed store has no timer left, which gives
`DestroyedStartsNothing`); loads and messages are numbered up to `started`, and no label
is from the future (`Numbered`); and the change held back is the last one delivered, but for
those on record as dropped (`HeldIsLast`), which is what makes it safe for the trailing edge to
act on that one change. `StreamOpens` is the one step that moves the cursor past writes nobody
was told of, and it puts them on record. The record of dropped
changes is emptied whenever a load starts. That
is sound because the new load has not been asked yet: it will see everything written so far.

**From accounting to freshness.** `JInv` adds that the youngest load is for the config in
force (`Current`), that no answer is from a state the database has not reached (`Reached`),
that events and delete messages report what was really deleted (`Reports`, `DeleteIsOwn`,
`DeleteRemoves`). It needs a fact of its own, `StreamFirst`: before the stream was asked for no
load was started, so that a start that fails leaves no load of an older config behind as the
youngest. At rest nothing is undelivered or held back; so if nothing on record as dropped happened
after the state the youngest message shows, `Accounted` leaves no write it has not seen, and it
shows `Loaded(Config, Db)`. A delete message shows nothing, which is what a config by that id
returns once its document is gone (`NothingWithoutIt`).

**The filters.** For `StaleOnlyIfMissed` it is not enough that nothing was dropped: changes that the
filter turned down must not have mattered. `LInv` is what that takes. The oplog explains the
history: if a document differs in two states of the database, it was written in between, by an
operation and to fields that account for the difference (`OplogExplains`, `WritesLeave`). And what is on
record as ignored was turned down by the config *in force*, for some version of the document the
server may have looked up (`IgnoredRightly`): the record is emptied by a restart, so that
no other config's judgement is on it. `FiltersSound` then takes any stretch of the oplog whose
changes were all turned down outside the blind spots, and shows for each kind of store that the
query returns the same at its end as at its beginning. One change at a time would not do: an
update's event may carry its document as a later write left it, or none, and is then turned down
for what came after it; nothing is lost only if that later change was turned down as well.
So it is the document at the two ends that `OplogExplains` compares. For a DocumentStore the argument is
about the first document (`FirstOfQuerySound`, `FirstInOrderSound`): it stays first, as what would
come before it does not match and did not before.

What ties the filters to the results is only that a name determines its field: if a query's keys or
a projection share a name with the report of an update, the store acts upon it; if they share
none although the field is the same, that is a blind spot (`KeyMissed`, `FieldMissed`), and if
none of the fields is the same, the update does not alter what is selected or shown.

`BlindSpotsReal` is the other side. It gives a config, a database and a write for each clause of
`BlindTo`, so that none of these excuses is there for the proof's sake: a query and an update of what
it selects on that share no name, whichever they are; a projection of one part of a field and an
update of another; an insert, a drop, a new order. `TotalsAreHeard` is a
consequence `Totals` depends on: of the changes that alter a count, it lets the filter turn down
only those of `KeyMissed`.

**The throttle.** The run `stale_document_swallowed` shows that it may swallow a change that matters.
It does so only if the filter turns down the change passed in its place: while the store lives, a
later change is held back for whatever was swallowed (`Overshadowed`), and once that one
starts a load nothing is on record any more. A CollectionStore that shows whole documents of a whole
collection turns nothing down.

**The refinement of live views.** A step from rest to rest is only the end of an idle window; one
that ends the rest leaves the last message alone, and what that shows is of a past state and
an earlier config, which do not change (`QuietStep`, `ShownStays`); one that reaches rest
reaches `StaleOnlyIfMissed`, which is what `Settle` asks. For totals the same holds by `TotalRight`
(`RestingStep`), as no total is of a query that was not asked yet (`OfPast`).

**Coming to rest.** `Work` weighs what a store has to do: a change to be read, the one held back,
the open window, queries in flight. Reading a change may open a window and start a query, which
together weigh less; the trailing edge turns the change it holds back into a query; an answer and
its resumption take one each. So without writes, requests and faults a store takes at most `Work`
steps more (closing and reopening a stream weigh something as well), and `Resting` says that it has
one to take until it is at rest or left with a dead stream. What TLAPS cannot say
is that it does take them, which is the fairness in `Settles`.

**The client's invariant.** A store that runs or is attached is entered under its target and
both maps agree; inductive together with `MadeForIt` (a target is entered with a store made
for it), which a reload needs, since it starts the pipeline of whatever store it finds.

**The session's.** `SessionTypeOk`, `OneSessionTimer` and `ChainUnbroken` are inductive together.
Each of the two is proved of the composed client. `OnlyWindsDown` follows from what they have in
common: once `connected` is false, `NoOrphans` leaves no store attached or running, as the maps
are empty, and `OneSessionTimer` makes the timer a check replaces the only one, so that a check in
flight that arms a timer is one check less and at most one timer more.

**The totals'.** `TotalRight` speaks of a store at rest. `Pursued` says what holds on the way: while
the store lives, either something is under way that will count, or whatever is known of the
youngest count is right (`YoungestRight`): it counts the query in force, and has counted, if at
all, the present database. A write makes a change due, a change starts a load, a load begins a
count or leaves one waiting; a change that is lost is excused until the next count begins; a config
replaces the query and starts a load of its own. With
`Numbered` (counts are numbered up to `begun`, and none is of a query older than its label) and
`DiffsAwaited` that is inductive. `DestroyedDwindles` needs that a destroyed store has no
subscription (`Ended`), so that no load begins; a load that resumes begins one count at most or
leaves one waiting (`CountingStep`).

**The start's.** `ConnectorInv` adds to the types that `_connection` is set only once mongoose has a
database; with it a task that finds `_connection` set cannot fail for want of one.
`TasksInv` adds that nothing is known of a task whose kind was not initiated.
`StreamsInv` adds that a stream is listened to exactly until it breaks (`ListenedTo`), and
that what a subject has sent lies behind the stream it listens to (`Behind`), which is why a stream that
is opened anew, at the end of the oplog, repeats nothing. A change that is not passed on moves the
stream all the same, and leaves an error in the lifecycle (`HandlesInv`).

**The refinement of feeds.** By `StreamsInv` a stream that has not broken is a subject's last
(`UnbrokenIsCurrent`), so that opening it, passing a change, failing to and breaking are the feed's
`Start`, `Emit`, `Skip` and `Break`; a late close is of a stream nobody listens to and changes nothing
(`LateCloseUnheard`); constructing subjects is `Observe`.

**Model-checked only.** Every invariant, action property and safety part of a refinement that a passing run
checks is a theorem. `Settles`, `ComesToRest`, `KeepsBeingChecked` and the fairness of
`ImplementsFeeds` are liveness, which needs `ENABLED` and stays with TLC; `StoresComeToRest`
is as much of `Settles` as can be proved. A measure like `Work` for `ComesToRest` would sum the
loads of all subscriptions, which takes induction over them.

## 5. Where the code falls short

Each of these runs expects TLC to violate one property; `PROJECT.json` quotes under `findings`
the line of the README or of a test it contradicts.

| run | what happens |
|---|---|
| `stale_document_swallowed` | `DocumentStore` throttles *before* it filters: the change of the document shown is swallowed by a later one of another document, which the filter then drops. The client keeps the old document. |
| `stale_collection_overtaken` | Two loads overlap; the one asked first is answered first and resumed last. The client keeps the older result. |
| `stale_collection_gap` | A store's first load is answered, a document is written, and only then does the server open the stream, which begins after that write: it is never delivered, and no store reloads. The same happens whenever the stream reconnects. |
| `session_gone` | A session check in flight when the client disconnects arms its timer afterwards. |
| `client_gone` | A message that awaited its middleware is sent although its target is gone. |

The filters' blind spots (`BlindTo`) are deliberate trade-offs or oversights of the same kind: a
`CountStore` ignores updates, also those that move a document into or out of its query; a
`CollectionStore` does not look at the sort keys; a `DocumentStore` found by a query does not
notice its document leaving the query, and one found by id does not notice it being inserted.
Neither a `CountStore` nor a `DocumentStore` notices that its collection was dropped or renamed. And
`CollectionStore` and `DocumentStore` compare the query's and the projection's keys with the paths of
an update as they stand (`collection.store.ts:29,38`, `document.store.ts:69`): an update of
`address.city` is none of a query or a projection on `address`, and no update is one of a query
under `$or`; if the document is then no longer in the query, the change is turned down.
They are excuses in `StaleOnlyIfMissed`, and so each of them is documented by a formula: what
`BlindTo` does not mention is not missed (`FiltersSound`), and what it mentions can be
(`BlindSpotsReal`).

## 6. What is not modelled, and the plan

What is assumed of documents and queries: a document has two fields, one that is selected on and one
that is sorted on. A query is on the id, on one value of the first field, or on both; that stands for
whatever conditions on values there are, under operators or not. The parts of a field have no
content of their own: a name says how an update, a query or a projection refers to the field, and
a projection of one part of it shows the field. So an update of a part that nobody asked for is taken for
one that alters what is shown, and a blind spot (`FieldMissed`) may excuse more than the code needs;
it excuses nothing in a query that shares a name with the report. `createdAt` and `updatedAt`, which
`testDocument` leaves out of a query, are no fields here: a document that a query on them
does not select passes the test, which makes a store load more often and not less. A query that
sift and MongoDB understand differently is not modelled. A projection that excludes
fields is to the filters the same as none (`shouldConsiderFields`), and what it shows is a part of what
none shows.

Left out for good: the wording and timing fields of messages, pings, pongs, locations and debug
messages of the client, the index and performance helpers, and the search for files in folders.
They decide nothing the properties depend on. Populates and virtuals add awaits between a
query's answer and its message; there `Resume` can already be delayed at will. A page is a query
with a window on its result, and is not told apart from it; that a `DocumentStore` with a `skip`
sets neither skip nor limit is one pure expression. Models and
middlewares that the host adds while the system runs are not modelled. A subscriber of a subject that
throws is reported by rxjs by itself, later, so that the handler of a change mostly does not see
it; `Catches` has whatever else may throw there. There are no actions for the end of the process; nothing here survives it.

Not promised anywhere, and so no property: the order of two messages of one target in the
middleware, a pause or a limit in reconnecting, and a second attempt at a start that threw.

Planned:

1. **A client with its stores** (`System`): `OwservableClient` composed with stores that send as
   `Store` does, to follow a write to the message of the right target.
