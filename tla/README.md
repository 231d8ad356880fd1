# Formal models of the account lookup bounded context

TLA+ modules of the account lookup service of Mojaloop vNext, the TLC runs that
check them on small instances, and proofs, checked by TLAPS, of what matters
most for every instance. Source paths are relative to `src/packages/`.

## 1. The system

The service answers "which FSP does this party belong to" for the other
services of the platform. Requests arrive as domain events on a Kafka topic and
leave as events; who owns a party is kept by *oracles*, which an admin registers
over HTTP.

| Component | Source | State it keeps | Operations |
|---|---|---|---|
| Batch event handler | `account-lookup-svc/src/handler.ts` | the outputs of the current batch | start, batch callback, destroy |
| Aggregate, event handlers | `domain-lib/src/aggregate.ts` | none between events | handleEvent and its seven handlers |
| Aggregate, administration | `domain-lib/src/aggregate.ts` | the list of oracle adapters of this instance | init, addOracle, removeOracle, queries |
| Oracle finder | `implementations-lib/src/oracles/mongo_oraclefinder.ts` | Mongo collection of oracles | add, remove, getOracle.. |
| Oracle adapter factory | `implementations-lib/src/oracles/oracleadapter_factory.ts` | none | create |
| Built-in oracle | `.../adapters/builtin/mongo_oracleprovider.ts` | Mongo collection of associations, Redis cache | get, associate, disassociate, search |
| Remote oracle provider | `.../adapters/remote/http_oracleprovider.ts` | an HTTP client | the same over HTTP |
| Remote oracle service | `http-oracle-svc/src/` | a map in memory, a JSON file | the same behind HTTP |
| Participants adapter | `implementations-lib/src/external_adapters/participant_adapter.ts` | none (a client with a cache) | getParticipantInfo |
| Service lifecycle | `account-lookup-svc/src/service.ts` | the running parts | start, stop, signals |
| HTTP routes | `account-lookup-svc/src/routes/` | none | 9 requests of admins and readers, token and privileges |
| HTTP client library | `client-lib/src/` | none | participantLookUp |

How they interact: the consumer hands the batch handler up to
`CONSUMER_BATCH_SIZE` messages; for each one it awaits `aggregate.handleEvent`,
which awaits the participants service (is the requester, is the destination
approved and active) and, for some messages, an oracle, chosen by party type
and currency in the finder and reached through the adapter of this instance. It
returns one event, a success or an error. After the loop the events are sent;
when the callback resolves the consumer commits. Instances share Kafka, both
Mongo collections and Redis; within an instance requests interleave at every
`await`.

What is hard here: check-then-act across an `await` (duplicates in both
collections), a cache filled or emptied at the wrong moment, calls that were
applied and yet failed, batches that fail half way and come again, instances
that do not see each other's changes, and a file that is truncated before it is
written. `PROJECT.json` lists each of these hazards at its line, with the
properties that watch it.

What makes the parts correct:

* pipeline: no request is lost; one answer per delivery; a success only after
  the validations; routed only to an owner; stored means reported;
* built-in oracle: no owner out of thin air; no duplicates; a coherent cache;
  disassociated means gone;
* both oracles: each call takes effect at most once, and one that was confirmed
  exactly once (the store that the pipeline relies on);
* search: pages that can be counted on, without gaps;
* registry: unique ids and names; an oracle that is registered is served, one
  that is not has no adapter; registrations do not redirect; instances start;
* HTTP interface: what an admin was told stays true; the list of the built-in
  associations is complete or an error (a search or a list of keywords need not
  be); "nobody" is no failure in disguise, for a request that finds its route;
* remote oracle: one winner of a race; confirmed means durable; no invented
  answers;
* lifecycle: start and stop come to an end; a clean exit has closed what stop can
  get at, which is not all (section 3); nothing is closed under a running
  consumer.

## 2. The modules

Every `await` of the code that is modelled is a step of its own: the code
between two awaits is one action, with the early returns and throws as
disjuncts. A `\* As X, ...` operator before a definition X is a variant of it
with a plausible mistake: the property that is to notice the mistake is named
beside it in `PROJECT.json` (`mutants`). These variants are never part of a
next-state relation.

The modules build on each other like this:

    AssociationStore     what an oracle promises to its callers
        implemented by BuiltinOracle, RemoteOracle (INSTANCE ... WITH)
        assumed, in a weaker form, by AccountLookup
    BuiltinOracle   <--  AssociationSearch   the search over its documents
    OracleRegistry  <--  OracleApi           the HTTP interface on top of it
    ServiceLifecycle     around all of them, with their last steps

The proofs about X are in XProofs; SequenceLemmas has what they share about
sequences and minima. An `MC` module gives the constants their values for TLC.

### AccountLookup (handler.ts and the event handlers of aggregate.ts)

A `Worker` is an instance with a partition assigned to it. `log[w]` is its
partition, `committed[w]` the offset it is committed to, `published[w]` what it
sent. `pc`, `cur`, `last`, `outputs` and `failed` are the state of
`_batchMsgHandler` (its place, the message at hand, the end of the batch,
`outputEvents`, whether the loop threw); `todo`, `reply`, `dest` and `vetted`
are that of the handler of the current message: the awaits to come, the event to
return, the destination or owner known so far and the FSPs found active.

The seven handlers have one shape, a fixed sequence of awaits each of which may
end the handler with an error event. `handleEvent(m)` is the dispatch: it gives
the sequence and the final reply of message `m`. The awaits are the actions
`validateRequester..`, `validateDestination..`, `_getOracleAdapter`,
`_getParticipantIdFromOracle`, `associateParticipant`,
`disassociateParticipant`; `HandlerThrows` is the catch in `handleEvent`, for
whatever a handler throws before, between or after its awaits, when its write to
the oracle may be done already.
`TakeMessage`, `PushOutput`, `LeaveLoop`, `TelemetryThrows`, `Send` and
`SendFails` are the callback. `Deliver` and `Commit` are the Kafka consumer, as
the code relies on it: it commits a batch when the callback resolved and
delivers it again when it rejected. That library is not in the repository, so
this is an assumption. `Crash` may happen anywhere outside `poll`.

The oracle is abstract here, by what the adapters promise together (less than
AssociationStore promises of each): a lookup may answer any owner that was registered for the party once (caches may be
stale), an association may be refused when somebody owns the party (the remote
oracle refuses then; the built-in one only when it is the same owner), and a
call that fails may have been applied. A participant is known by its status; a
failed call to the participants service is `not_found`, because the adapter
swallows errors. A message is its name, its form (payload and type present),
party, requester or owner, and destination; the other fields are passed through.

`outputs` and `published` are sets of events, told apart by request, delivery,
name and destination. The very same event pushed twice in one delivery, or sent
twice by one `send`, would therefore not show; OneAnswerPerDelivery is about two
different answers. In the code the one `push` follows the one call of
`handleEvent`, and the one `send` is in the finally block.

### BuiltinOracle (mongo_oracleprovider.ts)

`docs` counts the documents of each association, `cache` is Redis. A `Caller` is
any request in flight in any instance: they share the collection and the key
prefix. `getParticipantFspId` continues with `_getFromCache`, `FindParticipant`,
`FillAfterFind`; `associateParticipant` with `FindDuplicate`,
`InsertAssociation`, `FillAfterInsert`; `disassociateParticipant` with
`DeleteAssociation`, `_delFromCache`. A sub type or currency that is
null or undefined (`Absent`) is removed from a query, which then matches every
document (`Matches`); the query is what is inserted, so such a document lacks the
field either way. The key of a cache entry spells out which of the two it was:
they are two keys, as in the code. Handlers pass undefined for a field that a
request leaves out, except the one that disassociates, which passes null. `Throw` is
a rejected call, `Outcomes` one that was applied and rejected, `Expire` the time
to live. The cache key is a tuple: two different parties whose concatenated
keys are equal are not considered. A cache entry that cannot be parsed, which
only another writer could leave, is not either.

### AssociationStore (IOracleProviderAdapter)

The abstract specification of both oracles: a set `owners` of associations, and
for each caller the `call` it waits for and whether it took effect. A call is an
`Invoke`, for a write one `Register` or `Drop` in between, and an end: told an
owner, told nobody, confirmed, failed. Two constants say how the oracles differ.
The remote one is strict: a check and its change are one step, a lookup is told
the present owner. The built-in one is `Relaxed`: an association may find its
equal there, a deletion may find nothing, and a lookup may be told, from the
cache, an owner that was registered once; but "nobody" is said only while nothing
matches, at most one association goes per deletion, and it is one that was asked
for. The remote one alone is `Volatile`: its process may end and come back with
what its file has. `Matching` is which keys a query selects, which is where the
two differ over sub types and currencies.

BuiltinOracle maps `owners` to the associations with a document, RemoteOracle to
the values of its map; both map a call to the arguments it carries and "took
effect" to the awaits after the insert, the delete or the change of the map. The
instances are called `Store` in both modules, the properties `ImplementsStore`.

### AssociationSearch (searchAssociations of the built-in oracle)

`search` is the search between its two awaited queries, `page` the result that
has just gone out. Documents carry no `updatedAt`, the field they are sorted by,
so a page may hold any documents, as many as `skip` and `limit` leave
(`PageLength`). `TotalPages` is the rounded quotient, over negative numbers and
zero too: only one side of each parameter is bounded in the code. The callers
of BuiltinOracle go on in between. A filter only makes the documents fewer.

### OracleApi (the routes, the reading operations of aggregate.ts, the client)

A `Reader` is a GET request in flight: `step` is its await, `req` what it asks
for and of which instance, `todo` the oracles its loop has still to ask,
`adapter` the adapter it waits for, `reply` the status it ended with and the
associations it shows. The listings are `ListOracles`, `Resolve` (which goes by
party type and currency, not by the oracle at hand) and `AskAssociations`; each
oracle's answer replaces the one before it, as in the code. What an oracle shows
depends on the kind of listing (`Shows`): all associations, the keywords of all,
or, of a search, any of them, as the filter, the page and the limit of the query
have it (which ones exactly is in AssociationSearch). A failure that a search or
the keywords swallow leaves the items of the first query, or the keywords read so
far: any part of what there is (`ReadFails`). The writes of
OracleRegistry are requests here that end with a status (`receipt`).
`_authenticationMiddleware` and `_enforcePrivilege` refuse before anything
happens. `CatchAll` answers 404 to a request that no route takes, which a lookup
of the client becomes when its party id, put into the URL as it is, has a slash in
it. `entries` is the shared collection of associations of one party, by the
party type and currency they were made under; it changes at any time.
`participantLookUp(code)` is what the client makes of a status; a request that
its timer aborts ends without an answer and changes nothing.

### OracleRegistry (aggregate.ts, mongo_oraclefinder.ts, the factory, init of the HTTP provider)

`docs` is the collection in natural order; each instance has a `status`, the
oracles it has yet to initialise and its `adapters`, an adapter being the oracle
it was made for. `addOracle` goes on with `CheckId`, `CheckName`, `FindPresent`,
`InsertOracle`, `InitAdded`; `removeOracle` with `FindRemoved`, `DeleteOracle`.
The test of the name, the clearing of the endpoint and the factory lie between
the same two awaits and are one action. An adapter can be initialised unless it
is a remote one without an endpoint. The finder compares currencies with `===`:
an oracle without a currency has null or none at all (`Undefined`), and is an
exact match only for a request of the same form (`Exact`).

### RemoteOracle (http_oracleprovider.ts and http-oracle-svc)

A `Caller` is a call of the provider. Its request is sent (`SendLookup`,
`SendWrite`), may be lost before it is handled (`RequestLost`) or after
(`ResponseLost`), and finds nobody listening while the service is down or closing
(`ConnectionRefused`). `memory` is the map, keyed as by `createKey`, `file` the
JSON file with its state (missing, empty, parsable, corrupt). The map is changed
in the action that receives the request, as there is no await before; the save
is `OpenFile` (which truncates), `WriteFile`, `Respond`. Writes of two saves that
overlap may leave the later one's contents or, if what is in the file is not
covered by it, a corrupt file. `RequestUrl` is what the client's URL turns into
on the other side: a sub type swallows the currency. The process is started
(`_loadFromFile`), stopped by a signal, which lets the requests it has end
(`Stop`, `Exit`), or ends at once (`Crash`, also the timer of the signal
handler). The fspId that the routes insist on is always there, as the aggregate
validated it; the service retries nothing, and neither does the provider.

### ServiceLifecycle (service.ts, start and destroy of handler.ts and aggregate.ts)

One process. `boot` is the await that `start` is suspended at, down into
`eventHandler.start` and `aggregate.init`; `conn` tells of each part whether it
is connected or closed, the logger, whose Kafka producer is the first thing to be
connected, included. A built-in adapter has two connections, awaited one after
the other: its Mongo client is in `conn`, its Redis client in `redis`
(`AdapterMongoConnect`, `AdapterInit`; `AdminMongoConnect`, `AdminAdds`). Its
destroy closes the first one only, so nothing is ever taken out of `redis`. The
adapters of remote oracles hold no connection and are not oracles of this module. Which fields of `Service` are set, which `stop` tests,
follows from `boot` (`Reached`). Each signal runs a `stop` of its own (`pc`).
`arrays` are the arrays that the field with the adapters has held: the loop of
`aggregate.destroy` keeps the one it began with, `removeOracle` makes a new one.
Admin requests appear with their last steps only; the others are in
OracleRegistry. A destroy that another handler is at already may answer before
the part is closed, a part that was closed may be connected again by `start`,
and a rejected start or stop ends the process through `uncaughtException`: the
first two are assumptions about libraries that allow more rather than less, the
third is how the supported versions of Node treat a rejection nobody handles.
Three awaits of the authorization client are one, as nothing modelled happens
between them.

## 3. Runs

`tlc -config <cfg> <module>`; the states and times are those of two workers.

| Run | Instance | Shows |
|---|---|---|
| lookup_safety (3.0 million states, 80 s) | 2 workers, 1 party, 2 FSPs of which one may be inactive, partitions of up to 4 messages with every kind of request, batches of 2, 2 faults | TypeOK, AnsweredBeforeCommit, OneAnswerPerDelivery, SuccessIsVetted, RoutedToOwner, StoreIsReported |
| lookup_live (88 thousand, 10 s) | short partitions, 1 change of a participant, 1 fault | SuccessIsVetted, AllAnswered |
| builtin_concurrent (102 thousand, 55 s) | 2 requests in flight, a currency and null, 2 FSPs, 2 writes, failing calls | TypeOK, Provenance, AnswersAreRegistered, EventuallyCoherent, ImplementsStore |
| builtin_serial (321 thousand, 90 s) | 1 request at a time and a search, complete keys in 2 currencies, 2 FSPs, 4 writes; pages of sizes -1, 0, 2 and 4 at indexes -1 (the first page) and 1, of which at most 3 count and 2 are read | NoDuplicateAssociation, CoherentWhenQuiescent, DisassociatedIsGone, PageExists, NothingBetweenPages |
| api_serial (529 thousand, 49 s) | 1 instance, 1 admin request and 1 GET request in flight, 5 kinds of DTO among them bad ones and one without a currency, 4 admin operations, 1 crash, 1 change of the associations, failing reads | ApiTypeOK, UniqueRegistration, ResolvesToRegistered, NoOrphanAdapter, CalmListingSucceeds, PromisesKept, NullMeansNobody, ListingComplete |
| registry_concurrent (160 thousand, 30 s) | 2 instances, 2 admin requests in flight, an oracle that cannot be initialised among them, failing calls, 1 crash | StableRouting, EventuallyUp |
| remote_shared (313 thousand, 63 s) | 2 calls in flight, keys with a currency, neither, and both a sub type and a currency, 2 FSPs, 2 writes, 2 ends of the process, lost requests and responses, failing saves | TypeOK, AckedIsDurable, OneWinner, AnswersWereAccepted, ImplementsStore |
| service_stop (313 thousand, 34 s) | 2 signals, 2 oracles of which one is stored, calls that fail or hang | TypeOK, CleanExitReleases, NothingPulledAway, StartEnds, SignalEndsProcess |

The bounds are enough for the cases the properties are about: two of whatever
races is what a race takes, as every check-then-act here involves two requests;
two faults allow a crash after a failed send and a crash of a redelivery; a
batch of two has a message before and after the one that throws, with the
partition's third message in the next batch; of two oracles one is initialised
by start and one pushed by an admin, and each may be removed. Two ends of the
remote oracle allow a stop with a request in progress and a crash of what came
after; a restart after that brings nothing new, as nothing survives but the
stores. One GET request is enough in api_serial, as readers change nothing that
another one sees; the oracles it meets may be two, so that a listing is in its
second turn when the first oracle goes. The limits of the search, 20 documents
and 100 per page, are 2 and 3 there, in the same order, with page sizes that
equal the first, exceed both, or are zero or negative, and a collection that is
larger than both. The two forms of an absent currency are keys of
builtin_duplicate and builtin_stale; in builtin_concurrent one of them is enough,
as only the cache tells them apart, and there a key is a key: a currency and null
are two whose entries are filled and evicted apart, with documents in common. The
theorems about that run's properties are for all keys.

Symmetry (of callers and FSPs in remote_shared, of FSPs and currencies in the
search's runs) is sound: no definition names one of them, the only CHOOSE, in
`_loadFromFile`, has one candidate as a saved map has one record of a key, and
the runs check no liveness.

Runs that end in a violation, each a disagreement between the code and what the
repository says:

* builtin_duplicate: two equal associations in flight are both stored
  (`NoDuplicateAssociation`).
* builtin_stale: one request after the other, an owner looked up without a
  currency stays cached when its association is deleted with the currency
  (`CoherentWhenQuiescent`). The same happens when both leave the currency out, one
  as undefined and the other as null.
* search_pages: a search with the default page size says that there is one page
  and shows only as many associations as its query is limited to
  (`OnePageIsAll`).
* remote_subtype: `createKey` leaves the sub type out (`SubTypeRespected`).

Deadlock is checked in the built-in oracle's runs, where a lookup is always
possible. The others say `CHECK_DEADLOCK FALSE`: a pipeline whose partitions are
exhausted, a registry whose bounds are used up, a remote oracle whose file is
corrupt and a process that has ended do stop.

Some properties say less than one might wish, because the code does:
`StoreIsReported` holds while nothing failed (after a crash between the write
and the send, or a throw after the write, an association is stored and reported
as a failure); `SuccessIsVetted` says that the checks were made, not that their
results still hold when the event goes out;
`UniqueRegistration`, `ResolvesToRegistered`, `NoOrphanAdapter` and
`PromisesKept` hold in one instance with one admin request at a time (two
that are in flight register one name twice; an instance never hears of what
another one added or removed); `AckedIsDurable` holds while no two saves overlap and none is
cut short. `PageExists` and `NothingBetweenPages` hold
unless a write falls between the two queries of a search, and the second one for
page sizes within the query's limit (search_pages shows the others);
`ListingComplete` is about the list of the built-in associations
(`getBuiltInOracleAssociations`) alone: a search shows no more than its limit, and
searches and keywords answer 200 with a part when a query fails;
`NullMeansNobody` is about lookups that reach their route (`CatchAll` is how one
may not, and its 404 is null to the client too); `CalmListingSucceeds` speaks of built-in oracles only, as a remote
one cannot list and makes every listing fail. `EventuallyUp` speaks of a
collection that is good in the end: an oracle whose adapter cannot be
initialised is stored nevertheless, and as long as it is, no instance starts.
`CleanExitReleases` is about what was open when the first signal came and what
`stop` can get at. A clean exit leaves connected: the producer of the logger and
the authorization client, for which `stop` has no line; the Redis client of every
adapter, which `MongoOracleProviderRepo.destroy` does not close; the adapters of
removed oracles, and one that is half initialised or not pushed yet; and whatever
a start that goes on meanwhile connects.

## 4. Fairness

* Pipeline: `WF(HandlerStep \/ BatchStep)` of each worker. Promises settle, the
  event loop goes on, the consumer keeps delivering and committing. Failures and
  changes are never fair, and they are bounded.
* Built-in oracle: `WF(Resume)` of each caller and `WF(Expire)` of each key, as
  every entry is written with `setex`. Requests are not fair.
* Lifecycle: only the timers, `WF(StartTimesOut)` and `WF(ProcessAbort)`: any
  awaited call may hang.
* Registry: `WF(InstanceStep)` (a service that is down is started again, by
  whatever supervises it) and `WF(AdminStep)`.

## 5. Proofs

`tlapm <module>.tla`. What is proved holds for every value of the constants that
meets the named ASSUMEs of the modules: the sentinels are no data values and no
records (`NullAssumption`), `Undefined` is another value than `Null` and no data
value, the sets of inputs are of their types, the bounds
are numbers, and, in ServiceLifecycle, oracles are no fixed parts of the process
and each is stored once. Theorems that need more say so, as `ASSUME ... PROVE`.
Every invariant, action property and refinement that a passing run checks has a
theorem.

| Theorem (module) | Property | Only if |
|---|---|---|
| TypeCorrect, NoRequestLost, NoSecondAnswer, NothingUnvetted, OnlyClaimedDestinations, NothingUnreported (AccountLookupProofs) | TypeOK, AnsweredBeforeCommit, OneAnswerPerDelivery, SuccessIsVetted, RoutedToOwner, StoreIsReported | |
| TypeCorrect, OwnersAreRegistered, AnswersRegistered, BuiltinOracleIsStore (BuiltinOracleProofs) | TypeOK, Provenance, AnswersAreRegistered, ImplementsStore | |
| NothingStoredTwice | NoDuplicateAssociation | OneAtATime |
| GoneForGood | DisassociatedIsGone | OneAtATime, CompleteKeys |
| CacheFollowsStore | CoherentWhenQuiescent | OneAtATime, CompleteKeys, no failing calls |
| NumberedPagesExist, PagesAreFull (AssociationSearchProofs) | PageExists, NothingBetweenPages | |
| TypeCorrect, LookupsAreAccepted, OneWinsTheRace, ConfirmedIsDurable, RemoteOracleIsStore (RemoteOracleProofs) | TypeOK, AnswersWereAccepted, OneWinner, AckedIsDurable, ImplementsStore | |
| TypeCorrect, RoutingIsStable (OracleRegistryProofs) | TypeOK, StableRouting | |
| RegisteredOnce | UniqueRegistration | OneAdmin |
| NoAdapterIsLeft, ServedAsRegistered | NoOrphanAdapter, ResolvesToRegistered | OneAdmin, OneInstance |
| ApiTypeCorrect, NullIsNobody, ListingsAreComplete (OracleApiProofs) | ApiTypeOK, NullMeansNobody, ListingComplete | |
| ApiRegistersOnce | UniqueRegistration | OneAdmin |
| AdminsAreToldTheTruth, CalmListingsSucceed, ApiLeavesNoAdapter, ApiServesAsRegistered | PromisesKept, CalmListingSucceeds, NoOrphanAdapter, ResolvesToRegistered | OneAdmin, OneServer |
| TypeCorrect, ExitReleasesAll, DeliveryIsServed (ServiceLifecycleProofs) | TypeOK, CleanExitReleases, NothingPulledAway | |

The hypotheses are the terms on which the code keeps these promises, and the
serial runs have them: requests to the built-in oracle do not overlap
(`OneAtATime`) and name a sub type and a currency, neither null nor undefined
(`CompleteKeys`); one admin
request is in flight at a time (`OneAdmin`); there is one instance (`OneServer`),
and a write to the registry that was applied is not reported as failed
(`OneInstance` asks for both). The number of requests, of readers, of faults and
of crashes stays arbitrary. The runs builtin_duplicate and builtin_stale show
two of these terms to be necessary.

The arguments, component by component:

**AccountLookup.** AnsweredBeforeCommit is not inductive: at `Commit` one must
know that the whole batch was answered, at `Send` that every message has an
output, in the loop that those passed have one. `IInv` is the chain of these,
worker by worker: `Progress` (where the loop stands), `Handling` (a success that
has not been validated still has its validation ahead: the shape common to all
handlers, lemma `HandlerShape`), `Covered`, `Resolved`, `AnsweredUpTo`. TypeOK
needs it too, as only a requester that was validated is known to be an FSP when
it is written to the oracle. A second invariant, `EInv`, is about the events
themselves: `Stamps` (outputs belong to this delivery, what is published to
earlier ones), `Routing` and that every event is vetted and routed. `ReportInv`
follows a pair from the oracle to the topic: it has its event published, among
the outputs, or about to be pushed (`AccountedBy`); that rests on an association
being the last await of its handler (`AssociatesLast`). A step changes the state
of one worker only (`OthersUnchanged`, `Preserved`), so each step is looked at
for its own worker. The steps of a handler have one effect (`HandlerEffect`): an error
returned, or on to the next await; a throw after the last await is the first of
these.

**BuiltinOracle.** `IInv` adds to Provenance that every document was inserted
under its own key, that a caller at an await has the arguments this await uses,
and that one about to fill the cache after its insert has its association in the
history. ImplementsStore follows from it step by step: an insert is the store's
Register even if its equal is there, a deletion its Drop even if it took nothing
or one of two equals, ends are ends, all else is a stutter. For requests that do not overlap, `LoneInv`
says that what a check has found is still so at the insert or fill that relies on
it, `GoneInv` that from the deletion on nothing is left to find, and `EntryInv`
that a cache entry has its document or its eviction is the next step. Complete
keys matter as they select their own documents and no others
(`CompleteSelectsItself`).

**AssociationSearch.** `SearchInv`: the collection is finite, and while no write
came after it the first query holds as many of its documents as `PageLength`
says. The rest is arithmetic: `PagesCover` (an index times the size is below n
exactly if the index is below the rounded quotient).

**RemoteOracle.** Its invariant has a part for each promise. `StoreInv`: map,
file and every save in progress hold only what was accepted, in its place.
`OneSave` and `SaveInv`: a save that has met no other writes the present map to a
file that is as this save left it. `PromiseInv`: a place of the map that no save
is about has the owner that was promised, that of a save what was asked for; so
when a save ends the file is right, and a process that ends between changes
loses nothing. `WinsInv`: counting those not yet confirmed, associations and
disassociations of a place alternate; this is where sets of callers are counted,
and where they must be shown finite. Nothing is asked of the number of callers.
ImplementsStore maps the change of the map to Register or Drop and the load of
the file to the restart of a volatile store (`LifeRestarts`).

**OracleRegistry.** The lemma behind routing is that the first match stays the
first when the collection grows at its end (`FirstMatchStays`). `NewInv`: what a
check found new is new until it is inserted, the await between them
notwithstanding, which is what a second admin would break. `AdapterInv`: whoever
has an adapter or waits for one is registered; in an instance that starts, all
that can be initialised have one or wait; in one that serves, all but the oracle
that is being added. The model takes matches by their places in a sequence
(`AtPlaces`, `Min`), as the provers know nothing of SelectSeq.

**OracleApi.** `ApiInv` is what a GET request knows at each await and that a calm
one finds the registry as it read it. Each of the registry's steps is a step here
too (`RegistryStep`), so its invariants are kept by the same lemmas;
a read that fails is the one step that is new to them. ListingsAreComplete rests
on an oracle's answer being all associations of that moment, which is so for the
list of the built-in ones; `kept` is what was there from the request on. `PromiseInv` adds that the
request in flight is about no oracle that an answer spoke of: an id is forgotten
by the promises when a request for it begins.

**ServiceLifecycle.** `StartInv` is the order of start: parts that are open, or
that the first signal found open, had their turn (`OpenInv`, `EarlyInv`), and
adapters are listed once both their clients are connected. What `stop` tests tells it therefore what
was open (`SkippedWasNotOpen`). `ReleaseInv`: each handler has released what
comes before its present step; in the loop over the adapters, the places of its
array that it has passed, though the list changes under it. `ConsumeInv`: as long
as batches are delivered to a service that was up, every handler is at its first
await.

Model-checked only, as TLAPS proves no liveness here: AllAnswered,
EventuallyCoherent, EventuallyUp, StartEnds and SignalEndsProcess.

## 6. Not modelled

* A batch in the callback while the consumer is stopped, which is up to the
  consumer library; metrics and tracing, except that they may throw; the caches
  inside the participants client.
* Of the HTTP interface: the validation of fields that the aggregate does not
  look at (a 422 that changes nothing), and how tokens are verified. Reads fail
  at any time in OracleApi, the writes only in OracleRegistry (`MayFail`), where
  several instances are.
* Of the search: which documents a filter selects and which words the keywords
  are (both are single queries over text), and parameters that are no numbers.
* Which characters of a party id change the meaning of its URL: `CatchAll` may
  take any request.
* Remote oracles other than the one in this repository: the provider is modelled
  against it.
* Mocks, scripts and deployment files.

## 7. Plan

The modules were written in this order: BuiltinOracle, AccountLookup,
OracleRegistry, RemoteOracle, ServiceLifecycle, AssociationStore with its two
refinements, OracleApi, AssociationSearch. Proofs came in the same order of
importance: the safety of the pipeline and of the built-in oracle, the remote
oracle, both refinements, the registry, the HTTP interface, the lifecycle, the
search.

What is left:

1. What AssociationStore promises, as theorems about it (nobody owns a party that
   no call registered; a call takes effect at most once), which both oracles
   then inherit through ImplementsStore.
2. That the oracle AccountLookup assumes is no stronger than AssociationStore,
   as a refinement of its two oracle steps; so far this is an argument in words.
3. Of OneAtATime, which per-key condition is enough: requests about different
   parties do not meet.
