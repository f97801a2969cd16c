# A specification of go-update

go-update answers the update checks of Brave's extensions and components. It
keeps a catalog of extensions in memory, refreshes it every ten minutes from a
DynamoDB table, and answers requests in several versions of the Omaha protocol.
This directory holds TLA+ modules that model it, TLC configurations that check
them on small instances, and proofs that TLAPS checks for all instances. Paths
and line numbers are those of the repository (`src/`).

## 1. The system

| Component | State | Operations | Talks to |
|---|---|---|---|
| Catalog, `extension/extension.go` | `ExtensionsMap`: a Go map behind one `sync.RWMutex` | `Store`, `Load`, `Len`, `MarshalJSON`, `ProcessExtensionRequests`, `CompareVersions` | called by handlers and refresher |
| Request handlers, `controller/controller.go` | none of their own beyond a request; share `AllExtensionsMap`, `AllExtensionsCache` | `UpdateExtensions` (POST), `WebStoreUpdateExtension` (GET), `PrintExtensions` (GET `/all`) | catalog, cache, protocol |
| Refresher, `controller/controller.go` | its place in a scan of the table | `initExtensionUpdatesFromDynamoDB`, `RefreshExtensionsTicker` | DynamoDB, catalog, cache |
| Response cache, `server/middleware/cache.go` | one atomic pointer to an entry (data, last-modified) | `Set`, `Invalidate`, `GetEntry`, the middleware | filled by the refresher and by `PrintExtensions` |
| Protocol, `omaha/` | none | detect the version, recognise pingbacks, parse, choose a handler and a format, format | called by the handlers |
| Hosts, `extension/utils.go` | environment variables | hosts of redirects and packages | called by handlers and formatting |
| Server, `server/server.go`, `main.go` | routes, listeners | first refresh, then listen | starts everything |
| Logging, compression, `extension/data.go`, `extensiontest` | none | wrappers, constant data, test helpers | |

What is hard about it, and where it bites, is listed in `PROJECT.json` under
`hazards`. In short:

- handlers and the refresher share the lock of the map, one handler re-enters
  it, and a refresh takes it once per row, so responses interleave with a
  half-stored refresh;
- the cache is filled by two parties with data each read earlier;
- scans fail in the middle, items are malformed, rows are deleted;
- the single extension of a POST is looked up twice under two locks;
- versions are compared on a common prefix, with parts that may be no numbers;
- conditional requests compare a truncated time with an exact one;
- one unusable row or patch makes a response to all apps of a request fail;
- a body that is too long is cut without a word, and what is left may be a request;
- the server sets no read and no write timeout: a client can take any time to send its
  body or to read, and one handler writes under the read lock.

What makes the components correct:

- catalog: never read while written; a reader's view is stable; neither readers
  nor writers starve; versions are ordered;
- handlers: each response is that of one catalog, at one moment between the
  request and the response; every request is answered;
- refresher: every refresh ends, one that is published has all of the table, rows
  reach the map, the cache is left with the map or empty, and what has come to agree
  with the table goes on doing so;
- cache: never lists what the catalog does not know; a conditional request is
  never told "not modified" about newer data;
- protocol: what is parsed as one version is answered in that version and in the
  format its header announces; a body is acted upon whole or not at all; the web
  store lists what was asked for.

## 2. The modules

| Module | Models | EXTENDS |
|---|---|---|
| `Extensions` | versions and their order, one entry of an update check (`Verdict`) and of a web store check (`Offer`), what a response says of them (`Sent`), what v4 refuses (`V4Formattable`); operators only | |
| `ExtensionsMap` | the map and its `sync.RWMutex`, lock by lock | `Extensions` |
| `Controller` | handlers, refresher, cache, table | `ExtensionsMap` |
| `CatalogService` | what clients are promised, without locks, cache, protocols or database | `Extensions` |
| `UpdateClient` | a client that installs what it is offered while rows change | `Extensions` |
| `JSONCache` | the two steps of `Set`, `Last-Modified`, conditional requests | |
| `Omaha` | a POST from its body and content type, a web store GET from its query and `Accept` header, to what is written, while rows with patches are stored | `Extensions` |
| `MC...` | values of the constants for TLC | the module they are named for |
| `...Proofs` | theorems and lemmas | the module they are named for; `ControllerServiceProofs` and `OmahaServiceProofs` hold the proofs that these two implement `CatalogService` |

`Controller` is the composition: its handlers and its refresher meet in the lock
of `ExtensionsMap` and in the cache entry. Both `Controller` and `Omaha` instantiate
`CatalogService` under a refinement mapping (`ImplementsService` of each): the one
shows that locks, interleavings and the cache do not show, the other that versions,
syntaxes and patches do not. `UpdateClient` closes the
loop the server leaves open, from an answer to the next request. `JSONCache` is
the cache in the detail `Controller` leaves out, and leaves out in turn what the
cached data says.

### Extensions

A version is the sequence of its dot-separated parts; a part is an integer, or
`Junk` for what `strconv.Atoi` refuses (letters, nothing, too many digits). An
entry of the map is its version, its size, whether it is blacklisted and whether
its SHA256 is not empty (`hashed`), all that decides what is answered. Patches
are in `Omaha`; titles, URLs and the `Status` attribute a row may carry are left out. A key the
map lacks is `Absent`; `Found` is what a Go map returns for it, the zero
`Extension`, whose version is the empty string. That matters: the web store loop
compares with the version of that zero value before it knows whether there is an
entry.

### ExtensionsMap

`readers[p]` counts the read locks goroutine `p` holds, `queued` the goroutines
parked in `RLock`, `writer` who has announced
itself as a writer, `writing` whether its `Lock` has returned. As in `sync.RWMutex`, an `RLock` that meets an
announced writer parks, an announced writer waits for the readers that were
there before, and `Unlock` admits the parked readers before the next writer.
`MapNext` is the general client, each goroutine with one read lock at a time;
`Controller` uses the same operators from its own actions, and re-enters.
The read lock of `Len()`, called by one logging statement of the refresher, is left out.

### Controller

A handler is a slot that serves one request after the other; its label `pc` is
the place in the Go function.

| Code | Actions |
|---|---|
| `ExtensionsRouter` | `Arrive` |
| `UpdateExtensions`, until the body is parsed | `RefusePost`, `AcceptPost` |
| its look-up of a single extension | `PostLoad`, `PostLoaded` (redirect, or go on) |
| `ProcessExtensionRequests` | `Process`, `ProcessApp` (one turn of the loop), `Processed` |
| formatting and writing | `PostRespond` |
| `WebStoreUpdateExtension` | `WebStore`, `RefuseX`, `StoreLoad`, `StoreLoaded`, `StoreRespond` |
| `JSONCacheMiddleware` | `CacheHit`, `CacheMiss` |
| `PrintExtensions` | `PrintExtensions`, `Printed`, `Fill` |
| `initExtensionUpdatesFromDynamoDB` | `NextPage`, `ScanFails`, `SkipItem`, `StartStore`, `EnterStore`, `StoreItem`, `ScanDone`, `Marshal`, `Publish`, `Invalidate` |
| `main`, `RefreshExtensionsTicker` | `StartServing`, `Tick` |
| a panic of `StartServer`, and the start of the next process | `Restart` |
| the tool that maintains the table | `EditTable` (external) |

What a request says is data: its `kind` is the outcome of reading and parsing the
body, its `apps` the entries. An `x` parameter that cannot be parsed, and one with
an empty `id`, both are an app with `NoID`: the handler answers 400 to either. The
places where another goroutine can come in between are those around a lock, a
write of the cache and a response, and they are steps of their own; the code
between two of them is one step, except that a loop takes one step a turn.
`Marshal` and `Printed` may fail, as the code provides for it. `Restart` keeps the
table alone. `steady` remembers whether the table was edited since the scan began, for
the properties only. A handler's steps are split by what they wait for: `ReadBody` for the
client to send its body, `Work` for the processor and locks, `Write` and `StoreRespond` for
the client to read. Two steps do more than write, and take all of it together: `CacheHit`
loads the entry, which `JSONCache` does in a step of its own, and `Fill` sets the cache.
That a client which does not read may hold up that `Set` in the model is no more than what
scheduling may do to it in the code.

### CatalogService

A catalog that learns rows one at a time, and for each client a request that is asked,
decided at one moment from the whole catalog, and delivered then or later
(`Ask`, `Answer`, `Decide`, `Deliver`); `Take` is a client that is done with its
reply. `Permitted` says what may be decided, in terms of what is known, outdated and
blacklisted, without the code's loops and statuses of intermediate results. `Restart`
forgets. `Patched` tells whether rows have patches: with them any update may come to a
500, without them only one without SHA256 to a client of version 4 may.

### UpdateClient and JSONCache

`UpdateClient` has a catalog in which rows with any version are stored at any
time, as table edits may also take a version back, and a client, which is no part
of the repository, that sends the version it has and installs what `Verdict` or
`Offer` gives it.

`JSONCache` has a clock with `SecondLength` ticks to the second. `Set` is two
steps, as it is in the code: the time is taken, the pointer is stored. HTTP dates
are whole seconds (`Format`, `Parse`); the comparison is between the exact time
and the parsed date (`After`). Each `Set` has data of its own, no two take the
same time, and the clock does not run backwards. `stamps` remembers the time of
each `Set`, for the properties only.

### Omaha

A body is what the handler can tell of it: how reading it ends, the syntax it is well
formed in (or none), whether a non-empty list of events comes before the first error,
whether its values have the types a handler decodes them to, the protocol, the updater
and the apps. Each app has the three fields in which a version looks for a fingerprint
(`fp`, the first package, the first cached item). Its length is compared with `Limit`, as
`io.LimitReader` leaves it. A content type is a media type with or without parameters. A
query is its `x` parameters, each broken or not, and the media types of its `Accept`
header, whose quality values the code does not look at. Polyglot bodies, well formed in
two syntaxes, do not exist. There is one client, with one request at a time: that requests
do not disturb each other is the subject of `Controller`.

| Code | Operators and actions |
|---|---|
| reading the body, its size and emptiness | `Arrive`, `RefuseBody`, `Read`, `TooLarge` |
| `IsPingbackRequest` | `Pingback` |
| `DetectProtocolVersion`, `CreateProtocol` | `DetectVersion` |
| `ParseRequest` of v3 and v4, `UnmarshalJSON`, `UnmarshalXML` | `ParseRequest`, `Parses`, `FingerprintOf`, `UpdateRequest` |
| look-up and redirect of a single extension | `LookUp`, `UpdaterHost`, `RedirectSyntax` |
| `ProcessExtensionRequests` | `Process` |
| response version, format, label, prefix; `MarshalJSON` and `MarshalXML` | `Respond`, `Fault`, `Packages`, `Formatted` |
| `WebStoreUpdateExtension`: its loop, redirect, choice of format, response | `ArriveStore`, `TakeX`, `Listing`, `Redirects`, `AcceptsJSON`, `RespondStore` |
| a refresh | `Store` |

A row has its patches here: for each fingerprint a sound one, one with an empty
`Hashdiff`, a nil one or none. `packages` of a written app are the downloads it is
offered, in order: `NoFP` for the full package, a fingerprint for the diff from it.
JSON of v3 puts the diff in the same package as the full one; here it comes second.
`Process` is one step, and no row is stored during the loop of a GET, since the read lock
is held throughout (`AnswersFromOneMap` and `OffersFromOneMap` of `Controller`, both
proved). A panic while formatting ends in a closed connection (code 0), or in a 500
when `LOG_REQUEST` is set and the logging middleware recovers from it.

A `kind` of `Controller` is an outcome of this module: `Kind` computes it from a body and
its content type, `AsPost` and `AsGet` make a request of `Controller` of what a client
sends, and `ImplementsService` checks that what is answered is what `CatalogService`
permits for that kind.

## 3. The runs

Expected to pass:

| Run | Checks | Shows |
|---|---|---|
| `map` | `MapTypeOK`, `Exclusion`, `ReadersSeeStableData`, `WriterAdmitted`, `ReaderAdmitted` | three goroutines with any operations: never read while written, stable while read, and nobody waits for ever |
| `posts` | `TypeOK`, `AnswersFromOneMap`, `KnownStaysAnswered`, `ImplementsService` | POSTs of every outcome and `/extensions/all` against a refresh and a table edit: each response is one the abstract service could give by deciding at a single moment |
| `webstore` | `OffersFromOneMap`, `OnlyStoreHoldsAndWaits`, `UsesTheMap`, `EveryStepAdvances`, `ImplementsService` | the same for web store GETs, whose loop leaves and re-enters the read lock and reads one map nevertheless, mixed with POSTs and a blacklisted row; that loop alone waits for a lock while it holds one, all else uses the map as `ExtensionsMap` allows, and each step brings a response nearer |
| `liveness` | `EveryRequestAnswered`, `EveryRefreshEnds` | a POST or `/extensions/all` of a client that sends its body and reads is answered, and every refresh ends, whether or not other such clients send and read; web store requests without `x` parameters are among them |
| `cache` | `CacheWithinMap`, `RefreshComplete`, `RefreshPublishesMap`, `ConvergedStays`, `QuietPublishConverges`, `EveryRefreshAdvances`, `UpdatesPropagate`, `CacheConverges`, `ImplementsService` | racing fills, failing scans and marshals, malformed rows, edits in the middle of a scan, and a restart at any moment: table, map and cache come to agree, by a refresh that meets no fill at once, and then stay so; a refresh does a bounded number of steps |
| `client` | `NeverReturns`, `ClientCatchesUp` | the odd order on versions neither sends a client in circles nor leaves it behind |
| `conditional` | `TypeOK`, `DateMatchesData`, `NewerIsSent`, `DatesNeverGoBack`, `ClientsCatchUp` | two setters, whose calls may overlap, and two clients: a newer entry is never withheld, a copy is never replaced by one of an earlier second, and clients come to have what is cached if no two calls overlapped |
| `omaha` | `TypeOK`, `AnsweredInKind`, `UpdateFromOneRow`, `DiffsForTheClient`, `FailsOnlyForItsOwn`, `OnlyWholeBodies`, `StoreListsTheAsked`, `ImplementsService` | in six protocol versions, two syntaxes and four content types, answers are of the kind asked for, updates of one row, diffs for the client that gets them, and a broken row fails only what it is an update for; no part of a body is acted upon, web store lists are of what was asked for, and all of it is what the service promises |

Expected to find a violation, each of a statement of the repository (quoted in
`PROJECT.json` under `findings`, and in the comment of the property):

| Run | Property | What TLC shows |
|---|---|---|
| `store_deadlock` | `EveryRequestAnswered` | a web store GET holds the read lock (controller.go:215), a refresh calls `Lock`, the GET calls `Load` (237), which parks behind the writer that waits for the GET: no later request is answered |
| `stale_fill` | `QuietCacheCurrent` | `PrintExtensions` marshals, a refresh publishes, `PrintExtensions` sets the cache to what it had: older data until the next refresh |
| `store_blacklist` | `BlacklistedNotOffered` | the web store loop does not look at `Blacklisted` |
| `charset` | `JSONIsAccepted` | `application/json; charset=utf-8` is JSON to the detection of version and pingbacks, and not to `ParseRequest`: the request is answered 400 |

Six things a reader should know besides, which no run finds violated:

- Rows are only ever stored: an extension that is deleted from the table stays in the
  map, and in `/extensions/all`, until the process ends (`StoreItem` is the one action
  of `Controller` but `Restart` that changes `data`).
- 1 and 1.1 compare as the same, so a client with 1 is not told of 1.1. A comment
  (extension.go:47) says 0 is for versions that "are the same", a test
  (extension_test.go:21) expects it of 1.9.0 and 1.9.0.9.
- `ClientsCatchUp` has the premise that one goroutine at a time is in `Set`
  (`SetsDoNotOverlap`). Two that overlap may store in the other order than they took
  their times; a client then is answered 304 for what it does not have. `NewerIsSent`
  and `DatesNeverGoBack` hold and are proved for any number of setters that overlap as
  they like: a client never goes back to an earlier second.
- `Last-Modified` is sent in whole seconds and compared exactly (cache.go:101), so a
  client that echoes the date it got is sent the entry it has in full again. Nor can it
  tell two entries of one second apart: if two calls of `Set` overlap and the older one,
  of the same second, is stored last, a client that has the newer data is sent the older.
  `DatesNeverGoBack` says that this is confined to a second. The repair that suggests
  itself, to compare in whole seconds, breaks `ClientsCatchUp` (`AfterTruncated`).
- A first scan that fails leaves a map that is empty or holds the pages before the failure,
  and the server starts on it: until a refresh is published, an extension the table
  blacklists may be redirected like an unknown one. `RefreshComplete` says what a published
  refresh guarantees; after one that failed nothing of the kind holds.
- The zero extension has the empty version, which is not older than any but one that
  starts with a negative number. A web store client that sends such a version of an
  unknown extension gets an entry without an ID; `StoreListsTheAsked` says that this is
  the only case.

### Bounds

- Two request slots and the refresher. The lock tells goroutines apart only by
  what they hold, and every hazard of the list is a matter of one handler and the
  refresher, or of two fills; three goroutines (`map`) are enough for a reader to
  overtake a writer that waits for another.
- Two IDs, on two pages (`MCPages`) or on one (`OnePage`): enough for a refresh
  that is half stored, a scan that fails in between, an item that is malformed
  before one that is not, and a request with two apps.
- `MaxCrashes` is 1 in `cache`, the run about what outlives a process, and 0 elsewhere.
  A second restart finds nothing the first did not: all that is left of a process is the
  table, and the count of restarts.
- `MaxEdits` is 1, and 0 where edits do not matter to the question: one edit puts
  every difference between a table and a map in place, and edits in the middle of a
  scan are among the interleavings. In `posts`, whose requests are of all kinds, the table
  starts with one of the two extensions and the edit may add the other; `cache` starts
  with two rows, with one, or with one and a malformed item, `webstore` with one of the
  latter two.
- Versions: in the runs of `Controller` the empty one, `1` and `2`, so that a
  client is behind, up to date or ahead. `UpdateClient` has nine, which differ in
  length, in a late part, in sign, or have a part that is no number; with
  `MaxChanges` 3 a chain of three installs can close a circle if the order lets it.
- `JSONCache`: two setters, so that the older of two times can be stored last; seconds
  of three ticks, up to six ticks and three calls of `Set`, so that two entries share a
  second, neither of them on its boundary, and a third does not.
- `Omaha`: rows whose versions tell them apart and whose patches are of every sort, two
  IDs, an empty map at the start and three rows stored at any time, so that a row is
  replaced between the look-up and the formatting, with another known; lists of none, one
  and two apps; every protocol a request may name, in both syntaxes, under four content
  types; bodies that end at each early return, and lengths of nothing, less than, equal to
  and more than a `Limit` of 3. Queries have no, one and two parameters, a broken one after
  a good one, one without ID, and a negative version of an extension that may be unknown.
- Request bodies in the runs of `Controller` are of the kinds listed in `MCController`; each run has the ones
  that its question needs, and between them the passing runs take every action.

No symmetry is used. `CHECK_DEADLOCK FALSE` is set in the runs with web store
requests, in which the system really stops (that is the finding of
`store_deadlock`), and in those of `UpdateClient`, in which a client has nothing
left to do once rows stop changing and it is up to date.

### Fairness

`Spec` of `Controller` asks for weak fairness of `Work(p)` for each slot and of
`Refresh`: a goroutine that can go on does, which is what the Go scheduler and the
database client give when calls to them return. Nothing is asked of who sends requests
(`Arrive`), edits the table, or ends the process, and nothing of clients: the server sets
no read and no write timeout (server.go:73), and the context of its request timeout is
looked at by no handler, so the reading of a body ends only if the client finishes it
(controller.go:300), and a write only if the client reads. Where a property needs a client
that does, it is a premise of the property: `ClientSends(p)` and `ClientReads(p)` for the
one whose answer is at stake, `WebStoreClientsRead` for those that are written to under the
read lock and so hold up everyone. That nothing is asked of the other clients is part of
what `liveness` shows: no body is read, and nothing but a web store response written, under
a lock. Responses without a catalog or answers (a redirect, an error) fit into the buffers
of the connection and are written in `Work`. `UpdatesPropagate` and `CacheConverges` are checked under
`HealthySpec`, which adds `WebStoreClientsRead`, and that of the scans and marshals tried
again and again, some succeed: strong fairness of `NextPage` for each page and of a
successful `Marshal`. Without it a database that never answers keeps every row from the
map, and neither holds.

`MapSpec` asks that a goroutine that holds or waits for a lock goes on.
`ClientSpec` asks that a client asks again. In `JSONCache` setters finish `Set`,
and requests that found an entry finish; clients ask again.

## 4. The proofs

TLAPS proves, for every value of the constants:

| Theorem | States |
|---|---|
| `MapTypeCorrect`, `MapExclusion`, `MapStableForReaders` | `MapTypeOK`, `Exclusion`, `ReadersSeeStableData` of `MapSpec` |
| `TypeCorrect`, `ControllerExclusion` | `TypeOK`, `Exclusion` of `Controller`, re-entered read locks included |
| `PostAnswersOneMap` | `AnswersFromOneMap` |
| `CachedAreKnown`, `RefreshPublishes` | `CacheWithinMap`, `RefreshPublishesMap` |
| `KnownStays` | `KnownStaysAnswered` |
| `StoreOffersOneMap` | `OffersFromOneMap` |
| `RefreshIsComplete` | `RefreshComplete` |
| `ConvergedForGood`, `QuietRefreshConverges` | `ConvergedStays`, `QuietPublishConverges` |
| `OnlyStoreDeadlocks`, `ControllerUsesMap` | `OnlyStoreHoldsAndWaits`, `UsesTheMap` |
| `RequestsAdvance`, `RequestsAreBounded` | `EveryStepAdvances`; what a handler has still to do is at most 2n + 6 steps for n apps |
| `RefreshesAdvance`, `RefreshesAreBounded` | `EveryRefreshAdvances`; what a refresh has still to do is bounded by its pages and items |
| `CompareTransitive`, `CompareReversed` | being older is transitive, and comparing the other way round changes the sign, for versions of any lengths |
| `CompareEqualTransitive` | being equal is transitive through a version as long as the shorter of the other two |
| `ClientTypeCorrect`, `ClientNeverReturns` | `NeverReturns`, and `ClientTypeOK` of `UpdateClient`, which is proved and not run |
| `OmahaTypeCorrect`, `KindIsKept` | `TypeOK` and `AnsweredInKind` of `Omaha` |
| `UpdatesFromOneRow`, `DiffsAreForTheClient` | `UpdateFromOneRow`, `DiffsForTheClient` |
| `FailuresAreTheirOwn` | `FailsOnlyForItsOwn` |
| `PartsAreRefused` | `OnlyWholeBodies` |
| `ListsTheAsked` | `StoreListsTheAsked` of `Omaha` |
| `ControllerImplementsService` | `ImplementsService` of `Controller` |
| `OmahaImplementsService` | `ImplementsService` of `Omaha` |
| `CacheTypeCorrect`, `ResponsesDated`, `NotModifiedIsNotNewer`, `CopyDatesNeverGoBack` | `TypeOK`, `DateMatchesData`, `NewerIsSent`, `DatesNeverGoBack` of `JSONCache` |

They rest on the assumptions on the constants that the modules name: parts of
versions are integers or `Junk`, pages cover the table, the refresher is no
handler, the table holds finitely many IDs (`FiniteAssumption`, which the bounds on a
refresh and its measure need), a second has at least one tick. TLC evaluates them on every
run.

How they go:

- **Locks and types of `Controller`.** `TypeOK` is not inductive: that no lock count
  goes below zero depends on which goroutine holds what at which label. `ShapeInv`
  adds that: `MutexInv` (from `ExtensionsMapProofs`: no one reads while someone
  writes, the writer is the one that announced itself), `HandlerLocks` and
  `RefresherLocks` (a table of the locks held at each label, two at `nested`), and
  `LoopInv` (a nested look-up is of an app that exists). Each operation of the
  lock keeps the mutex part once and for all (`RLockKeepsLocks`,
  `RUnlockKeepsLocks`); each action then only has to match its label to its locks.
  `Exclusion` follows.
- **One map per POST** (`AnswersInv`). While a handler runs its loop it holds a read
  lock, so no step of the refresher changes the map (`StoreItemFindsNoReaders`,
  `OnlyStoreChangesData`), and each turn adds the verdict of that map (`LoopTurn`).
- **One map per web store request** (`OffersInv`). The loop lets go of one of its two
  read locks and keeps the other, so the same holds of it; what is harder is that not
  every app leaves an offer. `OffersFromOneMap` counts: the offer for an app is at the place
  given by the outdated apps up to it. A turn that offers nothing leaves that count as it
  is, and one that offers extends it by one (`RankOfNext`).
- **All of the table** (`ScanInv`). At every point of a scan with no edit, the rows of the
  pages that are behind are in the map or still in the batch, and the batch holds only what
  the table does; when the batch is empty and no page is left, all are in the map. That is
  then kept to the end of the refresh, since only the refresher stores.
- **Nobody else holds and waits.** `HandlerLocks` and `RefresherLocks` say which locks are
  held at each label; of the labels at which something waits only `nested` holds one
  already. That makes of the finding of `store_deadlock` a statement about all of the code:
  a circle of waiting goroutines goes through the web store loop. `UsesTheMap` is shown
  action by action: each touches the lock by one operator of `ExtensionsMap`, with the
  counts that its general client has too.
- **Once converged, for good** (`ConvergedForGood`). `Converged` says of the map that it has
  the table, and of everything that still may write (the batch, what was marshalled) that
  it has nothing else. Then a `StoreItem` stores what is there (`Normalise` of a row is
  what the map has), and a fill is of the same map. No
  invariant is needed but types and locks. That a refresh reaches it needs `ScanInv`, for
  the map to have the table, and `ContentInv`, for the cache to get that very map; the fill
  of a `PrintExtensions` is what it has to exclude, as `stale_fill` shows.
- **Bounded work** (`TurnsInv`, `StepsLeft`, `RefreshLeft`). Each label is given the steps a
  goroutine can take from it, the turns of loops included; a handler's place never runs past
  the last app (`TurnsInv`), so these are natural numbers, and each step lessens them. The
  measure of a refresh counts pages, items of the current one and labels: a page costs at
  most three steps for each ID, one more to be asked for. This is the part of
  `EveryRequestAnswered` and `EveryRefreshEnds` that is not about waiting: what remains for
  TLC is that nobody waits for ever.
- **The cache and the map** (`ContentInv`). All that is cached or marshalled names
  extensions the map has, since the map only grows (`KnownGrows`). A refresh that is
  about to publish holds the map itself, because only the refresher stores
  (`PublishingMap`): the race is with `PrintExtensions`, which is why the same cannot
  be said of the cache afterwards.
- **Known stays known** (`KnownInv`). From the first look-up on, the one extension of
  the request is in the map, through the second lock, the loop and the response.
- **No circles** (`UpdateClientProofs`). `CompareVersions` is shown to be the order
  decided at the least differing part (`CompareIsOlder`, by `LeastElement` of the
  parts that differ); that order is transitive (`OlderTransitive`) although "equal"
  is not: if `a` is older than `b` at part i and `b` than `c` at part j, `a` is older
  than `c` at the lesser of the two, which both have. Every install is to a newer
  version, so it is newer than all before it.
- **Dates** (`DateInv`). Each entry that is built, stored or held, and each copy, is
  tied to the `Set` it is from, and the times of those increase. A date cut to the
  second is not later than the time it was cut from (`DateIsCut`), so what is not
  after the date is not after the copy. What is after a date that has been cut is cut to
  the same date or a later one (`LaterIsNotCutBelow`), so a copy is not replaced by one
  of an earlier second, whatever the order in which concurrent calls of `Set` were stored.
- **What a POST is answered** (`OmahaInv`). `HandlerInv` says what the handler has
  established at each label: from detection on, that the version is the body's, in the
  syntax of its header (`Detected`); from parsing on, that the request is the one the
  body makes and is JSON if it is version 4 (`Accepted`); from processing on, that each
  update is of a row (`FromRows`), a fact about `Stock` that no later `Store` can undo;
  and of a response, that it is what formatting makes of the answers. The properties of a
  response follow from what is known when it is written (`WrittenAnswer`,
  `PackagesOfUpdate`, `FingerprintOfClient`).
- **Whole bodies and lists.** `Detected` includes that the body is `Whole`, so anything
  past detection is. `ListInv` says of a GET what its loop has listed so far: newer than
  what some parameter has, and with its ID, or without one and then for a version that
  starts with a negative number (`ListingFor`).

- **The service, by `Controller`** (`ServiceInv`). To the invariants of types and locks,
  answers, offers, contents and known extensions it adds `RequestInv`: what kind of
  request a handler has where it is, how far it has come, and what it has passed on the
  way. Each action is then one of the service's (a request asks, is answered, is decided
  or is delivered, the service learns or restarts) or leaves all it sees unchanged. Decisions
  are taken at the last turn of a loop, so what the service allows for one catalog has to
  be true of the map of that step: this is where `AnswersInv` and `OffersInv` are needed.
- **The service, by `Omaha`.** `PostInv` says what can no longer happen to a POST: that it is
  refused once its version is detected, or that a single extension is unknown once it is to
  be processed, which no `Store` undoes since rows stay. `GetInv` says that what the loop
  has passed is named and what it has listed is in its place. `Respond` delivers what was
  decided at `Process`, whatever was stored since.

Only model-checked: the liveness properties (`WriterAdmitted`, `ReaderAdmitted`,
`EveryRequestAnswered`, `EveryRefreshEnds`, `UpdatesPropagate`, `CacheConverges`,
`ClientCatchesUp`, `ClientsCatchUp`), which are outside what the prover does, and what the
violation runs show. Every invariant and every action property of a passing run is proved.
Of what liveness of `Controller` rests on, the steps that need no fairness are proved:
`ConvergedForGood` and `QuietRefreshConverges` for `UpdatesPropagate` and `CacheConverges`,
and the measures for the two others.

## 5. What is not modelled

- **Parsing in detail**: a body is well formed or not; which bytes make it so is the
  libraries' affair, and so is a body that two syntaxes accept.
- **The rest of a response's body**: package and bucket URLs, names, sizes, pipeline IDs,
  days elapsed.
- **Hosts**: a redirect says which of three hosts it is to; their names, and the
  environment variables they and the buckets come from, are left out.
- **Router, server start** (`server/`, `main.go`): that the listener opens after the
  first refresh, and that one that fails ends the process, is modelled; ports, metrics,
  profiling, and the order of the middleware are not. The request timeout is modelled by
  having no action: it cancels a context that no handler looks at.
- **A crash in the middle of a write**: a client that gets half a response is one without a
  response here; nothing of it is kept on either side.
- **Logging, compression, `extension/data.go`, `extensiontest`**: wrappers around
  libraries, constant data, and helpers of tests.

## 6. Plan

In order; what is done is marked.

1. `Extensions`, `ExtensionsMap`, `Controller`, runs and findings (done).
2. `CatalogService` and the refinement, checked (done).
3. `ExtensionsMapProofs`, `ControllerProofs`: types, locks, one map per POST, cache
   and map, known stays known (done).
4. `UpdateClient`, `JSONCache` and their proofs (done).
5. `Omaha` and `OmahaProofs`: a POST from its content type and body to its answer, with
   patches, formats, redirects and faults (done).
6. Web store responses in `Omaha`, the limit on bodies, restarts in `Controller`, clients
   that do not read (done).
7. `Omaha` as an implementation of `CatalogService`, so that the kinds of `Controller` are
   checked, and the proofs of `OffersFromOneMap` and of what a refresh guarantees (done).
8. Proofs of `ImplementsService`, of `Controller` and of `Omaha` (done).
9. What can be proved of progress: who waits with a lock, how the map is used, bounded work,
   convergence that lasts; the order on versions; copies of clients under overlapping calls
   of `Set` (done).
10. Bodies that are not finished, as a wait for the client; seconds of three ticks, in which
    the order of two entries of one second shows (done).
11. The same measures for `Omaha`, and what a client of `UpdateClient` gains with each
    install, if they say more than the properties there are.

What is left is what section 5 names. Of that, the hosts of redirects and the order of the
middleware could be modelled, but no property of theirs takes more than one step to break;
liveness stays with TLC.
