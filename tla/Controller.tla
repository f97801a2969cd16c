----------------------------- MODULE Controller -----------------------------
(***************************************************************************)
(* Package controller (src/controller/controller.go): the goroutines that  *)
(* serve /extensions and the one that refreshes AllExtensionsMap and       *)
(* AllExtensionsCache from the DynamoDB table.  They meet in the lock of   *)
(* the map (module ExtensionsMap) and in the atomic cache entry            *)
(* (src/server/middleware/cache.go).                                       *)
(*                                                                         *)
(* A handler is a slot: a goroutine of net/http that serves one request    *)
(* and then, as another goroutine, the next.                               *)
(***************************************************************************)
EXTENDS ExtensionsMap, FiniteSets

CONSTANTS
    Handler,    \* concurrent request slots
    Refresher,  \* the goroutine that runs initExtensionUpdatesFromDynamoDB
    Request,    \* the requests clients send
    Row,        \* well-formed items of the table
    Malformed,  \* an item UnmarshalMap refuses
    Pages,      \* the IDs on each page of a scan of the table
    Tables,     \* what the table may hold when the server starts
    MaxEdits,   \* bound on the changes the table sees afterwards
    MaxCrashes, \* bound on how often the process ends and is started again
    NoEntry     \* the cache holds no entry

Kinds == {"v3", "v4", "pingback", "rejected", "webstore", "all"}

ASSUME HandlerAssumption ==
    /\ Refresher \notin Handler
    /\ Proc = Handler \cup {Refresher}

ASSUME RequestAssumption == Request \subseteq [kind: Kinds, apps: Seq(App)]

Table == [ID -> Row \cup {Malformed, Absent}]

ASSUME TableAssumption ==
    /\ Row \subseteq Extension
    /\ Malformed \notin Extension \cup {Absent}
    /\ Tables \subseteq Table
    /\ MaxEdits \in Nat
    /\ MaxCrashes \in Nat

\* The table holds finitely many items.
ASSUME FiniteAssumption == IsFiniteSet(ID)

\* A scan has at least one page, and its pages cover the table.
ASSUME PagesAssumption ==
    /\ Pages \in Seq(SUBSET ID) \ {<<>>}
    /\ UNION {Pages[i] : i \in DOMAIN Pages} = ID

ASSUME NoEntryAssumption == NoEntry \notin Catalog

VARIABLES
    pc,        \* where each handler is
    req,       \* the request it serves, or served last
    at,        \* the app its loop has come to
    answers,   \* processedExtensions, webStoreResponse
    bytes,     \* what MarshalJSON returned to each goroutine
    resp,      \* the response each handler has written
    rpc,       \* where the refresher is
    page,      \* the next page of its scan
    batch,     \* the items of the current page it has not handled
    serving,   \* the first refresh is over, the listener is open
    cache,     \* AllExtensionsCache.entry
    table,     \* the DynamoDB table
    edits,     \* how often the table has changed
    steady,    \* it has not since the scan began; for the properties only
    crashes    \* how often the process has ended

handlerVars == <<pc, req, at, answers, resp>>
refreshVars == <<rpc, page, batch, serving>>
tableVars == <<table, edits, steady>>
vars == <<mapVars, handlerVars, bytes, refreshVars, cache, tableVars, crashes>>

NoRequest == [kind |-> "none", apps |-> <<>>]

NoResponse == [code |-> 0, answers |-> <<>>, catalog |-> NoEntry]

Post(r) == r.kind \notin {"webstore", "all"}

-----------------------------------------------------------------------------

Init ==
    /\ MapInit
    /\ pc = [p \in Handler |-> "idle"]
    /\ req = [p \in Handler |-> NoRequest]
    /\ at = [p \in Handler |-> 1]
    /\ answers = [p \in Handler |-> <<>>]
    /\ bytes = [p \in Proc |-> NoEntry]
    /\ resp = [p \in Handler |-> NoResponse]
    /\ rpc = "scan"
    /\ page = 1
    /\ batch = EmptyCatalog
    /\ serving = FALSE
    /\ cache = NoEntry
    /\ table \in Tables
    /\ edits = 0
    /\ steady = TRUE
    /\ crashes = 0

-----------------------------------------------------------------------------
(* Steps every handler shares.                                             *)

Goto(p, label) == pc' = [pc EXCEPT ![p] = label]

\* The handler returns after it wrote a response.
Reply(p, code, sent, catalog) ==
    /\ resp' = [resp EXCEPT
                  ![p] = [code |-> code, answers |-> sent, catalog |-> catalog]]
    /\ Goto(p, "idle")
    /\ at' = [at EXCEPT ![p] = 1]
    /\ answers' = [answers EXCEPT ![p] = <<>>]
    /\ UNCHANGED req

ReplyEmpty(p, code) == Reply(p, code, <<>>, NoEntry)

Apps(p) == req[p].apps

\* [mutant of NextApp] moves on only when the turn appended something.
NextAppAppended(p, appended) ==
    /\ answers' = [answers EXCEPT ![p] = @ \o appended]
    /\ at' = [at EXCEPT ![p] = @ + Len(appended)]

\* One turn of a loop over the apps of the request, with what it appended.
NextApp(p, appended) ==
    /\ answers' = [answers EXCEPT ![p] = @ \o appended]
    /\ at' = [at EXCEPT ![p] = @ + 1]

\* A request arrives, and chi routes it to its handler.
Arrive(p) ==
    /\ serving
    /\ pc[p] = "idle"
    /\ \E r \in Request :
          /\ req' = [req EXCEPT ![p] = r]
          /\ Goto(p, IF Post(r) THEN "post" ELSE r.kind)
    /\ resp' = [resp EXCEPT ![p] = NoResponse]
    /\ UNCHANGED <<mapVars, at, answers, bytes, refreshVars, cache, tableVars, crashes>>

-----------------------------------------------------------------------------
(* POST /extensions: UpdateExtensions.                                     *)

\* A body that cannot be read or parsed, or is too large; or a pingback.
RefusePost(p) ==
    /\ pc[p] = "post"
    /\ req[p].kind \in {"pingback", "rejected"}
    /\ ReplyEmpty(p, IF req[p].kind = "pingback" THEN 204 ELSE 400)
    /\ UNCHANGED <<mapVars, bytes, refreshVars, cache, tableVars, crashes>>

\* A request for exactly one extension is looked up first.
AcceptPost(p) ==
    /\ pc[p] = "post"
    /\ req[p].kind \in {"v3", "v4"}
    /\ Goto(p, IF Len(Apps(p)) = 1 THEN "load" ELSE "process")
    /\ UNCHANGED <<mapVars, req, at, answers, resp, bytes, refreshVars, cache, tableVars, crashes>>

\* Load takes the read lock ...
PostLoad(p) ==
    /\ pc[p] = "load"
    /\ RLock(p)
    /\ Goto(p, "loading")
    /\ UNCHANGED <<data, req, at, answers, resp, bytes, refreshVars, cache, tableVars, crashes>>

\* [mutant of PostLoaded] releases the read lock twice.
PostLoadedTwice(p) ==
    /\ pc[p] = "loading"
    /\ Running(p)
    /\ readers[p] > 0
    /\ readers' = [readers EXCEPT ![p] = @ - 2]
    /\ UNCHANGED <<data, queued, writer, writing>>
    /\ IF Apps(p)[1].id \in Known(data)
       THEN Goto(p, "process") /\ UNCHANGED <<req, at, answers, resp>>
       ELSE ReplyEmpty(p, 307)
    /\ UNCHANGED <<bytes, refreshVars, cache, tableVars, crashes>>

\* [mutant of PostLoaded] keeps the read lock on the way to the redirect.
PostLoadedLocked(p) ==
    /\ pc[p] = "loading"
    /\ IF Apps(p)[1].id \in Known(data)
       THEN DoneReading(p) /\ Goto(p, "process") /\ UNCHANGED <<req, at, answers, resp>>
       ELSE readers[p] > 0 /\ UNCHANGED mapVars /\ ReplyEmpty(p, 307)
    /\ UNCHANGED <<bytes, refreshVars, cache, tableVars, crashes>>

\* ... and returns; an extension the map does not hold is redirected.
PostLoaded(p) ==
    /\ pc[p] = "loading"
    /\ DoneReading(p)
    /\ IF Apps(p)[1].id \in Known(data)
       THEN Goto(p, "process") /\ UNCHANGED <<req, at, answers, resp>>
       ELSE ReplyEmpty(p, 307)
    /\ UNCHANGED <<bytes, refreshVars, cache, tableVars, crashes>>

\* ProcessExtensionRequests takes the read lock for all apps,
Process(p) ==
    /\ pc[p] = "process"
    /\ RLock(p)
    /\ Goto(p, "processing")
    /\ UNCHANGED <<data, req, at, answers, resp, bytes, refreshVars, cache, tableVars, crashes>>

\* [mutant of ProcessApp] takes the read lock for each app anew.
ProcessAppRelock(p) ==
    /\ pc[p] = "processing"
    /\ at[p] <= Len(Apps(p))
    /\ DoneReading(p)
    /\ NextApp(p, <<Verdict(Apps(p)[at[p]], data)>>)
    /\ Goto(p, "process")
    /\ UNCHANGED <<req, resp, bytes, refreshVars, cache, tableVars, crashes>>

\* answers one,
ProcessApp(p) ==
    /\ pc[p] = "processing"
    /\ Running(p)
    /\ at[p] <= Len(Apps(p))
    /\ NextApp(p, <<Verdict(Apps(p)[at[p]], data)>>)
    /\ UNCHANGED <<mapVars, pc, req, resp, bytes, refreshVars, cache, tableVars, crashes>>

\* [mutant of Processed] returns without RUnlock.
ProcessedLocked(p) ==
    /\ pc[p] = "processing"
    /\ Running(p)
    /\ at[p] > Len(Apps(p))
    /\ Goto(p, "format")
    /\ UNCHANGED <<mapVars, req, at, answers, resp, bytes, refreshVars, cache, tableVars, crashes>>

\* and returns after the last.
Processed(p) ==
    /\ pc[p] = "processing"
    /\ at[p] > Len(Apps(p))
    /\ DoneReading(p)
    /\ Goto(p, "format")
    /\ UNCHANGED <<req, at, answers, resp, bytes, refreshVars, cache, tableVars, crashes>>

\* The response is formatted, outside the lock, and written.
PostRespond(p) ==
    /\ pc[p] = "format"
    /\ IF req[p].kind = "v4" /\ ~V4Formattable(answers[p])
       THEN ReplyEmpty(p, 500)
       ELSE Reply(p, 200, Response(answers[p]), NoEntry)
    /\ UNCHANGED <<mapVars, bytes, refreshVars, cache, tableVars, crashes>>

-----------------------------------------------------------------------------
(* GET /extensions: WebStoreUpdateExtension.                               *)

\* One read lock is held until the handler returns,
WebStore(p) ==
    /\ pc[p] = "webstore"
    /\ RLock(p)
    /\ Goto(p, "store")
    /\ UNCHANGED <<data, req, at, answers, resp, bytes, refreshVars, cache, tableVars, crashes>>

\* an x parameter that cannot be parsed or names no extension ends it,
RefuseX(p) ==
    /\ pc[p] = "store"
    /\ at[p] <= Len(Apps(p))
    /\ Apps(p)[at[p]].id = NoID
    /\ RUnlock(p, 1)
    /\ ReplyEmpty(p, 400)
    /\ UNCHANGED <<data, bytes, refreshVars, cache, tableVars, crashes>>

\* and each of the others is looked up by Load, which locks once more.
StoreLoad(p) ==
    /\ pc[p] = "store"
    /\ Running(p)
    /\ at[p] <= Len(Apps(p))
    /\ Apps(p)[at[p]].id # NoID
    /\ RLock(p)
    /\ Goto(p, "nested")
    /\ UNCHANGED <<data, req, at, answers, resp, bytes, refreshVars, cache, tableVars, crashes>>

\* [mutant of StoreLoaded] lets go of the outer lock between two apps.
StoreLoadedRelock(p) ==
    /\ pc[p] = "nested"
    /\ RUnlock(p, 2)
    /\ NextApp(p, Offer(Apps(p)[at[p]], data))
    /\ Goto(p, "webstore")
    /\ UNCHANGED <<data, req, resp, bytes, refreshVars, cache, tableVars, crashes>>

\* Load returns, and so does the handler when it redirects.
StoreLoaded(p) ==
    /\ pc[p] = "nested"
    /\ LET app == Apps(p)[at[p]]
       IN  IF app.id \notin Known(data) /\ Len(Apps(p)) = 1
           THEN RUnlock(p, 2) /\ ReplyEmpty(p, 307)
           ELSE /\ RUnlock(p, 1)
                /\ NextApp(p, Offer(app, data))
                /\ Goto(p, "store")
                /\ UNCHANGED <<req, resp>>
    /\ UNCHANGED <<data, bytes, refreshVars, cache, tableVars, crashes>>

\* The response is formatted and written before the deferred RUnlock.
StoreRespond(p) ==
    /\ pc[p] = "store"
    /\ at[p] > Len(Apps(p))
    /\ RUnlock(p, 1)
    /\ Reply(p, 200, Response(answers[p]), NoEntry)
    /\ UNCHANGED <<data, bytes, refreshVars, cache, tableVars, crashes>>

-----------------------------------------------------------------------------
(* GET /extensions/all: JSONCacheMiddleware and PrintExtensions.           *)

CacheHit(p) ==
    /\ pc[p] = "all"
    /\ cache # NoEntry
    /\ Reply(p, 200, <<>>, cache)
    /\ UNCHANGED <<mapVars, bytes, refreshVars, cache, tableVars, crashes>>

CacheMiss(p) ==
    /\ pc[p] = "all"
    /\ cache = NoEntry
    /\ Goto(p, "print")
    /\ UNCHANGED <<mapVars, req, at, answers, resp, bytes, refreshVars, cache, tableVars, crashes>>

\* A miss marshals the map, under its read lock,
PrintExtensions(p) ==
    /\ pc[p] = "print"
    /\ RLock(p)
    /\ Goto(p, "printing")
    /\ UNCHANGED <<data, req, at, answers, resp, bytes, refreshVars, cache, tableVars, crashes>>

Printed(p) ==
    /\ pc[p] = "printing"
    /\ DoneReading(p)
    /\ \/ /\ bytes' = [bytes EXCEPT ![p] = data]
          /\ Goto(p, "fill")
          /\ UNCHANGED <<req, at, answers, resp>>
       \/ ReplyEmpty(p, 500) /\ UNCHANGED bytes
    /\ UNCHANGED <<refreshVars, cache, tableVars, crashes>>

\* and fills the cache with the result.
Fill(p) ==
    /\ pc[p] = "fill"
    /\ cache' = bytes[p]
    /\ Reply(p, 200, <<>>, bytes[p])
    /\ bytes' = [bytes EXCEPT ![p] = NoEntry]
    /\ UNCHANGED <<mapVars, refreshVars, tableVars, crashes>>

-----------------------------------------------------------------------------
(* initExtensionUpdatesFromDynamoDB.                                       *)

Step(label) == rpc' = label /\ UNCHANGED serving

\* [mutant of NextPage] asks for the same page again, without its token.
SamePage ==
    /\ rpc = "scan"
    /\ batch = EmptyCatalog
    /\ page <= Len(Pages)
    /\ batch' = [id \in ID |-> IF id \in Pages[page] THEN table[id] ELSE Absent]
    /\ UNCHANGED <<mapVars, handlerVars, bytes, page, rpc, serving, cache, tableVars, crashes>>

\* The items of the next page, as the table holds them now.
NextPage ==
    /\ rpc = "scan"
    /\ batch = EmptyCatalog
    /\ page <= Len(Pages)
    /\ batch' = [id \in ID |-> IF id \in Pages[page] THEN table[id] ELSE Absent]
    /\ page' = page + 1
    /\ UNCHANGED <<mapVars, handlerVars, bytes, rpc, serving, cache, tableVars, crashes>>

\* No AWS configuration, or no answer for a page: the refresh is given up.
ScanFails ==
    /\ rpc = "scan"
    /\ batch = EmptyCatalog
    /\ page <= Len(Pages)
    /\ Step("failed")
    /\ UNCHANGED <<mapVars, handlerVars, bytes, page, batch, cache, tableVars, crashes>>

\* [mutant of SkipItem] gives the refresh up, where the code continues.
SkipRefresh ==
    /\ rpc = "scan"
    /\ \E id \in ID : batch[id] = Malformed
    /\ batch' = EmptyCatalog
    /\ Step("failed")
    /\ UNCHANGED <<mapVars, handlerVars, bytes, page, cache, tableVars, crashes>>

SkipItem ==
    /\ rpc = "scan"
    /\ \E id \in ID :
          /\ batch[id] = Malformed
          /\ batch' = [batch EXCEPT ![id] = Absent]
    /\ UNCHANGED <<mapVars, handlerVars, bytes, rpc, page, serving, cache, tableVars, crashes>>

\* AllExtensionsMap.Store: Lock is called, returns, and the item is stored.
StartStore ==
    /\ rpc = "scan"
    /\ \E id \in ID : batch[id] \in Extension
    /\ Lock(Refresher)
    /\ Step("store")
    /\ UNCHANGED <<data, handlerVars, bytes, page, batch, cache, tableVars, crashes>>

EnterStore ==
    /\ rpc = "store"
    /\ LockReturns(Refresher)
    /\ UNCHANGED <<data, handlerVars, bytes, refreshVars, cache, tableVars, crashes>>

StoreItem ==
    /\ rpc = "store"
    /\ \E id \in ID :
          /\ batch[id] \in Extension
          /\ Store(Refresher, id, Normalise(batch[id]))
          /\ batch' = [batch EXCEPT ![id] = Absent]
    /\ Step("scan")
    /\ UNCHANGED <<handlerVars, bytes, page, cache, tableVars, crashes>>

\* [mutant of ScanDone] scans one page, without a paginator.
ScanDoneFirstPage ==
    /\ rpc = "scan"
    /\ batch = EmptyCatalog
    /\ page > 1
    /\ RLock(Refresher)
    /\ Step("marshal")
    /\ UNCHANGED <<data, handlerVars, bytes, page, batch, cache, tableVars, crashes>>

\* All pages are stored: the map is marshalled for the cache,
ScanDone ==
    /\ rpc = "scan"
    /\ batch = EmptyCatalog
    /\ page > Len(Pages)
    /\ RLock(Refresher)
    /\ Step("marshal")
    /\ UNCHANGED <<data, handlerVars, bytes, page, batch, cache, tableVars, crashes>>

Marshal ==
    /\ rpc = "marshal"
    /\ DoneReading(Refresher)
    /\ \/ bytes' = [bytes EXCEPT ![Refresher] = data] /\ Step("publish")
       \/ UNCHANGED bytes /\ Step("invalidate")
    /\ UNCHANGED <<handlerVars, page, batch, cache, tableVars, crashes>>

\* [mutant of Publish] fills an empty cache and keeps a full one.
PublishOnce ==
    /\ rpc = "publish"
    /\ cache' = IF cache = NoEntry THEN bytes[Refresher] ELSE cache
    /\ bytes' = [bytes EXCEPT ![Refresher] = NoEntry]
    /\ Step("refreshed")
    /\ UNCHANGED <<mapVars, handlerVars, page, batch, tableVars, crashes>>

\* which is set, or emptied when the map could not be marshalled.
Publish ==
    /\ rpc = "publish"
    /\ cache' = bytes[Refresher]
    /\ bytes' = [bytes EXCEPT ![Refresher] = NoEntry]
    /\ Step("refreshed")
    /\ UNCHANGED <<mapVars, handlerVars, page, batch, tableVars, crashes>>

Invalidate ==
    /\ rpc = "invalidate"
    /\ cache' = NoEntry
    /\ Step("failed")
    /\ UNCHANGED <<mapVars, handlerVars, bytes, page, batch, tableVars, crashes>>

\* The first refresh is a call that precedes the listener ...
StartServing ==
    /\ rpc \in {"refreshed", "failed"}
    /\ ~serving
    /\ serving' = TRUE
    /\ UNCHANGED <<mapVars, handlerVars, bytes, rpc, page, batch, cache, tableVars, crashes>>

\* [mutant of Tick] starts each refresh from an empty map.
TickClears ==
    /\ rpc \in {"refreshed", "failed"}
    /\ serving
    /\ Step("scan")
    /\ page' = 1
    /\ data' = EmptyCatalog
    /\ steady' = TRUE
    /\ UNCHANGED <<lockVars, handlerVars, bytes, batch, cache, table, edits, crashes>>

\* ... the others are on the ticker's goroutine, one after the other.
Tick ==
    /\ rpc \in {"refreshed", "failed"}
    /\ serving
    /\ Step("scan")
    /\ page' = 1
    /\ steady' = TRUE
    /\ UNCHANGED <<mapVars, handlerVars, bytes, batch, cache, table, edits, crashes>>

\* The external tool adds, replaces or deletes an item.
EditTable ==
    /\ edits < MaxEdits
    /\ \E id \in ID, item \in Row \cup {Malformed, Absent} :
          /\ item # table[id]
          /\ table' = [table EXCEPT ![id] = item]
    /\ edits' = edits + 1
    /\ steady' = FALSE
    /\ UNCHANGED <<mapVars, handlerVars, bytes, refreshVars, cache, crashes>>

HandlersRestart ==
    /\ pc' = [p \in Handler |-> "idle"]
    /\ req' = [p \in Handler |-> NoRequest]
    /\ at' = [p \in Handler |-> 1]
    /\ answers' = [p \in Handler |-> <<>>]
    /\ bytes' = [p \in Proc |-> NoEntry]
    /\ resp' = [p \in Handler |-> NoResponse]

(***************************************************************************)
(* A listener that fails panics, which ends the process with all it had in *)
(* memory; it is started again.  The table outlives it.                    *)
(***************************************************************************)
Restart ==
    /\ crashes < MaxCrashes
    /\ crashes' = crashes + 1
    /\ MapRestart
    /\ HandlersRestart
    /\ rpc' = "scan"
    /\ page' = 1
    /\ batch' = EmptyCatalog
    /\ serving' = FALSE
    /\ cache' = NoEntry
    /\ steady' = TRUE
    /\ UNCHANGED <<table, edits>>

-----------------------------------------------------------------------------

\* The body of a POST is read to its end, as fast as the client sends it.
ReadBody(p) == RefusePost(p) \/ AcceptPost(p)

\* A response that may be long is written to the client.
Write(p) == PostRespond(p) \/ CacheHit(p) \/ Fill(p)

Work(p) ==
    \/ PostLoad(p) \/ PostLoaded(p) \/ Process(p) \/ ProcessApp(p) \/ Processed(p)
    \/ WebStore(p) \/ RefuseX(p) \/ StoreLoad(p) \/ StoreLoaded(p)
    \/ CacheMiss(p) \/ PrintExtensions(p) \/ Printed(p)

Handle(p) == ReadBody(p) \/ Work(p) \/ Write(p) \/ StoreRespond(p)

Refresh ==
    \/ NextPage \/ ScanFails \/ SkipItem \/ StartStore \/ EnterStore \/ StoreItem
    \/ ScanDone \/ Marshal \/ Publish \/ Invalidate \/ StartServing \/ Tick

Next == (\E p \in Handler : Arrive(p) \/ Handle(p)) \/ Refresh \/ EditTable \/ Restart

(***************************************************************************)
(* A goroutine that can go on does, unless it reads from its client or     *)
(* writes to it: the server sets no read or write timeout (server.go:73),  *)
(* so a client that does not finish its body, or does not read, keeps the  *)
(* handler for as long as it likes.  Nothing is asked of who sends         *)
(* requests, edits the table, or ends the process.                         *)
(***************************************************************************)
Spec ==
    /\ Init /\ [][Next]_vars
    /\ \A p \in Handler : WF_vars(Work(p))
    /\ WF_vars(Refresh)

\* The client of p finishes the body of its POST, or ends the connection.
ClientSends(p) == WF_vars(ReadBody(p))

\* The client of p reads its response, so that a write to it ends too.
ClientReads(p) == WF_vars(Work(p) \/ Write(p))

\* Web store clients do, to whom it is written under the read lock.
WebStoreClientsRead == \A p \in Handler : WF_vars(StoreRespond(p))

(***************************************************************************)
(* What convergence needs of the database and of json.Marshal besides: of  *)
(* the attempts that are made again every ten minutes, some succeed.       *)
(***************************************************************************)
SuccessfulRefreshes ==
    /\ \A n \in 1 .. Len(Pages) : SF_vars(NextPage /\ page = n)
    /\ SF_vars(Marshal /\ rpc' = "publish")

HealthySpec == Spec /\ SuccessfulRefreshes /\ WebStoreClientsRead

-----------------------------------------------------------------------------

Outcome == [code: {0, 200, 204, 307, 400, 500},
            answers: Seq(SentAnswer),
            catalog: Catalog \cup {NoEntry}]

HandlerLabels == {"idle", "post", "load", "loading", "process", "processing", "format",
                  "webstore", "store", "nested", "all", "print", "printing", "fill"}

RefresherLabels ==
    {"scan", "store", "marshal", "publish", "invalidate", "refreshed", "failed"}

TypeOK ==
    /\ MapTypeOK
    /\ pc \in [Handler -> HandlerLabels]
    /\ req \in [Handler -> Request \cup {NoRequest}]
    /\ at \in [Handler -> Nat \ {0}]
    /\ answers \in [Handler -> Seq(Verdicts)]
    /\ bytes \in [Proc -> Catalog \cup {NoEntry}]
    /\ resp \in [Handler -> Outcome]
    /\ rpc \in RefresherLabels
    /\ page \in 1 .. Len(Pages) + 1
    /\ batch \in Table
    /\ serving \in BOOLEAN
    /\ cache \in Catalog \cup {NoEntry}
    /\ table \in Table
    /\ edits \in 0 .. MaxEdits
    /\ steady \in BOOLEAN
    /\ crashes \in 0 .. MaxCrashes

(***************************************************************************)
(* However many apps a POST lists and however many Stores happen while it  *)
(* is served, the answers it has so far are those of one map: the one it   *)
(* is still reading (ProcessExtensionRequests, extension.go:81-112).       *)
(***************************************************************************)
AnswersFromOneMap ==
    \A p \in Handler : pc[p] = "processing" /\ Running(p) =>
        answers[p] = [i \in 1 .. at[p] - 1 |-> Verdict(Apps(p)[i], data)]

\* The apps the web store loop has come past for which the map has a newer version.
Newer(p) ==
    {i \in 1 .. at[p] - 1 :
        CompareVersions(Apps(p)[i].version, Found(Apps(p)[i].id, data).version) < 0}

(***************************************************************************)
(* The same of the web store loop, which leaves and re-enters the lock for *)
(* every x parameter (controller.go:215-257): it has one offer for each    *)
(* app that is outdated in the one map it reads now, in their order, and   *)
(* no other.                                                               *)
(***************************************************************************)
OffersFromOneMap ==
    \A p \in Handler : pc[p] \in {"store", "nested"} /\ readers[p] > 0 =>
        /\ Len(answers[p]) = Cardinality(Newer(p))
        /\ \A i \in Newer(p) :
              <<answers[p][Cardinality({j \in Newer(p) : j <= i})]>> = Offer(Apps(p)[i], data)

(***************************************************************************)
(* The single extension of a POST is looked up twice, under two read locks *)
(* (controller.go:346 and 368), with Stores in between.  Once the first    *)
(* look-up decided against the redirect, the second never answers          *)
(* "error-unknownApplication".                                             *)
(***************************************************************************)
KnownStaysAnswered ==
    \A p \in Handler :
        pc[p] = "idle" /\ Len(Apps(p)) = 1 /\ resp[p].code = 200 =>
            \A i \in DOMAIN resp[p].answers :
                resp[p].answers[i].status # "error-unknownApplication"

(***************************************************************************)
(* Whatever refresh or PrintExtensions filled the cache, and however late, *)
(* /extensions/all never lists an extension that POST calls unknown.       *)
(***************************************************************************)
CacheWithinMap == cache # NoEntry => Known(cache) \subseteq Known(data)

(***************************************************************************)
(* A refresh that ends by setting the cache sets it to the map as it is at *)
(* that moment, not as it was when it was marshalled (controller.go:106,   *)
(* 114).                                                                   *)
(***************************************************************************)
RefreshPublishesMap == [][rpc = "publish" /\ rpc' = "refreshed" => cache' = data']_vars

(***************************************************************************)
(* A refresh that published has all of the table, if that was not edited   *)
(* since its scan began: every well-formed row of it, on whatever page,    *)
(* after whatever malformed items, and whatever the edits, failed scans    *)
(* and restarts before.  The map a server starts on is incomplete only     *)
(* when its first refresh failed (controller.go:54, 80, 91, 114).          *)
(***************************************************************************)
UpToDate == \A id \in ID : table[id] \in Row => data[id] = Normalise(table[id])

RefreshComplete == rpc = "refreshed" /\ steady => UpToDate

(***************************************************************************)
(* The map has the whole table, and nothing that was read or marshalled    *)
(* before is on its way any more: not to the map from the page at hand,    *)
(* not to the cache from a goroutine that has marshalled the map.          *)
(***************************************************************************)
Converged ==
    /\ UpToDate
    /\ \A id \in ID : batch[id] \in {Absent, table[id]}
    /\ cache \in {data, NoEntry}
    /\ \A q \in Proc : bytes[q] \in {data, NoEntry}

(***************************************************************************)
(* That lasts until the table is edited or the process ends, whatever      *)
(* requests and further refreshes, complete or given up, do in between     *)
(* (controller.go:106, 125; cache.go:49-67).                               *)
(***************************************************************************)
ConvergedStays ==
    [][Converged /\ UNCHANGED <<table, crashes>> => Converged']_vars

(***************************************************************************)
(* A refresh that publishes reaches it at that very step, if the table was *)
(* not edited since its scan began and no PrintExtensions is on its way to *)
(* the cache with what it marshalled (controller.go:106, 160).             *)
(***************************************************************************)
QuietPublishConverges ==
    [][ /\ rpc = "publish" /\ rpc' = "refreshed"
        /\ steady /\ \A p \in Handler : bytes[p] = NoEntry
        => Converged' ]_vars

(***************************************************************************)
(* No goroutine holds one read lock while it waits for another lock, and   *)
(* the refresher holds none while it waits to store: only the web store    *)
(* loop, whose Load locks inside the lock of the handler (controller.go:   *)
(* 215, 237), can be half of a deadlock.                                   *)
(***************************************************************************)
OnlyStoreHoldsAndWaits ==
    \A p \in Proc : (p \in queued \/ writer = p) /\ readers[p] > 0 =>
        p \in Handler /\ pc[p] = "nested"

(***************************************************************************)
(* Handlers and refresher use the map as the goroutines of ExtensionsMap   *)
(* do, so that all that is true of that module is true of them, but for    *)
(* the nested Load of the web store and for the end of the process.        *)
(***************************************************************************)
UsesTheMap ==
    /\ MapInit
    /\ [][ \/ MapNext
           \/ \E p \in Handler : StoreLoad(p) \/ StoreLoaded(p)
           \/ MapRestart ]_mapVars

TurnsLeft(p) == Len(Apps(p)) + 1 - at[p]

\* What a handler has still to do at most: a bound on its own steps.
StepsLeft(p) ==
    CASE pc[p] = "idle" -> 0
      [] pc[p] \in {"format", "fill"} -> 1
      [] pc[p] = "processing" -> TurnsLeft(p) + 2
      [] pc[p] = "process" -> TurnsLeft(p) + 3
      [] pc[p] = "loading" -> TurnsLeft(p) + 4
      [] pc[p] = "load" -> TurnsLeft(p) + 5
      [] pc[p] = "post" -> TurnsLeft(p) + 6
      [] pc[p] = "nested" -> 2 * TurnsLeft(p)
      [] pc[p] = "store" -> 2 * TurnsLeft(p) + 1
      [] pc[p] = "webstore" -> 2 * TurnsLeft(p) + 2
      [] pc[p] = "printing" -> 2
      [] pc[p] = "print" -> 3
      [] pc[p] = "all" -> 4

(***************************************************************************)
(* Every step of a handler brings it nearer to its response: it is written *)
(* after at most 2n + 6 steps of a request with n apps, whatever others    *)
(* store, fill and lock between them (controller.go:224, extension.go:84). *)
(***************************************************************************)
EveryStepAdvances ==
    [][\A p \in Handler : pc[p] # "idle" /\ <<pc[p], at[p]>>' # <<pc[p], at[p]>> =>
          StepsLeft(p)' < StepsLeft(p)]_vars

\* The same of the refresher, from the pages, items and labels ahead of it.
ItemsLeft == Cardinality({id \in ID : batch[id] # Absent})

PagesLeft == Len(Pages) + 1 - page

PageCost == 3 * Cardinality(ID) + 1

ScanLeft == PagesLeft * PageCost + 3 * ItemsLeft

RefreshLeft ==
    CASE rpc \in {"refreshed", "failed"} -> 0
      [] rpc \in {"publish", "invalidate"} -> 1
      [] rpc = "marshal" -> 2
      [] rpc = "scan" -> ScanLeft + 3
      [] rpc = "store" -> ScanLeft + (IF writing THEN 1 ELSE 2)

(***************************************************************************)
(* Every step of a refresh brings its end nearer, whatever the pages hold: *)
(* k pages of a table of n IDs are done with after at most k(3n + 1) + 3   *)
(* steps, unless a reader or the database makes it wait (controller.go:74, *)
(* 85, 91).                                                                *)
(***************************************************************************)
EveryRefreshAdvances ==
    [][ /\ rpc \notin {"refreshed", "failed"}
        /\ <<rpc, page, batch, writing>>' # <<rpc, page, batch, writing>>
        /\ crashes' = crashes
        => RefreshLeft' < RefreshLeft ]_vars

(***************************************************************************)
(* Every request of a client that sends it whole and reads is answered, or *)
(* lost in a restart, whatever the refresher and the other requests do to  *)
(* the lock, and whether or not the clients of those send and read.  Only  *)
(* those of the web store must read: their responses are written under the *)
(* read lock (controller.go:279).  A body is read under no lock (300).     *)
(***************************************************************************)
EveryRequestAnswered ==
    WebStoreClientsRead =>
        \A p \in Handler :
            ClientSends(p) /\ ClientReads(p) => (pc[p] # "idle" ~> pc[p] = "idle")

(***************************************************************************)
(* Every refresh ends, published or given up, although it must find the    *)
(* map free of readers for each item it stores: no client of a POST or of  *)
(* /extensions/all can hold it up, by what it does not send or read, and   *)
(* one of the web store can.                                               *)
(***************************************************************************)
EveryRefreshEnds ==
    WebStoreClientsRead => (rpc = "scan" ~> rpc \in {"refreshed", "failed"})

(***************************************************************************)
(* When the table no longer changes, the map comes to hold every well      *)
(* formed row of it, for good: failed scans, malformed rows and rows that  *)
(* changed in the middle of a scan only delay it.                          *)
(***************************************************************************)
UpdatesPropagate == <>[]UpToDate

(***************************************************************************)
(* The cache then comes to hold that map, or nothing: a fill of            *)
(* PrintExtensions that is older than the last refresh does not last.      *)
(***************************************************************************)
CacheConverges == <>[](cache \in {data, NoEntry})

-----------------------------------------------------------------------------
(* Statements of the repository's documents that the code does not keep.   *)

(***************************************************************************)
(* "Proactively refresh extension cache" (controller.go:105), "cache the   *)
(* fresh data for future requests" (160): after a refresh that published,  *)
(* and with no request under way, the cached data is the map.              *)
(***************************************************************************)
QuietCacheCurrent ==
    rpc = "refreshed" /\ (\A p \in Handler : pc[p] = "idle") => cache = data

(***************************************************************************)
(* "This server also serves as a filter so Brave can blacklist any         *)
(* extension" (README.md:18): an extension the map holds as blacklisted is *)
(* not offered, by the web store endpoint either (controller.go:250).      *)
(***************************************************************************)
BlacklistedNotOffered ==
    \A p \in Handler : pc[p] = "store" /\ readers[p] > 0 =>
        \A i \in DOMAIN answers[p] :
            answers[p][i].id \in Known(data) => ~data[answers[p][i].id].blacklisted

-----------------------------------------------------------------------------
(***************************************************************************)
(* The controller implements CatalogService.  A POST is decided when       *)
(* ProcessExtensionRequests lets go of its read lock, a cache fill when    *)
(* the map has been marshalled, everything else when it is written.        *)
(***************************************************************************)

Phase(p) ==
    CASE pc[p] = "idle" -> "idle"
      [] pc[p] \in {"fill", "format"} -> "decided"
      [] OTHER -> "asked"

Decided(p) ==
    CASE pc[p] = "fill" -> [code |-> 200, answers |-> <<>>, catalog |-> bytes[p]]
      [] pc[p] = "format" /\ req[p].kind = "v4" /\ ~V4Formattable(answers[p]) ->
            [code |-> 500, answers |-> <<>>, catalog |-> NoEntry]
      [] pc[p] = "format" /\ (req[p].kind = "v4" => V4Formattable(answers[p])) ->
            [code |-> 200, answers |-> Response(answers[p]), catalog |-> NoEntry]
      [] OTHER -> NoResponse

Abstract == INSTANCE CatalogService WITH
    Client   <- Handler,
    Patched  <- FALSE,
    catalog  <- data,
    phase    <- [p \in Handler |-> Phase(p)],
    asked    <- req,
    decision <- [p \in Handler |-> Decided(p)],
    reply    <- resp

(***************************************************************************)
(* Through all interleavings of handlers, Stores and cache fills, every    *)
(* response is one the catalog service could have given by deciding the    *)
(* request at a single moment between its arrival and its response.        *)
(***************************************************************************)
ImplementsService == Abstract!Service
=============================================================================
