------------------------------- MODULE Omaha -------------------------------
(***************************************************************************)
(* Package omaha (src/omaha/): what requests to /extensions say, and what  *)
(* their responses say.  A POST goes through UpdateExtensions, a GET       *)
(* through WebStoreUpdateExtension (src/controller/controller.go), each in *)
(* the order of the code, while rows are stored; locks and other requests  *)
(* are module Controller, where the outcome of parsing is the kind of a    *)
(* request.                                                                *)
(***************************************************************************)
EXTENDS Extensions

CONSTANTS
    Fingerprint,  \* hashes of packages clients may have
    NoFP,         \* the empty fingerprint
    Widevine,     \* WidevineExtensionID
    Limit,        \* 10 MiB
    Body,         \* the bodies clients send
    Query,        \* the queries clients send
    Stock,        \* rows as they are stored, with their patches
    MaxStores     \* bound on the rows stored

(***************************************************************************)
(* A Content-Type header: whether its media type is application/json, and  *)
(* whether the header is that and no more, without parameters.             *)
(***************************************************************************)
ContentType == [json: BOOLEAN, bare: BOOLEAN]

\* A patch of PatchList: missing, usable, with an empty Hashdiff, or nil; there
\* is none from a package without hash.
PatchList == [Fingerprint -> {"none", "sound", "hashless", "nil"}]

\* No protocol is named, or it cannot be read.
NoProtocol == "none"
Protocols == {NoProtocol, "2.0", "3.0", "3.1", "4.0", "4.1"}
Updaters == {"chromiumcrx", "BraveComponentUpdater", "other"}

FP == Fingerprint \cup {NoFP}

\* An app of a request, with each field that may hold a fingerprint.
ClientApp == [id: ID \cup {NoID}, version: Version, fp: FP, package: FP, cached: FP]

(***************************************************************************)
(* A body: whether reading it fails, its length, and of what is read of it *)
(* the syntax it is well formed in, whether a non-empty list of events     *)
(* comes before the first error, whether its values have the types a       *)
(* handler asks for, and what it says.                                     *)
(***************************************************************************)
Bodies == [fails: BOOLEAN, length: Nat, syntax: {"json", "xml", "neither"},
           events: BOOLEAN, typed: BOOLEAN, protocol: Protocols, updater: Updaters,
           apps: Seq(ClientApp)]

\* An x parameter, which may be no query, or name no extension.
X == [broken: BOOLEAN, id: ID \cup {NoID}, version: Version]

\* A query, with the media types of the Accept header it comes with.
Queries == [accept: SUBSET {"json", "xml", "any"}, xs: Seq(X)]

ASSUME OmahaAssumption ==
    /\ NoFP \notin Fingerprint
    /\ Widevine \in ID
    /\ Limit \in Nat \ {0}
    /\ Body \subseteq Bodies
    /\ Query \subseteq Queries
    /\ Stock \subseteq [row: Extension, patches: PatchList]
    /\ Absent \notin Stock
    /\ MaxStores \in Nat

VARIABLES
    stock,        \* AllExtensionsMap
    stores,       \* how many rows have been stored
    pc,           \* where the handler is
    contentType,  \* the header of the request
    body,         \* the body of a POST
    query,        \* the query of a GET
    at,           \* the x of the current turn of its loop
    version,      \* protocolVersion
    request,      \* updateRequest.Extensions
    answers,      \* updateResponse, webStoreResponse
    response      \* what has been written

requestVars == <<contentType, body, query, at>>
vars == <<stock, stores, pc, requestVars, version, request, answers, response>>

-----------------------------------------------------------------------------
(* Reading a request.                                                      *)

\* What LimitReader gives of a body, and whether that is too much.
Read(b) == IF b.length < Limit THEN b.length ELSE Limit

\* [mutant of TooLarge] takes the limit itself for allowed.
TooLargeAbove(b) == Read(b) > Limit

TooLarge(b) == Read(b) = Limit

Refused(b) == b.fails \/ TooLarge(b) \/ b.length = 0

IsJSONContentType(ct) == ct.json

\* Quality values are ignored, and */* is not JSON.
AcceptsJSON(accept) == "json" \in accept

\* The test in ParseRequest, of the whole header.
IsApplicationJSON(ct) == ct.json /\ ct.bare

IsPingbackRequest(b, ct) == IsJSONContentType(ct) /\ b.syntax # "xml" /\ b.events

\* NoProtocol is an error.
DetectProtocolVersion(b, ct) ==
    IF b.syntax = (IF IsJSONContentType(ct) THEN "json" ELSE "xml")
    THEN b.protocol ELSE NoProtocol

\* The handler for a version; "none" is an error.
CreateProtocol(v) ==
    IF v \in {"4.0", "4.1"}
    THEN IF v = "4.0" THEN "v4" ELSE "none"
    ELSE IF v \in {"3.0", "3.1"} THEN "v3" ELSE "none"

\* Whether ParseRequest of a handler returns a request.
Parses(handler, b, ct) ==
    IF IsApplicationJSON(ct) THEN b.syntax = "json" /\ b.typed
    ELSE handler = "v3" /\ b.syntax = "xml"

\* Where each version and syntax has the fingerprint of an app.
FingerprintOf(app, v, b) ==
    CASE v = "4.0" -> app.cached
      [] v # "4.0" /\ b.syntax = "json" -> IF app.fp = NoFP THEN app.package ELSE app.fp
      [] v = "3.0" /\ b.syntax = "xml" -> app.package
      [] v = "3.1" /\ b.syntax = "xml" -> app.fp

UpdateRequest(b, v) ==
    [i \in DOMAIN b.apps |-> [id      |-> b.apps[i].id,
                              version |-> b.apps[i].version,
                              fp      |-> FingerprintOf(b.apps[i], v, b)]]

-----------------------------------------------------------------------------
(* Answering it.                                                           *)

Rows == [id \in ID |-> IF stock[id] = Absent THEN Absent ELSE stock[id].row]

NoPatches == [fp \in Fingerprint |-> "none"]

Patches(id) == IF id \in Known(Rows) THEN stock[id].patches ELSE NoPatches

\* What the web store lists for an x: one extension or none, without patches.
Listing(x) ==
    LET offers == Offer([id |-> x.id, version |-> x.version], Rows)
    IN  [i \in DOMAIN offers |->
            [id |-> offers[i].id, version |-> offers[i].version, hashed |-> offers[i].hashed,
             status |-> "", fp |-> NoFP, patches |-> NoPatches]]

\* A verdict, a copy of the row's patches and the fingerprint of the client.
ProcessExtensionRequests(extensions) ==
    [i \in DOMAIN extensions |->
        LET app     == extensions[i]
            verdict == Verdict([id |-> app.id, version |-> app.version], Rows)
        IN  [id |-> app.id, version |-> verdict.version, hashed |-> verdict.hashed,
             status |-> verdict.status, fp |-> app.fp, patches |-> Patches(app.id)]]

\* [mutant of ResponseVersion] is from before there was a version 4.
ResponseVersion31(v) == "3.1"

ResponseVersion(v) == IF v = "4.0" THEN v ELSE "3.1"

\* [mutant of PatchFor] looks in the map again.
PatchForNow(a) == IF a.fp = NoFP THEN "none" ELSE Patches(a.id)[a.fp]

PatchFor(a) == IF a.fp = NoFP THEN "none" ELSE a.patches[a.fp]

\* [mutant of Fault] looks at the row before the status.
FaultAnyStatus(handler, format, a) ==
    IF handler = "v4" /\ (~a.hashed \/ PatchFor(a) = "hashless") THEN "error"
    ELSE IF format = "json" /\ PatchFor(a) = "nil" THEN "panic"
    ELSE "none"

\* What formatting one answer comes to; JSON dereferences the patch.
Fault(handler, format, a) ==
    IF a.status # "" THEN "none"
    ELSE IF handler = "v4" /\ (~a.hashed \/ PatchFor(a) = "hashless") THEN "error"
    ELSE IF format = "json" /\ PatchFor(a) = "nil" THEN "panic"
    ELSE "none"

\* [mutant of Diff] names the patch where the fingerprint belongs.
DiffOfPatch(a) == IF PatchFor(a) = "none" THEN <<>> ELSE <<PatchFor(a)>>

\* The packages of an update: NoFP is the full one, a fingerprint the diff from it.
Diff(a) == IF PatchFor(a) = "none" THEN <<>> ELSE <<a.fp>>

\* [mutant of Packages] has the full package before the diff in version 4 too.
PackagesFullFirst(handler, format, a) ==
    IF a.status # "" THEN <<>>
    ELSE IF format = "xml" THEN <<NoFP>>
    ELSE <<NoFP>> \o Diff(a)

\* The packages of an answer, in the order of the response.
Packages(handler, format, a) ==
    IF a.status # "" THEN <<>>
    ELSE IF format = "xml" THEN <<NoFP>>
    ELSE IF handler = "v4" THEN Diff(a) \o <<NoFP>> ELSE <<NoFP>> \o Diff(a)

\* v4 formats as JSON whatever it is asked for.
FormatOf(handler, label) == IF handler = "v4" THEN "json" ELSE label

Formatted(handler, format) ==
    [i \in DOMAIN answers |->
        [id |-> answers[i].id,
         status |-> GetUpdateStatus(answers[i]),
         version |-> IF answers[i].status = "" THEN answers[i].version ELSE EmptyVersion,
         packages |-> Packages(handler, format, answers[i])]]

\* The list of a GET is of updates by their full package, in either format.
WebStoreResponse ==
    [i \in DOMAIN answers |->
        [id |-> answers[i].id, status |-> "ok", version |-> answers[i].version,
         packages |-> <<NoFP>>]]

\* The path and the host an unknown extension is redirected to.
UpdaterHost(id, updater) ==
    IF id = Widevine THEN "google"
    ELSE IF updater = "chromiumcrx" THEN "extension" ELSE "component"

RedirectSyntax == IF IsJSONContentType(contentType) THEN "json" ELSE "xml"

\* A response that lists no apps; `syntax' is that of the redirect's address.
Without(code, host, syntax) ==
    [code |-> code, host |-> host, syntax |-> syntax, label |-> "none", prefix |-> FALSE,
     protocol |-> NoProtocol, apps |-> <<>>]

NoResponse == Without(0, "none", "none")

-----------------------------------------------------------------------------

NoBody == [fails |-> TRUE, length |-> 0, syntax |-> "neither", events |-> FALSE,
           typed |-> FALSE, protocol |-> NoProtocol, updater |-> "other", apps |-> <<>>]

NoQuery == [accept |-> {}, xs |-> <<>>]

NoContentType == [json |-> FALSE, bare |-> FALSE]

Init ==
    /\ stock = [id \in ID |-> Absent]
    /\ stores = 0
    /\ pc = "idle"
    /\ contentType = NoContentType
    /\ body = NoBody
    /\ query = NoQuery
    /\ at = 1
    /\ version = NoProtocol
    /\ request = <<>>
    /\ answers = <<>>
    /\ response = NoResponse

\* A refresh stores a row with its patches, at any moment but while a GET holds
\* its read lock.
Store ==
    /\ stores < MaxStores
    /\ pc # "store"
    /\ \E id \in ID, s \in Stock : stock' = [stock EXCEPT ![id] = s]
    /\ stores' = stores + 1
    /\ UNCHANGED <<pc, requestVars, version, request, answers, response>>

Handling(label) == pc = label /\ UNCHANGED <<stock, stores>>

\* The handler returns.
Reply(r) == pc' = "done" /\ response' = r

ReplyStore(r) == pc' = "listed" /\ response' = r

ReplyEmpty(code) == Reply(Without(code, "none", "none"))

Goto(label) == pc' = label /\ UNCHANGED response

Arrive ==
    /\ Handling("idle")
    /\ contentType' \in ContentType
    /\ body' \in Body
    /\ Goto("read")
    /\ UNCHANGED <<query, at, version, request, answers>>

ArriveStore ==
    /\ Handling("idle")
    /\ contentType' \in ContentType
    /\ query' \in Query
    /\ Goto("store")
    /\ UNCHANGED <<body, at, version, request, answers>>

\* A body that cannot be read, is too large or empty.
RefuseBody ==
    /\ Handling("read")
    /\ Refused(body)
    /\ ReplyEmpty(400)
    /\ UNCHANGED <<requestVars, version, request, answers>>

Pingback ==
    /\ Handling("read")
    /\ ~Refused(body)
    /\ IsPingbackRequest(body, contentType)
    /\ ReplyEmpty(204)
    /\ UNCHANGED <<requestVars, version, request, answers>>

\* The version is detected, and a handler made for it.
DetectVersion ==
    /\ Handling("read")
    /\ ~Refused(body)
    /\ ~IsPingbackRequest(body, contentType)
    /\ version' = DetectProtocolVersion(body, contentType)
    /\ IF CreateProtocol(version') = "none" THEN ReplyEmpty(400) ELSE Goto("parse")
    /\ UNCHANGED <<requestVars, request, answers>>

ParseRequest ==
    /\ Handling("parse")
    /\ IF Parses(CreateProtocol(version), body, contentType)
       THEN request' = UpdateRequest(body, version) /\ Goto("lookup")
       ELSE UNCHANGED request /\ ReplyEmpty(400)
    /\ UNCHANGED <<requestVars, version, answers>>

\* A single unknown extension is redirected, by its ID, updater and syntax.
LookUp ==
    /\ Handling("lookup")
    /\ IF Len(request) = 1 /\ request[1].id \notin Known(Rows)
       THEN Reply(Without(307, UpdaterHost(request[1].id, body.updater), RedirectSyntax))
       ELSE Goto("process")
    /\ UNCHANGED <<requestVars, version, request, answers>>

Process ==
    /\ Handling("process")
    /\ answers' = ProcessExtensionRequests(request)
    /\ Goto("format")
    /\ UNCHANGED <<requestVars, version, request>>

\* A response that lists apps.
With(format, label, prefix, protocol, apps) ==
    [code |-> 200, host |-> "none", syntax |-> format, label |-> label, prefix |-> prefix,
     protocol |-> protocol, apps |-> apps]

\* The answers that cannot be formatted.
Faulty(handler, format) == {i \in DOMAIN answers : Fault(handler, format, answers[i]) # "none"}

\* The first answer with a fault decides.  A panic closes the connection, or is
\* a 500 if the environment asks for the middleware that logs requests.
Respond ==
    LET handler == CreateProtocol(ResponseVersion(version))
        label   == IF IsJSONContentType(contentType) THEN "json" ELSE "xml"
        format  == FormatOf(handler, label)
        faulty  == Faulty(handler, format)
        first   == CHOOSE i \in faulty : \A j \in faulty : i <= j
        codes   == IF Fault(handler, format, answers[first]) = "error" THEN {500} ELSE {0, 500}
    IN  /\ Handling("format")
        /\ IF handler = "none" THEN ReplyEmpty(500)
           ELSE IF faulty = {}
           THEN Reply(With(format, label, IsJSONContentType(contentType),
                           IF handler = "v4" THEN "4.0" ELSE "3.1", Formatted(handler, format)))
           ELSE \E code \in codes : ReplyEmpty(code)
        /\ UNCHANGED <<requestVars, version, request, answers>>

\* [mutant of Redirects] redirects whatever else is asked for.
RedirectsAny(x) == x.id \notin Known(Rows)

Redirects(x) == x.id \notin Known(Rows) /\ Len(query.xs) = 1

\* A turn of the loop of a GET, under its read lock.
TakeX ==
    LET x == query.xs[at]
    IN  /\ Handling("store")
        /\ at <= Len(query.xs)
        /\ IF x.broken \/ x.id = NoID
           THEN ReplyStore(Without(400, "none", "none")) /\ UNCHANGED <<at, answers>>
           ELSE IF Redirects(x)
           THEN ReplyStore(Without(307, "extension", "crx")) /\ UNCHANGED <<at, answers>>
           ELSE /\ answers' = answers \o Listing(x)
                /\ at' = at + 1
                /\ Goto("store")
        /\ UNCHANGED <<contentType, body, query, version, request>>

\* The list, in the format the client accepts; there is no safe-JSON prefix.
RespondStore ==
    LET format == IF AcceptsJSON(query.accept) \/ IsJSONContentType(contentType)
                  THEN "json" ELSE "xml"
    IN  /\ Handling("store")
        /\ at > Len(query.xs)
        /\ ReplyStore(With(format, format, FALSE, "3.1", WebStoreResponse))
        /\ UNCHANGED <<requestVars, version, request, answers>>

\* The next request finds nothing of this one.
Finish ==
    /\ pc \in {"done", "listed"}
    /\ pc' = "idle"
    /\ contentType' = NoContentType
    /\ body' = NoBody
    /\ query' = NoQuery
    /\ at' = 1
    /\ version' = NoProtocol
    /\ request' = <<>>
    /\ answers' = <<>>
    /\ response' = NoResponse
    /\ UNCHANGED <<stock, stores>>

Next ==
    \/ Store \/ Arrive \/ RefuseBody \/ Pingback \/ DetectVersion
    \/ ParseRequest \/ LookUp \/ Process \/ Respond
    \/ ArriveStore \/ TakeX \/ RespondStore \/ Finish

Spec == Init /\ [][Next]_vars

-----------------------------------------------------------------------------

Answer == [id: ID \cup {NoID}, version: Version, hashed: BOOLEAN, status: Statuses,
           fp: FP, patches: PatchList]

RequestApp == [id: ID \cup {NoID}, version: Version, fp: FP]

WrittenApp == [id: ID \cup {NoID}, status: (Statuses \ {""}) \cup {"ok"},
               version: Version, packages: Seq(FP)]

Written == [code: {0, 200, 204, 307, 400, 500},
            host: {"none", "google", "extension", "component"},
            syntax: {"none", "json", "xml", "crx"}, label: {"none", "json", "xml"}, prefix: BOOLEAN,
            protocol: {NoProtocol, "3.1", "4.0"},
            apps: Seq(WrittenApp)]

TypeOK ==
    /\ stock \in [ID -> Stock \cup {Absent}]
    /\ stores \in 0 .. MaxStores
    /\ pc \in {"idle", "read", "parse", "lookup", "process", "format", "done", "store", "listed"}
    /\ contentType \in ContentType
    /\ body \in Body \cup {NoBody}
    /\ query \in Query \cup {NoQuery}
    /\ at \in Nat \ {0}
    /\ version \in Protocols
    /\ request \in Seq(RequestApp)
    /\ answers \in Seq(Answer)
    /\ response \in Written

Answered == pc = "done" /\ response.code = 200

(***************************************************************************)
(* A client is answered in the syntax it wrote in, under the content type  *)
(* of what is written, with the JSON prefix just when it is JSON: in       *)
(* version 4.0 when it asked in that, in 3.1 when it asked in 3.0 or 3.1,  *)
(* and not at all in any other; a redirect is to the address for that      *)
(* syntax.  The code takes each of these from another place                *)
(* (controller.go:288, 354, 372, 384, 398, and two handlers).              *)
(***************************************************************************)
AnsweredInKind ==
    /\ Answered =>
          /\ response.syntax = body.syntax
          /\ response.label = response.syntax
          /\ response.prefix <=> response.syntax = "json"
          /\ body.protocol \in {"3.0", "3.1", "4.0"}
          /\ response.protocol = IF body.protocol = "4.0" THEN "4.0" ELSE "3.1"
    /\ pc = "done" /\ response.code = 307 => response.syntax = body.syntax

(***************************************************************************)
(* The version and the packages of an update are of one row, although rows *)
(* are stored between the look-up and the formatting: the full package,    *)
(* and in JSON a diff just when that row has a patch for the client        *)
(* (extension.go:108, v3/response.go:73, v4/response.go:119).              *)
(***************************************************************************)
UpdateFromOneRow ==
    Answered => \A i \in DOMAIN response.apps :
        LET app == response.apps[i]
            fp  == request[i].fp
        IN  app.status = "ok" => \E s \in Stock :
              /\ app.version = s.row.version
              /\ {app.packages[k] : k \in DOMAIN app.packages} =
                    {NoFP} \cup {f \in {fp} \cap Fingerprint :
                                    body.syntax = "json" /\ s.patches[f] # "none"}

(***************************************************************************)
(* No client is offered a diff that starts from a package it did not name  *)
(* for that very app, in any of the fields for it; and a version 4 client, *)
(* which tries pipelines in order, is always left the full package in the  *)
(* end (v4/response.go:184).                                               *)
(***************************************************************************)
DiffsForTheClient ==
    Answered => \A i \in DOMAIN response.apps :
        LET packages == response.apps[i].packages
            sent     == body.apps[i]
        IN  /\ \A k \in DOMAIN packages :
                  packages[k] \in {NoFP, sent.fp, sent.package, sent.cached}
            /\ response.protocol = "4.0" /\ packages # <<>> =>
                  packages[Len(packages)] = NoFP

(***************************************************************************)
(* A row without SHA256, or with a broken patch, fails the requests that   *)
(* it is an update for, of clients with the fingerprint of that patch, and *)
(* no other: not a client that is up to date or shut out, and never one    *)
(* that asks in XML (v4/response.go:101, 121; v3/response.go:104).         *)
(***************************************************************************)
FailsOnlyForItsOwn ==
    pc = "done" /\ response.code \in {0, 500} =>
        /\ body.syntax = "json"
        /\ \E i \in DOMAIN answers :
              /\ answers[i].status = ""
              /\ \/ body.protocol = "4.0" /\ ~answers[i].hashed
                 \/ \E f \in Fingerprint \cap {body.apps[i].fp, body.apps[i].package,
                                               body.apps[i].cached} :
                       answers[i].patches[f] \in {"hashless", "nil"}

(***************************************************************************)
(* Nothing is done for a part of a body: LimitReader cuts one that is too  *)
(* long without saying so, and what is left may be a request, or a         *)
(* pingback, of its own (controller.go:299-314).                           *)
(***************************************************************************)
OnlyWholeBodies ==
    pc = "done" /\ response.code \in {0, 200, 204, 307, 500} => body.length \in 1 .. Limit - 1

(***************************************************************************)
(* Whatever a web store GET lists is newer than what the client has of it; *)
(* unless its version starts with a negative number, which is older than   *)
(* that of no extension at all, so that an unknown one is listed, without  *)
(* its ID (controller.go:250).                                             *)
(***************************************************************************)
StoreListsTheAsked ==
    pc = "listed" /\ response.code = 200 => \A k \in DOMAIN response.apps :
        LET app == response.apps[k]
        IN  \E i \in DOMAIN query.xs :
              /\ CompareVersions(query.xs[i].version, app.version) < 0
              /\ \/ app.id = query.xs[i].id
                 \/ app.id = NoID /\ Atoi(query.xs[i].version[1]) < 0

-----------------------------------------------------------------------------
(* What Omaha does of the abstract service: a body is a request of some    *)
(* kind, decided when it is redirected or processed, and answered later.   *)

Kind(b, ct) ==
    LET handler == CreateProtocol(DetectProtocolVersion(b, ct))
    IN  IF Refused(b) THEN "rejected"
        ELSE IF IsPingbackRequest(b, ct) THEN "pingback"
        ELSE IF handler = "none" THEN "rejected"
        ELSE IF Parses(handler, b, ct) THEN handler ELSE "rejected"

AsApps(apps) == [i \in DOMAIN apps |-> [id |-> apps[i].id, version |-> apps[i].version]]

AsPost(b, ct) == [kind |-> Kind(b, ct), apps |-> AsApps(b.apps)]

AsGet(q) ==
    [kind |-> IF \E i \in DOMAIN q.xs : q.xs[i].broken THEN "rejected" ELSE "webstore",
     apps |-> AsApps(q.xs)]

Requests == {AsPost(b, ct) : b \in Body, ct \in ContentType} \cup {AsGet(q) : q \in Query}

ReplyOf(code, apps) ==
    [code |-> IF code = 0 THEN 500 ELSE code, answers |-> apps, catalog |-> Absent]

NoReply == [code |-> 0, answers |-> <<>>, catalog |-> Absent]

Decision ==
    LET handler == CreateProtocol(version)
    IN  IF Faulty(handler, body.syntax) = {}
        THEN ReplyOf(200, Formatted(handler, body.syntax))
        ELSE ReplyOf(500, <<>>)

Phase ==
    IF pc \in {"idle", "done", "listed"} THEN "idle"
    ELSE IF pc = "format" THEN "decided" ELSE "asked"

Asked ==
    IF pc = "idle" THEN Absent
    ELSE IF pc \in {"store", "listed"} THEN AsGet(query) ELSE AsPost(body, contentType)

Decided == IF pc = "format" THEN Decision ELSE NoReply

Delivered == IF pc \in {"done", "listed"} THEN ReplyOf(response.code, response.apps) ELSE NoReply

OneClient(value) == [c \in {"client"} |-> value]

Service == INSTANCE CatalogService WITH
    Client    <- {"client"},
    Request   <- Requests,
    NoRequest <- Absent,
    NoEntry   <- Absent,
    Patched   <- TRUE,
    catalog   <- Rows,
    phase     <- OneClient(Phase),
    asked     <- OneClient(Asked),
    decision  <- OneClient(Decided),
    reply     <- OneClient(Delivered)

(***************************************************************************)
(* With its two protocols, two syntaxes and patches, the code does what    *)
(* the abstract catalog service of module Controller promises: a request   *)
(* is of one kind, and is decided at one moment from the rows stored then. *)
(***************************************************************************)
ImplementsService == Service!Service

-----------------------------------------------------------------------------

(***************************************************************************)
(* A content type with parameters is JSON too ("Example: application/json; *)
(* charset=utf-8", protocol.go:74): a well-formed JSON request in a        *)
(* supported version is not refused.                                       *)
(***************************************************************************)
JSONIsAccepted ==
    pc = "done" /\ response.code = 400 =>
        ~ /\ contentType.json
          /\ ~body.fails /\ body.length < Limit /\ body.syntax = "json" /\ body.typed
          /\ body.protocol \in {"3.0", "3.1", "4.0"}
=============================================================================
