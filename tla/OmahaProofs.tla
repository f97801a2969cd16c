---------------------------- MODULE OmahaProofs ----------------------------
(***************************************************************************)
(* What a POST is answered, proved for any bodies, content types, rows and *)
(* patches.                                                                *)
(*                                                                         *)
(* The invariant says what the handler has established at each label:      *)
(* that the version is the one of the body in the syntax of its header,    *)
(* that the request is the one the body makes, that each answer is of a    *)
(* row, and what has been written is what formatting makes of the answers. *)
(***************************************************************************)
EXTENDS Omaha, ExtensionsProofs, SequenceTheorems, TLAPS

ResponseHandler == CreateProtocol(ResponseVersion(version))

Whole == body.length \in 1 .. Limit - 1

Detected ==
    /\ Whole
    /\ version \in {"3.0", "3.1", "4.0"}
    /\ version = body.protocol
    /\ body.syntax = IF contentType.json THEN "json" ELSE "xml"

Accepted ==
    /\ Detected
    /\ version = "4.0" => body.syntax = "json"
    /\ request = UpdateRequest(body, version)

OfARow(answer) ==
    \E s \in Stock : /\ answer.version = s.row.version
                     /\ answer.hashed = s.row.hashed
                     /\ answer.patches = s.patches

FromRows ==
    /\ DOMAIN answers = DOMAIN request
    /\ \A i \in DOMAIN answers :
          /\ answers[i].fp = request[i].fp
          /\ answers[i].status = "" => OfARow(answers[i])

RespondedAs(code) == pc = "done" /\ response.code = code

HandlerInv ==
    /\ pc = "parse" => Detected
    /\ pc \in {"lookup", "process", "format"} => Accepted
    /\ pc = "format" => FromRows
    /\ RespondedAs(204) => Whole
    /\ RespondedAs(307) => Accepted /\ response.syntax = body.syntax
    /\ RespondedAs(200) =>
          /\ Accepted /\ FromRows
          /\ response.syntax = body.syntax
          /\ response.label = body.syntax
          /\ response.prefix = (body.syntax = "json")
          /\ response.protocol = IF version = "4.0" THEN "4.0" ELSE "3.1"
          /\ response.apps = Formatted(ResponseHandler, body.syntax)
    /\ RespondedAs(0) \/ RespondedAs(500) =>
          /\ Accepted /\ FromRows
          /\ \E i \in DOMAIN answers :
                Fault(ResponseHandler, body.syntax, answers[i]) # "none"

OmahaInv == TypeOK /\ HandlerInv

-----------------------------------------------------------------------------
(* The operators of a step.                                                *)

\* The types of what a step may assume of the state.
LEMMA BodyType ==
    ASSUME TypeOK
    PROVE  /\ body \in Bodies
           /\ body.apps \in Seq(ClientApp)
           /\ body.length \in Nat
           /\ contentType.json \in BOOLEAN
<1>1. NoBody \in Bodies
    <2>1. <<>> \in Seq(ClientApp)
        OBVIOUS
    <2> QED BY <2>1 DEF NoBody, Bodies, NoProtocol, Protocols, Updaters
<1>2. body \in Bodies
    BY <1>1, OmahaAssumption DEF TypeOK
<1> QED BY <1>2 DEF TypeOK, Bodies, ContentType

\* What is not refused is read to its end.
LEMMA WholeBody ==
    ASSUME TypeOK, ~Refused(body)
    PROVE  Whole
<1>1. body.length \in Nat /\ Limit \in Nat
    BY BodyType, OmahaAssumption
<1> QED BY <1>1 DEF Whole, Refused, TooLarge, Read

\* Every version that is detected has a handler for its response.
LEMMA HandlerOfVersion ==
    ASSUME version \in {"3.0", "3.1", "4.0"}
    PROVE  ResponseHandler = IF version = "4.0" THEN "v4" ELSE "v3"
BY DEF ResponseHandler, ResponseVersion, CreateProtocol

\* A body makes a request with the IDs, and with fingerprints, of its apps.
LEMMA UpdateRequestType ==
    ASSUME TypeOK, Detected
    PROVE  /\ UpdateRequest(body, version) \in Seq(RequestApp)
           /\ DOMAIN UpdateRequest(body, version) = DOMAIN body.apps
<1>1. body.apps \in Seq(ClientApp)
    BY BodyType
<1>2. DOMAIN body.apps = 1 .. Len(body.apps) /\ Len(body.apps) \in Nat
    BY <1>1
<1>3. \A i \in 1 .. Len(body.apps) :
        [id      |-> body.apps[i].id,
         version |-> body.apps[i].version,
         fp      |-> FingerprintOf(body.apps[i], version, body)] \in RequestApp
    <2> TAKE i \in 1 .. Len(body.apps)
    <2>1. body.apps[i] \in ClientApp
        BY <1>1, ElementOfSeq
    <2>2. FingerprintOf(body.apps[i], version, body) \in FP
        BY <2>1 DEF FingerprintOf, Detected, ClientApp
    <2> QED BY <2>1, <2>2 DEF RequestApp, ClientApp
<1> QED BY <1>2, <1>3 DEF UpdateRequest

\* The map holds rows.
LEMMA RowsType ==
    ASSUME TypeOK
    PROVE  /\ Rows \in Catalog
           /\ \A id \in Known(Rows) : stock[id] \in Stock /\ Rows[id] = stock[id].row
<1>1. \A id \in ID : stock[id] \in Stock \cup {Absent}
    BY DEF TypeOK
<1>2. \A s \in Stock : s.row \in Extension /\ s.patches \in PatchList
    BY OmahaAssumption
<1> QED BY <1>1, <1>2, AbsentAssumption DEF Rows, Catalog, Known

\* What is processed has the types of answers, and updates are of rows.
LEMMA ProcessType ==
    ASSUME TypeOK
    PROVE  LET processed == ProcessExtensionRequests(request)
           IN  /\ processed \in Seq(Answer)
               /\ DOMAIN processed = DOMAIN request
               /\ \A i \in DOMAIN processed :
                     /\ processed[i].fp = request[i].fp
                     /\ processed[i].status = "" => OfARow(processed[i])
<1> DEFINE verdict(i) == Verdict([id |-> request[i].id, version |-> request[i].version], Rows)
           answer(i) == [id |-> request[i].id, version |-> verdict(i).version,
                         hashed |-> verdict(i).hashed, status |-> verdict(i).status,
                         fp |-> request[i].fp, patches |-> Patches(request[i].id)]
<1>1. /\ request \in Seq(RequestApp)
      /\ DOMAIN request = 1 .. Len(request) /\ Len(request) \in Nat
    BY DEF TypeOK
<1>2. ProcessExtensionRequests(request) = [i \in DOMAIN request |-> answer(i)]
    BY DEF ProcessExtensionRequests
<1>3. ASSUME NEW i \in DOMAIN request
      PROVE  answer(i) \in Answer /\ (answer(i).status = "" => OfARow(answer(i)))
    <2>1. request[i] \in RequestApp
        BY <1>1, ElementOfSeq
    <2>2. Rows \in Catalog
        BY RowsType
    <2>3. [id |-> request[i].id, version |-> request[i].version] \in App
        BY <2>1 DEF App, RequestApp
    <2>4. verdict(i) \in Verdicts
        BY <2>2, <2>3, VerdictType
    <2>5. Patches(request[i].id) \in PatchList
        <3>1. NoPatches \in PatchList
            BY DEF NoPatches, PatchList
        <3>2. \A s \in Stock : s.patches \in PatchList
            BY OmahaAssumption
        <3> QED BY <3>1, <3>2, RowsType DEF Patches
    <2>6. answer(i) \in Answer
        BY <2>1, <2>4, <2>5 DEF Answer, Verdicts, RequestApp
    <2>7. ASSUME answer(i).status = ""
          PROVE  OfARow(answer(i))
        <3>1. request[i].id \in Known(Rows)
            BY <2>7 DEF Verdict
        <3>2. /\ verdict(i).version = Rows[request[i].id].version
              /\ verdict(i).hashed = Rows[request[i].id].hashed
            BY <3>1 DEF Verdict, Found
        <3>3. stock[request[i].id] \in Stock /\ Rows[request[i].id] = stock[request[i].id].row
            BY <3>1, RowsType
        <3> QED BY <3>1, <3>2, <3>3 DEF OfARow, Patches
    <2> QED BY <2>6, <2>7
<1>4. \A i \in 1 .. Len(request) : answer(i) \in Answer
    BY <1>1, <1>3
<1> HIDE DEF answer
<1>5. [i \in 1 .. Len(request) |-> answer(i)] \in Seq(Answer)
    BY <1>1, <1>4
<1>6. \A i \in DOMAIN request : answer(i).fp = request[i].fp
    BY DEF answer
<1> QED BY <1>1, <1>2, <1>3, <1>5, <1>6

\* Formatting gives each answer packages: fingerprints, or the full package.
LEMMA FormattedType ==
    ASSUME TypeOK, NEW handler \in {"v3", "v4"}, NEW format \in {"json", "xml"}
    PROVE  /\ Formatted(handler, format) \in Seq(WrittenApp)
           /\ DOMAIN Formatted(handler, format) = DOMAIN answers
<1> DEFINE app(i) ==
        [id |-> answers[i].id,
         status |-> GetUpdateStatus(answers[i]),
         version |-> IF answers[i].status = "" THEN answers[i].version ELSE EmptyVersion,
         packages |-> Packages(handler, format, answers[i])]
<1>1. /\ answers \in Seq(Answer)
      /\ DOMAIN answers = 1 .. Len(answers) /\ Len(answers) \in Nat
    BY DEF TypeOK
<1>2. ASSUME NEW i \in 1 .. Len(answers)
      PROVE  app(i) \in WrittenApp
    <2>1. answers[i] \in Answer
        BY <1>1, ElementOfSeq
    <2>2. answers[i].fp \in FP /\ NoFP \in FP
        BY <2>1 DEF Answer, FP
    <2>3. Diff(answers[i]) \in Seq(FP)
        BY <2>2 DEF Diff
    <2>4. Packages(handler, format, answers[i]) \in Seq(FP)
        <3>1. /\ <<NoFP>> \in Seq(FP) /\ <<>> \in Seq(FP)
              /\ Diff(answers[i]) \o <<NoFP>> \in Seq(FP)
              /\ <<NoFP>> \o Diff(answers[i]) \in Seq(FP)
            BY <2>2, <2>3
        <3> QED BY <3>1 DEF Packages
    <2>5. GetUpdateStatus(answers[i]) \in (Statuses \ {""}) \cup {"ok"}
        BY <2>1 DEF GetUpdateStatus, Answer
    <2>6. answers[i].id \in ID \cup {NoID} /\ answers[i].version \in Version
        BY <2>1 DEF Answer
    <2> QED BY <2>4, <2>5, <2>6, VersionAssumption DEF WrittenApp
<1>3. Formatted(handler, format) = [i \in 1 .. Len(answers) |-> app(i)]
    BY <1>1 DEF Formatted
<1> HIDE DEF app
<1>4. [i \in 1 .. Len(answers) |-> app(i)] \in Seq(WrittenApp)
    BY <1>1, <1>2
<1> QED BY <1>1, <1>3, <1>4

-----------------------------------------------------------------------------
(* One lemma for what writes a response, one for the steps.                *)

\* A response without apps has its type.
LEMMA WithoutType ==
    ASSUME NEW code \in {0, 204, 307, 400, 500},
           NEW host \in {"none", "google", "extension", "component"},
           NEW syntax \in {"none", "json", "xml", "crx"}
    PROVE  /\ Without(code, host, syntax) \in Written
           /\ Without(code, host, syntax).code = code
           /\ Without(code, host, syntax).syntax = syntax
<1>1. <<>> \in Seq(WrittenApp)
    OBVIOUS
<1> QED BY <1>1 DEF Without, Written

LEMMA InitOmaha == Init => OmahaInv
<1> SUFFICES ASSUME Init PROVE OmahaInv
    OBVIOUS
<1>1. stock \in [ID -> Stock \cup {Absent}] /\ stores \in 0 .. MaxStores
    BY OmahaAssumption DEF Init
<1>2. /\ contentType \in ContentType /\ body \in Body \cup {NoBody} /\ version \in Protocols
      /\ query \in Query \cup {NoQuery} /\ at \in Nat \ {0}
    BY DEF Init, NoContentType, ContentType, Protocols
<1>3. request \in Seq(RequestApp) /\ answers \in Seq(Answer) /\ response \in Written
    BY WithoutType DEF Init, NoResponse
<1>4. TypeOK
    BY <1>1, <1>2, <1>3 DEF Init, TypeOK
<1>5. HandlerInv
    BY DEF Init, HandlerInv, RespondedAs
<1> QED BY <1>4, <1>5 DEF OmahaInv

\* A response without apps, when the code does not say that apps were formatted.
LEMMA RefusalKeeps ==
    ASSUME OmahaInv, NEW code \in {204, 400}, code = 204 => Whole,
           ReplyEmpty(code), version' \in Protocols,
           UNCHANGED <<stock, stores, requestVars, request, answers>>
    PROVE  OmahaInv'
<1>1. response' = Without(code, "none", "none") /\ pc' = "done"
    BY DEF ReplyEmpty, Reply
<1>2. response'.code = code /\ response' \in Written
    BY <1>1, WithoutType
<1>3. TypeOK'
    BY <1>1, <1>2 DEF OmahaInv, TypeOK, requestVars
<1>4. HandlerInv'
    BY <1>1, <1>2 DEF OmahaInv, HandlerInv, RespondedAs, Whole, requestVars
<1> QED BY <1>3, <1>4 DEF OmahaInv

LEMMA StoreKeeps == ASSUME OmahaInv, Store PROVE OmahaInv'
<1>1. stock' \in [ID -> Stock \cup {Absent}] /\ stores' \in 0 .. MaxStores
    BY OmahaAssumption DEF Store, OmahaInv, TypeOK
<1>2. TypeOK'
    BY <1>1 DEF Store, OmahaInv, TypeOK, requestVars
<1>3. Formatted(ResponseHandler, body.syntax)' = Formatted(ResponseHandler, body.syntax)
    BY DEF Store, requestVars, Formatted, Packages, Diff, PatchFor, ResponseHandler
<1>4. \A i \in DOMAIN answers :
        Fault(ResponseHandler, body.syntax, answers[i])' =
            Fault(ResponseHandler, body.syntax, answers[i])
    BY DEF Store, requestVars, ResponseHandler
<1>5. /\ Detected' = Detected
      /\ Accepted' = Accepted
      /\ FromRows' = FromRows
    BY DEF Store, requestVars, Detected, Whole, Accepted, FromRows, OfARow
<1>6. HandlerInv'
    BY <1>3, <1>4, <1>5 DEF Store, requestVars, OmahaInv, HandlerInv, RespondedAs, Whole
<1> QED BY <1>2, <1>6 DEF OmahaInv

LEMMA ReadKeeps ==
    ASSUME OmahaInv, RefuseBody \/ Pingback \/ Arrive \/ ArriveStore \/ Finish
    PROVE  OmahaInv'
<1>1. CASE RefuseBody
    BY <1>1, RefusalKeeps DEF RefuseBody, Handling, requestVars, OmahaInv, TypeOK
<1>2. CASE Pingback
    BY <1>2, WholeBody, RefusalKeeps DEF Pingback, Handling, requestVars, OmahaInv, TypeOK
<1>3. CASE Arrive
    <2>1. TypeOK'
        BY <1>3 DEF Arrive, Handling, Goto, OmahaInv, TypeOK
    <2>2. HandlerInv'
        BY <1>3 DEF Arrive, Handling, Goto, HandlerInv, RespondedAs
    <2> QED BY <2>1, <2>2 DEF OmahaInv
<1>4. CASE ArriveStore
    <2>1. TypeOK'
        BY <1>4 DEF ArriveStore, Handling, Goto, OmahaInv, TypeOK
    <2>2. HandlerInv'
        BY <1>4 DEF ArriveStore, Handling, Goto, HandlerInv, RespondedAs
    <2> QED BY <2>1, <2>2 DEF OmahaInv
<1>5. CASE Finish
    <2>1. contentType' \in ContentType /\ body' \in Body \cup {NoBody} /\ version' \in Protocols
        BY <1>5 DEF Finish, NoContentType, ContentType, Protocols
    <2>2. request' \in Seq(RequestApp) /\ answers' \in Seq(Answer) /\ response' \in Written
        BY <1>5, WithoutType DEF Finish, NoResponse
    <2>3. TypeOK'
        BY <1>5, <2>1, <2>2 DEF Finish, OmahaInv, TypeOK
    <2>4. HandlerInv'
        BY <1>5 DEF Finish, HandlerInv, RespondedAs
    <2> QED BY <2>3, <2>4 DEF OmahaInv
<1> QED BY <1>1, <1>2, <1>3, <1>4, <1>5

LEMMA DetectVersionKeeps == ASSUME OmahaInv, DetectVersion PROVE OmahaInv'
<1>1. version' = DetectProtocolVersion(body, contentType)
    BY DEF DetectVersion
<1>2. version' \in Protocols
    BY <1>1, BodyType DEF DetectProtocolVersion, Bodies, Protocols, NoProtocol, OmahaInv
<1>3. CASE CreateProtocol(version') = "none"
    BY <1>2, <1>3, RefusalKeeps DEF DetectVersion, Handling, requestVars
<1>4. CASE CreateProtocol(version') # "none"
    <2>1. pc' = "parse" /\ UNCHANGED response
        BY <1>4 DEF DetectVersion, Goto
    <2>2. TypeOK'
        BY <1>2, <2>1 DEF DetectVersion, Handling, requestVars, OmahaInv, TypeOK
    <2>3. version' \in {"3.0", "3.1", "4.0"}
        BY <1>4 DEF CreateProtocol
    <2>4. Detected'
        <3>1. Whole' /\ version' = DetectProtocolVersion(body, contentType)
            BY <1>1, WholeBody DEF DetectVersion, requestVars, Whole, OmahaInv
        <3> QED BY <1>1, <2>3, <3>1 DEF DetectVersion, DetectProtocolVersion, IsJSONContentType,
                                        requestVars, Detected, NoProtocol
    <2>5. HandlerInv'
        BY <2>1, <2>4 DEF HandlerInv, RespondedAs
    <2> QED BY <2>2, <2>5 DEF OmahaInv
<1> QED BY <1>3, <1>4

LEMMA ParseRequestKeeps == ASSUME OmahaInv, ParseRequest PROVE OmahaInv'
<1>1. Detected
    BY DEF ParseRequest, Handling, OmahaInv, HandlerInv
<1>2. CASE Parses(CreateProtocol(version), body, contentType)
    <2>1. /\ request' = UpdateRequest(body, version)
          /\ pc' = "lookup"
          /\ UNCHANGED <<stock, stores, contentType, body, query, at, version, answers, response>>
        BY <1>2 DEF ParseRequest, Handling, Goto, requestVars
    <2>2. TypeOK'
        BY <1>1, <2>1, UpdateRequestType DEF OmahaInv, TypeOK
    <2>3. version = "4.0" => body.syntax = "json"
        BY <1>2 DEF Parses, CreateProtocol
    <2>4. Accepted'
        BY <1>1, <2>1, <2>3 DEF Accepted, Detected, Whole
    <2>5. HandlerInv'
        BY <2>1, <2>4 DEF HandlerInv, RespondedAs
    <2> QED BY <2>2, <2>5 DEF OmahaInv
<1>3. CASE ~Parses(CreateProtocol(version), body, contentType)
    BY <1>3, RefusalKeeps DEF ParseRequest, Handling, requestVars, OmahaInv, TypeOK
<1> QED BY <1>2, <1>3

LEMMA LookUpKeeps == ASSUME OmahaInv, LookUp PROVE OmahaInv'
<1>1. /\ Accepted
      /\ UNCHANGED <<stock, stores, contentType, body, query, at, version, request, answers>>
    BY DEF LookUp, Handling, requestVars, OmahaInv, HandlerInv
<1>2. Accepted'
    BY <1>1 DEF Accepted, Detected, Whole
<1>3. CASE Len(request) = 1 /\ request[1].id \notin Known(Rows)
    <2> DEFINE host == UpdaterHost(request[1].id, body.updater)
    <2>1. response' = Without(307, host, RedirectSyntax) /\ pc' = "done"
        BY <1>3 DEF LookUp, Reply
    <2>2. host \in {"none", "google", "extension", "component"}
        BY DEF UpdaterHost
    <2>3. RedirectSyntax = body.syntax /\ RedirectSyntax \in {"none", "json", "xml"}
        BY <1>1 DEF RedirectSyntax, IsJSONContentType, Accepted, Detected
    <2> HIDE DEF host
    <2>4. response' \in Written /\ response'.code = 307 /\ response'.syntax = body.syntax
        BY <2>1, <2>2, <2>3, WithoutType
    <2>5. TypeOK'
        BY <1>1, <2>1, <2>4 DEF OmahaInv, TypeOK
    <2>6. HandlerInv'
        BY <1>1, <1>2, <2>1, <2>4 DEF HandlerInv, RespondedAs
    <2> QED BY <2>5, <2>6 DEF OmahaInv
<1>4. CASE ~(Len(request) = 1 /\ request[1].id \notin Known(Rows))
    <2>1. pc' = "process" /\ UNCHANGED response
        BY <1>4 DEF LookUp, Goto
    <2>2. TypeOK'
        BY <1>1, <2>1 DEF OmahaInv, TypeOK
    <2>3. HandlerInv'
        BY <1>2, <2>1 DEF HandlerInv, RespondedAs
    <2> QED BY <2>2, <2>3 DEF OmahaInv
<1> QED BY <1>3, <1>4

LEMMA ProcessKeeps == ASSUME OmahaInv, Process PROVE OmahaInv'
<1>1. /\ Accepted /\ pc' = "format"
      /\ answers' = ProcessExtensionRequests(request)
      /\ UNCHANGED <<stock, stores, contentType, body, query, at, version, request, response>>
    BY DEF Process, Handling, Goto, requestVars, OmahaInv, HandlerInv
<1>2. Accepted'
    BY <1>1 DEF Accepted, Detected, Whole
<1>3. answers' \in Seq(Answer) /\ FromRows'
    BY <1>1, ProcessType DEF FromRows, OfARow, OmahaInv
<1>4. TypeOK'
    BY <1>1, <1>3 DEF OmahaInv, TypeOK
<1>5. HandlerInv'
    BY <1>1, <1>2, <1>3 DEF HandlerInv, RespondedAs
<1> QED BY <1>4, <1>5 DEF OmahaInv

LEMMA RespondKeeps == ASSUME OmahaInv, Respond PROVE OmahaInv'
<1> DEFINE label  == IF IsJSONContentType(contentType) THEN "json" ELSE "xml"
           format == FormatOf(ResponseHandler, label)
           faulty == {i \in DOMAIN answers : Fault(ResponseHandler, format, answers[i]) # "none"}
           first  == CHOOSE i \in faulty : \A j \in faulty : i <= j
           full   == With(format, label, IsJSONContentType(contentType),
                          IF ResponseHandler = "v4" THEN "4.0" ELSE "3.1",
                          Formatted(ResponseHandler, format))
           codes == IF Fault(ResponseHandler, format, answers[first]) = "error"
                    THEN {500} ELSE {0, 500}
<1>1. /\ Accepted /\ FromRows /\ TypeOK
      /\ UNCHANGED <<stock, stores, contentType, body, query, at, version, request, answers>>
    BY DEF Respond, Handling, requestVars, OmahaInv, HandlerInv
<1>2. /\ ResponseHandler = IF version = "4.0" THEN "v4" ELSE "v3"
      /\ ResponseHandler \in {"v3", "v4"} /\ ResponseHandler # "none"
    BY <1>1, HandlerOfVersion DEF Accepted, Detected
<1>3. /\ label = body.syntax /\ label \in {"json", "xml"}
      /\ IsJSONContentType(contentType) = (body.syntax = "json")
    BY <1>1, BodyType DEF IsJSONContentType, Accepted, Detected
<1>4. format = body.syntax
    BY <1>1, <1>2, <1>3 DEF FormatOf, Accepted
<1>5. IF ResponseHandler = "none" THEN ReplyEmpty(500)
      ELSE IF faulty = {} THEN Reply(full)
      ELSE \E code \in codes : ReplyEmpty(code)
    BY DEF Respond, Faulty, ResponseHandler
<1>6. /\ Accepted' /\ FromRows'
      /\ ResponseHandler' = ResponseHandler
      /\ Formatted(ResponseHandler, body.syntax)' = Formatted(ResponseHandler, body.syntax)
    BY <1>1 DEF Accepted, Detected, Whole, FromRows, OfARow, ResponseHandler, Formatted
<1>7. CASE faulty = {}
    <2>1. response' = full /\ pc' = "done"
        BY <1>2, <1>5, <1>7 DEF Reply
    <2>2. Formatted(ResponseHandler, format) \in Seq(WrittenApp)
        BY <1>1, <1>2, <1>3, <1>4, FormattedType
    <2>3. response' \in Written
        BY <1>3, <1>4, <2>1, <2>2, BodyType, <1>1 DEF With, Written, IsJSONContentType
    <2>4. TypeOK'
        BY <1>1, <2>1, <2>3 DEF TypeOK
    <2>5. /\ response'.code = 200
          /\ response'.syntax = body.syntax
          /\ response'.label = body.syntax
          /\ response'.prefix = (body.syntax = "json")
          /\ response'.protocol = IF version = "4.0" THEN "4.0" ELSE "3.1"
          /\ response'.apps = Formatted(ResponseHandler, body.syntax)
        BY <1>2, <1>3, <1>4, <2>1 DEF With
    <2>6. HandlerInv'
        BY <1>1, <1>6, <2>1, <2>5 DEF HandlerInv, RespondedAs
    <2> QED BY <2>4, <2>6 DEF OmahaInv
<1>8. CASE faulty # {}
    <2>1. PICK code \in {0, 500} : response' = Without(code, "none", "none") /\ pc' = "done"
        BY <1>2, <1>5, <1>8 DEF ReplyEmpty, Reply
    <2>2. \E i \in DOMAIN answers : Fault(ResponseHandler, body.syntax, answers[i]) # "none"
        BY <1>4, <1>8
    <2>3. (\E i \in DOMAIN answers :
              Fault(ResponseHandler, body.syntax, answers[i]) # "none")'
        BY <1>1, <1>6, <2>2 DEF Fault, PatchFor
    <2>4. response' \in Written /\ response'.code \in {0, 500}
        BY <2>1, WithoutType
    <2>5. TypeOK'
        BY <1>1, <2>1, <2>4 DEF TypeOK
    <2>6. HandlerInv'
        BY <1>1, <1>6, <2>1, <2>3, <2>4 DEF HandlerInv, RespondedAs
    <2> QED BY <2>5, <2>6 DEF OmahaInv
<1> QED BY <1>7, <1>8

\* A turn of the loop of a GET lists answers.
LEMMA ListingType ==
    ASSUME TypeOK, NEW x \in X
    PROVE  Listing(x) \in Seq(Answer)
<1> DEFINE offers == Offer([id |-> x.id, version |-> x.version], Rows)
           listed(i) == [id |-> offers[i].id, version |-> offers[i].version,
                         hashed |-> offers[i].hashed, status |-> "", fp |-> NoFP,
                         patches |-> NoPatches]
<1>1. [id |-> x.id, version |-> x.version] \in App
    BY DEF X, App
<1>2. offers \in Seq(Verdicts)
    BY <1>1, RowsType, OfferType
<1> HIDE DEF offers
<1>3. DOMAIN offers = 1 .. Len(offers) /\ Len(offers) \in Nat
    BY <1>2
<1>4. NoPatches \in PatchList /\ NoFP \in FP
    BY DEF NoPatches, PatchList, FP
<1>5. \A i \in 1 .. Len(offers) : listed(i) \in Answer
    <2> TAKE i \in 1 .. Len(offers)
    <2>1. offers[i] \in Verdicts
        BY <1>2, ElementOfSeq
    <2> QED BY <1>4, <2>1 DEF Verdicts, Answer, Statuses
<1>6. Listing(x) = [i \in 1 .. Len(offers) |-> listed(i)]
    BY <1>3 DEF Listing, offers
<1> HIDE DEF listed
<1>7. [i \in 1 .. Len(offers) |-> listed(i)] \in Seq(Answer)
    BY <1>3, <1>5
<1> QED BY <1>6, <1>7

\* The x of a turn is a parameter.
LEMMA XOfTurn ==
    ASSUME TypeOK, at <= Len(query.xs)
    PROVE  query.xs \in Seq(X) /\ at \in DOMAIN query.xs /\ query.xs[at] \in X
<1>1. query.xs \in Seq(X)
    <2>1. NoQuery \in Queries
        BY DEF NoQuery, Queries
    <2> QED BY <2>1, OmahaAssumption DEF TypeOK, Queries
<1>2. DOMAIN query.xs = 1 .. Len(query.xs) /\ Len(query.xs) \in Nat /\ at \in Nat \ {0}
    BY <1>1 DEF TypeOK
<1>3. at \in 1 .. Len(query.xs)
    BY <1>2
<1> QED BY <1>1, <1>2, <1>3, ElementOfSeq

LEMMA TakeXKeeps == ASSUME OmahaInv, TakeX PROVE OmahaInv'
<1>1. /\ TypeOK /\ pc = "store" /\ at <= Len(query.xs)
      /\ UNCHANGED <<stock, stores, contentType, body, query, version, request>>
    BY DEF TakeX, Handling, OmahaInv
<1> DEFINE x == query.xs[at]
<1>2. CASE pc' = "listed" /\ UNCHANGED <<at, answers>> /\ response' \in Written
    <2>1. TypeOK'
        BY <1>1, <1>2 DEF TypeOK
    <2>2. HandlerInv'
        BY <1>2 DEF HandlerInv, RespondedAs
    <2> QED BY <2>1, <2>2 DEF OmahaInv
<1>3. CASE /\ pc' = "store" /\ at' = at + 1 /\ answers' = answers \o Listing(x)
           /\ UNCHANGED response
    <2>1. Listing(x) \in Seq(Answer) /\ answers \in Seq(Answer)
        BY <1>1, XOfTurn, ListingType DEF TypeOK
    <2> HIDE DEF x
    <2>2. answers' \in Seq(Answer) /\ at' \in Nat \ {0}
        BY <1>1, <1>3, <2>1 DEF TypeOK
    <2>3. TypeOK'
        BY <1>1, <1>3, <2>2 DEF TypeOK
    <2>4. HandlerInv'
        BY <1>3 DEF HandlerInv, RespondedAs
    <2> QED BY <2>3, <2>4 DEF OmahaInv
<1>4. /\ Without(400, "none", "none") \in Written
      /\ Without(307, "extension", "crx") \in Written
    BY WithoutType
<1> QED BY <1>2, <1>3, <1>4 DEF TakeX, ReplyStore, Goto

LEMMA WebStoreResponseType ==
    ASSUME TypeOK
    PROVE  WebStoreResponse \in Seq(WrittenApp)
<1> DEFINE app(i) == [id |-> answers[i].id, status |-> "ok", version |-> answers[i].version,
                      packages |-> <<NoFP>>]
<1>1. /\ answers \in Seq(Answer)
      /\ DOMAIN answers = 1 .. Len(answers) /\ Len(answers) \in Nat
    BY DEF TypeOK
<1>2. \A i \in 1 .. Len(answers) : app(i) \in WrittenApp
    <2> TAKE i \in 1 .. Len(answers)
    <2>1. answers[i] \in Answer
        BY <1>1, ElementOfSeq
    <2>2. answers[i].id \in ID \cup {NoID} /\ answers[i].version \in Version
        BY <2>1 DEF Answer
    <2>3. <<NoFP>> \in Seq(FP)
        BY DEF FP
    <2> QED BY <2>2, <2>3 DEF WrittenApp
<1>3. WebStoreResponse = [i \in 1 .. Len(answers) |-> app(i)]
    BY <1>1 DEF WebStoreResponse
<1> HIDE DEF app
<1>4. [i \in 1 .. Len(answers) |-> app(i)] \in Seq(WrittenApp)
    BY <1>1, <1>2
<1> QED BY <1>3, <1>4

LEMMA RespondStoreKeeps == ASSUME OmahaInv, RespondStore PROVE OmahaInv'
<1> DEFINE format == IF AcceptsJSON(query.accept) \/ IsJSONContentType(contentType)
                     THEN "json" ELSE "xml"
<1>1. /\ TypeOK /\ pc' = "listed"
      /\ UNCHANGED <<stock, stores, contentType, body, query, at, version, request, answers>>
      /\ response' = With(format, format, FALSE, "3.1", WebStoreResponse)
    BY DEF RespondStore, ReplyStore, Handling, requestVars, OmahaInv
<1>2. format \in {"json", "xml"}
    OBVIOUS
<1> HIDE DEF format
<1>3. WebStoreResponse \in Seq(WrittenApp)
    BY <1>1, WebStoreResponseType
<1>4. response' \in Written
    BY <1>1, <1>2, <1>3 DEF With, Written
<1>5. TypeOK'
    BY <1>1, <1>4 DEF TypeOK
<1>6. HandlerInv'
    BY <1>1 DEF HandlerInv, RespondedAs
<1> QED BY <1>5, <1>6 DEF OmahaInv

\* No step breaks the invariant.
LEMMA OmahaInductive == Spec => []OmahaInv
<1>1. OmahaInv /\ [Next]_vars => OmahaInv'
    <2> SUFFICES ASSUME OmahaInv, [Next]_vars PROVE OmahaInv'
        OBVIOUS
    <2>1. CASE Store
        BY <2>1, StoreKeeps
    <2>2. CASE RefuseBody \/ Pingback \/ Arrive \/ ArriveStore \/ Finish
        BY <2>2, ReadKeeps
    <2>3. CASE DetectVersion
        BY <2>3, DetectVersionKeeps
    <2>4. CASE ParseRequest
        BY <2>4, ParseRequestKeeps
    <2>5. CASE LookUp
        BY <2>5, LookUpKeeps
    <2>6. CASE Process
        BY <2>6, ProcessKeeps
    <2>7. CASE Respond
        BY <2>7, RespondKeeps
    <2>8. CASE TakeX
        BY <2>8, TakeXKeeps
    <2>9. CASE RespondStore
        BY <2>9, RespondStoreKeeps
    <2>10. CASE UNCHANGED vars
        <3>1. UNCHANGED <<stock, stores, pc, contentType, body, query, at, version, request,
                          answers, response>>
            BY <2>10 DEF vars, requestVars
        <3>2. TypeOK'
            BY <3>1 DEF OmahaInv, TypeOK
        <3>3. /\ Whole' = Whole /\ Detected' = Detected /\ Accepted' = Accepted /\ FromRows' = FromRows
              /\ Formatted(ResponseHandler, body.syntax)' = Formatted(ResponseHandler, body.syntax)
              /\ \A i \in DOMAIN answers :
                    Fault(ResponseHandler, body.syntax, answers[i])' =
                        Fault(ResponseHandler, body.syntax, answers[i])
            BY <3>1 DEF Whole, Detected, Accepted, FromRows, OfARow, Formatted, Packages, Diff,
                        PatchFor, ResponseHandler
        <3>4. HandlerInv'
            BY <3>1, <3>3 DEF OmahaInv, HandlerInv, RespondedAs
        <3> QED BY <3>2, <3>4 DEF OmahaInv
    <2> QED BY <2>1, <2>2, <2>3, <2>4, <2>5, <2>6, <2>7, <2>8, <2>9, <2>10 DEF Next
<1> QED BY InitOmaha, <1>1, PTL DEF Spec

-----------------------------------------------------------------------------

\* The variables of a POST keep their types, and so does what is written.
THEOREM OmahaTypeCorrect == Spec => []TypeOK
BY OmahaInductive, PTL DEF OmahaInv

(***************************************************************************)
(* For any bodies and headers: the answer is in the syntax of the request, *)
(* labelled and prefixed as such; a request in 4.0 is answered in 4.0, one *)
(* in 3.0 or 3.1 in 3.1, and one in any other version is not answered.     *)
(***************************************************************************)
THEOREM KindIsKept == Spec => []AnsweredInKind
<1>1. OmahaInv => AnsweredInKind
    BY DEF OmahaInv, HandlerInv, RespondedAs, AnsweredInKind, Answered, Accepted, Detected
<1> QED BY <1>1, OmahaInductive, PTL

\* What is written of an answer.
LEMMA WrittenAnswer ==
    ASSUME OmahaInv, Answered, NEW i \in DOMAIN response.apps
    PROVE  /\ Accepted /\ FromRows
           /\ body.syntax \in {"json", "xml"}
           /\ version = "4.0" => body.syntax = "json"
           /\ ResponseHandler = IF version = "4.0" THEN "v4" ELSE "v3"
           /\ i \in DOMAIN answers /\ answers[i] \in Answer
           /\ answers[i].fp = request[i].fp
           /\ response.apps[i].status = "ok" <=> answers[i].status = ""
           /\ answers[i].status = "" => response.apps[i].version = answers[i].version
           /\ response.apps[i].packages = Packages(ResponseHandler, body.syntax, answers[i])
<1>1. /\ Accepted /\ FromRows /\ TypeOK
      /\ response.apps = Formatted(ResponseHandler, body.syntax)
    BY DEF OmahaInv, HandlerInv, RespondedAs, Answered
<1>2. /\ ResponseHandler = IF version = "4.0" THEN "v4" ELSE "v3"
      /\ body.syntax \in {"json", "xml"}
      /\ version = "4.0" => body.syntax = "json"
    BY <1>1, HandlerOfVersion DEF Accepted, Detected
<1>3. i \in DOMAIN answers
    BY <1>1 DEF Formatted
<1>4. answers[i] \in Answer
    <2>1. answers \in Seq(Answer)
        BY <1>1 DEF TypeOK
    <2>2. DOMAIN answers = 1 .. Len(answers)
        BY <2>1
    <2> QED BY <1>3, <2>1, <2>2, ElementOfSeq
<1>5. answers[i].fp = request[i].fp
    BY <1>1, <1>3 DEF FromRows
<1> DEFINE status == GetUpdateStatus(answers[i])
           writtenVersion == IF answers[i].status = "" THEN answers[i].version ELSE EmptyVersion
           packages == Packages(ResponseHandler, body.syntax, answers[i])
<1>6. response.apps[i] = [id |-> answers[i].id, status |-> status,
                          version |-> writtenVersion, packages |-> packages]
    BY <1>1, <1>3 DEF Formatted
<1>7. status = "ok" <=> answers[i].status = ""
    <2>1. answers[i].status # "ok"
        BY <1>4 DEF Answer, Statuses
    <2> QED BY <2>1 DEF GetUpdateStatus
<1>8. answers[i].status = "" => writtenVersion = answers[i].version
    OBVIOUS
<1> HIDE DEF status, writtenVersion
<1>9. response.apps[i].packages = packages
    <2> HIDE DEF packages
    <2> QED BY <1>6
<1>10. response.apps[i].status = status /\ response.apps[i].version = writtenVersion
    <2> HIDE DEF packages
    <2> QED BY <1>6
<1> QED BY <1>1, <1>2, <1>3, <1>4, <1>5, <1>7, <1>8, <1>9, <1>10

\* Packages, one after the other.
LEMMA JoinedPackages ==
    ASSUME NEW S, NEW x \in S, NEW y \in S
    PROVE  <<x>> \o <<y>> = <<x, y>> /\ <<x>> \o <<>> = <<x>> /\ <<>> \o <<x>> = <<x>>
<1> DEFINE joined == <<x>> \o <<y>>
           pair == <<x, y>>
<1>1. <<x>> \in Seq(S) /\ <<y>> \in Seq(S)
    OBVIOUS
<1>2. joined \in Seq(S) /\ Len(joined) = 2 /\ joined[1] = x /\ joined[2] = y
    BY <1>1
<1>3. pair \in Seq(S) /\ Len(pair) = 2 /\ pair[1] = x /\ pair[2] = y
    OBVIOUS
<1> HIDE DEF joined, pair
<1>4. \A i \in 1 .. Len(joined) : joined[i] = pair[i]
    BY <1>2, <1>3
<1>5. joined = pair
    BY <1>2, <1>3, <1>4, SeqEqual
<1> QED BY <1>1, <1>5, ConcatEmptySeq DEF joined, pair

\* The packages of an update, one or two of them.
LEMMA PackagesOfUpdate ==
    ASSUME NEW handler \in {"v3", "v4"}, NEW format \in {"json", "xml"},
           NEW answer, answer.fp \in FP, answer.status = "", handler = "v4" => format = "json"
    PROVE  /\ format = "xml" \/ PatchFor(answer) = "none" =>
                Packages(handler, format, answer) = <<NoFP>>
           /\ format = "json" /\ PatchFor(answer) # "none" =>
                Packages(handler, format, answer) =
                    IF handler = "v4" THEN <<answer.fp, NoFP>> ELSE <<NoFP, answer.fp>>
<1>1. NoFP \in FP
    BY DEF FP
<1>2. /\ <<>> \o <<NoFP>> = <<NoFP>> /\ <<NoFP>> \o <<>> = <<NoFP>>
      /\ <<answer.fp>> \o <<NoFP>> = <<answer.fp, NoFP>>
      /\ <<NoFP>> \o <<answer.fp>> = <<NoFP, answer.fp>>
    BY <1>1, JoinedPackages
<1> QED BY <1>2 DEF Packages, Diff

(***************************************************************************)
(* For any rows and patches, stored at any moment: version and packages of *)
(* an update are of one row.                                               *)
(***************************************************************************)
THEOREM UpdatesFromOneRow == Spec => []UpdateFromOneRow
<1>1. ASSUME OmahaInv, Answered, NEW i \in DOMAIN response.apps,
             response.apps[i].status = "ok"
      PROVE  \E s \in Stock :
                /\ response.apps[i].version = s.row.version
                /\ {response.apps[i].packages[k] : k \in DOMAIN response.apps[i].packages} =
                      {NoFP} \cup {f \in {request[i].fp} \cap Fingerprint :
                                      body.syntax = "json" /\ s.patches[f] # "none"}
    <2> DEFINE fp == answers[i].fp
               packages == response.apps[i].packages
    <2>1. PICK s \in Stock : /\ answers[i].version = s.row.version
                             /\ answers[i].patches = s.patches
        BY <1>1, WrittenAnswer DEF FromRows, OfARow
    <2>2. fp \in FP /\ fp = request[i].fp
        BY <1>1, WrittenAnswer DEF Answer
    <2>3. PatchFor(answers[i]) = IF fp = NoFP THEN "none" ELSE s.patches[fp]
        BY <2>1 DEF PatchFor
    <2>4. response.apps[i].version = s.row.version
        BY <1>1, <2>1, WrittenAnswer
    <2>5. /\ ResponseHandler \in {"v3", "v4"} /\ body.syntax \in {"json", "xml"}
          /\ ResponseHandler = "v4" => body.syntax = "json"
          /\ answers[i].status = "" /\ answers[i].fp \in FP
          /\ packages = Packages(ResponseHandler, body.syntax, answers[i])
        <3>1. /\ ResponseHandler = IF version = "4.0" THEN "v4" ELSE "v3"
              /\ body.syntax \in {"json", "xml"}
              /\ version = "4.0" => body.syntax = "json"
            BY <1>1, WrittenAnswer
        <3>2. answers[i].status = "" /\ packages = Packages(ResponseHandler, body.syntax, answers[i])
            BY <1>1, WrittenAnswer
        <3> QED BY <2>2, <3>1, <3>2
    <2> HIDE DEF packages
    <2>6. CASE body.syntax = "xml" \/ PatchFor(answers[i]) = "none"
        <3>1. packages = <<NoFP>>
            BY <2>5, <2>6, PackagesOfUpdate
        <3>2. {packages[k] : k \in DOMAIN packages} = {NoFP}
            BY <3>1
        <3>3. {f \in {fp} \cap Fingerprint : body.syntax = "json" /\ s.patches[f] # "none"} = {}
            BY <2>3, <2>6, OmahaAssumption
        <3> QED BY <2>2, <2>4, <3>2, <3>3 DEF packages
    <2>7. CASE body.syntax = "json" /\ PatchFor(answers[i]) # "none"
        <3>1. packages \in {<<NoFP, fp>>, <<fp, NoFP>>}
            BY <2>5, <2>7, PackagesOfUpdate
        <3>2. {packages[k] : k \in DOMAIN packages} = {NoFP, fp}
            BY <3>1
        <3>3. {f \in {fp} \cap Fingerprint : body.syntax = "json" /\ s.patches[f] # "none"} = {fp}
            BY <2>2, <2>3, <2>7 DEF FP
        <3> QED BY <2>2, <2>4, <3>2, <3>3 DEF packages
    <2> QED BY <2>5, <2>6, <2>7
<1>2. OmahaInv => UpdateFromOneRow
    BY <1>1 DEF UpdateFromOneRow
<1> QED BY <1>2, OmahaInductive, PTL

\* The fingerprint in a request is one its body has for that app.
LEMMA FingerprintOfClient ==
    ASSUME OmahaInv, Accepted, NEW i \in DOMAIN request
    PROVE  request[i].fp \in {body.apps[i].fp, body.apps[i].package, body.apps[i].cached}
<1>1. i \in DOMAIN body.apps
    BY UpdateRequestType DEF OmahaInv, Accepted
<1>2. request[i].fp = FingerprintOf(body.apps[i], version, body)
    BY <1>1 DEF Accepted, UpdateRequest
<1> QED BY <1>2 DEF FingerprintOf, Accepted, Detected

(***************************************************************************)
(* For any bodies, rows and patches: a diff starts from a package that the *)
(* client named for that app, and in version 4 the full package is last.   *)
(***************************************************************************)
THEOREM DiffsAreForTheClient == Spec => []DiffsForTheClient
<1>1. ASSUME OmahaInv, Answered, NEW i \in DOMAIN response.apps
      PROVE  LET packages == response.apps[i].packages
                 sent     == body.apps[i]
             IN  /\ \A k \in DOMAIN packages :
                       packages[k] \in {NoFP, sent.fp, sent.package, sent.cached}
                 /\ response.protocol = "4.0" /\ packages # <<>> =>
                       packages[Len(packages)] = NoFP
    <2> DEFINE fp == answers[i].fp
               packages == response.apps[i].packages
               sent == body.apps[i]
    <2>1. fp \in {sent.fp, sent.package, sent.cached}
        <3>1. i \in DOMAIN request /\ fp = request[i].fp /\ Accepted
            BY <1>1, WrittenAnswer DEF FromRows
        <3> QED BY <1>1, <3>1, FingerprintOfClient
    <2>2. /\ ResponseHandler = IF version = "4.0" THEN "v4" ELSE "v3"
          /\ ResponseHandler \in {"v3", "v4"} /\ body.syntax \in {"json", "xml"}
          /\ ResponseHandler = "v4" => body.syntax = "json"
        <3>1. /\ ResponseHandler = IF version = "4.0" THEN "v4" ELSE "v3"
              /\ body.syntax \in {"json", "xml"}
              /\ version = "4.0" => body.syntax = "json"
            BY <1>1, WrittenAnswer
        <3> QED BY <3>1
    <2>3. packages = Packages(ResponseHandler, body.syntax, answers[i])
        BY <1>1, WrittenAnswer
    <2>4. fp \in FP
        BY <1>1, WrittenAnswer DEF Answer
    <2>5. response.protocol = "4.0" => ResponseHandler = "v4"
        BY <1>1, <2>2 DEF OmahaInv, HandlerInv, RespondedAs, Answered
    <2> HIDE DEF packages
    <2>6. CASE answers[i].status # ""
        <3>1. packages = <<>>
            BY <2>3, <2>6 DEF Packages
        <3> QED BY <3>1 DEF packages
    <2>7. CASE answers[i].status = ""
        <3>1. \/ packages = <<NoFP>>
              \/ packages = <<fp, NoFP>>
              \/ packages = <<NoFP, fp>> /\ ResponseHandler # "v4"
            BY <2>2, <2>3, <2>4, <2>7, PackagesOfUpdate
        <3>2. \A k \in DOMAIN packages : packages[k] \in {NoFP, fp}
            BY <3>1
        <3>3. ResponseHandler = "v4" => packages[Len(packages)] = NoFP
            BY <3>1
        <3> QED BY <2>1, <2>5, <3>2, <3>3 DEF packages
    <2> QED BY <2>6, <2>7
<1>2. OmahaInv => DiffsForTheClient
    BY <1>1 DEF DiffsForTheClient
<1> QED BY <1>2, OmahaInductive, PTL

(***************************************************************************)
(* For any rows and patches: a request fails only on the row of an update  *)
(* it gets, for its hash or for the patch from a package the client named. *)
(***************************************************************************)
THEOREM FailuresAreTheirOwn == Spec => []FailsOnlyForItsOwn
<1>1. ASSUME OmahaInv, pc = "done", response.code \in {0, 500}
      PROVE  /\ body.syntax = "json"
             /\ \E i \in DOMAIN answers :
                   /\ answers[i].status = ""
                   /\ \/ body.protocol = "4.0" /\ ~answers[i].hashed
                      \/ \E f \in Fingerprint \cap {body.apps[i].fp, body.apps[i].package,
                                                    body.apps[i].cached} :
                            answers[i].patches[f] \in {"hashless", "nil"}
    <2>1. /\ Accepted /\ FromRows /\ TypeOK
          /\ \E i \in DOMAIN answers : Fault(ResponseHandler, body.syntax, answers[i]) # "none"
        BY <1>1 DEF OmahaInv, HandlerInv, RespondedAs
    <2>2. PICK i \in DOMAIN answers : Fault(ResponseHandler, body.syntax, answers[i]) # "none"
        BY <2>1
    <2>3. /\ ResponseHandler = "v4" => body.protocol = "4.0" /\ body.syntax = "json"
          /\ body.syntax \in {"json", "xml"}
        BY <2>1, HandlerOfVersion DEF Accepted, Detected
    <2>4. answers[i].status = ""
        BY <2>2 DEF Fault
    <2>5. body.syntax = "json"
        BY <2>2, <2>3 DEF Fault
    <2>6. \/ body.protocol = "4.0" /\ ~answers[i].hashed
          \/ PatchFor(answers[i]) \in {"hashless", "nil"}
        BY <2>2, <2>3 DEF Fault
    <2>7. CASE PatchFor(answers[i]) \in {"hashless", "nil"}
        <3>1. answers[i].fp # NoFP /\ answers[i].patches[answers[i].fp] \in {"hashless", "nil"}
            BY <2>7 DEF PatchFor
        <3>2. answers[i].fp \in {body.apps[i].fp, body.apps[i].package, body.apps[i].cached}
            BY <1>1, <2>1, FingerprintOfClient DEF FromRows
        <3>3. answers[i] \in Answer
            <4>1. answers \in Seq(Answer)
                BY <2>1 DEF TypeOK
            <4>2. DOMAIN answers = 1 .. Len(answers)
                BY <4>1
            <4> QED BY <4>1, <4>2, ElementOfSeq
        <3>4. answers[i].fp \in Fingerprint
            BY <3>1, <3>3 DEF Answer, FP
        <3> QED BY <2>4, <2>5, <3>1, <3>2, <3>4
    <2> QED BY <2>4, <2>5, <2>6, <2>7
<1>2. OmahaInv => FailsOnlyForItsOwn
    BY <1>1 DEF FailsOnlyForItsOwn
<1> QED BY <1>2, OmahaInductive, PTL

(***************************************************************************)
(* For any limit and any lengths: nothing is done for a part of a body.    *)
(***************************************************************************)
THEOREM PartsAreRefused == Spec => []OnlyWholeBodies
<1>1. OmahaInv => OnlyWholeBodies
    BY DEF OmahaInv, HandlerInv, RespondedAs, OnlyWholeBodies, Accepted, Detected, Whole
<1> QED BY <1>1, OmahaInductive, PTL

-----------------------------------------------------------------------------
(* The list of a GET: each entry is newer than an x that named it, or that *)
(* named no version a catalog can have.                                    *)

ListedFor(entry, x) ==
    /\ CompareVersions(x.version, entry.version) < 0
    /\ entry.id = x.id \/ (entry.id = NoID /\ Atoi(x.version[1]) < 0)

ListInv ==
    /\ pc = "idle" => answers = <<>>
    /\ pc = "store" => \A k \in DOMAIN answers :
          \E i \in DOMAIN query.xs : ListedFor(answers[k], query.xs[i])
    /\ pc = "listed" /\ response.code = 200 => \A k \in DOMAIN response.apps :
          \E i \in DOMAIN query.xs : ListedFor(response.apps[k], query.xs[i])

\* Only a negative number is older than the version of no extension.
LEMMA OlderThanNone ==
    ASSUME NEW v \in Version, CompareVersions(v, EmptyVersion) < 0
    PROVE  Atoi(v[1]) < 0
<1>1. Older(v, EmptyVersion)
    BY VersionAssumption, CompareIsOlder
<1>2. Len(EmptyVersion) = 1 /\ Atoi(EmptyVersion[1]) = 0
    BY DEF EmptyVersion, Atoi
<1>3. PICK i \in Common(v, EmptyVersion) : Atoi(v[i]) < Atoi(EmptyVersion[i])
    BY <1>1 DEF Older
<1>4. i = 1
    BY <1>2, <1>3, VersionParts DEF Common
<1> QED BY <1>2, <1>3, <1>4

LEMMA ListingFor ==
    ASSUME TypeOK, NEW x \in X, NEW k \in DOMAIN Listing(x)
    PROVE  ListedFor(Listing(x)[k], x)
<1> DEFINE app   == [id |-> x.id, version |-> x.version]
           found == Found(app.id, Rows)
           offer == [id      |-> IF app.id \in Known(Rows) THEN app.id ELSE NoID,
                     version |-> found.version,
                     hashed  |-> found.hashed,
                     status  |-> ""]
<1>1. app.id = x.id /\ app.version = x.version
    OBVIOUS
<1>2. CompareVersions(x.version, found.version) < 0 /\ Offer(app, Rows) = <<offer>>
    <2>1. k \in DOMAIN Offer(app, Rows)
        <3> HIDE DEF app
        <3>1. DOMAIN Listing(x) = DOMAIN Offer([id |-> x.id, version |-> x.version], Rows)
            BY DEF Listing
        <3> QED BY <3>1 DEF app
    <2>2. CASE CompareVersions(app.version, found.version) < 0
        <3>1. Offer(app, Rows) = <<offer>>
            BY <2>2 DEF Offer
        <3> QED BY <1>1, <2>2, <3>1
    <2>3. CASE ~(CompareVersions(app.version, found.version) < 0)
        <3>1. Offer(app, Rows) = <<>>
            BY <2>3 DEF Offer
        <3>2. DOMAIN Offer(app, Rows) = {}
            <4> DEFINE none == Offer(app, Rows)
            <4> HIDE DEF none
            <4>1. none = <<>> => DOMAIN none = {}
                OBVIOUS
            <4> QED BY <3>1, <4>1 DEF none
        <3> DEFINE indices == DOMAIN Offer(app, Rows)
        <3>3. k \in indices /\ indices = {}
            BY <2>1, <3>2
        <3> HIDE DEF indices
        <3> QED BY <3>3
    <2> QED BY <2>2, <2>3
<1>3. Listing(x)[k].id = offer.id /\ Listing(x)[k].version = offer.version
    <2> DEFINE offers == Offer(app, Rows)
               listed(i) == [id |-> offers[i].id, version |-> offers[i].version,
                             hashed |-> offers[i].hashed, status |-> "", fp |-> NoFP,
                             patches |-> NoPatches]
    <2>1. Listing(x) = [i \in DOMAIN offers |-> listed(i)]
        BY DEF Listing
    <2>2. offers = <<offer>>
        BY <1>2
    <2> HIDE DEF offers, offer
    <2>3. k = 1 /\ offers[k] = offer /\ k \in DOMAIN offers
        <3>1. k \in DOMAIN offers
            <4> HIDE DEF listed
            <4> QED BY <2>1
        <3>2. DOMAIN offers = {1} /\ offers[1] = offer
            BY <2>2
        <3> QED BY <3>1, <3>2
    <2>4. Listing(x)[k] = listed(k)
        BY <2>1, <2>3
    <2>5. listed(k).id = offers[k].id /\ listed(k).version = offers[k].version
        OBVIOUS
    <2> QED BY <2>3, <2>4, <2>5
<1>4. /\ offer.id = IF x.id \in Known(Rows) THEN x.id ELSE NoID
      /\ offer.version = found.version
    OBVIOUS
<1>5. CASE x.id \in Known(Rows)
    BY <1>2, <1>3, <1>4, <1>5 DEF ListedFor
<1>6. CASE x.id \notin Known(Rows)
    <2>1. found.version = EmptyVersion
        BY <1>6 DEF Found, ZeroExtension
    <2>2. Atoi(x.version[1]) < 0
        BY <1>2, <2>1, OlderThanNone DEF X
    <2> QED BY <1>2, <1>3, <1>4, <1>6, <2>2 DEF ListedFor
<1> QED BY <1>5, <1>6

LEMMA TakeXLists ==
    ASSUME OmahaInv, ListInv, TakeX
    PROVE  ListInv'
<1> DEFINE x == query.xs[at]
<1>1. /\ TypeOK /\ pc = "store" /\ UNCHANGED query /\ at <= Len(query.xs)
    BY DEF TakeX, Handling, OmahaInv
<1>2. x \in X /\ at \in DOMAIN query.xs
    BY <1>1, XOfTurn
<1>3. CASE pc' = "listed" /\ response'.code # 200
    BY <1>3 DEF ListInv
<1>4. CASE pc' = "store" /\ answers' = answers \o Listing(x)
    <2>1. Listing(x) \in Seq(Answer) /\ answers \in Seq(Answer)
        BY <1>1, <1>2, ListingType DEF TypeOK
    <2>2. ASSUME NEW k \in DOMAIN answers'
          PROVE  \E i \in DOMAIN query.xs : ListedFor(answers'[k], query.xs[i])
        <3>1. \/ k \in DOMAIN answers /\ answers'[k] = answers[k]
              \/ k - Len(answers) \in DOMAIN Listing(x)
                    /\ answers'[k] = Listing(x)[k - Len(answers)]
            <4> HIDE DEF x
            <4> QED BY <1>4, <2>1
        <3>2. CASE k \in DOMAIN answers /\ answers'[k] = answers[k]
            BY <1>1, <3>2 DEF ListInv
        <3>3. CASE k - Len(answers) \in DOMAIN Listing(x)
                     /\ answers'[k] = Listing(x)[k - Len(answers)]
            BY <1>1, <1>2, <3>3, ListingFor
        <3> QED BY <3>1, <3>2, <3>3
    <2> QED BY <1>1, <1>4, <2>2 DEF ListInv
<1>5. Without(400, "none", "none").code # 200 /\ Without(307, "extension", "crx").code # 200
    BY DEF Without
<1> QED BY <1>3, <1>4, <1>5 DEF TakeX, ReplyStore, Goto

LEMMA RespondStoreLists ==
    ASSUME ListInv, RespondStore
    PROVE  ListInv'
<1>1. /\ pc = "store" /\ pc' = "listed" /\ UNCHANGED query
      /\ response'.apps = WebStoreResponse
    BY DEF RespondStore, ReplyStore, Handling, requestVars, With
<1>2. ASSUME NEW k \in DOMAIN WebStoreResponse
      PROVE  \E i \in DOMAIN query.xs : ListedFor(WebStoreResponse[k], query.xs[i])
    <2>1. /\ k \in DOMAIN answers
          /\ WebStoreResponse[k].id = answers[k].id
          /\ WebStoreResponse[k].version = answers[k].version
        BY <1>2 DEF WebStoreResponse
    <2> QED BY <1>1, <2>1 DEF ListInv, ListedFor
<1> QED BY <1>1, <1>2 DEF ListInv

(***************************************************************************)
(* For any queries and rows: a GET lists what is newer than the client's,  *)
(* by its ID, but for an x with a negative version.                        *)
(***************************************************************************)
THEOREM ListsTheAsked == Spec => []StoreListsTheAsked
<1>1. Init => ListInv
    BY DEF Init, ListInv
<1>2. OmahaInv /\ ListInv /\ [Next]_vars => ListInv'
    <2> SUFFICES ASSUME OmahaInv, ListInv, [Next]_vars PROVE ListInv'
        OBVIOUS
    <2>1. CASE TakeX
        BY <2>1, TakeXLists
    <2>2. CASE RespondStore
        BY <2>2, RespondStoreLists
    <2>3. CASE ArriveStore
        BY <2>3 DEF ArriveStore, Handling, Goto, ListInv
    <2>4. CASE Finish
        BY <2>4 DEF Finish, ListInv
    <2>5. CASE Store
        BY <2>5 DEF Store, requestVars, ListInv
    <2>6. CASE Arrive \/ RefuseBody \/ Pingback \/ DetectVersion
        BY <2>6 DEF Arrive, RefuseBody, Pingback, DetectVersion, Goto, Reply, ReplyEmpty, ListInv
    <2>7. CASE ParseRequest \/ LookUp \/ Process \/ Respond
        <3>1. pc' \in {"lookup", "process", "format", "done"}
            BY <2>7 DEF ParseRequest, LookUp, Process, Respond, Goto, Reply, ReplyEmpty
        <3> QED BY <3>1 DEF ListInv
    <2>8. CASE UNCHANGED vars
        BY <2>8 DEF vars, requestVars, ListInv
    <2> QED BY <2>1, <2>2, <2>3, <2>4, <2>5, <2>6, <2>7, <2>8 DEF Next
<1>3. ListInv => StoreListsTheAsked
    <2> SUFFICES ASSUME ListInv, pc = "listed", response.code = 200,
                        NEW k \in DOMAIN response.apps
                 PROVE  \E i \in DOMAIN query.xs : ListedFor(response.apps[k], query.xs[i])
        BY DEF StoreListsTheAsked, ListedFor
    <2> QED BY DEF ListInv
<1> QED BY <1>1, <1>2, <1>3, OmahaInductive, PTL DEF Spec
=============================================================================
