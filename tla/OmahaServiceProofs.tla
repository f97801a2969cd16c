------------------------ MODULE OmahaServiceProofs ------------------------
(***************************************************************************)
(* Package omaha implements CatalogService: for any bodies, headers,       *)
(* queries, rows and patches, each step of a POST or a GET is one of the   *)
(* service, or none.                                                       *)
(***************************************************************************)
EXTENDS OmahaProofs

-----------------------------------------------------------------------------
(***************************************************************************)
(* The service has the operators of Extensions too, from its own instance. *)
(***************************************************************************)

LEMMA ServiceOperators ==
    /\ \A m : Service!Known(m) = Known(m)
    /\ \A id, m : Service!Found(id, m) = Found(id, m)
    /\ Service!EmptyCatalog = EmptyCatalog
    /\ Service!Extension = Extension
    /\ Service!NoReply = NoReply
<1>1. \A m : Service!Known(m) = Known(m)
    BY DEF Service!Known, Known
<1>2. \A id, m : Service!Found(id, m) = Found(id, m)
    BY <1>1 DEF Service!Found, Found, Service!ZeroExtension, ZeroExtension,
        Service!EmptyVersion, EmptyVersion
<1>3. Service!EmptyCatalog = EmptyCatalog
    BY DEF Service!EmptyCatalog, EmptyCatalog
<1>4. Service!Extension = Extension
    BY DEF Service!Extension, Extension
<1>5. Service!NoReply = NoReply
    BY DEF Service!NoReply, NoReply
<1> QED
    BY <1>1, <1>2, <1>3, <1>4, <1>5

LEMMA ServiceCardinality == \A set : Service!Cardinality(set) = Cardinality(set)
BY Zenon DEF Service!Cardinality, Cardinality

\* The service asks whether a version compares as -1, the code whether it is below 0.
LEMMA ServiceOutdated ==
    ASSUME NEW app, NEW m
    PROVE  /\ Service!Outdated(app, m) <=>
                  CompareVersions(app.version, Found(app.id, m).version) < 0
           /\ ~ Service!Outdated(app, m) <=>
                  CompareVersions(app.version, Found(app.id, m).version) >= 0
<1>1. \A v1, v2 : CompareVersions(v1, v2) \in {-1, 0, 1}
    BY Zenon DEF CompareVersions
<1>2. \A v1, v2 : Service!CompareVersions(v1, v2) = CompareVersions(v1, v2)
    BY Zenon DEF Service!CompareVersions, CompareVersions, Service!Atoi, Atoi
<1>3. CompareVersions(app.version, Found(app.id, m).version) \in {-1, 0, 1}
    BY <1>1
<1> QED
    BY <1>2, <1>3, ServiceOperators DEF Service!Outdated

\* The apps of a request are those of the body or the query, without the rest.
LEMMA AsAppsOf ==
    ASSUME NEW S, NEW apps \in Seq(S)
    PROVE  /\ Len(AsApps(apps)) = Len(apps)
           /\ DOMAIN AsApps(apps) = DOMAIN apps
           /\ \A i \in DOMAIN apps :
                 AsApps(apps)[i] = [id |-> apps[i].id, version |-> apps[i].version]
<1> DEFINE app(x) == [id |-> x.id, version |-> x.version]
           T == {app(x) : x \in S}
           n == Len(apps)
<1>1. n \in Nat /\ DOMAIN apps = 1 .. n /\ \A i \in 1 .. n : apps[i] \in S
    BY LenProperties, ElementOfSeq
<1>2. AsApps(apps) = [i \in 1 .. n |-> app(apps[i])]
    BY <1>1 DEF AsApps
<1> HIDE DEF n, app
<1>3. AsApps(apps) \in [1 .. n -> T]
    BY <1>1, <1>2
<1>4. AsApps(apps) \in Seq(T)
    BY <1>1, <1>3, SeqDef
<1>5. DOMAIN AsApps(apps) = 1 .. n /\ DOMAIN AsApps(apps) = 1 .. Len(AsApps(apps))
      /\ Len(AsApps(apps)) \in Nat
    BY <1>3, <1>4, LenProperties
<1>6. Len(AsApps(apps)) = n
    BY <1>1, <1>5
<1> QED
    BY <1>1, <1>2, <1>5, <1>6 DEF n, app

-----------------------------------------------------------------------------
(***************************************************************************)
(* What is settled of a request where the handler is: a POST is neither    *)
(* refused nor a pingback once its version is detected, and is not for a   *)
(* single unknown extension once it is to be processed; a GET has named    *)
(* all it has passed, and lists what is newer of it, in its order.         *)
(***************************************************************************)

PostInv ==
    /\ pc \in {"parse", "lookup", "process", "format"} =>
          ~Refused(body) /\ ~IsPingbackRequest(body, contentType)
    /\ pc \in {"lookup", "process", "format"} =>
          Parses(CreateProtocol(version), body, contentType)
    /\ pc = "process" => ~(Len(request) = 1 /\ request[1].id \notin Known(Rows))

OlderX(i) ==
    CompareVersions(query.xs[i].version, Found(query.xs[i].id, Rows).version) < 0

NewerThanX == {i \in 1 .. at - 1 : OlderX(i)}

EntryFor(entry, x) ==
    /\ entry.version = Found(x.id, Rows).version
    /\ x.id \in Known(Rows) => entry.id = x.id

Listed ==
    /\ Len(answers) = Cardinality(NewerThanX)
    /\ \A i \in NewerThanX : EntryFor(answers[Rank(NewerThanX, i)], query.xs[i])

Passed ==
    /\ at <= Len(query.xs) + 1
    /\ \A i \in 1 .. at - 1 : ~query.xs[i].broken /\ query.xs[i].id # NoID
    /\ Len(query.xs) = 1 /\ at > 1 => query.xs[1].id \in Known(Rows)

GetInv ==
    /\ pc = "idle" => answers = <<>> /\ at = 1
    /\ pc = "store" => Passed /\ Listed

RequestInv == PostInv /\ GetInv

\* A store leaves what is known known.
LEMMA StoreKnows ==
    ASSUME TypeOK, Store
    PROVE  /\ \E id \in ID, s \in Stock : Rows' = [Rows EXCEPT ![id] = s.row]
           /\ Known(Rows) \subseteq Known(Rows')
           /\ UNCHANGED <<pc, contentType, body, query, at, version, request, answers, response>>
<1>1. PICK id \in ID, s \in Stock : stock' = [stock EXCEPT ![id] = s]
    BY DEF Store
<1>2. s # Absent /\ s.row \in Extension /\ s.row # Absent
    BY OmahaAssumption, AbsentAssumption
<1>3. Rows' = [Rows EXCEPT ![id] = s.row]
    BY <1>1, <1>2 DEF Rows, TypeOK
<1>4. Known(Rows) \subseteq Known(Rows')
    BY <1>2, <1>3 DEF Known, Rows
<1> QED
    BY <1>3, <1>4 DEF Store, requestVars

LEMMA PostKeeps ==
    ASSUME OmahaInv, PostInv, [Next]_vars
    PROVE  PostInv'
<1>1. CASE Store
    BY <1>1, StoreKnows DEF PostInv, OmahaInv
<1>2. CASE DetectVersion
    <2>1. UNCHANGED <<body, contentType>> /\ pc' \in {"parse", "done"}
          /\ ~Refused(body) /\ ~IsPingbackRequest(body, contentType)
        BY <1>2 DEF DetectVersion, requestVars, Goto, ReplyEmpty, Reply
    <2> QED
        BY <2>1 DEF PostInv
<1>3. CASE ParseRequest
    <2>1. /\ UNCHANGED <<body, contentType, version>> /\ pc = "parse"
          /\ \/ pc' = "done"
             \/ pc' = "lookup" /\ Parses(CreateProtocol(version), body, contentType)
        BY <1>3 DEF ParseRequest, Handling, requestVars, Goto, ReplyEmpty, Reply
    <2> QED
        BY <2>1 DEF PostInv
<1>4. CASE LookUp
    <2>1. /\ UNCHANGED <<body, contentType, version, request, stock>> /\ pc = "lookup"
          /\ \/ pc' = "done"
             \/ pc' = "process" /\ ~(Len(request) = 1 /\ request[1].id \notin Known(Rows))
        BY <1>4 DEF LookUp, Handling, requestVars, Goto, Reply
    <2>2. Rows' = Rows
        BY <2>1 DEF Rows
    <2> QED
        BY <2>1, <2>2 DEF PostInv
<1>5. CASE Process
    BY <1>5 DEF Process, Handling, requestVars, Goto, PostInv
<1>6. CASE Arrive \/ ArriveStore \/ RefuseBody \/ Pingback \/ Respond \/ TakeX \/ RespondStore
           \/ Finish
    <2>1. pc' \in {"read", "store", "done", "listed", "idle"}
        BY <1>6 DEF Arrive, ArriveStore, RefuseBody, Pingback, Respond, TakeX, RespondStore,
            Finish, Goto, ReplyEmpty, Reply, ReplyStore
    <2> QED
        BY <2>1 DEF PostInv
<1>7. CASE UNCHANGED vars
    BY <1>7 DEF vars, requestVars, PostInv, Rows
<1> QED
    BY <1>1, <1>2, <1>3, <1>4, <1>5, <1>6, <1>7 DEF Next
\* What a turn lists: one entry for an x that is older, none for another.
LEMMA ListingOne ==
    ASSUME TypeOK, NEW x \in X
    PROVE  LET old == CompareVersions(x.version, Found(x.id, Rows).version) < 0
           IN  /\ ~old => Listing(x) = <<>>
               /\ old => Len(Listing(x)) = 1 /\ EntryFor(Listing(x)[1], x)
<1> DEFINE app    == [id |-> x.id, version |-> x.version]
           found  == Found(x.id, Rows)
           offer  == [id      |-> IF x.id \in Known(Rows) THEN x.id ELSE NoID,
                      version |-> found.version,
                      hashed  |-> found.hashed,
                      status  |-> ""]
           offers == Offer(app, Rows)
           listed(i) == [id |-> offers[i].id, version |-> offers[i].version,
                         hashed |-> offers[i].hashed, status |-> "", fp |-> NoFP,
                         patches |-> NoPatches]
<1>1. offers = IF CompareVersions(x.version, found.version) < 0 THEN <<offer>> ELSE <<>>
    BY DEF Offer
<1>2. Listing(x) = [i \in DOMAIN offers |-> listed(i)]
    BY DEF Listing
<1>3. Listing(x) \in Seq(Answer)
    BY ListingType
<1> HIDE DEF offers
<1>4. CASE ~(CompareVersions(x.version, found.version) < 0)
    <2>1. DOMAIN offers = {}
        BY <1>1, <1>4
    <2>2. DOMAIN Listing(x) = {}
        <3> HIDE DEF listed
        <3> QED BY <1>2, <2>1
    <2>3. Listing(x) = <<>>
        BY <1>3, <2>2
    <2> QED BY <1>4, <2>3
<1>5. CASE CompareVersions(x.version, found.version) < 0
    <2>1. offers = <<offer>>
        BY <1>1, <1>5
    <2>2. DOMAIN offers = {1} /\ offers[1] = offer
        <3> HIDE DEF offer
        <3>1. DOMAIN <<offer>> = {1} /\ <<offer>>[1] = offer
            OBVIOUS
        <3> QED BY <2>1, <3>1
    <2> DEFINE first == listed(1)
    <2>3. Listing(x) = [i \in {1} |-> listed(i)]
        <3> HIDE DEF listed
        <3> QED BY <1>2, <2>2
    <2>4. DOMAIN Listing(x) = {1} /\ Listing(x)[1] = first
        <3> HIDE DEF listed
        <3> QED BY <2>3
    <2>5. Len(Listing(x)) = 1
        <3>1. DOMAIN Listing(x) = 1 .. Len(Listing(x)) /\ Len(Listing(x)) \in Nat
            BY <1>3, LenProperties
        <3> DEFINE n == Len(Listing(x))
        <3>2. 1 .. n = {1} /\ n \in Nat
            BY <2>4, <3>1
        <3> HIDE DEF n
        <3>3. 1 \in 1 .. n
            BY <3>2
        <3>4. n \in 1 .. n
            BY <3>2, <3>3
        <3>5. n = 1
            BY <3>2, <3>4
        <3> QED BY <3>5 DEF n
    <2>6. first.id = offer.id /\ first.version = offer.version
        <3>1. first.id = offers[1].id /\ first.version = offers[1].version
            OBVIOUS
        <3> QED BY <2>2, <3>1
    <2> HIDE DEF first
    <2>7. EntryFor(Listing(x)[1], x)
        BY <2>4, <2>6 DEF EntryFor
    <2> QED BY <1>5, <2>5, <2>7
<1> QED BY <1>4, <1>5

LEMMA NewerThanXType ==
    ASSUME TypeOK
    PROVE  /\ IsFiniteSet(NewerThanX) /\ NewerThanX \subseteq Nat
           /\ \A i \in NewerThanX : i < at
<1>1. at \in Nat \ {0}
    BY DEF TypeOK
<1>2. NewerThanX \in SUBSET (1 .. at - 1)
    BY DEF NewerThanX
<1>3. IsFiniteSet(1 .. at - 1)
    BY <1>1, FS_Interval
<1>4. IsFiniteSet(NewerThanX)
    BY <1>2, <1>3, FS_Subset
<1> QED
    BY <1>1, <1>2, <1>4

\* A turn of the loop: its x is up to date, or its entry comes last.
LEMMA ListedTurn ==
    ASSUME TypeOK, at <= Len(query.xs), Listed,
           answers' = answers \o Listing(query.xs[at]), at' = at + 1, UNCHANGED <<stock, query>>
    PROVE  Listed'
<1> DEFINE x == query.xs[at]
           more == Listing(x)
           new == NewerThanX
<1>1. /\ x \in X /\ at \in Nat \ {0} /\ answers \in Seq(Answer) /\ more \in Seq(Answer)
    BY XOfTurn, ListingType DEF TypeOK
<1>2. Rows' = Rows
    BY DEF Rows
<1>3. \A i : OlderX(i)' = OlderX(i)
    BY <1>2 DEF OlderX
<1>4. NewerThanX' = IF OlderX(at) THEN new \cup {at} ELSE new
    BY <1>1, <1>3 DEF NewerThanX
<1>5. \A entry, i : EntryFor(entry, query.xs[i])' = EntryFor(entry', query.xs[i])
    BY <1>2 DEF EntryFor
<1>6. /\ IsFiniteSet(new) /\ new \subseteq Nat
      /\ \A i \in new : i < at
      /\ Len(answers) = Cardinality(new) /\ Cardinality(new) \in Nat
    BY NewerThanXType, FS_CardinalityType DEF Listed
<1>7. CASE ~OlderX(at)
    <2>1. more = <<>>
        BY <1>1, <1>7, ListingOne DEF OlderX
    <2>2. answers' = answers
        BY <1>1, <2>1
    <2> QED
        BY <1>2, <1>4, <1>7, <2>2 DEF Listed, EntryFor
<1>8. CASE OlderX(at)
    <2>1. Len(more) = 1 /\ EntryFor(more[1], x)
        BY <1>1, <1>8, ListingOne DEF OlderX
    <2> HIDE DEF more, new, x
    <2>2. /\ Cardinality(new \cup {at}) = Cardinality(new) + 1
          /\ Rank(new \cup {at}, at) = Cardinality(new) + 1
          /\ \A i \in new : Rank(new \cup {at}, i) = Rank(new, i)
        BY <1>1, <1>6, RankOfNext
    <2>3. /\ Len(answers') = Len(answers) + 1
          /\ answers'[Len(answers) + 1] = more[1]
          /\ \A k \in 1 .. Len(answers) : answers'[k] = answers[k]
        <3>1. answers' = answers \o more /\ Len(answers) \in Nat
            BY <1>6 DEF more, x
        <3>2. /\ Len(answers \o more) = Len(answers) + Len(more)
              /\ \A k \in 1 .. Len(answers) + Len(more) :
                    (answers \o more)[k] = IF k <= Len(answers) THEN answers[k]
                                           ELSE more[k - Len(answers)]
            BY <1>1, ConcatProperties
        <3> QED
            BY <2>1, <3>1, <3>2
    <2>4. NewerThanX' = new \cup {at}
        BY <1>4, <1>8
    <2>5. ASSUME NEW i \in new \cup {at}
          PROVE  EntryFor(answers'[Rank(new \cup {at}, i)], query.xs[i])
        <3>1. CASE i = at
            BY <1>6, <2>1, <2>2, <2>3, <3>1 DEF x
        <3>2. CASE i \in new
            <4>1. Rank(new, i) \in 1 .. Len(answers)
                BY <1>6, <3>2, RankInside
            <4>2. answers'[Rank(new \cup {at}, i)] = answers[Rank(new, i)]
                BY <2>2, <2>3, <3>2, <4>1
            <4> QED
                BY <3>2, <4>2 DEF Listed, new
        <3> QED
            BY <3>1, <3>2
    <2> QED
        BY <1>2, <1>6, <2>2, <2>3, <2>4, <2>5 DEF Listed, EntryFor
<1> QED
    BY <1>7, <1>8

LEMMA QueryType ==
    ASSUME TypeOK
    PROVE  query.xs \in Seq(X) /\ Len(query.xs) \in Nat
<1>1. NoQuery \in Queries
    BY DEF NoQuery, Queries
<1>2. query.xs \in Seq(X)
    BY <1>1, OmahaAssumption DEF TypeOK, Queries
<1> QED
    BY <1>2

LEMMA GetKeeps ==
    ASSUME OmahaInv, GetInv, [Next]_vars
    PROVE  GetInv'
<1>1. CASE Store
    BY <1>1 DEF Store, requestVars, GetInv
<1>2. CASE ArriveStore
    <2>1. pc' = "store" /\ at' = 1 /\ answers' = <<>>
        BY <1>2 DEF ArriveStore, Handling, Goto, GetInv
    <2>2. NewerThanX' = {} /\ Cardinality({}) = 0 /\ Len(<<>>) = 0
        BY <2>1, FS_EmptySet DEF NewerThanX
    <2>3. query'.xs \in Seq(X)
        BY <1>2, OmahaAssumption DEF ArriveStore, Queries
    <2>4. Len(query'.xs) \in Nat
        BY <2>3
    <2>5. Listed'
        BY <2>1, <2>2 DEF Listed
    <2>6. Passed'
        BY <2>1, <2>4 DEF Passed
    <2> QED
        BY <2>1, <2>5, <2>6 DEF GetInv
<1>3. CASE TakeX
    <2> DEFINE x == query.xs[at]
    <2>1. /\ pc = "store" /\ at <= Len(query.xs) /\ UNCHANGED <<stock, query>> /\ TypeOK
          /\ Passed /\ Listed /\ Len(query.xs) \in Nat /\ at \in Nat \ {0}
        BY <1>3, QueryType DEF TakeX, Handling, OmahaInv, TypeOK, GetInv
    <2>2. CASE pc' = "listed"
        BY <2>2 DEF GetInv
    <2>3. CASE /\ pc' = "store" /\ at' = at + 1 /\ answers' = answers \o Listing(query.xs[at])
               /\ ~(x.broken \/ x.id = NoID) /\ ~Redirects(x)
        <3>1. Listed'
            BY <2>1, <2>3, ListedTurn
        <3>2. Rows' = Rows
            BY <2>1 DEF Rows
        <3>3. \A i \in 1 .. at' - 1 : i \in 1 .. at - 1 \/ i = at
            BY <2>1, <2>3
        <3>4. Len(query.xs) = 1 => at = 1
            BY <2>1
        <3>5. Passed'
            BY <2>1, <2>3, <3>2, <3>3, <3>4 DEF Passed, Redirects
        <3> QED
            BY <2>3, <3>1, <3>5 DEF GetInv
    <2> QED
        BY <1>3, <2>2, <2>3 DEF TakeX, ReplyStore, Goto
<1>4. CASE Finish
    BY <1>4 DEF Finish, GetInv
<1>5. CASE RespondStore \/ Arrive \/ RefuseBody \/ Pingback \/ DetectVersion \/ ParseRequest
           \/ LookUp \/ Process \/ Respond
    <2>1. pc' \in {"listed", "read", "done", "parse", "lookup", "process", "format"}
        BY <1>5 DEF RespondStore, Arrive, RefuseBody, Pingback, DetectVersion, ParseRequest,
            LookUp, Process, Respond, Goto, ReplyEmpty, Reply, ReplyStore
    <2> QED
        BY <2>1 DEF GetInv
<1>6. CASE UNCHANGED vars
    <2>1. Rows' = Rows /\ UNCHANGED <<pc, query, at, answers>>
        BY <1>6 DEF vars, requestVars, Rows
    <2> QED
        BY <2>1 DEF GetInv, Passed, Listed, NewerThanX, OlderX, EntryFor
<1> QED
    BY <1>1, <1>2, <1>3, <1>4, <1>5, <1>6 DEF Next
-----------------------------------------------------------------------------
(***************************************************************************)
(* What a decision made of the rows of one moment is worth.                *)
(***************************************************************************)

\* The service's view of a POST, once its version is detected.
LEMMA KindOfPost ==
    ASSUME Detected, ~Refused(body), ~IsPingbackRequest(body, contentType)
    PROVE  LET handler == CreateProtocol(version)
           IN  /\ handler = IF version = "4.0" THEN "v4" ELSE "v3"
               /\ AsPost(body, contentType).kind =
                     IF Parses(handler, body, contentType) THEN handler ELSE "rejected"
               /\ AsPost(body, contentType).apps = AsApps(body.apps)
<1>1. DetectProtocolVersion(body, contentType) = version
    BY DEF Detected, DetectProtocolVersion, IsJSONContentType
<1>2. CreateProtocol(version) = IF version = "4.0" THEN "v4" ELSE "v3"
    BY DEF Detected, CreateProtocol
<1>3. Kind(body, contentType) = IF Parses(CreateProtocol(version), body, contentType)
                                THEN CreateProtocol(version) ELSE "rejected"
    BY <1>1, <1>2 DEF Kind
<1>4. /\ AsPost(body, contentType).kind = Kind(body, contentType)
      /\ AsPost(body, contentType).apps = AsApps(body.apps)
    BY DEF AsPost
<1> QED
    BY <1>2, <1>3, <1>4

LEMMA SameLength ==
    ASSUME NEW a \in Nat, NEW b \in Nat, 1 .. a = 1 .. b
    PROVE  a = b
<1>1. \A i \in Nat : i \in 1 .. a <=> i \in 1 .. b
    OBVIOUS
<1>2. (a # 0 => a \in 1 .. b) /\ (b # 0 => b \in 1 .. a)
    BY <1>1
<1> QED
    BY <1>2

\* The apps of the service's request are those of the handler's.
LEMMA SameApps ==
    ASSUME TypeOK, Accepted
    PROVE  LET apps == AsApps(body.apps)
           IN  /\ DOMAIN apps = DOMAIN request
               /\ Len(apps) = Len(request)
               /\ \A i \in DOMAIN request :
                     /\ apps[i] = [id |-> request[i].id, version |-> request[i].version]
                     /\ apps[i] \in App
<1>1. /\ body.apps \in Seq(ClientApp) /\ request = UpdateRequest(body, version)
      /\ request \in Seq(RequestApp) /\ DOMAIN request = DOMAIN body.apps
    BY BodyType, UpdateRequestType DEF Accepted
<1>2. /\ Len(AsApps(body.apps)) = Len(body.apps)
      /\ DOMAIN AsApps(body.apps) = DOMAIN body.apps
      /\ \A i \in DOMAIN body.apps :
            AsApps(body.apps)[i] = [id |-> body.apps[i].id, version |-> body.apps[i].version]
    BY <1>1, AsAppsOf
<1>3. Len(request) = Len(body.apps)
    <2>1. /\ DOMAIN request = 1 .. Len(request) /\ Len(request) \in Nat
          /\ DOMAIN body.apps = 1 .. Len(body.apps) /\ Len(body.apps) \in Nat
        BY <1>1, LenProperties
    <2> QED
        BY <1>1, <2>1, SameLength
<1>4. ASSUME NEW i \in DOMAIN request
      PROVE  /\ request[i].id = body.apps[i].id /\ request[i].version = body.apps[i].version
             /\ request[i] \in RequestApp
    <2>1. request[i] = [id |-> body.apps[i].id, version |-> body.apps[i].version,
                        fp |-> FingerprintOf(body.apps[i], version, body)]
        BY <1>1 DEF UpdateRequest
    <2>2. request[i] \in RequestApp
        BY <1>1, ElementOfSeq, LenProperties
    <2> QED
        BY <2>1, <2>2
<1>5. \A i \in DOMAIN request :
          [id |-> request[i].id, version |-> request[i].version] \in App
    BY <1>4 DEF RequestApp, App
<1> QED
    BY <1>1, <1>2, <1>3, <1>4, <1>5

\* An answer with the verdict on an app, as it is written.
LEMMA WrittenCorrect ==
    ASSUME NEW app \in App, NEW m \in Catalog, NEW answer, NEW written,
           answer.id = app.id, answer.version = Verdict(app, m).version,
           answer.hashed = Verdict(app, m).hashed, answer.status = Verdict(app, m).status,
           written.id = answer.id, written.status = GetUpdateStatus(answer),
           answer.status = "" => written.version = answer.version
    PROVE  /\ Service!Correct(app, written, m)
           /\ answer.status = "" <=> Service!Updated(app, m)
           /\ Service!Updated(app, m) => answer.hashed = m[app.id].hashed
<1> DEFINE known == app.id \in Known(m)
<1>1. /\ answer.version = Found(app.id, m).version
      /\ answer.hashed = Found(app.id, m).hashed
      /\ answer.status = IF ~known THEN "error-unknownApplication"
                         ELSE IF Found(app.id, m).blacklisted THEN "restricted"
                         ELSE IF ~ Service!Outdated(app, m) THEN "noupdate" ELSE ""
    BY ServiceOutdated DEF Verdict
<1>2. known => Found(app.id, m) = m[app.id]
    BY DEF Found
<1>3. Service!Updated(app, m) <=> known /\ ~m[app.id].blacklisted /\ Service!Outdated(app, m)
    BY ServiceOperators DEF Service!Updated
<1>4. written.status = IF answer.status = "" THEN "ok" ELSE answer.status
    BY DEF GetUpdateStatus
<1>5. Service!Correct(app, written, m)
    BY <1>1, <1>2, <1>3, <1>4, ServiceOperators DEF Service!Correct
<1> QED
    BY <1>1, <1>2, <1>3, <1>5

\* What is processed is a permitted decision, in the rows it is processed with.
LEMMA ProcessPermitted ==
    ASSUME OmahaInv, PostInv, Process
    PROVE  Service!Permitted(AsPost(body, contentType), Decision', Rows)
<1> DEFINE r == AsPost(body, contentType)
           handler == CreateProtocol(version)
           given == ProcessExtensionRequests(request)
           apps == AsApps(body.apps)
           bad == {i \in DOMAIN given : Fault(handler, body.syntax, given[i]) # "none"}
           app(i) == [id |-> given[i].id, status |-> GetUpdateStatus(given[i]),
                      version |-> IF given[i].status = "" THEN given[i].version ELSE EmptyVersion,
                      packages |-> Packages(handler, body.syntax, given[i])]
           out == [i \in DOMAIN given |-> app(i)]
<1>1. /\ pc = "process" /\ Accepted /\ Detected /\ TypeOK
      /\ answers' = given /\ UNCHANGED <<body, contentType, version>>
      /\ ~Refused(body) /\ ~IsPingbackRequest(body, contentType)
      /\ Parses(handler, body, contentType)
      /\ ~(Len(request) = 1 /\ request[1].id \notin Known(Rows))
    BY DEF Process, Handling, requestVars, OmahaInv, HandlerInv, PostInv, Accepted
<1>2. /\ r.kind = handler /\ r.apps = apps
      /\ handler = IF version = "4.0" THEN "v4" ELSE "v3"
    BY <1>1, KindOfPost
<1>3. /\ Rows \in Catalog
      /\ DOMAIN given = DOMAIN request
      /\ DOMAIN apps = DOMAIN request /\ Len(apps) = Len(request)
      /\ \A i \in DOMAIN request :
            /\ apps[i] = [id |-> request[i].id, version |-> request[i].version]
            /\ apps[i] \in App
    BY <1>1, RowsType, ProcessType, SameApps
<1>4. ASSUME NEW i \in DOMAIN request
      PROVE  /\ given[i].id = apps[i].id
             /\ given[i].version = Verdict(apps[i], Rows).version
             /\ given[i].hashed = Verdict(apps[i], Rows).hashed
             /\ given[i].status = Verdict(apps[i], Rows).status
    <2> DEFINE verdict == Verdict([id |-> request[i].id, version |-> request[i].version], Rows)
    <2>1. given[i] = [id |-> request[i].id, version |-> verdict.version,
                      hashed |-> verdict.hashed, status |-> verdict.status,
                      fp |-> request[i].fp, patches |-> Patches(request[i].id)]
        BY DEF ProcessExtensionRequests
    <2>2. apps[i].id = request[i].id /\ verdict = Verdict(apps[i], Rows)
        BY <1>3
    <2> HIDE DEF verdict, given, apps
    <2> QED
        BY <2>1, <2>2
<1>5. ASSUME NEW i \in DOMAIN request
      PROVE  out[i].id = given[i].id /\ out[i].status = GetUpdateStatus(given[i])
             /\ (given[i].status = "" => out[i].version = given[i].version)
    <2> DEFINE status == GetUpdateStatus(given[i])
               listed == IF given[i].status = "" THEN given[i].version ELSE EmptyVersion
               packages == Packages(handler, body.syntax, given[i])
    <2>1. out[i] = [id |-> given[i].id, status |-> status, version |-> listed,
                    packages |-> packages]
        BY <1>3
    <2>2. given[i].status = "" => listed = given[i].version
        OBVIOUS
    <2> HIDE DEF listed, packages, status, out
    <2>3. out[i].id = given[i].id /\ out[i].status = status /\ out[i].version = listed
        BY <2>1
    <2> QED
        BY <2>2, <2>3 DEF status
<1>6. Decision' = IF bad = {} THEN ReplyOf(200, out) ELSE ReplyOf(500, <<>>)
    BY <1>1 DEF Decision, Faulty, Formatted
<1> HIDE DEF r, handler, given, apps, out, app
<1>7. ASSUME NEW i \in DOMAIN request
      PROVE  /\ Service!Correct(apps[i], out[i], Rows)
             /\ given[i].status = "" <=> Service!Updated(apps[i], Rows)
             /\ Service!Updated(apps[i], Rows) => given[i].hashed = Rows[apps[i].id].hashed
    <2>1. apps[i] \in App /\ Rows \in Catalog
        BY <1>3
    <2>2. /\ given[i].id = apps[i].id
          /\ given[i].version = Verdict(apps[i], Rows).version
          /\ given[i].hashed = Verdict(apps[i], Rows).hashed
          /\ given[i].status = Verdict(apps[i], Rows).status
        BY <1>4
    <2>3. /\ out[i].id = given[i].id /\ out[i].status = GetUpdateStatus(given[i])
          /\ given[i].status = "" => out[i].version = given[i].version
        BY <1>5
    <2> DEFINE a == apps[i]
               g == given[i]
               w == out[i]
    <2>4. /\ a \in App /\ g.id = a.id
          /\ g.version = Verdict(a, Rows).version
          /\ g.hashed = Verdict(a, Rows).hashed
          /\ g.status = Verdict(a, Rows).status
          /\ w.id = g.id /\ w.status = GetUpdateStatus(g)
          /\ g.status = "" => w.version = g.version
        BY <2>1, <2>2, <2>3
    <2> HIDE DEF a, g, w
    <2>5. /\ Service!Correct(a, w, Rows)
          /\ g.status = "" <=> Service!Updated(a, Rows)
          /\ Service!Updated(a, Rows) => g.hashed = Rows[a.id].hashed
        BY <2>1, <2>4, WrittenCorrect
    <2> QED
        BY <2>5 DEF a, g, w
<1>8. CASE bad = {}
    <2> DEFINE o == ReplyOf(200, out)
    <2>1. o.code = 200 /\ o.answers = out
        BY DEF ReplyOf
    <2> HIDE DEF o
    <2>2. ~ Service!OnlyUnknown(r, Rows)
        <3>1. SUFFICES ASSUME Len(apps) = 1, apps[1].id \notin Known(Rows) PROVE FALSE
            BY <1>2, ServiceOperators DEF Service!OnlyUnknown
        <3>2. 1 \in DOMAIN request
            <4>1. DOMAIN request = 1 .. Len(request)
                BY <1>1, LenProperties DEF TypeOK
            <4> QED
                BY <1>3, <3>1, <4>1
        <3>3. apps[1].id = request[1].id
            BY <1>3, <3>2
        <3> QED
            BY <1>1, <1>3, <3>1, <3>3
    <2>3. ASSUME r.kind = "v4", NEW i \in DOMAIN request
          PROVE  ~ Service!Unusable(apps[i], Rows)
        <3>1. Fault(handler, body.syntax, given[i]) = "none"
            BY <1>3, <1>8
        <3>2. given[i].status = "" => given[i].hashed
            BY <1>2, <2>3, <3>1 DEF Fault
        <3> QED
            BY <1>7, <3>2 DEF Service!Unusable
    <2>4. DOMAIN out = DOMAIN request
        BY <1>3 DEF out
    <2>5. Service!PermittedUpdate(r, o, Rows)
        <3>1. r.kind = "v4" => \A i \in DOMAIN r.apps : ~ Service!Unusable(r.apps[i], Rows)
            BY <1>2, <1>3, <2>3
        <3>2. DOMAIN o.answers = DOMAIN r.apps
            BY <1>2, <1>3, <2>1, <2>4
        <3>3. \A i \in DOMAIN r.apps : Service!Correct(r.apps[i], o.answers[i], Rows)
            BY <1>2, <1>3, <1>7, <2>1
        <3> QED
            BY <2>1, <2>2, <3>1, <3>2, <3>3 DEF Service!PermittedUpdate
    <2>6. Service!Permitted(r, o, Rows)
        BY <1>2, <2>5 DEF Service!Permitted
    <2> QED
        BY <1>6, <1>8, <2>6 DEF o, r
<1>9. CASE bad # {}
    <2> DEFINE o == ReplyOf(500, <<>>)
    <2>1. o.code = 500
        BY DEF ReplyOf
    <2> HIDE DEF o
    <2>2. PICK i \in DOMAIN request : Fault(handler, body.syntax, given[i]) # "none"
        BY <1>3, <1>9
    <2>3. Service!Updated(apps[i], Rows)
        BY <1>7, <2>2 DEF Fault
    <2>4. Service!PermittedUpdate(r, o, Rows)
        BY <1>2, <1>3, <2>1, <2>3 DEF Service!PermittedUpdate
    <2>5. Service!Permitted(r, o, Rows)
        BY <1>2, <2>4 DEF Service!Permitted
    <2> QED
        BY <1>6, <1>9, <2>5 DEF o, r
<1> QED
    BY <1>8, <1>9
\* The service's view of a GET.
LEMMA KindOfGet ==
    ASSUME TypeOK
    PROVE  LET r == AsGet(query)
           IN  /\ r.kind = IF \E i \in DOMAIN query.xs : query.xs[i].broken
                           THEN "rejected" ELSE "webstore"
               /\ Len(r.apps) = Len(query.xs)
               /\ DOMAIN r.apps = DOMAIN query.xs
               /\ DOMAIN query.xs = 1 .. Len(query.xs) /\ Len(query.xs) \in Nat
               /\ \A i \in DOMAIN query.xs : /\ r.apps[i].id = query.xs[i].id
                                             /\ r.apps[i].version = query.xs[i].version
<1> DEFINE kind == IF \E i \in DOMAIN query.xs : query.xs[i].broken
                   THEN "rejected" ELSE "webstore"
           apps == AsApps(query.xs)
<1>1. query.xs \in Seq(X)
    BY QueryType
<1>2. /\ Len(apps) = Len(query.xs) /\ DOMAIN apps = DOMAIN query.xs
      /\ \A i \in DOMAIN query.xs :
            apps[i] = [id |-> query.xs[i].id, version |-> query.xs[i].version]
    BY <1>1, AsAppsOf
<1>3. AsGet(query) = [kind |-> kind, apps |-> apps]
    BY DEF AsGet
<1> HIDE DEF kind, apps
<1>4. AsGet(query).kind = kind /\ AsGet(query).apps = apps
    BY <1>3
<1>5. DOMAIN query.xs = 1 .. Len(query.xs) /\ Len(query.xs) \in Nat
    BY <1>1, LenProperties
<1>6. ASSUME NEW i \in DOMAIN query.xs
      PROVE  apps[i].id = query.xs[i].id /\ apps[i].version = query.xs[i].version
    <2>1. apps[i] = [id |-> query.xs[i].id, version |-> query.xs[i].version]
        BY <1>2
    <2> QED BY <2>1
<1> QED
    BY <1>2, <1>4, <1>5, <1>6 DEF kind

\* What a turn of the loop refuses or redirects.
LEMMA TurnPermitted ==
    ASSUME TypeOK, Passed, at <= Len(query.xs)
    PROVE  LET r == AsGet(query)
               x == query.xs[at]
           IN  /\ x.broken \/ x.id = NoID =>
                     Service!Permitted(r, ReplyOf(400, <<>>), Rows)
               /\ ~(x.broken \/ x.id = NoID) /\ Redirects(x) =>
                     Service!Permitted(r, ReplyOf(307, <<>>), Rows)
<1> DEFINE r == AsGet(query)
           x == query.xs[at]
<1>1. /\ r.kind = IF \E i \in DOMAIN query.xs : query.xs[i].broken
                  THEN "rejected" ELSE "webstore"
      /\ Len(r.apps) = Len(query.xs) /\ DOMAIN r.apps = DOMAIN query.xs
      /\ DOMAIN query.xs = 1 .. Len(query.xs)
      /\ \A i \in DOMAIN query.xs : r.apps[i].id = query.xs[i].id
    BY KindOfGet
<1>2. at \in DOMAIN query.xs
    BY XOfTurn
<1> HIDE DEF r
<1>3. CASE x.broken \/ x.id = NoID
    <2> DEFINE o == ReplyOf(400, <<>>)
    <2>1. o.code = 400
        BY DEF ReplyOf
    <2> HIDE DEF o
    <2>2. CASE x.broken
        <3>1. r.kind = "rejected"
            BY <1>1, <1>2, <2>2
        <3> QED BY <1>3, <2>1, <3>1 DEF Service!Permitted, o, r
    <2>3. CASE x.id = NoID
        <3>1. \E i \in DOMAIN r.apps : r.apps[i].id = NoID
            BY <1>1, <1>2, <2>3
        <3>2. Service!PermittedWebStore(r, o, Rows)
            BY <2>1, <3>1 DEF Service!PermittedWebStore
        <3>3. r.kind \in {"rejected", "webstore"}
            BY <1>1
        <3> QED BY <1>3, <2>1, <3>2, <3>3 DEF Service!Permitted, o, r
    <2> QED BY <1>3, <2>2, <2>3
<1>4. CASE ~(x.broken \/ x.id = NoID) /\ Redirects(x)
    <2> DEFINE o == ReplyOf(307, <<>>)
    <2>1. o.code = 307
        BY DEF ReplyOf
    <2> HIDE DEF o
    <2>2. Len(query.xs) = 1 /\ x.id \notin Known(Rows)
        BY <1>4 DEF Redirects
    <2>3. DOMAIN query.xs = {1} /\ at = 1
        BY <1>1, <1>2, <2>2
    <2>4. r.kind = "webstore"
        BY <1>1, <1>4, <2>3
    <2>5. Service!OnlyUnknown(r, Rows)
        BY <1>1, <2>2, <2>3, ServiceOperators DEF Service!OnlyUnknown
    <2>6. ~ \E i \in DOMAIN r.apps : r.apps[i].id = NoID
        BY <1>1, <1>4, <2>3
    <2>7. Service!PermittedWebStore(r, o, Rows)
        BY <2>1, <2>5, <2>6 DEF Service!PermittedWebStore
    <2> QED
        BY <1>4, <2>4, <2>7 DEF Service!Permitted, o, r
<1> QED
    BY <1>3, <1>4 DEF r

LEMMA ListPermitted ==
    ASSUME TypeOK, Passed, Listed, at > Len(query.xs)
    PROVE  Service!Permitted(AsGet(query), ReplyOf(200, WebStoreResponse), Rows)
<1> DEFINE r == AsGet(query)
           o == ReplyOf(200, WebStoreResponse)
           outdated == {i \in DOMAIN r.apps : Service!Outdated(r.apps[i], Rows)}
           place(i) == Cardinality({j \in outdated : j <= i})
<1>1. /\ r.kind = IF \E i \in DOMAIN query.xs : query.xs[i].broken
                  THEN "rejected" ELSE "webstore"
      /\ Len(r.apps) = Len(query.xs) /\ DOMAIN r.apps = DOMAIN query.xs
      /\ DOMAIN query.xs = 1 .. Len(query.xs) /\ Len(query.xs) \in Nat
      /\ \A i \in DOMAIN query.xs : /\ r.apps[i].id = query.xs[i].id
                                    /\ r.apps[i].version = query.xs[i].version
    BY KindOfGet
<1>2. at - 1 = Len(query.xs) /\ at \in Nat
    BY <1>1 DEF TypeOK, Passed
<1>3. /\ answers \in Seq(Answer) /\ DOMAIN answers = 1 .. Len(answers) /\ Len(answers) \in Nat
    BY LenProperties DEF TypeOK
<1>4. Len(WebStoreResponse) = Len(answers)
    <2>1. /\ DOMAIN WebStoreResponse = 1 .. Len(WebStoreResponse)
          /\ Len(WebStoreResponse) \in Nat
        BY WebStoreResponseType, LenProperties
    <2>2. DOMAIN WebStoreResponse = DOMAIN answers
        BY DEF WebStoreResponse
    <2> QED
        BY <1>3, <2>1, <2>2, SameLength
<1>5. o.code = 200 /\ o.answers = WebStoreResponse
    BY DEF ReplyOf
<1> HIDE DEF r, o
<1>6. r.kind = "webstore" /\ ~ \E i \in DOMAIN r.apps : r.apps[i].id = NoID
    BY <1>1, <1>2 DEF Passed
<1>7. ~ Service!OnlyUnknown(r, Rows)
    <2>1. SUFFICES ASSUME Len(r.apps) = 1, r.apps[1].id \notin Known(Rows) PROVE FALSE
        BY ServiceOperators DEF Service!OnlyUnknown
    <2>2. Len(query.xs) = 1 /\ at > 1 /\ r.apps[1].id = query.xs[1].id
        BY <1>1, <1>2, <2>1
    <2> QED
        BY <2>1, <2>2 DEF Passed
<1>8. outdated = NewerThanX
    <2>1. \A i \in DOMAIN query.xs : Service!Outdated(r.apps[i], Rows) <=> OlderX(i)
        BY <1>1, ServiceOutdated DEF OlderX
    <2> QED
        BY <1>1, <1>2, <2>1 DEF NewerThanX
<1>9. Len(o.answers) = Cardinality(outdated)
    BY <1>4, <1>5, <1>8 DEF Listed
<1>10. ASSUME NEW i \in outdated
       PROVE  /\ o.answers[place(i)].status = "ok"
              /\ o.answers[place(i)].version = Service!Found(r.apps[i].id, Rows).version
              /\ r.apps[i].id \in Service!Known(Rows) => o.answers[place(i)].id = r.apps[i].id
    <2> DEFINE k == Rank(NewerThanX, i)
    <2>1. i \in NewerThanX /\ place(i) = k
        BY <1>8 DEF Rank
    <2>2. k \in DOMAIN answers
        BY <1>3, <2>1, NewerThanXType, RankInside DEF Listed
    <2>3. EntryFor(answers[k], query.xs[i])
        BY <2>1 DEF Listed
    <2>4. r.apps[i].id = query.xs[i].id
        BY <1>1
    <2> HIDE DEF k, place
    <2>5. WebStoreResponse[k] = [id |-> answers[k].id, status |-> "ok",
                                 version |-> answers[k].version, packages |-> <<NoFP>>]
        BY <2>2 DEF WebStoreResponse
    <2> DEFINE full == <<NoFP>>
    <2> HIDE DEF full
    <2>6. WebStoreResponse[k] = [id |-> answers[k].id, status |-> "ok",
                                 version |-> answers[k].version, packages |-> full]
        BY <2>5 DEF full
    <2>7. /\ WebStoreResponse[k].status = "ok"
          /\ WebStoreResponse[k].version = answers[k].version
          /\ WebStoreResponse[k].id = answers[k].id
        BY <2>6
    <2> QED
        BY <1>5, <2>1, <2>3, <2>4, <2>7, ServiceOperators DEF EntryFor
<1>11. Service!PermittedWebStore(r, o, Rows)
    BY <1>5, <1>6, <1>7, <1>9, <1>10, ServiceCardinality, Zenon DEF Service!PermittedWebStore
<1> QED
    BY <1>6, <1>11 DEF Service!Permitted, r, o

-----------------------------------------------------------------------------
(***************************************************************************)
(* Which step of the service a step of the code is.                        *)
(***************************************************************************)

LEMMA ClientMoves ==
    ASSUME NEW v, NEW w
    PROVE  /\ [OneClient(v) EXCEPT !["client"] = w] = OneClient(w)
           /\ OneClient(v)["client"] = v
BY DEF OneClient

LEMMA AskedStep ==
    ASSUME pc = "idle", pc' \in {"read", "store"}, UNCHANGED stock,
           \/ \E b \in Body, ct \in ContentType : Asked' = AsPost(b, ct)
           \/ \E q \in Query : Asked' = AsGet(q)
    PROVE  Service!Ask("client")
<1>1. PICK r \in Requests : Asked' = r
    BY DEF Requests
<1>2. /\ Phase = "idle" /\ Phase' = "asked" /\ Rows' = Rows
      /\ Decided = NoReply /\ Decided' = NoReply /\ Delivered' = NoReply
    BY DEF Phase, Decided, Delivered, Rows
<1>3. /\ OneClient(Phase)["client"] = "idle"
      /\ OneClient(Phase)' = [OneClient(Phase) EXCEPT !["client"] = "asked"]
      /\ OneClient(Asked)' = [OneClient(Asked) EXCEPT !["client"] = r]
      /\ OneClient(Delivered)' = [OneClient(Delivered) EXCEPT !["client"] = NoReply]
      /\ OneClient(Decided)' = OneClient(Decided)
    BY <1>1, <1>2, ClientMoves DEF OneClient
<1>4. \E s \in Requests : OneClient(Asked)' = [OneClient(Asked) EXCEPT !["client"] = s]
    BY <1>3
<1>5. /\ OneClient(Delivered)' = [OneClient(Delivered) EXCEPT !["client"] = Service!NoReply]
      /\ UNCHANGED <<Rows, OneClient(Decided)>>
    BY <1>2, <1>3, ServiceOperators
<1> QED
    BY <1>3, <1>4, <1>5 DEF Service!Ask

LEMMA AnsweredStep ==
    ASSUME Phase = "asked", pc # "format", Phase' = "idle", pc' # "format",
           Asked' = Asked, UNCHANGED stock,
           Service!Permitted(Asked, Delivered', Rows)
    PROVE  Service!Answer("client")
<1>1. Decided = NoReply /\ Decided' = NoReply /\ Rows' = Rows
    BY DEF Decided, Rows
<1>2. /\ OneClient(Phase)["client"] = "asked"
      /\ OneClient(Phase)' = [OneClient(Phase) EXCEPT !["client"] = "idle"]
      /\ OneClient(Asked)' = OneClient(Asked) /\ OneClient(Asked)["client"] = Asked
      /\ OneClient(Delivered)'["client"] = Delivered'
      /\ OneClient(Delivered)' =
            [OneClient(Delivered) EXCEPT !["client"] = OneClient(Delivered)'["client"]]
      /\ OneClient(Decided)' = OneClient(Decided)
    BY <1>1 DEF OneClient
<1> QED
    BY <1>1, <1>2 DEF Service!Answer

LEMMA DecidedStep ==
    ASSUME Phase = "asked", Phase' = "decided", Asked' = Asked, Delivered' = Delivered,
           UNCHANGED stock, Service!Permitted(Asked, Decided', Rows)
    PROVE  Service!Decide("client")
<1>1. Rows' = Rows
    BY DEF Rows
<1>2. /\ OneClient(Phase)["client"] = "asked"
      /\ OneClient(Phase)' = [OneClient(Phase) EXCEPT !["client"] = "decided"]
      /\ OneClient(Asked)' = OneClient(Asked) /\ OneClient(Asked)["client"] = Asked
      /\ OneClient(Decided)'["client"] = Decided'
      /\ OneClient(Decided)' =
            [OneClient(Decided) EXCEPT !["client"] = OneClient(Decided)'["client"]]
      /\ OneClient(Delivered)' = OneClient(Delivered)
    BY DEF OneClient
<1> QED
    BY <1>1, <1>2 DEF Service!Decide

LEMMA DeliveredStep ==
    ASSUME pc = "format", pc' = "done", Asked' = Asked, UNCHANGED stock, Delivered' = Decision
    PROVE  Service!Deliver("client")
<1>1. /\ Rows' = Rows /\ Phase = "decided" /\ Phase' = "idle"
      /\ Decided = Decision /\ Decided' = NoReply
    BY DEF Rows, Phase, Decided
<1>2. /\ OneClient(Phase)["client"] = "decided"
      /\ OneClient(Phase)' = [OneClient(Phase) EXCEPT !["client"] = "idle"]
      /\ OneClient(Asked)' = OneClient(Asked)
      /\ OneClient(Decided)["client"] = Decision
      /\ OneClient(Delivered)' = [OneClient(Delivered) EXCEPT !["client"] = Decision]
      /\ OneClient(Decided)' = [OneClient(Decided) EXCEPT !["client"] = NoReply]
    BY <1>1 DEF OneClient
<1> QED
    BY <1>1, <1>2, ServiceOperators DEF Service!Deliver

LEMMA SilentStep ==
    ASSUME Phase' = Phase, Asked' = Asked, Decided' = Decided, Delivered' = Delivered
    PROVE  UNCHANGED <<OneClient(Phase), OneClient(Asked), OneClient(Decided),
                       OneClient(Delivered)>>
BY DEF OneClient
\* The handler goes on, or its client is done with the answer.
LEMMA SilentServes ==
    ASSUME OmahaInv, PostInv,
           \/ DetectVersion /\ pc' = "parse"
           \/ ParseRequest /\ pc' = "lookup"
           \/ LookUp /\ pc' = "process"
           \/ TakeX /\ pc' = "store"
           \/ UNCHANGED vars
    PROVE  UNCHANGED Service!serviceVars
<1>1. \/ /\ UNCHANGED <<stock, contentType, body, query>>
         /\ \/ pc = "read" /\ pc' = "parse"
            \/ pc = "parse" /\ pc' = "lookup"
            \/ pc = "lookup" /\ pc' = "process"
            \/ pc = "store" /\ pc' = "store"
      \/ UNCHANGED vars
    BY DEF DetectVersion, ParseRequest, LookUp, TakeX, Handling, requestVars
<1>2. CASE UNCHANGED vars
    BY <1>2, SilentStep DEF vars, requestVars, Phase, Asked, Decided, Delivered, Decision, Faulty,
        Fault, PatchFor, Formatted, Packages, Diff, Service!serviceVars, Rows
<1>3. CASE /\ UNCHANGED <<stock, contentType, body, query>>
           /\ pc \in {"read", "parse", "lookup", "store"}
           /\ pc' \in {"parse", "lookup", "process", "store"}
           /\ pc = "store" <=> pc' = "store"
    <2>1. Phase' = Phase /\ Asked' = Asked /\ Decided' = Decided /\ Delivered' = Delivered
        BY <1>3 DEF Phase, Asked, Decided, Delivered
    <2>2. Rows' = Rows
        BY <1>3 DEF Rows
    <2> QED
        BY <2>1, <2>2, SilentStep DEF Service!serviceVars
<1> QED
    BY <1>1, <1>2, <1>3

\* A POST that is answered without a look at the rows, or redirected.
LEMMA PostServes ==
    ASSUME OmahaInv, PostInv,
           \/ RefuseBody \/ Pingback
           \/ DetectVersion /\ pc' # "parse"
           \/ ParseRequest /\ pc' # "lookup"
           \/ LookUp /\ pc' # "process"
    PROVE  Service!Answer("client")
<1> DEFINE r == AsPost(body, contentType)
<1>1. ASSUME NEW code \in {204, 307, 400}, pc' = "done", UNCHANGED <<stock, contentType, body>>,
             pc \in {"read", "parse", "lookup"},
             response'.code = code, response'.apps = <<>>,
             Service!Permitted(r, ReplyOf(code, <<>>), Rows)
      PROVE  Service!Answer("client")
    <2>1. Phase = "asked" /\ Phase' = "idle" /\ Asked = r /\ Asked' = r
        BY <1>1 DEF Phase, Asked
    <2>2. Delivered' = ReplyOf(code, <<>>)
        BY <1>1 DEF Delivered
    <2> QED
        BY <1>1, <2>1, <2>2, AnsweredStep
<1>2. \A code : LET empty == Without(code, "none", "none")
                IN  empty.code = code /\ empty.apps = <<>>
    BY DEF Without
<1>3. \A code : ReplyOf(code, <<>>).code = IF code = 0 THEN 500 ELSE code
    BY DEF ReplyOf
<1>4. r.kind = Kind(body, contentType) /\ r.apps = AsApps(body.apps)
    BY DEF AsPost
<1> HIDE DEF r
<1>5. r.kind = "rejected" => Service!Permitted(r, ReplyOf(400, <<>>), Rows)
    <2> DEFINE o == ReplyOf(400, <<>>)
    <2>1. o.code = 400
        BY <1>3
    <2> HIDE DEF o
    <2> QED
        BY <2>1 DEF Service!Permitted, o
<1>6. r.kind = "pingback" => Service!Permitted(r, ReplyOf(204, <<>>), Rows)
    <2> DEFINE o == ReplyOf(204, <<>>)
    <2>1. o.code = 204
        BY <1>3
    <2> HIDE DEF o
    <2> QED
        BY <2>1 DEF Service!Permitted, o
<1>7. CASE RefuseBody
    <2>1. /\ pc = "read" /\ pc' = "done" /\ UNCHANGED <<stock, contentType, body>>
          /\ response' = Without(400, "none", "none") /\ Refused(body)
        BY <1>7 DEF RefuseBody, Handling, requestVars, ReplyEmpty, Reply
    <2>2. r.kind = "rejected"
        BY <1>4, <2>1 DEF Kind
    <2> QED
        BY <1>1, <1>2, <1>5, <2>1, <2>2
<1>8. CASE Pingback
    <2>1. /\ pc = "read" /\ pc' = "done" /\ UNCHANGED <<stock, contentType, body>>
          /\ response' = Without(204, "none", "none")
          /\ ~Refused(body) /\ IsPingbackRequest(body, contentType)
        BY <1>8 DEF Pingback, Handling, requestVars, ReplyEmpty, Reply
    <2>2. r.kind = "pingback"
        BY <1>4, <2>1 DEF Kind
    <2> QED
        BY <1>1, <1>2, <1>6, <2>1, <2>2
<1>9. CASE DetectVersion /\ pc' # "parse"
    <2>1. /\ pc = "read" /\ pc' = "done" /\ UNCHANGED <<stock, contentType, body>>
          /\ response' = Without(400, "none", "none")
          /\ CreateProtocol(DetectProtocolVersion(body, contentType)) = "none"
          /\ ~Refused(body) /\ ~IsPingbackRequest(body, contentType)
        BY <1>9 DEF DetectVersion, Handling, requestVars, ReplyEmpty, Reply, Goto
    <2>2. r.kind = "rejected"
        BY <1>4, <2>1 DEF Kind
    <2> QED
        BY <1>1, <1>2, <1>5, <2>1, <2>2
<1>10. CASE ParseRequest /\ pc' # "lookup"
    <2>1. /\ pc = "parse" /\ pc' = "done" /\ UNCHANGED <<stock, contentType, body>>
          /\ response' = Without(400, "none", "none")
          /\ ~Parses(CreateProtocol(version), body, contentType)
        BY <1>10 DEF ParseRequest, Handling, requestVars, ReplyEmpty, Reply, Goto
    <2>2. Detected /\ ~Refused(body) /\ ~IsPingbackRequest(body, contentType)
        BY <2>1 DEF OmahaInv, HandlerInv, PostInv
    <2>3. r.kind = "rejected"
        BY <2>1, <2>2, KindOfPost DEF r
    <2> QED
        BY <1>1, <1>2, <1>5, <2>1, <2>3
<1>11. CASE LookUp /\ pc' # "process"
    <2> DEFINE host == UpdaterHost(request[1].id, body.updater)
               answer == Without(307, host, RedirectSyntax)
               o == ReplyOf(307, <<>>)
    <2>1. /\ pc = "lookup" /\ pc' = "done" /\ UNCHANGED <<stock, contentType, body>>
          /\ response' = answer
          /\ Len(request) = 1 /\ request[1].id \notin Known(Rows)
        BY <1>11 DEF LookUp, Handling, requestVars, Reply, Goto
    <2>2. /\ Accepted /\ Detected /\ TypeOK /\ ~Refused(body)
          /\ ~IsPingbackRequest(body, contentType)
          /\ Parses(CreateProtocol(version), body, contentType)
        BY <2>1 DEF OmahaInv, HandlerInv, PostInv, Accepted
    <2> HIDE DEF host
    <2>3. answer.code = 307 /\ answer.apps = <<>>
        BY DEF Without
    <2>4. o.code = 307
        BY <1>3
    <2> HIDE DEF answer, o
    <2>5. r.kind \in {"v3", "v4"}
        BY <2>2, KindOfPost DEF r
    <2>6. Len(r.apps) = 1 /\ r.apps[1].id = request[1].id
        <3>1. /\ Len(r.apps) = Len(request) /\ DOMAIN request = 1 .. Len(request)
              /\ \A i \in DOMAIN request :
                    r.apps[i] = [id |-> request[i].id, version |-> request[i].version]
            BY <1>4, <2>2, SameApps, LenProperties DEF TypeOK
        <3>2. r.apps[1] = [id |-> request[1].id, version |-> request[1].version]
            BY <2>1, <3>1
        <3> QED
            BY <2>1, <3>1, <3>2
    <2>7. Service!OnlyUnknown(r, Rows)
        BY <2>1, <2>6, ServiceOperators DEF Service!OnlyUnknown
    <2>8. Service!Permitted(r, o, Rows)
        BY <2>4, <2>5, <2>7 DEF Service!Permitted, Service!PermittedUpdate
    <2> QED
        BY <1>1, <2>1, <2>3, <2>8 DEF o
<1> QED
    BY <1>7, <1>8, <1>9, <1>10, <1>11

\* A POST is decided when it is processed.
LEMMA ProcessServes ==
    ASSUME OmahaInv, PostInv, Process
    PROVE  Service!Decide("client")
<1>1. pc = "process" /\ pc' = "format" /\ UNCHANGED <<stock, contentType, body, query, response>>
    BY DEF Process, Handling, Goto, requestVars
<1>2. /\ Phase = "asked" /\ Phase' = "decided" /\ Asked' = Asked /\ Delivered' = Delivered
      /\ Asked = AsPost(body, contentType)
      /\ Decided' = Decision'
    BY <1>1 DEF Phase, Asked, Delivered, Decided
<1>3. Service!Permitted(Asked, Decided', Rows)
    BY <1>2, ProcessPermitted
<1> QED
    BY <1>1, <1>2, <1>3, DecidedStep

\* Its answer is formatted as it was decided, whatever has been stored since.
LEMMA RespondServes ==
    ASSUME OmahaInv, Respond
    PROVE  Service!Deliver("client")
<1> DEFINE faulty == {i \in DOMAIN answers : Fault(ResponseHandler, body.syntax, answers[i]) # "none"}
<1>1. /\ pc = "format" /\ pc' = "done" /\ Accepted /\ TypeOK
      /\ UNCHANGED <<stock, contentType, body, query, answers, version>>
    <2>1. pc' = "done"
        BY DEF Respond, Reply, ReplyEmpty
    <2> QED
        BY <2>1 DEF Respond, Handling, requestVars, OmahaInv, HandlerInv
<1>2. ResponseHandler = CreateProtocol(version) /\ ResponseHandler # "none"
    BY <1>1, HandlerOfVersion DEF Accepted, Detected, CreateProtocol
<1>3. Decision = IF faulty = {} THEN ReplyOf(200, Formatted(ResponseHandler, body.syntax))
                 ELSE ReplyOf(500, <<>>)
    BY <1>2 DEF Decision, Faulty
<1>4. LET label  == IF IsJSONContentType(contentType) THEN "json" ELSE "xml"
      IN  FormatOf(ResponseHandler, label) = body.syntax /\ label = body.syntax
    BY <1>1, HandlerOfVersion DEF FormatOf, IsJSONContentType, Accepted, Detected
<1>5. CASE faulty = {}
    <2>1. /\ response'.code = 200
          /\ response'.apps = Formatted(ResponseHandler, body.syntax)
        BY <1>2, <1>4, <1>5 DEF Respond, Faulty, ResponseHandler, Reply, With
    <2>2. Delivered' = Decision
        BY <1>1, <1>3, <1>5, <2>1 DEF Delivered
    <2> QED
        BY <1>1, <2>2, DeliveredStep DEF Asked
<1>6. CASE faulty # {}
    <2>1. PICK code \in {0, 500} : response' = Without(code, "none", "none")
        BY <1>2, <1>4, <1>6 DEF Respond, Faulty, ResponseHandler, ReplyEmpty, Reply
    <2>2. response'.code \in {0, 500} /\ response'.apps = <<>>
        BY <2>1 DEF Without
    <2>3. Delivered' = ReplyOf(500, <<>>)
        BY <1>1, <2>2 DEF Delivered, ReplyOf
    <2>4. Delivered' = Decision
        BY <1>3, <1>6, <2>3
    <2> QED
        BY <1>1, <2>4, DeliveredStep DEF Asked
<1> QED
    BY <1>5, <1>6
\* A GET that is refused, redirected or answered, all under its read lock.
LEMMA GetServes ==
    ASSUME OmahaInv, GetInv, (TakeX /\ pc' # "store") \/ RespondStore
    PROVE  Service!Answer("client")
<1> DEFINE r == AsGet(query)
<1>1. ASSUME NEW code \in {200, 307, 400}, NEW apps, pc' = "listed", UNCHANGED <<stock, query>>,
             pc = "store", response'.code = code, response'.apps = apps,
             Service!Permitted(r, ReplyOf(code, apps), Rows)
      PROVE  Service!Answer("client")
    <2>1. Phase = "asked" /\ Phase' = "idle" /\ Asked = r /\ Asked' = r
        BY <1>1 DEF Phase, Asked
    <2>2. Delivered' = ReplyOf(code, apps)
        BY <1>1 DEF Delivered
    <2> QED
        BY <1>1, <2>1, <2>2, AnsweredStep
<1> HIDE DEF r
<1>2. pc = "store" /\ TypeOK /\ Passed /\ Listed /\ UNCHANGED <<stock, query>>
    BY DEF TakeX, RespondStore, Handling, requestVars, OmahaInv, GetInv
<1>3. CASE TakeX /\ pc' # "store"
    <2> DEFINE x == query.xs[at]
               refusal == Without(400, "none", "none")
               redirect == Without(307, "extension", "crx")
    <2>1. /\ refusal.code = 400 /\ refusal.apps = <<>>
          /\ redirect.code = 307 /\ redirect.apps = <<>>
        BY DEF Without
    <2>2. /\ at <= Len(query.xs) /\ pc' = "listed"
          /\ \/ (x.broken \/ x.id = NoID) /\ response' = refusal
             \/ ~(x.broken \/ x.id = NoID) /\ Redirects(x) /\ response' = redirect
        BY <1>3 DEF TakeX, ReplyStore, Goto
    <2>3. /\ x.broken \/ x.id = NoID => Service!Permitted(r, ReplyOf(400, <<>>), Rows)
          /\ ~(x.broken \/ x.id = NoID) /\ Redirects(x) =>
                Service!Permitted(r, ReplyOf(307, <<>>), Rows)
        BY <1>2, <2>2, TurnPermitted DEF r
    <2> HIDE DEF refusal, redirect, x
    <2> QED
        BY <1>1, <1>2, <2>1, <2>2, <2>3
<1>4. CASE RespondStore
    <2>1. /\ at > Len(query.xs) /\ pc' = "listed"
          /\ response'.code = 200 /\ response'.apps = WebStoreResponse
        BY <1>4 DEF RespondStore, ReplyStore, With
    <2>2. Service!Permitted(r, ReplyOf(200, WebStoreResponse), Rows)
        BY <1>2, <2>1, ListPermitted DEF r
    <2> QED
        BY <1>1, <1>2, <2>1, <2>2
<1> QED
    BY <1>3, <1>4

LEMMA AskServes ==
    ASSUME Arrive \/ ArriveStore
    PROVE  Service!Ask("client")
<1>1. CASE Arrive
    <2>1. pc = "idle" /\ pc' = "read" /\ UNCHANGED stock
          /\ body' \in Body /\ contentType' \in ContentType
        BY <1>1 DEF Arrive, Handling, Goto
    <2>2. Asked' = AsPost(body', contentType')
        BY <2>1 DEF Asked
    <2> QED
        BY <2>1, <2>2, AskedStep
<1>2. CASE ArriveStore
    <2>1. pc = "idle" /\ pc' = "store" /\ UNCHANGED stock /\ query' \in Query
        BY <1>2 DEF ArriveStore, Handling, Goto
    <2>2. Asked' = AsGet(query')
        BY <2>1 DEF Asked
    <2> QED
        BY <2>1, <2>2, AskedStep
<1> QED
    BY <1>1, <1>2

LEMMA FinishServes ==
    ASSUME Finish
    PROVE  Service!Take("client")
<1>1. pc \in {"done", "listed"} /\ pc' = "idle" /\ UNCHANGED stock
    BY DEF Finish
<1>2. /\ Rows' = Rows /\ Phase = "idle" /\ Phase' = "idle"
      /\ Asked' = Absent /\ Delivered' = NoReply /\ Decided = NoReply /\ Decided' = NoReply
    BY <1>1 DEF Rows, Phase, Asked, Delivered, Decided
<1>3. /\ OneClient(Phase)["client"] = "idle" /\ OneClient(Phase)' = OneClient(Phase)
      /\ OneClient(Asked)' = [OneClient(Asked) EXCEPT !["client"] = Absent]
      /\ OneClient(Delivered)' = [OneClient(Delivered) EXCEPT !["client"] = NoReply]
      /\ OneClient(Decided)' = OneClient(Decided)
    BY <1>2 DEF OneClient
<1> QED
    BY <1>2, <1>3, ServiceOperators DEF Service!Take

LEMMA StoreServes ==
    ASSUME OmahaInv, Store
    PROVE  Service!Learn
<1>1. PICK id \in ID, s \in Stock : Rows' = [Rows EXCEPT ![id] = s.row]
    BY StoreKnows DEF OmahaInv
<1>2. s.row \in Service!Extension
    BY OmahaAssumption, ServiceOperators
<1>3. UNCHANGED <<pc, contentType, body, query, version, answers, response>>
    BY DEF Store, requestVars
<1>4. Phase' = Phase /\ Asked' = Asked /\ Decided' = Decided /\ Delivered' = Delivered
    BY <1>3 DEF Phase, Asked, Decided, Delivered, Decision, Faulty, Fault, PatchFor, Formatted,
        Packages, Diff
<1>5. UNCHANGED <<OneClient(Phase), OneClient(Asked), OneClient(Decided), OneClient(Delivered)>>
    BY <1>4, SilentStep
<1> QED
    BY <1>1, <1>2, <1>5 DEF Service!Learn

LEMMA NextServes ==
    ASSUME OmahaInv, RequestInv, [Next]_vars
    PROVE  [Service!ServiceNext]_Service!serviceVars
<1>1. PostInv /\ GetInv
    BY DEF RequestInv
<1>2. CASE Store
    BY <1>2, StoreServes DEF Service!ServiceNext
<1>3. CASE Arrive \/ ArriveStore
    BY <1>3, AskServes DEF Service!ServiceNext
<1>4. CASE \/ RefuseBody \/ Pingback
           \/ DetectVersion /\ pc' # "parse"
           \/ ParseRequest /\ pc' # "lookup"
           \/ LookUp /\ pc' # "process"
    BY <1>1, <1>4, PostServes DEF Service!ServiceNext
<1>5. CASE Process
    BY <1>1, <1>5, ProcessServes DEF Service!ServiceNext
<1>6. CASE Respond
    BY <1>6, RespondServes DEF Service!ServiceNext
<1>7. CASE (TakeX /\ pc' # "store") \/ RespondStore
    BY <1>1, <1>7, GetServes DEF Service!ServiceNext
<1>8. CASE Finish
    BY <1>8, FinishServes DEF Service!ServiceNext
<1>9. CASE \/ DetectVersion /\ pc' = "parse"
           \/ ParseRequest /\ pc' = "lookup"
           \/ LookUp /\ pc' = "process"
           \/ TakeX /\ pc' = "store"
           \/ UNCHANGED vars
    BY <1>1, <1>9, SilentServes
<1> QED
    BY <1>2, <1>3, <1>4, <1>5, <1>6, <1>7, <1>8, <1>9 DEF Next

LEMMA InitServes ==
    ASSUME Init
    PROVE  RequestInv /\ Service!ServiceInit
<1>1. RequestInv
    BY DEF Init, RequestInv, PostInv, GetInv
<1>2. Rows = EmptyCatalog
    BY DEF Init, Rows, EmptyCatalog
<1>3. Phase = "idle" /\ Asked = Absent /\ Decided = NoReply /\ Delivered = NoReply
    BY DEF Init, Phase, Asked, Decided, Delivered
<1> QED
    BY <1>1, <1>2, <1>3, ServiceOperators DEF Service!ServiceInit, OneClient

(***************************************************************************)
(* For any bodies, queries, rows and patches: each response is one the     *)
(* catalog service could have given, by deciding the request from the rows *)
(* of the single moment it is processed, refused or redirected.            *)
(***************************************************************************)
THEOREM OmahaImplementsService == Spec => ImplementsService
<1>1. OmahaInv /\ RequestInv /\ [Next]_vars => RequestInv'
    BY PostKeeps, GetKeeps DEF RequestInv
<1>2. OmahaInv /\ RequestInv /\ [Next]_vars => [Service!ServiceNext]_Service!serviceVars
    BY NextServes
<1> QED
    BY <1>1, <1>2, InitServes, OmahaInductive, PTL DEF Spec, ImplementsService, Service!Service
=============================================================================
