------------------------ MODULE ControllerServiceProofs ------------------------
(***************************************************************************)
(* The controller implements CatalogService: for any number of request     *)
(* slots, any table and any requests, each step of the code is one of the  *)
(* service, or none.                                                       *)
(***************************************************************************)
EXTENDS ControllerProofs

-----------------------------------------------------------------------------
(***************************************************************************)
(* The service has the operators of Extensions too, from its own instance. *)
(***************************************************************************)

LEMMA SameOperators ==
    /\ \A m : Abstract!Known(m) = Known(m)
    /\ \A id, m : Abstract!Found(id, m) = Found(id, m)
    /\ Abstract!EmptyCatalog = EmptyCatalog
    /\ Abstract!Extension = Extension
    /\ Abstract!NoReply = NoResponse
<1>1. \A m : Abstract!Known(m) = Known(m)
    BY DEF Abstract!Known, Known
<1>2. \A id, m : Abstract!Found(id, m) = Found(id, m)
    BY <1>1 DEF Abstract!Found, Found, Abstract!ZeroExtension, ZeroExtension,
        Abstract!EmptyVersion, EmptyVersion
<1>3. Abstract!EmptyCatalog = EmptyCatalog
    BY DEF Abstract!EmptyCatalog, EmptyCatalog
<1>4. Abstract!Extension = Extension
    BY DEF Abstract!Extension, Extension
<1>5. Abstract!NoReply = NoResponse
    BY DEF Abstract!NoReply, NoResponse
<1> QED
    BY <1>1, <1>2, <1>3, <1>4, <1>5

LEMMA SameCardinality == \A set : Abstract!Cardinality(set) = Cardinality(set)
BY Zenon DEF Abstract!Cardinality, Cardinality

\* The service asks whether a version compares as -1, the code whether it is below 0.
LEMMA OutdatedIsOlder ==
    ASSUME NEW app, NEW m
    PROVE  /\ Abstract!Outdated(app, m) <=>
                  CompareVersions(app.version, Found(app.id, m).version) < 0
           /\ ~ Abstract!Outdated(app, m) <=>
                  CompareVersions(app.version, Found(app.id, m).version) >= 0
<1>1. \A v1, v2 : CompareVersions(v1, v2) \in {-1, 0, 1}
    BY Zenon DEF CompareVersions
<1>2. \A v1, v2 : Abstract!CompareVersions(v1, v2) = CompareVersions(v1, v2)
    BY Zenon DEF Abstract!CompareVersions, CompareVersions, Abstract!Atoi, Atoi
<1>3. CompareVersions(app.version, Found(app.id, m).version) \in {-1, 0, 1}
    BY <1>1
<1> QED
    BY <1>2, <1>3, SameOperators DEF Abstract!Outdated

-----------------------------------------------------------------------------
(***************************************************************************)
(* What a decision made of one map is worth.                               *)
(***************************************************************************)

LEMMA VerdictCorrect ==
    ASSUME NEW app \in App, NEW m \in Catalog
    PROVE  /\ Abstract!Correct(app, Sent(Verdict(app, m)), m)
           /\ Verdict(app, m).status = "" <=> Abstract!Updated(app, m)
           /\ Abstract!Updated(app, m) => Verdict(app, m).hashed = m[app.id].hashed
<1> DEFINE v == Verdict(app, m)
           known == app.id \in Known(m)
<1>1. /\ v.id = app.id
      /\ v.version = Found(app.id, m).version
      /\ v.hashed = Found(app.id, m).hashed
      /\ v.status = IF ~known THEN "error-unknownApplication"
                    ELSE IF Found(app.id, m).blacklisted THEN "restricted"
                    ELSE IF ~ Abstract!Outdated(app, m) THEN "noupdate" ELSE ""
    BY OutdatedIsOlder DEF Verdict
<1>2. known => Found(app.id, m) = m[app.id]
    BY DEF Found
<1>3. Abstract!Updated(app, m) <=> known /\ ~m[app.id].blacklisted /\ Abstract!Outdated(app, m)
    BY SameOperators DEF Abstract!Updated
<1> HIDE DEF v
<1>4. /\ Sent(v).id = v.id
      /\ Sent(v).status = IF v.status = "" THEN "ok" ELSE v.status
      /\ v.status = "" => Sent(v).version = v.version
    BY DEF Sent, GetUpdateStatus
<1>5. Abstract!Correct(app, Sent(v), m)
    BY <1>1, <1>2, <1>3, <1>4, SameOperators DEF Abstract!Correct
<1> QED
    BY <1>1, <1>2, <1>3, <1>5 DEF v

\* The verdicts of all apps, in one map.
LEMMA UpdatePermitted ==
    ASSUME NEW r \in Request, r.kind \in {"v3", "v4"}, NEW m \in Catalog, NEW given,
           given = [i \in 1 .. Len(r.apps) |-> Verdict(r.apps[i], m)],
           ~ Abstract!OnlyUnknown(r, m)
    PROVE  IF r.kind = "v4" /\ ~V4Formattable(given)
           THEN Abstract!Permitted(r, [code |-> 500, answers |-> <<>>, catalog |-> NoEntry], m)
           ELSE Abstract!Permitted(
                    r, [code |-> 200, answers |-> Response(given), catalog |-> NoEntry], m)
<1>1. r.apps \in Seq(App)
    <2>1. r \in [kind: Kinds, apps: Seq(App)]
        BY RequestAssumption
    <2> QED
        BY <2>1
<1>2. DOMAIN r.apps = 1 .. Len(r.apps) /\ \A i \in DOMAIN r.apps : r.apps[i] \in App
    BY <1>1, LenProperties, ElementOfSeq
<1>3. \A i \in DOMAIN r.apps :
          /\ Abstract!Correct(r.apps[i], Sent(given[i]), m)
          /\ given[i].status = "" <=> Abstract!Updated(r.apps[i], m)
          /\ Abstract!Updated(r.apps[i], m) => given[i].hashed = m[r.apps[i].id].hashed
    BY <1>2, VerdictCorrect
<1>4. DOMAIN given = DOMAIN r.apps
    BY <1>2
<1>5. \A i \in DOMAIN r.apps :
          Abstract!Unusable(r.apps[i], m) <=> given[i].status = "" /\ ~given[i].hashed
    BY <1>3 DEF Abstract!Unusable
<1>6. CASE r.kind = "v4" /\ ~V4Formattable(given)
    <2>1. \E i \in DOMAIN r.apps : Abstract!Unusable(r.apps[i], m)
        BY <1>4, <1>5, <1>6 DEF V4Formattable
    <2> DEFINE o == [code |-> 500, answers |-> <<>>, catalog |-> NoEntry]
    <2>2. o.code = 500
        OBVIOUS
    <2> HIDE DEF o
    <2>3. Abstract!PermittedUpdate(r, o, m)
        BY <1>6, <2>1, <2>2 DEF Abstract!PermittedUpdate
    <2> QED
        BY <1>6, <2>3 DEF Abstract!Permitted, o
<1>7. CASE ~ (r.kind = "v4" /\ ~V4Formattable(given))
    <2> DEFINE o == [code |-> 200, answers |-> Response(given), catalog |-> NoEntry]
    <2>1. /\ o.code = 200
          /\ DOMAIN o.answers = DOMAIN r.apps
          /\ \A i \in DOMAIN r.apps : o.answers[i] = Sent(given[i])
        BY <1>4 DEF Response
    <2>2. r.kind = "v4" => \A i \in DOMAIN r.apps : ~ Abstract!Unusable(r.apps[i], m)
        BY <1>4, <1>5, <1>7 DEF V4Formattable
    <2> HIDE DEF o
    <2>3. Abstract!PermittedUpdate(r, o, m)
        BY <1>3, <2>1, <2>2 DEF Abstract!PermittedUpdate
    <2>4. Abstract!Permitted(r, o, m)
        BY <2>3 DEF Abstract!Permitted
    <2> QED
        BY <1>7, <2>4 DEF o
<1> QED
    BY <1>6, <1>7

\* The offers for all apps that are outdated in one map.
LEMMA OffersPermitted ==
    ASSUME NEW r \in Request, r.kind = "webstore", NEW m \in Catalog, NEW given \in Seq(Verdicts),
           NEW newer,
           newer = {i \in 1 .. Len(r.apps) :
                       CompareVersions(r.apps[i].version, Found(r.apps[i].id, m).version) < 0},
           Len(given) = Cardinality(newer),
           \A i \in newer : <<given[Rank(newer, i)]>> = Offer(r.apps[i], m),
           \A i \in 1 .. Len(r.apps) : r.apps[i].id # NoID,
           ~ Abstract!OnlyUnknown(r, m)
    PROVE  Abstract!Permitted(
               r, [code |-> 200, answers |-> Response(given), catalog |-> NoEntry], m)
<1> DEFINE o == [code |-> 200, answers |-> Response(given), catalog |-> NoEntry]
<1>1. r.apps \in Seq(App)
    <2>1. r \in [kind: Kinds, apps: Seq(App)]
        BY RequestAssumption
    <2> QED
        BY <2>1
<1>2. DOMAIN r.apps = 1 .. Len(r.apps) /\ Len(r.apps) \in Nat
    BY <1>1, LenProperties
<1>3. newer = {i \in DOMAIN r.apps : Abstract!Outdated(r.apps[i], m)}
    BY <1>2, OutdatedIsOlder
<1>4. newer \subseteq Nat /\ IsFiniteSet(newer)
    <2> DEFINE n == Len(r.apps)
    <2>1. newer \in SUBSET (1 .. n) /\ IsFiniteSet(1 .. n)
        <3>1. n \in Nat /\ newer \in SUBSET (1 .. n)
            BY <1>2
        <3> HIDE DEF n
        <3>2. IsFiniteSet(1 .. n)
            BY <3>1, FS_Interval
        <3> QED
            BY <3>1, <3>2
    <2>2. 1 .. Len(r.apps) \subseteq Nat
        BY <1>2
    <2>3. IsFiniteSet(newer)
        BY <2>1, FS_Subset
    <2> QED
        BY <2>1, <2>2, <2>3
<1>5. /\ DOMAIN given = 1 .. Len(given) /\ DOMAIN Response(given) = DOMAIN given
      /\ Response(given) \in Seq(SentAnswer)
    BY LenProperties, ResponseType DEF Response
<1>6. Len(Response(given)) = Cardinality(newer)
    <2>1. /\ DOMAIN Response(given) = 1 .. Len(Response(given))
          /\ Len(Response(given)) \in Nat /\ Len(given) \in Nat
        BY <1>5, LenProperties
    <2> QED
        BY <1>5, <2>1
<1>7. ASSUME NEW i \in newer
      PROVE  LET answer == Response(given)[Rank(newer, i)]
             IN  /\ answer.status = "ok"
                 /\ answer.version = Found(r.apps[i].id, m).version
                 /\ r.apps[i].id \in Known(m) => answer.id = r.apps[i].id
    <2> DEFINE k == Rank(newer, i)
               v == [id      |-> IF r.apps[i].id \in Known(m) THEN r.apps[i].id ELSE NoID,
                     version |-> Found(r.apps[i].id, m).version,
                     hashed  |-> Found(r.apps[i].id, m).hashed,
                     status  |-> ""]
    <2>1. k \in DOMAIN given
        BY <1>4, <1>5, RankInside
    <2>2. Offer(r.apps[i], m) = <<v>>
        BY DEF Offer
    <2>3. <<given[k]>> = <<v>>
        BY <2>2
    <2> HIDE DEF k, v
    <2>4. given[k] = v
        BY <2>3
    <2>5. Response(given)[k] = Sent(v)
        BY <2>1, <2>4 DEF Response
    <2>6. /\ v.id = IF r.apps[i].id \in Known(m) THEN r.apps[i].id ELSE NoID
          /\ v.version = Found(r.apps[i].id, m).version
          /\ v.status = ""
        BY DEF v
    <2>7. /\ Sent(v).id = v.id /\ Sent(v).version = v.version /\ Sent(v).status = "ok"
        BY <2>6 DEF Sent, GetUpdateStatus
    <2> QED
        BY <2>5, <2>6, <2>7 DEF k
<1>8. /\ o.code = 200
      /\ o.answers = Response(given)
    OBVIOUS
<1> HIDE DEF o
<1>9. Abstract!PermittedWebStore(r, o, m)
    <2>1. \A i \in newer : Rank(newer, i) = Cardinality({j \in newer : j <= i})
        BY DEF Rank
    <2>2. ~ \E i \in DOMAIN r.apps : r.apps[i].id = NoID
        BY <1>2
    <2> DEFINE outdated == {i \in DOMAIN r.apps : Abstract!Outdated(r.apps[i], m)}
               place(i) == Cardinality({j \in outdated : j <= i})
    <2>3. Len(o.answers) = Cardinality(outdated)
        BY <1>3, <1>6, <1>8
    <2>4. ASSUME NEW i \in outdated
          PROVE  /\ o.answers[place(i)].status = "ok"
                 /\ o.answers[place(i)].version = Abstract!Found(r.apps[i].id, m).version
                 /\ r.apps[i].id \in Abstract!Known(m) =>
                        o.answers[place(i)].id = r.apps[i].id
        <3>1. i \in newer /\ place(i) = Rank(newer, i)
            BY <1>3, <2>1
        <3> HIDE DEF place
        <3>2. o.answers[place(i)] = Response(given)[Rank(newer, i)]
            BY <1>8, <3>1
        <3>3. /\ Response(given)[Rank(newer, i)].status = "ok"
              /\ Response(given)[Rank(newer, i)].version = Found(r.apps[i].id, m).version
              /\ r.apps[i].id \in Known(m) =>
                     Response(given)[Rank(newer, i)].id = r.apps[i].id
            BY <1>7, <3>1, Zenon
        <3>4. /\ Abstract!Found(r.apps[i].id, m) = Found(r.apps[i].id, m)
              /\ Abstract!Known(m) = Known(m)
            BY SameOperators, Zenon
        <3> QED
            BY <3>2, <3>3, <3>4, Zenon
    <2> QED
        BY <1>8, <2>2, <2>3, <2>4, SameCardinality, Zenon DEF Abstract!PermittedWebStore
<1> QED
    BY <1>9 DEF Abstract!Permitted, o

-----------------------------------------------------------------------------
(***************************************************************************)
(* Where a handler is says what kind of request it has, and how far it has *)
(* come with it.  The apps the web store loop has passed are named, and    *)
(* the only one of a request is known.                                     *)
(***************************************************************************)

KindOf(p) ==
    /\ pc[p] \in {"load", "loading", "process", "processing", "format"} =>
           req[p].kind \in {"v3", "v4"}
    /\ pc[p] \in {"webstore", "store", "nested"} => req[p].kind = "webstore"
    /\ pc[p] \in {"all", "print", "printing", "fill"} => req[p].kind = "all"
    /\ pc[p] # "idle" => req[p] \in Request

PlaceOf(p) ==
    /\ pc[p] \in {"load", "loading"} => Len(Apps(p)) = 1
    /\ pc[p] \in {"processing", "store"} => at[p] <= Len(Apps(p)) + 1

PassedOf(p) ==
    pc[p] \in {"store", "nested"} =>
        /\ \A i \in 1 .. at[p] - 1 : Apps(p)[i].id # NoID
        /\ pc[p] = "nested" => Apps(p)[at[p]].id # NoID
        /\ Len(Apps(p)) = 1 /\ at[p] > 1 => Apps(p)[1].id \in Known(data)

RequestOf(p) == KindOf(p) /\ PlaceOf(p) /\ PassedOf(p)

RequestInv == \A p \in Handler : RequestOf(p)

LEMMA ApartKeepsRequest ==
    ASSUME Known(data) \subseteq Known(data'), NEW q \in Handler, RequestOf(q), Apart(q)
    PROVE  RequestOf(q)'
<1>1. KindOf(q)'
    BY DEF RequestOf, KindOf, Apart
<1>2. PlaceOf(q)'
    BY DEF RequestOf, PlaceOf, Apart, Apps
<1>3. PassedOf(q)'
    BY DEF RequestOf, PassedOf, Apart, Apps
<1> QED
    BY <1>1, <1>2, <1>3 DEF RequestOf

LEMMA ArriveRequest ==
    ASSUME ShapeInv, NEW p \in Handler, Arrive(p)
    PROVE  RequestOf(p)'
<1>1. PICK r \in Request : /\ req' = [req EXCEPT ![p] = r]
                           /\ Goto(p, IF Post(r) THEN "post" ELSE r.kind)
    BY DEF Arrive
<1>2. req'[p] = r /\ pc'[p] = IF Post(r) THEN "post" ELSE r.kind
    BY <1>1 DEF Goto, ShapeInv, StateTypeOK, HandlerTypeOK
<1>3. pc'[p] \in {"post", "webstore", "all"} /\ (pc'[p] # "post" => r.kind = pc'[p])
    BY <1>2 DEF Post
<1> QED
    BY <1>2, <1>3 DEF RequestOf, KindOf, PlaceOf, PassedOf

\* The handler goes on with the same request.
LEMMA GoOnKind ==
    ASSUME NEW p \in Handler, KindOf(p), req'[p] = req[p], pc[p] # "idle",
           \/ pc'[p] = "idle"
           \/ /\ pc[p] \in {"load", "loading", "process", "processing", "format"}
              /\ pc'[p] \in {"load", "loading", "process", "processing", "format"}
           \/ /\ pc[p] \in {"webstore", "store", "nested"}
              /\ pc'[p] \in {"webstore", "store", "nested"}
           \/ /\ pc[p] \in {"all", "print", "printing", "fill"}
              /\ pc'[p] \in {"all", "print", "printing", "fill"}
    PROVE  KindOf(p)'
BY DEF KindOf

LEMMA IdleRequest ==
    ASSUME NEW p \in Handler, pc'[p] = "idle"
    PROVE  RequestOf(p)'
BY DEF RequestOf, KindOf, PlaceOf, PassedOf

LEMMA HandleRequest ==
    ASSUME ShapeInv, NEW p \in Handler, AnswersOf(p), RequestOf(p), Handle(p)
    PROVE  RequestOf(p)'
<1> USE DEF ShapeInv, StateTypeOK, HandlerTypeOK
<1>0. KindOf(p) /\ PlaceOf(p) /\ PassedOf(p)
    BY DEF RequestOf
<1>1. CASE RefusePost(p) \/ PostRespond(p) \/ RefuseX(p) \/ StoreRespond(p) \/ CacheHit(p)
           \/ Fill(p)
    BY <1>1, IdleRequest DEF RefusePost, PostRespond, RefuseX, StoreRespond, CacheHit, Fill,
        ReplyEmpty, Reply, Goto
<1>2. CASE AcceptPost(p)
    <2>1. /\ req' = req /\ at' = at /\ pc[p] = "post" /\ req[p].kind \in {"v3", "v4"}
          /\ pc'[p] = IF Len(Apps(p)) = 1 THEN "load" ELSE "process"
        BY <1>2 DEF AcceptPost, Goto
    <2>2. KindOf(p)' /\ PlaceOf(p)' /\ PassedOf(p)'
        BY <1>0, <2>1 DEF KindOf, PlaceOf, PassedOf, Apps
    <2> QED
        BY <2>2 DEF RequestOf
<1>3. CASE PostLoad(p) \/ Process(p) \/ Processed(p)
    <2>1. /\ req' = req /\ at' = at /\ pc[p] \in {"load", "process", "processing"}
          /\ pc[p] = "load" => pc'[p] = "loading"
          /\ pc[p] # "load" => pc'[p] \in {"processing", "format"}
          /\ pc[p] = "process" => pc'[p] = "processing"
          /\ pc[p] = "processing" => pc'[p] = "format"
        BY <1>3 DEF PostLoad, Process, Processed, Goto
    <2>2. Len(Apps(p)) \in Nat /\ (pc[p] = "process" => at[p] = 1)
        BY <2>1, AppsType DEF AnswersOf
    <2>3. PlaceOf(p)'
        BY <1>0, <2>1, <2>2 DEF PlaceOf, Apps
    <2>4. PassedOf(p)'
        BY <2>1 DEF PassedOf
    <2> QED
        BY <1>0, <2>1, <2>3, <2>4, GoOnKind DEF RequestOf
<1>4. CASE PostLoaded(p)
    <2>1. CASE ReplyEmpty(p, 307)
        BY <2>1, IdleRequest DEF ReplyEmpty, Reply, Goto
    <2>2. CASE Goto(p, "process") /\ UNCHANGED req
        <3>1. pc[p] = "loading" /\ pc'[p] = "process" /\ req'[p] = req[p]
            BY <1>4, <2>2 DEF PostLoaded, Goto
        <3> QED
            BY <1>0, <3>1, GoOnKind DEF RequestOf, PlaceOf, PassedOf
    <2> QED
        BY <1>4, <2>1, <2>2 DEF PostLoaded
<1>5. CASE ProcessApp(p)
    <2>1. /\ req' = req /\ pc' = pc /\ pc[p] = "processing"
          /\ at[p] <= Len(Apps(p)) /\ at'[p] = at[p] + 1
        BY <1>5 DEF ProcessApp, NextApp
    <2>2. PlaceOf(p)'
        BY <2>1, AppsType DEF PlaceOf, Apps
    <2> QED
        BY <1>0, <2>1, <2>2, GoOnKind DEF RequestOf, PassedOf
<1>6. CASE WebStore(p)
    <2>1. /\ req' = req /\ at' = at /\ pc[p] = "webstore" /\ pc'[p] = "store" /\ at[p] = 1
        BY <1>6 DEF WebStore, Goto, AnswersOf
    <2>2. PlaceOf(p)' /\ PassedOf(p)'
        BY <2>1, AppsType DEF PlaceOf, PassedOf, Apps
    <2> QED
        BY <1>0, <2>1, <2>2, GoOnKind DEF RequestOf
<1>7. CASE StoreLoad(p)
    <2>1. /\ req' = req /\ at' = at /\ data' = data /\ pc[p] = "store" /\ pc'[p] = "nested"
          /\ Apps(p)[at[p]].id # NoID
        BY <1>7 DEF StoreLoad, Goto
    <2>2. PlaceOf(p)' /\ PassedOf(p)'
        BY <1>0, <2>1 DEF PlaceOf, PassedOf, Apps
    <2> QED
        BY <1>0, <2>1, <2>2, GoOnKind DEF RequestOf
<1>8. CASE StoreLoaded(p)
    <2>1. CASE ReplyEmpty(p, 307)
        BY <2>1, IdleRequest DEF ReplyEmpty, Reply, Goto
    <2>2. CASE /\ NextApp(p, Offer(Apps(p)[at[p]], data)) /\ Goto(p, "store") /\ UNCHANGED req
               /\ ~(Apps(p)[at[p]].id \notin Known(data) /\ Len(Apps(p)) = 1)
        <3>1. /\ req' = req /\ data' = data /\ pc[p] = "nested" /\ pc'[p] = "store"
              /\ at[p] <= Len(Apps(p)) /\ at'[p] = at[p] + 1
            BY <1>8, <2>2 DEF StoreLoaded, NextApp, Goto, LoopInv
        <3>2. PlaceOf(p)'
            BY <3>1, AppsType DEF PlaceOf, Apps
        <3>3. \A i \in 1 .. at'[p] - 1 : Apps(p)[i].id # NoID
            <4>1. at[p] \in Nat /\ \A i \in 1 .. at'[p] - 1 : i \in 1 .. at[p] - 1 \/ i = at[p]
                BY <3>1
            <4> QED
                BY <1>0, <3>1, <4>1 DEF PassedOf
        <3>4. Len(Apps(p)) = 1 => at[p] = 1
            BY <3>1
        <3>5. PassedOf(p)'
            BY <2>2, <3>1, <3>3, <3>4 DEF PassedOf, Apps
        <3> QED
            BY <1>0, <3>1, <3>2, <3>5, GoOnKind DEF RequestOf
    <2> QED
        BY <1>8, <2>1, <2>2 DEF StoreLoaded
<1>9. CASE CacheMiss(p) \/ PrintExtensions(p) \/ Printed(p)
    <2>1. CASE ReplyEmpty(p, 500)
        BY <2>1, IdleRequest DEF ReplyEmpty, Reply, Goto
    <2>2. CASE req'[p] = req[p] /\ pc'[p] \in {"print", "printing", "fill"}
        <3>1. pc[p] \in {"all", "print", "printing"}
            BY <1>9 DEF CacheMiss, PrintExtensions, Printed
        <3> QED
            BY <1>0, <2>2, <3>1, GoOnKind DEF RequestOf, PlaceOf, PassedOf
    <2> QED
        BY <1>9, <2>1, <2>2 DEF CacheMiss, PrintExtensions, Printed, Goto
<1> QED
    BY <1>1, <1>2, <1>3, <1>4, <1>5, <1>6, <1>7, <1>8, <1>9 DEF Handle, ReadBody, Work, Write

LEMMA NextRequest ==
    ASSUME ShapeInv, AnswersInv, RequestInv, [Next]_vars
    PROVE  RequestInv'
<1> SUFFICES ASSUME NEW q \in Handler PROVE RequestOf(q)'
    BY DEF RequestInv
<1>1. RequestOf(q) /\ AnswersOf(q)
    BY DEF RequestInv, AnswersInv
<1>2. CASE Restart
    BY <1>2, IdleRequest DEF Restart, HandlersRestart
<1>3. CASE ~Restart /\ (Refresh \/ EditTable \/ UNCHANGED vars)
    <2>1. UNCHANGED handlerVars
        BY <1>3 DEF Refresh, NextPage, ScanFails, SkipItem, StartStore, EnterStore, StoreItem,
            ScanDone, Marshal, Publish, Invalidate, StartServing, Tick, EditTable, vars
    <2>2. Known(data) \subseteq Known(data')
        BY <1>3, KnownGrows
    <2> QED
        BY <1>1, <2>1, <2>2 DEF handlerVars, RequestOf, KindOf, PlaceOf, PassedOf, Apps
<1>4. ASSUME NEW p \in Handler, Arrive(p) \/ Handle(p) PROVE RequestOf(q)'
    <2>1. CASE p = q
        BY <1>1, <1>4, <2>1, ArriveRequest, HandleRequest
    <2>2. CASE p # q
        BY <1>1, <1>4, <2>2, HandleApart, ApartKeepsRequest
    <2> QED
        BY <2>1, <2>2
<1> QED
    BY <1>2, <1>3, <1>4 DEF Next

-----------------------------------------------------------------------------
(***************************************************************************)
(* Which step of the service a step of the code is.                        *)
(***************************************************************************)

Phases == [p \in Handler |-> Phase(p)]

Decisions == [p \in Handler |-> Decided(p)]

LEMMA Undecided ==
    ASSUME NEW p \in Handler, pc[p] \notin {"fill", "format"}
    PROVE  Decided(p) = NoResponse /\ Phase(p) = IF pc[p] = "idle" THEN "idle" ELSE "asked"
BY DEF Decided, Phase

\* A step of a handler leaves what the service sees of the others as it is.
LEMMA OneMoves ==
    ASSUME ShapeInv, NEW p \in Handler, Arrive(p) \/ Handle(p)
    PROVE  /\ data' = data
           /\ Phases' = [Phases EXCEPT ![p] = Phase(p)']
           /\ Decisions' = [Decisions EXCEPT ![p] = Decided(p)']
<1>1. data' = data /\ \A q \in Handler \ {p} : Apart(q)
    BY HandleApart
<1>2. \A q \in Handler \ {p} : bytes'[q] = bytes[q]
    BY HandlerAssumption
       DEF ShapeInv, StateTypeOK, ContentTypeOK, Arrive, Handle, ReadBody, Work, Write, RefusePost,
        AcceptPost, PostLoad, PostLoaded, Process, ProcessApp, Processed, PostRespond, WebStore,
        RefuseX, StoreLoad, StoreLoaded, StoreRespond, CacheHit, CacheMiss, PrintExtensions,
        Printed, Fill
<1>3. ASSUME NEW q \in Handler \ {p} PROVE Phase(q)' = Phase(q) /\ Decided(q)' = Decided(q)
    BY <1>1, <1>2 DEF Phase, Decided, Apart
<1>4. Phases' = [q \in Handler |-> Phase(q)'] /\ Decisions' = [q \in Handler |-> Decided(q)']
    BY DEF Phases, Decisions
<1> QED
    BY <1>1, <1>3, <1>4 DEF Phases, Decisions

LEMMA AskedStep ==
    ASSUME ShapeInv, NEW p \in Handler, Arrive(p)
    PROVE  Abstract!Ask(p)
<1>1. pc[p] = "idle" /\ pc'[p] \in {"post", "webstore", "all"}
    BY ArriveLabel DEF Arrive
<1>2. Phase(p) = "idle" /\ Phase(p)' = "asked" /\ Decided(p)' = NoResponse
      /\ Decided(p) = NoResponse
    BY <1>1 DEF Phase, Decided
<1>3. Phases' = [Phases EXCEPT ![p] = "asked"] /\ Decisions' = Decisions /\ data' = data
    BY <1>2, OneMoves DEF Decisions
<1>4. /\ \E r \in Request : req' = [req EXCEPT ![p] = r]
      /\ resp' = [resp EXCEPT ![p] = NoResponse]
    BY DEF Arrive
<1>5. Phases[p] = "idle"
    BY <1>2 DEF Phases
<1> QED
    BY <1>3, <1>4, <1>5, SameOperators DEF Abstract!Ask, Phases, Decisions

LEMMA AnsweredStep ==
    ASSUME ShapeInv, NEW p \in Handler, Handle(p), pc[p] \notin {"idle", "fill", "format"},
           NEW code, NEW sent, NEW listed, Reply(p, code, sent, listed),
           Abstract!Permitted(
               req[p], [code |-> code, answers |-> sent, catalog |-> listed], data)
    PROVE  Abstract!Answer(p)
<1> DEFINE o == [code |-> code, answers |-> sent, catalog |-> listed]
<1>1. /\ pc'[p] = "idle" /\ req' = req
      /\ resp' = [resp EXCEPT ![p] = o] /\ resp'[p] = o
    BY DEF Reply, Goto, ShapeInv, StateTypeOK, HandlerTypeOK
<1> HIDE DEF o
<1>2. Phase(p) = "asked" /\ Phase(p)' = "idle" /\ Decided(p)' = Decided(p)
    BY <1>1 DEF Phase, Decided
<1>3. Phases' = [Phases EXCEPT ![p] = "idle"] /\ Decisions' = Decisions /\ data' = data
    BY <1>2, OneMoves DEF Decisions
<1>4. Phases[p] = "asked"
    BY <1>2 DEF Phases
<1>5. Abstract!Permitted(req[p], resp'[p], data)
    BY <1>1 DEF o
<1> QED
    BY <1>1, <1>3, <1>4, <1>5 DEF Abstract!Answer, Phases, Decisions

LEMMA DecidedStep ==
    ASSUME ShapeInv, NEW p \in Handler, Handle(p), pc[p] \notin {"idle", "fill", "format"},
           pc'[p] \in {"fill", "format"}, UNCHANGED <<req, resp>>,
           Abstract!Permitted(req[p], Decided(p)', data)
    PROVE  Abstract!Decide(p)
<1>1. Phase(p) = "asked" /\ Phase(p)' = "decided"
    BY DEF Phase
<1>2. /\ Phases' = [Phases EXCEPT ![p] = "decided"] /\ Phases[p] = "asked"
      /\ Decisions' = [Decisions EXCEPT ![p] = Decided(p)']
      /\ Decisions'[p] = Decided(p)'
      /\ data' = data
    BY <1>1, OneMoves DEF Phases, Decisions
<1> QED
    BY <1>2 DEF Abstract!Decide, Phases, Decisions

LEMMA DeliveredStep ==
    ASSUME ShapeInv, NEW p \in Handler, Handle(p), pc[p] \in {"fill", "format"},
           NEW code, NEW sent, NEW listed, Reply(p, code, sent, listed),
           Decided(p) = [code |-> code, answers |-> sent, catalog |-> listed]
    PROVE  Abstract!Deliver(p)
<1>1. pc'[p] = "idle" /\ req' = req /\ resp' = [resp EXCEPT ![p] = Decided(p)]
    BY DEF Reply, Goto, ShapeInv, StateTypeOK, HandlerTypeOK
<1>2. Phase(p) = "decided" /\ Phase(p)' = "idle" /\ Decided(p)' = NoResponse
    BY <1>1 DEF Phase, Decided
<1>3. /\ Phases' = [Phases EXCEPT ![p] = "idle"] /\ Phases[p] = "decided"
      /\ Decisions' = [Decisions EXCEPT ![p] = NoResponse]
      /\ Decisions[p] = Decided(p)
      /\ data' = data
    BY <1>2, OneMoves DEF Phases, Decisions
<1> QED
    BY <1>1, <1>3, SameOperators DEF Abstract!Deliver, Phases, Decisions

\* The handler goes on, and the service has nothing new.
LEMMA SilentStep ==
    ASSUME ShapeInv, NEW p \in Handler, Handle(p), pc[p] \notin {"idle", "fill", "format"},
           pc'[p] \notin {"idle", "fill", "format"}, UNCHANGED <<req, resp>>
    PROVE  UNCHANGED Abstract!serviceVars
<1>1. Phase(p)' = Phase(p) /\ Decided(p)' = Decided(p)
    BY DEF Phase, Decided
<1>2. Phases' = Phases /\ Decisions' = Decisions /\ data' = data
    BY <1>1, OneMoves DEF Phases, Decisions
<1> QED
    BY <1>2 DEF Abstract!serviceVars, Phases, Decisions

LEMMA PostServes ==
    ASSUME ShapeInv, NEW p \in Handler, AnswersOf(p), KnownOf(p), RequestOf(p),
           RefusePost(p) \/ PostLoaded(p) \/ Processed(p) \/ PostRespond(p)
    PROVE  \/ Abstract!Answer(p) \/ Abstract!Decide(p) \/ Abstract!Deliver(p)
           \/ UNCHANGED Abstract!serviceVars
<1> USE DEF ShapeInv, StateTypeOK, HandlerTypeOK, ContentTypeOK
<1>0. Handle(p)
    BY DEF Handle, ReadBody, Work, Write
<1>1. CASE RefusePost(p)
    <2> DEFINE code == IF req[p].kind = "pingback" THEN 204 ELSE 400
               o == [code |-> code, answers |-> <<>>, catalog |-> NoEntry]
    <2>1. pc[p] = "post" /\ req[p].kind \in {"pingback", "rejected"}
          /\ Reply(p, code, <<>>, NoEntry)
        BY <1>1 DEF RefusePost, ReplyEmpty
    <2>2. o.code = code
        OBVIOUS
    <2> HIDE DEF o
    <2>3. Abstract!Permitted(req[p], o, data)
        BY <2>1, <2>2 DEF Abstract!Permitted
    <2> QED
        BY <1>0, <2>1, <2>3, AnsweredStep DEF o
<1>2. CASE PostLoaded(p)
    <2>1. /\ pc[p] = "loading" /\ data' = data
          /\ req[p].kind \in {"v3", "v4"} /\ Len(req[p].apps) = 1
        BY <1>2 DEF PostLoaded, DoneReading, RequestOf, KindOf, PlaceOf, Apps
    <2>2. CASE req[p].apps[1].id \in Known(data)
        <3>1. pc'[p] = "process" /\ UNCHANGED <<req, resp>>
            BY <1>2, <2>2 DEF PostLoaded, Goto, Apps
        <3> QED
            BY <1>0, <2>1, <3>1, SilentStep
    <2>3. CASE req[p].apps[1].id \notin Known(data)
        <3> DEFINE o == [code |-> 307, answers |-> <<>>, catalog |-> NoEntry]
        <3>1. Reply(p, 307, <<>>, NoEntry)
            BY <1>2, <2>3 DEF PostLoaded, ReplyEmpty, Apps
        <3>2. o.code = 307
            OBVIOUS
        <3> HIDE DEF o
        <3>3. Abstract!OnlyUnknown(req[p], data)
            BY <2>1, <2>3, SameOperators DEF Abstract!OnlyUnknown
        <3>4. Abstract!Permitted(req[p], o, data)
            BY <2>1, <3>2, <3>3 DEF Abstract!Permitted, Abstract!PermittedUpdate
        <3> QED
            BY <1>0, <2>1, <3>1, <3>4, AnsweredStep DEF o
    <2> QED
        BY <2>2, <2>3
<1>3. CASE Processed(p)
    <2>1. /\ pc[p] = "processing" /\ pc'[p] = "format" /\ at[p] > Len(Apps(p))
          /\ UNCHANGED <<req, resp, answers, at>> /\ data' = data
        BY <1>3 DEF Processed, Goto, DoneReading
    <2>2. /\ req[p].kind \in {"v3", "v4"} /\ req[p] \in Request
          /\ at[p] - 1 = Len(req[p].apps)
        BY <2>1, AppsType DEF RequestOf, KindOf, PlaceOf, Apps
    <2>3. answers[p] = [i \in 1 .. Len(req[p].apps) |-> Verdict(req[p].apps[i], data)]
        BY <2>1, <2>2 DEF AnswersOf, LoopAnswers, Apps
    <2>4. ~ Abstract!OnlyUnknown(req[p], data)
        BY <2>1, SameOperators DEF Abstract!OnlyUnknown, KnownOf, Apps
    <2>5. IF req[p].kind = "v4" /\ ~V4Formattable(answers[p])
          THEN Abstract!Permitted(
                   req[p], [code |-> 500, answers |-> <<>>, catalog |-> NoEntry], data)
          ELSE Abstract!Permitted(
                   req[p],
                   [code |-> 200, answers |-> Response(answers[p]), catalog |-> NoEntry], data)
        BY <2>2, <2>3, <2>4, UpdatePermitted
    <2>6. Decided(p)' =
              IF req[p].kind = "v4" /\ ~V4Formattable(answers[p])
              THEN [code |-> 500, answers |-> <<>>, catalog |-> NoEntry]
              ELSE [code |-> 200, answers |-> Response(answers[p]), catalog |-> NoEntry]
        BY <2>1, <2>2 DEF Decided
    <2>7. Abstract!Permitted(req[p], Decided(p)', data)
        BY <2>5, <2>6
    <2> QED
        BY <1>0, <2>1, <2>7, DecidedStep
<1>4. CASE PostRespond(p)
    <2>1. pc[p] = "format" /\ req[p].kind \in {"v3", "v4"}
        BY <1>4 DEF PostRespond, RequestOf, KindOf
    <2>2. CASE req[p].kind = "v4" /\ ~V4Formattable(answers[p])
        <3>1. /\ Reply(p, 500, <<>>, NoEntry)
              /\ Decided(p) = [code |-> 500, answers |-> <<>>, catalog |-> NoEntry]
            BY <1>4, <2>1, <2>2 DEF PostRespond, ReplyEmpty, Decided
        <3> QED
            BY <1>0, <2>1, <3>1, DeliveredStep
    <2>3. CASE ~ (req[p].kind = "v4" /\ ~V4Formattable(answers[p]))
        <3>1. /\ Reply(p, 200, Response(answers[p]), NoEntry)
              /\ Decided(p) = [code |-> 200, answers |-> Response(answers[p]),
                               catalog |-> NoEntry]
            BY <1>4, <2>1, <2>3 DEF PostRespond, Decided
        <3> QED
            BY <1>0, <2>1, <3>1, DeliveredStep
    <2> QED
        BY <2>2, <2>3
<1> QED
    BY <1>1, <1>2, <1>3, <1>4

LEMMA StoreServes ==
    ASSUME ShapeInv, NEW p \in Handler, OffersOf(p), RequestOf(p),
           RefuseX(p) \/ StoreLoaded(p) \/ StoreRespond(p)
    PROVE  Abstract!Answer(p) \/ UNCHANGED Abstract!serviceVars
<1> USE DEF ShapeInv, StateTypeOK, HandlerTypeOK, ContentTypeOK
<1>0. /\ Handle(p) /\ pc[p] \in {"store", "nested"}
      /\ req[p].kind = "webstore" /\ req[p] \in Request
    BY DEF Handle, ReadBody, Work, RefuseX, StoreLoaded, StoreRespond, RequestOf, KindOf
<1>1. DOMAIN req[p].apps = 1 .. Len(Apps(p)) /\ Len(Apps(p)) \in Nat
    BY AppsType, LenProperties DEF Apps
<1>2. CASE RefuseX(p)
    <2> DEFINE o == [code |-> 400, answers |-> <<>>, catalog |-> NoEntry]
    <2>1. pc[p] = "store" /\ at[p] <= Len(Apps(p)) /\ req[p].apps[at[p]].id = NoID
          /\ Reply(p, 400, <<>>, NoEntry)
        BY <1>2 DEF RefuseX, ReplyEmpty, Apps
    <2>2. o.code = 400 /\ at[p] \in DOMAIN req[p].apps
        BY <1>1, <2>1
    <2> HIDE DEF o
    <2>3. Abstract!Permitted(req[p], o, data)
        BY <1>0, <2>1, <2>2 DEF Abstract!Permitted, Abstract!PermittedWebStore
    <2> QED
        BY <1>0, <2>1, <2>3, AnsweredStep DEF o
<1>3. CASE StoreLoaded(p)
    <2>1. pc[p] = "nested" /\ at[p] \in DOMAIN req[p].apps /\ req[p].apps[at[p]].id # NoID
        BY <1>1, <1>3 DEF StoreLoaded, LoopInv, RequestOf, PassedOf, Apps
    <2>2. CASE req[p].apps[at[p]].id \notin Known(data) /\ Len(Apps(p)) = 1
        <3> DEFINE o == [code |-> 307, answers |-> <<>>, catalog |-> NoEntry]
        <3>1. Reply(p, 307, <<>>, NoEntry)
            BY <1>3, <2>2 DEF StoreLoaded, ReplyEmpty, Apps
        <3>2. DOMAIN req[p].apps = {1} /\ at[p] = 1
            BY <1>1, <2>1, <2>2
        <3>3. Abstract!OnlyUnknown(req[p], data)
            BY <2>2, <3>2, SameOperators DEF Abstract!OnlyUnknown, Apps
        <3>4. o.code = 307 /\ ~ \E i \in DOMAIN req[p].apps : req[p].apps[i].id = NoID
            BY <2>1, <3>2
        <3> HIDE DEF o
        <3>5. Abstract!Permitted(req[p], o, data)
            BY <1>0, <3>3, <3>4 DEF Abstract!Permitted, Abstract!PermittedWebStore
        <3> QED
            BY <1>0, <2>1, <3>1, <3>5, AnsweredStep DEF o
    <2>3. CASE ~ (req[p].apps[at[p]].id \notin Known(data) /\ Len(Apps(p)) = 1)
        <3>1. pc'[p] = "store" /\ UNCHANGED <<req, resp>>
            BY <1>3, <2>3 DEF StoreLoaded, Goto, Apps
        <3> QED
            BY <1>0, <2>1, <3>1, SilentStep
    <2> QED
        BY <2>2, <2>3
<1>4. CASE StoreRespond(p)
    <2>1. /\ pc[p] = "store" /\ at[p] > Len(Apps(p))
          /\ Reply(p, 200, Response(answers[p]), NoEntry)
        BY <1>4 DEF StoreRespond
    <2>2. at[p] - 1 = Len(req[p].apps)
        BY <1>1, <2>1 DEF RequestOf, PlaceOf, Apps
    <2>3. /\ Newer(p) = {i \in 1 .. Len(req[p].apps) :
                            CompareVersions(req[p].apps[i].version,
                                            Found(req[p].apps[i].id, data).version) < 0}
          /\ Len(answers[p]) = Cardinality(Newer(p))
          /\ \A i \in Newer(p) :
                <<answers[p][Rank(Newer(p), i)]>> = Offer(req[p].apps[i], data)
        BY <2>1, <2>2 DEF OffersOf, Offers, OfferOf, Newer, Apps
    <2>4. \A i \in 1 .. Len(req[p].apps) : req[p].apps[i].id # NoID
        BY <2>1, <2>2 DEF RequestOf, PassedOf, Apps
    <2>5. ~ Abstract!OnlyUnknown(req[p], data)
        BY <2>1, SameOperators DEF RequestOf, PassedOf, Apps, Abstract!OnlyUnknown
    <2>6. Abstract!Permitted(
              req[p], [code |-> 200, answers |-> Response(answers[p]), catalog |-> NoEntry], data)
        BY <1>0, <2>3, <2>4, <2>5, OffersPermitted
    <2> QED
        BY <1>0, <2>1, <2>6, AnsweredStep
<1> QED
    BY <1>2, <1>3, <1>4

LEMMA AllServes ==
    ASSUME ShapeInv, ContentInv, NEW p \in Handler, RequestOf(p),
           CacheHit(p) \/ Printed(p) \/ Fill(p)
    PROVE  \/ Abstract!Answer(p) \/ Abstract!Decide(p) \/ Abstract!Deliver(p)
<1>0. /\ Handle(p) /\ pc[p] \in {"all", "printing", "fill"}
      /\ req[p].kind = "all"
    BY DEF Handle, ReadBody, Work, Write, CacheHit, Printed, Fill, RequestOf, KindOf
<1>1. ASSUME NEW code, NEW listed,
             code = 500 \/ (code = 200 /\ Known(listed) \subseteq Known(data))
      PROVE  Abstract!Permitted(
                 req[p], [code |-> code, answers |-> <<>>, catalog |-> listed], data)
    <2> DEFINE o == [code |-> code, answers |-> <<>>, catalog |-> listed]
    <2>1. o.code = code /\ o.catalog = listed
        OBVIOUS
    <2> HIDE DEF o
    <2>2. Abstract!Permitted(req[p], o, data)
        BY <1>0, <1>1, <2>1, SameOperators DEF Abstract!Permitted, Abstract!PermittedAll
    <2> QED
        BY <2>2 DEF o
<1>2. CASE CacheHit(p)
    <2>1. pc[p] = "all" /\ Reply(p, 200, <<>>, cache) /\ Known(cache) \subseteq Known(data)
        BY <1>2 DEF CacheHit, ContentInv, Within
    <2> QED
        BY <1>0, <1>1, <2>1, AnsweredStep
<1>3. CASE Printed(p)
    <2>1. CASE ReplyEmpty(p, 500)
        <3>1. pc[p] = "printing" /\ Reply(p, 500, <<>>, NoEntry)
            BY <1>3, <2>1 DEF Printed, ReplyEmpty
        <3> QED
            BY <1>0, <1>1, <3>1, AnsweredStep
    <2>2. CASE /\ bytes' = [bytes EXCEPT ![p] = data] /\ Goto(p, "fill")
               /\ UNCHANGED <<req, at, answers, resp>>
        <3>1. pc[p] = "printing" /\ pc'[p] = "fill" /\ bytes'[p] = data
            BY <1>3, <2>2, HandlerAssumption
               DEF Printed, Goto, ShapeInv, StateTypeOK, HandlerTypeOK, ContentTypeOK
        <3>2. Decided(p)' = [code |-> 200, answers |-> <<>>, catalog |-> data]
            BY <3>1 DEF Decided
        <3>3. Abstract!Permitted(req[p], Decided(p)', data)
            BY <1>1, <3>2
        <3> QED
            BY <1>0, <2>2, <3>1, <3>3, DecidedStep
    <2> QED
        BY <1>3, <2>1, <2>2 DEF Printed
<1>4. CASE Fill(p)
    <2>1. /\ pc[p] = "fill" /\ Reply(p, 200, <<>>, bytes[p])
          /\ Decided(p) = [code |-> 200, answers |-> <<>>, catalog |-> bytes[p]]
        BY <1>4 DEF Fill, Decided
    <2> QED
        BY <1>0, <2>1, DeliveredStep
<1> QED
    BY <1>2, <1>3, <1>4

LEMMA HandleServes ==
    ASSUME ShapeInv, ContentInv, NEW p \in Handler, AnswersOf(p), KnownOf(p), OffersOf(p),
           RequestOf(p), Handle(p)
    PROVE  \/ Abstract!Answer(p) \/ Abstract!Decide(p) \/ Abstract!Deliver(p)
           \/ UNCHANGED Abstract!serviceVars
<1>1. CASE RefusePost(p) \/ PostLoaded(p) \/ Processed(p) \/ PostRespond(p)
    BY <1>1, PostServes
<1>2. CASE RefuseX(p) \/ StoreLoaded(p) \/ StoreRespond(p)
    BY <1>2, StoreServes
<1>3. CASE CacheHit(p) \/ Printed(p) \/ Fill(p)
    BY <1>3, AllServes
<1>4. CASE \/ AcceptPost(p) \/ PostLoad(p) \/ Process(p) \/ ProcessApp(p)
           \/ WebStore(p) \/ StoreLoad(p) \/ CacheMiss(p) \/ PrintExtensions(p)
    <2>1. /\ pc[p] \notin {"idle", "fill", "format"} /\ pc'[p] \notin {"idle", "fill", "format"}
          /\ UNCHANGED <<req, resp>>
        BY <1>4 DEF ShapeInv, StateTypeOK, HandlerTypeOK, AcceptPost, PostLoad, Process,
            ProcessApp, WebStore, StoreLoad, CacheMiss, PrintExtensions, Goto, NextApp
    <2> QED
        BY <2>1, SilentStep
<1> QED
    BY <1>1, <1>2, <1>3, <1>4 DEF Handle, ReadBody, Work, Write

LEMMA RefreshServes ==
    ASSUME ShapeInv, Refresh \/ EditTable \/ UNCHANGED vars
    PROVE  Abstract!Learn \/ UNCHANGED Abstract!serviceVars
<1>1. UNCHANGED handlerVars /\ \A p \in Handler : bytes'[p] = bytes[p]
    BY HandlerAssumption
       DEF ShapeInv, StateTypeOK, ContentTypeOK, Refresh, NextPage, ScanFails, SkipItem,
        StartStore, EnterStore, StoreItem, ScanDone, Marshal, Publish, Invalidate, StartServing,
        Tick, EditTable, vars
<1>2. Phases' = Phases /\ Decisions' = Decisions /\ req' = req /\ resp' = resp
    BY <1>1 DEF Phases, Decisions, Phase, Decided, handlerVars
<1>3. CASE StoreItem
    <2>1. PICK id \in ID : batch[id] \in Extension /\ Store(Refresher, id, Normalise(batch[id]))
        BY <1>3 DEF StoreItem
    <2>2. Normalise(batch[id]) \in Abstract!Extension
        BY <2>1, NormaliseType, SameOperators
    <2>3. data' = [data EXCEPT ![id] = Normalise(batch[id])]
        BY <2>1 DEF Store
    <2> QED
        BY <1>2, <2>2, <2>3 DEF Abstract!Learn, Phases, Decisions
<1>4. CASE ~StoreItem
    <2>1. data' = data
        BY <1>4 DEF Refresh, NextPage, ScanFails, SkipItem, StartStore, EnterStore, ScanDone,
            Marshal, Publish, Invalidate, StartServing, Tick, EditTable, DoneReading, mapVars, vars
    <2> QED
        BY <1>2, <2>1 DEF Abstract!serviceVars, Phases, Decisions
<1> QED
    BY <1>3, <1>4

LEMMA RestartServes ==
    ASSUME Restart
    PROVE  Abstract!Restart
<1>1. /\ data' = EmptyCatalog
      /\ pc' = [p \in Handler |-> "idle"]
      /\ req' = [p \in Handler |-> NoRequest]
      /\ resp' = [p \in Handler |-> NoResponse]
    BY DEF Restart, MapRestart, HandlersRestart
<1>2. Phases' = [p \in Handler |-> "idle"] /\ Decisions' = [p \in Handler |-> NoResponse]
    BY <1>1 DEF Phases, Decisions, Phase, Decided
<1> QED
    BY <1>1, <1>2, SameOperators DEF Abstract!Restart, Phases, Decisions

ServiceInv ==
    ShapeInv /\ AnswersInv /\ ContentInv /\ KnownInv /\ OffersInv /\ RequestInv

LEMMA NextServes ==
    ASSUME ServiceInv, [Next]_vars
    PROVE  [Abstract!ServiceNext]_Abstract!serviceVars
<1> USE DEF ServiceInv
<1>1. CASE Refresh \/ EditTable \/ UNCHANGED vars
    BY <1>1, RefreshServes DEF Abstract!ServiceNext
<1>2. CASE Restart
    BY <1>2, RestartServes DEF Abstract!ServiceNext
<1>3. ASSUME NEW p \in Handler, Arrive(p) PROVE Abstract!ServiceNext
    BY <1>3, AskedStep DEF Abstract!ServiceNext
<1>4. ASSUME NEW p \in Handler, Handle(p)
      PROVE  Abstract!ServiceNext \/ UNCHANGED Abstract!serviceVars
    <2>1. AnswersOf(p) /\ KnownOf(p) /\ OffersOf(p) /\ RequestOf(p)
        BY DEF AnswersInv, KnownInv, OffersInv, RequestInv
    <2> QED
        BY <1>4, <2>1, HandleServes DEF Abstract!ServiceNext
<1> QED
    BY <1>1, <1>2, <1>3, <1>4 DEF Next

LEMMA InitServes == Init => ServiceInv /\ Abstract!ServiceInit
<1> SUFFICES ASSUME Init PROVE ServiceInv /\ Abstract!ServiceInit
    OBVIOUS
<1>1. AnswersInv /\ OffersInv /\ RequestInv
    BY DEF Init, AnswersInv, AnswersOf, OffersInv, OffersOf, RequestInv, RequestOf, KindOf,
        PlaceOf, PassedOf
<1>2. KnownInv
    <2>1. Len(<<>>) # 1 /\ \A p \in Handler : Apps(p) = <<>>
        BY DEF Init, NoRequest, Apps
    <2> QED
        BY <2>1 DEF KnownInv, KnownOf
<1>3. Phases = [p \in Handler |-> "idle"] /\ Decisions = [p \in Handler |-> NoResponse]
    BY DEF Init, Phases, Decisions, Phase, Decided
<1>4. Abstract!ServiceInit
    BY <1>3, SameOperators DEF Init, MapInit, Abstract!ServiceInit, Phases, Decisions
<1> QED
    BY <1>1, <1>2, <1>4, InitShape, InitContent DEF ServiceInv

(***************************************************************************)
(* Through all interleavings of any number of handlers with Stores, cache  *)
(* fills and restarts, each response is one the catalog service could have *)
(* given by deciding the request at a single moment.                       *)
(***************************************************************************)
THEOREM ControllerImplementsService == Spec => ImplementsService
<1>1. ServiceInv /\ [Next]_vars => ServiceInv'
    BY NextShape, NextAnswers, NextContent, NextKnown, NextOffers, NextRequest DEF ServiceInv
<1>2. ServiceInv /\ [Next]_vars => [Abstract!ServiceNext]_Abstract!serviceVars
    BY NextServes
<1> QED
    BY <1>1, <1>2, InitServes, PTL DEF Spec, ImplementsService, Abstract!Service
=============================================================================
