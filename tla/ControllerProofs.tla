-------------------------- MODULE ControllerProofs --------------------------
(***************************************************************************)
(* Theorems about the controller, for any number of request slots, any     *)
(* table, any paging of it and any requests.                               *)
(***************************************************************************)
EXTENDS Controller, ExtensionsMapProofs, ExtensionsProofs

-----------------------------------------------------------------------------
(***************************************************************************)
(* Type correctness.  The variables of the mutex are left to the lemmas of *)
(* ExtensionsMapProofs: their types rest on who holds which lock.          *)
(***************************************************************************)

HandlerTypeOK ==
    /\ pc \in [Handler -> HandlerLabels]
    /\ req \in [Handler -> Request \cup {NoRequest}]
    /\ at \in [Handler -> Nat \ {0}]
    /\ answers \in [Handler -> Seq(Verdicts)]
    /\ resp \in [Handler -> Outcome]

ContentTypeOK ==
    /\ data \in Catalog
    /\ bytes \in [Proc -> Catalog \cup {NoEntry}]
    /\ cache \in Catalog \cup {NoEntry}

RefreshTypeOK ==
    /\ rpc \in RefresherLabels
    /\ page \in 1 .. Len(Pages) + 1
    /\ batch \in Table
    /\ serving \in BOOLEAN
    /\ table \in Table
    /\ edits \in 0 .. MaxEdits
    /\ steady \in BOOLEAN
    /\ crashes \in 0 .. MaxCrashes

StateTypeOK == HandlerTypeOK /\ ContentTypeOK /\ RefreshTypeOK

LEMMA AppsType ==
    ASSUME StateTypeOK, NEW p \in Handler
    PROVE  /\ Apps(p) \in Seq(App)
           /\ Len(Apps(p)) \in Nat
           /\ \A i \in 1 .. Len(Apps(p)) : Apps(p)[i] \in App
<1>1. req[p] \in Request \cup {NoRequest}
    BY DEF StateTypeOK, HandlerTypeOK
<1>2. ASSUME NEW r \in Request PROVE r.apps \in Seq(App)
    <2>1. r \in [kind: Kinds, apps: Seq(App)]
        BY RequestAssumption
    <2> QED
        BY <2>1
<1>3. NoRequest.apps \in Seq(App)
    BY DEF NoRequest
<1>4. Apps(p) \in Seq(App)
    BY <1>1, <1>2, <1>3 DEF Apps
<1> QED
    BY <1>4, LenProperties, ElementOfSeq

LEMMA GotoType ==
    ASSUME StateTypeOK, NEW p \in Handler, NEW label \in HandlerLabels,
           Goto(p, label), UNCHANGED <<req, at, answers, resp>>
    PROVE  HandlerTypeOK'
BY DEF StateTypeOK, HandlerTypeOK, Goto

LEMMA ReplyType ==
    ASSUME StateTypeOK, NEW p \in Handler, NEW code \in {200, 204, 307, 400, 500},
           NEW sent \in Seq(SentAnswer), NEW listed \in Catalog \cup {NoEntry},
           Reply(p, code, sent, listed)
    PROVE  HandlerTypeOK'
<1>1. [code |-> code, answers |-> sent, catalog |-> listed] \in Outcome
    BY DEF Outcome
<1>2. resp' \in [Handler -> Outcome]
    BY <1>1 DEF Reply, StateTypeOK, HandlerTypeOK
<1>3. pc' \in [Handler -> HandlerLabels] /\ at' \in [Handler -> Nat \ {0}]
    BY DEF Reply, Goto, HandlerLabels, StateTypeOK, HandlerTypeOK
<1>4. <<>> \in Seq(Verdicts)
    OBVIOUS
<1>5. answers' \in [Handler -> Seq(Verdicts)]
    BY <1>4 DEF Reply, StateTypeOK, HandlerTypeOK
<1>6. req' = req
    BY DEF Reply
<1> QED
    BY <1>2, <1>3, <1>5, <1>6 DEF StateTypeOK, HandlerTypeOK

LEMMA ReplyEmptyType ==
    ASSUME StateTypeOK, NEW p \in Handler, NEW code \in {200, 204, 307, 400, 500},
           ReplyEmpty(p, code)
    PROVE  HandlerTypeOK'
<1>1. <<>> \in Seq(SentAnswer)
    OBVIOUS
<1> QED
    BY <1>1, ReplyType DEF ReplyEmpty

LEMMA ReplyListType ==
    ASSUME StateTypeOK, NEW p \in Handler, NEW listed \in Catalog \cup {NoEntry},
           Reply(p, 200, <<>>, listed)
    PROVE  HandlerTypeOK'
<1>1. <<>> \in Seq(SentAnswer)
    OBVIOUS
<1>2. \A code \in {200, 204, 307, 400, 500}, sent \in Seq(SentAnswer) :
        Reply(p, code, sent, listed) => HandlerTypeOK'
    BY ReplyType
<1> QED
    BY <1>1, <1>2, Zenon

LEMMA NextAppType ==
    ASSUME StateTypeOK, NEW p \in Handler, NEW label \in HandlerLabels,
           NEW appended \in Seq(Verdicts), NextApp(p, appended), Goto(p, label),
           UNCHANGED <<req, resp>>
    PROVE  HandlerTypeOK'
<1>1. answers[p] \in Seq(Verdicts)
    BY DEF StateTypeOK, HandlerTypeOK
<1>2. answers[p] \o appended \in Seq(Verdicts)
    BY <1>1, ConcatProperties
<1>3. answers' \in [Handler -> Seq(Verdicts)]
    BY <1>2 DEF NextApp, StateTypeOK, HandlerTypeOK
<1>4. at' \in [Handler -> Nat \ {0}]
    BY DEF NextApp, StateTypeOK, HandlerTypeOK
<1> QED
    BY <1>3, <1>4 DEF Goto, StateTypeOK, HandlerTypeOK

LEMMA InitType == Init => StateTypeOK
<1> SUFFICES ASSUME Init PROVE StateTypeOK
    OBVIOUS
<1>1. EmptyCatalog \in Catalog /\ EmptyCatalog \in Table
    BY DEF EmptyCatalog, Catalog, Table
<1>2. NoResponse \in Outcome
    <2>1. <<>> \in Seq(SentAnswer)
        OBVIOUS
    <2> QED
        BY <2>1 DEF NoResponse, Outcome
<1>3. HandlerTypeOK
    <2>1. <<>> \in Seq(Verdicts)
        OBVIOUS
    <2> QED
        BY <1>2, <2>1 DEF Init, HandlerTypeOK, HandlerLabels
<1>4. ContentTypeOK
    BY <1>1 DEF Init, MapInit, ContentTypeOK
<1>5. Len(Pages) \in Nat
    BY PagesAssumption, LenProperties
<1>6. RefreshTypeOK
    <2>1. table \in Table /\ edits \in 0 .. MaxEdits /\ crashes \in 0 .. MaxCrashes
        BY TableAssumption DEF Init
    <2>2. page \in 1 .. Len(Pages) + 1
        BY <1>5 DEF Init
    <2> QED
        BY <1>1, <2>1, <2>2 DEF Init, RefreshTypeOK, RefresherLabels
<1> QED
    BY <1>3, <1>4, <1>6 DEF StateTypeOK

\* What a handler leaves alone stays typed.
LEMMA OtherTypes ==
    ASSUME StateTypeOK, HandlerTypeOK', ContentTypeOK', UNCHANGED <<refreshVars, tableVars, crashes>>
    PROVE  StateTypeOK'
BY DEF StateTypeOK, RefreshTypeOK, refreshVars, tableVars

LEMMA ContentUnchanged ==
    ASSUME StateTypeOK, UNCHANGED <<data, bytes, cache>>
    PROVE  ContentTypeOK'
BY DEF StateTypeOK, ContentTypeOK

LEMMA ArriveType ==
    ASSUME StateTypeOK, NEW p \in Handler, Arrive(p)
    PROVE  StateTypeOK'
<1>1. PICK r \in Request : /\ req' = [req EXCEPT ![p] = r]
                           /\ Goto(p, IF Post(r) THEN "post" ELSE r.kind)
    BY DEF Arrive
<1>2. r.kind \in Kinds
    <2>1. r \in [kind: Kinds, apps: Seq(App)]
        BY RequestAssumption
    <2> QED
        BY <2>1
<1>3. (IF Post(r) THEN "post" ELSE r.kind) \in HandlerLabels
    BY <1>2 DEF Post, Kinds, HandlerLabels
<1>4. NoResponse \in Outcome
    <2>1. <<>> \in Seq(SentAnswer)
        OBVIOUS
    <2> QED
        BY <2>1 DEF NoResponse, Outcome
<1>5. pc' \in [Handler -> HandlerLabels]
    BY <1>1, <1>3 DEF Goto, StateTypeOK, HandlerTypeOK
<1>6. HandlerTypeOK'
    BY <1>1, <1>4, <1>5 DEF Arrive, StateTypeOK, HandlerTypeOK
<1>7. ContentTypeOK'
    BY ContentUnchanged DEF Arrive, mapVars
<1> QED
    BY <1>6, <1>7, OtherTypes DEF Arrive

\* The index of the web store loop is still within the list after RLock.
LoopInv == \A p \in Handler : pc[p] = "nested" => at[p] <= Len(Apps(p))

LEMMA HandleType ==
    ASSUME StateTypeOK, LoopInv, NEW p \in Handler, Handle(p)
    PROVE  StateTypeOK'
<1> USE DEF HandlerLabels
<1>1. CASE RefusePost(p)
    <2>1. HandlerTypeOK'
        BY <1>1, ReplyEmptyType DEF RefusePost
    <2> QED
        BY <1>1, <2>1, ContentUnchanged, OtherTypes DEF RefusePost, mapVars
<1>2. CASE AcceptPost(p)
    <2>1. HandlerTypeOK'
        BY <1>2, GotoType DEF AcceptPost
    <2> QED
        BY <1>2, <2>1, ContentUnchanged, OtherTypes DEF AcceptPost, mapVars
<1>3. CASE PostLoad(p)
    <2>1. HandlerTypeOK'
        BY <1>3, GotoType DEF PostLoad
    <2> QED
        BY <1>3, <2>1, ContentUnchanged, OtherTypes DEF PostLoad
<1>4. CASE PostLoaded(p)
    <2>1. HandlerTypeOK'
        BY <1>4, GotoType, ReplyEmptyType DEF PostLoaded
    <2> QED
        BY <1>4, <2>1, ContentUnchanged, OtherTypes DEF PostLoaded, DoneReading
<1>5. CASE Process(p)
    <2>1. HandlerTypeOK'
        BY <1>5, GotoType DEF Process
    <2> QED
        BY <1>5, <2>1, ContentUnchanged, OtherTypes DEF Process
<1>6. CASE ProcessApp(p)
    <2>1. at[p] \in 1 .. Len(Apps(p))
        BY <1>6, AppsType DEF ProcessApp, StateTypeOK, HandlerTypeOK
    <2>2. Verdict(Apps(p)[at[p]], data) \in Verdicts
        BY <2>1, AppsType, VerdictType DEF StateTypeOK, ContentTypeOK
    <2>3. <<Verdict(Apps(p)[at[p]], data)>> \in Seq(Verdicts)
        BY <2>2
    <2>4. Goto(p, pc[p]) /\ pc[p] \in HandlerLabels
        BY <1>6 DEF ProcessApp, Goto, StateTypeOK, HandlerTypeOK
    <2>5. HandlerTypeOK'
        BY <1>6, <2>3, <2>4, NextAppType DEF ProcessApp
    <2> QED
        BY <1>6, <2>5, ContentUnchanged, OtherTypes DEF ProcessApp, mapVars
<1>7. CASE Processed(p)
    <2>1. HandlerTypeOK'
        BY <1>7, GotoType DEF Processed
    <2> QED
        BY <1>7, <2>1, ContentUnchanged, OtherTypes DEF Processed, DoneReading
<1>8. CASE PostRespond(p)
    <2>1. Response(answers[p]) \in Seq(SentAnswer)
        BY ResponseType DEF StateTypeOK, HandlerTypeOK
    <2>2. HandlerTypeOK'
        BY <1>8, <2>1, ReplyType, ReplyEmptyType DEF PostRespond
    <2> QED
        BY <1>8, <2>2, ContentUnchanged, OtherTypes DEF PostRespond, mapVars
<1>9. CASE WebStore(p)
    <2>1. HandlerTypeOK'
        BY <1>9, GotoType DEF WebStore
    <2> QED
        BY <1>9, <2>1, ContentUnchanged, OtherTypes DEF WebStore
<1>10. CASE RefuseX(p)
    <2>1. HandlerTypeOK'
        BY <1>10, ReplyEmptyType DEF RefuseX
    <2> QED
        BY <1>10, <2>1, ContentUnchanged, OtherTypes DEF RefuseX
<1>11. CASE StoreLoad(p)
    <2>1. HandlerTypeOK'
        BY <1>11, GotoType DEF StoreLoad
    <2> QED
        BY <1>11, <2>1, ContentUnchanged, OtherTypes DEF StoreLoad
<1>12. CASE StoreLoaded(p)
    <2>1. CASE ReplyEmpty(p, 307)
        BY <1>12, <2>1, ReplyEmptyType, ContentUnchanged, OtherTypes DEF StoreLoaded
    <2>2. CASE /\ NextApp(p, Offer(Apps(p)[at[p]], data))
               /\ Goto(p, "store")
               /\ UNCHANGED <<req, resp>>
        <3>1. at[p] \in 1 .. Len(Apps(p))
            BY <1>12, AppsType DEF StoreLoaded, LoopInv, StateTypeOK, HandlerTypeOK
        <3>2. Offer(Apps(p)[at[p]], data) \in Seq(Verdicts)
            BY <3>1, AppsType, OfferType DEF StateTypeOK, ContentTypeOK
        <3>3. HandlerTypeOK'
            BY <2>2, <3>2, NextAppType
        <3> QED
            BY <1>12, <3>3, ContentUnchanged, OtherTypes DEF StoreLoaded
    <2> QED
        BY <1>12, <2>1, <2>2 DEF StoreLoaded
<1>13. CASE StoreRespond(p)
    <2>1. Response(answers[p]) \in Seq(SentAnswer)
        BY ResponseType DEF StateTypeOK, HandlerTypeOK
    <2>2. HandlerTypeOK'
        BY <1>13, <2>1, ReplyType DEF StoreRespond
    <2> QED
        BY <1>13, <2>2, ContentUnchanged, OtherTypes DEF StoreRespond
<1>14. CASE CacheHit(p)
    <2>1. cache \in Catalog \cup {NoEntry} /\ Reply(p, 200, <<>>, cache)
        BY <1>14 DEF CacheHit, StateTypeOK, ContentTypeOK
    <2>2. HandlerTypeOK'
        BY <2>1, ReplyListType
    <2> QED
        BY <1>14, <2>2, ContentUnchanged, OtherTypes DEF CacheHit, mapVars
<1>15. CASE CacheMiss(p)
    <2>1. HandlerTypeOK'
        BY <1>15, GotoType DEF CacheMiss
    <2> QED
        BY <1>15, <2>1, ContentUnchanged, OtherTypes DEF CacheMiss, mapVars
<1>16. CASE PrintExtensions(p)
    <2>1. HandlerTypeOK'
        BY <1>16, GotoType DEF PrintExtensions
    <2> QED
        BY <1>16, <2>1, ContentUnchanged, OtherTypes DEF PrintExtensions
<1>17. CASE Printed(p)
    <2>1. HandlerTypeOK'
        BY <1>17, GotoType, ReplyEmptyType DEF Printed
    <2>2. ContentTypeOK'
        BY <1>17 DEF Printed, DoneReading, StateTypeOK, ContentTypeOK
    <2> QED
        BY <1>17, <2>1, <2>2, OtherTypes DEF Printed
<1>18. CASE Fill(p)
    <2>1. bytes[p] \in Catalog \cup {NoEntry}
        BY HandlerAssumption DEF StateTypeOK, ContentTypeOK
    <2>2. Reply(p, 200, <<>>, bytes[p])
        BY <1>18 DEF Fill
    <2>3. HandlerTypeOK'
        BY <2>1, <2>2, ReplyListType
    <2>4. ContentTypeOK'
        BY <1>18, <2>1 DEF Fill, mapVars, StateTypeOK, ContentTypeOK
    <2> QED
        BY <1>18, <2>3, <2>4, OtherTypes DEF Fill
<1> QED
    BY <1>1, <1>2, <1>3, <1>4, <1>5, <1>6, <1>7, <1>8, <1>9, <1>10, <1>11, <1>12,
       <1>13, <1>14, <1>15, <1>16, <1>17, <1>18 DEF Handle, ReadBody, Work, Write

LEMMA RefreshType ==
    ASSUME StateTypeOK, Refresh
    PROVE  StateTypeOK'
<1>1. ASSUME UNCHANGED handlerVars PROVE HandlerTypeOK'
    BY <1>1 DEF StateTypeOK, HandlerTypeOK, handlerVars
<1>2. Len(Pages) \in Nat /\ \A n \in 1 .. Len(Pages) : Pages[n] \in SUBSET ID
    BY PagesAssumption, LenProperties, ElementOfSeq
<1>3. Refresher \in Proc
    BY HandlerAssumption
<1>4. ASSUME NEW id \in ID
      PROVE  [batch EXCEPT ![id] = Absent] \in Table
    BY DEF StateTypeOK, RefreshTypeOK, Table
<1> USE DEF RefresherLabels, Step
<1>5. CASE NextPage
    <2>1. batch' \in Table
        BY <1>5 DEF NextPage, StateTypeOK, RefreshTypeOK, Table
    <2>2. page' \in 1 .. Len(Pages) + 1
        BY <1>2, <1>5 DEF NextPage, StateTypeOK, RefreshTypeOK
    <2> QED
        BY <1>1, <1>5, <2>1, <2>2, ContentUnchanged
        DEF NextPage, mapVars, tableVars, StateTypeOK, RefreshTypeOK
<1>6. CASE ScanFails
    BY <1>1, <1>6, ContentUnchanged DEF ScanFails, mapVars, tableVars, StateTypeOK, RefreshTypeOK
<1>7. CASE SkipItem
    <2>1. batch' \in Table
        BY <1>4, <1>7 DEF SkipItem
    <2> QED
        BY <1>1, <1>7, <2>1, ContentUnchanged
        DEF SkipItem, mapVars, tableVars, StateTypeOK, RefreshTypeOK
<1>8. CASE StartStore
    BY <1>1, <1>8, ContentUnchanged DEF StartStore, tableVars, StateTypeOK, RefreshTypeOK
<1>9. CASE EnterStore
    BY <1>1, <1>9, ContentUnchanged
    DEF EnterStore, refreshVars, tableVars, StateTypeOK, RefreshTypeOK
<1>10. CASE StoreItem
    <2>1. PICK id \in ID : /\ batch[id] \in Extension
                           /\ Store(Refresher, id, Normalise(batch[id]))
                           /\ batch' = [batch EXCEPT ![id] = Absent]
        BY <1>10 DEF StoreItem
    <2>2. data' \in Catalog
        BY <2>1, NormaliseType, StoreKeepsCatalog DEF StateTypeOK, ContentTypeOK
    <2>3. batch' \in Table
        BY <1>4, <2>1
    <2> QED
        BY <1>1, <1>10, <2>2, <2>3
        DEF StoreItem, tableVars, StateTypeOK, ContentTypeOK, RefreshTypeOK
<1>11. CASE ScanDone
    BY <1>1, <1>11, ContentUnchanged DEF ScanDone, tableVars, StateTypeOK, RefreshTypeOK
<1>12. CASE Marshal
    <2>1. bytes' \in [Proc -> Catalog \cup {NoEntry}]
        BY <1>12 DEF Marshal, StateTypeOK, ContentTypeOK
    <2> QED
        BY <1>1, <1>12, <2>1
        DEF Marshal, DoneReading, tableVars, StateTypeOK, ContentTypeOK, RefreshTypeOK
<1>13. CASE Publish
    <2>1. /\ cache' \in Catalog \cup {NoEntry}
          /\ bytes' \in [Proc -> Catalog \cup {NoEntry}]
        BY <1>3, <1>13 DEF Publish, StateTypeOK, ContentTypeOK
    <2> QED
        BY <1>1, <1>13, <2>1
        DEF Publish, mapVars, tableVars, StateTypeOK, ContentTypeOK, RefreshTypeOK
<1>14. CASE Invalidate
    BY <1>1, <1>14
    DEF Invalidate, mapVars, tableVars, StateTypeOK, ContentTypeOK, RefreshTypeOK
<1>15. CASE StartServing
    BY <1>1, <1>15, ContentUnchanged
    DEF StartServing, mapVars, tableVars, StateTypeOK, RefreshTypeOK
<1>16. CASE Tick
    BY <1>1, <1>2, <1>16, ContentUnchanged
    DEF Tick, mapVars, tableVars, StateTypeOK, RefreshTypeOK
<1> QED
    BY <1>5, <1>6, <1>7, <1>8, <1>9, <1>10, <1>11, <1>12, <1>13, <1>14, <1>15, <1>16
    DEF Refresh

LEMMA EditTableType ==
    ASSUME StateTypeOK, EditTable
    PROVE  StateTypeOK'
<1>1. table' \in Table /\ edits' \in 0 .. MaxEdits
    BY TableAssumption DEF EditTable, StateTypeOK, RefreshTypeOK, Table
<1>2. HandlerTypeOK'
    BY DEF EditTable, handlerVars, StateTypeOK, HandlerTypeOK
<1>3. ContentTypeOK'
    BY ContentUnchanged DEF EditTable, mapVars
<1> QED
    BY <1>1, <1>2, <1>3 DEF EditTable, refreshVars, StateTypeOK, RefreshTypeOK

LEMMA RestartType ==
    ASSUME StateTypeOK, Restart
    PROVE  StateTypeOK'
<1>1. EmptyCatalog \in Catalog /\ EmptyCatalog \in Table
    BY DEF EmptyCatalog, Catalog, Table
<1>2. /\ <<>> \in Seq(Verdicts)
      /\ <<>> \in Seq(SentAnswer)
      /\ Len(Pages) \in Nat
    BY PagesAssumption, LenProperties
<1>3. NoResponse \in Outcome
    BY <1>2 DEF NoResponse, Outcome
<1>4. HandlerTypeOK'
    BY <1>2, <1>3 DEF Restart, HandlersRestart, HandlerTypeOK, HandlerLabels
<1>5. ContentTypeOK'
    BY <1>1 DEF Restart, HandlersRestart, MapRestart, ContentTypeOK
<1>6. RefreshTypeOK'
    <2>1. crashes' \in 0 .. MaxCrashes /\ page' \in 1 .. Len(Pages) + 1
        BY <1>2, TableAssumption DEF Restart, StateTypeOK, RefreshTypeOK
    <2>2. table' = table /\ edits' = edits /\ steady' = TRUE /\ batch' = EmptyCatalog
        BY DEF Restart
    <2>3. rpc' = "scan" /\ serving' = FALSE
        BY DEF Restart
    <2> QED
        BY <1>1, <2>1, <2>2, <2>3 DEF StateTypeOK, RefreshTypeOK, RefresherLabels
<1> QED
    BY <1>4, <1>5, <1>6 DEF StateTypeOK

LEMMA NextType ==
    ASSUME StateTypeOK, LoopInv, [Next]_vars
    PROVE  StateTypeOK'
<1>1. CASE UNCHANGED vars
    BY <1>1 DEF vars, mapVars, handlerVars, refreshVars, tableVars,
                StateTypeOK, HandlerTypeOK, ContentTypeOK, RefreshTypeOK
<1> QED
    BY <1>1, ArriveType, HandleType, RefreshType, EditTableType, RestartType DEF Next

LEMMA NextLoop ==
    ASSUME StateTypeOK, LoopInv, [Next]_vars
    PROVE  LoopInv'
<1> SUFFICES ASSUME NEW q \in Handler, pc'[q] = "nested" PROVE at'[q] <= Len(req'[q].apps)
    BY DEF LoopInv, Apps
<1> USE DEF StateTypeOK, HandlerTypeOK, LoopInv, Apps
<1>1. ASSUME NEW p \in Handler, StoreLoad(p) PROVE at'[q] <= Len(req'[q].apps)
    BY <1>1 DEF StoreLoad, Goto
<1>2. ASSUME NEW p \in Handler, Arrive(p) PROVE at'[q] <= Len(req'[q].apps)
    <2>1. PICK r \in Request : /\ req' = [req EXCEPT ![p] = r]
                               /\ Goto(p, IF Post(r) THEN "post" ELSE r.kind)
        BY <1>2 DEF Arrive
    <2>2. r.kind \in Kinds
        <3>1. r \in [kind: Kinds, apps: Seq(App)]
            BY RequestAssumption
        <3> QED
            BY <3>1
    <2>3. q # p
        BY <2>1, <2>2 DEF Goto, Post, Kinds
    <2> QED
        BY <1>2, <2>1, <2>3 DEF Arrive, Goto
<1>3. ASSUME NEW p \in Handler, Handle(p), ~StoreLoad(p)
      PROVE  at'[q] <= Len(req'[q].apps)
    <2>1. pc'[q] = pc[q] /\ at'[q] = at[q] /\ req'[q] = req[q]
        BY <1>3 DEF Handle, ReadBody, Work, Write, RefusePost, AcceptPost, PostLoad, PostLoaded, Process, ProcessApp,
            Processed, PostRespond, WebStore, RefuseX, StoreLoaded, StoreRespond, CacheHit,
            CacheMiss, PrintExtensions, Printed, Fill, Goto, Reply, ReplyEmpty, NextApp
    <2> QED
        BY <2>1
<1>4. ASSUME UNCHANGED handlerVars PROVE at'[q] <= Len(req'[q].apps)
    BY <1>4 DEF handlerVars
<1>5. ASSUME Refresh \/ EditTable \/ UNCHANGED vars PROVE UNCHANGED handlerVars
    BY <1>5 DEF Refresh, NextPage, ScanFails, SkipItem, StartStore, EnterStore, StoreItem,
        ScanDone, Marshal, Publish, Invalidate, StartServing, Tick, EditTable, vars
<1>6. ASSUME Restart PROVE FALSE
    BY <1>6 DEF Restart, HandlersRestart
<1> QED
    BY <1>1, <1>2, <1>3, <1>4, <1>5, <1>6 DEF Next

-----------------------------------------------------------------------------
(***************************************************************************)
(* Who holds which lock.  Where a handler is says how often it has called  *)
(* RLock; the last of these calls has not returned if it is parked.  The   *)
(* refresher is the only writer, while it stores an item.                  *)
(***************************************************************************)

Held(p) ==
    IF pc[p] = "nested" THEN 2
    ELSE IF pc[p] \in {"loading", "processing", "printing", "store"} THEN 1
    ELSE 0

HandlerLocks ==
    \A p \in Handler :
        /\ readers[p] = Held(p) - (IF p \in queued THEN 1 ELSE 0)
        /\ p \in queued => Held(p) > 0

RefresherLocks ==
    /\ Refresher \notin queued
    /\ readers[Refresher] = IF rpc = "marshal" THEN 1 ELSE 0
    /\ writer = IF rpc = "store" THEN Refresher ELSE NoProc

LockInv == MutexInv /\ HandlerLocks /\ RefresherLocks

\* A handler moves; the others, and the refresher, stay where they are.
Moves(p) ==
    /\ \A q \in Handler \ {p} : pc'[q] = pc[q]
    /\ rpc' = rpc

LEMMA RLockKeepsLocks ==
    ASSUME StateTypeOK, LockInv, NEW p \in Handler, RLock(p), Moves(p),
           p \notin queued, Held(p)' = Held(p) + 1
    PROVE  LockInv'
<1>1. p \in Proc /\ p # Refresher /\ Handler \subseteq Proc /\ Refresher \in Proc
    BY HandlerAssumption
<1>2. MutexInv'
    BY <1>1, RLockKeepsMutex DEF LockInv
<1>3. readers[p] = Held(p) /\ Held(p) \in Nat
    BY DEF LockInv, HandlerLocks, Held
<1>4. HandlerLocks'
    <2> SUFFICES ASSUME NEW q \in Handler
                 PROVE  /\ readers'[q] = Held(q)' - (IF q \in queued' THEN 1 ELSE 0)
                        /\ q \in queued' => Held(q)' > 0
        BY DEF HandlerLocks
    <2>1. CASE q = p
        BY <1>1, <1>3, <2>1 DEF RLock, LockInv, MutexInv, MutexTypeOK
    <2>2. CASE q # p
        <3>1. Held(q)' = Held(q)
            BY <2>2 DEF Moves, Held
        <3>2. readers'[q] = readers[q] /\ (q \in queued' <=> q \in queued)
            BY <1>1, <2>2 DEF RLock, LockInv, MutexInv, MutexTypeOK
        <3> QED
            BY <3>1, <3>2 DEF LockInv, HandlerLocks
    <2> QED
        BY <2>1, <2>2
<1>5. RefresherLocks'
    BY <1>1 DEF RLock, Moves, LockInv, RefresherLocks, MutexInv, MutexTypeOK
<1> QED
    BY <1>2, <1>4, <1>5 DEF LockInv

LEMMA RUnlockKeepsLocks ==
    ASSUME StateTypeOK, LockInv, NEW p \in Handler, NEW n \in {1, 2}, RUnlock(p, n), Moves(p),
           Held(p) >= n, Held(p)' = Held(p) - n
    PROVE  LockInv'
<1>1. p \in Proc /\ p # Refresher /\ Handler \subseteq Proc /\ Refresher \in Proc
    BY HandlerAssumption
<1>2. readers[p] = Held(p) /\ Held(p) \in Nat /\ p \notin queued
    BY DEF LockInv, HandlerLocks, Held, RUnlock, Running
<1>3. MutexInv'
    BY <1>1, <1>2, RUnlockKeepsMutex DEF LockInv
<1>4. HandlerLocks'
    <2> SUFFICES ASSUME NEW q \in Handler
                 PROVE  /\ readers'[q] = Held(q)' - (IF q \in queued' THEN 1 ELSE 0)
                        /\ q \in queued' => Held(q)' > 0
        BY DEF HandlerLocks
    <2>1. CASE q = p
        BY <1>1, <1>2, <2>1 DEF RUnlock, LockInv, MutexInv, MutexTypeOK
    <2>2. CASE q # p
        <3>1. Held(q)' = Held(q)
            BY <2>2 DEF Moves, Held
        <3>2. readers'[q] = readers[q] /\ queued' = queued
            BY <1>1, <2>2 DEF RUnlock, LockInv, MutexInv, MutexTypeOK
        <3> QED
            BY <3>1, <3>2 DEF LockInv, HandlerLocks
    <2> QED
        BY <2>1, <2>2
<1>5. RefresherLocks'
    BY <1>1 DEF RUnlock, Moves, LockInv, RefresherLocks, MutexInv, MutexTypeOK
<1> QED
    BY <1>3, <1>4, <1>5 DEF LockInv

LEMMA MoveKeepsLocks ==
    ASSUME StateTypeOK, LockInv, NEW p \in Handler, UNCHANGED lockVars, Moves(p),
           Held(p)' = Held(p)
    PROVE  LockInv'
<1>1. MutexInv'
    BY DEF LockInv, lockVars, MutexInv, MutexTypeOK, Exclusion
<1>2. \A q \in Handler : Held(q)' = Held(q)
    BY DEF Moves, Held
<1>3. HandlerLocks'
    BY <1>2 DEF LockInv, HandlerLocks, lockVars
<1>4. RefresherLocks'
    BY DEF LockInv, RefresherLocks, lockVars, Moves
<1> QED
    BY <1>1, <1>3, <1>4 DEF LockInv

LEMMA GotoMoves ==
    ASSUME StateTypeOK, NEW p \in Handler, NEW label, Goto(p, label), UNCHANGED rpc
    PROVE  Moves(p) /\ pc'[p] = label
BY DEF Goto, Moves, StateTypeOK, HandlerTypeOK

LEMMA ArriveLocks ==
    ASSUME StateTypeOK, LockInv, NEW p \in Handler, Arrive(p)
    PROVE  LockInv'
<1>1. PICK r \in Request : Goto(p, IF Post(r) THEN "post" ELSE r.kind)
    BY DEF Arrive
<1>2. r.kind \in Kinds
    <2>1. r \in [kind: Kinds, apps: Seq(App)]
        BY RequestAssumption
    <2> QED
        BY <2>1
<1>3. Moves(p) /\ pc'[p] \in {"post", "webstore", "all"}
    BY <1>1, <1>2, GotoMoves DEF Arrive, refreshVars, Post, Kinds
<1>4. Held(p)' = Held(p)
    BY <1>3 DEF Held, Arrive
<1> QED
    BY <1>3, <1>4, MoveKeepsLocks DEF Arrive, mapVars, lockVars

LEMMA HandleLocks ==
    ASSUME StateTypeOK, LockInv, NEW p \in Handler, Handle(p)
    PROVE  LockInv'
<1>1. ASSUME NEW label, Goto(p, label), UNCHANGED rpc PROVE Moves(p) /\ pc'[p] = label
    BY <1>1, GotoMoves
<1>2. p \in queued => Held(p) > 0
    BY DEF LockInv, HandlerLocks
<1> USE DEF refreshVars
<1>3. CASE RefusePost(p)
    <2>1. Moves(p) /\ pc[p] = "post" /\ pc'[p] = "idle"
        BY <1>1, <1>3 DEF RefusePost, ReplyEmpty, Reply
    <2> QED
        BY <1>3, <2>1, MoveKeepsLocks DEF RefusePost, mapVars, lockVars, Held
<1>4. CASE AcceptPost(p)
    <2>1. Moves(p) /\ pc[p] = "post" /\ pc'[p] \in {"load", "process"}
        BY <1>1, <1>4 DEF AcceptPost
    <2> QED
        BY <1>4, <2>1, MoveKeepsLocks DEF AcceptPost, mapVars, lockVars, Held
<1>5. CASE PostLoad(p)
    <2>1. Moves(p) /\ pc[p] = "load" /\ pc'[p] = "loading"
        BY <1>1, <1>5 DEF PostLoad
    <2> QED
        BY <1>2, <1>5, <2>1, RLockKeepsLocks DEF PostLoad, Held
<1>6. CASE PostLoaded(p)
    <2>1. Moves(p) /\ pc[p] = "loading" /\ pc'[p] \in {"process", "idle"}
        BY <1>1, <1>6 DEF PostLoaded, ReplyEmpty, Reply
    <2> QED
        BY <1>6, <2>1, RUnlockKeepsLocks DEF PostLoaded, DoneReading, Held
<1>7. CASE Process(p)
    <2>1. Moves(p) /\ pc[p] = "process" /\ pc'[p] = "processing"
        BY <1>1, <1>7 DEF Process
    <2> QED
        BY <1>2, <1>7, <2>1, RLockKeepsLocks DEF Process, Held
<1>8. CASE ProcessApp(p)
    BY <1>8, MoveKeepsLocks DEF ProcessApp, mapVars, lockVars, Moves, Held
<1>9. CASE Processed(p)
    <2>1. Moves(p) /\ pc[p] = "processing" /\ pc'[p] = "format"
        BY <1>1, <1>9 DEF Processed
    <2> QED
        BY <1>9, <2>1, RUnlockKeepsLocks DEF Processed, DoneReading, Held
<1>10. CASE PostRespond(p)
    <2>1. Moves(p) /\ pc[p] = "format" /\ pc'[p] = "idle"
        BY <1>1, <1>10 DEF PostRespond, ReplyEmpty, Reply
    <2> QED
        BY <1>10, <2>1, MoveKeepsLocks DEF PostRespond, mapVars, lockVars, Held
<1>11. CASE WebStore(p)
    <2>1. Moves(p) /\ pc[p] = "webstore" /\ pc'[p] = "store"
        BY <1>1, <1>11 DEF WebStore
    <2> QED
        BY <1>2, <1>11, <2>1, RLockKeepsLocks DEF WebStore, Held
<1>12. CASE RefuseX(p)
    <2>1. Moves(p) /\ pc[p] = "store" /\ pc'[p] = "idle"
        BY <1>1, <1>12 DEF RefuseX, ReplyEmpty, Reply
    <2> QED
        BY <1>12, <2>1, RUnlockKeepsLocks DEF RefuseX, Held
<1>13. CASE StoreLoad(p)
    <2>1. Moves(p) /\ pc[p] = "store" /\ pc'[p] = "nested"
        BY <1>1, <1>13 DEF StoreLoad
    <2> QED
        BY <1>13, <2>1, RLockKeepsLocks DEF StoreLoad, Running, Held
<1>14. CASE StoreLoaded(p)
    <2>1. CASE RUnlock(p, 2) /\ ReplyEmpty(p, 307)
        <3>1. Moves(p) /\ pc[p] = "nested" /\ pc'[p] = "idle"
            BY <1>1, <1>14, <2>1 DEF StoreLoaded, ReplyEmpty, Reply
        <3> QED
            BY <2>1, <3>1, RUnlockKeepsLocks DEF Held
    <2>2. CASE RUnlock(p, 1) /\ Goto(p, "store")
        <3>1. Moves(p) /\ pc[p] = "nested" /\ pc'[p] = "store"
            BY <1>1, <1>14, <2>2 DEF StoreLoaded
        <3> QED
            BY <2>2, <3>1, RUnlockKeepsLocks DEF Held
    <2> QED
        BY <1>14, <2>1, <2>2 DEF StoreLoaded
<1>15. CASE StoreRespond(p)
    <2>1. Moves(p) /\ pc[p] = "store" /\ pc'[p] = "idle"
        BY <1>1, <1>15 DEF StoreRespond, Reply
    <2> QED
        BY <1>15, <2>1, RUnlockKeepsLocks DEF StoreRespond, Held
<1>16. CASE CacheHit(p)
    <2>1. Moves(p) /\ pc[p] = "all" /\ pc'[p] = "idle"
        BY <1>1, <1>16 DEF CacheHit, Reply
    <2> QED
        BY <1>16, <2>1, MoveKeepsLocks DEF CacheHit, mapVars, lockVars, Held
<1>17. CASE CacheMiss(p)
    <2>1. Moves(p) /\ pc[p] = "all" /\ pc'[p] = "print"
        BY <1>1, <1>17 DEF CacheMiss
    <2> QED
        BY <1>17, <2>1, MoveKeepsLocks DEF CacheMiss, mapVars, lockVars, Held
<1>18. CASE PrintExtensions(p)
    <2>1. Moves(p) /\ pc[p] = "print" /\ pc'[p] = "printing"
        BY <1>1, <1>18 DEF PrintExtensions
    <2> QED
        BY <1>2, <1>18, <2>1, RLockKeepsLocks DEF PrintExtensions, Held
<1>19. CASE Printed(p)
    <2>1. Moves(p) /\ pc[p] = "printing" /\ pc'[p] \in {"fill", "idle"}
        BY <1>1, <1>19 DEF Printed, ReplyEmpty, Reply
    <2> QED
        BY <1>19, <2>1, RUnlockKeepsLocks DEF Printed, DoneReading, Held
<1>20. CASE Fill(p)
    <2>1. Moves(p) /\ pc[p] = "fill" /\ pc'[p] = "idle"
        BY <1>1, <1>20 DEF Fill, Reply
    <2> QED
        BY <1>20, <2>1, MoveKeepsLocks DEF Fill, mapVars, lockVars, Held
<1> QED
    BY <1>3, <1>4, <1>5, <1>6, <1>7, <1>8, <1>9, <1>10, <1>11, <1>12, <1>13, <1>14,
       <1>15, <1>16, <1>17, <1>18, <1>19, <1>20 DEF Handle, ReadBody, Work, Write

LEMMA RefreshLocks ==
    ASSUME StateTypeOK, LockInv, Refresh
    PROVE  LockInv'
<1>1. Refresher \in Proc /\ Refresher \notin Handler /\ Handler \subseteq Proc
    BY HandlerAssumption
<1>2. UNCHANGED handlerVars
    BY DEF Refresh, NextPage, ScanFails, SkipItem, StartStore, EnterStore, StoreItem,
        ScanDone, Marshal, Publish, Invalidate, StartServing, Tick
<1>3. \A q \in Handler : Held(q)' = Held(q)
    BY <1>2 DEF handlerVars, Held
<1>4. ASSUME UNCHANGED lockVars, rpc' \notin {"marshal", "store"}, rpc \notin {"marshal", "store"}
      PROVE  LockInv'
    <2>1. MutexInv'
        BY <1>4 DEF LockInv, lockVars, MutexInv, MutexTypeOK, Exclusion
    <2>2. HandlerLocks' /\ RefresherLocks'
        BY <1>3, <1>4 DEF LockInv, lockVars, HandlerLocks, RefresherLocks
    <2> QED
        BY <2>1, <2>2 DEF LockInv
<1> USE DEF Step
<1>5. CASE NextPage \/ ScanFails \/ SkipItem \/ Publish \/ Invalidate \/ StartServing \/ Tick
    BY <1>4, <1>5 DEF NextPage, ScanFails, SkipItem, Publish, Invalidate, StartServing, Tick,
        mapVars, lockVars
<1>6. CASE StartStore
    <2>1. MutexInv'
        BY <1>1, <1>6, LockKeepsMutex DEF StartStore, LockInv
    <2>2. HandlerLocks' /\ RefresherLocks'
        BY <1>3, <1>6 DEF StartStore, Lock, LockInv, HandlerLocks, RefresherLocks
    <2> QED
        BY <2>1, <2>2 DEF LockInv
<1>7. CASE EnterStore
    <2>1. MutexInv'
        BY <1>1, <1>7, LockReturnsKeepsMutex DEF EnterStore, LockInv
    <2>2. HandlerLocks' /\ RefresherLocks'
        BY <1>3, <1>7 DEF EnterStore, LockReturns, refreshVars, LockInv, HandlerLocks, RefresherLocks
    <2> QED
        BY <2>1, <2>2 DEF LockInv
<1>8. CASE StoreItem
    <2>1. Unlock(Refresher) /\ rpc = "store" /\ rpc' = "scan"
        BY <1>8 DEF StoreItem, Store
    <2>2. MutexInv'
        BY <1>1, <2>1, UnlockKeepsMutex DEF LockInv
    <2>3. HandlerLocks'
        <3> SUFFICES ASSUME NEW q \in Handler
                     PROVE  /\ readers'[q] = Held(q)' - (IF q \in queued' THEN 1 ELSE 0)
                            /\ q \in queued' => Held(q)' > 0
            BY DEF HandlerLocks
        <3>1. /\ readers[q] = Held(q) - (IF q \in queued THEN 1 ELSE 0)
              /\ readers'[q] = readers[q] + (IF q \in queued THEN 1 ELSE 0)
              /\ queued' = {}
            BY <1>1, <2>1 DEF Unlock, LockInv, HandlerLocks
        <3>2. Held(q) \in Nat /\ Held(q)' = Held(q)
            BY <1>3 DEF Held
        <3> QED
            BY <3>1, <3>2
    <2>4. RefresherLocks'
        BY <1>1, <2>1 DEF Unlock, LockInv, RefresherLocks
    <2> QED
        BY <2>2, <2>3, <2>4 DEF LockInv
<1>9. CASE ScanDone
    <2>1. RLock(Refresher) /\ rpc = "scan" /\ rpc' = "marshal"
        BY <1>9 DEF ScanDone
    <2>2. MutexInv'
        BY <1>1, <2>1, RLockKeepsMutex DEF LockInv
    <2>3. /\ writer = NoProc
          /\ readers' = [readers EXCEPT ![Refresher] = @ + 1]
          /\ UNCHANGED <<queued, writer>>
        BY <2>1 DEF RLock, LockInv, RefresherLocks
    <2>4. HandlerLocks'
        BY <1>1, <1>3, <2>3 DEF LockInv, HandlerLocks, MutexInv, MutexTypeOK
    <2>5. RefresherLocks'
        BY <1>1, <2>1, <2>3 DEF LockInv, RefresherLocks, MutexInv, MutexTypeOK
    <2> QED
        BY <2>2, <2>4, <2>5 DEF LockInv
<1>10. CASE Marshal
    <2>1. RUnlock(Refresher, 1) /\ rpc = "marshal" /\ rpc' \in {"publish", "invalidate"}
        BY <1>10 DEF Marshal, DoneReading
    <2>2. readers[Refresher] = 1
        BY <2>1 DEF LockInv, RefresherLocks
    <2>3. MutexInv'
        BY <1>1, <2>1, <2>2, RUnlockKeepsMutex DEF LockInv
    <2>4. HandlerLocks'
        BY <1>1, <1>3, <2>1 DEF RUnlock, LockInv, HandlerLocks, MutexInv, MutexTypeOK
    <2>5. RefresherLocks'
        BY <1>1, <2>1, <2>2 DEF RUnlock, LockInv, RefresherLocks, MutexInv, MutexTypeOK
    <2> QED
        BY <2>3, <2>4, <2>5 DEF LockInv
<1> QED
    BY <1>5, <1>6, <1>7, <1>8, <1>9, <1>10 DEF Refresh

LEMMA InitLocks == Init => LockInv
<1> SUFFICES ASSUME Init PROVE LockInv
    OBVIOUS
<1>1. Handler \subseteq Proc /\ Refresher \in Proc
    BY HandlerAssumption
<1>2. MutexInv
    BY DEF Init, MapInit, MutexInv, MutexTypeOK, Exclusion
<1>3. HandlerLocks /\ RefresherLocks
    BY <1>1 DEF Init, MapInit, HandlerLocks, RefresherLocks, Held
<1> QED
    BY <1>2, <1>3 DEF LockInv

LEMMA RestartLocks ==
    ASSUME Restart
    PROVE  LockInv'
<1>1. Handler \subseteq Proc /\ Refresher \in Proc
    BY HandlerAssumption
<1>2. MutexInv'
    BY DEF Restart, MapRestart, MutexInv, MutexTypeOK, Exclusion
<1>3. HandlerLocks' /\ RefresherLocks'
    BY <1>1 DEF Restart, HandlersRestart, MapRestart, HandlerLocks, RefresherLocks, Held
<1> QED
    BY <1>2, <1>3 DEF LockInv

LEMMA NextLocks ==
    ASSUME StateTypeOK, LockInv, [Next]_vars
    PROVE  LockInv'
<1>1. CASE EditTable \/ UNCHANGED vars
    <2>1. UNCHANGED <<lockVars, pc, rpc>>
        BY <1>1 DEF EditTable, vars, mapVars, lockVars, handlerVars, refreshVars
    <2>2. MutexInv'
        BY <2>1 DEF LockInv, lockVars, MutexInv, MutexTypeOK, Exclusion
    <2>3. HandlerLocks' /\ RefresherLocks'
        BY <2>1 DEF LockInv, lockVars, HandlerLocks, RefresherLocks, Held
    <2> QED
        BY <2>2, <2>3 DEF LockInv
<1> QED
    BY <1>1, ArriveLocks, HandleLocks, RefreshLocks, RestartLocks DEF Next

-----------------------------------------------------------------------------

ShapeInv == StateTypeOK /\ LoopInv /\ LockInv

LEMMA InitShape == Init => ShapeInv
<1>1. Init => LoopInv
    BY DEF Init, LoopInv
<1> QED
    BY <1>1, InitType, InitLocks DEF ShapeInv

LEMMA NextShape == ShapeInv /\ [Next]_vars => ShapeInv'
BY NextType, NextLoop, NextLocks DEF ShapeInv

(***************************************************************************)
(* Every variable of the controller, of the map and of its mutex keeps its *)
(* type.  The mutex's part needs to know that nobody unlocks what it does  *)
(* not hold, which is why the invariant says who holds what.               *)
(***************************************************************************)
THEOREM TypeCorrect == Spec => []TypeOK
<1>1. ShapeInv => TypeOK
    BY DEF ShapeInv, StateTypeOK, HandlerTypeOK, ContentTypeOK, RefreshTypeOK,
           LockInv, MutexInv, MutexTypeOK, TypeOK, MapTypeOK
<1> QED
    BY <1>1, InitShape, NextShape, PTL DEF Spec

(***************************************************************************)
(* The handlers and the refresher, as they use the lock, never read the Go *)
(* map while it is written: also the web store loop, which re-enters the   *)
(* lock, and the cache fills.                                              *)
(***************************************************************************)
THEOREM ControllerExclusion == Spec => []Exclusion
<1>1. ShapeInv => Exclusion
    BY DEF ShapeInv, LockInv, MutexInv
<1> QED
    BY <1>1, InitShape, NextShape, PTL DEF Spec

\* In one process the map changes only when an item is stored, and then nobody
\* reads it.
LEMMA OnlyStoreChangesData ==
    ASSUME ShapeInv, [Next]_vars
    PROVE  data' = data \/ StoreItem \/ Restart
BY DEF Next, Arrive, Handle, ReadBody, Work, Write, RefusePost, AcceptPost, PostLoad, PostLoaded, Process, ProcessApp,
    Processed, PostRespond, WebStore, RefuseX, StoreLoad, StoreLoaded, StoreRespond, CacheHit,
    CacheMiss, PrintExtensions, Printed, Fill, Refresh, NextPage, ScanFails, SkipItem, StartStore,
    EnterStore, ScanDone, Marshal, Publish, Invalidate, StartServing, Tick, EditTable,
    DoneReading, mapVars, vars

LEMMA StoreItemFindsNoReaders ==
    ASSUME ShapeInv, StoreItem
    PROVE  /\ UNCHANGED <<handlerVars, bytes, cache>>
           /\ rpc = "store" /\ rpc' = "scan"
           /\ \A p \in Handler : readers[p] = 0
<1>1. writing
    BY DEF StoreItem, Store, Unlock
<1> QED
    BY <1>1, HandlerAssumption DEF StoreItem, Step, ShapeInv, LockInv, MutexInv, Exclusion

\* Nothing is forgotten: a stored row is an extension, never Absent.
LEMMA KnownGrows ==
    ASSUME ShapeInv, [Next]_vars, ~Restart
    PROVE  Known(data) \subseteq Known(data')
<1>1. CASE data' = data
    BY <1>1
<1>2. CASE StoreItem
    <2>1. PICK id \in ID : batch[id] \in Extension /\ Store(Refresher, id, Normalise(batch[id]))
        BY <1>2 DEF StoreItem
    <2>2. Normalise(batch[id]) # Absent
        BY <2>1, NormaliseType, AbsentAssumption
    <2> QED
        BY <2>1, <2>2 DEF Store, Known, ShapeInv, StateTypeOK, ContentTypeOK, Catalog
<1> QED
    BY <1>1, <1>2, OnlyStoreChangesData

-----------------------------------------------------------------------------
(***************************************************************************)
(* The answers of a POST come from one map.  A handler that is inside the  *)
(* loop either holds the read lock, so that the map cannot change, or is   *)
(* parked in its RLock, and then has no answers yet.                       *)
(***************************************************************************)

LoopAnswers(p) == [i \in 1 .. at[p] - 1 |-> Verdict(Apps(p)[i], data)]

LEMMA ReplyFresh ==
    ASSUME StateTypeOK, NEW p \in Handler, NEW code, NEW sent, NEW listed,
           Reply(p, code, sent, listed)
    PROVE  pc'[p] = "idle" /\ at'[p] = 1 /\ answers'[p] = <<>>
BY DEF Reply, Goto, StateTypeOK, HandlerTypeOK

\* One turn of the loop adds the verdict of one more app.
LEMMA LoopTurn ==
    ASSUME ShapeInv, NEW p \in Handler, answers[p] = LoopAnswers(p), ProcessApp(p)
    PROVE  answers'[p] = LoopAnswers(p)'
<1> DEFINE n == at[p]
           v == Verdict(Apps(p)[n], data)
<1>1. n \in Nat \ {0} /\ n <= Len(Apps(p))
    BY DEF ProcessApp, ShapeInv, StateTypeOK, HandlerTypeOK
<1>2. \A i \in 1 .. n : Verdict(Apps(p)[i], data) \in Verdicts
    <2> SUFFICES ASSUME NEW i \in 1 .. n PROVE Verdict(Apps(p)[i], data) \in Verdicts
        OBVIOUS
    <2>1. i \in 1 .. Len(Apps(p))
        BY <1>1, AppsType DEF ShapeInv
    <2> QED
        BY <2>1, AppsType, VerdictType DEF ShapeInv, StateTypeOK, ContentTypeOK
<1>3. answers'[p] = answers[p] \o <<v>> /\ at'[p] = n + 1 /\ data' = data /\ req' = req
    BY DEF ProcessApp, NextApp, mapVars, ShapeInv, StateTypeOK, HandlerTypeOK
<1>4. LoopAnswers(p)' = [i \in 1 .. n |-> Verdict(Apps(p)[i], data)]
    BY <1>1, <1>3 DEF LoopAnswers, Apps
<1>5. answers[p] \in Seq(Verdicts) /\ <<v>> \in Seq(Verdicts)
    BY <1>1, <1>2 DEF ShapeInv, StateTypeOK, HandlerTypeOK
<1>6. answers[p] = [i \in 1 .. n - 1 |-> Verdict(Apps(p)[i], data)] /\ Len(answers[p]) = n - 1
    <2>1. answers[p] = [i \in 1 .. n - 1 |-> Verdict(Apps(p)[i], data)]
        BY DEF LoopAnswers
    <2>2. DOMAIN answers[p] = 1 .. n - 1 /\ n - 1 \in Nat
        BY <1>1, <2>1
    <2> QED
        BY <1>5, <2>1, <2>2, LenProperties
<1>7. [i \in 1 .. n |-> Verdict(Apps(p)[i], data)] \in Seq(Verdicts)
    <2>1. [i \in 1 .. n |-> Verdict(Apps(p)[i], data)] \in [1 .. n -> Verdicts]
        BY <1>2
    <2> QED
        BY <1>1, <2>1, SeqDef
<1> HIDE DEF v, n
<1>8. answers[p] \o <<v>> = [i \in 1 .. n |-> Verdict(Apps(p)[i], data)]
    <2> DEFINE s == answers[p] \o <<v>>
               t == [i \in 1 .. n |-> Verdict(Apps(p)[i], data)]
    <2>1. Len(<<v>>) = 1 /\ <<v>>[1] = v
        OBVIOUS
    <2>2. s \in Seq(Verdicts) /\ Len(s) = n
        BY <1>1, <1>5, <1>6, <2>1, ConcatProperties
    <2>3. Len(t) = n
        <3>1. DOMAIN t = 1 .. n /\ DOMAIN t = 1 .. Len(t) /\ Len(t) \in Nat
            BY <1>7, LenProperties
        <3> QED
            BY <1>1, <3>1
    <2>4. \A i \in 1 .. n : s[i] = t[i]
        <3> SUFFICES ASSUME NEW i \in 1 .. n PROVE s[i] = t[i]
            OBVIOUS
        <3>1. s[i] = IF i <= n - 1 THEN answers[p][i] ELSE <<v>>[i - (n - 1)]
            BY <1>1, <1>5, <1>6, <2>1, ConcatProperties
        <3>2. CASE i <= n - 1
            BY <1>1, <1>6, <3>1, <3>2
        <3>3. CASE i = n
            <4>1. s[i] = <<v>>[1]
                <5>1. ~(i <= n - 1) /\ i - (n - 1) = 1
                    BY <1>1, <3>3
                <5> HIDE DEF s
                <5> QED
                    BY <3>1, <5>1
            <4>2. t[i] = v
                BY <3>3 DEF v
            <4> QED
                BY <2>1, <4>1, <4>2
        <3>4. i <= n - 1 \/ i = n
            <4> HIDE DEF s, t
            <4> QED
                BY <1>1
        <3> QED
            BY <3>2, <3>3, <3>4
    <2> QED
        BY <1>7, <2>2, <2>3, <2>4, SeqEqual
<1> QED
    BY <1>3, <1>4, <1>8

AnswersOf(p) ==
    /\ pc[p] \notin {"processing", "format", "store", "nested"} =>
           at[p] = 1 /\ answers[p] = <<>>
    /\ pc[p] = "processing" =>
           /\ answers[p] = LoopAnswers(p)
           /\ p \in queued => at[p] = 1

AnswersInv == \A p \in Handler : AnswersOf(p)

\* What the invariant says of q is left as it is.
Apart(q) ==
    /\ pc'[q] = pc[q] /\ at'[q] = at[q] /\ answers'[q] = answers[q] /\ req'[q] = req[q]
    /\ resp'[q] = resp[q]
    /\ q \in queued' <=> q \in queued

LEMMA ApartKeepsAnswers ==
    ASSUME NEW q \in Handler, AnswersOf(q), Apart(q), data' = data
    PROVE  AnswersOf(q)'
BY DEF Apart, AnswersOf, LoopAnswers, Apps

LEMMA HandleApart ==
    ASSUME ShapeInv, NEW p \in Handler, Arrive(p) \/ Handle(p)
    PROVE  data' = data /\ \A q \in Handler \ {p} : Apart(q)
<1>1. data' = data
    BY DEF Arrive, Handle, ReadBody, Work, Write, RefusePost, AcceptPost, PostLoad, PostLoaded, Process, ProcessApp,
        Processed, PostRespond, WebStore, RefuseX, StoreLoad, StoreLoaded, StoreRespond,
        CacheHit, CacheMiss, PrintExtensions, Printed, Fill, DoneReading, mapVars
<1>2. \A q \in Handler \ {p} : q \in queued' <=> q \in queued
    BY DEF Arrive, Handle, ReadBody, Work, Write, RefusePost, AcceptPost, PostLoad, PostLoaded, Process, ProcessApp,
        Processed, PostRespond, WebStore, RefuseX, StoreLoad, StoreLoaded, StoreRespond,
        CacheHit, CacheMiss, PrintExtensions, Printed, Fill, DoneReading, mapVars, RLock, RUnlock
<1>3. ASSUME NEW q \in Handler \ {p}
      PROVE  /\ pc'[q] = pc[q] /\ at'[q] = at[q] /\ answers'[q] = answers[q]
             /\ req'[q] = req[q] /\ resp'[q] = resp[q]
    BY DEF ShapeInv, StateTypeOK, HandlerTypeOK, Goto, Reply, ReplyEmpty, NextApp,
        Arrive, Handle, ReadBody, Work, Write, RefusePost, AcceptPost, PostLoad, PostLoaded, Process, ProcessApp,
        Processed, PostRespond, WebStore, RefuseX, StoreLoad, StoreLoaded, StoreRespond,
        CacheHit, CacheMiss, PrintExtensions, Printed, Fill
<1> QED
    BY <1>1, <1>2, <1>3 DEF Apart

LEMMA ArriveLabel ==
    ASSUME ShapeInv, NEW p \in Handler, Arrive(p)
    PROVE  pc'[p] \in {"post", "webstore", "all"}
<1>1. PICK r \in Request : Goto(p, IF Post(r) THEN "post" ELSE r.kind)
    BY DEF Arrive
<1> QED
    BY <1>1 DEF Goto, Post, ShapeInv, StateTypeOK, HandlerTypeOK

LEMMA HandleAnswers ==
    ASSUME ShapeInv, NEW p \in Handler, AnswersOf(p), Arrive(p) \/ Handle(p)
    PROVE  AnswersOf(p)'
<1> USE DEF ShapeInv, StateTypeOK, HandlerTypeOK
<1>1. CASE RefusePost(p) \/ PostRespond(p) \/ RefuseX(p) \/ StoreRespond(p) \/ CacheHit(p)
           \/ Fill(p)
    <2>1. \A code, sent, listed : Reply(p, code, sent, listed) =>
              pc'[p] = "idle" /\ at'[p] = 1 /\ answers'[p] = <<>>
        BY ReplyFresh
    <2>2. \E code, sent, listed : Reply(p, code, sent, listed)
        BY <1>1 DEF RefusePost, PostRespond, RefuseX, StoreRespond, CacheHit, Fill, ReplyEmpty
    <2> QED
        BY <2>1, <2>2 DEF AnswersOf
<1>2. CASE \/ Arrive(p) \/ AcceptPost(p) \/ PostLoad(p)
           \/ WebStore(p) \/ CacheMiss(p) \/ PrintExtensions(p)
    <2>1. /\ pc[p] \notin {"processing", "format", "store", "nested"}
          /\ at'[p] = at[p] /\ answers'[p] = answers[p]
          /\ pc'[p] # "processing"
        BY <1>2, ArriveLabel DEF Arrive, AcceptPost, PostLoad, WebStore, CacheMiss,
            PrintExtensions, Goto
    <2> QED
        BY <2>1 DEF AnswersOf
<1>3. CASE PostLoaded(p) \/ Printed(p)
    <2>1. pc[p] \in {"loading", "printing"}
        BY <1>3 DEF PostLoaded, Printed
    <2>2. CASE UNCHANGED <<at, answers>> /\ pc'[p] \in {"process", "fill"}
        BY <2>1, <2>2 DEF AnswersOf
    <2>3. CASE \E code \in {307, 500} : ReplyEmpty(p, code)
        <3>1. \A code, sent, listed : Reply(p, code, sent, listed) =>
                  pc'[p] = "idle" /\ at'[p] = 1 /\ answers'[p] = <<>>
            BY ReplyFresh
        <3> QED
            BY <2>3, <3>1 DEF AnswersOf, ReplyEmpty
    <2> QED
        BY <1>3, <2>2, <2>3 DEF PostLoaded, Printed, Goto
<1>4. CASE Process(p)
    <2>1. /\ pc[p] = "process" /\ pc'[p] = "processing"
          /\ at'[p] = at[p] /\ answers'[p] = answers[p]
        BY <1>4 DEF Process, Goto
    <2>2. at[p] = 1 /\ answers[p] = <<>>
        BY <2>1 DEF AnswersOf
    <2>3. LoopAnswers(p)' = <<>>
        BY <2>1, <2>2 DEF LoopAnswers
    <2> QED
        BY <2>1, <2>2, <2>3 DEF AnswersOf
<1>5. CASE ProcessApp(p)
    <2>1. pc[p] = "processing" /\ pc'[p] = "processing" /\ p \notin queued /\ queued' = queued
        BY <1>5 DEF ProcessApp, Running, mapVars
    <2>2. answers[p] = LoopAnswers(p)
        BY <2>1 DEF AnswersOf
    <2>3. answers'[p] = LoopAnswers(p)'
        BY <1>5, <2>2, LoopTurn
    <2> QED
        BY <2>1, <2>3 DEF AnswersOf
<1>6. CASE Processed(p) \/ StoreLoad(p)
    BY <1>6 DEF Processed, StoreLoad, Goto, AnswersOf
<1>7. CASE StoreLoaded(p)
    <2>1. CASE ReplyEmpty(p, 307)
        <3>1. \A code, sent, listed : Reply(p, code, sent, listed) =>
                  pc'[p] = "idle" /\ at'[p] = 1 /\ answers'[p] = <<>>
            BY ReplyFresh
        <3> QED
            BY <2>1, <3>1 DEF AnswersOf, ReplyEmpty
    <2>2. CASE pc'[p] = "store"
        BY <2>2 DEF AnswersOf
    <2> QED
        BY <1>7, <2>1, <2>2 DEF StoreLoaded, Goto
<1> QED
    BY <1>1, <1>2, <1>3, <1>4, <1>5, <1>6, <1>7 DEF Handle, ReadBody, Work, Write

LEMMA NextAnswers ==
    ASSUME ShapeInv, AnswersInv, [Next]_vars
    PROVE  AnswersInv'
<1> SUFFICES ASSUME NEW q \in Handler PROVE AnswersOf(q)'
    BY DEF AnswersInv
<1>1. AnswersOf(q)
    BY DEF AnswersInv
<1>2. CASE StoreItem
    <2>1. /\ UNCHANGED handlerVars
          /\ rpc = "store" /\ readers[q] = 0
          /\ queued' = {}
        BY <1>2, StoreItemFindsNoReaders DEF StoreItem, Store, Unlock
    <2>2. pc[q] = "processing" => Held(q) = 1
        BY DEF Held
    <2>3. pc[q] = "processing" => q \in queued
        <3>1. readers[q] = Held(q) - (IF q \in queued THEN 1 ELSE 0)
            BY DEF ShapeInv, LockInv, HandlerLocks
        <3> QED
            BY <2>1, <2>2, <3>1
    <2>4. pc[q] = "processing" => at[q] = 1 /\ answers[q] = LoopAnswers(q)
        BY <1>1, <2>3 DEF AnswersOf
    <2>5. at[q] = 1 => LoopAnswers(q) = <<>> /\ LoopAnswers(q)' = <<>>
        BY <2>1 DEF LoopAnswers, handlerVars
    <2> QED
        BY <1>1, <2>1, <2>4, <2>5 DEF AnswersOf, handlerVars
<1>3. CASE Refresh /\ ~StoreItem
    <2>1. UNCHANGED handlerVars /\ data' = data
        BY <1>3 DEF Refresh, NextPage, ScanFails, SkipItem, StartStore, EnterStore,
            ScanDone, Marshal, Publish, Invalidate, StartServing, Tick, mapVars, DoneReading
    <2>2. q \in queued' <=> q \in queued
        BY <1>3, HandlerAssumption DEF Refresh, NextPage, ScanFails, SkipItem, StartStore,
            EnterStore, ScanDone, Marshal, Publish, Invalidate, StartServing, Tick, mapVars,
            DoneReading, RLock, RUnlock, Lock, LockReturns
    <2> QED
        BY <1>1, <2>1, <2>2, ApartKeepsAnswers DEF Apart, handlerVars
<1>4. CASE EditTable \/ UNCHANGED vars
    <2>1. UNCHANGED <<handlerVars, mapVars>>
        BY <1>4 DEF EditTable, vars
    <2> QED
        BY <1>1, <2>1, ApartKeepsAnswers DEF Apart, handlerVars, mapVars
<1>5. ASSUME NEW p \in Handler, Arrive(p) \/ Handle(p) PROVE AnswersOf(q)'
    <2>1. CASE p = q
        BY <1>1, <1>5, <2>1, HandleAnswers
    <2>2. CASE p # q
        BY <1>1, <1>5, <2>2, HandleApart, ApartKeepsAnswers
    <2> QED
        BY <2>1, <2>2
<1>6. CASE Restart
    BY <1>6 DEF Restart, HandlersRestart, AnswersOf
<1> QED
    BY <1>2, <1>3, <1>4, <1>5, <1>6 DEF Next

LEMMA InitAnswers == Init => AnswersInv
BY DEF Init, AnswersInv, AnswersOf

(***************************************************************************)
(* Between two turns of its loop a POST has the answers of the one map it  *)
(* reads, for any number of apps, requests and Stores.                     *)
(***************************************************************************)
THEOREM PostAnswersOneMap == Spec => []AnswersFromOneMap
<1>1. AnswersInv => AnswersFromOneMap
    BY DEF AnswersInv, AnswersOf, LoopAnswers, AnswersFromOneMap
<1> QED
    BY <1>1, InitShape, NextShape, InitAnswers, NextAnswers, PTL DEF Spec

-----------------------------------------------------------------------------
(***************************************************************************)
(* The cache.  What was marshalled earlier lists nothing the map has lost, *)
(* because the map loses nothing; and between the refresher's Marshal and  *)
(* its Publish nobody stores, because only the refresher does.             *)
(***************************************************************************)

Within(listed) == listed # NoEntry => Known(listed) \subseteq Known(data)

ContentInv ==
    /\ \A q \in Proc : Within(bytes[q])
    /\ Within(cache)
    /\ rpc = "publish" => bytes[Refresher] = data

LEMMA WithinKept ==
    ASSUME ShapeInv, [Next]_vars, ~Restart, NEW listed, Within(listed)
    PROVE  listed # NoEntry => Known(listed) \subseteq Known(data')
BY KnownGrows DEF Within

\* What a step may put into the cache or into a goroutine's bytes.
LEMMA ContentSteps ==
    ASSUME ShapeInv, [Next]_vars
    PROVE  /\ \A q \in Proc : bytes'[q] \in {bytes[q], data, NoEntry}
           /\ cache' = cache \/ cache' = NoEntry \/ \E q \in Proc : cache' = bytes[q]
<1> USE DEF ShapeInv, StateTypeOK, ContentTypeOK
<1>1. ASSUME NEW p \in Handler, Arrive(p) \/ Handle(p)
      PROVE  /\ \A q \in Proc : bytes'[q] \in {bytes[q], data, NoEntry}
             /\ cache' = cache \/ \E q \in Proc : cache' = bytes[q]
    <2>1. CASE Printed(p)
        BY <2>1, HandlerAssumption DEF Printed
    <2>2. CASE Fill(p)
        BY <2>2, HandlerAssumption DEF Fill
    <2>3. CASE ~Printed(p) /\ ~Fill(p)
        BY <1>1, <2>3 DEF Arrive, Handle, ReadBody, Work, Write, RefusePost, AcceptPost, PostLoad, PostLoaded, Process,
            ProcessApp, Processed, PostRespond, WebStore, RefuseX, StoreLoad, StoreLoaded,
            StoreRespond, CacheHit, CacheMiss, PrintExtensions
    <2> QED
        BY <2>1, <2>2, <2>3
<1>2. CASE Refresh
    <2>1. CASE Marshal
        BY <2>1, HandlerAssumption DEF Marshal
    <2>2. CASE Publish
        BY <2>2, HandlerAssumption DEF Publish
    <2>3. CASE ~Marshal /\ ~Publish
        BY <1>2, <2>3 DEF Refresh, NextPage, ScanFails, SkipItem, StartStore, EnterStore,
            StoreItem, ScanDone, Invalidate, StartServing, Tick
    <2> QED
        BY <2>1, <2>2, <2>3
<1>3. CASE EditTable \/ UNCHANGED vars
    BY <1>3 DEF EditTable, vars
<1>4. CASE Restart
    BY <1>4 DEF Restart, HandlersRestart
<1> QED
    BY <1>1, <1>2, <1>3, <1>4 DEF Next

LEMMA PublishingMap ==
    ASSUME ShapeInv, ContentInv, [Next]_vars
    PROVE  rpc' = "publish" => bytes'[Refresher] = data'
<1> USE DEF ShapeInv, StateTypeOK, ContentTypeOK
<1>1. Refresher \in Proc /\ Refresher \notin Handler
    BY HandlerAssumption
<1>2. ASSUME NEW p \in Handler, Arrive(p) \/ Handle(p)
      PROVE  UNCHANGED rpc /\ bytes'[Refresher] = bytes[Refresher] /\ data' = data
    <2>1. data' = data
        BY <1>2, HandleApart
    <2>2. UNCHANGED rpc /\ bytes'[Refresher] = bytes[Refresher]
        BY <1>1, <1>2 DEF refreshVars, Arrive, Handle, ReadBody, Work, Write, RefusePost, AcceptPost, PostLoad,
            PostLoaded, Process, ProcessApp, Processed, PostRespond, WebStore, RefuseX,
            StoreLoad, StoreLoaded, StoreRespond, CacheHit, CacheMiss, PrintExtensions, Printed, Fill
    <2> QED
        BY <2>1, <2>2
<1>3. CASE Marshal
    BY <1>1, <1>3 DEF Marshal, DoneReading, Step
<1>4. CASE Refresh /\ ~Marshal
    BY <1>4 DEF Refresh, NextPage, ScanFails, SkipItem, StartStore, EnterStore, StoreItem,
        ScanDone, Publish, Invalidate, StartServing, Tick, Step, refreshVars, RefresherLabels,
        RefreshTypeOK
<1>5. CASE EditTable \/ UNCHANGED vars
    BY <1>5 DEF EditTable, vars, mapVars, refreshVars, ContentInv
<1>6. CASE Restart
    BY <1>6 DEF Restart
<1> QED
    BY <1>2, <1>3, <1>4, <1>5, <1>6 DEF Next, ContentInv

LEMMA NextContent ==
    ASSUME ShapeInv, ContentInv, [Next]_vars
    PROVE  ContentInv'
<1>1. CASE Restart
    BY <1>1 DEF Restart, HandlersRestart, ContentInv, Within
<1>2. CASE ~Restart
    <2>1. \A q \in Proc : Within(bytes[q])'
        <3> SUFFICES ASSUME NEW q \in Proc PROVE Within(bytes[q])'
            OBVIOUS
        <3>1. bytes'[q] \in {bytes[q], data, NoEntry}
            BY ContentSteps
        <3> QED
            BY <1>2, <3>1, WithinKept, KnownGrows DEF ContentInv, Within
    <2>2. Within(cache)'
        <3>1. cache' = cache \/ cache' = NoEntry \/ \E q \in Proc : cache' = bytes[q]
            BY ContentSteps
        <3> QED
            BY <1>2, <3>1, WithinKept DEF ContentInv, Within
    <2> QED
        BY <2>1, <2>2, PublishingMap DEF ContentInv
<1> QED
    BY <1>1, <1>2

LEMMA InitContent == Init => ContentInv
BY DEF Init, ContentInv, Within

(***************************************************************************)
(* The list of all extensions never shows one that a POST would not know,  *)
(* however late the PrintExtensions or the refresh that filled the cache.  *)
(***************************************************************************)
THEOREM CachedAreKnown == Spec => []CacheWithinMap
<1>1. ContentInv => CacheWithinMap
    BY DEF ContentInv, Within, CacheWithinMap
<1> QED
    BY <1>1, InitShape, NextShape, InitContent, NextContent, PTL DEF Spec

\* Only Publish ends a refresh that had the map to publish.
LEMMA PublishingStep ==
    ASSUME [Next]_vars, rpc = "publish", rpc' = "refreshed"
    PROVE  Publish
<1>1. ASSUME NEW p \in Handler, Arrive(p) \/ Handle(p) PROVE UNCHANGED rpc
    BY <1>1 DEF refreshVars, Arrive, Handle, ReadBody, Work, Write, RefusePost, AcceptPost, PostLoad,
        PostLoaded, Process, ProcessApp, Processed, PostRespond, WebStore, RefuseX,
        StoreLoad, StoreLoaded, StoreRespond, CacheHit, CacheMiss, PrintExtensions, Printed, Fill
<1>2. ~Restart /\ ((EditTable \/ UNCHANGED vars) => UNCHANGED rpc)
    BY DEF EditTable, vars, refreshVars, Restart
<1>3. Refresh
    BY <1>1, <1>2 DEF Next
<1> QED
    BY <1>3 DEF Refresh, NextPage, ScanFails, SkipItem, StartStore, EnterStore,
        StoreItem, ScanDone, Marshal, Invalidate, StartServing, Tick, refreshVars

(***************************************************************************)
(* A refresh that ends by setting the cache sets it to the map of that     *)
(* moment: nobody has stored since it marshalled the map.                  *)
(***************************************************************************)
THEOREM RefreshPublishes == Spec => RefreshPublishesMap
<1>1. ASSUME ShapeInv, ContentInv, [Next]_vars, rpc = "publish", rpc' = "refreshed"
      PROVE  cache' = data'
    BY <1>1, PublishingStep DEF Publish, mapVars, ContentInv
<1>2. ShapeInv /\ ContentInv /\ [Next]_vars =>
        [rpc = "publish" /\ rpc' = "refreshed" => cache' = data']_vars
    BY <1>1
<1> QED
    BY <1>2, InitShape, NextShape, InitContent, NextContent, PTL DEF Spec, RefreshPublishesMap

-----------------------------------------------------------------------------
(***************************************************************************)
(* The two look-ups of a single extension.                                 *)
(***************************************************************************)

Unknown == "error-unknownApplication"

KnownOf(p) ==
    Len(Apps(p)) = 1 =>
        /\ pc[p] \in {"process", "processing", "format"} => Apps(p)[1].id \in Known(data)
        /\ \A i \in DOMAIN answers[p] : answers[p][i].status # Unknown
        /\ pc[p] = "idle" /\ resp[p].code = 200 =>
               \A i \in DOMAIN resp[p].answers : resp[p].answers[i].status # Unknown

KnownInv == \A p \in Handler : KnownOf(p)

LEMMA ApartKeepsKnown ==
    ASSUME ShapeInv, Known(data) \subseteq Known(data'), NEW q \in Handler, KnownOf(q), Apart(q)
    PROVE  KnownOf(q)'
BY DEF Apart, KnownOf, Apps

LEMMA SentIsKnown ==
    ASSUME NEW given, \A i \in DOMAIN given : given[i].status # Unknown
    PROVE  \A i \in DOMAIN Response(given) : Response(given)[i].status # Unknown
BY DEF Response, Sent, GetUpdateStatus, Unknown

LEMMA OfferIsKnown ==
    ASSUME NEW app \in App, NEW m \in Catalog
    PROVE  \A i \in DOMAIN Offer(app, m) : Offer(app, m)[i].status # Unknown
<1> DEFINE found == Found(app.id, m)
           offer == [id      |-> IF app.id \in Known(m) THEN app.id ELSE NoID,
                     version |-> found.version,
                     hashed  |-> found.hashed,
                     status  |-> ""]
<1>1. offer.status # Unknown
    BY DEF Unknown
<1>2. Offer(app, m) = <<offer>> \/ Offer(app, m) = <<>>
    BY DEF Offer
<1> HIDE DEF offer
<1>3. \A i \in DOMAIN <<offer>> : <<offer>>[i] = offer
    OBVIOUS
<1>4. DOMAIN <<>> = {}
    OBVIOUS
<1> QED
    BY <1>1, <1>2, <1>3, <1>4

LEMMA VerdictIsKnown ==
    ASSUME NEW app \in App, NEW m \in Catalog, app.id \in Known(m)
    PROVE  Verdict(app, m).status # Unknown
<1>1. Verdict(app, m).status \in {"restricted", "noupdate", ""}
    BY DEF Verdict
<1> QED
    BY <1>1 DEF Unknown

LEMMA AppendKnown ==
    ASSUME NEW s \in Seq(Verdicts), NEW t \in Seq(Verdicts),
           \A i \in DOMAIN s : s[i].status # Unknown,
           \A i \in DOMAIN t : t[i].status # Unknown
    PROVE  \A i \in DOMAIN (s \o t) : (s \o t)[i].status # Unknown
<1>1. /\ s \o t \in Seq(Verdicts)
      /\ Len(s \o t) = Len(s) + Len(t)
      /\ \A i \in 1 .. Len(s) + Len(t) :
            (s \o t)[i] = IF i <= Len(s) THEN s[i] ELSE t[i - Len(s)]
    BY ConcatProperties
<1>2. DOMAIN (s \o t) = 1 .. Len(s) + Len(t)
    BY <1>1, LenProperties
<1>3. DOMAIN s = 1 .. Len(s) /\ DOMAIN t = 1 .. Len(t) /\ Len(s) \in Nat /\ Len(t) \in Nat
    BY LenProperties
<1>4. SUFFICES ASSUME NEW i \in 1 .. Len(s) + Len(t)
               PROVE  (s \o t)[i].status # Unknown
    BY <1>2
<1>5. CASE i <= Len(s)
    BY <1>1, <1>3, <1>5
<1>6. CASE ~(i <= Len(s))
    <2>1. i - Len(s) \in 1 .. Len(t)
        BY <1>3, <1>6
    <2> QED
        BY <1>1, <1>3, <1>6, <2>1
<1> QED
    BY <1>5, <1>6

LEMMA ReplyKnown ==
    ASSUME ShapeInv, NEW p \in Handler, NEW code, NEW sent, NEW listed,
           Reply(p, code, sent, listed),
           \A i \in DOMAIN sent : sent[i].status # Unknown
    PROVE  KnownOf(p)'
<1>1. /\ pc'[p] = "idle" /\ answers'[p] = <<>>
      /\ resp'[p].answers = sent
    BY DEF Reply, Goto, ShapeInv, StateTypeOK, HandlerTypeOK
<1> QED
    BY <1>1 DEF KnownOf

\* A response that lists no answer.
LEMMA ReplyNoneKnown ==
    ASSUME ShapeInv, NEW p \in Handler
    PROVE  /\ \A code : ReplyEmpty(p, code) => KnownOf(p)'
           /\ \A code, listed : Reply(p, code, <<>>, listed) => KnownOf(p)'
<1>1. \A code, sent, listed :
          Reply(p, code, sent, listed) /\ (\A i \in DOMAIN sent : sent[i].status # Unknown)
              => KnownOf(p)'
    BY ReplyKnown
<1>2. DOMAIN <<>> = {}
    OBVIOUS
<1>3. \A code, listed : Reply(p, code, <<>>, listed) => KnownOf(p)'
    BY <1>1, <1>2, Zenon
<1> QED
    BY <1>3 DEF ReplyEmpty

\* The handler goes on without an answer more or less.
LEMMA GoOnKnown ==
    ASSUME ShapeInv, Known(data) \subseteq Known(data'), NEW p \in Handler, KnownOf(p),
           req'[p] = req[p], answers'[p] = answers[p], pc'[p] # "idle",
           pc'[p] \in {"process", "processing", "format"} /\ Len(Apps(p)) = 1 =>
               Apps(p)[1].id \in Known(data)
    PROVE  KnownOf(p)'
BY DEF KnownOf, Apps

LEMMA HandleKnown ==
    ASSUME ShapeInv, NEW p \in Handler, AnswersOf(p), KnownOf(p), Arrive(p) \/ Handle(p)
    PROVE  KnownOf(p)'
<1>0. Known(data) \subseteq Known(data')
    BY HandleApart
<1> USE DEF ShapeInv, StateTypeOK, HandlerTypeOK
<1>1. CASE RefusePost(p) \/ RefuseX(p) \/ CacheHit(p) \/ Fill(p)
    BY <1>1, ReplyNoneKnown DEF RefusePost, RefuseX, CacheHit, Fill
<1>2. CASE Arrive(p)
    <2>1. pc'[p] \in {"post", "webstore", "all"}
        BY <1>2, ArriveLabel
    <2>2. answers'[p] = <<>>
        BY <1>2 DEF Arrive, AnswersOf
    <2> QED
        BY <2>1, <2>2 DEF KnownOf
<1>3. CASE PostLoad(p) \/ WebStore(p) \/ StoreLoad(p) \/ CacheMiss(p) \/ PrintExtensions(p)
    <2>1. /\ req'[p] = req[p] /\ answers'[p] = answers[p]
          /\ pc'[p] \in {"loading", "store", "nested", "print", "printing"}
        BY <1>3 DEF PostLoad, WebStore, StoreLoad, CacheMiss, PrintExtensions, Goto
    <2> QED
        BY <2>1, <1>0, GoOnKnown
<1>4. CASE AcceptPost(p)
    <2>1. /\ req'[p] = req[p] /\ answers'[p] = answers[p]
          /\ pc'[p] = IF Len(Apps(p)) = 1 THEN "load" ELSE "process"
        BY <1>4 DEF AcceptPost, Goto
    <2> QED
        BY <2>1, <1>0, GoOnKnown
<1>5. CASE PostLoaded(p)
    <2>1. CASE ReplyEmpty(p, 307)
        BY <2>1, ReplyNoneKnown
    <2>2. CASE Apps(p)[1].id \in Known(data) /\ Goto(p, "process") /\ UNCHANGED <<req, answers>>
        <3>1. req'[p] = req[p] /\ answers'[p] = answers[p] /\ pc'[p] = "process"
            BY <2>2 DEF Goto
        <3> QED
            BY <2>2, <3>1, <1>0, GoOnKnown
    <2> QED
        BY <1>5, <2>1, <2>2 DEF PostLoaded
<1>6. CASE Process(p) \/ Processed(p)
    <2>1. /\ req'[p] = req[p] /\ answers'[p] = answers[p]
          /\ pc[p] \in {"process", "processing"} /\ pc'[p] \in {"processing", "format"}
        BY <1>6 DEF Process, Processed, Goto
    <2>2. Len(Apps(p)) = 1 => Apps(p)[1].id \in Known(data)
        BY <2>1 DEF KnownOf
    <2> QED
        BY <2>1, <2>2, <1>0, GoOnKnown
<1>7. CASE ProcessApp(p)
    <2> DEFINE v == Verdict(Apps(p)[at[p]], data)
    <2> SUFFICES ASSUME Len(Apps(p)') = 1 PROVE KnownOf(p)'
        BY DEF KnownOf
    <2>1. /\ pc[p] = "processing" /\ pc'[p] = "processing"
          /\ Apps(p)' = Apps(p) /\ data' = data
          /\ at[p] \in 1 .. Len(Apps(p))
          /\ answers'[p] = answers[p] \o <<v>>
        BY <1>7, AppsType DEF ProcessApp, NextApp, Apps, mapVars
    <2>2. at[p] = 1 /\ Apps(p)[1].id \in Known(data)
        <3>1. Len(Apps(p)) = 1
            BY <2>1
        <3>2. at[p] = 1
            BY <2>1, <3>1
        <3> QED
            BY <2>1, <3>1, <3>2 DEF KnownOf
    <2>3. Apps(p)[1] \in App /\ data \in Catalog
        BY <2>1, <2>2, AppsType DEF ContentTypeOK
    <2>4. v \in Verdicts /\ v.status # Unknown
        BY <2>2, <2>3, VerdictType, VerdictIsKnown
    <2> HIDE DEF v
    <2>5. /\ <<v>> \in Seq(Verdicts) /\ answers[p] \in Seq(Verdicts)
          /\ \A i \in DOMAIN <<v>> : <<v>>[i].status # Unknown
        BY <2>4
    <2>6. \A i \in DOMAIN answers'[p] : answers'[p][i].status # Unknown
        BY <2>1, <2>5, AppendKnown DEF KnownOf
    <2> QED
        BY <2>1, <2>2, <2>6 DEF KnownOf
<1>8. CASE PostRespond(p) \/ StoreRespond(p)
    <2>1. CASE ReplyEmpty(p, 500)
        BY <2>1, ReplyNoneKnown
    <2>2. CASE Reply(p, 200, Response(answers[p]), NoEntry)
        <3>1. CASE Len(Apps(p)) = 1
            <4>1. \A i \in DOMAIN answers[p] : answers[p][i].status # Unknown
                BY <3>1 DEF KnownOf
            <4>2. \A i \in DOMAIN Response(answers[p]) : Response(answers[p])[i].status # Unknown
                BY <4>1, SentIsKnown
            <4>3. \A code, sent, listed :
                      Reply(p, code, sent, listed)
                        /\ (\A i \in DOMAIN sent : sent[i].status # Unknown) => KnownOf(p)'
                BY ReplyKnown
            <4> QED
                BY <2>2, <4>2, <4>3, Zenon
        <3>2. CASE Len(Apps(p)) # 1
            BY <2>2, <3>2 DEF Reply, KnownOf, Apps
        <3> QED
            BY <3>1, <3>2
    <2> QED
        BY <1>8, <2>1, <2>2 DEF PostRespond, StoreRespond
<1>9. CASE StoreLoaded(p)
    <2>1. CASE ReplyEmpty(p, 307)
        BY <2>1, ReplyNoneKnown
    <2>2. CASE NextApp(p, Offer(Apps(p)[at[p]], data)) /\ Goto(p, "store") /\ UNCHANGED req
        <3> DEFINE o == Offer(Apps(p)[at[p]], data)
        <3> SUFFICES ASSUME Len(Apps(p)') = 1 PROVE KnownOf(p)'
            BY DEF KnownOf
        <3>1. /\ pc'[p] = "store" /\ Apps(p)' = Apps(p)
              /\ answers'[p] = answers[p] \o o
            BY <2>2 DEF NextApp, Goto, Apps
        <3>2. at[p] \in 1 .. Len(Apps(p))
            BY <1>9, AppsType DEF StoreLoaded, LoopInv
        <3>3. Apps(p)[at[p]] \in App /\ data \in Catalog
            BY <3>2, AppsType DEF ContentTypeOK
        <3>4. o \in Seq(Verdicts) /\ \A i \in DOMAIN o : o[i].status # Unknown
            BY <3>3, OfferType, OfferIsKnown
        <3> HIDE DEF o
        <3>5. answers[p] \in Seq(Verdicts)
            OBVIOUS
        <3>6. \A i \in DOMAIN answers'[p] : answers'[p][i].status # Unknown
            BY <3>1, <3>4, <3>5, AppendKnown DEF KnownOf
        <3> QED
            BY <3>1, <3>6 DEF KnownOf
    <2> QED
        BY <1>9, <2>1, <2>2 DEF StoreLoaded
<1>10. CASE Printed(p)
    <2>1. CASE ReplyEmpty(p, 500)
        BY <2>1, ReplyNoneKnown
    <2>2. CASE Goto(p, "fill") /\ UNCHANGED <<req, answers>>
        <3>1. req'[p] = req[p] /\ answers'[p] = answers[p] /\ pc'[p] = "fill"
            BY <2>2 DEF Goto
        <3> QED
            BY <3>1, <1>0, GoOnKnown
    <2> QED
        BY <1>10, <2>1, <2>2 DEF Printed
<1> QED
    BY <1>1, <1>2, <1>3, <1>4, <1>5, <1>6, <1>7, <1>8, <1>9, <1>10 DEF Handle, ReadBody, Work, Write

LEMMA NextKnown ==
    ASSUME ShapeInv, AnswersInv, KnownInv, [Next]_vars
    PROVE  KnownInv'
<1> SUFFICES ASSUME NEW q \in Handler PROVE KnownOf(q)'
    BY DEF KnownInv
<1>1. KnownOf(q) /\ AnswersOf(q)
    BY DEF KnownInv, AnswersInv
<1>2. CASE Restart
    <2>1. pc'[q] = "idle" /\ answers'[q] = <<>> /\ resp'[q].code = 0
        BY <1>2 DEF Restart, HandlersRestart, NoResponse
    <2> QED
        BY <2>1 DEF KnownOf
<1>3. CASE ~Restart /\ (Refresh \/ EditTable \/ UNCHANGED vars)
    <2>1. UNCHANGED handlerVars
        BY <1>3 DEF Refresh, NextPage, ScanFails, SkipItem, StartStore, EnterStore, StoreItem,
            ScanDone, Marshal, Publish, Invalidate, StartServing, Tick, EditTable, vars
    <2> QED
        BY <1>1, <1>3, <2>1, KnownGrows DEF KnownOf, Apps, handlerVars
<1>4. ASSUME NEW p \in Handler, Arrive(p) \/ Handle(p) PROVE KnownOf(q)'
    <2>1. CASE p = q
        BY <1>1, <1>4, <2>1, HandleKnown
    <2>2. CASE p # q
        BY <1>1, <1>4, <2>2, HandleApart, ApartKeepsKnown
    <2> QED
        BY <2>1, <2>2
<1> QED
    BY <1>2, <1>3, <1>4 DEF Next

(***************************************************************************)
(* An extension that Load found before a POST was let past the redirect is *)
(* not unknown to the second look-up, whatever was stored in between.      *)
(***************************************************************************)
THEOREM KnownStays == Spec => []KnownStaysAnswered
<1>1. Init => ShapeInv /\ AnswersInv /\ KnownInv
    <2>1. Init => \A p \in Handler : Apps(p) = <<>>
        BY DEF Init, NoRequest, Apps
    <2>2. Len(<<>>) # 1
        OBVIOUS
    <2>3. Init => KnownInv
        BY <2>1, <2>2 DEF KnownInv, KnownOf
    <2> QED
        BY <2>3, InitShape DEF Init, AnswersInv, AnswersOf
<1>2. ShapeInv /\ AnswersInv /\ KnownInv /\ [Next]_vars => (ShapeInv /\ AnswersInv /\ KnownInv)'
    BY NextShape, NextAnswers, NextKnown
<1>3. KnownInv => KnownStaysAnswered
    BY DEF KnownInv, KnownOf, KnownStaysAnswered, Unknown
<1> QED
    BY <1>1, <1>2, <1>3, PTL DEF Spec

-----------------------------------------------------------------------------
(***************************************************************************)
(* A scan.  With no edit, each well-formed row on the pages it has read is *)
(* stored, or is still among the items at hand.                            *)
(***************************************************************************)

Stored(id) == data[id] = Normalise(table[id])

ScannedPages ==
    \A i \in 1 .. page - 1 : \A id \in Pages[i] :
        table[id] \in Row => batch[id] = table[id] \/ Stored(id)

ScanInv ==
    /\ rpc \notin {"scan", "store"} => batch = EmptyCatalog
    /\ rpc \in {"marshal", "publish", "refreshed"} => page > Len(Pages)
    /\ steady => \A id \in ID : batch[id] \in {Absent, table[id]}
    /\ steady /\ rpc # "failed" => ScannedPages

LEMMA PagesType ==
    /\ Len(Pages) \in Nat
    /\ \A n \in 1 .. Len(Pages) : Pages[n] \in SUBSET ID
    /\ \A id \in ID : \E n \in 1 .. Len(Pages) : id \in Pages[n]
BY PagesAssumption, LenProperties, ElementOfSeq

LEMMA RowIsNoOther == \A item \in Row : item \in Extension /\ item # Absent /\ item # Malformed
BY TableAssumption, AbsentAssumption

LEMMA NextPageScan ==
    ASSUME ShapeInv, ScanInv, NextPage
    PROVE  ScanInv'
<1>1. page \in 1 .. Len(Pages) /\ page' = page + 1
    BY PagesType DEF NextPage, ShapeInv, StateTypeOK, RefreshTypeOK
<1>2. \A id \in ID : batch'[id] = IF id \in Pages[page] THEN table[id] ELSE Absent
    BY DEF NextPage
<1>3. /\ rpc = "scan" /\ rpc' = "scan"
      /\ UNCHANGED <<data, table, steady>>
    BY DEF NextPage, mapVars, tableVars
<1>4. \A id \in ID : batch[id] = Absent
    BY DEF NextPage, EmptyCatalog
<1>5. ASSUME steady PROVE ScannedPages'
    <2> SUFFICES ASSUME NEW i \in 1 .. page, NEW id \in Pages[i], table[id] \in Row
                 PROVE  batch'[id] = table[id] \/ Stored(id)
        BY <1>1, <1>3 DEF ScannedPages, Stored
    <2>1. id \in ID /\ table[id] # Absent
        BY <1>1, PagesType, RowIsNoOther
    <2>2. CASE i = page
        BY <1>2, <2>1, <2>2
    <2>3. CASE i \in 1 .. page - 1
        BY <1>3, <1>4, <1>5, <2>1, <2>3 DEF ScanInv, ScannedPages
    <2> QED
        BY <1>1, <2>2, <2>3
<1> QED
    BY <1>2, <1>3, <1>5 DEF ScanInv

LEMMA StoreItemScan ==
    ASSUME ShapeInv, ScanInv, StoreItem
    PROVE  ScanInv'
<1>1. PICK key \in ID : /\ batch[key] \in Extension
                        /\ Store(Refresher, key, Normalise(batch[key]))
                        /\ batch' = [batch EXCEPT ![key] = Absent]
    BY DEF StoreItem
<1>2. /\ rpc = "store" /\ rpc' = "scan"
      /\ UNCHANGED <<page, table, steady>>
    BY DEF StoreItem, Step, tableVars
<1>3. /\ data'[key] = Normalise(batch[key])
      /\ batch'[key] = Absent
      /\ \A id \in ID \ {key} : data'[id] = data[id] /\ batch'[id] = batch[id]
    BY <1>1 DEF Store, ShapeInv, StateTypeOK, ContentTypeOK, RefreshTypeOK, Catalog, Table
<1>4. ASSUME steady
      PROVE  ScannedPages' /\ \A id \in ID : batch'[id] \in {Absent, table[id]}
    <2>1. batch[key] = table[key]
        BY <1>1, <1>4, AbsentAssumption DEF ScanInv
    <2>2. \A i \in 1 .. page - 1 : Pages[i] \subseteq ID
        BY PagesType DEF ShapeInv, StateTypeOK, RefreshTypeOK
    <2>3. ScannedPages
        BY <1>2, <1>4 DEF ScanInv
    <2>4. ScannedPages'
        BY <1>2, <1>3, <2>1, <2>2, <2>3 DEF ScannedPages, Stored
    <2> QED
        BY <1>3, <1>4, <2>4 DEF ScanInv
<1> QED
    BY <1>2, <1>4 DEF ScanInv

LEMMA SkipItemScan ==
    ASSUME ShapeInv, ScanInv, SkipItem
    PROVE  ScanInv'
<1>1. PICK key \in ID : batch[key] = Malformed /\ batch' = [batch EXCEPT ![key] = Absent]
    BY DEF SkipItem
<1>2. /\ rpc = "scan" /\ rpc' = "scan"
      /\ UNCHANGED <<data, page, table, steady>>
    BY DEF SkipItem, mapVars, tableVars
<1>3. batch'[key] = Absent /\ \A id \in ID \ {key} : batch'[id] = batch[id]
    BY <1>1 DEF ShapeInv, StateTypeOK, RefreshTypeOK, Table
<1>4. ASSUME steady PROVE ScannedPages'
    <2>1. \A i \in 1 .. page - 1 : Pages[i] \subseteq ID
        BY PagesType DEF ShapeInv, StateTypeOK, RefreshTypeOK
    <2>2. ScannedPages
        BY <1>2, <1>4 DEF ScanInv
    <2> QED
        BY <1>1, <1>2, <1>3, <2>1, <2>2, RowIsNoOther DEF ScannedPages, Stored
<1> QED
    BY <1>2, <1>3, <1>4 DEF ScanInv

\* A step that leaves what the scan has read and stored.
LEMMA ScanGoesOn ==
    ASSUME ScanInv, UNCHANGED <<data, page, batch, table, steady>>,
           rpc \in {"scan", "store"} /\ rpc' = "marshal" => batch = EmptyCatalog /\ page > Len(Pages),
           <<rpc, rpc'>> \in {<<"scan", "store">>, <<"store", "store">>, <<"scan", "marshal">>,
                              <<"marshal", "publish">>, <<"marshal", "invalidate">>,
                              <<"publish", "refreshed">>, <<"invalidate", "failed">>}
           \/ rpc' = rpc
    PROVE  ScanInv'
BY DEF ScanInv, ScannedPages, Stored

LEMMA NextScan ==
    ASSUME ShapeInv, ScanInv, [Next]_vars
    PROVE  ScanInv'
<1>1. ASSUME NEW p \in Handler, Arrive(p) \/ Handle(p) PROVE ScanInv'
    <2>1. data' = data
        BY <1>1, HandleApart
    <2>2. UNCHANGED <<refreshVars, tableVars>>
        BY <1>1 DEF Arrive, Handle, ReadBody, Work, Write, RefusePost, AcceptPost, PostLoad,
            PostLoaded, Process, ProcessApp, Processed, PostRespond, WebStore, RefuseX,
            StoreLoad, StoreLoaded, StoreRespond, CacheHit, CacheMiss, PrintExtensions, Printed, Fill
    <2> QED
        BY <2>1, <2>2, ScanGoesOn DEF refreshVars, tableVars
<1>2. CASE ScanFails
    BY <1>2 DEF ScanFails, Step, ScanInv, tableVars
<1>3. CASE \/ StartStore \/ EnterStore \/ Marshal \/ Publish \/ Invalidate \/ StartServing
           \/ ScanDone \/ UNCHANGED vars
    <2>1. UNCHANGED <<data, page, batch, table, steady>>
        BY <1>3 DEF StartStore, EnterStore, Marshal, DoneReading, Publish, Invalidate,
            StartServing, ScanDone, vars, mapVars, refreshVars, tableVars
    <2>2. /\ rpc \in {"scan", "store"} /\ rpc' = "marshal" =>
                batch = EmptyCatalog /\ page > Len(Pages)
          /\ \/ <<rpc, rpc'>> \in {<<"scan", "store">>, <<"store", "store">>, <<"scan", "marshal">>,
                                   <<"marshal", "publish">>, <<"marshal", "invalidate">>,
                                   <<"publish", "refreshed">>, <<"invalidate", "failed">>}
             \/ rpc' = rpc
        BY <1>3 DEF StartStore, EnterStore, Marshal, Publish, Invalidate, StartServing,
            ScanDone, Step, vars, refreshVars
    <2> QED
        BY <2>1, <2>2, ScanGoesOn
<1>4. CASE Tick \/ Restart
    <2>1. /\ page' = 1 /\ rpc' = "scan" /\ batch' = EmptyCatalog
          /\ UNCHANGED table
        BY <1>4 DEF Tick, Restart, Step, ScanInv
    <2>2. \A id \in ID : batch'[id] = Absent
        BY <2>1 DEF EmptyCatalog
    <2> QED
        BY <2>1, <2>2 DEF ScanInv, ScannedPages
<1>5. CASE EditTable
    <2>1. ~steady' /\ UNCHANGED <<rpc, page, batch>>
        BY <1>5 DEF EditTable, refreshVars
    <2> QED
        BY <2>1 DEF ScanInv
<1> QED
    BY <1>1, <1>2, <1>3, <1>4, <1>5, NextPageScan, StoreItemScan, SkipItemScan DEF Next, Refresh

LEMMA InitScan == Init => ScanInv
BY PagesType DEF Init, ScanInv, ScannedPages, EmptyCatalog

\* The scan is over: every page is read, and no item is at hand any more.
LEMMA PublishedUpToDate ==
    ASSUME ShapeInv, ScanInv, rpc \in {"publish", "refreshed"}, steady
    PROVE  UpToDate
<1> SUFFICES ASSUME NEW id \in ID, table[id] \in Row PROVE data[id] = Normalise(table[id])
    BY DEF UpToDate
<1>1. PICK n \in 1 .. Len(Pages) : id \in Pages[n]
    BY PagesType
<1>2. n \in 1 .. page - 1
    BY <1>1, PagesType DEF ScanInv, ShapeInv, StateTypeOK, RefreshTypeOK
<1>3. batch[id] = Absent
    BY DEF ScanInv, EmptyCatalog
<1> QED
    BY <1>1, <1>2, <1>3, RowIsNoOther DEF ScanInv, ScannedPages, Stored

(***************************************************************************)
(* A refresh that published has stored every well-formed row of a table    *)
(* that was not edited since its scan began, for any paging of it, with    *)
(* any malformed items, and after any edits and restarts before.           *)
(***************************************************************************)
THEOREM RefreshIsComplete == Spec => []RefreshComplete
<1>1. ShapeInv /\ ScanInv => RefreshComplete
    BY PublishedUpToDate DEF RefreshComplete
<1> QED
    BY <1>1, InitScan, InitShape, NextShape, NextScan, PTL DEF Spec

-----------------------------------------------------------------------------
(***************************************************************************)
(* The offers of the web store.  Between StoreLoaded and the next StoreLoad *)
(* the handler holds its outer lock, so all its offers are of one map; it  *)
(* is parked only before it has made any.                                  *)
(***************************************************************************)

OfferOf(p, i) == Offer(Apps(p)[i], data)

Offers(p) ==
    /\ Len(answers[p]) = Cardinality(Newer(p))
    /\ \A i \in Newer(p) : <<answers[p][Rank(Newer(p), i)]>> = OfferOf(p, i)

OffersOf(p) ==
    pc[p] \in {"store", "nested"} =>
        /\ Offers(p)
        /\ pc[p] = "store" /\ p \in queued => at[p] = 1

OffersInv == \A p \in Handler : OffersOf(p)

LEMMA NewerType ==
    ASSUME ShapeInv, NEW p \in Handler
    PROVE  /\ IsFiniteSet(Newer(p)) /\ Newer(p) \subseteq Nat
           /\ \A i \in Newer(p) : i < at[p]
<1>1. at[p] \in Nat \ {0}
    BY DEF ShapeInv, StateTypeOK, HandlerTypeOK
<1>2. Newer(p) \in SUBSET (1 .. at[p] - 1)
    BY DEF Newer
<1>3. IsFiniteSet(1 .. at[p] - 1)
    BY <1>1, FS_Interval
<1> QED
    BY <1>1, <1>2, <1>3, FS_Subset

\* A loop that has come past no app has made no offer.
LEMMA NoOffersYet ==
    ASSUME NEW p \in Handler, at[p] = 1, answers[p] = <<>>
    PROVE  Offers(p)
<1>1. Newer(p) = {}
    BY DEF Newer
<1>2. Cardinality({}) = 0 /\ Len(<<>>) = 0
    BY FS_EmptySet
<1> QED
    BY <1>1, <1>2 DEF Offers

\* One turn of the loop: the app is up to date, or its offer comes last.
LEMMA OfferTurn ==
    ASSUME ShapeInv, NEW p \in Handler, Offers(p), pc[p] = "nested",
           NextApp(p, OfferOf(p, at[p])), UNCHANGED <<req, data>>
    PROVE  Offers(p)'
<1> DEFINE n == at[p]
           app == Apps(p)[n]
           old == CompareVersions(app.version, Found(app.id, data).version) < 0
<1>1. /\ at[p] \in Nat \ {0} /\ answers[p] \in Seq(Verdicts)
      /\ Apps(p)' = Apps(p) /\ at'[p] = n + 1
      /\ answers'[p] = answers[p] \o OfferOf(p, n)
    BY DEF NextApp, Apps, ShapeInv, StateTypeOK, HandlerTypeOK
<1>2. OfferOf(p, n) \in Seq(Verdicts)
    <2>1. n \in 1 .. Len(Apps(p))
        BY <1>1, AppsType DEF ShapeInv, LoopInv
    <2> QED
        BY <2>1, AppsType, OfferType DEF OfferOf, ShapeInv, StateTypeOK, ContentTypeOK
<1>3. Newer(p)' = IF old THEN Newer(p) \cup {n} ELSE Newer(p)
    BY <1>1 DEF Newer
<1>4. \A i \in Nat : OfferOf(p, i)' = OfferOf(p, i)
    BY <1>1 DEF OfferOf
<1>5. /\ IsFiniteSet(Newer(p)) /\ Newer(p) \subseteq Nat
      /\ \A i \in Newer(p) : i < n
    BY NewerType
<1>6. Len(answers[p]) = Cardinality(Newer(p)) /\ Cardinality(Newer(p)) \in Nat
    BY <1>5, FS_CardinalityType DEF Offers
<1>7. CASE ~old
    <2>1. OfferOf(p, n) = <<>>
        BY <1>7 DEF OfferOf, Offer
    <2>2. answers'[p] = answers[p]
        BY <1>1, <2>1
    <2> QED
        BY <1>3, <1>4, <1>5, <1>7, <2>2 DEF Offers
<1>8. CASE old
    <2> DEFINE set == Newer(p)
               o == OfferOf(p, n)
    <2>1. Len(o) = 1 /\ o = <<o[1]>>
        BY <1>8 DEF OfferOf, Offer
    <2> HIDE DEF o, set, n, old
    <2>2. /\ Cardinality(set \cup {n}) = Cardinality(set) + 1
          /\ Rank(set \cup {n}, n) = Cardinality(set) + 1
          /\ \A i \in set : Rank(set \cup {n}, i) = Rank(set, i)
        <3>1. n \in Nat
            BY <1>1 DEF n
        <3> QED
            BY <1>5, <3>1, RankOfNext DEF set
    <2>3. /\ Len(answers'[p]) = Len(answers[p]) + 1
          /\ answers'[p][Len(answers[p]) + 1] = o[1]
          /\ \A k \in 1 .. Len(answers[p]) : answers'[p][k] = answers[p][k]
        <3>1. o \in Seq(Verdicts)
            BY <1>2 DEF o
        <3>2. answers'[p] = answers[p] \o o
            BY <1>1 DEF o
        <3>3. Len(answers[p]) \in Nat
            BY <1>6
        <3>4. /\ Len(answers[p] \o o) = Len(answers[p]) + Len(o)
              /\ \A k \in 1 .. Len(answers[p]) + Len(o) :
                    (answers[p] \o o)[k] = IF k <= Len(answers[p]) THEN answers[p][k]
                                           ELSE o[k - Len(answers[p])]
            BY <1>1, <3>1, ConcatProperties
        <3> QED
            BY <2>1, <3>2, <3>3, <3>4
    <2>4. Newer(p)' = set \cup {n}
        BY <1>3, <1>8 DEF set
    <2>5. ASSUME NEW i \in set \cup {n}
          PROVE  <<answers'[p][Rank(set \cup {n}, i)]>> = OfferOf(p, i)
        <3>1. CASE i = n
            <4>1. answers'[p][Rank(set \cup {n}, i)] = o[1]
                BY <1>6, <2>2, <2>3, <3>1 DEF set
            <4> QED
                BY <2>1, <3>1, <4>1 DEF o
        <3>2. CASE i \in set
            <4>1. Rank(set, i) \in 1 .. Len(answers[p])
                BY <1>5, <1>6, <3>2, RankInside DEF set
            <4>2. answers'[p][Rank(set \cup {n}, i)] = answers[p][Rank(set, i)]
                BY <2>2, <2>3, <3>2, <4>1
            <4> QED
                BY <3>2, <4>2 DEF Offers, set
        <3> QED
            BY <3>1, <3>2
    <2>6. set \cup {n} \subseteq Nat
        BY <1>1, <1>5 DEF set, n
    <2> QED
        BY <1>4, <1>6, <2>2, <2>3, <2>4, <2>5, <2>6 DEF Offers, set
<1> QED
    BY <1>7, <1>8

LEMMA OffersKept ==
    ASSUME NEW p \in Handler, Offers(p), data' = data, req'[p] = req[p],
           at'[p] = at[p], answers'[p] = answers[p]
    PROVE  Offers(p)'
<1>1. Newer(p)' = Newer(p) /\ \A i \in Newer(p) : OfferOf(p, i)' = OfferOf(p, i)
    BY DEF Newer, OfferOf, Apps
<1> QED
    BY <1>1 DEF Offers

LEMMA HandleOffers ==
    ASSUME ShapeInv, NEW p \in Handler, AnswersOf(p), OffersOf(p), Arrive(p) \/ Handle(p)
    PROVE  OffersOf(p)'
<1> USE DEF ShapeInv, StateTypeOK, HandlerTypeOK
<1>1. CASE WebStore(p)
    <2>1. at'[p] = at[p] /\ answers'[p] = answers[p] /\ at[p] = 1 /\ answers[p] = <<>>
        BY <1>1 DEF WebStore, AnswersOf
    <2>2. Offers(p)
        BY <2>1, NoOffersYet
    <2>3. Offers(p)'
        BY <1>1, <2>1, <2>2, OffersKept DEF WebStore
    <2> QED
        BY <2>1, <2>3 DEF OffersOf
<1>2. CASE StoreLoad(p)
    <2>1. pc[p] = "store" /\ pc'[p] = "nested"
        BY <1>2 DEF StoreLoad, Goto
    <2>2. Offers(p)'
        BY <1>2, <2>1, OffersKept DEF StoreLoad, OffersOf
    <2> QED
        BY <2>1, <2>2 DEF OffersOf
<1>3. CASE StoreLoaded(p)
    <2>1. CASE ReplyEmpty(p, 307)
        BY <2>1 DEF ReplyEmpty, Reply, Goto, OffersOf
    <2>2. CASE NextApp(p, Offer(Apps(p)[at[p]], data)) /\ Goto(p, "store") /\ UNCHANGED req
        <3>1. pc[p] = "nested" /\ pc'[p] = "store" /\ p \notin queued /\ queued' = queued
            BY <1>3, <2>2 DEF StoreLoaded, Goto, RUnlock, Running
        <3>2. Offers(p)'
            BY <1>3, <2>2, <3>1, OfferTurn DEF StoreLoaded, OffersOf, OfferOf
        <3> QED
            BY <3>1, <3>2 DEF OffersOf
    <2> QED
        BY <1>3, <2>1, <2>2 DEF StoreLoaded
<1>4. CASE ~WebStore(p) /\ ~StoreLoad(p) /\ ~StoreLoaded(p)
    <2>1. pc'[p] \notin {"store", "nested"}
        <3>1. CASE Arrive(p)
            BY <3>1, ArriveLabel
        <3> QED
            BY <1>4, <3>1 DEF Handle, ReadBody, Work, Write, RefusePost, AcceptPost, PostLoad, PostLoaded,
                Process, ProcessApp, Processed, PostRespond, RefuseX, StoreRespond, CacheHit,
                CacheMiss, PrintExtensions, Printed, Fill, Goto, Reply, ReplyEmpty
    <2> QED
        BY <2>1 DEF OffersOf
<1> QED
    BY <1>1, <1>2, <1>3, <1>4

LEMMA NextOffers ==
    ASSUME ShapeInv, AnswersInv, OffersInv, [Next]_vars
    PROVE  OffersInv'
<1> SUFFICES ASSUME NEW q \in Handler PROVE OffersOf(q)'
    BY DEF OffersInv
<1>1. OffersOf(q) /\ AnswersOf(q)
    BY DEF OffersInv, AnswersInv
<1>2. CASE StoreItem
    <2>1. UNCHANGED handlerVars /\ readers[q] = 0 /\ queued' = {}
        BY <1>2, StoreItemFindsNoReaders DEF StoreItem, Store, Unlock
    <2>2. pc[q] \in {"store", "nested"} => pc[q] = "store" /\ q \in queued
        <3>1. readers[q] = Held(q) - (IF q \in queued THEN 1 ELSE 0)
            BY DEF ShapeInv, LockInv, HandlerLocks
        <3> QED
            BY <2>1, <3>1 DEF Held
    <2>3. CASE pc[q] \in {"store", "nested"}
        <3>1. at[q] = 1 /\ Len(answers[q]) = Cardinality(Newer(q))
            BY <1>1, <2>2, <2>3 DEF OffersOf, Offers
        <3>2. Newer(q) = {} /\ Newer(q)' = {}
            BY <2>1, <3>1 DEF Newer, handlerVars
        <3>3. Offers(q)'
            BY <2>1, <3>1, <3>2 DEF Offers, handlerVars
        <3> QED
            BY <2>1, <3>1, <3>3 DEF OffersOf, handlerVars
    <2>4. CASE pc[q] \notin {"store", "nested"}
        BY <2>1, <2>4 DEF OffersOf, handlerVars
    <2> QED
        BY <2>3, <2>4
<1>3. ASSUME Apart(q), data' = data PROVE OffersOf(q)'
    BY <1>1, <1>3, OffersKept DEF Apart, OffersOf
<1>4. CASE Refresh /\ ~StoreItem
    <2>1. UNCHANGED handlerVars /\ data' = data
        BY <1>4 DEF Refresh, NextPage, ScanFails, SkipItem, StartStore, EnterStore,
            ScanDone, Marshal, Publish, Invalidate, StartServing, Tick, mapVars, DoneReading
    <2>2. q \in queued' <=> q \in queued
        BY <1>4, HandlerAssumption DEF Refresh, NextPage, ScanFails, SkipItem, StartStore,
            EnterStore, ScanDone, Marshal, Publish, Invalidate, StartServing, Tick, mapVars,
            DoneReading, RLock, RUnlock, Lock, LockReturns
    <2> QED
        BY <1>3, <2>1, <2>2 DEF Apart, handlerVars
<1>5. CASE EditTable \/ UNCHANGED vars
    <2>1. UNCHANGED <<handlerVars, mapVars>>
        BY <1>5 DEF EditTable, vars
    <2> QED
        BY <1>3, <2>1 DEF Apart, handlerVars, mapVars
<1>6. CASE Restart
    BY <1>6 DEF Restart, HandlersRestart, OffersOf
<1>7. ASSUME NEW p \in Handler, Arrive(p) \/ Handle(p) PROVE OffersOf(q)'
    <2>1. CASE p = q
        BY <1>1, <1>7, <2>1, HandleOffers
    <2>2. CASE p # q
        BY <1>3, <1>7, <2>2, HandleApart
    <2> QED
        BY <2>1, <2>2
<1> QED
    BY <1>2, <1>4, <1>5, <1>6, <1>7 DEF Next

(***************************************************************************)
(* Between two turns of its loop the web store has one offer for each app  *)
(* that is outdated in the one map it reads, in order, for any number of   *)
(* apps, requests and Stores.                                              *)
(***************************************************************************)
THEOREM StoreOffersOneMap == Spec => []OffersFromOneMap
<1>1. Init => AnswersInv /\ OffersInv
    BY DEF Init, AnswersInv, AnswersOf, OffersInv, OffersOf
<1>2. OffersInv => OffersFromOneMap
    <2> SUFFICES ASSUME OffersInv, NEW p \in Handler, pc[p] \in {"store", "nested"}
                 PROVE  /\ Len(answers[p]) = Cardinality(Newer(p))
                        /\ \A i \in Newer(p) :
                              <<answers[p][Cardinality({j \in Newer(p) : j <= i})]>> =
                                  Offer(Apps(p)[i], data)
        BY DEF OffersFromOneMap
    <2> QED
        BY DEF OffersInv, OffersOf, Offers, OfferOf, Rank
<1>3. ShapeInv /\ AnswersInv /\ OffersInv /\ [Next]_vars => (ShapeInv /\ AnswersInv /\ OffersInv)'
    BY NextShape, NextAnswers, NextOffers
<1> QED
    BY <1>1, <1>2, <1>3, InitShape, PTL DEF Spec
-----------------------------------------------------------------------------
(***************************************************************************)
(* Who may hold one lock and wait for another, and what the goroutines of  *)
(* the controller may do to the map at all.                                *)
(***************************************************************************)

LEMMA OnlyNestedWaits == ShapeInv => OnlyStoreHoldsAndWaits
<1> SUFFICES ASSUME ShapeInv, NEW q \in Proc, q \in queued \/ writer = q, readers[q] > 0
             PROVE  q \in Handler /\ pc[q] = "nested"
    BY DEF OnlyStoreHoldsAndWaits
<1> USE DEF ShapeInv, LockInv
<1>1. q # Refresher
    BY HandlerAssumption, ProcAssumption DEF RefresherLocks
<1>2. q \in Handler /\ q # NoProc
    BY <1>1, HandlerAssumption, ProcAssumption
<1>3. q \in queued
    BY <1>1, <1>2 DEF RefresherLocks
<1>4. readers[q] = Held(q) - 1
    BY <1>2, <1>3 DEF HandlerLocks
<1> QED
    BY <1>2, <1>4 DEF Held

(***************************************************************************)
(* Only a handler in the nested Load of the web store loop ever waits for  *)
(* the lock of the map while it holds it: for any number of handlers, no   *)
(* other request, and no refresh, can be half of a deadlock.               *)
(***************************************************************************)
THEOREM OnlyStoreDeadlocks == Spec => []OnlyStoreHoldsAndWaits
BY InitShape, NextShape, OnlyNestedWaits, PTL DEF Spec

\* A handler that is not in the map may ask to read it.
LEMMA HandlerStartsReading ==
    ASSUME ShapeInv, NEW p \in Handler, Held(p) = 0, RLock(p), UNCHANGED data
    PROVE  StartReading(p) /\ p \in Proc
<1>1. p \in Proc /\ p # Refresher /\ p # NoProc
    BY HandlerAssumption, ProcAssumption
<1>2. p \notin queued /\ readers[p] = 0
    BY DEF ShapeInv, LockInv, HandlerLocks
<1>3. writer # p
    BY <1>1 DEF ShapeInv, LockInv, RefresherLocks
<1> QED
    BY <1>1, <1>2, <1>3 DEF StartReading, Running

\* One that holds one read lock lets go of it as any reader of the map does.
LEMMA HandlerStopsReading ==
    ASSUME ShapeInv, NEW p \in Handler, Held(p) = 1, RUnlock(p, 1), UNCHANGED data
    PROVE  DoneReading(p) /\ p \in Proc
<1>1. p \in Proc /\ p \notin queued
    BY HandlerAssumption DEF RUnlock, Running
<1>2. readers[p] > 0
    BY <1>1 DEF ShapeInv, LockInv, HandlerLocks
<1> QED
    BY <1>1, <1>2 DEF DoneReading

LEMMA HandleUsesMap ==
    ASSUME ShapeInv, NEW p \in Handler, Handle(p)
    PROVE  \/ UNCHANGED mapVars
           \/ MapNext
           \/ StoreLoad(p) \/ StoreLoaded(p)
<1>1. ASSUME StartReading(p) \/ DoneReading(p), p \in Proc PROVE MapNext
    BY <1>1 DEF MapNext, Progress
<1>2. CASE PostLoad(p) \/ Process(p) \/ WebStore(p) \/ PrintExtensions(p)
    <2>1. Held(p) = 0 /\ RLock(p) /\ UNCHANGED data
        BY <1>2 DEF PostLoad, Process, WebStore, PrintExtensions, Held
    <2> QED
        BY <1>1, <2>1, HandlerStartsReading
<1>3. CASE PostLoaded(p) \/ Processed(p) \/ Printed(p)
    BY <1>1, <1>3, HandlerAssumption DEF PostLoaded, Processed, Printed
<1>4. CASE RefuseX(p) \/ StoreRespond(p)
    <2>1. Held(p) = 1 /\ RUnlock(p, 1) /\ UNCHANGED data
        BY <1>4 DEF RefuseX, StoreRespond, Held
    <2> QED
        BY <1>1, <2>1, HandlerStopsReading
<1>5. CASE RefusePost(p) \/ AcceptPost(p) \/ ProcessApp(p) \/ CacheMiss(p) \/ Write(p)
    BY <1>5 DEF RefusePost, AcceptPost, ProcessApp, CacheMiss, Write, PostRespond, CacheHit, Fill
<1> QED
    BY <1>2, <1>3, <1>4, <1>5 DEF Handle, ReadBody, Work

LEMMA RefreshUsesMap ==
    ASSUME ShapeInv, Refresh
    PROVE  UNCHANGED mapVars \/ MapNext
<1>1. /\ Refresher \in Proc /\ Refresher # NoProc /\ Refresher \notin queued
      /\ rpc # "marshal" => readers[Refresher] = 0
      /\ rpc # "store" => writer # Refresher
    BY HandlerAssumption, ProcAssumption DEF ShapeInv, LockInv, RefresherLocks
<1>2. CASE StartStore
    <2>1. StartStoring(Refresher)
        BY <1>1, <1>2 DEF StartStore, StartStoring, Running
    <2> QED
        BY <1>1, <2>1 DEF MapNext
<1>3. CASE EnterStore
    <2>1. EnterStoring(Refresher)
        BY <1>3 DEF EnterStore, EnterStoring
    <2> QED
        BY <1>1, <2>1 DEF MapNext, Progress
<1>4. CASE StoreItem
    <2>1. PICK key \in ID : batch[key] \in Extension /\ Store(Refresher, key, Normalise(batch[key]))
        BY <1>4 DEF StoreItem
    <2>2. Normalise(batch[key]) \in Extension
        BY <2>1, NormaliseType
    <2> QED
        BY <1>1, <2>1, <2>2 DEF MapNext, Progress
<1>5. CASE ScanDone
    <2>1. StartReading(Refresher)
        BY <1>1, <1>5 DEF ScanDone, StartReading, Running
    <2> QED
        BY <1>1, <2>1 DEF MapNext
<1>6. CASE Marshal
    BY <1>1, <1>6 DEF Marshal, MapNext, Progress
<1>7. CASE \/ NextPage \/ ScanFails \/ SkipItem \/ Publish \/ Invalidate \/ StartServing \/ Tick
    BY <1>7 DEF NextPage, ScanFails, SkipItem, Publish, Invalidate, StartServing, Tick
<1> QED
    BY <1>2, <1>3, <1>4, <1>5, <1>6, <1>7 DEF Refresh

(***************************************************************************)
(* Whatever handlers and refresher do to the map is a step ExtensionsMap   *)
(* allows its goroutines, but for the nested Load of the web store, and    *)
(* for the restart, which leaves a map as it is at first.                  *)
(***************************************************************************)
THEOREM ControllerUsesMap == Spec => UsesTheMap
<1>1. Init => MapInit
    BY DEF Init
<1>2. ShapeInv /\ [Next]_vars =>
        [ \/ MapNext
          \/ \E p \in Handler : StoreLoad(p) \/ StoreLoaded(p)
          \/ MapRestart ]_mapVars
    <2> SUFFICES ASSUME ShapeInv, [Next]_vars
                 PROVE  \/ UNCHANGED mapVars
                        \/ MapNext
                        \/ \E p \in Handler : StoreLoad(p) \/ StoreLoaded(p)
                        \/ MapRestart
        OBVIOUS
    <2>1. CASE EditTable \/ UNCHANGED vars
        BY <2>1 DEF EditTable, vars
    <2>2. CASE Restart
        BY <2>2 DEF Restart
    <2>3. CASE Refresh
        BY <2>3, RefreshUsesMap
    <2>4. ASSUME NEW p \in Handler, Arrive(p) PROVE UNCHANGED mapVars
        BY <2>4 DEF Arrive
    <2>5. ASSUME NEW p \in Handler, Handle(p)
          PROVE  UNCHANGED mapVars \/ MapNext \/ StoreLoad(p) \/ StoreLoaded(p)
        BY <2>5, HandleUsesMap
    <2> QED
        BY <2>1, <2>2, <2>3, <2>4, <2>5 DEF Next
<1> QED
    BY <1>1, <1>2, InitShape, NextShape, PTL DEF Spec, UsesTheMap
-----------------------------------------------------------------------------
(***************************************************************************)
(* Convergence.  That the table is in the map and nothing older is on its  *)
(* way survives every step, because what a step stores, marshals or puts   *)
(* into the cache is then what is there already.                           *)
(***************************************************************************)

\* With no edit and no restart, items at hand are those of the table still.
LEMMA ItemsOfTable ==
    ASSUME ShapeInv, [Next]_vars, UNCHANGED <<table, crashes>>,
           \A id \in ID : batch[id] \in {Absent, table[id]}
    PROVE  \A id \in ID : batch'[id] \in {Absent, table[id]}
<1>1. ~Restart
    BY DEF Restart, ShapeInv, StateTypeOK, RefreshTypeOK
<1>2. CASE NextPage
    BY <1>2 DEF NextPage
<1>3. CASE SkipItem \/ StoreItem
    <2>1. PICK key \in ID : batch' = [batch EXCEPT ![key] = Absent]
        BY <1>3 DEF SkipItem, StoreItem
    <2> QED
        BY <2>1 DEF ShapeInv, StateTypeOK, RefreshTypeOK, Table
<1>4. CASE ~(NextPage \/ SkipItem \/ StoreItem)
    <2>1. ASSUME NEW p \in Handler, Arrive(p) \/ Handle(p) PROVE batch' = batch
        BY <2>1 DEF refreshVars, Arrive, Handle, ReadBody, Work, Write, RefusePost, AcceptPost, PostLoad,
            PostLoaded, Process, ProcessApp, Processed, PostRespond, WebStore, RefuseX,
            StoreLoad, StoreLoaded, StoreRespond, CacheHit, CacheMiss, PrintExtensions, Printed, Fill
    <2>2. CASE Refresh
        BY <1>4, <2>2 DEF Refresh, ScanFails, StartStore, EnterStore, ScanDone, Marshal, Publish,
            Invalidate, StartServing, Tick, refreshVars
    <2>3. CASE EditTable \/ UNCHANGED vars
        BY <2>3 DEF EditTable, vars, refreshVars
    <2> QED
        BY <1>1, <2>1, <2>2, <2>3 DEF Next
<1> QED
    BY <1>2, <1>3, <1>4

\* Storing a row the map has already changes nothing.
LEMMA ConvergedData ==
    ASSUME ShapeInv, [Next]_vars, Converged, UNCHANGED <<table, crashes>>
    PROVE  data' = data
<1>1. ~Restart
    BY DEF Restart, ShapeInv, StateTypeOK, RefreshTypeOK
<1>2. CASE StoreItem
    <2>1. PICK key \in ID : /\ batch[key] \in Extension
                            /\ Store(Refresher, key, Normalise(batch[key]))
        BY <1>2 DEF StoreItem
    <2>2. batch[key] = table[key] /\ table[key] \in Row
        BY <2>1, AbsentAssumption, TableAssumption
        DEF Converged, ShapeInv, StateTypeOK, RefreshTypeOK, Table
    <2>3. data[key] = Normalise(batch[key])
        BY <2>2 DEF Converged, UpToDate
    <2>4. data' = [data EXCEPT ![key] = data[key]]
        BY <2>1, <2>3 DEF Store
    <2> QED
        BY <2>4 DEF ShapeInv, StateTypeOK, ContentTypeOK, Catalog
<1> QED
    BY <1>1, <1>2, OnlyStoreChangesData

(***************************************************************************)
(* Once the map has the table, and nothing older is at hand, marshalled or *)
(* cached, it stays so until the table is edited or the process ends.      *)
(***************************************************************************)
THEOREM ConvergedForGood == Spec => ConvergedStays
<1>1. ASSUME ShapeInv, [Next]_vars, Converged, UNCHANGED <<table, crashes>>
      PROVE  Converged'
    <2>1. data' = data
        BY <1>1, ConvergedData
    <2>2. \A id \in ID : batch'[id] \in {Absent, table'[id]}
        BY <1>1, ItemsOfTable DEF Converged
    <2>3. /\ \A q \in Proc : bytes'[q] \in {data', NoEntry}
          /\ cache' \in {data', NoEntry}
        BY <1>1, <2>1, ContentSteps DEF Converged
    <2> QED
        BY <1>1, <2>1, <2>2, <2>3 DEF Converged, UpToDate
<1>2. ShapeInv /\ [Next]_vars =>
        [Converged /\ UNCHANGED <<table, crashes>> => Converged']_vars
    BY <1>1
<1> QED
    BY <1>2, InitShape, NextShape, PTL DEF Spec, ConvergedStays

(***************************************************************************)
(* A refresh of a table that was not edited since its scan began gets      *)
(* there by publishing, unless a fill of the cache is under way.           *)
(***************************************************************************)
THEOREM QuietRefreshConverges == Spec => QuietPublishConverges
<1>1. ASSUME ShapeInv, ContentInv, ScanInv, [Next]_vars, rpc = "publish", rpc' = "refreshed",
             steady, \A p \in Handler : bytes[p] = NoEntry
      PROVE  Converged'
    <2>1. Publish
        BY <1>1, PublishingStep
    <2>2. /\ UNCHANGED <<data, table, batch>>
          /\ cache' = data
        BY <1>1, <2>1 DEF Publish, mapVars, tableVars, ContentInv
    <2>3. UpToDate
        BY <1>1, PublishedUpToDate
    <2>4. \A id \in ID : batch[id] = Absent
        BY <1>1 DEF ScanInv, EmptyCatalog
    <2>5. \A q \in Proc : bytes'[q] = NoEntry
        BY <1>1, <2>1, HandlerAssumption DEF Publish, ShapeInv, StateTypeOK, ContentTypeOK
    <2> QED
        BY <2>2, <2>3, <2>4, <2>5 DEF Converged, UpToDate
<1>2. ShapeInv /\ ContentInv /\ ScanInv /\ [Next]_vars =>
        [ /\ rpc = "publish" /\ rpc' = "refreshed"
          /\ steady /\ \A p \in Handler : bytes[p] = NoEntry
          => Converged' ]_vars
    BY <1>1
<1> QED
    BY <1>2, InitShape, NextShape, InitContent, NextContent, InitScan, NextScan, PTL
    DEF Spec, QuietPublishConverges
-----------------------------------------------------------------------------
(***************************************************************************)
(* Bounded work.  The loops count up to the number of apps and no further, *)
(* so what is left of a request is a natural number; every step of its     *)
(* handler lowers it, whatever else happens to the locks and the map.      *)
(***************************************************************************)

TurnsInv == \A p \in Handler : at[p] <= Len(Apps(p)) + 1

\* The moves of a handler's label that leave `at' as it is.
Jumps == {<<"post", "load">>, <<"post", "process">>, <<"load", "loading">>,
          <<"loading", "process">>, <<"process", "processing">>, <<"processing", "format">>,
          <<"webstore", "store">>, <<"store", "nested">>,
          <<"all", "print">>, <<"print", "printing">>, <<"printing", "fill">>}

\* How a step of p moves it: it replies, it goes on, or it ends a turn.
Moved(p) ==
    /\ Apps(p)' = Apps(p)
    /\ \/ pc[p] # "idle" /\ pc'[p] = "idle" /\ at'[p] = 1
       \/ <<pc[p], pc'[p]>> \in Jumps /\ at'[p] = at[p]
       \/ /\ <<pc[p], pc'[p]>> \in {<<"processing", "processing">>, <<"nested", "store">>}
          /\ at[p] <= Len(Apps(p))
          /\ at'[p] = at[p] + 1

LEMMA HandleMoves ==
    ASSUME ShapeInv, NEW p \in Handler, Handle(p)
    PROVE  Moved(p)
<1> USE DEF ShapeInv, StateTypeOK, HandlerTypeOK, Jumps
<1>1. Apps(p)' = Apps(p)
    BY DEF Handle, ReadBody, Work, Write, RefusePost, AcceptPost, PostLoad, PostLoaded, Process, ProcessApp,
        Processed, PostRespond, WebStore, RefuseX, StoreLoad, StoreLoaded, StoreRespond,
        CacheHit, CacheMiss, PrintExtensions, Printed, Fill, Reply, ReplyEmpty, Apps
<1>2. ASSUME pc[p] # "idle", NEW code, NEW sent, NEW listed, Reply(p, code, sent, listed)
      PROVE  Moved(p)
    BY <1>1, <1>2, ReplyFresh DEF Moved
<1>3. CASE RefusePost(p) \/ PostRespond(p) \/ RefuseX(p) \/ StoreRespond(p) \/ CacheHit(p) \/ Fill(p)
    BY <1>2, <1>3 DEF RefusePost, PostRespond, RefuseX, StoreRespond, CacheHit, Fill, ReplyEmpty
<1>4. CASE \/ AcceptPost(p) \/ PostLoad(p) \/ Process(p) \/ Processed(p) \/ WebStore(p)
           \/ StoreLoad(p) \/ CacheMiss(p) \/ PrintExtensions(p)
    BY <1>1, <1>4 DEF AcceptPost, PostLoad, Process, Processed, WebStore, StoreLoad, CacheMiss,
        PrintExtensions, Goto, Moved
<1>5. CASE PostLoaded(p) \/ Printed(p)
    <2>1. CASE ReplyEmpty(p, 307) \/ ReplyEmpty(p, 500)
        BY <1>2, <1>5, <2>1 DEF PostLoaded, Printed, ReplyEmpty
    <2>2. CASE ~ReplyEmpty(p, 307) /\ ~ReplyEmpty(p, 500)
        BY <1>1, <1>5, <2>2 DEF PostLoaded, Printed, Goto, Moved
    <2> QED
        BY <2>1, <2>2
<1>6. CASE ProcessApp(p)
    BY <1>1, <1>6 DEF ProcessApp, NextApp, Moved
<1>7. CASE StoreLoaded(p)
    <2>1. CASE ReplyEmpty(p, 307)
        BY <1>2, <1>7, <2>1 DEF StoreLoaded, ReplyEmpty
    <2>2. CASE ~ReplyEmpty(p, 307)
        BY <1>1, <1>7, <2>2 DEF StoreLoaded, NextApp, Goto, LoopInv, Moved
    <2> QED
        BY <2>1, <2>2
<1> QED
    BY <1>3, <1>4, <1>5, <1>6, <1>7 DEF Handle, ReadBody, Work, Write

\* The definition by cases, case by case.
LEMMA StepsByLabel ==
    ASSUME NEW p \in Handler
    PROVE  /\ pc[p] \in {"format", "fill"} => StepsLeft(p) = 1
           /\ pc[p] = "processing" => StepsLeft(p) = TurnsLeft(p) + 2
           /\ pc[p] = "process" => StepsLeft(p) = TurnsLeft(p) + 3
           /\ pc[p] = "loading" => StepsLeft(p) = TurnsLeft(p) + 4
           /\ pc[p] = "load" => StepsLeft(p) = TurnsLeft(p) + 5
           /\ pc[p] = "post" => StepsLeft(p) = TurnsLeft(p) + 6
           /\ pc[p] = "nested" => StepsLeft(p) = 2 * TurnsLeft(p)
           /\ pc[p] = "store" => StepsLeft(p) = 2 * TurnsLeft(p) + 1
           /\ pc[p] = "webstore" => StepsLeft(p) = 2 * TurnsLeft(p) + 2
           /\ pc[p] = "printing" => StepsLeft(p) = 2
           /\ pc[p] = "print" => StepsLeft(p) = 3
           /\ pc[p] = "all" => StepsLeft(p) = 4
           /\ pc[p] = "idle" => StepsLeft(p) = 0
BY DEF StepsLeft

LEMMA StepsType ==
    ASSUME ShapeInv, TurnsInv, NEW p \in Handler
    PROVE  /\ StepsLeft(p) \in 0 .. 2 * Len(Apps(p)) + 6
           /\ pc[p] # "idle" => StepsLeft(p) > 0
<1>1. /\ Len(Apps(p)) \in Nat
      /\ at[p] \in Nat \ {0} /\ at[p] <= Len(Apps(p)) + 1
      /\ pc[p] \in HandlerLabels
      /\ pc[p] = "nested" => at[p] <= Len(Apps(p))
    BY AppsType DEF ShapeInv, StateTypeOK, HandlerTypeOK, TurnsInv, LoopInv
<1>2. /\ TurnsLeft(p) \in 0 .. Len(Apps(p))
      /\ pc[p] = "nested" => TurnsLeft(p) > 0
    BY <1>1 DEF TurnsLeft
<1>3. CASE pc[p] \in {"idle", "format", "fill", "all", "print", "printing"}
    BY <1>1, <1>3, StepsByLabel
<1>4. CASE pc[p] \in {"post", "load", "loading", "process", "processing"}
    <2>1. \E k \in 2 .. 6 : StepsLeft(p) = TurnsLeft(p) + k
        BY <1>4, StepsByLabel
    <2> QED
        BY <1>1, <1>2, <1>4, <2>1
<1>5. CASE pc[p] \in {"webstore", "store", "nested"}
    <2>1. \E k \in 0 .. 2 :
            StepsLeft(p) = 2 * TurnsLeft(p) + k /\ (k = 0 => pc[p] = "nested")
        BY <1>2, <1>5, StepsByLabel
    <2> QED
        BY <1>1, <1>2, <1>5, <2>1
<1> QED
    BY <1>1, <1>3, <1>4, <1>5 DEF HandlerLabels

LEMMA MovedTurns ==
    ASSUME ShapeInv, TurnsInv, NEW p \in Handler, Moved(p)
    PROVE  at'[p] <= Len(Apps(p)') + 1
<1>1. /\ Len(Apps(p)) \in Nat /\ Apps(p)' = Apps(p)
      /\ at[p] \in Nat \ {0} /\ at[p] <= Len(Apps(p)) + 1
    BY AppsType DEF ShapeInv, StateTypeOK, HandlerTypeOK, TurnsInv, Moved
<1> QED
    BY <1>1 DEF Moved

LEMMA MovedSteps ==
    ASSUME ShapeInv, TurnsInv, NEW p \in Handler, Moved(p)
    PROVE  StepsLeft(p)' < StepsLeft(p)
<1>1. /\ Len(Apps(p)) \in Nat /\ Apps(p)' = Apps(p)
      /\ at[p] \in Nat \ {0} /\ at[p] <= Len(Apps(p)) + 1
    BY AppsType DEF ShapeInv, StateTypeOK, HandlerTypeOK, TurnsInv, Moved
<1>2. CASE pc[p] # "idle" /\ pc'[p] = "idle"
    <2>1. StepsLeft(p)' = 0
        BY <1>2 DEF StepsLeft
    <2> QED
        BY <1>1, <1>2, <2>1, StepsType
<1>3. CASE <<pc[p], pc'[p]>> \in Jumps /\ at'[p] = at[p]
    <2>1. TurnsLeft(p) \in Nat /\ TurnsLeft(p)' = TurnsLeft(p)
        BY <1>1, <1>3 DEF TurnsLeft, Apps
    <2> QED
        BY <1>3, <2>1 DEF Jumps, StepsLeft
<1>4. CASE /\ <<pc[p], pc'[p]>> \in {<<"processing", "processing">>, <<"nested", "store">>}
           /\ at[p] <= Len(Apps(p))
           /\ at'[p] = at[p] + 1
    <2>1. TurnsLeft(p) \in Nat
        BY <1>1 DEF TurnsLeft
    <2>2. TurnsLeft(p)' = TurnsLeft(p) - 1
        <3>1. TurnsLeft(p)' = Len(Apps(p)) + 1 - (at[p] + 1)
            BY <1>1, <1>4 DEF TurnsLeft
        <3> QED
            BY <1>1, <3>1 DEF TurnsLeft
    <2> QED
        BY <1>4, <2>1, <2>2 DEF StepsLeft
<1> QED
    BY <1>2, <1>3, <1>4 DEF Moved

LEMMA InitTurns == Init => TurnsInv
BY DEF Init, TurnsInv, Apps, NoRequest

LEMMA NextTurns ==
    ASSUME ShapeInv, AnswersInv, TurnsInv, [Next]_vars
    PROVE  TurnsInv'
<1> SUFFICES ASSUME NEW q \in Handler PROVE at'[q] <= Len(Apps(q)') + 1
    BY DEF TurnsInv, Apps
<1>1. ASSUME NEW p \in Handler, Arrive(p) \/ Handle(p), q # p
      PROVE  at'[q] = at[q] /\ Apps(q)' = Apps(q)
    BY <1>1, HandleApart DEF Apart, Apps
<1>2. ASSUME Handle(q) PROVE at'[q] <= Len(Apps(q)') + 1
    BY <1>2, HandleMoves, MovedTurns
<1>3. ASSUME Arrive(q) PROVE at'[q] <= Len(Apps(q)') + 1
    <2>1. at'[q] = 1
        BY <1>3 DEF Arrive, AnswersInv, AnswersOf
    <2>2. Len(Apps(q)') \in Nat
        <3>1. PICK r \in Request : req' = [req EXCEPT ![q] = r]
            BY <1>3 DEF Arrive
        <3>2. r \in [kind: Kinds, apps: Seq(App)]
            BY RequestAssumption
        <3>3. Apps(q)' = r.apps
            BY <3>1 DEF Apps, ShapeInv, StateTypeOK, HandlerTypeOK
        <3> QED
            BY <3>2, <3>3, LenProperties
    <2> QED
        BY <2>1, <2>2
<1>4. CASE Restart
    BY <1>4 DEF Restart, HandlersRestart, Apps, NoRequest
<1>5. CASE Refresh \/ EditTable \/ UNCHANGED vars
    <2>1. UNCHANGED handlerVars
        BY <1>5 DEF Refresh, NextPage, ScanFails, SkipItem, StartStore, EnterStore, StoreItem,
            ScanDone, Marshal, Publish, Invalidate, StartServing, Tick, EditTable, vars
    <2> QED
        BY <2>1 DEF handlerVars, TurnsInv, Apps
<1> QED
    BY <1>1, <1>2, <1>3, <1>4, <1>5 DEF Next, TurnsInv

(***************************************************************************)
(* Every step of a handler lowers what is left of its request, for any     *)
(* number of handlers and apps and whatever the steps between them.        *)
(***************************************************************************)
THEOREM RequestsAdvance == Spec => EveryStepAdvances
<1>1. ASSUME ShapeInv, TurnsInv, [Next]_vars, NEW p \in Handler, pc[p] # "idle",
             <<pc[p], at[p]>>' # <<pc[p], at[p]>>
      PROVE  StepsLeft(p)' < StepsLeft(p)
    <2>1. CASE Restart
        <3>1. StepsLeft(p)' = 0
            BY <2>1 DEF Restart, HandlersRestart, StepsLeft
        <3> QED
            BY <1>1, <3>1, StepsType
    <2>2. CASE Refresh \/ EditTable \/ UNCHANGED vars
        BY <1>1, <2>2 DEF Refresh, NextPage, ScanFails, SkipItem, StartStore, EnterStore,
            StoreItem, ScanDone, Marshal, Publish, Invalidate, StartServing, Tick, EditTable,
            vars, handlerVars
    <2>3. ASSUME NEW q \in Handler, Arrive(q) \/ Handle(q) PROVE Handle(p)
        <3>1. q = p
            BY <1>1, <2>3, HandleApart DEF Apart
        <3> QED
            BY <1>1, <2>3, <3>1 DEF Arrive
    <2> QED
        BY <1>1, <2>1, <2>2, <2>3, HandleMoves, MovedSteps DEF Next
<1>2. ShapeInv /\ TurnsInv /\ [Next]_vars =>
        [\A p \in Handler : pc[p] # "idle" /\ <<pc[p], at[p]>>' # <<pc[p], at[p]>> =>
            StepsLeft(p)' < StepsLeft(p)]_vars
    BY <1>1
<1> QED
    BY <1>2, InitShape, NextShape, InitAnswers, NextAnswers, InitTurns, NextTurns, PTL
    DEF Spec, EveryStepAdvances

(***************************************************************************)
(* What is left is a natural number, and at most 2n + 6 for n apps: so     *)
(* many steps, and no more, does a handler take from request to response.  *)
(***************************************************************************)
THEOREM RequestsAreBounded ==
    Spec => [](\A p \in Handler : StepsLeft(p) \in 0 .. 2 * Len(Apps(p)) + 6)
<1>1. ShapeInv /\ TurnsInv => \A p \in Handler : StepsLeft(p) \in 0 .. 2 * Len(Apps(p)) + 6
    BY StepsType
<1> QED
    BY <1>1, InitShape, NextShape, InitAnswers, NextAnswers, InitTurns, NextTurns, PTL DEF Spec

(***************************************************************************)
(* The same of a refresh, for any paging of a finite table: an item is     *)
(* dropped or stored in at most three steps, and a page has no more items  *)
(* than there are IDs.                                                     *)
(***************************************************************************)

LEMMA TimesNat ==
    ASSUME NEW m \in Nat, NEW n \in Nat
    PROVE  /\ m * n \in Nat
           /\ m > 0 => m * n = (m - 1) * n + n
OBVIOUS

LEMMA TimesMonotone ==
    ASSUME NEW k \in Nat, NEW m \in Nat, NEW n \in Nat, k <= m
    PROVE  k * n <= m * n
OBVIOUS

LEMMA ItemsType == ItemsLeft \in 0 .. Cardinality(ID) /\ Cardinality(ID) \in Nat
<1>1. {id \in ID : batch[id] # Absent} \subseteq ID
    OBVIOUS
<1> QED
    BY <1>1, FiniteAssumption, FS_Subset, FS_CardinalityType DEF ItemsLeft

LEMMA CostType ==
    /\ Cardinality(ID) \in Nat
    /\ PageCost \in Nat
    /\ PageCost = 3 * Cardinality(ID) + 1
<1>1. Cardinality(ID) \in Nat
    BY FiniteAssumption, FS_CardinalityType
<1> QED
    BY <1>1 DEF PageCost

LEMMA ScanLeftType ==
    ASSUME StateTypeOK
    PROVE  /\ PagesLeft \in 0 .. Len(Pages)
           /\ PagesLeft * PageCost \in Nat
           /\ ItemsLeft \in Nat
           /\ ScanLeft = PagesLeft * PageCost + 3 * ItemsLeft
           /\ ScanLeft \in 0 .. Len(Pages) * PageCost + 3 * Cardinality(ID)
<1>1. PagesLeft \in 0 .. Len(Pages) /\ Len(Pages) \in Nat
    BY PagesType DEF PagesLeft, StateTypeOK, RefreshTypeOK
<1>2. PagesLeft * PageCost \in Nat /\ PagesLeft * PageCost <= Len(Pages) * PageCost
    BY <1>1, CostType, TimesNat, TimesMonotone
<1>3. Len(Pages) * PageCost \in Nat
    BY <1>1, CostType, TimesNat
<1>4. ItemsLeft \in 0 .. Cardinality(ID) /\ Cardinality(ID) \in Nat
    BY ItemsType
<1>5. ScanLeft = PagesLeft * PageCost + 3 * ItemsLeft
    BY DEF ScanLeft
<1> DEFINE scanned == PagesLeft * PageCost
           all == Len(Pages) * PageCost
<1> HIDE DEF scanned, all
<1>6. ScanLeft \in 0 .. all + 3 * Cardinality(ID)
    BY <1>2, <1>3, <1>4, <1>5 DEF scanned, all
<1> QED
    BY <1>1, <1>2, <1>4, <1>5, <1>6 DEF all

\* An item less at hand.
LEMMA ItemGone ==
    ASSUME StateTypeOK, NEW key \in ID, batch[key] # Absent,
           batch' = [batch EXCEPT ![key] = Absent], page' = page
    PROVE  ScanLeft' = ScanLeft - 3
<1> DEFINE items == {id \in ID : batch[id] # Absent}
<1>1. {id \in ID : batch'[id] # Absent} = items \ {key}
    BY DEF StateTypeOK, RefreshTypeOK, Table
<1>2. IsFiniteSet(items) /\ key \in items
    BY FiniteAssumption, FS_Subset
<1>3. Cardinality(items \ {key}) = Cardinality(items) - 1
    BY <1>2, FS_RemoveElement
<1>4. ItemsLeft' = ItemsLeft - 1
    BY <1>1, <1>3 DEF ItemsLeft
<1>5. PagesLeft' = PagesLeft /\ PageCost' = PageCost
    BY DEF PagesLeft, PageCost
<1>6. ScanLeft' = PagesLeft * PageCost + 3 * (ItemsLeft - 1)
    BY <1>4, <1>5 DEF ScanLeft
<1> QED
    BY <1>6, ScanLeftType

\* A page less ahead, and not more items for it than its share.
LEMMA PageRead ==
    ASSUME StateTypeOK, NextPage
    PROVE  \E gain \in Nat \ {0} : ScanLeft' = ScanLeft - gain
<1>1. PagesLeft \in Nat /\ PagesLeft > 0 /\ PagesLeft' = PagesLeft - 1
    BY PagesType DEF NextPage, PagesLeft, StateTypeOK, RefreshTypeOK
<1>2. PagesLeft * PageCost = (PagesLeft - 1) * PageCost + PageCost
    BY <1>1, CostType, TimesNat
<1>3. (PagesLeft - 1) * PageCost \in Nat
    BY <1>1, CostType, TimesNat
<1>4. PICK n \in 0 .. Cardinality(ID) : ItemsLeft' = n
    <2> DEFINE items == {id \in ID : batch'[id] # Absent}
    <2>1. items \subseteq ID
        OBVIOUS
    <2> HIDE DEF items
    <2>2. Cardinality(items) \in 0 .. Cardinality(ID)
        BY <2>1, FiniteAssumption, FS_Subset, FS_CardinalityType
    <2>3. ItemsLeft' = Cardinality(items)
        BY DEF ItemsLeft, items
    <2> QED
        BY <2>2, <2>3
<1> DEFINE rest == (PagesLeft - 1) * PageCost
<1>5. ScanLeft' = rest + 3 * n
    BY <1>1, <1>4 DEF ScanLeft, PageCost
<1>6. ScanLeft = rest + PageCost + 3 * ItemsLeft
    BY <1>2 DEF ScanLeft
<1>7. rest \in Nat /\ ItemsLeft \in Nat
    BY <1>3, ItemsType
<1> DEFINE gain == PageCost + 3 * ItemsLeft - 3 * n
<1>8. gain \in Nat \ {0}
    BY <1>4, <1>7, CostType
<1>9. ScanLeft' = ScanLeft - gain
    <2> HIDE DEF rest
    <2> QED
        BY <1>4, <1>5, <1>6, <1>7, CostType
<1> QED
    BY <1>8, <1>9

LEMMA RefreshLeftType ==
    ASSUME StateTypeOK
    PROVE  /\ RefreshLeft \in 0 .. Len(Pages) * PageCost + 3 * Cardinality(ID) + 3
           /\ rpc \notin {"refreshed", "failed"} => RefreshLeft > 0
<1> DEFINE bound == Len(Pages) * PageCost + 3 * Cardinality(ID)
<1>1. ScanLeft \in 0 .. bound /\ bound \in Nat
    <2>1. Len(Pages) * PageCost \in Nat /\ 3 * Cardinality(ID) \in Nat
        BY PagesType, CostType, TimesNat
    <2> QED
        BY <2>1, ScanLeftType
<1>2. rpc \in RefresherLabels
    BY DEF StateTypeOK, RefreshTypeOK
<1> HIDE DEF bound
<1>3. RefreshLeft \in 0 .. bound + 3 /\ (rpc \notin {"refreshed", "failed"} => RefreshLeft > 0)
    BY <1>1, <1>2 DEF RefresherLabels, RefreshLeft
<1> QED
    BY <1>3 DEF bound

LEMMA RefreshLowers ==
    ASSUME ShapeInv, Refresh, rpc \notin {"refreshed", "failed"}
    PROVE  RefreshLeft' < RefreshLeft
<1>1. StateTypeOK /\ ScanLeft \in Nat
    BY ScanLeftType DEF ShapeInv
<1>2. CASE NextPage
    <2>1. rpc = "scan" /\ rpc' = "scan"
        BY <1>2 DEF NextPage
    <2>2. PICK gain \in Nat \ {0} : ScanLeft' = ScanLeft - gain
        BY <1>1, <1>2, PageRead
    <2> QED
        BY <1>1, <2>1, <2>2 DEF RefreshLeft
<1>3. CASE SkipItem
    <2>1. PICK key \in ID : batch[key] = Malformed /\ batch' = [batch EXCEPT ![key] = Absent]
        BY <1>3 DEF SkipItem
    <2>2. ScanLeft' = ScanLeft - 3
        BY <1>1, <1>3, <2>1, ItemGone, TableAssumption DEF SkipItem
    <2>3. rpc = "scan" /\ rpc' = "scan"
        BY <1>3 DEF SkipItem
    <2> QED
        BY <1>1, <2>2, <2>3 DEF RefreshLeft
<1>4. CASE StoreItem
    <2>1. PICK key \in ID : batch[key] \in Extension /\ batch' = [batch EXCEPT ![key] = Absent]
        BY <1>4 DEF StoreItem
    <2>2. ScanLeft' = ScanLeft - 3
        BY <1>1, <1>4, <2>1, ItemGone, AbsentAssumption DEF StoreItem
    <2>3. rpc = "store" /\ rpc' = "scan"
        BY <1>4 DEF StoreItem, Step
    <2> QED
        BY <1>1, <2>2, <2>3 DEF RefreshLeft
<1>5. CASE StartStore \/ EnterStore
    <2>1. UNCHANGED <<page, batch>>
        BY <1>5 DEF StartStore, EnterStore, refreshVars
    <2>2. ScanLeft' = ScanLeft
        BY <2>1 DEF ScanLeft, PagesLeft, PageCost, ItemsLeft
    <2>3. \/ rpc = "scan" /\ rpc' = "store"
          \/ rpc = "store" /\ rpc' = "store" /\ ~writing /\ writing'
        BY <1>5 DEF StartStore, EnterStore, LockReturns, Step, refreshVars
    <2> QED
        BY <1>1, <2>2, <2>3 DEF RefreshLeft
<1>6. CASE ScanFails \/ ScanDone \/ Marshal \/ Publish \/ Invalidate
    <2>1. <<rpc, rpc'>> \in {<<"scan", "failed">>, <<"scan", "marshal">>, <<"marshal", "publish">>,
                             <<"marshal", "invalidate">>, <<"publish", "refreshed">>,
                             <<"invalidate", "failed">>}
        BY <1>6 DEF ScanFails, ScanDone, Marshal, Publish, Invalidate, Step
    <2> QED
        BY <1>1, <2>1 DEF RefreshLeft
<1>7. ~StartServing /\ ~Tick
    BY DEF StartServing, Tick
<1> QED
    BY <1>2, <1>3, <1>4, <1>5, <1>6, <1>7 DEF Refresh

(***************************************************************************)
(* Every step of a refresh lowers what is left of it, for any paging of    *)
(* any finite table, whatever the handlers and the edits in between.       *)
(***************************************************************************)
THEOREM RefreshesAdvance == Spec => EveryRefreshAdvances
<1>1. ASSUME ShapeInv, [Next]_vars, rpc \notin {"refreshed", "failed"}, crashes' = crashes,
             <<rpc, page, batch, writing>>' # <<rpc, page, batch, writing>>
      PROVE  RefreshLeft' < RefreshLeft
    <2>1. ~Restart
        BY <1>1 DEF Restart, ShapeInv, StateTypeOK, RefreshTypeOK
    <2>2. ASSUME NEW p \in Handler, Arrive(p) \/ Handle(p)
          PROVE  UNCHANGED <<rpc, page, batch, writing>>
        BY <2>2 DEF refreshVars, mapVars, RLock, RUnlock, DoneReading, Arrive, Handle, ReadBody, Work, Write,
            RefusePost, AcceptPost, PostLoad, PostLoaded, Process, ProcessApp, Processed,
            PostRespond, WebStore, RefuseX, StoreLoad, StoreLoaded, StoreRespond, CacheHit,
            CacheMiss, PrintExtensions, Printed, Fill
    <2>3. ASSUME EditTable \/ UNCHANGED vars PROVE UNCHANGED <<rpc, page, batch, writing>>
        BY <2>3 DEF EditTable, vars, mapVars, refreshVars
    <2>4. Refresh
        BY <1>1, <2>1, <2>2, <2>3 DEF Next
    <2> QED
        BY <1>1, <2>4, RefreshLowers
<1>2. ShapeInv /\ [Next]_vars =>
        [ /\ rpc \notin {"refreshed", "failed"}
          /\ <<rpc, page, batch, writing>>' # <<rpc, page, batch, writing>>
          /\ crashes' = crashes
          => RefreshLeft' < RefreshLeft ]_vars
    BY <1>1
<1> QED
    BY <1>2, InitShape, NextShape, PTL DEF Spec, EveryRefreshAdvances

(***************************************************************************)
(* What is left is a natural number: a refresh of a table of n IDs on k    *)
(* pages takes at most k(3n + 1) + 3 steps, besides what is at hand.       *)
(***************************************************************************)
THEOREM RefreshesAreBounded ==
    Spec => [](RefreshLeft \in 0 .. Len(Pages) * PageCost + 3 * Cardinality(ID) + 3)
<1>1. ShapeInv => RefreshLeft \in 0 .. Len(Pages) * PageCost + 3 * Cardinality(ID) + 3
    BY RefreshLeftType DEF ShapeInv
<1> QED
    BY <1>1, InitShape, NextShape, PTL DEF Spec
=============================================================================
