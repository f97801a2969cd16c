------------------------- MODULE UpdateClientProofs -------------------------
(***************************************************************************)
(* No client is sent round in circles, for versions of any length with any *)
(* parts, whatever rows the catalog comes to hold.                         *)
(***************************************************************************)
EXTENDS UpdateClient, ExtensionsProofs

LEMMA InitClient == Init => ClientTypeOK /\ NeverReturns
<1> SUFFICES ASSUME Init PROVE ClientTypeOK /\ NeverReturns
    OBVIOUS
<1>1. EmptyCatalog \in Catalog
    BY DEF EmptyCatalog, Catalog
<1>2. ClientTypeOK
    BY <1>1, MaxChangesAssumption DEF Init, ClientTypeOK
<1>3. NeverReturns
    BY DEF Init, NeverReturns
<1> QED
    BY <1>2, <1>3

LEMMA FoundVersion ==
    ASSUME NEW id, NEW m \in Catalog
    PROVE  Found(id, m).version \in Version
BY FoundType DEF Extension

\* What an answer makes the client install is newer than what it has.
LEMMA PostIsNewer ==
    ASSUME ClientTypeOK, NEW id \in ID, CheckForUpdate(id)
    PROVE  \E v \in Version :
              Install(id, v) /\ CompareVersions(installed[id], v) = -1
<1> DEFINE found == Found(id, catalog)
           verdict == Verdict(Asked(id), catalog)
<1>1. found.version \in Version
    BY FoundVersion DEF ClientTypeOK
<1>2. Sent(verdict).status = "ok" /\ Install(id, Sent(verdict).version)
    BY DEF CheckForUpdate
<1>3. verdict.status \in {"", "noupdate", "restricted", "error-unknownApplication"}
    BY DEF Verdict
<1>4. verdict.status = ""
    <2> HIDE DEF verdict
    <2> QED BY <1>2, <1>3 DEF Sent, GetUpdateStatus
<1>5. verdict.version = found.version
    BY DEF Verdict, Asked
<1>6. Sent(verdict).version = found.version
    <2> HIDE DEF verdict, found
    <2> QED BY <1>4, <1>5 DEF Sent
<1>7. ~(CompareVersions(installed[id], found.version) >= 0)
    BY <1>4 DEF Verdict, Asked
<1>8. CompareVersions(installed[id], found.version) = -1
    <2> HIDE DEF found
    <2>1. installed[id] \in Version
        BY DEF ClientTypeOK
    <2>2. CompareVersions(installed[id], found.version) \in {-1, 0, 1}
        BY <1>1, <2>1, CompareIsOlder
    <2> QED
        BY <1>7, <2>2
<1> HIDE DEF found, verdict
<1> QED
    BY <1>1, <1>2, <1>6, <1>8

LEMMA StoreIsNewer ==
    ASSUME ClientTypeOK, NEW id \in ID, CheckWebStore(id)
    PROVE  \E v \in Version :
              Install(id, v) /\ CompareVersions(installed[id], v) = -1
<1> DEFINE found == Found(id, catalog)
           offer == [id      |-> IF id \in Known(catalog) THEN id ELSE NoID,
                     version |-> found.version,
                     hashed  |-> found.hashed,
                     status  |-> ""]
           offers == Offer(Asked(id), catalog)
<1>1. found.version \in Version /\ installed[id] \in Version
    BY FoundVersion DEF ClientTypeOK
<1>2. PICK i \in DOMAIN Response(offers) : Install(id, Response(offers)[i].version)
    BY DEF CheckWebStore
<1>3. i \in DOMAIN offers /\ Response(offers)[i] = Sent(offers[i])
    BY <1>2 DEF Response
<1>4. offers = IF CompareVersions(installed[id], found.version) < 0 THEN <<offer>> ELSE <<>>
    BY DEF Offer, Asked
<1>5. CompareVersions(installed[id], found.version) \in {-1, 0, 1}
    BY <1>1, CompareIsOlder
<1>6. Sent(offer).version = found.version
    BY DEF Sent
<1> HIDE DEF offer, offers, found
<1>7. DOMAIN <<>> = {} /\ DOMAIN <<offer>> = {1} /\ <<offer>>[1] = offer
    OBVIOUS
<1>8. CompareVersions(installed[id], found.version) < 0 /\ offers[i] = offer
    BY <1>3, <1>4, <1>7
<1>9. CompareVersions(installed[id], found.version) = -1
    BY <1>5, <1>8
<1> QED
    BY <1>1, <1>2, <1>3, <1>6, <1>8, <1>9

LEMMA InstallKeeps ==
    ASSUME ClientTypeOK, NeverReturns, NEW id \in ID, NEW v \in Version,
           Install(id, v), CompareVersions(installed[id], v) = -1
    PROVE  ClientTypeOK' /\ NeverReturns'
<1>1. ClientTypeOK'
    BY DEF ClientTypeOK, Install
<1>2. ASSUME NEW k \in ID, NEW w \in past'[k]
      PROVE  CompareVersions(w, installed'[k]) = -1
    <2>1. CASE k # id
        BY <1>2, <2>1 DEF Install, ClientTypeOK, NeverReturns
    <2>2. CASE k = id
        <3>1. installed'[id] = v /\ w \in past[id] \cup {installed[id]}
            BY <1>2, <2>2 DEF Install, ClientTypeOK
        <3>2. CASE w \in past[id]
            <4>1. w \in Version /\ installed[id] \in Version
                BY <3>2 DEF ClientTypeOK
            <4>2. CompareVersions(w, installed[id]) = -1
                BY <3>2 DEF NeverReturns
            <4> QED
                BY <2>2, <3>1, <4>1, <4>2, CompareTransitive
        <3> QED
            BY <2>2, <3>1, <3>2
    <2> QED
        BY <2>1, <2>2
<1> QED
    BY <1>1, <1>2 DEF NeverReturns

\* A version that is installed is newer than the one before, and so, the order
\* being transitive, than all before that.
LEMMA ClientInductive == ClientSpec => [](ClientTypeOK /\ NeverReturns)
<1>1. ASSUME ClientTypeOK, NeverReturns, [Next]_clientVars
      PROVE  ClientTypeOK' /\ NeverReturns'
    <2>1. CASE StoreRow
        <3>1. PICK id \in ID, extension \in Extension :
                catalog' = [catalog EXCEPT ![id] = Normalise(extension)]
            BY <2>1 DEF StoreRow
        <3>2. Normalise(extension) \in Extension
            BY SizeAssumption DEF Normalise, Extension
        <3>3. catalog' \in Catalog /\ changes' \in 0 .. MaxChanges
            BY <1>1, <2>1, <3>1, <3>2, MaxChangesAssumption
            DEF StoreRow, ClientTypeOK, Catalog
        <3>4. UNCHANGED <<installed, past>>
            BY <2>1 DEF StoreRow
        <3> QED
            BY <1>1, <3>3, <3>4 DEF ClientTypeOK, NeverReturns
    <2>2. ASSUME NEW id \in ID, CheckForUpdate(id) \/ CheckWebStore(id)
          PROVE  ClientTypeOK' /\ NeverReturns'
        <3>1. \E v \in Version : Install(id, v) /\ CompareVersions(installed[id], v) = -1
            BY <1>1, <2>2, PostIsNewer, StoreIsNewer
        <3> QED
            BY <1>1, <3>1, InstallKeeps
    <2>3. CASE UNCHANGED clientVars
        BY <1>1, <2>3 DEF clientVars, ClientTypeOK, NeverReturns
    <2> QED
        BY <1>1, <2>1, <2>2, <2>3 DEF Next
<1> QED
    BY <1>1, InitClient, PTL DEF ClientSpec

\* The catalog, and what a client has and had, keep their types.
THEOREM ClientTypeCorrect == ClientSpec => []ClientTypeOK
BY ClientInductive, PTL

(***************************************************************************)
(* For all versions and rows a client that installs what it is offered     *)
(* only ever gets versions newer than all it has had.                      *)
(***************************************************************************)
THEOREM ClientNeverReturns == ClientSpec => []NeverReturns
BY ClientInductive, PTL
=============================================================================
