----------------------------- MODULE Extensions -----------------------------
(***************************************************************************)
(* Package extension (src/extension/extension.go): the Extension record,   *)
(* the order on versions, and what one entry of a request is answered      *)
(* given the contents of an ExtensionsMap.  Everything here is a pure      *)
(* operator; the lock of the map is module ExtensionsMap.                  *)
(***************************************************************************)
EXTENDS Integers, Sequences

CONSTANTS
    ID,       \* extension IDs the table may hold
    NoID,     \* the empty ID
    Absent,   \* a key the map does not hold
    Junk,     \* a version part strconv.Atoi refuses: not a number, or too large
    Version,  \* versions of rows and of requests
    Size      \* sizes of packages

ASSUME IDAssumption == NoID \notin ID

(***************************************************************************)
(* A version is the list of its dot-separated parts.  strings.Split never  *)
(* returns the empty list: the empty string is one part that is no number. *)
(***************************************************************************)
EmptyVersion == <<Junk>>

ASSUME VersionAssumption ==
    /\ Version \subseteq Seq(Int \cup {Junk}) \ {<<>>}
    /\ Junk \notin Int
    /\ EmptyVersion \in Version

(***************************************************************************)
(* An entry of the map.  `hashed' says that SHA256 is not empty, which is  *)
(* all that formatting a v4 response asks of it.  Titles and URLs are left *)
(* out, and so are patches and the Status attribute: rows have none here.  *)
(***************************************************************************)
Extension == [version: Version, hashed: BOOLEAN, size: Size, blacklisted: BOOLEAN]

ASSUME SizeAssumption == {0, 1} \subseteq Size /\ Size \subseteq Nat

ASSUME AbsentAssumption == Absent \notin Extension

\* The zero value Load returns for a key it does not find.
ZeroExtension ==
    [version |-> EmptyVersion, hashed |-> FALSE, size |-> 0, blacklisted |-> FALSE]

\* The contents of an ExtensionsMap.
Catalog == [ID -> Extension \cup {Absent}]

EmptyCatalog == [id \in ID |-> Absent]

Known(m) == {id \in ID : m[id] # Absent}

Found(id, m) == IF id \in Known(m) THEN m[id] ELSE ZeroExtension

\* A table row as it is stored: a missing size becomes 1.
Normalise(row) == [row EXCEPT !.size = IF @ = 0 THEN 1 ELSE @]

-----------------------------------------------------------------------------

\* The number a version part stands for: 0 when Atoi refuses it.
Atoi(part) == IF part = Junk THEN 0 ELSE part

\* [mutant of CompareVersions] is decided by the last part that differs.
CompareVersionsLast(v1, v2) ==
    LET common == 1 .. (IF Len(v1) < Len(v2) THEN Len(v1) ELSE Len(v2))
        differ == {i \in common : Atoi(v1[i]) # Atoi(v2[i])}
        last   == CHOOSE i \in differ : \A j \in differ : i >= j
    IN  IF differ = {} THEN 0
        ELSE IF Atoi(v1[last]) < Atoi(v2[last]) THEN -1 ELSE 1

(***************************************************************************)
(* CompareVersions looks at the parts both versions have, and decides at   *)
(* the first one that differs.  Versions that agree on that common prefix  *)
(* are equal, whatever the longer one goes on with.                        *)
(***************************************************************************)
CompareVersions(v1, v2) ==
    LET common == 1 .. (IF Len(v1) < Len(v2) THEN Len(v1) ELSE Len(v2))
        differ == {i \in common : Atoi(v1[i]) # Atoi(v2[i])}
        first  == CHOOSE i \in differ : \A j \in differ : i <= j
    IN  IF differ = {} THEN 0
        ELSE IF Atoi(v1[first]) < Atoi(v2[first]) THEN -1 ELSE 1

-----------------------------------------------------------------------------

\* One entry of a request: an extension and the version the client has.
App == [id: ID \cup {NoID}, version: Version]

Statuses == {"", "noupdate", "restricted", "error-unknownApplication"}

\* [mutant of Verdict] looks at the version before the blacklist.
VerdictVersionFirst(app, m) ==
    LET found == Found(app.id, m)
    IN  [id      |-> app.id,
         version |-> found.version,
         hashed  |-> found.hashed,
         status  |->
            IF app.id \notin Known(m) THEN "error-unknownApplication"
            ELSE IF CompareVersions(app.version, found.version) >= 0 THEN "noupdate"
            ELSE IF found.blacklisted THEN "restricted"
            ELSE ""]

\* [mutant of Verdict] has the versions the wrong way round.
VerdictSwapped(app, m) ==
    LET found == Found(app.id, m)
    IN  [id      |-> app.id,
         version |-> found.version,
         hashed  |-> found.hashed,
         status  |->
            IF app.id \notin Known(m) THEN "error-unknownApplication"
            ELSE IF found.blacklisted THEN "restricted"
            ELSE IF CompareVersions(found.version, app.version) >= 0 THEN "noupdate"
            ELSE ""]

\* What ProcessExtensionRequests appends for one entry of the request.
Verdict(app, m) ==
    LET found == Found(app.id, m)
    IN  [id      |-> app.id,
         version |-> found.version,
         hashed  |-> found.hashed,
         status  |->
            IF app.id \notin Known(m) THEN "error-unknownApplication"
            ELSE IF found.blacklisted THEN "restricted"
            ELSE IF CompareVersions(app.version, found.version) >= 0 THEN "noupdate"
            ELSE ""]

Verdicts == [id: ID \cup {NoID}, version: Version, hashed: BOOLEAN, status: Statuses]

\* [mutant of Offer] offers the same version too.
OfferSame(app, m) ==
    LET found == Found(app.id, m)
    IN  IF CompareVersions(app.version, found.version) <= 0
        THEN <<[id      |-> IF app.id \in Known(m) THEN app.id ELSE NoID,
                version |-> found.version,
                hashed  |-> found.hashed,
                status  |-> ""]>>
        ELSE <<>>

\* What the web store loop appends for one x parameter: one entry or none.
Offer(app, m) ==
    LET found == Found(app.id, m)
    IN  IF CompareVersions(app.version, found.version) < 0
        THEN <<[id      |-> IF app.id \in Known(m) THEN app.id ELSE NoID,
                version |-> found.version,
                hashed  |-> found.hashed,
                status  |-> ""]>>
        ELSE <<>>

\* A response names an extension, its status and, for an update, the version.
GetUpdateStatus(v) == IF v.status = "" THEN "ok" ELSE v.status

Sent(v) ==
    [id      |-> v.id,
     status  |-> GetUpdateStatus(v),
     version |-> IF v.status = "" THEN v.version ELSE EmptyVersion]

SentAnswer == [id: ID \cup {NoID}, status: (Statuses \ {""}) \cup {"ok"}, version: Version]

Response(answers) == [i \in DOMAIN answers |-> Sent(answers[i])]

\* A v4 response is refused as a whole when an update in it has no SHA256.
V4Formattable(answers) ==
    \A i \in DOMAIN answers : answers[i].status = "" => answers[i].hashed
=============================================================================
