---------------------------- MODULE UpdateClient ----------------------------
(***************************************************************************)
(* What the order on versions (extension.CompareVersions) is for: a client *)
(* that installs whatever it is offered, while the catalog changes.  The   *)
(* client is no part of the repository; the answers it gets are Verdict    *)
(* and Offer of module Extensions.                                         *)
(***************************************************************************)
EXTENDS Extensions

CONSTANT MaxChanges  \* bound on the rows stored

ASSUME MaxChangesAssumption == MaxChanges \in Nat

VARIABLES
    catalog,   \* the ExtensionsMap
    changes,   \* how many rows have been stored
    installed, \* the version the client has of each extension
    past       \* the versions it had before

clientVars == <<catalog, changes, installed, past>>

Init ==
    /\ catalog = EmptyCatalog
    /\ changes = 0
    /\ installed \in [ID -> Version]
    /\ past = [id \in ID |-> {}]

\* A refresh stores a row, also one with an older version than before.
StoreRow ==
    /\ changes < MaxChanges
    /\ \E id \in ID, extension \in Extension :
          catalog' = [catalog EXCEPT ![id] = Normalise(extension)]
    /\ changes' = changes + 1
    /\ UNCHANGED <<installed, past>>

Install(id, version) ==
    /\ installed' = [installed EXCEPT ![id] = version]
    /\ past' = [past EXCEPT ![id] = @ \cup {installed[id]}]
    /\ UNCHANGED <<catalog, changes>>

Asked(id) == [id |-> id, version |-> installed[id]]

\* The answer to a POST is an update.
CheckForUpdate(id) ==
    LET answer == Sent(Verdict(Asked(id), catalog))
    IN  answer.status = "ok" /\ Install(id, answer.version)

\* The answer to a web store GET lists one for the extension asked for.
CheckWebStore(id) ==
    LET offers == Response(Offer(Asked(id), catalog))
    IN  \E i \in DOMAIN offers :
           offers[i].id = id /\ Install(id, offers[i].version)

Next ==
    \/ StoreRow
    \/ \E id \in ID : CheckForUpdate(id) \/ CheckWebStore(id)

\* The client asks again and again.
ClientSpec ==
    /\ Init /\ [][Next]_clientVars
    /\ \A id \in ID : WF_clientVars(CheckForUpdate(id))

-----------------------------------------------------------------------------

ClientTypeOK ==
    /\ catalog \in Catalog
    /\ changes \in 0 .. MaxChanges
    /\ installed \in [ID -> Version]
    /\ past \in [ID -> SUBSET Version]

(***************************************************************************)
(* The order on common prefixes with unreadable parts as 0, in which equal *)
(* is not transitive, is still good enough: whatever rows are stored, a    *)
(* client never gets a version that is not newer than each it has had, so  *)
(* it is not sent round in circles (extension.go:50, 101).                 *)
(***************************************************************************)
NeverReturns ==
    \A id \in ID : \A v \in past[id] : CompareVersions(v, installed[id]) = -1

(***************************************************************************)
(* When the rows no longer change, a client that keeps asking comes to     *)
(* have nothing older than them, but for the blacklisted ones.             *)
(***************************************************************************)
ClientCatchesUp ==
    <>[](\A id \in Known(catalog) :
            ~catalog[id].blacklisted =>
                CompareVersions(installed[id], catalog[id].version) >= 0)
=============================================================================
