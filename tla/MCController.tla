---------------------------- MODULE MCController ----------------------------
(***************************************************************************)
(* Values for the constants of Controller.  Two IDs on two pages, two      *)
(* request slots; the rows and requests each run needs.                    *)
(***************************************************************************)
EXTENDS Controller

CONSTANTS a, b, h1, h2, r

MCID == {a, b}
MCHandler == {h1, h2}
MCProc == {h1, h2, r}
MCPages == <<{a}, {b}>>
OnePage == <<{a, b}>>
MCVersion == {EmptyVersion, <<1>>, <<2>>}
MCSize == {0, 1}

NewRow == [version |-> <<2>>, hashed |-> TRUE, size |-> 0, blacklisted |-> FALSE]
UnhashedRow == [version |-> <<2>>, hashed |-> FALSE, size |-> 1, blacklisted |-> FALSE]
BannedRow == [version |-> <<2>>, hashed |-> TRUE, size |-> 1, blacklisted |-> TRUE]

Asks(id, v) == [id |-> id, version |-> v]
R(kind, apps) == [kind |-> kind, apps |-> apps]

V3Pair == R("v3", <<Asks(a, <<1>>), Asks(b, <<2>>)>>)
V4One == R("v4", <<Asks(b, <<1>>)>>)
V4Current == R("v4", <<Asks(b, <<2>>)>>)
Pingback == R("pingback", <<>>)
Rejected == R("rejected", <<>>)
All == R("all", <<>>)
StorePair == R("webstore", <<Asks(a, <<1>>), Asks(b, <<1>>)>>)
StoreOne == R("webstore", <<Asks(b, <<1>>)>>)
StoreNone == R("webstore", <<>>)
StoreBad == R("webstore", <<Asks(a, <<1>>), Asks(NoID, EmptyVersion)>>)

PostKinds == {V3Pair, V4One, Pingback, Rejected, All}
NoStoreLoad == {V3Pair, V4One, Pingback, All, StoreNone}
StoreKinds == {StorePair, StoreOne, StoreBad, V4Current}
OnlyStorePair == {StorePair}
OnlyAll == {All}

AllRows == {NewRow, UnhashedRow, BannedRow}
FilterRows == {NewRow, BannedRow}
OneRow == {NewRow}

Full == [id \in ID |-> NewRow]
HalfMalformed == [id \in ID |-> IF id = a THEN Malformed ELSE NewRow]
Half == [id \in ID |-> IF id = a THEN NewRow ELSE Absent]
Banned == [id \in ID |-> BannedRow]

FullOrHalf == {Full, HalfMalformed, Half}
TwoHalves == {HalfMalformed, Half}
OnlyHalf == {Half}
OnlyFull == {Full}
OnlyBannedTable == {Banned}
=============================================================================
