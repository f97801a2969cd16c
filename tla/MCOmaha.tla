------------------------------ MODULE MCOmaha ------------------------------
(***************************************************************************)
(* Values for the constants of Omaha.  Rows whose versions tell them apart *)
(* and whose patches differ; bodies that end at every step of the handler. *)
(***************************************************************************)
EXTENDS Omaha

CONSTANTS a, b, f, g

MCID == {a, b}
MCFingerprint == {f, g}
MCVersion == {EmptyVersion, <<-1>>, <<1>>, <<2>>, <<3>>}
MCSize == {0, 1}

Row(v, hashed) == [version |-> v, hashed |-> hashed, size |-> 1, blacklisted |-> FALSE]
PatchesFor(forF, forG) == [fp \in Fingerprint |-> IF fp = f THEN forF ELSE forG]

Diffed == [row |-> Row(<<2>>, TRUE), patches |-> PatchesFor("sound", "hashless")]
Unhashed == [row |-> Row(<<1>>, FALSE), patches |-> PatchesFor("none", "none")]
NilPatch == [row |-> Row(<<3>>, TRUE), patches |-> PatchesFor("nil", "none")]
Banned == [row |-> [Row(EmptyVersion, FALSE) EXCEPT !.blacklisted = TRUE],
           patches |-> PatchesFor("sound", "sound")]

MCStock == {Diffed, Unhashed, NilPatch, Banned}

Client(id, v, fp, package, cached) ==
    [id |-> id, version |-> v, fp |-> fp, package |-> package, cached |-> cached]

AppLists ==
    {<<>>,
     <<Client(a, EmptyVersion, f, NoFP, f)>>,
     <<Client(a, <<1>>, NoFP, g, g), Client(b, EmptyVersion, f, g, NoFP)>>}

Says(syntax, typed, v, updater, apps) ==
    [fails |-> FALSE, length |-> 2, syntax |-> syntax, events |-> FALSE, typed |-> typed,
     protocol |-> v, updater |-> updater, apps |-> apps]

Sound == {Says(syntax, TRUE, v, "other", apps) :
             syntax \in {"json", "xml"}, v \in Protocols, apps \in AppLists}

One == Says("json", TRUE, "3.1", "chromiumcrx", <<Client(b, <<1>>, g, NoFP, NoFP)>>)
Events == [One EXCEPT !.events = TRUE]

MCBody ==
    Sound \cup
    {One, Events, [Events EXCEPT !.syntax = "neither"], [One EXCEPT !.typed = FALSE],
     [One EXCEPT !.syntax = "neither"], [One EXCEPT !.fails = TRUE],
     [Events EXCEPT !.length = Limit], [One EXCEPT !.length = Limit + 1],
     [One EXCEPT !.length = 0, !.syntax = "neither"]}

Param(id, v) == [broken |-> FALSE, id |-> id, version |-> v]

MCQuery ==
    {[accept |-> accept, xs |-> xs] :
        accept \in {{}, {"any", "json"}},
        xs \in {<<>>, <<Param(a, <<1>>)>>, <<Param(NoID, <<1>>)>>,
                <<Param(a, EmptyVersion), Param(b, <<2>>)>>, <<Param(b, <<-1>>), Param(a, <<1>>)>>,
                <<Param(a, EmptyVersion), [Param(b, <<1>>) EXCEPT !.broken = TRUE]>>}}
=============================================================================
