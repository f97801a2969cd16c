--------------------------- MODULE CatalogService ---------------------------
(***************************************************************************)
(* What go-update promises its clients, without a lock, a cache or a       *)
(* database: a catalog that learns one row at a time and forgets none, but *)
(* for a restart, and requests each of which is decided at one moment,     *)
(* from the whole catalog as it is at that moment.                         *)
(***************************************************************************)
EXTENDS Extensions, FiniteSets

CONSTANTS
    Client, Request, NoRequest, NoEntry,
    Patched  \* whether rows have patches, which may be broken

VARIABLES
    catalog,  \* every extension the service knows
    phase,    \* of each client: "idle", "asked", "decided"
    asked,    \* the request of each client
    decision, \* what was decided for it and not yet delivered
    reply     \* what was delivered last

serviceVars == <<catalog, phase, asked, decision, reply>>

NoReply == [code |-> 0, answers |-> <<>>, catalog |-> NoEntry]

Outdated(app, m) == CompareVersions(app.version, Found(app.id, m).version) = -1

Updated(app, m) == app.id \in Known(m) /\ ~m[app.id].blacklisted /\ Outdated(app, m)

\* The answer to one app of an update check.
Correct(app, answer, m) ==
    LET known  == app.id \in Known(m)
        banned == known /\ m[app.id].blacklisted
    IN  /\ answer.id = app.id
        /\ answer.status = "error-unknownApplication" <=> ~known
        /\ answer.status = "restricted" <=> banned
        /\ answer.status = "ok" <=> Updated(app, m)
        /\ answer.status = "ok" => answer.version = m[app.id].version

\* An update v4 clients cannot be told of: it has no SHA256.
Unusable(app, m) == Updated(app, m) /\ ~m[app.id].hashed

OnlyUnknown(r, m) == Len(r.apps) = 1 /\ r.apps[1].id \notin Known(m)

PermittedUpdate(r, o, m) ==
    \/ o.code = 307 /\ OnlyUnknown(r, m)
    \/ /\ o.code = 200
       /\ ~OnlyUnknown(r, m)
       /\ r.kind = "v4" => \A i \in DOMAIN r.apps : ~Unusable(r.apps[i], m)
       /\ DOMAIN o.answers = DOMAIN r.apps
       /\ \A i \in DOMAIN r.apps : Correct(r.apps[i], o.answers[i], m)
    \/ /\ o.code = 500
       /\ \E i \in DOMAIN r.apps : \/ r.kind = "v4" /\ Unusable(r.apps[i], m)
                                   \/ Patched /\ Updated(r.apps[i], m)

\* The web store lists what is outdated, in the order it was asked for.
PermittedWebStore(r, o, m) ==
    LET newer    == {i \in DOMAIN r.apps : Outdated(r.apps[i], m)}
        place(i) == Cardinality({j \in newer : j <= i})
        nameless == \E i \in DOMAIN r.apps : r.apps[i].id = NoID
    IN  \/ o.code = 400 /\ nameless
        \/ o.code = 307 /\ OnlyUnknown(r, m) /\ ~nameless
        \/ /\ o.code = 200
           /\ ~nameless
           /\ ~OnlyUnknown(r, m)
           /\ Len(o.answers) = Cardinality(newer)
           /\ \A i \in newer :
                 LET app    == r.apps[i]
                     answer == o.answers[place(i)]
                 IN  /\ answer.status = "ok"
                     /\ answer.version = Found(app.id, m).version
                     /\ app.id \in Known(m) => answer.id = app.id

\* /extensions/all may be old, but lists nothing the service does not know.
PermittedAll(o, m) ==
    o.code = 500 \/ (o.code = 200 /\ Known(o.catalog) \subseteq Known(m))

Permitted(r, o, m) ==
    CASE r.kind = "pingback" -> o.code = 204
      [] r.kind = "rejected" -> o.code = 400
      [] r.kind = "webstore" -> PermittedWebStore(r, o, m)
      [] r.kind = "all" -> PermittedAll(o, m)
      [] OTHER -> PermittedUpdate(r, o, m)

-----------------------------------------------------------------------------

ServiceInit ==
    /\ catalog = EmptyCatalog
    /\ phase = [c \in Client |-> "idle"]
    /\ asked = [c \in Client |-> NoRequest]
    /\ decision = [c \in Client |-> NoReply]
    /\ reply = [c \in Client |-> NoReply]

Learn ==
    /\ \E id \in ID, extension \in Extension :
          catalog' = [catalog EXCEPT ![id] = extension]
    /\ UNCHANGED <<phase, asked, decision, reply>>

Ask(c) ==
    /\ phase[c] = "idle"
    /\ phase' = [phase EXCEPT ![c] = "asked"]
    /\ \E r \in Request : asked' = [asked EXCEPT ![c] = r]
    /\ reply' = [reply EXCEPT ![c] = NoReply]
    /\ UNCHANGED <<catalog, decision>>

\* The request is decided now, and delivered at once ...
Answer(c) ==
    /\ phase[c] = "asked"
    /\ phase' = [phase EXCEPT ![c] = "idle"]
    /\ reply' = [reply EXCEPT ![c] = reply'[c]]
    /\ Permitted(asked[c], reply'[c], catalog)
    /\ UNCHANGED <<catalog, asked, decision>>

\* ... or later, as it was decided.
Decide(c) ==
    /\ phase[c] = "asked"
    /\ phase' = [phase EXCEPT ![c] = "decided"]
    /\ decision' = [decision EXCEPT ![c] = decision'[c]]
    /\ Permitted(asked[c], decision'[c], catalog)
    /\ UNCHANGED <<catalog, asked, reply>>

Deliver(c) ==
    /\ phase[c] = "decided"
    /\ phase' = [phase EXCEPT ![c] = "idle"]
    /\ reply' = [reply EXCEPT ![c] = decision[c]]
    /\ decision' = [decision EXCEPT ![c] = NoReply]
    /\ UNCHANGED <<catalog, asked>>

\* A client is done with what it was delivered.
Take(c) ==
    /\ phase[c] = "idle"
    /\ asked' = [asked EXCEPT ![c] = NoRequest]
    /\ reply' = [reply EXCEPT ![c] = NoReply]
    /\ UNCHANGED <<catalog, phase, decision>>

\* The service forgets its catalog and whom it owes an answer.
Restart ==
    /\ catalog' = EmptyCatalog
    /\ phase' = [c \in Client |-> "idle"]
    /\ asked' = [c \in Client |-> NoRequest]
    /\ decision' = [c \in Client |-> NoReply]
    /\ reply' = [c \in Client |-> NoReply]

ServiceNext ==
    \/ Learn \/ Restart
    \/ \E c \in Client : Ask(c) \/ Answer(c) \/ Decide(c) \/ Deliver(c) \/ Take(c)

Service == ServiceInit /\ [][ServiceNext]_serviceVars
=============================================================================
