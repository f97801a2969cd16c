----------------------------- MODULE JSONCache -----------------------------
(***************************************************************************)
(* middleware.JSONCache and its middleware (src/server/middleware/         *)
(* cache.go): the entry behind an atomic pointer, the goroutines that set  *)
(* it, and conditional requests.  What the data says, and how old it is    *)
(* when Set is called, is module Controller's; here each Set has data of   *)
(* its own.                                                                *)
(***************************************************************************)
EXTENDS Integers, Sequences

CONSTANTS
    Setter,       \* goroutines that call Set
    Client,       \* clients, each with one request at a time
    Nil,          \* no entry, no copy
    SecondLength, \* ticks of the clock in a second
    MaxTime,      \* bound on the clock
    MaxSets       \* bound on the calls of Set

ASSUME ClockAssumption ==
    /\ SecondLength \in Nat \ {0}
    /\ MaxTime \in Nat
    /\ MaxSets \in Nat

VARIABLES
    now,    \* time.Now()
    stamps, \* the LastModified of each Set so far
    built,  \* the newEntry of each setter that is inside Set
    entry,  \* the atomic pointer
    held,   \* the entry each request has loaded
    copy,   \* the last full response each client keeps
    status  \* the status of its last response

cacheVars == <<now, stamps, built, entry, held, copy, status>>

Entry == [data: 1 .. MaxSets, lastModified: 0 .. MaxTime]

\* HTTP dates have seconds; a client sends back the date it was sent.
FormatRounded(time) == (time + SecondLength \div 2) \div SecondLength  \* [mutant of Format]
Format(time) == time \div SecondLength
Parse(seconds) == seconds * SecondLength

\* [mutant of After] compares in seconds.
AfterTruncated(time, t) == Parse(Format(time)) > t
AfterDiffers(time, t) == time # t  \* [mutant of After]
After(time, t) == time > t

Init ==
    /\ now = 0
    /\ stamps = <<>>
    /\ built = [s \in Setter |-> Nil]
    /\ entry = Nil
    /\ held = [c \in Client |-> Nil]
    /\ copy = [c \in Client |-> Nil]
    /\ status = [c \in Client |-> 0]

Tick ==
    /\ now < MaxTime
    /\ now' = now + 1
    /\ UNCHANGED <<stamps, built, entry, held, copy, status>>

\* [mutant of NewEntry] dates the entry with the time it is good for.
NewEntryExpiry(s) ==
    /\ built[s] = Nil
    /\ Len(stamps) < MaxSets
    /\ stamps # <<>> => stamps[Len(stamps)] < now
    /\ stamps' = Append(stamps, now)
    /\ built' = [built EXCEPT ![s] =
          [data |-> Len(stamps'), lastModified |-> now + SecondLength]]
    /\ UNCHANGED <<now, entry, held, copy, status>>

\* Set makes an entry with the time of now.  No two calls see the same tick.
NewEntry(s) ==
    /\ built[s] = Nil
    /\ Len(stamps) < MaxSets
    /\ stamps # <<>> => stamps[Len(stamps)] < now
    /\ stamps' = Append(stamps, now)
    /\ built' = [built EXCEPT ![s] = [data |-> Len(stamps'), lastModified |-> now]]
    /\ UNCHANGED <<now, entry, held, copy, status>>

\* and stores it.
Set(s) ==
    /\ built[s] # Nil
    /\ entry' = built[s]
    /\ built' = [built EXCEPT ![s] = Nil]
    /\ UNCHANGED <<now, stamps, held, copy, status>>

Invalidate ==
    /\ entry # Nil
    /\ entry' = Nil
    /\ UNCHANGED <<now, stamps, built, held, copy, status>>

-----------------------------------------------------------------------------

\* A request finds an entry, which is loaded once,
GetEntry(c) ==
    /\ held[c] = Nil
    /\ entry # Nil
    /\ held' = [held EXCEPT ![c] = entry]
    /\ UNCHANGED <<now, stamps, built, entry, copy, status>>

\* [mutant of Respond] loads the data again for the body.
RespondReload(c) ==
    /\ held[c] # Nil
    /\ LET data == IF entry = Nil THEN held[c].data ELSE entry.data
       IN  IF copy[c] # Nil /\ ~After(held[c].lastModified, Parse(copy[c].lastModified))
           THEN /\ status' = [status EXCEPT ![c] = 304]
                /\ UNCHANGED copy
           ELSE /\ status' = [status EXCEPT ![c] = 200]
                /\ copy' = [copy EXCEPT ![c] =
                      [data |-> data, lastModified |-> Format(held[c].lastModified)]]
    /\ held' = [held EXCEPT ![c] = Nil]
    /\ UNCHANGED <<now, stamps, built, entry>>

\* and is answered from it, in full unless it is not after the client's date.
Respond(c) ==
    /\ held[c] # Nil
    /\ IF copy[c] # Nil /\ ~After(held[c].lastModified, Parse(copy[c].lastModified))
       THEN /\ status' = [status EXCEPT ![c] = 304]
            /\ UNCHANGED copy
       ELSE /\ status' = [status EXCEPT ![c] = 200]
            /\ copy' = [copy EXCEPT ![c] = [data         |-> held[c].data,
                                            lastModified |-> Format(held[c].lastModified)]]
    /\ held' = [held EXCEPT ![c] = Nil]
    /\ UNCHANGED <<now, stamps, built, entry>>

\* On a miss the response has no date, so the next request has no condition.
Miss(c) ==
    /\ held[c] = Nil
    /\ entry = Nil
    /\ status' = [status EXCEPT ![c] = 200]
    /\ copy' = [copy EXCEPT ![c] = Nil]
    /\ UNCHANGED <<now, stamps, built, entry, held>>

Next ==
    \/ Tick
    \/ Invalidate
    \/ \E s \in Setter : NewEntry(s) \/ Set(s)
    \/ \E c \in Client : GetEntry(c) \/ Respond(c) \/ Miss(c)

\* Goroutines go on, and clients ask again and again.
Spec ==
    /\ Init /\ [][Next]_cacheVars
    /\ \A s \in Setter : WF_cacheVars(Set(s))
    /\ \A c \in Client : WF_cacheVars(GetEntry(c) \/ Respond(c))

-----------------------------------------------------------------------------

TypeOK ==
    /\ now \in 0 .. MaxTime
    /\ stamps \in Seq(0 .. MaxTime) /\ Len(stamps) <= MaxSets
    /\ built \in [Setter -> Entry \cup {Nil}]
    /\ entry \in Entry \cup {Nil}
    /\ held \in [Client -> Entry \cup {Nil}]
    /\ copy \in [Client -> Entry \cup {Nil}]
    /\ status \in [Client -> {0, 200, 304}]

(***************************************************************************)
(* The date and the data of a response belong to the same Set, whatever is *)
(* set or invalidated while it is written (cache.go:92-115).               *)
(***************************************************************************)
DateMatchesData ==
    \A c \in Client : copy[c] # Nil =>
        copy[c].lastModified = Format(stamps[copy[c].data])

(***************************************************************************)
(* No response says "not modified" about an entry made after the one the   *)
(* client has: the date it sends back was cut, never rounded up            *)
(* (cache.go:96, 101), in whatever order concurrent Sets are stored.       *)
(***************************************************************************)
NewerIsSent ==
    [][ \A c \in Client :
            held[c] # Nil /\ held'[c] = Nil /\ status'[c] = 304 =>
                stamps[held[c].data] <= stamps[copy[c].data] ]_cacheVars

(***************************************************************************)
(* Sets that overlap may store an older entry over a newer one.  A client  *)
(* keeps the newer copy unless both were made in the same second, which is *)
(* all that its date tells: a copy is replaced by one of the same or of a  *)
(* later second, until a miss drops it (cache.go:52-58, 96, 101).          *)
(***************************************************************************)
DatesNeverGoBack ==
    [][ \A c \in Client : copy[c] # Nil /\ copy'[c] # Nil =>
            copy[c].lastModified <= copy'[c].lastModified ]_cacheVars

\* One goroutine at a time is in Set, which takes its time before it stores.
SetsDoNotOverlap ==
    \A s, t \in Setter : built[s] # Nil /\ built[t] # Nil => s = t

(***************************************************************************)
(* When nothing is set any more, clients that keep asking come to have the *)
(* data that is cached, so long as no two Sets overlapped (cache.go:52-58).*)
(***************************************************************************)
ClientsCatchUp ==
    []SetsDoNotOverlap =>
        <>[](entry # Nil => \A c \in Client : copy[c] # Nil => copy[c].data = entry.data)
=============================================================================
