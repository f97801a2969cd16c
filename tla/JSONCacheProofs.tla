-------------------------- MODULE JSONCacheProofs --------------------------
(***************************************************************************)
(* What a conditional request is answered, proved for any number of        *)
(* setters, clients and calls of Set, and any length of a second.          *)
(*                                                                         *)
(* The invariant ties every entry that is built, stored or held, and every *)
(* copy of a client, to the Set it is from; the times of those increase.   *)
(***************************************************************************)
EXTENDS JSONCache, SequenceTheorems, TLAPS

FromASet(e) == e.data \in DOMAIN stamps /\ e.lastModified = stamps[e.data]

StampsIncrease ==
    /\ \A i \in DOMAIN stamps : stamps[i] <= now
    /\ \A i, j \in DOMAIN stamps : i < j => stamps[i] < stamps[j]

EntriesDated ==
    /\ \A s \in Setter : built[s] # Nil => FromASet(built[s])
    /\ entry # Nil => FromASet(entry)
    /\ \A c \in Client : held[c] # Nil => FromASet(held[c])

CopiesDated ==
    \A c \in Client : copy[c] # Nil =>
        copy[c].data \in DOMAIN stamps /\ copy[c].lastModified = Format(stamps[copy[c].data])

DateInv == TypeOK /\ StampsIncrease /\ EntriesDated /\ CopiesDated

-----------------------------------------------------------------------------

\* A date that is cut to seconds is a time, and not a later one.
LEMMA DateIsCut ==
    ASSUME NEW time \in Nat
    PROVE  /\ Format(time) \in Nat /\ Parse(Format(time)) \in Nat
           /\ Format(time) <= time
           /\ Parse(Format(time)) <= time
<1>1. time \div SecondLength \in Nat
  BY ClockAssumption, SMTT(30)
<1>2. (time \div SecondLength) * SecondLength \in Nat
  BY <1>1, ClockAssumption
<1>3. (time \div SecondLength) * SecondLength <= time
  BY ClockAssumption, SMTT(30)
<1>4. time \div SecondLength <= (time \div SecondLength) * SecondLength
  BY <1>1, ClockAssumption, SMTT(30)
<1> QED BY <1>1, <1>2, <1>3, <1>4 DEF Format, Parse

\* Every time is a number.
LEMMA Times ==
    ASSUME TypeOK
    PROVE  now \in Nat /\ \A i \in DOMAIN stamps : stamps[i] \in Nat
<1>1. now \in 0 .. MaxTime /\ stamps \in Seq(0 .. MaxTime)
  BY DEF TypeOK
<1>2. \A i \in 1 .. Len(stamps) : stamps[i] \in 0 .. MaxTime
  BY <1>1, ElementOfSeq
<1>3. DOMAIN stamps = 1 .. Len(stamps)
  BY <1>1, LenProperties
<1> QED BY <1>1, <1>2, <1>3, ClockAssumption

\* Nothing is dated before the first Set.
LEMMA InitDates == Init => DateInv
<1> SUFFICES ASSUME Init PROVE DateInv
  OBVIOUS
<1>1. stamps = <<>> /\ Len(stamps) = 0 /\ DOMAIN stamps = {}
  BY DEF Init
<1>2. TypeOK
  BY <1>1, ClockAssumption DEF Init, TypeOK
<1> QED BY <1>1, <1>2 DEF Init, DateInv, StampsIncrease, EntriesDated, CopiesDated

-----------------------------------------------------------------------------

\* A new time is later than each one so far, which keep their places.
LEMMA StampAdded ==
    ASSUME DateInv, NEW s \in Setter, NewEntry(s)
    PROVE  /\ stamps' \in Seq(0 .. MaxTime)
           /\ Len(stamps') = Len(stamps) + 1
           /\ DOMAIN stamps' = DOMAIN stamps \cup {Len(stamps')}
           /\ DOMAIN stamps = 1 .. Len(stamps)
           /\ Len(stamps) \in Nat
           /\ \A i \in DOMAIN stamps : stamps'[i] = stamps[i] /\ stamps[i] < now
           /\ stamps'[Len(stamps')] = now
<1>1. stamps \in Seq(0 .. MaxTime) /\ now \in 0 .. MaxTime
  BY DEF DateInv, TypeOK
<1>2. Len(stamps) \in Nat /\ DOMAIN stamps = 1 .. Len(stamps)
  BY <1>1, LenProperties
<1>3. stamps' = Append(stamps, now)
  BY DEF NewEntry
<1>4. /\ stamps' \in Seq(0 .. MaxTime)
      /\ Len(stamps') = Len(stamps) + 1
      /\ \A i \in 1 .. Len(stamps) : stamps'[i] = stamps[i]
      /\ stamps'[Len(stamps) + 1] = now
  BY <1>1, <1>3, AppendProperties
<1>5. DOMAIN stamps' = 1 .. Len(stamps')
  BY <1>4, LenProperties
<1>6. ASSUME NEW i \in DOMAIN stamps PROVE stamps[i] < now
  <2>1. stamps # <<>> /\ i \in 1 .. Len(stamps) /\ Len(stamps) \in DOMAIN stamps
    BY <1>2
  <2>2. stamps[Len(stamps)] < now
    BY <2>1 DEF NewEntry
  <2>3. i = Len(stamps) \/ stamps[i] < stamps[Len(stamps)]
    BY <1>2, <2>1 DEF DateInv, StampsIncrease
  <2>4. stamps[i] \in Int /\ stamps[Len(stamps)] \in Int /\ now \in Int
    BY <2>1, Times DEF DateInv
  <2> QED BY <2>2, <2>3, <2>4
<1> QED BY <1>2, <1>4, <1>5, <1>6

\* A Set that has begun keeps the dates of all others.
LEMMA NewEntryDates ==
    ASSUME DateInv, NEW s \in Setter, NewEntry(s)
    PROVE  DateInv'
<1> USE StampAdded
<1>1. UNCHANGED <<now, entry, held, copy, status>>
  BY DEF NewEntry
<1>2. built' = [built EXCEPT ![s] = [data |-> Len(stamps'), lastModified |-> now]]
  BY DEF NewEntry
<1>3. TypeOK
  BY DEF DateInv
<1>4. Len(stamps') \in 1 .. MaxSets
  BY ClockAssumption DEF NewEntry
<1>5. TypeOK'
  <2>1. [data |-> Len(stamps'), lastModified |-> now] \in Entry
    BY <1>3, <1>4 DEF TypeOK, Entry
  <2>2. built' \in [Setter -> Entry \cup {Nil}]
    BY <1>2, <1>3, <2>1 DEF TypeOK
  <2> QED BY <1>1, <1>3, <1>4, <2>2 DEF TypeOK
<1>6. StampsIncrease'
  <2>1. now \in Nat /\ \A i \in DOMAIN stamps : stamps[i] \in Nat
    BY <1>3, Times
  <2>2. ASSUME NEW i \in DOMAIN stamps' PROVE stamps'[i] <= now'
    BY <1>1, <2>1
  <2>3. ASSUME NEW i \in DOMAIN stamps', NEW j \in DOMAIN stamps', i < j
        PROVE  stamps'[i] < stamps'[j]
    <3>1. i \in DOMAIN stamps
      BY <2>3
    <3>2. CASE j \in DOMAIN stamps
      BY <2>3, <3>1, <3>2 DEF DateInv, StampsIncrease
    <3>3. CASE j = Len(stamps')
      BY <3>1, <3>3
    <3> QED BY <3>2, <3>3
  <2> QED BY <2>2, <2>3 DEF StampsIncrease
<1>7. EntriesDated'
  <2>1. ASSUME NEW e, FromASet(e) PROVE FromASet(e)'
    BY <2>1 DEF FromASet
  <2>2. ASSUME NEW r \in Setter, built'[r] # Nil PROVE FromASet(built[r])'
    <3>1. CASE r = s
      <4>1. built'[r] = [data |-> Len(stamps'), lastModified |-> now]
        BY <1>2, <1>3, <3>1 DEF TypeOK
      <4> QED BY <4>1 DEF FromASet
    <3>2. CASE r # s
      <4>1. built'[r] = built[r]
        BY <1>2, <1>3, <3>2 DEF TypeOK
      <4>2. FromASet(built[r])
        BY <2>2, <4>1 DEF DateInv, EntriesDated
      <4> QED BY <4>1, <4>2 DEF FromASet
    <3> QED BY <3>1, <3>2
  <2>3. (entry # Nil => FromASet(entry))'
    BY <1>1 DEF DateInv, EntriesDated, FromASet
  <2>4. (\A c \in Client : held[c] # Nil => FromASet(held[c]))'
    BY <1>1 DEF DateInv, EntriesDated, FromASet
  <2> QED BY <2>2, <2>3, <2>4 DEF EntriesDated
<1>8. CopiesDated'
  BY <1>1 DEF DateInv, CopiesDated, Format
<1> QED BY <1>5, <1>6, <1>7, <1>8 DEF DateInv

\* A request is answered with the date and the data of the entry it holds.
LEMMA RespondDates ==
    ASSUME DateInv, NEW d \in Client, Respond(d)
    PROVE  DateInv'
<1>1. UNCHANGED <<now, stamps, built, entry>> /\ held' = [held EXCEPT ![d] = Nil]
  BY DEF Respond
<1>2. TypeOK /\ held[d] \in Entry /\ FromASet(held[d])
  BY DEF DateInv, TypeOK, EntriesDated, Respond
<1>3. StampsIncrease'
  BY <1>1 DEF DateInv, StampsIncrease
<1>4. EntriesDated'
  BY <1>1, <1>2 DEF DateInv, EntriesDated, FromASet, TypeOK
<1>5. CASE status' = [status EXCEPT ![d] = 304] /\ copy' = copy
  <2>1. TypeOK'
    BY <1>1, <1>2, <1>5 DEF TypeOK
  <2>2. CopiesDated'
    BY <1>1, <1>5 DEF DateInv, CopiesDated, Format
  <2> QED BY <1>3, <1>4, <2>1, <2>2 DEF DateInv
<1>6. CASE /\ status' = [status EXCEPT ![d] = 200]
           /\ copy' = [copy EXCEPT ![d] = [data         |-> held[d].data,
                                          lastModified |-> Format(held[d].lastModified)]]
  <2>1. held[d].data \in 1 .. MaxSets /\ held[d].lastModified \in 0 .. MaxTime
    BY <1>2 DEF Entry
  <2>2. Format(held[d].lastModified) \in 0 .. MaxTime
    <3>1. held[d].lastModified \in Nat
      BY <2>1, ClockAssumption
    <3> QED BY <2>1, <3>1, DateIsCut, ClockAssumption
  <2>3. [data |-> held[d].data, lastModified |-> Format(held[d].lastModified)] \in Entry
    BY <2>1, <2>2 DEF Entry
  <2>4. TypeOK'
    BY <1>1, <1>2, <1>6, <2>3 DEF TypeOK
  <2>5. CopiesDated'
    <3> SUFFICES ASSUME NEW c \in Client, copy'[c] # Nil
                 PROVE  /\ copy'[c].data \in DOMAIN stamps
                        /\ copy'[c].lastModified = Format(stamps[copy'[c].data])
      BY <1>1 DEF CopiesDated, Format
    <3>1. CASE c = d
      <4>1. copy'[c] = [data |-> held[d].data, lastModified |-> Format(held[d].lastModified)]
        BY <1>2, <1>6, <3>1 DEF TypeOK
      <4> QED BY <1>2, <4>1 DEF FromASet
    <3>2. CASE c # d
      <4>1. copy'[c] = copy[c]
        BY <1>2, <1>6, <3>2 DEF TypeOK
      <4> QED BY <4>1 DEF DateInv, CopiesDated
    <3> QED BY <3>1, <3>2
  <2> QED BY <1>3, <1>4, <2>4, <2>5 DEF DateInv
<1> QED BY <1>5, <1>6 DEF Respond

\* The dates are kept by every step.
LEMMA StepDates == DateInv /\ [Next]_cacheVars => DateInv'
<1> SUFFICES ASSUME DateInv, [Next]_cacheVars PROVE DateInv'
  OBVIOUS
<1> USE DEF DateInv, TypeOK, StampsIncrease, EntriesDated, CopiesDated, FromASet, Format
<1>1. CASE Tick
  <2>1. now <= now' /\ now' \in 0 .. MaxTime
    BY <1>1, ClockAssumption DEF Tick
  <2>2. \A i \in DOMAIN stamps : stamps[i] <= now'
    BY <1>1, <2>1, Times, ClockAssumption DEF Tick
  <2> QED BY <1>1, <2>1, <2>2 DEF Tick
<1>2. CASE Invalidate
  BY <1>2 DEF Invalidate
<1>3. CASE \E s \in Setter : NewEntry(s)
  BY <1>3, NewEntryDates
<1>4. CASE \E s \in Setter : Set(s)
  BY <1>4 DEF Set
<1>5. CASE \E c \in Client : GetEntry(c)
  BY <1>5 DEF GetEntry
<1>6. CASE \E c \in Client : Respond(c)
  BY <1>6, RespondDates
<1>7. CASE \E c \in Client : Miss(c)
  BY <1>7 DEF Miss
<1>8. CASE UNCHANGED cacheVars
  BY <1>8 DEF cacheVars
<1> QED BY <1>1, <1>2, <1>3, <1>4, <1>5, <1>6, <1>7, <1>8 DEF Next

\* The invariant of every behaviour.
LEMMA DatesKept == Spec => []DateInv
<1> QED BY InitDates, StepDates, PTL DEF Spec

-----------------------------------------------------------------------------

(***************************************************************************)
(* The cache, the requests and the copies of the clients keep their types  *)
(* (cache.go:20-61).                                                       *)
(***************************************************************************)
THEOREM CacheTypeCorrect == Spec => []TypeOK
<1>1. DateInv => TypeOK
  BY DEF DateInv
<1> QED BY <1>1, DatesKept, PTL

(***************************************************************************)
(* The date and the data of a response are those of one Set, whatever is   *)
(* set or invalidated while it is written (cache.go:92-115).               *)
(***************************************************************************)
THEOREM ResponsesDated == Spec => []DateMatchesData
<1>1. DateInv => DateMatchesData
  BY DEF DateInv, CopiesDated, DateMatchesData
<1> QED BY <1>1, DatesKept, PTL

(***************************************************************************)
(* An answer that says "not modified" is about an entry that was not made  *)
(* after the client's copy, as the date the client sends back was cut to   *)
(* seconds and never rounded up (cache.go:96, 101).                        *)
(***************************************************************************)
THEOREM NotModifiedIsNotNewer == Spec => NewerIsSent
<1> DEFINE NotNewer ==
      \A c \in Client :
          held[c] # Nil /\ held'[c] = Nil /\ status'[c] = 304 =>
              stamps[held[c].data] <= stamps[copy[c].data]
<1>1. DateInv /\ [Next]_cacheVars => [NotNewer]_cacheVars
  <2> SUFFICES ASSUME DateInv, Next, NEW c \in Client,
                      held[c] # Nil, held'[c] = Nil, status'[c] = 304
               PROVE  stamps[held[c].data] <= stamps[copy[c].data]
    OBVIOUS
  <2>1. Respond(c)
    BY DEF DateInv, TypeOK, Next, Tick, Invalidate, NewEntry, Set, GetEntry, Respond, Miss
  <2>2. copy[c] # Nil /\ ~After(held[c].lastModified, Parse(copy[c].lastModified))
    BY <2>1 DEF DateInv, TypeOK, Respond
  <2>3. /\ held[c].data \in DOMAIN stamps
        /\ held[c].lastModified = stamps[held[c].data]
        /\ copy[c].data \in DOMAIN stamps
        /\ copy[c].lastModified = Format(stamps[copy[c].data])
    BY <2>2 DEF DateInv, EntriesDated, CopiesDated, FromASet
  <2>4. stamps[held[c].data] \in Nat /\ stamps[copy[c].data] \in Nat
    BY <2>3, Times DEF DateInv
  <2>5. Parse(copy[c].lastModified) \in Nat /\ Parse(copy[c].lastModified) <= stamps[copy[c].data]
    BY <2>3, <2>4, DateIsCut
  <2>6. stamps[held[c].data] <= Parse(copy[c].lastModified)
    BY <2>2, <2>3, <2>4, <2>5 DEF After
  <2> QED BY <2>4, <2>5, <2>6
<1> QED BY <1>1, DatesKept, PTL DEF Spec, NewerIsSent

\* A time after a date that was cut to seconds is cut to that date or a later one.
LEMMA LaterIsNotCutBelow ==
    ASSUME NEW time \in Nat, NEW seconds \in Nat, After(time, Parse(seconds))
    PROVE  seconds <= Format(time)
<1>1. seconds * SecondLength \in Nat /\ time > seconds * SecondLength
  BY ClockAssumption DEF After, Parse
<1>2. time \div SecondLength \in Nat
  BY ClockAssumption, SMTT(30)
<1>3. time < (time \div SecondLength + 1) * SecondLength
  BY ClockAssumption, SMTT(30)
<1>4. ASSUME time \div SecondLength < seconds PROVE FALSE
  <2>1. time \div SecondLength + 1 <= seconds
    BY <1>2, <1>4
  <2>2. (time \div SecondLength + 1) * SecondLength <= seconds * SecondLength
    BY <1>2, <2>1, ClockAssumption, SMTT(30)
  <2> QED BY <1>1, <1>2, <1>3, <2>2, ClockAssumption, SMTT(30)
<1> QED BY <1>2, <1>4 DEF Format

(***************************************************************************)
(* A client that keeps a copy never replaces it with one of an earlier     *)
(* second, though Sets that overlap may leave an older entry in the cache  *)
(* than the one its copy is from.  Within one second it may go back        *)
(* (cache.go:52-58, 96, 101).                                              *)
(***************************************************************************)
THEOREM CopyDatesNeverGoBack == Spec => DatesNeverGoBack
<1> DEFINE NotEarlier ==
      \A c \in Client : copy[c] # Nil /\ copy'[c] # Nil =>
          copy[c].lastModified <= copy'[c].lastModified
<1>1. DateInv /\ [Next]_cacheVars => [NotEarlier]_cacheVars
  <2> SUFFICES ASSUME DateInv, Next, NEW c \in Client, copy[c] # Nil, copy'[c] # Nil
               PROVE  copy[c].lastModified <= copy'[c].lastModified
    OBVIOUS
  <2>1. copy[c] \in Entry /\ copy[c].lastModified \in Nat
    <3>1. copy[c] \in Entry
      BY DEF DateInv, TypeOK
    <3> QED BY <3>1, ClockAssumption DEF Entry
  <2>2. CASE copy'[c] = copy[c]
    BY <2>1, <2>2
  <2>3. CASE copy'[c] # copy[c]
    <3>1. Respond(c)
      BY <2>3 DEF DateInv, TypeOK, Next, Tick, Invalidate, NewEntry, Set, GetEntry, Respond, Miss
    <3>2. /\ held[c] # Nil
          /\ After(held[c].lastModified, Parse(copy[c].lastModified))
          /\ copy'[c] = [data |-> held[c].data, lastModified |-> Format(held[c].lastModified)]
      BY <2>3, <3>1 DEF DateInv, TypeOK, Respond
    <3>3. held[c] \in Entry /\ held[c].lastModified \in Nat
      <4>1. held[c] \in Entry
        BY <3>2 DEF DateInv, TypeOK
      <4> QED BY <4>1, ClockAssumption DEF Entry
    <3>4. copy[c].lastModified <= Format(held[c].lastModified)
      BY <2>1, <3>2, <3>3, LaterIsNotCutBelow
    <3> QED BY <3>2, <3>4
  <2> QED BY <2>2, <2>3
<1> QED BY <1>1, DatesKept, PTL DEF Spec, DatesNeverGoBack
=============================================================================
