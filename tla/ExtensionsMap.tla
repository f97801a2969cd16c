--------------------------- MODULE ExtensionsMap ---------------------------
(***************************************************************************)
(* extension.ExtensionsMap: a Go map behind a sync.RWMutex.  The mutex is  *)
(* modelled from its documented behaviour: a writer that announces itself  *)
(* (Lock) parks every later RLock, also one of a goroutine that already    *)
(* reads, and gets in when the readers it found have left; its Unlock lets *)
(* every parked reader in before another writer.                           *)
(***************************************************************************)
EXTENDS Extensions

CONSTANTS
    Proc,     \* goroutines that use the map
    NoProc    \* no goroutine

ASSUME ProcAssumption == NoProc \notin Proc

VARIABLES
    data,     \* the Go map
    readers,  \* read locks each goroutine holds
    queued,   \* goroutines parked in RLock behind a writer
    writer,   \* the goroutine that has called Lock, or NoProc
    writing   \* that goroutine is past Lock

lockVars == <<readers, queued, writer, writing>>
mapVars == <<data, readers, queued, writer, writing>>

MapTypeOK ==
    /\ data \in Catalog
    /\ readers \in [Proc -> Nat]
    /\ queued \in SUBSET Proc
    /\ writer \in Proc \cup {NoProc}
    /\ writing \in BOOLEAN

MapInit ==
    /\ data = EmptyCatalog
    /\ readers = [p \in Proc |-> 0]
    /\ queued = {}
    /\ writer = NoProc
    /\ writing = FALSE

\* The process that had the map is gone, and another one starts.
MapRestart ==
    /\ data' = EmptyCatalog
    /\ readers' = [p \in Proc |-> 0]
    /\ queued' = {}
    /\ writer' = NoProc
    /\ writing' = FALSE

\* The mutex as the operations below use it.

\* [mutant of RLock] never parks.
RLockAlways(p) ==
    /\ readers' = [readers EXCEPT ![p] = @ + 1]
    /\ UNCHANGED <<queued, writer, writing>>

\* [mutant of RLock] parks behind a writer that writes, not one that waits.
RLockOvertakes(p) ==
    /\ IF ~writing
       THEN readers' = [readers EXCEPT ![p] = @ + 1] /\ UNCHANGED queued
       ELSE queued' = queued \cup {p} /\ UNCHANGED readers
    /\ UNCHANGED <<writer, writing>>

RLock(p) ==
    /\ IF writer = NoProc
       THEN /\ readers' = [readers EXCEPT ![p] = @ + 1]
            /\ UNCHANGED queued
       ELSE /\ queued' = queued \cup {p}
            /\ UNCHANGED readers
    /\ UNCHANGED <<writer, writing>>

\* p's last RLock has returned.
Running(p) == p \notin queued

RUnlock(p, n) ==
    /\ Running(p)
    /\ readers' = [readers EXCEPT ![p] = @ - n]
    /\ UNCHANGED <<queued, writer, writing>>

Lock(p) ==
    /\ writer = NoProc
    /\ writer' = p
    /\ UNCHANGED <<readers, queued, writing>>

\* [mutant of LockReturns] does not wait for the readers.
LockReturnsEarly(p) ==
    /\ writer = p
    /\ ~writing
    /\ writing' = TRUE
    /\ UNCHANGED <<readers, queued, writer>>

LockReturns(p) ==
    /\ writer = p
    /\ ~writing
    /\ \A q \in Proc : readers[q] = 0
    /\ writing' = TRUE
    /\ UNCHANGED <<readers, queued, writer>>

\* [mutant of Unlock] wakes nobody.
UnlockSilently(p) ==
    /\ writer = p
    /\ writing
    /\ writer' = NoProc
    /\ writing' = FALSE
    /\ UNCHANGED <<readers, queued>>

Unlock(p) ==
    /\ writer = p
    /\ writing
    /\ readers' = [q \in Proc |-> readers[q] + IF q \in queued THEN 1 ELSE 0]
    /\ queued' = {}
    /\ writer' = NoProc
    /\ writing' = FALSE

-----------------------------------------------------------------------------
(* The methods of the map that are one critical section each.              *)

\* The tail of Store: the assignment, and the deferred Unlock.
Store(p, key, extension) ==
    /\ Unlock(p)
    /\ data' = [data EXCEPT ![key] = extension]

\* [mutant of DoneReading] unlocks what is not locked.
DoneReadingTwice(p) ==
    /\ RUnlock(p, 1)
    /\ UNCHANGED data

\* Len, Load and MarshalJSON end by leaving the lock; what they read is the
\* caller's to use.
DoneReading(p) ==
    /\ readers[p] > 0
    /\ RUnlock(p, 1)
    /\ UNCHANGED data

-----------------------------------------------------------------------------
(***************************************************************************)
(* The map on its own, used in any order by any number of goroutines.      *)
(* Every caller holds at most one read lock at a time, and no caller holds *)
(* a read lock when it stores.                                             *)
(***************************************************************************)

StartReading(p) ==
    /\ Running(p)
    /\ readers[p] = 0
    /\ writer # p
    /\ RLock(p)
    /\ UNCHANGED data

StartStoring(p) ==
    /\ Running(p)
    /\ readers[p] = 0
    /\ Lock(p)
    /\ UNCHANGED data

EnterStoring(p) == LockReturns(p) /\ UNCHANGED data

\* A goroutine that is in the map, or waits for it, is not abandoned there.
Progress(p) ==
    \/ DoneReading(p)
    \/ EnterStoring(p)
    \/ \E key \in ID, extension \in Extension : Store(p, key, extension)

MapNext == \E p \in Proc : StartReading(p) \/ StartStoring(p) \/ Progress(p)

MapSpec ==
    /\ MapInit /\ [][MapNext]_mapVars
    /\ \A p \in Proc : WF_mapVars(Progress(p))

-----------------------------------------------------------------------------

(***************************************************************************)
(* No goroutine is inside Store's critical section together with another   *)
(* one or with a reader: the Go map is never read while it is written.     *)
(***************************************************************************)
Exclusion == writing => \A p \in Proc : readers[p] = 0

(***************************************************************************)
(* A goroutine that holds its read lock across a step sees the same map    *)
(* before and after it: what ProcessExtensionRequests and the web store    *)
(* loop rely on when they answer many apps under one RLock.                *)
(***************************************************************************)
ReadersSeeStableData ==
    [][ \A p \in Proc : readers[p] > 0 /\ readers'[p] > 0 => data' = data ]_mapVars

(***************************************************************************)
(* A Store is not starved by a stream of overlapping readers: once it has  *)
(* called Lock it gets in (extension.go:117).                              *)
(***************************************************************************)
WriterAdmitted == \A p \in Proc : writer = p ~> (writer = p /\ writing)

(***************************************************************************)
(* A reader parked behind a writer gets its read lock, also when writers   *)
(* follow each other without a pause (extension.go:81, 124, 148).          *)
(***************************************************************************)
ReaderAdmitted == \A p \in Proc : p \in queued ~> readers[p] > 0
=============================================================================
