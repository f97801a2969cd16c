------------------------ MODULE ExtensionsMapProofs ------------------------
(***************************************************************************)
(* Theorems about the locked map, for any set of goroutines and any        *)
(* contents.  The mutex is proved about once, operation by operation; the  *)
(* lemmas serve the map on its own here, and the controller that composes  *)
(* it with its handlers in ControllerProofs.                               *)
(***************************************************************************)
EXTENDS ExtensionsMap, TLAPS

(***************************************************************************)
(* What every use of the mutex keeps true.  Exclusion alone is not         *)
(* inductive: that no reader slips in while a goroutine writes follows     *)
(* from `writer' being set for as long as `writing' is.                    *)
(***************************************************************************)
MutexTypeOK ==
    /\ readers \in [Proc -> Nat]
    /\ queued \in SUBSET Proc
    /\ writer \in Proc \cup {NoProc}
    /\ writing \in BOOLEAN

MutexInv ==
    /\ MutexTypeOK
    /\ writing => writer # NoProc
    /\ queued # {} => writer # NoProc
    /\ Exclusion

\* RLock, granted or parked, keeps the mutex's invariant.
LEMMA RLockKeepsMutex ==
    ASSUME MutexInv, NEW p \in Proc, RLock(p)
    PROVE  MutexInv'
BY DEF MutexInv, MutexTypeOK, Exclusion, RLock

\* So does RUnlock, as many times as the goroutine holds the lock.
LEMMA RUnlockKeepsMutex ==
    ASSUME MutexInv, NEW p \in Proc, NEW n \in Nat, n > 0, readers[p] >= n, RUnlock(p, n)
    PROVE  MutexInv'
BY DEF MutexInv, MutexTypeOK, Exclusion, RUnlock

LEMMA LockKeepsMutex ==
    ASSUME MutexInv, NEW p \in Proc, Lock(p)
    PROVE  MutexInv'
BY ProcAssumption DEF MutexInv, MutexTypeOK, Exclusion, Lock

LEMMA LockReturnsKeepsMutex ==
    ASSUME MutexInv, NEW p \in Proc, LockReturns(p)
    PROVE  MutexInv'
BY ProcAssumption DEF MutexInv, MutexTypeOK, Exclusion, LockReturns

LEMMA UnlockKeepsMutex ==
    ASSUME MutexInv, NEW p \in Proc, Unlock(p)
    PROVE  MutexInv'
<1>1. \A q \in Proc : readers[q] + (IF q \in queued THEN 1 ELSE 0) \in Nat
    BY DEF MutexInv, MutexTypeOK
<1>2. readers' \in [Proc -> Nat]
    BY <1>1 DEF Unlock
<1>3. queued' = {} /\ writer' = NoProc /\ writing' = FALSE
    BY DEF Unlock
<1> QED
    BY <1>2, <1>3 DEF MutexInv, MutexTypeOK, Exclusion

\* Storing an extension under an ID yields the contents of a map again.
LEMMA StoreKeepsCatalog ==
    ASSUME data \in Catalog, NEW p, NEW key \in ID, NEW extension \in Extension,
           Store(p, key, extension)
    PROVE  data' \in Catalog
BY DEF Catalog, Store

-----------------------------------------------------------------------------

MapInv == MutexInv /\ data \in Catalog

LEMMA MapInitInv == MapInit => MapInv
<1> SUFFICES ASSUME MapInit PROVE MapInv
    OBVIOUS
<1>1. data \in Catalog
    BY DEF MapInit, EmptyCatalog, Catalog
<1>2. MutexInv
    BY DEF MapInit, MutexInv, MutexTypeOK, Exclusion
<1> QED
    BY <1>1, <1>2 DEF MapInv

LEMMA MapNextInv == MapInv /\ [MapNext]_mapVars => MapInv'
<1> SUFFICES ASSUME MapInv, [MapNext]_mapVars PROVE MapInv'
    OBVIOUS
<1> USE DEF MapInv
<1>1. ASSUME NEW p \in Proc, StartReading(p) PROVE MapInv'
    BY <1>1, RLockKeepsMutex DEF StartReading
<1>2. ASSUME NEW p \in Proc, StartStoring(p) PROVE MapInv'
    BY <1>2, LockKeepsMutex DEF StartStoring
<1>3. ASSUME NEW p \in Proc, DoneReading(p) PROVE MapInv'
    <2>1. readers[p] \in Nat /\ readers[p] >= 1
        BY <1>3 DEF DoneReading, MutexInv, MutexTypeOK
    <2>2. MutexInv'
        BY <1>3, <2>1, RUnlockKeepsMutex DEF DoneReading
    <2> QED
        BY <1>3, <2>2 DEF DoneReading
<1>4. ASSUME NEW p \in Proc, EnterStoring(p) PROVE MapInv'
    BY <1>4, LockReturnsKeepsMutex DEF EnterStoring
<1>5. ASSUME NEW p \in Proc, NEW key \in ID, NEW extension \in Extension,
             Store(p, key, extension)
      PROVE  MapInv'
    BY <1>5, UnlockKeepsMutex, StoreKeepsCatalog DEF Store
<1>6. CASE UNCHANGED mapVars
    BY <1>6 DEF mapVars, MutexInv, MutexTypeOK, Exclusion
<1> QED
    BY <1>1, <1>2, <1>3, <1>4, <1>5, <1>6 DEF MapNext, Progress

(***************************************************************************)
(* The variables of the map and of its mutex keep their types.             *)
(***************************************************************************)
THEOREM MapTypeCorrect == MapSpec => []MapTypeOK
<1>1. MapInv => MapTypeOK
    BY DEF MapInv, MutexInv, MutexTypeOK, MapTypeOK
<1> QED
    BY <1>1, MapInitInv, MapNextInv, PTL DEF MapSpec

(***************************************************************************)
(* No goroutine reads the Go map, or is about to, while another writes it, *)
(* however many readers and writers there are.                             *)
(***************************************************************************)
THEOREM MapExclusion == MapSpec => []Exclusion
<1>1. MapInv => Exclusion
    BY DEF MapInv, MutexInv
<1> QED
    BY <1>1, MapInitInv, MapNextInv, PTL DEF MapSpec

\* Only Store changes the map, and it runs when nobody reads.
LEMMA StoreExcludesReaders ==
    MapInv /\ [MapNext]_mapVars =>
        [\A p \in Proc : readers[p] > 0 /\ readers'[p] > 0 => data' = data]_mapVars
<1> SUFFICES ASSUME MapInv, MapNext, NEW q \in Proc, readers[q] > 0
             PROVE  data' = data
    BY DEF mapVars
<1>1. ~writing
    BY DEF MapInv, MutexInv, MutexTypeOK, Exclusion
<1>2. PICK p \in Proc : StartReading(p) \/ StartStoring(p) \/ Progress(p)
    BY DEF MapNext
<1> QED
    BY <1>1, <1>2
    DEF StartReading, StartStoring, Progress, DoneReading, EnterStoring, Store, Unlock

(***************************************************************************)
(* A goroutine that keeps its read lock keeps its view of the map.         *)
(***************************************************************************)
THEOREM MapStableForReaders == MapSpec => ReadersSeeStableData
BY MapInitInv, MapNextInv, StoreExcludesReaders, PTL DEF MapSpec, ReadersSeeStableData
=============================================================================
