-------------------------- MODULE ExtensionsProofs --------------------------
(***************************************************************************)
(* Facts about the operators of module Extensions: their types, and that   *)
(* the order on versions is strict and transitive.                         *)
(***************************************************************************)
EXTENDS Extensions, FiniteSets, FiniteSetTheorems, SequenceTheorems,
        WellFoundedInduction, TLAPS

(***************************************************************************)
(* Types of the operators of module Extensions.                            *)
(***************************************************************************)

LEMMA ZeroExtensionType == ZeroExtension \in Extension
BY VersionAssumption, SizeAssumption DEF ZeroExtension, Extension

LEMMA NormaliseType ==
    ASSUME NEW row \in Extension
    PROVE  Normalise(row) \in Extension
BY SizeAssumption DEF Normalise, Extension

LEMMA FoundType ==
    ASSUME NEW id, NEW m \in Catalog
    PROVE  Found(id, m) \in Extension
BY ZeroExtensionType DEF Found, Known, Catalog

LEMMA VerdictType ==
    ASSUME NEW app \in App, NEW m \in Catalog
    PROVE  Verdict(app, m) \in Verdicts
<1> DEFINE found == Found(app.id, m)
<1>1. found \in Extension
    BY FoundType
<1>2. found.version \in Version /\ found.hashed \in BOOLEAN
    BY <1>1 DEF Extension
<1>3. app.id \in ID \cup {NoID}
    BY DEF App
<1> HIDE DEF found
<1>4. QED
    BY <1>2, <1>3 DEF Verdict, Verdicts, Statuses, found

LEMMA OfferType ==
    ASSUME NEW app \in App, NEW m \in Catalog
    PROVE  Offer(app, m) \in Seq(Verdicts)
<1> DEFINE found == Found(app.id, m)
           offer == [id      |-> IF app.id \in Known(m) THEN app.id ELSE NoID,
                     version |-> found.version,
                     hashed  |-> found.hashed,
                     status  |-> ""]
<1>1. found \in Extension
    BY FoundType
<1>2. found.version \in Version /\ found.hashed \in BOOLEAN
    BY <1>1 DEF Extension
<1>3. app.id \in ID \cup {NoID}
    BY DEF App
<1>4. offer \in Verdicts
    <2> HIDE DEF found
    <2> QED BY <1>2, <1>3 DEF Verdicts, Statuses
<1>5. <<offer>> \in Seq(Verdicts) /\ <<>> \in Seq(Verdicts)
    <2> HIDE DEF offer
    <2> QED BY <1>4
<1>6. Offer(app, m) = <<offer>> \/ Offer(app, m) = <<>>
    BY DEF Offer
<1> QED
    BY <1>5, <1>6

LEMMA SentType ==
    ASSUME NEW v \in Verdicts
    PROVE  Sent(v) \in SentAnswer
BY VersionAssumption DEF Sent, SentAnswer, Verdicts, GetUpdateStatus, Statuses

LEMMA ResponseType ==
    ASSUME NEW given \in Seq(Verdicts)
    PROVE  /\ Response(given) \in Seq(SentAnswer)
           /\ DOMAIN Response(given) = DOMAIN given
<1>1. \A i \in 1 .. Len(given) : Sent(given[i]) \in SentAnswer
    BY SentType, ElementOfSeq
<1>2. Response(given) = [i \in 1 .. Len(given) |-> Sent(given[i])]
    BY DEF Response
<1>3. Response(given) \in [1 .. Len(given) -> SentAnswer]
    BY <1>1, <1>2
<1> QED
    BY <1>2, <1>3, LenProperties, SeqDef

-----------------------------------------------------------------------------
(***************************************************************************)
(* The order on versions.                                                  *)
(***************************************************************************)

Common(v1, v2) == 1 .. (IF Len(v1) < Len(v2) THEN Len(v1) ELSE Len(v2))

\* v1 is older: the first part in which they differ is smaller in v1.
Older(v1, v2) ==
    \E i \in Common(v1, v2) :
        /\ Atoi(v1[i]) < Atoi(v2[i])
        /\ \A j \in 1 .. i - 1 : Atoi(v1[j]) = Atoi(v2[j])

LEMMA LeastElement ==
    ASSUME NEW T \in SUBSET Nat, T # {}
    PROVE  \E x \in T : \A y \in T : x <= y
<1> DEFINE less == {ss \in Nat \X Nat : ss[1] < ss[2]}
<1>1. IsWellFoundedOn(less, Nat)
    BY NatLessThanWellFounded DEF OpToRel
<1>2. \E x \in T : \A y \in T : <<y, x>> \notin less
    <2> HIDE DEF less
    <2> QED BY <1>1, WFMin
<1>3. \A x \in T, y \in T : <<y, x>> \notin less => x <= y
    OBVIOUS
<1> QED
    BY <1>2, <1>3

LEMMA VersionParts ==
    ASSUME NEW v \in Version
    PROVE  /\ Len(v) \in Nat
           /\ \A i \in 1 .. Len(v) : Atoi(v[i]) \in Int
<1>1. v \in Seq(Int \cup {Junk})
    BY VersionAssumption
<1>2. Len(v) \in Nat /\ \A i \in 1 .. Len(v) : v[i] \in Int \cup {Junk}
    BY <1>1
<1> QED
    BY <1>2 DEF Atoi

LEMMA CompareIsOlder ==
    ASSUME NEW v1 \in Version, NEW v2 \in Version
    PROVE  /\ CompareVersions(v1, v2) \in {-1, 0, 1}
           /\ CompareVersions(v1, v2) = -1 <=> Older(v1, v2)
<1> DEFINE differ == {i \in Common(v1, v2) : Atoi(v1[i]) # Atoi(v2[i])}
           first  == CHOOSE i \in differ : \A j \in differ : i <= j
<1>1. CompareVersions(v1, v2) =
        IF differ = {} THEN 0
        ELSE IF Atoi(v1[first]) < Atoi(v2[first]) THEN -1 ELSE 1
    BY DEF CompareVersions, Common
<1>2. Common(v1, v2) \subseteq Nat
    BY VersionParts DEF Common
<1>3. \A i \in Common(v1, v2) : Atoi(v1[i]) \in Int /\ Atoi(v2[i]) \in Int
    BY VersionParts DEF Common
<1>4. ASSUME differ # {}
      PROVE  first \in differ /\ \A j \in differ : first <= j
    <2>1. differ \in SUBSET Nat
        BY <1>2
    <2> HIDE DEF differ
    <2>2. \E x \in differ : \A y \in differ : x <= y
        BY <1>4, <2>1, LeastElement
    <2> QED
        BY <2>2
<1>5. ASSUME CompareVersions(v1, v2) = -1 PROVE Older(v1, v2)
    <2>1. differ # {} /\ Atoi(v1[first]) < Atoi(v2[first])
        BY <1>1, <1>5
    <2>2. first \in differ /\ \A j \in differ : first <= j
        BY <1>4, <2>1
    <2> HIDE DEF first
    <2>3. ASSUME NEW j \in 1 .. first - 1 PROVE Atoi(v1[j]) = Atoi(v2[j])
        <3>1. j \in Common(v1, v2) /\ ~(first <= j)
            BY <1>2, <2>2, VersionParts DEF Common
        <3> QED
            BY <2>2, <3>1
    <2> QED
        BY <2>1, <2>2, <2>3 DEF Older
<1>6. ASSUME Older(v1, v2) PROVE CompareVersions(v1, v2) = -1
    <2>1. PICK i \in Common(v1, v2) :
            /\ Atoi(v1[i]) < Atoi(v2[i])
            /\ \A j \in 1 .. i - 1 : Atoi(v1[j]) = Atoi(v2[j])
        BY <1>6 DEF Older
    <2>2. i \in differ
        BY <1>3, <2>1
    <2>3. first \in differ /\ first <= i
        BY <1>4, <2>2
    <2> HIDE DEF first
    <2>4. first = i
        <3>1. first \in Common(v1, v2) /\ Atoi(v1[first]) # Atoi(v2[first])
            BY <2>3
        <3>2. ~(first \in 1 .. i - 1)
            BY <2>1, <3>1
        <3> QED
            BY <2>3, <3>1, <3>2, VersionParts DEF Common
    <2> QED
        BY <1>1, <2>1, <2>2, <2>4
<1> QED
    BY <1>1, <1>5, <1>6

LEMMA OlderTransitive ==
    ASSUME NEW a1 \in Version, NEW a2 \in Version, NEW a3 \in Version,
           Older(a1, a2), Older(a2, a3)
    PROVE  Older(a1, a3)
<1>1. PICK i \in Common(a1, a2) :
        /\ Atoi(a1[i]) < Atoi(a2[i])
        /\ \A k \in 1 .. i - 1 : Atoi(a1[k]) = Atoi(a2[k])
    BY DEF Older
<1>2. PICK j \in Common(a2, a3) :
        /\ Atoi(a2[j]) < Atoi(a3[j])
        /\ \A k \in 1 .. j - 1 : Atoi(a2[k]) = Atoi(a3[k])
    BY DEF Older
<1> DEFINE n == IF i < j THEN i ELSE j
<1>3. /\ Len(a1) \in Nat /\ Len(a2) \in Nat /\ Len(a3) \in Nat
      /\ i \in 1 .. Len(a1) /\ i \in 1 .. Len(a2) /\ j \in 1 .. Len(a2) /\ j \in 1 .. Len(a3)
    BY VersionParts DEF Common
<1>4. n \in 1 .. Len(a1) /\ n \in 1 .. Len(a2) /\ n \in 1 .. Len(a3) /\ n \in Common(a1, a3)
    BY <1>3 DEF Common
<1>5. /\ Atoi(a1[i]) \in Int /\ Atoi(a2[i]) \in Int /\ Atoi(a2[j]) \in Int
      /\ Atoi(a3[j]) \in Int /\ Atoi(a1[n]) \in Int /\ Atoi(a2[n]) \in Int
      /\ Atoi(a3[n]) \in Int
    BY <1>3, <1>4, VersionParts
<1>6. Atoi(a1[n]) < Atoi(a3[n])
    <2>1. CASE i < j
        BY <1>1, <1>2, <1>3, <1>5, <2>1
    <2>2. CASE j < i
        BY <1>1, <1>2, <1>3, <1>5, <2>2
    <2>3. CASE i = j
        BY <1>1, <1>2, <1>3, <1>5, <2>3
    <2> QED
        BY <1>3, <2>1, <2>2, <2>3
<1>7. ASSUME NEW k \in 1 .. n - 1 PROVE Atoi(a1[k]) = Atoi(a3[k])
    <2>1. k \in 1 .. i - 1 /\ k \in 1 .. j - 1
        BY <1>3, <1>4
    <2> QED
        BY <1>1, <1>2, <2>1
<1> QED
    BY <1>4, <1>6, <1>7 DEF Older

(***************************************************************************)
(* The strict order of CompareVersions is transitive, although versions it *)
(* takes for equal need not be equal to a third (extension.go:50).         *)
(***************************************************************************)
THEOREM CompareTransitive ==
    ASSUME NEW a1 \in Version, NEW a2 \in Version, NEW a3 \in Version,
           CompareVersions(a1, a2) = -1, CompareVersions(a2, a3) = -1
    PROVE  CompareVersions(a1, a3) = -1
BY CompareIsOlder, OlderTransitive

(***************************************************************************)
(* Two versions compare the same in either order: exchanged, the result    *)
(* changes its sign.  So no client is told that it is outdated by a        *)
(* version that is itself outdated by the client's (extension.go:50).      *)
(***************************************************************************)
THEOREM CompareReversed ==
    ASSUME NEW v1 \in Version, NEW v2 \in Version
    PROVE  CompareVersions(v2, v1) = -CompareVersions(v1, v2)
<1> DEFINE differ == {i \in Common(v1, v2) : Atoi(v1[i]) # Atoi(v2[i])}
           back == {i \in Common(v2, v1) : Atoi(v2[i]) # Atoi(v1[i])}
           first(places) == CHOOSE i \in places : \A j \in places : i <= j
<1>1. CompareVersions(v1, v2) =
        IF differ = {} THEN 0
        ELSE IF Atoi(v1[first(differ)]) < Atoi(v2[first(differ)]) THEN -1 ELSE 1
    BY DEF CompareVersions, Common
<1>2. CompareVersions(v2, v1) =
        IF back = {} THEN 0
        ELSE IF Atoi(v2[first(back)]) < Atoi(v1[first(back)]) THEN -1 ELSE 1
    BY DEF CompareVersions, Common
<1>3. back = differ
    <2>1. Common(v2, v1) = Common(v1, v2)
        BY VersionParts DEF Common
    <2> QED
        BY <2>1
<1>4. ASSUME differ # {}
      PROVE  /\ Atoi(v1[first(differ)]) \in Int /\ Atoi(v2[first(differ)]) \in Int
             /\ Atoi(v1[first(differ)]) # Atoi(v2[first(differ)])
    <2>1. differ \in SUBSET Nat
        BY VersionParts DEF Common
    <2>2. first(differ) \in differ
        <3> HIDE DEF differ
        <3>1. \E i \in differ : \A j \in differ : i <= j
            BY <1>4, <2>1, LeastElement
        <3> QED
            BY <3>1
    <2> QED
        BY <2>2, VersionParts DEF Common
<1> HIDE DEF differ, back, first
<1> QED
    BY <1>1, <1>2, <1>3, <1>4

\* Versions are taken for equal when they agree in the parts both have.
LEMMA CompareIsEqual ==
    ASSUME NEW v1 \in Version, NEW v2 \in Version
    PROVE  CompareVersions(v1, v2) = 0 <=>
               \A i \in Common(v1, v2) : Atoi(v1[i]) = Atoi(v2[i])
BY DEF CompareVersions, Common

(***************************************************************************)
(* Equality passes on through a version that is as long as the shorter of  *)
(* the other two, and so between versions of one length; through a shorter *)
(* one, as 1 between 1.0 and 1.1, it does not (extension.go:50).           *)
(***************************************************************************)
THEOREM CompareEqualTransitive ==
    ASSUME NEW a1 \in Version, NEW a2 \in Version, NEW a3 \in Version,
           CompareVersions(a1, a2) = 0, CompareVersions(a2, a3) = 0,
           Len(a1) <= Len(a2) \/ Len(a3) <= Len(a2)
    PROVE  CompareVersions(a1, a3) = 0
<1>1. Len(a1) \in Nat /\ Len(a2) \in Nat /\ Len(a3) \in Nat
    BY VersionParts
<1>2. SUFFICES ASSUME NEW i \in Common(a1, a3) PROVE Atoi(a1[i]) = Atoi(a3[i])
    BY CompareIsEqual
<1>3. i \in Common(a1, a2) /\ i \in Common(a2, a3)
    BY <1>1 DEF Common
<1> QED
    BY <1>3, CompareIsEqual

-----------------------------------------------------------------------------
(***************************************************************************)
(* The place of an offer in the list of a web store request is the rank of *)
(* its app among those that are outdated.                                  *)
(***************************************************************************)

\* How many of the numbers of a set are not above i.
Rank(set, i) == Cardinality({j \in set : j <= i})

LEMMA RankInside ==
    ASSUME NEW set, IsFiniteSet(set), set \subseteq Nat, NEW i \in set
    PROVE  Rank(set, i) \in 1 .. Cardinality(set)
<1> DEFINE low == {j \in set : j <= i}
<1>1. low \in SUBSET set /\ i \in low
    OBVIOUS
<1>2. IsFiniteSet(low) /\ Cardinality(low) <= Cardinality(set)
    BY <1>1, FS_Subset
<1>3. Cardinality(low) \in Nat /\ Cardinality(low) # 0 /\ Cardinality(set) \in Nat
    BY <1>1, <1>2, FS_CardinalityType, FS_EmptySet
<1> QED
    BY <1>2, <1>3 DEF Rank

\* A number above all of a set comes last, and leaves the ranks of the others.
LEMMA RankOfNext ==
    ASSUME NEW set, IsFiniteSet(set), set \subseteq Nat, NEW n \in Nat, \A j \in set : j < n
    PROVE  /\ Cardinality(set \cup {n}) = Cardinality(set) + 1
           /\ Rank(set \cup {n}, n) = Cardinality(set) + 1
           /\ \A i \in set : Rank(set \cup {n}, i) = Rank(set, i)
<1>1. n \notin set
    <2>1. SUFFICES ASSUME n \in set PROVE FALSE
        OBVIOUS
    <2>2. n < n
        BY <2>1
    <2> QED
        BY <2>2
<1>2. Cardinality(set \cup {n}) = Cardinality(set) + 1
    BY <1>1, FS_AddElement
<1>3. {j \in set \cup {n} : j <= n} = set \cup {n}
    <2>1. n <= n
        OBVIOUS
    <2>2. ASSUME NEW j \in set PROVE j <= n
        <3>1. j < n /\ j \in Nat
            OBVIOUS
        <3> QED
            BY <3>1
    <2>3. \A j \in set \cup {n} : j <= n
        BY <2>1, <2>2
    <2> QED
        BY <2>3
<1>4. ASSUME NEW i \in set PROVE Rank(set \cup {n}, i) = Rank(set, i)
    <2>1. i < n /\ i \in Nat
        OBVIOUS
    <2>2. ~ (n <= i)
        BY <2>1
    <2>3. {j \in set \cup {n} : j <= i} = {j \in set : j <= i}
        BY <2>2
    <2> QED
        BY <2>3 DEF Rank
<1> QED
    BY <1>2, <1>3, <1>4 DEF Rank
=============================================================================
