--------------------------- MODULE JourneysProofs ---------------------------
(***************************************************************************)
(* Proofs about Journeys, for every set of regions, itineraries and        *)
(* requests, and any number of faults of every kind, up to MaxFaults.      *)
(***************************************************************************)
EXTENDS Journeys, TLAPS, SequenceTheorems, FiniteSetTheorems

(* The constants are as Journeys assumes them.                             *)
USE JourneysAssumption

----------------------------------------------------------------------------
(* Lists of regions that are worked off from the front *)

(* What is left of a list, with its first region gone.                     *)
LEMMA TailOfList ==
    ASSUME NEW S, NEW s \in Seq(S), s # <<>>
    PROVE  /\ Tail(s) \in Seq(S)
           /\ Len(Tail(s)) = Len(s) - 1
           /\ \A i \in 1 .. Len(s) - 1 : Tail(s)[i] = s[i + 1]
           /\ Head(s) = s[1]
           /\ Len(s) \in Nat \ {0}
  BY HeadTailProperties, LenProperties

(* Its members are those of the list, the first apart.                     *)
LEMMA MembersOfTail ==
    ASSUME NEW S, NEW s \in Seq(S), s # <<>>
    PROVE  /\ Head(s) \in S
           /\ ToSet(s) = {Head(s)} \cup ToSet(Tail(s))
<1> DEFINE n == Len(s)
<1>1. /\ n \in Nat \ {0}
      /\ \A i \in 1 .. n : s[i] \in S
      /\ Tail(s) \in Seq(S) /\ Len(Tail(s)) = n - 1
      /\ \A i \in 1 .. n - 1 : Tail(s)[i] = s[i + 1]
      /\ Head(s) = s[1]
  BY TailOfList, ElementOfSeq
<1>2. DOMAIN s = 1 .. n /\ DOMAIN Tail(s) = 1 .. n - 1
  BY <1>1, LenProperties
<1>3. ToSet(s) \subseteq {Head(s)} \cup ToSet(Tail(s))
  <2> SUFFICES ASSUME NEW i \in 1 .. n, i # 1 PROVE s[i] \in ToSet(Tail(s))
    BY <1>1, <1>2 DEF ToSet
  <2>1. i - 1 \in 1 .. n - 1 /\ s[i] = Tail(s)[i - 1]
    BY <1>1
  <2>2. QED
    BY <1>2, <2>1 DEF ToSet
<1>4. {Head(s)} \cup ToSet(Tail(s)) \subseteq ToSet(s)
  <2>1. s[1] \in ToSet(s)
    BY <1>1, <1>2 DEF ToSet
  <2>2. ASSUME NEW i \in 1 .. n - 1 PROVE Tail(s)[i] \in ToSet(s)
    <3>1. i + 1 \in 1 .. n
      BY <1>1
    <3>2. QED
      BY <1>1, <1>2, <3>1 DEF ToSet
  <2>3. QED
    BY <1>1, <1>2, <2>1, <2>2 DEF ToSet
<1>5. Head(s) \in S
  BY <1>1
<1>6. QED
  BY <1>3, <1>4, <1>5

(* Members are members of the set the list is over.                        *)
LEMMA MembersOfList ==
    ASSUME NEW S, NEW s \in Seq(S)
    PROVE  ToSet(s) \subseteq S
  BY ElementOfSeq, LenProperties DEF ToSet

(* Suffixes, place by place.                                               *)
LEMMA SuffixByPlaces ==
    ASSUME NEW S, NEW s \in Seq(S), NEW t \in Seq(S)
    PROVE  IsSuffix(s, t) <=> /\ Len(s) <= Len(t)
                              /\ \A i \in 1 .. Len(s) : s[i] = t[i + (Len(t) - Len(s))]
<1> DEFINE m == Len(s)
           n == Len(t)
           u == Reverse(s)
           v == Reverse(t)
<1>1. m \in Nat /\ n \in Nat
  BY LenProperties
<1>2. /\ u = [i \in 1 .. m |-> s[(m - i) + 1]]
      /\ v = [i \in 1 .. n |-> t[(n - i) + 1]]
  BY DEF Reverse
<1>3. /\ \A i \in 1 .. m : s[i] \in S
      /\ \A i \in 1 .. n : t[i] \in S
  BY ElementOfSeq
<1>4. /\ u \in Seq(S) /\ Len(u) = m
      /\ v \in Seq(S) /\ Len(v) = n
  <2>1. \A i \in 1 .. m : (m - i) + 1 \in 1 .. m
    BY <1>1
  <2>2. \A i \in 1 .. n : (n - i) + 1 \in 1 .. n
    BY <1>1
  <2>3. u \in [1 .. m -> S] /\ v \in [1 .. n -> S]
    BY <1>2, <1>3, <2>1, <2>2
  <2> HIDE DEF u, v
  <2>4. u \in Seq(S) /\ DOMAIN u = 1 .. m
    BY <1>1, <2>3
  <2>5. v \in Seq(S) /\ DOMAIN v = 1 .. n
    BY <1>1, <2>3
  <2>6. /\ Len(u) \in Nat /\ 1 .. Len(u) = 1 .. m
        /\ Len(v) \in Nat /\ 1 .. Len(v) = 1 .. n
    BY <2>4, <2>5, LenProperties
  <2>7. ASSUME NEW j \in Nat, NEW k \in Nat, 1 .. j = 1 .. k PROVE j = k
    BY <2>7
  <2>8. QED
    BY <1>1, <2>4, <2>5, <2>6, <2>7
<1>5. CASE m <= n
  <2>1. /\ SubSeq(u, 1, m) = [i \in 1 .. m |-> u[i]]
        /\ SubSeq(v, 1, m) = [i \in 1 .. m |-> v[i]]
    <3> HIDE DEF u, v
    <3>1. QED
      BY <1>1, <1>4, <1>5, SubSeqProperties
  <2>2. IsSuffix(s, t) <=> \A i \in 1 .. m : u[i] = v[i]
    <3>1. IsSuffix(s, t) <=> SubSeq(u, 1, m) = SubSeq(v, 1, m)
      BY <1>4, <1>5 DEF IsSuffix, IsPrefix
    <3> HIDE DEF u, v
    <3>2. QED
      BY <2>1, <3>1
  <2>3. \A i \in 1 .. m : u[i] = s[(m - i) + 1] /\ v[i] = t[(n - i) + 1]
    BY <1>1, <1>2, <1>5
  <2>4. (\A i \in 1 .. m : u[i] = v[i]) <=> \A i \in 1 .. m : s[i] = t[i + (n - m)]
    <3>1. ASSUME \A i \in 1 .. m : u[i] = v[i], NEW i \in 1 .. m
          PROVE  s[i] = t[i + (n - m)]
      <4> DEFINE j == (m - i) + 1
      <4>1. j \in 1 .. m /\ (m - j) + 1 = i /\ (n - j) + 1 = i + (n - m)
        BY <1>1
      <4>2. u[j] = v[j] /\ u[j] = s[(m - j) + 1] /\ v[j] = t[(n - j) + 1]
        BY <2>3, <3>1, <4>1
      <4>3. QED
        BY <4>1, <4>2
    <3>2. ASSUME \A i \in 1 .. m : s[i] = t[i + (n - m)], NEW i \in 1 .. m
          PROVE  u[i] = v[i]
      <4> DEFINE j == (m - i) + 1
      <4>1. j \in 1 .. m /\ j + (n - m) = (n - i) + 1
        BY <1>1
      <4>2. s[j] = t[j + (n - m)]
        BY <3>2, <4>1
      <4>3. QED
        BY <2>3, <4>1, <4>2
    <3>3. QED
      BY <3>1, <3>2
  <2>5. QED
    BY <1>5, <2>2, <2>4
<1>6. CASE ~(m <= n)
  BY <1>4, <1>6 DEF IsSuffix, IsPrefix
<1>7. QED
  BY <1>5, <1>6

(* A list is a suffix of itself; so is the empty one of every list.        *)
LEMMA SuffixEnds ==
    ASSUME NEW S, NEW t \in Seq(S)
    PROVE  IsSuffix(t, t) /\ IsSuffix(<<>>, t)
<1>1. Len(t) \in Nat /\ <<>> \in Seq(S) /\ Len(<<>>) = 0
  BY LenProperties, EmptySeq
<1>2. IsSuffix(t, t)
  <2>1. \A i \in 1 .. Len(t) : i + (Len(t) - Len(t)) = i
    BY <1>1
  <2>2. QED
    BY <1>1, <2>1, SuffixByPlaces
<1>3. IsSuffix(<<>>, t)
  <2>1. Len(<<>>) <= Len(t) /\ 1 .. Len(<<>>) = {}
    BY <1>1
  <2>2. QED
    BY <1>1, <2>1, SuffixByPlaces
<1>4. QED
  BY <1>2, <1>3

(* The tail of a suffix is a suffix.                                       *)
LEMMA TailOfSuffix ==
    ASSUME NEW S, NEW s \in Seq(S), NEW t \in Seq(S), IsSuffix(s, t), s # <<>>
    PROVE  IsSuffix(Tail(s), t)
<1> DEFINE m == Len(s)
           n == Len(t)
<1>1. /\ m \in Nat \ {0} /\ n \in Nat
      /\ Tail(s) \in Seq(S) /\ Len(Tail(s)) = m - 1
      /\ \A i \in 1 .. m - 1 : Tail(s)[i] = s[i + 1]
  BY TailOfList, LenProperties
<1>2. m <= n /\ \A i \in 1 .. m : s[i] = t[i + (n - m)]
  BY SuffixByPlaces
<1>3. ASSUME NEW i \in 1 .. m - 1 PROVE Tail(s)[i] = t[i + (n - (m - 1))]
  <2>1. i + 1 \in 1 .. m /\ (i + 1) + (n - m) = i + (n - (m - 1))
    BY <1>1
  <2>2. QED
    BY <1>1, <1>2, <2>1
<1>4. m - 1 <= n
  BY <1>1, <1>2
<1>5. QED
  BY <1>1, <1>3, <1>4, SuffixByPlaces

(* A suffix of a list without repetition has each region once.             *)
LEMMA HeadOnce ==
    ASSUME NEW S, NEW s \in Seq(S), NEW t \in Seq(S), IsSuffix(s, t), s # <<>>, IsInjective(t)
    PROVE  Head(s) \notin ToSet(Tail(s))
<1> DEFINE m == Len(s)
           n == Len(t)
<1>1. /\ m \in Nat \ {0} /\ n \in Nat /\ DOMAIN t = 1 .. n
      /\ Tail(s) \in Seq(S) /\ Len(Tail(s)) = m - 1
      /\ \A i \in 1 .. m - 1 : Tail(s)[i] = s[i + 1]
      /\ Head(s) = s[1]
  BY TailOfList, LenProperties
<1>2. m <= n /\ \A i \in 1 .. m : s[i] = t[i + (n - m)]
  BY SuffixByPlaces
<1>3. DOMAIN Tail(s) = 1 .. m - 1
  BY <1>1, LenProperties
<1> SUFFICES ASSUME NEW i \in 1 .. m - 1, Tail(s)[i] = Head(s) PROVE FALSE
  BY <1>3 DEF ToSet
<1>4. t[(i + 1) + (n - m)] = t[1 + (n - m)]
  <2>1. i + 1 \in 1 .. m /\ 1 \in 1 .. m
    BY <1>1
  <2>2. s[i + 1] = s[1]
    BY <1>1
  <2>3. QED
    BY <1>2, <2>1, <2>2
<1>5. (i + 1) + (n - m) \in 1 .. n /\ 1 + (n - m) \in 1 .. n
  BY <1>1, <1>2
<1>6. (i + 1) + (n - m) = 1 + (n - m)
  BY <1>1, <1>4, <1>5 DEF IsInjective
<1>7. QED
  BY <1>1, <1>6

----------------------------------------------------------------------------
(* The invariant *)

(* What a request or the coordinator has still to do are lists of regions, *)
(* and who asks has a region to ask.                                       *)
Lists ==
    /\ writing \in Seq(Region)
    /\ unasked \in [Request -> Seq(Region)]
    /\ left \in [Request -> Seq(Region)]
    /\ \A q \in Request : pc[q] = "asking" => unasked[q] # <<>>

(* A region that is still to be written to has no more copies than came    *)
(* from replays and repetitions.                                           *)
Copies == \A r \in ToSet(writing) : Len(records[r]) <= Surplus

(* Cancellations that have released a region, as far as they could.        *)
Released(r) ==
    {d \in Delete : pc[d] \in {"releasing", "cancelled"} /\ r \notin ToSet(left[d])}

GivenByDeletes == \A r \in Region : given[r] <= Cardinality(Released(r))

Typed == JourneysTypeOK /\ Lists /\ Copies /\ GivenByDeletes

(* Nothing is written after COMMITTED, and only regions of the journey     *)
(* ever have a copy.                                                       *)
CommitIsLast ==
    /\ committed => writing = <<>>
    /\ \A d \in Accepted \ early : committed
    /\ \A r \in Region : records[r] # <<>> => r \in ToSet(regions)

(* No copy in the region counts as approved.                               *)
Gone(r) ==
    records[r] # <<>> =>
        \/ Head(records[r]) = "cancelled"
        \/ Head(records[r]) = "flagged" /\ Happened("flag")

(* A cancellation has cancelled what is no longer on its list.             *)
CancelledFirst ==
    ~Happened("write") =>
        \A d \in Accepted \ early : \A r \in Region :
            \/ Gone(r)
            \/ pc[d] = "cancelling" /\ r \in ToSet(left[d])

(* What a request came after stays answered.                               *)
AfterAnswers == \A q \in Request : \A d \in after[q] : pc[d] = "cancelled"

(* A cancellation that came after another one is refused.                  *)
FirstOnly ==
    early = {} /\ ~Happened("write") /\ ~Happened("flag") =>
        \A e \in Accepted : after[e] = {}

SeenIsShown == \A q \in Get : seen[q] # None => pc[q] = "shown"

Cancelling == CommitIsLast /\ CancelledFirst /\ AfterAnswers /\ FirstOnly /\ SeenIsShown

----------------------------------------------------------------------------
(* Types *)

(* The journey is a list of regions, each of them once.                    *)
LEMMA Itinerary ==
    ASSUME JourneysTypeOK
    PROVE  regions \in Seq(Region) /\ regions # <<>> /\ IsInjective(regions)
  BY DEF JourneysTypeOK

(* A fault is one of the kinds, numbered below the bound; what happened    *)
(* stays happened.                                                         *)
LEMMA FaultTypes ==
    ASSUME NEW kind, Fault(kind), faults \subseteq AllFaults \X (1 .. MaxFaults)
    PROVE  /\ faults' \subseteq AllFaults \X (1 .. MaxFaults)
           /\ faults \subseteq faults'
           /\ Happened(kind)'
<1>1. PICK n \in 1 .. MaxFaults :
         /\ \A m \in 1 .. n - 1 : <<kind, m>> \in faults
         /\ faults' = faults \cup {<<kind, n>>}
  BY DEF Fault
<1>2. <<kind, n>> \in AllFaults \X (1 .. MaxFaults)
  BY <1>1 DEF Fault
<1>3. n # 1 => 1 \in 1 .. n - 1
  OBVIOUS
<1>4. <<kind, 1>> \in faults'
  BY <1>1, <1>3
<1>5. QED
  BY <1>1, <1>2, <1>4 DEF Happened

(* Replays and repetitions are counted one by one, other faults not.       *)
LEMMA SurplusCounts ==
    /\ Surplus \in Nat
    /\ \A kind : Fault(kind) =>
         IF kind \in {"replay", "repeat"} THEN Surplus' = Surplus + 1 ELSE Surplus' = Surplus
<1> DEFINE X == {"replay", "repeat"} \X (1 .. MaxFaults)
<1>1. IsFiniteSet({"replay", "repeat"}) /\ IsFiniteSet(1 .. MaxFaults)
  <2>1. IsFiniteSet({"replay"})
    BY FS_Singleton
  <2>2. IsFiniteSet({"replay"} \cup {"repeat"})
    BY <2>1, FS_AddElement
  <2>3. {"replay", "repeat"} = {"replay"} \cup {"repeat"}
    OBVIOUS
  <2>4. QED
    BY <2>2, <2>3, FS_Interval
<1>2. IsFiniteSet(X)
  BY <1>1, FS_Product
<1>3. IsFiniteSet(faults \cap X)
  BY <1>2, FS_Intersection
<1>4. Surplus = Cardinality(faults \cap X) /\ Surplus' = Cardinality(faults' \cap X)
  BY DEF Surplus
<1>5. Surplus \in Nat
  BY <1>3, <1>4, FS_CardinalityType
<1>6. ASSUME NEW kind, Fault(kind)
      PROVE  IF kind \in {"replay", "repeat"} THEN Surplus' = Surplus + 1 ELSE Surplus' = Surplus
  <2>1. PICK n \in 1 .. MaxFaults :
           <<kind, n>> \notin faults /\ faults' = faults \cup {<<kind, n>>}
    BY <1>6 DEF Fault
  <2>2. CASE kind \in {"replay", "repeat"}
    <3>1. faults' \cap X = (faults \cap X) \cup {<<kind, n>>} /\ <<kind, n>> \notin faults \cap X
      BY <2>1, <2>2
    <3> HIDE DEF X
    <3>2. QED
      BY <1>3, <1>4, <2>2, <3>1, FS_AddElement
  <2>3. CASE kind \notin {"replay", "repeat"}
    <3>1. faults' \cap X = faults \cap X
      BY <2>1, <2>3
    <3>2. QED
      BY <1>4, <2>3, <3>1
  <2>4. QED
    BY <2>2, <2>3
<1>7. QED
  BY <1>5, <1>6

(* All others leave the surplus alone.                                     *)
LEMMA SurplusStays ==
    ASSUME faults \subseteq AllFaults \X (1 .. MaxFaults),
           faults' = faults \/ \E kind \in AllFaults \ {"replay", "repeat"} : Fault(kind)
    PROVE  Surplus' = Surplus /\ faults' \subseteq AllFaults \X (1 .. MaxFaults)
<1>1. CASE faults' = faults
  BY <1>1 DEF Surplus
<1>2. CASE \E kind \in AllFaults \ {"replay", "repeat"} : Fault(kind)
  BY <1>2, SurplusCounts, FaultTypes
<1>3. QED
  BY <1>1, <1>2

(* Sets of DELETEs are finite.                                             *)
LEMMA DeletesAreCounted ==
    ASSUME NEW S, S \subseteq Delete
    PROVE  /\ IsFiniteSet(S)
           /\ Cardinality(S) \in Nat
           /\ Cardinality(S) <= Cardinality(Delete)
           /\ Cardinality(Delete) \in Nat
  BY FS_Subset, FS_CardinalityType

(* As long as the releases and the places of the DELETEs stay, or go on to *)
(* "cancelled" or to release, nothing is released more than it was.        *)
LEMMA ReleasedGrows ==
    ASSUME Typed, given' = given, \A r \in Region : Released(r) \subseteq Released(r)'
    PROVE  GivenByDeletes'
<1> SUFFICES ASSUME NEW r \in Region PROVE given'[r] <= Cardinality(Released(r)')
  BY DEF GivenByDeletes
<1> DEFINE K == Released(r)
           N == Released(r)'
<1>1. K \subseteq Delete /\ N \subseteq Delete
  BY DEF Released
<1>2. /\ Cardinality(K) \in Nat /\ Cardinality(N) \in Nat
      /\ IsFiniteSet(N)
  BY <1>1, DeletesAreCounted
<1>3. K \subseteq N
  OBVIOUS
<1>4. given[r] <= Cardinality(K) /\ given[r] \in Nat /\ given'[r] = given[r]
  BY DEF Typed, GivenByDeletes, JourneysTypeOK
<1> HIDE DEF K, N
<1>5. Cardinality(K) <= Cardinality(N)
  BY <1>2, <1>3, FS_Subset
<1>6. given'[r] <= Cardinality(N)
  BY <1>2, <1>4, <1>5
<1>7. QED
  BY <1>6 DEF N

(* A request that is not there yet, or asks, leaves the lists to release.  *)
LEMMA AskingReleasesNothing ==
    ASSUME Typed, given' = given, NEW q \in Request, pc[q] \notin {"releasing", "cancelled"},
           NEW place, pc' = [pc EXCEPT ![q] = place],
           NEW l, left' = [left EXCEPT ![q] = l]
    PROVE  GivenByDeletes'
<1>1. \A r \in Region : Released(r) \subseteq Released(r)'
  <2> SUFFICES ASSUME NEW r \in Region, NEW d \in Released(r) PROVE d \in Released(r)'
    OBVIOUS
  <2>1. d \in Delete /\ d # q /\ d \in Request
    BY DEF Released, Request
  <2>2. pc'[d] = pc[d] /\ left'[d] = left[d]
    BY <2>1 DEF Typed, JourneysTypeOK, Lists
  <2>3. QED
    BY <2>1, <2>2 DEF Released
<1>2. QED
  BY <1>1, ReleasedGrows

Status == {"approved", "cancelled", "flagged"}

(* An update touches the oldest copy of one region.                        *)
LEMMA StatusOfOldest ==
    ASSUME records \in [Region -> Seq(Status)], NEW r \in Region, NEW status \in Status
    PROVE  /\ SetStatus(r, status) \in [Region -> Seq(Status)]
           /\ \A x \in Region : /\ Len(SetStatus(r, status)[x]) = Len(records[x])
                                /\ SetStatus(r, status)[x] = <<>> <=> records[x] = <<>>
                                /\ x # r => SetStatus(r, status)[x] = records[x]
           /\ records[r] # <<>> => Head(SetStatus(r, status)[r]) = status
<1>1. CASE records[r] = <<>>
  BY <1>1 DEF SetStatus
<1>2. CASE records[r] # <<>>
  <2> DEFINE s == records[r]
             t == [records[r] EXCEPT ![1] = status]
  <2>1. s \in Seq(Status) /\ Len(s) \in Nat \ {0}
    BY <1>2, LenProperties, EmptySeq
  <2>2. SetStatus(r, status) = [records EXCEPT ![r] = t]
    BY <1>2 DEF SetStatus
  <2>3. t \in Seq(Status) /\ Len(t) = Len(s)
    BY <2>1, ExceptSeq
  <2>4. t # <<>>
    BY <2>1, <2>3, EmptySeq
  <2>5. Head(t) = status
    <3>1. 1 \in 1 .. Len(s) /\ DOMAIN s = 1 .. Len(s)
      BY <2>1, LenProperties
    <3>2. t[1] = status
      BY <3>1
    <3> HIDE DEF t
    <3>3. QED
      BY <2>3, <2>4, <3>2
  <2> HIDE DEF t
  <2>6. QED
    BY <1>2, <2>2, <2>3, <2>4, <2>5
<1>3. QED
  BY <1>1, <1>2

(* Types at first: the lists are whole or empty.                           *)
LEMMA InitTypes == Init => Typed
<1> SUFFICES ASSUME Init PROVE Typed
  OBVIOUS
<1> USE DEF Init
<1>1. regions \in Seq(Region) /\ writing = regions
  OBVIOUS
<1>2. IsSuffix(writing, regions)
  BY <1>1, SuffixEnds
<1>3. <<>> \in Seq(Region) /\ <<>> \in Seq({"approved", "cancelled", "flagged"}) /\ Len(<<>>) = 0
  BY EmptySeq
<1>4. \A q \in Request : IsSuffix(unasked[q], QueryOrder) /\ IsSuffix(left[q], regions)
  BY <1>1, SuffixEnds
<1>5. \A r \in Region : Released(r) = {}
  BY DEF Released, Request
<1>6. Cardinality({}) = 0 /\ Cardinality(Delete) \in Nat
  BY FS_EmptySet, FS_CardinalityType
<1>7. GivenByDeletes
  <2> SUFFICES ASSUME NEW r \in Region PROVE given[r] <= Cardinality(Released(r))
    BY DEF GivenByDeletes
  <2>1. Cardinality(Released(r)) = Cardinality({})
    BY <1>5
  <2>2. given[r] = 0
    OBVIOUS
  <2>3. QED
    BY <1>6, <2>1, <2>2
<1>8. Copies
  <2>1. ToSet(writing) \subseteq Region
    BY <1>1, MembersOfList
  <2>2. QED
    BY <1>3, <2>1, SurplusCounts DEF Copies
<1>9. JourneysTypeOK
  <2>1. given \in [Region -> 0 .. Cardinality(Delete)]
    <3>1. 0 \in 0 .. Cardinality(Delete)
      BY <1>6
    <3>2. QED
      BY <3>1
  <2>2. /\ records \in [Region -> Seq({"approved", "cancelled", "flagged"})]
        /\ \A r \in Region : Len(records[r]) = 0
    BY <1>3
  <2>3. /\ seen \in [Get -> {None, "approved", "cancelled", "flagged"}]
        /\ after \in [Request -> SUBSET Delete]
        /\ pc \in [Request -> {"new", "asking", "missing", "shown", "refused", "cancelling",
                               "releasing", "cancelled"}]
    OBVIOUS
  <2>4. \A r \in Region : Len(records[r]) <= 1 + Surplus
    BY <2>2, SurplusCounts
  <2>5. QED
    BY <1>2, <1>4, <2>1, <2>2, <2>3, <2>4 DEF JourneysTypeOK
<1>10. Lists
  BY <1>1, <1>3 DEF Lists
<1>11. QED
  BY <1>7, <1>8, <1>9, <1>10 DEF Typed

(* What requests do not look at stays: what they have to do, and what they *)
(* have given back.                                                        *)
LEMMA RequestsStay ==
    ASSUME Typed, UNCHANGED <<regions, requestVars, given>>
    PROVE  /\ GivenByDeletes'
           /\ \A q \in Request : IsSuffix(unasked[q], QueryOrder)' /\ IsSuffix(left[q], regions)'
           /\ (/\ unasked \in [Request -> Seq(Region)]
               /\ left \in [Request -> Seq(Region)]
               /\ \A q \in Request : pc[q] = "asking" => unasked[q] # <<>>)'
<1>1. \A r \in Region : Released(r) \subseteq Released(r)'
  BY DEF Released, requestVars
<1>2. GivenByDeletes'
  BY <1>1, ReleasedGrows
<1>3. QED
  BY <1>2 DEF Typed, JourneysTypeOK, Lists, requestVars

(* One more copy for a region, of those that are written to.               *)
LEMMA InsertTypes ==
    ASSUME Typed, NEW h \in Region, InsertCopy(h)
    PROVE  /\ records' \in [Region -> Seq(Status)]
           /\ \A r \in Region : r # h => records'[r] = records[r]
           /\ Len(records[h]) \in Nat /\ Len(records'[h]) = Len(records[h]) + 1
<1>1. records \in [Region -> Seq(Status)]
  BY DEF Typed, JourneysTypeOK, Status
<1>2. records[h] \in Seq(Status) /\ "approved" \in Status
  BY <1>1 DEF Status
<1>3. /\ Append(records[h], "approved") \in Seq(Status)
      /\ Len(Append(records[h], "approved")) = Len(records[h]) + 1
      /\ Len(records[h]) \in Nat
  BY <1>2, AppendProperties, LenProperties
<1>4. records' = [records EXCEPT ![h] = Append(records[h], "approved")]
  BY DEF InsertCopy
<1>5. records'[h] = Append(records[h], "approved")
  BY <1>1, <1>4
<1>6. QED
  BY <1>1, <1>3, <1>4, <1>5

(* The next region to write to.                                            *)
LEMMA NextRegion ==
    ASSUME Typed, writing # <<>>
    PROVE  /\ Head(writing) \in Region /\ Tail(writing) \in Seq(Region)
           /\ Head(writing) \in ToSet(writing) /\ ToSet(Tail(writing)) \subseteq ToSet(writing)
           /\ Head(writing) \notin ToSet(Tail(writing))
           /\ IsSuffix(Tail(writing), regions)
           /\ ToSet(writing) \subseteq Region
<1>1. regions \in Seq(Region) /\ IsInjective(regions) /\ IsSuffix(writing, regions)
  BY Itinerary DEF Typed, JourneysTypeOK
<1>2. writing \in Seq(Region)
  BY DEF Typed, Lists
<1>3. QED
  BY <1>1, <1>2, TailOfList, MembersOfTail, HeadOnce, TailOfSuffix, MembersOfList

(* The coordinator writes a region once in a pass over the regions.        *)
LEMMA WriteTypes == ASSUME Typed, WriteCopy PROVE Typed'
<1> DEFINE h == Head(writing)
<1>1. /\ writing # <<>> /\ writing' = Tail(writing)
      /\ UNCHANGED <<regions, committed, requestVars, given>>
      /\ InsertCopy(h) \/ UNCHANGED records
      /\ faults' = faults \/ Fault("store")
  BY DEF WriteCopy
<1>2. /\ h \in Region /\ Tail(writing) \in Seq(Region)
      /\ h \in ToSet(writing) /\ ToSet(Tail(writing)) \subseteq ToSet(writing)
      /\ h \notin ToSet(Tail(writing))
      /\ IsSuffix(Tail(writing), regions)
      /\ ToSet(writing) \subseteq Region
  BY <1>1, NextRegion
<1>3. records \in [Region -> Seq(Status)] /\ faults \subseteq AllFaults \X (1 .. MaxFaults)
  BY DEF Typed, Lists, JourneysTypeOK, Status
<1>4. Surplus' = Surplus /\ faults' \subseteq AllFaults \X (1 .. MaxFaults) /\ Surplus \in Nat
  BY <1>1, <1>3, SurplusStays, SurplusCounts DEF AllFaults
<1> HIDE DEF h
<1>5. /\ records' \in [Region -> Seq(Status)]
      /\ \A r \in Region : r # h => records'[r] = records[r]
      /\ Len(records'[h]) <= 1 + Surplus
  <2>1. Len(records[h]) <= Surplus /\ Len(records[h]) \in Nat
    BY <1>2, <1>3, LenProperties DEF Typed, Copies
  <2>2. CASE InsertCopy(h)
    BY <1>2, <1>4, <2>1, <2>2, InsertTypes
  <2>3. CASE UNCHANGED records
    BY <1>3, <1>4, <2>1, <2>3
  <2>4. QED
    BY <1>1, <2>2, <2>3
<1>6. \A r \in Region : Len(records'[r]) <= 1 + Surplus'
  BY <1>4, <1>5 DEF Typed, JourneysTypeOK
<1>7. Copies'
  BY <1>1, <1>2, <1>4, <1>5 DEF Copies, Typed
<1>8. JourneysTypeOK'
  BY <1>1, <1>2, <1>4, <1>5, <1>6, RequestsStay DEF Typed, JourneysTypeOK, Status, requestVars
<1>9. Lists'
  BY <1>1, <1>2, RequestsStay DEF Lists
<1>10. QED
  BY <1>1, <1>7, <1>8, <1>9, RequestsStay DEF Typed

(* A repeated insert leaves a copy more than the coordinator knows of.     *)
LEMMA RepeatTypes == ASSUME Typed, RepeatInsert PROVE Typed'
<1> DEFINE h == Head(writing)
<1>1. /\ writing # <<>> /\ UNCHANGED <<regions, writing, committed, requestVars, given>>
      /\ InsertCopy(h) /\ Fault("repeat")
  BY DEF RepeatInsert, sagaVars
<1>2. h \in Region /\ ToSet(writing) \subseteq Region /\ h \in ToSet(writing)
  BY <1>1, NextRegion
<1>3. faults \subseteq AllFaults \X (1 .. MaxFaults) /\ records \in [Region -> Seq(Status)]
  BY DEF Typed, JourneysTypeOK, Status
<1>4. faults' \subseteq AllFaults \X (1 .. MaxFaults)
  BY <1>1, <1>3, FaultTypes
<1>5. Surplus' = Surplus + 1 /\ Surplus \in Nat
  BY <1>1, SurplusCounts
<1> HIDE DEF h
<1>6. /\ records' \in [Region -> Seq(Status)]
      /\ \A r \in Region : r # h => records'[r] = records[r]
      /\ Len(records[h]) \in Nat /\ Len(records'[h]) = Len(records[h]) + 1
  BY <1>1, <1>2, InsertTypes
<1>7. \A r \in Region : Len(records[r]) \in Nat
  BY <1>3, LenProperties
<1>8. \A r \in Region : Len(records'[r]) <= 1 + Surplus'
  <2> SUFFICES ASSUME NEW r \in Region PROVE Len(records'[r]) <= 1 + Surplus'
    OBVIOUS
  <2>1. Len(records[r]) <= 1 + Surplus
    BY DEF Typed, JourneysTypeOK
  <2>2. Len(records'[r]) = Len(records[r]) \/ Len(records'[r]) = Len(records[r]) + 1
    BY <1>6
  <2>3. QED
    BY <1>5, <1>7, <2>1, <2>2
<1>9. Copies'
  <2> SUFFICES ASSUME NEW r \in ToSet(writing) PROVE Len(records'[r]) <= Surplus'
    BY <1>1 DEF Copies
  <2>1. r \in Region /\ Len(records[r]) <= Surplus
    BY <1>2 DEF Typed, Copies
  <2>2. Len(records'[r]) = Len(records[r]) \/ Len(records'[r]) = Len(records[r]) + 1
    BY <1>6, <2>1
  <2>3. QED
    BY <1>5, <1>7, <2>1, <2>2
<1>10. JourneysTypeOK'
  BY <1>1, <1>4, <1>6, <1>8, RequestsStay DEF Typed, JourneysTypeOK, Status, requestVars
<1>11. Lists'
  BY <1>1, RequestsStay DEF Typed, Lists
<1>12. QED
  BY <1>1, <1>9, <1>10, <1>11, RequestsStay DEF Typed

(* The commit ends, or starts over.                                        *)
LEMMA CommitTypes == ASSUME Typed, Commit \/ Replay PROVE Typed'
<1>1. UNCHANGED <<regions, requestVars, given, records>>
  BY DEF Commit, Replay
<1>2. /\ regions \in Seq(Region) /\ faults \subseteq AllFaults \X (1 .. MaxFaults)
      /\ records \in [Region -> Seq(Status)]
  BY Itinerary DEF Typed, JourneysTypeOK, Status
<1>3. CASE Commit
  <2>1. faults' = faults /\ writing = <<>> /\ writing' = writing /\ committed' = TRUE
    BY <1>3 DEF Commit
  <2>2. Surplus' = Surplus
    BY <1>2, <2>1, SurplusStays
  <2>3. QED
    BY <1>1, <2>1, <2>2, RequestsStay DEF Typed, JourneysTypeOK, Lists, Copies, requestVars
<1>4. CASE Replay
  <2>1. /\ writing' = regions /\ committed' = committed
        /\ faults' \subseteq AllFaults \X (1 .. MaxFaults)
        /\ Surplus' = Surplus + 1 /\ Surplus \in Nat
    BY <1>2, <1>4, FaultTypes, SurplusCounts DEF Replay
  <2>2. IsSuffix(regions, regions) /\ ToSet(regions) \subseteq Region
    BY <1>2, SuffixEnds, MembersOfList
  <2>3. \A r \in Region : Len(records[r]) \in Nat /\ Len(records[r]) <= 1 + Surplus
    BY <1>2, LenProperties DEF Typed, JourneysTypeOK
  <2>4. Copies'
    BY <1>1, <2>1, <2>2, <2>3 DEF Copies
  <2>5. JourneysTypeOK'
    BY <1>1, <2>1, <2>2, <2>3, RequestsStay DEF Typed, JourneysTypeOK, requestVars
  <2>6. Lists'
    BY <1>1, <1>2, <2>1, RequestsStay DEF Lists
  <2>7. QED
    BY <1>1, <2>4, <2>5, <2>6, RequestsStay DEF Typed
<1>5. QED
  BY <1>3, <1>4

(* A flag lies on a copy that is there.                                    *)
LEMMA FlagTypes == ASSUME Typed, NEW r \in Region, Flag(r) PROVE Typed'
<1>1. /\ UNCHANGED <<regions, requestVars, given, writing, committed>>
      /\ records' = SetStatus(r, "flagged")
  BY DEF Flag, sagaVars
<1>2. /\ faults \subseteq AllFaults \X (1 .. MaxFaults)
      /\ records \in [Region -> Seq(Status)] /\ writing \in Seq(Region)
  BY DEF Typed, JourneysTypeOK, Status, Lists
<1>3. Surplus' = Surplus /\ faults' \subseteq AllFaults \X (1 .. MaxFaults)
  BY <1>2, SurplusStays DEF Flag, AllFaults
<1>4. /\ records' \in [Region -> Seq(Status)]
      /\ \A x \in Region : Len(records'[x]) = Len(records[x])
  BY <1>1, <1>2, StatusOfOldest DEF Status
<1>5. ToSet(writing) \subseteq Region
  BY <1>2, MembersOfList
<1>6. Copies'
  BY <1>1, <1>3, <1>4, <1>5 DEF Copies, Typed
<1>7. JourneysTypeOK'
  BY <1>1, <1>3, <1>4, RequestsStay DEF Typed, JourneysTypeOK, Status, requestVars
<1>8. Lists'
  BY <1>1, <1>2, RequestsStay DEF Lists
<1>9. QED
  BY <1>1, <1>6, <1>7, <1>8, RequestsStay DEF Typed

(* Requests leave the commit alone: they replay nothing and write no copy  *)
(* anew.                                                                   *)
LEMMA CommitStays ==
    ASSUME Typed, UNCHANGED sagaVars, Surplus' = Surplus,
           faults' \subseteq AllFaults \X (1 .. MaxFaults), records' \in [Region -> Seq(Status)],
           \A x \in Region : Len(records'[x]) = Len(records[x])
    PROVE  /\ Copies'
           /\ (/\ regions \in Itineraries
               /\ IsSuffix(writing, regions)
               /\ committed \in BOOLEAN
               /\ records \in [Region -> Seq({"approved", "cancelled", "flagged"})]
               /\ \A r \in Region : Len(records[r]) <= 1 + Surplus
               /\ faults \subseteq AllFaults \X (1 .. MaxFaults)
               /\ writing \in Seq(Region))'
<1>1. regions' = regions /\ writing' = writing /\ committed' = committed
  BY DEF sagaVars
<1>2. ToSet(writing) \subseteq Region
  BY MembersOfList DEF Typed, Lists
<1>3. Copies'
  BY <1>1, <1>2 DEF Copies, Typed
<1>4. QED
  BY <1>1, <1>3 DEF Typed, JourneysTypeOK, Lists, Status

(* In particular the steps that only move a request.                       *)
LEMMA QuietTypes ==
    ASSUME Typed, UNCHANGED <<sagaVars, records>>,
           faults' = faults \/ \E kind \in AllFaults \ {"replay", "repeat"} : Fault(kind)
    PROVE  /\ Copies'
           /\ (/\ regions \in Itineraries
               /\ IsSuffix(writing, regions)
               /\ committed \in BOOLEAN
               /\ records \in [Region -> Seq({"approved", "cancelled", "flagged"})]
               /\ \A r \in Region : Len(records[r]) <= 1 + Surplus
               /\ faults \subseteq AllFaults \X (1 .. MaxFaults)
               /\ writing \in Seq(Region))'
<1>1. faults \subseteq AllFaults \X (1 .. MaxFaults) /\ records \in [Region -> Seq(Status)]
  BY DEF Typed, JourneysTypeOK, Status
<1>2. Surplus' = Surplus /\ faults' \subseteq AllFaults \X (1 .. MaxFaults)
  BY <1>1, SurplusStays
<1>3. QED
  BY <1>1, <1>2, CommitStays

(* A request that has come asks the regions of the query order.            *)
LEMMA ReceiveTypes == ASSUME Typed, NEW q \in Request, Receive(q) PROVE Typed'
<1>1. /\ pc[q] = "new" /\ pc' = [pc EXCEPT ![q] = "asking"]
      /\ unasked' = [unasked EXCEPT ![q] = QueryOrder]
      /\ after' = [after EXCEPT ![q] = {d \in Delete : pc[d] = "cancelled"}]
      /\ UNCHANGED <<sagaVars, records, given, seen, left, early, faults>>
  BY DEF Receive, Goto
<1>2. QueryOrder # <<>>
  <2>1. regions \in Seq(Region) /\ regions # <<>>
    BY Itinerary DEF Typed
  <2>2. Head(regions) \in Region
    BY <2>1, MembersOfTail
  <2>3. PICK i \in DOMAIN QueryOrder : TRUE
    BY <2>2 DEF ToSet
  <2>4. QED
    BY <2>3, EmptySeq, LenProperties
<1>3. IsSuffix(QueryOrder, QueryOrder)
  BY SuffixEnds
<1>4. left' = [left EXCEPT ![q] = left[q]] /\ regions' = regions
  BY <1>1 DEF Typed, Lists, sagaVars
<1>5. GivenByDeletes'
  BY <1>1, <1>4, AskingReleasesNothing
<1>6. JourneysTypeOK'
  BY <1>1, <1>3, <1>4, QuietTypes DEF Typed, JourneysTypeOK
<1>7. Lists'
  BY <1>1, <1>2, QuietTypes DEF Typed, Lists, JourneysTypeOK
<1>8. QED
  BY <1>1, <1>5, <1>6, <1>7, QuietTypes DEF Typed

(* It asks the next one, as long as there is one.                          *)
LEMMA AskNextTypes == ASSUME Typed, NEW q \in Request, AskNext(q) PROVE Typed'
<1>1. /\ pc[q] = "asking"
      /\ unasked' = [unasked EXCEPT ![q] = Tail(unasked[q])]
      /\ pc' = [pc EXCEPT ![q] = IF Len(unasked[q]) = 1 THEN "missing" ELSE "asking"]
      /\ UNCHANGED <<sagaVars, records, given, seen, left, after, early>>
  BY DEF AskNext, Ask, Goto, Typed, JourneysTypeOK
<1>2. unasked[q] \in Seq(Region) /\ unasked[q] # <<>> /\ IsSuffix(unasked[q], QueryOrder)
  BY <1>1 DEF Typed, Lists, JourneysTypeOK
<1>3. /\ Tail(unasked[q]) \in Seq(Region)
      /\ IsSuffix(Tail(unasked[q]), QueryOrder)
      /\ Len(unasked[q]) # 1 => Tail(unasked[q]) # <<>>
  <2>1. Len(Tail(unasked[q])) = Len(unasked[q]) - 1 /\ Len(unasked[q]) \in Nat
    BY <1>2, TailOfList
  <2>2. ASSUME Tail(unasked[q]) = <<>> PROVE Len(unasked[q]) = 1
    <3>1. Len(<<>>) = 0
      BY EmptySeq
    <3>2. Len(Tail(unasked[q])) = 0
      BY <2>2, <3>1
    <3>3. QED
      BY <2>1, <3>2
  <2>3. QED
    BY <1>2, <2>2, TailOfList, TailOfSuffix
<1>4. faults' = faults \/ \E kind \in AllFaults \ {"replay", "repeat"} : Fault(kind)
  BY DEF AskNext, AllFaults
<1>5. left' = [left EXCEPT ![q] = left[q]] /\ regions' = regions
  BY <1>1 DEF Typed, Lists, sagaVars
<1>6. GivenByDeletes'
  BY <1>1, <1>5, AskingReleasesNothing
<1>7. JourneysTypeOK'
  <2>1. /\ pc' \in [Request -> {"new", "asking", "missing", "shown", "refused", "cancelling",
                                "releasing", "cancelled"}]
        /\ \A p \in Request : IsSuffix(unasked'[p], QueryOrder)
    BY <1>1, <1>3 DEF Typed, JourneysTypeOK, Lists
  <2>2. QED
    BY <1>1, <1>4, <1>5, <2>1, QuietTypes DEF Typed, JourneysTypeOK
<1>8. Lists'
  <2>1. \A p \in Request : pc'[p] = "asking" => unasked'[p] # <<>>
    BY <1>1, <1>3 DEF Typed, Lists, JourneysTypeOK
  <2>2. QED
    BY <1>1, <1>3, <1>4, <2>1, QuietTypes DEF Typed, Lists
<1>9. QED
  BY <1>1, <1>4, <1>6, <1>7, <1>8, QuietTypes DEF Typed

(* It has found a copy: it shows it, refuses, or begins to cancel.         *)
LEMMA FoundTypes ==
    ASSUME Typed, NEW q \in Request, Show(q) \/ (q \in Delete /\ (Refuse(q) \/ Accept(q)))
    PROVE  Typed'
<1>1. \E place \in {"shown", "refused", "cancelling"} :
        /\ pc[q] = "asking" /\ pc' = [pc EXCEPT ![q] = place]
        /\ unasked' = [unasked EXCEPT ![q] = <<>>]
        /\ left' = [left EXCEPT ![q] = left[q]] \/ left' = [left EXCEPT ![q] = regions]
        /\ UNCHANGED <<sagaVars, records, given, after, faults>>
  BY DEF Show, Refuse, Accept, Ask, Goto, RegionsToCancel, Typed, Lists
<1>2. PICK place \in {"shown", "refused", "cancelling"} :
        /\ pc[q] = "asking" /\ pc' = [pc EXCEPT ![q] = place]
        /\ unasked' = [unasked EXCEPT ![q] = <<>>]
        /\ left' = [left EXCEPT ![q] = left[q]] \/ left' = [left EXCEPT ![q] = regions]
        /\ UNCHANGED <<sagaVars, records, given, after, faults>>
  BY <1>1
<1>3. /\ regions \in Seq(Region) /\ regions' = regions
      /\ IsSuffix(regions, regions) /\ IsSuffix(<<>>, QueryOrder) /\ <<>> \in Seq(Region)
  BY <1>2, Itinerary, SuffixEnds, EmptySeq DEF Typed, sagaVars
<1>4. GivenByDeletes'
  BY <1>2, AskingReleasesNothing
<1>5. /\ left' \in [Request -> Seq(Region)]
      /\ \A p \in Request : IsSuffix(left'[p], regions)
  <2>1. CASE left' = [left EXCEPT ![q] = left[q]]
    BY <2>1 DEF Typed, Lists, JourneysTypeOK
  <2>2. CASE left' = [left EXCEPT ![q] = regions]
    BY <1>3, <2>2 DEF Typed, Lists, JourneysTypeOK
  <2>3. QED
    BY <1>2, <2>1, <2>2
<1>6. seen' \in [Get -> {None, "approved", "cancelled", "flagged"}] /\ early' \subseteq Delete
  <2>1. CASE Show(q)
    <3>1. Copy(q) \in Seq(Status) /\ Copy(q) # <<>>
      <4>1. unasked[q] \in Seq(Region) /\ unasked[q] # <<>>
        BY <1>2 DEF Typed, Lists
      <4>2. Head(unasked[q]) \in Region
        BY <4>1, MembersOfTail
      <4>3. QED
        BY <2>1, <4>2 DEF Show, Copy, Typed, JourneysTypeOK, Status
    <3>2. Head(Copy(q)) \in Status
      BY <3>1, MembersOfTail
    <3>3. QED
      BY <2>1, <3>2 DEF Show, Typed, JourneysTypeOK, Status
  <2>2. CASE q \in Delete /\ (Refuse(q) \/ Accept(q))
    BY <2>2 DEF Refuse, Accept, Typed, JourneysTypeOK
  <2>3. QED
    BY <2>1, <2>2
<1>7. JourneysTypeOK'
  <2>1. /\ pc' \in [Request -> {"new", "asking", "missing", "shown", "refused", "cancelling",
                                "releasing", "cancelled"}]
        /\ \A p \in Request : IsSuffix(unasked'[p], QueryOrder)
    BY <1>2, <1>3 DEF Typed, JourneysTypeOK, Lists
  <2>2. QED
    BY <1>2, <1>3, <1>5, <1>6, <2>1, QuietTypes DEF Typed, JourneysTypeOK
<1>8. Lists'
  <2>1. \A p \in Request : pc'[p] = "asking" => unasked'[p] # <<>>
    BY <1>2 DEF Typed, Lists, JourneysTypeOK
  <2>2. QED
    BY <1>2, <1>3, <1>5, <2>1, QuietTypes DEF Typed, Lists
<1>9. QED
  BY <1>2, <1>4, <1>7, <1>8, QuietTypes DEF Typed

(* A cancellation goes on: with what is left of its regions, and what it   *)
(* has given back.                                                         *)
LEMMA CancellationTypes ==
    ASSUME Typed, NEW d \in Delete,
           UNCHANGED <<sagaVars, unasked, seen, after, early>>,
           NEW place \in {"cancelling", "releasing", "cancelled"},
           pc' = [pc EXCEPT ![d] = place],
           NEW l \in Seq(Region), IsSuffix(l, regions), left' = [left EXCEPT ![d] = l],
           faults' = faults \/ \E kind \in AllFaults \ {"replay", "repeat"} : Fault(kind),
           records' = records \/ \E r \in Region : records' = SetStatus(r, "cancelled"),
           given' \in [Region -> 0 .. Cardinality(Delete)], GivenByDeletes'
    PROVE  Typed'
<1>1. faults \subseteq AllFaults \X (1 .. MaxFaults) /\ records \in [Region -> Seq(Status)]
  BY DEF Typed, JourneysTypeOK, Status
<1>2. Surplus' = Surplus /\ faults' \subseteq AllFaults \X (1 .. MaxFaults)
  BY <1>1, SurplusStays
<1>3. /\ records' \in [Region -> Seq(Status)]
      /\ \A x \in Region : Len(records'[x]) = Len(records[x])
  BY <1>1, StatusOfOldest DEF Status
<1>4. d \in Request
  BY DEF Request
<1>5. /\ left' \in [Request -> Seq(Region)]
      /\ \A p \in Request : IsSuffix(left'[p], regions)
  BY <1>4 DEF Typed, Lists, JourneysTypeOK
<1>6. pc' \in [Request -> {"new", "asking", "missing", "shown", "refused", "cancelling",
                           "releasing", "cancelled"}]
  BY DEF Typed, JourneysTypeOK
<1>7. regions' = regions
  BY DEF sagaVars
<1>8. JourneysTypeOK'
  BY <1>2, <1>3, <1>5, <1>6, <1>7, CommitStays DEF Typed, JourneysTypeOK
<1>9. Lists'
  <2>1. \A p \in Request : pc'[p] = "asking" => unasked'[p] # <<>>
    BY <1>4 DEF Typed, Lists, JourneysTypeOK
  <2>2. QED
    BY <1>2, <1>3, <1>5, <2>1, CommitStays DEF Typed, Lists
<1>10. QED
  BY <1>2, <1>3, <1>8, <1>9, CommitStays DEF Typed

(* A copy is cancelled, and its region done.                               *)
LEMMA CancelCopyTypes == ASSUME Typed, NEW d \in Delete, CancelCopy(d) PROVE Typed'
<1>1. d \in Request /\ left[d] \in Seq(Region) /\ IsSuffix(left[d], regions) /\ left[d] # <<>>
  BY DEF Request, Typed, Lists, JourneysTypeOK, CancelCopy
<1>2. Tail(left[d]) \in Seq(Region) /\ IsSuffix(Tail(left[d]), regions) /\ Head(left[d]) \in Region
  <2>1. regions \in Seq(Region)
    BY Itinerary DEF Typed
  <2>2. QED
    BY <1>1, <2>1, TailOfList, TailOfSuffix, MembersOfTail
<1>3. /\ pc[d] = "cancelling" /\ pc' = [pc EXCEPT ![d] = "cancelling"]
      /\ left' = [left EXCEPT ![d] = Tail(left[d])]
      /\ UNCHANGED <<sagaVars, given, unasked, seen, after, early>>
  BY <1>1 DEF CancelCopy, Typed, JourneysTypeOK
<1>4. GivenByDeletes'
  BY <1>1, <1>3, AskingReleasesNothing
<1>5. /\ faults' = faults \/ \E kind \in AllFaults \ {"replay", "repeat"} : Fault(kind)
      /\ records' = records \/ \E r \in Region : records' = SetStatus(r, "cancelled")
  BY <1>2 DEF CancelCopy, AllFaults
<1>6. given' \in [Region -> 0 .. Cardinality(Delete)]
  BY <1>3 DEF Typed, JourneysTypeOK
<1>7. QED
  BY <1>2, <1>3, <1>4, <1>5, <1>6, CancellationTypes

(* The saga is read, and with it the regions to release.                   *)
LEMMA ReadSagaTypes == ASSUME Typed, NEW d \in Delete, ReadSaga(d) PROVE Typed'
<1>1. d \in Request /\ regions \in Seq(Region) /\ IsSuffix(regions, regions)
  BY Itinerary, SuffixEnds DEF Request, Typed
<1>2. /\ pc[d] = "cancelling" /\ pc' = [pc EXCEPT ![d] = "releasing"]
      /\ left' = [left EXCEPT ![d] = regions]
      /\ UNCHANGED <<sagaVars, records, given, unasked, seen, after, early, faults>>
  BY DEF ReadSaga, Goto, RegionsToRelease
<1>3. GivenByDeletes'
  BY <1>1, <1>2, AskingReleasesNothing
<1>4. given' \in [Region -> 0 .. Cardinality(Delete)]
  BY <1>2 DEF Typed, JourneysTypeOK
<1>5. QED
  BY <1>1, <1>2, <1>3, <1>4, CancellationTypes

(* It is answered, with every release sent or some given up.               *)
LEMMA AnswerTypes ==
    ASSUME Typed, NEW d \in Delete, Answer(d) \/ ReleaseFails(d)
    PROVE  Typed'
<1>1. d \in Request /\ regions \in Seq(Region) /\ IsSuffix(<<>>, regions) /\ <<>> \in Seq(Region)
  BY Itinerary, SuffixEnds, EmptySeq DEF Request, Typed
<1>2. /\ pc[d] \in {"cancelling", "releasing"} /\ pc' = [pc EXCEPT ![d] = "cancelled"]
      /\ left' = [left EXCEPT ![d] = <<>>]
      /\ UNCHANGED <<sagaVars, records, given, unasked, seen, after, early>>
      /\ faults' = faults \/ \E kind \in AllFaults \ {"replay", "repeat"} : Fault(kind)
  <2>1. CASE Answer(d)
    <3>1. left' = left /\ left[d] = <<>>
      BY <2>1 DEF Answer
    <3>2. left' = [left EXCEPT ![d] = <<>>]
      BY <1>1, <3>1 DEF Typed, Lists
    <3>3. QED
      BY <2>1, <3>2 DEF Answer, Goto
  <2>2. CASE ReleaseFails(d)
    BY <2>2 DEF ReleaseFails, Goto, AllFaults
  <2>3. QED
    BY <2>1, <2>2
<1>3. \A r \in Region : Released(r) \subseteq Released(r)'
  <2> SUFFICES ASSUME NEW r \in Region, NEW e \in Released(r) PROVE e \in Released(r)'
    OBVIOUS
  <2>1. e \in Delete /\ e \in Request
    BY DEF Released, Request
  <2>2. CASE e = d
    <3>1. pc'[d] = "cancelled" /\ left'[d] = <<>>
      BY <1>1, <1>2 DEF Typed, JourneysTypeOK, Lists
    <3>2. ToSet(<<>>) = {}
      BY EmptySeq, LenProperties DEF ToSet
    <3>3. QED
      BY <2>1, <2>2, <3>1, <3>2 DEF Released
  <2>3. CASE e # d
    <3>1. pc'[e] = pc[e] /\ left'[e] = left[e]
      BY <1>2, <2>1, <2>3 DEF Typed, JourneysTypeOK, Lists
    <3>2. QED
      BY <2>1, <3>1 DEF Released
  <2>4. QED
    BY <2>2, <2>3
<1>4. GivenByDeletes'
  BY <1>2, <1>3, ReleasedGrows
<1>5. given' \in [Region -> 0 .. Cardinality(Delete)]
  BY <1>2 DEF Typed, JourneysTypeOK
<1>6. QED
  BY <1>1, <1>2, <1>4, <1>5, CancellationTypes

(* A region is released once by one cancellation, because the journey does *)
(* not come back to it.                                                    *)
LEMMA SendReleaseTypes == ASSUME Typed, NEW d \in Delete, SendRelease(d) PROVE Typed'
<1> DEFINE h == Head(left[d])
<1>1. d \in Request /\ left[d] \in Seq(Region) /\ IsSuffix(left[d], regions) /\ left[d] # <<>>
  BY DEF Request, Typed, Lists, JourneysTypeOK, SendRelease
<1>2. /\ Tail(left[d]) \in Seq(Region) /\ IsSuffix(Tail(left[d]), regions)
      /\ h \in Region /\ h \in ToSet(left[d]) /\ h \notin ToSet(Tail(left[d]))
      /\ ToSet(Tail(left[d])) \subseteq ToSet(left[d])
  <2>1. regions \in Seq(Region) /\ IsInjective(regions)
    BY Itinerary DEF Typed
  <2>2. QED
    BY <1>1, <2>1, TailOfList, TailOfSuffix, MembersOfTail, HeadOnce
<1>3. /\ pc[d] = "releasing" /\ pc' = [pc EXCEPT ![d] = "releasing"]
      /\ left' = [left EXCEPT ![d] = Tail(left[d])]
      /\ given' = [given EXCEPT ![h] = given[h] + 1]
      /\ UNCHANGED <<sagaVars, records, unasked, seen, after, early, faults>>
  BY <1>1 DEF SendRelease, Typed, JourneysTypeOK
<1>4. pc' = pc /\ left'[d] = Tail(left[d]) /\ \A e \in Request \ {d} : left'[e] = left[e]
  BY <1>1, <1>3 DEF Typed, JourneysTypeOK, Lists
<1>5. \A r \in Region : Released(r) \subseteq Released(r)'
  BY <1>2, <1>4 DEF Released, Request
<1>6. \A r \in Region : r = h => d \notin Released(r) /\ d \in Released(r)'
  BY <1>2, <1>3, <1>4 DEF Released
<1>7. ASSUME NEW r \in Region
      PROVE  /\ given'[r] \in Nat
             /\ given'[r] <= Cardinality(Released(r)')
             /\ Cardinality(Released(r)') \in Nat
             /\ Cardinality(Released(r)') <= Cardinality(Delete)
             /\ Cardinality(Delete) \in Nat
  <2> DEFINE K == Released(r)
             N == Released(r)'
  <2>1. K \subseteq Delete /\ N \subseteq Delete /\ K \subseteq N
    BY <1>5 DEF Released
  <2>2. given[r] \in Nat /\ given[r] <= Cardinality(K)
    BY DEF Typed, JourneysTypeOK, GivenByDeletes
  <2>3. given'[r] = IF r = h THEN given[r] + 1 ELSE given[r]
    BY <1>2, <1>3 DEF Typed, JourneysTypeOK
  <2>4. r = h => d \notin K /\ d \in N
    BY <1>6
  <2> HIDE DEF K, N
  <2>5. /\ IsFiniteSet(K) /\ IsFiniteSet(N)
        /\ Cardinality(K) \in Nat /\ Cardinality(N) \in Nat /\ Cardinality(Delete) \in Nat
        /\ Cardinality(N) <= Cardinality(Delete)
    BY <2>1, DeletesAreCounted
  <2>6. Cardinality(K) <= Cardinality(N)
    BY <2>1, <2>5, FS_Subset
  <2>7. CASE r = h
    <3>1. Cardinality(K \cup {d}) = Cardinality(K) + 1
      BY <2>4, <2>5, <2>7, FS_AddElement
    <3>2. K \cup {d} \subseteq N
      BY <2>1, <2>4, <2>7
    <3>3. Cardinality(K \cup {d}) <= Cardinality(N)
      BY <2>5, <3>2, FS_Subset
    <3>4. given'[r] \in Nat /\ given'[r] <= Cardinality(N)
      BY <2>2, <2>3, <2>5, <2>7, <3>1, <3>3
    <3>5. QED
      BY <2>5, <3>4 DEF N
  <2>8. CASE r # h
    <3>1. given'[r] \in Nat /\ given'[r] <= Cardinality(N)
      BY <2>2, <2>3, <2>5, <2>6, <2>8
    <3>2. QED
      BY <2>5, <3>1 DEF N
  <2>9. QED
    BY <2>7, <2>8
<1>8. GivenByDeletes'
  BY <1>7 DEF GivenByDeletes
<1>9. given' \in [Region -> 0 .. Cardinality(Delete)]
  <2>1. \A r \in Region : given'[r] \in 0 .. Cardinality(Delete)
    BY <1>7
  <2>2. DOMAIN given' = Region /\ given' = [r \in Region |-> given'[r]]
    BY <1>3 DEF Typed, JourneysTypeOK
  <2>3. QED
    BY <2>1, <2>2
<1>10. QED
  BY <1>2, <1>3, <1>8, <1>9, CancellationTypes

(* Every step keeps the types.                                             *)
LEMMA StepTypes == Typed /\ [Next]_vars => Typed'
<1> SUFFICES ASSUME Typed, [Next]_vars PROVE Typed'
  OBVIOUS
<1>1. CASE WriteCopy \/ RepeatInsert \/ Commit \/ Replay
  BY <1>1, WriteTypes, RepeatTypes, CommitTypes
<1>2. ASSUME NEW q \in Request, Receive(q) \/ AskNext(q) \/ Show(q) PROVE Typed'
  BY <1>2, ReceiveTypes, AskNextTypes, FoundTypes
<1>3. ASSUME NEW d \in Delete, Cancel(d) \/ ReleaseFails(d) PROVE Typed'
  <2>1. d \in Request
    BY DEF Request
  <2>2. QED
    BY <1>3, <2>1, FoundTypes, CancelCopyTypes, ReadSagaTypes, SendReleaseTypes, AnswerTypes
       DEF Cancel
<1>4. ASSUME NEW r \in Region, Flag(r) PROVE Typed'
  BY <1>4, FlagTypes
<1>5. CASE UNCHANGED vars
  <2>1. UNCHANGED <<sagaVars, regions, writing, committed, records, given, requestVars, faults>>
    BY <1>5 DEF vars, sagaVars
  <2>2. Copies'
    BY <2>1, QuietTypes
  <2>3. JourneysTypeOK' /\ Lists'
    BY <2>1, QuietTypes, RequestsStay DEF Typed, JourneysTypeOK, Lists, requestVars
  <2>4. QED
    BY <2>1, <2>2, <2>3, RequestsStay DEF Typed
<1>6. QED
  BY <1>1, <1>2, <1>3, <1>4, <1>5 DEF Next

(* Type correctness: lists of regions are worked off from the front, a     *)
(* region has one copy and as many more as the commit was replayed and     *)
(* inserts were repeated, and no cancellation releases a region twice.     *)
THEOREM JourneysTypes == Spec => []JourneysTypeOK
<1>1. Init => Typed
  BY InitTypes
<1>2. Typed /\ [Next]_vars => Typed'
  BY StepTypes
<1>3. Typed => JourneysTypeOK
  BY DEF Typed
<1>4. QED
  BY <1>1, <1>2, <1>3, PTL DEF Spec

----------------------------------------------------------------------------
(* Cancellation *)

(* What happened is a member of faults.                                    *)
USE DEF Happened

(* The regions of a suffix are regions of the journey.                     *)
LEMMA MembersOfSuffix ==
    ASSUME NEW S, NEW s \in Seq(S), NEW t \in Seq(S), IsSuffix(s, t)
    PROVE  ToSet(s) \subseteq ToSet(t)
<1> DEFINE m == Len(s)
           n == Len(t)
<1>1. m \in Nat /\ n \in Nat /\ DOMAIN s = 1 .. m /\ DOMAIN t = 1 .. n
  BY LenProperties
<1>2. m <= n /\ \A i \in 1 .. m : s[i] = t[i + (n - m)]
  BY SuffixByPlaces
<1>3. ASSUME NEW i \in 1 .. m PROVE s[i] \in ToSet(t)
  <2>1. i + (n - m) \in 1 .. n
    BY <1>1, <1>2
  <2>2. QED
    BY <1>1, <1>2, <2>1 DEF ToSet
<1>4. QED
  BY <1>1, <1>3 DEF ToSet

(* The coordinator leaves requests alone, and writes nothing once one has  *)
(* been accepted after the commit.                                         *)
LEMMA WritingKeeps ==
    ASSUME Typed, Cancelling, WriteCopy \/ RepeatInsert \/ Commit \/ Replay
    PROVE  Cancelling'
<1> USE DEF Cancelling
<1>1. UNCHANGED <<regions, requestVars>> /\ faults \subseteq faults'
  BY FaultTypes DEF WriteCopy, RepeatInsert, Commit, Replay, sagaVars, Typed, JourneysTypeOK
<1>2. Accepted' = Accepted /\ early' = early /\ after' = after
  BY <1>1 DEF Accepted, requestVars
<1>3. committed => Commit
  BY DEF CommitIsLast, WriteCopy, RepeatInsert, Replay
<1>4. CommitIsLast'
  <2>1. committed' => writing' = <<>>
    BY <1>3 DEF CommitIsLast, WriteCopy, RepeatInsert, Commit, Replay, sagaVars
  <2>2. \A d \in Accepted' \ early' : committed'
    BY <1>2, <1>3 DEF CommitIsLast, Commit
  <2>3. ASSUME NEW r \in Region, records'[r] # <<>> PROVE r \in ToSet(regions)
    <3>1. CASE records[r] # <<>>
      BY <3>1 DEF CommitIsLast
    <3>2. CASE records[r] = <<>>
      <4>1. WriteCopy \/ RepeatInsert
        BY <2>3, <3>2 DEF Commit, Replay
      <4>2. writing \in Seq(Region) /\ writing # <<>> /\ IsSuffix(writing, regions)
            /\ r = Head(writing)
        BY <2>3, <3>2, <4>1 DEF WriteCopy, RepeatInsert, InsertCopy, Typed, JourneysTypeOK, Lists
      <4>3. r \in ToSet(writing)
        BY <4>2, MembersOfTail
      <4>4. ToSet(writing) \subseteq ToSet(regions)
        BY <4>2, MembersOfSuffix, Itinerary DEF Typed
      <4>5. QED
        BY <4>3, <4>4
    <3>3. QED
      BY <3>1, <3>2
  <2>4. QED
    BY <1>1, <2>1, <2>2, <2>3 DEF CommitIsLast
<1>5. CancelledFirst'
  <2> SUFFICES ASSUME ~Happened("write")', NEW d \in Accepted \ early, NEW r \in Region
               PROVE  Gone(r)' \/ (pc'[d] = "cancelling" /\ r \in ToSet(left'[d]))
    BY <1>2 DEF CancelledFirst
  <2>1. records' = records /\ faults' = faults
    BY <1>3 DEF CommitIsLast, Commit
  <2>2. Gone(r) \/ (pc[d] = "cancelling" /\ r \in ToSet(left[d]))
    BY <2>1 DEF CancelledFirst
  <2>3. QED
    BY <1>1, <2>1, <2>2 DEF Gone, requestVars
<1>6. AfterAnswers' /\ SeenIsShown'
  BY <1>1 DEF AfterAnswers, SeenIsShown, requestVars
<1>7. FirstOnly'
  BY <1>1, <1>2 DEF FirstOnly
<1>8. QED
  BY <1>4, <1>5, <1>6, <1>7

(* A flag may lie over a cancelled copy, but makes none approved.          *)
LEMMA FlaggingKeeps ==
    ASSUME Typed, Cancelling, NEW r \in Region, Flag(r)
    PROVE  Cancelling'
<1> USE DEF Cancelling
<1>1. /\ UNCHANGED <<regions, writing, committed, requestVars>>
      /\ records' = SetStatus(r, "flagged")
  BY DEF Flag, sagaVars
<1>2. faults \subseteq faults' /\ Happened("flag")'
  BY FaultTypes DEF Flag, Typed, JourneysTypeOK
<1>3. records \in [Region -> Seq(Status)] /\ "flagged" \in Status
  BY DEF Typed, JourneysTypeOK, Status
<1>4. /\ \A x \in Region : records'[x] = <<>> <=> records[x] = <<>>
      /\ \A x \in Region : x # r => records'[x] = records[x]
      /\ records[r] # <<>> => Head(records'[r]) = "flagged"
  BY <1>1, <1>3, StatusOfOldest
<1>5. Accepted' = Accepted /\ early' = early /\ after' = after /\ pc' = pc /\ left' = left
  BY <1>1 DEF Accepted, requestVars
<1>6. CommitIsLast'
  BY <1>1, <1>4, <1>5 DEF CommitIsLast
<1>7. \A x \in Region : Gone(x) => Gone(x)'
  BY <1>2, <1>4 DEF Gone
<1>8. CancelledFirst'
  BY <1>2, <1>5, <1>7 DEF CancelledFirst
<1>9. AfterAnswers' /\ SeenIsShown'
  BY <1>1 DEF AfterAnswers, SeenIsShown, requestVars
<1>10. FirstOnly'
  BY <1>2, <1>5 DEF FirstOnly
<1>11. QED
  BY <1>6, <1>8, <1>9, <1>10

(* A request that comes, asks, shows or is refused changes no copy.        *)
LEMMA AskingKeeps ==
    ASSUME Typed, Cancelling, NEW q \in Request,
           \/ Receive(q) \/ AskNext(q) \/ Show(q)
           \/ q \in Delete /\ Refuse(q)
    PROVE  Cancelling'
<1> USE DEF Cancelling
<1>1. /\ UNCHANGED <<regions, writing, committed, records, left, early>>
      /\ pc[q] \in {"new", "asking"}
  BY DEF Receive, AskNext, Show, Refuse, Ask, sagaVars
<1>2. faults \subseteq faults'
  BY FaultTypes DEF Receive, AskNext, Show, Refuse, Typed, JourneysTypeOK
<1>3. PICK place \in {"asking", "missing", "shown", "refused"} :
        /\ pc' = [pc EXCEPT ![q] = place]
        /\ place = "shown" \/ seen' = seen
        /\ \A g \in Get : g # q => seen'[g] = seen[g]
  <2>1. CASE Receive(q)
    BY <2>1 DEF Receive, Goto
  <2>2. CASE AskNext(q)
    BY <2>2 DEF AskNext, Goto, Ask, Typed, JourneysTypeOK
  <2>3. CASE Show(q)
    BY <2>3 DEF Show, Goto, Typed, JourneysTypeOK
  <2>4. CASE Refuse(q)
    BY <2>4 DEF Refuse, Goto
  <2>5. QED
    BY <2>1, <2>2, <2>3, <2>4
<1>4. /\ pc'[q] = place
      /\ \A d \in Request : d # q => pc'[d] = pc[d]
  BY <1>3 DEF Typed, JourneysTypeOK
<1>5. Accepted' = Accepted /\ q \notin Accepted
  BY <1>1, <1>4 DEF Accepted, Request
<1>6. after' = after \/ after' = [after EXCEPT ![q] = {d \in Delete : pc[d] = "cancelled"}]
  BY DEF Receive, AskNext, Show, Refuse
<1>7. \A e \in Request : e # q => after'[e] = after[e]
  BY <1>6 DEF Typed, JourneysTypeOK
<1>8. CommitIsLast'
  BY <1>1, <1>5 DEF CommitIsLast
<1>9. CancelledFirst'
  <2>1. \A x \in Region : Gone(x) => Gone(x)'
    BY <1>1, <1>2 DEF Gone
  <2>2. \A d \in Accepted : pc'[d] = pc[d] /\ d \in Request
    BY <1>4, <1>5 DEF Accepted, Request
  <2>3. QED
    BY <1>1, <1>2, <1>5, <2>1, <2>2 DEF CancelledFirst
<1>10. AfterAnswers'
  <2> SUFFICES ASSUME NEW p \in Request, NEW d \in after'[p] PROVE pc'[d] = "cancelled"
    BY DEF AfterAnswers
  <2>1. pc[d] = "cancelled" /\ d \in Delete
    <3>1. CASE after' = after
      BY <3>1 DEF AfterAnswers, Typed, JourneysTypeOK
    <3>2. CASE after' = [after EXCEPT ![q] = {c \in Delete : pc[c] = "cancelled"}]
      BY <3>2 DEF AfterAnswers, Typed, JourneysTypeOK
    <3>3. QED
      BY <1>6, <3>1, <3>2
  <2>2. d # q /\ d \in Request
    BY <1>1, <2>1 DEF Request
  <2>3. QED
    BY <1>4, <2>1, <2>2
<1>11. FirstOnly'
  <2>1. \A e \in Accepted : after'[e] = after[e]
    BY <1>5, <1>7 DEF Accepted, Request
  <2>2. QED
    BY <1>1, <1>2, <1>5, <2>1 DEF FirstOnly
<1>12. SeenIsShown'
  <2> SUFFICES ASSUME NEW g \in Get, seen'[g] # None PROVE pc'[g] = "shown"
    BY DEF SeenIsShown
  <2>1. g \in Request
    BY DEF Request
  <2>2. CASE g = q
    BY <1>1, <1>3, <1>4, <2>2 DEF SeenIsShown
  <2>3. CASE g # q
    BY <1>3, <1>4, <2>1, <2>3 DEF SeenIsShown
  <2>4. QED
    BY <2>2, <2>3
<1>13. QED
  BY <1>8, <1>9, <1>10, <1>11, <1>12

(* Once a cancellation was answered, only a copy that it could not cancel, *)
(* or a flag, lets another one pass.                                       *)
LEMMA AcceptingKeeps ==
    ASSUME Typed, Cancelling, NEW d \in Delete, Accept(d)
    PROVE  Cancelling'
<1> USE DEF Cancelling
<1>1. /\ UNCHANGED <<regions, writing, committed, records, seen, after, faults>>
      /\ pc[d] = "asking" /\ d \in Request
      /\ pc' = [pc EXCEPT ![d] = "cancelling"]
      /\ left' = [left EXCEPT ![d] = regions]
      /\ early' = IF committed THEN early ELSE early \cup {d}
  BY DEF Accept, Ask, Goto, RegionsToCancel, sagaVars, Request
<1>2. /\ pc'[d] = "cancelling" /\ left'[d] = regions
      /\ \A p \in Request : p # d => pc'[p] = pc[p] /\ left'[p] = left[p]
  BY <1>1 DEF Typed, JourneysTypeOK, Lists
<1>3. Accepted' = Accepted \cup {d} /\ early \subseteq early' /\ d \notin Accepted
  BY <1>1, <1>2 DEF Accepted, Request
<1>4. \A x \in Region : Gone(x)' <=> Gone(x)
  BY <1>1 DEF Gone
<1>5. CommitIsLast'
  BY <1>1, <1>3 DEF CommitIsLast
<1>6. CancelledFirst'
  <2> SUFFICES ASSUME ~Happened("write"), NEW e \in Accepted' \ early', NEW r \in Region
               PROVE  Gone(r)' \/ (pc'[e] = "cancelling" /\ r \in ToSet(left'[e]))
    BY <1>1 DEF CancelledFirst
  <2>1. CASE e = d
    <3>1. records[r] # <<>> => r \in ToSet(regions)
      BY DEF CommitIsLast
    <3>2. QED
      BY <1>1, <1>2, <2>1, <3>1 DEF Gone
  <2>2. CASE e # d
    <3>1. e \in Accepted \ early /\ e \in Request
      BY <1>3, <2>2 DEF Accepted, Request
    <3>2. QED
      BY <1>2, <1>4, <2>2, <3>1 DEF CancelledFirst
  <2>3. QED
    BY <2>1, <2>2
<1>7. AfterAnswers'
  <2> SUFFICES ASSUME NEW p \in Request, NEW e \in after[p] PROVE pc'[e] = "cancelled"
    BY <1>1 DEF AfterAnswers
  <2>1. pc[e] = "cancelled" /\ e \in Request
    BY DEF AfterAnswers, Typed, JourneysTypeOK, Request
  <2>2. QED
    BY <1>1, <1>2, <2>1
<1>8. FirstOnly'
  <2> SUFFICES ASSUME early' = {}, ~Happened("write"), ~Happened("flag"), NEW e \in Accepted'
               PROVE  after[e] = {}
    BY <1>1 DEF FirstOnly
  <2>1. early = {}
    BY <1>3
  <2>2. CASE e = d
    <3> SUFFICES ASSUME NEW x \in after[d] PROVE FALSE
      BY <2>2
    <3>1. x \in Delete /\ pc[x] = "cancelled"
      BY <1>1 DEF AfterAnswers, Typed, JourneysTypeOK
    <3>2. x \in Accepted \ early
      BY <2>1, <3>1 DEF Accepted
    <3>3. ~Happened("write") /\ ~Happened("flag")
      OBVIOUS
    <3>4. \A r \in Region : Gone(r)
      BY <3>1, <3>2, <3>3 DEF CancelledFirst
    <3>5. Head(unasked[d]) \in Region
      <4>1. unasked[d] \in Seq(Region) /\ unasked[d] # <<>>
        BY <1>1 DEF Typed, Lists
      <4>2. QED
        BY <4>1, MembersOfTail
    <3>6. Copy(d) # <<>> /\ Head(Copy(d)) # "cancelled"
      BY DEF Accept
    <3>7. Gone(Head(unasked[d]))
      BY <3>4, <3>5
    <3>8. QED
      BY <3>3, <3>6, <3>7 DEF Gone, Copy
  <2>3. CASE e # d
    BY <1>3, <2>1, <2>3 DEF FirstOnly
  <2>4. QED
    BY <2>2, <2>3
<1>9. SeenIsShown'
  <2> SUFFICES ASSUME NEW g \in Get, seen[g] # None PROVE pc'[g] = "shown"
    BY <1>1 DEF SeenIsShown
  <2>1. pc[g] = "shown" /\ g \in Request
    BY DEF SeenIsShown, Request
  <2>2. QED
    BY <1>1, <1>2, <2>1
<1>10. QED
  BY <1>5, <1>6, <1>7, <1>8, <1>9

(* What does not concern the copies stays when an accepted cancellation    *)
(* goes on.                                                                *)
LEMMA GoingOnKeeps ==
    ASSUME Typed, Cancelling, NEW d \in Delete, pc[d] \in {"cancelling", "releasing"},
           NEW place \in {"cancelling", "releasing", "cancelled"},
           pc' = [pc EXCEPT ![d] = place],
           UNCHANGED <<regions, writing, committed, seen, after, early>>,
           faults \subseteq faults',
           \A r \in Region : records'[r] = <<>> <=> records[r] = <<>>
    PROVE  /\ Accepted' = Accepted
           /\ CommitIsLast' /\ AfterAnswers' /\ FirstOnly' /\ SeenIsShown'
<1> USE DEF Cancelling
<1>1. /\ pc'[d] = place /\ d \in Request
      /\ \A p \in Request : p # d => pc'[p] = pc[p]
  BY DEF Typed, JourneysTypeOK, Request
<1>2. Accepted' = Accepted
  BY <1>1 DEF Accepted, Request
<1>3. CommitIsLast'
  BY <1>2 DEF CommitIsLast
<1>4. AfterAnswers'
  <2> SUFFICES ASSUME NEW p \in Request, NEW e \in after[p] PROVE pc'[e] = "cancelled"
    BY DEF AfterAnswers
  <2>1. pc[e] = "cancelled" /\ e \in Request
    BY DEF AfterAnswers, Typed, JourneysTypeOK, Request
  <2>2. QED
    BY <1>1, <2>1
<1>5. FirstOnly'
  BY <1>2 DEF FirstOnly
<1>6. SeenIsShown'
  <2> SUFFICES ASSUME NEW g \in Get, seen[g] # None PROVE pc'[g] = "shown"
    BY DEF SeenIsShown
  <2>1. pc[g] = "shown" /\ g \in Request
    BY DEF SeenIsShown, Request
  <2>2. QED
    BY <1>1, <2>1
<1>7. QED
  BY <1>2, <1>3, <1>4, <1>5, <1>6

(* The oldest copy of a region is cancelled, whatever it was.              *)
LEMMA CancellingKeeps ==
    ASSUME Typed, Cancelling, NEW d \in Delete, CancelCopy(d)
    PROVE  Cancelling'
<1> DEFINE h == Head(left[d])
<1> USE DEF Cancelling
<1>1. /\ pc[d] = "cancelling" /\ pc' = [pc EXCEPT ![d] = "cancelling"] /\ pc' = pc
      /\ left' = [left EXCEPT ![d] = Tail(left[d])] /\ left[d] # <<>>
      /\ UNCHANGED <<regions, writing, committed, seen, after, early>>
      /\ d \in Request
  BY DEF CancelCopy, Typed, JourneysTypeOK, Request, sagaVars
<1>2. left[d] \in Seq(Region) /\ h \in Region /\ ToSet(left[d]) = {h} \cup ToSet(Tail(left[d]))
  <2>1. left[d] \in Seq(Region)
    BY <1>1 DEF Typed, Lists
  <2>2. QED
    BY <1>1, <2>1, MembersOfTail
<1>3. records \in [Region -> Seq(Status)] /\ "cancelled" \in Status
  BY DEF Typed, JourneysTypeOK, Status
<1>4. faults \subseteq faults'
  BY FaultTypes DEF CancelCopy, Typed, JourneysTypeOK
<1> DEFINE cancelled == SetStatus(h, "cancelled")
<1> HIDE DEF h
<1>5. /\ \A x \in Region : cancelled[x] = <<>> <=> records[x] = <<>>
      /\ \A x \in Region : x # h => cancelled[x] = records[x]
      /\ records[h] # <<>> => Head(cancelled[h]) = "cancelled"
  BY <1>2, <1>3, StatusOfOldest
<1>6. records' = cancelled \/ (records' = records /\ Fault("write"))
  BY DEF CancelCopy, h
<1> HIDE DEF cancelled
<1>7. \A r \in Region : records'[r] = <<>> <=> records[r] = <<>>
  BY <1>5, <1>6
<1>8. /\ Accepted' = Accepted
      /\ CommitIsLast' /\ AfterAnswers' /\ FirstOnly' /\ SeenIsShown'
  BY <1>1, <1>4, <1>7, GoingOnKeeps
<1>9. CancelledFirst'
  <2> SUFFICES ASSUME ~Happened("write")', NEW e \in Accepted \ early, NEW r \in Region
               PROVE  Gone(r)' \/ (pc[e] = "cancelling" /\ r \in ToSet(left'[e]))
    BY <1>1, <1>8 DEF CancelledFirst
  <2>1. records' = cancelled /\ ~Happened("write")
    BY <1>4, <1>6, FaultTypes DEF Typed, JourneysTypeOK
  <2>2. /\ \A x \in Region : x # h => records'[x] = records[x]
        /\ records[h] # <<>> => Head(records'[h]) = "cancelled"
        /\ records'[h] = <<>> <=> records[h] = <<>>
    BY <1>2, <1>5, <2>1
  <2>3. CASE r = h
    BY <2>2, <2>3 DEF Gone
  <2>4. CASE r # h
    <3>1. Gone(r) \/ (pc[e] = "cancelling" /\ r \in ToSet(left[e]))
      BY <2>1 DEF CancelledFirst
    <3>2. Gone(r) => Gone(r)'
      BY <1>4, <2>2, <2>4 DEF Gone
    <3>3. e \in Request
      BY DEF Accepted, Request
    <3>4. r \in ToSet(left[e]) => r \in ToSet(left'[e])
      <4>1. CASE e = d
        <5>1. left'[d] = Tail(left[d])
          BY <1>1 DEF Typed, Lists
        <5>2. QED
          BY <1>2, <2>4, <4>1, <5>1
      <4>2. CASE e # d
        <5>1. left'[e] = left[e]
          BY <1>1, <3>3, <4>2 DEF Typed, Lists
        <5>2. QED
          BY <5>1
      <4>3. QED
        BY <4>1, <4>2
    <3>5. QED
      BY <3>1, <3>2, <3>4
  <2>5. QED
    BY <2>3, <2>4
<1>10. QED
  BY <1>8, <1>9

(* Places are given back when every copy has been cancelled.               *)
LEMMA ReleasingKeeps ==
    ASSUME Typed, Cancelling, NEW d \in Delete,
           ReadSaga(d) \/ SendRelease(d) \/ ReleaseFails(d) \/ Answer(d)
    PROVE  Cancelling'
<1> USE DEF Cancelling
<1>1. PICK place \in {"releasing", "cancelled"} :
        /\ pc[d] = "releasing" \/ (pc[d] = "cancelling" /\ left[d] = <<>>)
        /\ pc' = [pc EXCEPT ![d] = place]
        /\ UNCHANGED <<regions, writing, committed, records, seen, after, early>>
        /\ \E l : left' = [left EXCEPT ![d] = l]
  <2>1. CASE ReadSaga(d)
    BY <2>1 DEF ReadSaga, Goto, sagaVars
  <2>2. CASE SendRelease(d)
    BY <2>2 DEF SendRelease, sagaVars, Typed, JourneysTypeOK
  <2>3. CASE ReleaseFails(d)
    BY <2>3 DEF ReleaseFails, Goto, sagaVars
  <2>4. CASE Answer(d)
    <3>1. left' = [left EXCEPT ![d] = left[d]]
      BY <2>4 DEF Answer, Typed, Lists
    <3>2. QED
      BY <2>4, <3>1 DEF Answer, Goto, sagaVars
  <2>5. QED
    BY <2>1, <2>2, <2>3, <2>4
<1>2. faults \subseteq faults'
  BY FaultTypes DEF ReadSaga, SendRelease, ReleaseFails, Answer, Typed, JourneysTypeOK
<1>3. /\ Accepted' = Accepted
      /\ CommitIsLast' /\ AfterAnswers' /\ FirstOnly' /\ SeenIsShown'
  BY <1>1, <1>2, GoingOnKeeps
<1>4. \A x \in Region : Gone(x) => Gone(x)'
  BY <1>1, <1>2 DEF Gone
<1>5. CancelledFirst'
  <2> SUFFICES ASSUME ~Happened("write")', NEW e \in Accepted \ early, NEW r \in Region
               PROVE  Gone(r)' \/ (pc'[e] = "cancelling" /\ r \in ToSet(left'[e]))
    BY <1>1, <1>3 DEF CancelledFirst
  <2>1. Gone(r) \/ (pc[e] = "cancelling" /\ r \in ToSet(left[e]))
    BY <1>2 DEF CancelledFirst
  <2>2. e \in Request
    BY DEF Accepted, Request
  <2>3. CASE e = d
    <3>1. ToSet(<<>>) = {}
      BY EmptySeq, LenProperties DEF ToSet
    <3>2. Gone(r)
      BY <1>1, <2>1, <2>3, <3>1
    <3>3. QED
      BY <1>4, <3>2
  <2>4. CASE e # d
    <3>1. pc'[e] = pc[e] /\ left'[e] = left[e]
      BY <1>1, <2>2, <2>4 DEF Typed, JourneysTypeOK, Lists
    <3>2. QED
      BY <1>4, <2>1, <3>1
  <2>5. QED
    BY <2>3, <2>4
<1>6. QED
  BY <1>3, <1>5

----------------------------------------------------------------------------
(* The results *)

JourneysInv == Typed /\ Cancelling

(* At first nothing was accepted, asked or answered.                       *)
LEMMA InitKeeps == Init => JourneysInv
<1> SUFFICES ASSUME Init PROVE JourneysInv
  OBVIOUS
<1>1. Typed
  BY InitTypes
<1>2. Accepted = {} /\ early = {} /\ committed = FALSE
  BY DEF Init, Accepted, Request
<1>3. \A r \in Region : records[r] = <<>>
  BY DEF Init
<1>4. CommitIsLast /\ CancelledFirst /\ FirstOnly
  BY <1>2, <1>3 DEF CommitIsLast, CancelledFirst, FirstOnly
<1>5. AfterAnswers /\ SeenIsShown
  BY DEF Init, AfterAnswers, SeenIsShown
<1>6. QED
  BY <1>1, <1>4, <1>5 DEF JourneysInv, Cancelling

(* Every step keeps the invariant.                                         *)
LEMMA StepKeeps == JourneysInv /\ [Next]_vars => JourneysInv'
<1> SUFFICES ASSUME Typed, Cancelling, [Next]_vars PROVE Cancelling'
  BY StepTypes DEF JourneysInv
<1>1. CASE WriteCopy \/ RepeatInsert \/ Commit \/ Replay
  BY <1>1, WritingKeeps
<1>2. ASSUME NEW q \in Request, Receive(q) \/ AskNext(q) \/ Show(q) PROVE Cancelling'
  BY <1>2, AskingKeeps
<1>3. ASSUME NEW d \in Delete, Cancel(d) \/ ReleaseFails(d) PROVE Cancelling'
  <2>1. d \in Request
    BY DEF Request
  <2>2. QED
    BY <1>3, <2>1, AskingKeeps, AcceptingKeeps, CancellingKeeps, ReleasingKeeps DEF Cancel
<1>4. ASSUME NEW r \in Region, Flag(r) PROVE Cancelling'
  BY <1>4, FlaggingKeeps
<1>5. CASE UNCHANGED vars
  BY <1>5 DEF vars, sagaVars, requestVars, Cancelling, CommitIsLast, CancelledFirst, Gone,
              AfterAnswers, FirstOnly, SeenIsShown, Accepted
<1>6. QED
  BY <1>1, <1>2, <1>3, <1>4, <1>5 DEF Next

(* A region released has no copy that counts as approved.                  *)
LEMMA ReleasedAreGone ==
    ASSUME JourneysInv, early = {}, ~Happened("write"), NEW r \in Region, given[r] > 0
    PROVE  Gone(r)
<1>1. given[r] <= Cardinality(Released(r)) /\ given[r] \in Nat
  BY DEF JourneysInv, Typed, GivenByDeletes, JourneysTypeOK
<1>2. Released(r) # {}
  <2> SUFFICES ASSUME Released(r) = {} PROVE FALSE
    OBVIOUS
  <2>1. Cardinality(Released(r)) = 0
    BY FS_EmptySet
  <2>2. QED
    BY <1>1, <2>1
<1>3. PICK d \in Released(r) : TRUE
  BY <1>2
<1>4. d \in Accepted \ early /\ pc[d] # "cancelling"
  BY <1>3 DEF Released, Accepted
<1>5. QED
  BY <1>4 DEF JourneysInv, Cancelling, CancelledFirst

(* Of a list whose first member is not such, all but one may be.           *)
LEMMA NotTheFirst ==
    ASSUME NEW n \in Nat, NEW m \in Nat, n <= 1 + m,
           NEW S, S \subseteq 1 .. n, n # 0 => 1 \notin S
    PROVE  Cardinality(S) <= m
<1>1. CASE n = 0
  <2>1. S = {}
    BY <1>1
  <2>2. QED
    BY <2>1, FS_EmptySet
<1>2. CASE n # 0
  <2>1. S \subseteq 2 .. n
    BY <1>2
  <2>2. IsFiniteSet(2 .. n) /\ Cardinality(2 .. n) = n - 1
    <3>1. n \in Int /\ 2 \in Int
      OBVIOUS
    <3>2. IsFiniteSet(2 .. n) /\ Cardinality(2 .. n) = IF 2 > n THEN 0 ELSE n - 2 + 1
      BY <3>1, FS_Interval
    <3>3. (IF 2 > n THEN 0 ELSE n - 2 + 1) = n - 1
      BY <1>2
    <3>4. QED
      BY <3>2, <3>3
  <2>3. IsFiniteSet(S) /\ Cardinality(S) <= Cardinality(2 .. n)
    BY <2>1, <2>2, FS_Subset
  <2>4. Cardinality(S) \in Nat
    BY <2>3, FS_CardinalityType
  <2>5. n - 1 <= m
    OBVIOUS
  <2>6. Cardinality(2 .. n) = n - 1
    BY <2>2
  <2>7. Cardinality(S) <= n - 1
    BY <2>3, <2>6
  <2> DEFINE c == Cardinality(S)
  <2>8. c \in Nat /\ c <= n - 1
    BY <2>4, <2>7
  <2> HIDE DEF c
  <2>9. c <= m
    BY <2>5, <2>8
  <2>10. QED
    BY <2>9 DEF c
<1>3. QED
  BY <1>1, <1>2

(* Of the copies of a region whose places were given back, none counts as  *)
(* approved but as many as replayed commits and repeated inserts left      *)
(* behind the first, unless a DELETE overtook the commit or a copy could   *)
(* not be cancelled.                                                       *)
THEOREM PlacesFollowCopies == Spec => []GivenBackWhenCancelled
<1>1. Init => JourneysInv
  BY InitKeeps
<1>2. JourneysInv /\ [Next]_vars => JourneysInv'
  BY StepKeeps
<1>3. JourneysInv => GivenBackWhenCancelled
  <2> SUFFICES ASSUME JourneysInv, early = {}, ~Happened("write"), NEW r \in Region, given[r] > 0
               PROVE  Cardinality(Approved(r)) <= Surplus
    BY DEF GivenBackWhenCancelled
  <2>1. Gone(r)
    BY ReleasedAreGone
  <2>2. /\ records[r] \in Seq(Status) /\ Len(records[r]) <= 1 + Surplus
        /\ Len(records[r]) \in Nat /\ Surplus \in Nat
    BY SurplusCounts, LenProperties DEF JourneysInv, Typed, JourneysTypeOK, Status
  <2>3. Approved(r) \subseteq 1 .. Len(records[r])
    BY DEF Approved
  <2>4. Len(records[r]) # 0 => 1 \notin Approved(r)
    <3> SUFFICES ASSUME Len(records[r]) # 0 PROVE records[r][1] # "approved"
      BY DEF Approved
    <3>1. records[r] # <<>>
      BY EmptySeq
    <3>2. Head(records[r]) = records[r][1]
      BY <2>2, <3>1, TailOfList
    <3>3. QED
      BY <2>1, <3>1, <3>2 DEF Gone
  <2>5. QED
    BY <2>2, <2>3, <2>4, NotTheFirst
<1>4. QED
  BY <1>1, <1>2, <1>3, PTL DEF Spec

(* Two cancellations of which neither came before the other's answer are   *)
(* not OneByOne; of two that did, the second is refused.                   *)
LEMMA OneReleases ==
    ASSUME JourneysInv, OneByOne, early = {}, ~Happened("write"), ~Happened("flag"),
           NEW r \in Region
    PROVE  Cardinality(Released(r)) <= 1
<1>1. \A d \in Accepted : after[d] = {}
  BY DEF JourneysInv, Cancelling, FirstOnly
<1>2. \A d, e \in Released(r) : d = e
  BY <1>1 DEF OneByOne, Released, Accepted
<1>3. CASE Released(r) = {}
  <2>1. Cardinality(Released(r)) = 0
    BY <1>3, FS_EmptySet
  <2>2. QED
    BY <2>1
<1>4. CASE Released(r) # {}
  <2>1. PICK d \in Released(r) : TRUE
    BY <1>4
  <2>2. Released(r) = {d}
    BY <1>2, <2>1
  <2>3. Cardinality({d}) = 1
    BY FS_Singleton
  <2>4. QED
    BY <2>2, <2>3
<1>5. QED
  BY <1>3, <1>4

(* The places of a region are given back at most once, however many        *)
(* DELETEs there are, in whatever order the regions are asked and          *)
(* whichever does not answer, as long as they come one by one after the    *)
(* commit, every copy can be cancelled, and no flag lies over a cancelled  *)
(* one.                                                                    *)
THEOREM PlacesAreGivenBackOnce == Spec => []GivenBackOnce
<1>1. Init => JourneysInv
  BY InitKeeps
<1>2. JourneysInv /\ [Next]_vars => JourneysInv'
  BY StepKeeps
<1>3. JourneysInv => GivenBackOnce
  <2> SUFFICES ASSUME JourneysInv, OneByOne, early = {}, ~Happened("write"), ~Happened("flag"),
                      NEW r \in Region
               PROVE  given[r] <= 1
    BY DEF GivenBackOnce
  <2>1. given[r] <= Cardinality(Released(r)) /\ given[r] \in Nat
    BY DEF JourneysInv, Typed, GivenByDeletes, JourneysTypeOK
  <2>2. Cardinality(Released(r)) \in Nat
    BY DeletesAreCounted DEF Released
  <2>3. QED
    BY <2>1, <2>2, OneReleases
<1>4. QED
  BY <1>1, <1>2, <1>3, PTL DEF Spec

(* A cancellation that was answered before has cancelled every copy that   *)
(* is shown.                                                               *)
LEMMA ShownIsGone ==
    ASSUME JourneysInv, NEW q \in Get, Show(q), NEW d \in after[q] \ early, ~Happened("write")
    PROVE  seen'[q] # "approved"
<1>1. d \in Accepted \ early /\ pc[d] = "cancelled" /\ q \in Request
  BY DEF JourneysInv, Typed, JourneysTypeOK, Cancelling, AfterAnswers, Accepted, Request
<1>2. \A r \in Region : Gone(r)
  BY <1>1 DEF JourneysInv, Cancelling, CancelledFirst
<1>3. Head(unasked[q]) \in Region
  <2>1. unasked[q] \in Seq(Region) /\ unasked[q] # <<>>
    BY <1>1 DEF JourneysInv, Typed, Lists, Show, Ask
  <2>2. QED
    BY <2>1, MembersOfTail
<1>4. Gone(Head(unasked[q]))
  BY <1>2, <1>3
<1>5. seen'[q] = Head(Copy(q)) /\ Copy(q) # <<>>
  BY DEF Show, JourneysInv, Typed, JourneysTypeOK
<1>6. QED
  BY <1>4, <1>5 DEF Gone, Copy

(* A request sees nothing before it shows it, and then nothing approved    *)
(* that was cancelled before it came.                                      *)
LEMMA SeenKeeps == JourneysInv /\ CancellationIsSeen /\ [Next]_vars => CancellationIsSeen'
<1> SUFFICES ASSUME JourneysInv, CancellationIsSeen, [Next]_vars, NEW q \in Get,
                    NEW d \in after'[q] \ early', ~Happened("write")'
             PROVE  seen'[q] # "approved"
  BY DEF CancellationIsSeen
<1>1. early \subseteq early' /\ faults \subseteq faults'
  BY FaultTypes DEF Next, WriteCopy, RepeatInsert, Commit, Replay, Receive, AskNext, Show,
     Cancel, Refuse, Accept, CancelCopy, ReadSaga, SendRelease, Answer, ReleaseFails, Flag,
     vars, requestVars, JourneysInv, Typed, JourneysTypeOK
<1>2. d \notin early /\ ~Happened("write") /\ q \in Request
  BY <1>1 DEF Request
<1>3. CASE Show(q)
  <2>1. after' = after
    BY <1>3 DEF Show
  <2>2. QED
    BY <1>2, <1>3, <2>1, ShownIsGone
<1>4. CASE Receive(q)
  <2>1. seen' = seen /\ pc[q] = "new"
    BY <1>4 DEF Receive
  <2>2. seen[q] = None
    BY <2>1 DEF JourneysInv, Cancelling, SeenIsShown
  <2>3. QED
    BY <2>1, <2>2
<1>5. CASE ~Show(q) /\ ~Receive(q)
  <2>1. seen'[q] = seen[q] /\ after'[q] = after[q]
    <3>1. ASSUME NEW p \in Request, Receive(p) \/ AskNext(p) \/ Show(p)
          PROVE  seen'[q] = seen[q] /\ after'[q] = after[q]
      BY <1>2, <1>5, <3>1 DEF Receive, AskNext, Show, JourneysInv, Typed, JourneysTypeOK
    <3>2. ASSUME NEW e \in Delete, Cancel(e) \/ ReleaseFails(e)
          PROVE  seen' = seen /\ after' = after
      BY <3>2 DEF Cancel, Refuse, Accept, CancelCopy, ReadSaga, SendRelease, Answer, ReleaseFails
    <3>3. CASE \/ WriteCopy \/ RepeatInsert \/ Commit \/ Replay \/ UNCHANGED vars
               \/ \E r \in Region : Flag(r)
      BY <3>3 DEF WriteCopy, RepeatInsert, Commit, Replay, Flag, vars, requestVars
    <3>4. QED
      BY <3>1, <3>2, <3>3 DEF Next
  <2>2. QED
    BY <1>2, <2>1 DEF CancellationIsSeen
<1>6. QED
  BY <1>3, <1>4, <1>5

(* A driver whose DELETE was answered never sees the booking approved      *)
(* again, whichever region answers first and whichever are passed over,    *)
(* unless the DELETE overtook the commit or a copy could not be cancelled. *)
THEOREM CancellationsAreSeen == Spec => []CancellationIsSeen
<1>1. Init => JourneysInv /\ CancellationIsSeen
  BY InitKeeps DEF Init, CancellationIsSeen, Request
<1>2. JourneysInv /\ CancellationIsSeen /\ [Next]_vars =>
        (JourneysInv /\ CancellationIsSeen)'
  BY StepKeeps, SeenKeeps
<1>3. QED
  BY <1>1, <1>2, PTL DEF Spec
=============================================================================
