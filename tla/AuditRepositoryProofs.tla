----------------------- MODULE AuditRepositoryProofs -----------------------
(***************************************************************************)
(* Theorems about AuditRepository, for any number of appenders and of      *)
(* callers, any entries and sizes, any page length and any limits.         *)
(*                                                                         *)
(* Facts that would be proved by induction are proved by looking at the    *)
(* least counterexample, which exists by LeastNumber.                      *)
(***************************************************************************)
EXTENDS AuditRepository, FiniteSetTheorems, TLAPS

\* A set of natural numbers has a least one.
LEMMA LeastNumber ==
    ASSUME NEW S, S \subseteq Nat, S # {}
    PROVE  \E m \in S : \A k \in S : m <= k
<1> DEFINE R == {p \in Nat \X Nat : p[1] < p[2]}
<1>1. IsWellFoundedOn(R, Nat)
  BY NatLessThanWellFounded DEF OpToRel
<1> HIDE DEF R
<1>2. PICK m \in S : \A k \in S : ~(<<k, m>> \in R)
  BY <1>1, WFMin
<1>3. ASSUME NEW k \in S PROVE m <= k
  <2>1. <<k, m>> \notin R /\ k \in Nat /\ m \in Nat
    BY <1>2
  <2>2. ~(k < m)
    BY <2>1 DEF R
  <2> QED BY <2>1, <2>2
<1> QED BY <1>3

\* A finite set of natural numbers has a greatest one.
LEMMA MaxOfFinite ==
    ASSUME NEW S, S \subseteq Nat, S # {}, IsFiniteSet(S)
    PROVE  Max(S) \in S /\ \A x \in S : Max(S) >= x
<1> DEFINE HasMax(T) == \E x \in T : \A y \in T : x >= y
           Bad == {k \in Nat : \E T \in SUBSET S : T # {} /\ Cardinality(T) = k /\ ~HasMax(T)}
<1>1. HasMax(S)
  <2> SUFFICES ASSUME ~HasMax(S) PROVE FALSE
    OBVIOUS
  <2>1. Cardinality(S) \in Bad
    BY FS_CardinalityType
  <2>2. PICK k \in Bad : \A j \in Bad : k <= j
    <3> HIDE DEF Bad
    <3>1. Bad \subseteq Nat
      BY DEF Bad
    <3> QED BY <2>1, <3>1, LeastNumber
  <2>3. PICK T \in SUBSET S : T # {} /\ Cardinality(T) = k /\ ~HasMax(T)
    BY <2>2
  <2>4. PICK x \in T : TRUE
    BY <2>3
  <2>5. IsFiniteSet(T)
    BY FS_Subset
  <2>6. Cardinality(T \ {x}) = k - 1 /\ k - 1 \in Nat
      <3>1. IsFiniteSet(T \ {x}) /\ Cardinality(T \ {x}) = Cardinality(T) - 1
      BY <2>4, <2>5, FS_RemoveElement
    <3>2. Cardinality(T \ {x}) \in Nat
      BY <3>1, FS_CardinalityType
    <3> QED BY <3>1, <3>2, <2>3
  <2>7. CASE T \ {x} = {}
    BY <2>3, <2>7
  <2>8. CASE T \ {x} # {}
    <3>1. HasMax(T \ {x})
      <4>1. k - 1 \notin Bad
        BY <2>2, <2>6
      <4> QED BY <4>1, <2>6, <2>8
    <3>2. PICK y \in T \ {x} : \A z \in T \ {x} : y >= z
      BY <3>1
    <3>3. x \in Nat /\ y \in Nat /\ T \subseteq Nat
      OBVIOUS
    <3>4. CASE x >= y
      <4>1. \A z \in T : x >= z
        BY <3>2, <3>3, <3>4
      <4> QED BY <4>1, <2>3
    <3>5. CASE y >= x
      <4>1. \A z \in T : y >= z
        BY <3>2, <3>3, <3>5
      <4> QED BY <4>1, <2>3
    <3> QED BY <3>3, <3>4, <3>5
  <2> QED BY <2>7, <2>8
<1> QED BY <1>1 DEF Max
-----------------------------------------------------------------------------
\* The listings.

\* Every reader finds one of the three statuses, and the same one.
LEMMA ReadsAStatus ==
    ASSUME NEW reader \in Readers, NEW e \in Entries
    PROVE  /\ ReadStatus(reader, e) \in Status
           /\ \A other \in Readers : ReadStatus(other, e) = ReadStatus(reader, e)
<1>1. \A r \in Readers : DefaultStatus[r] = "matched"
  BY DEF Readers, DefaultStatus
<1>2. e.status \in Status \cup {""}
  BY EntryAssumption
<1> QED BY <1>1, <1>2 DEF ReadStatus, Status

LEMMA ReadersNamed ==
    {"Recent", "ListPaginated", "CountRecognizeEntries", "ComputeRecognizeSummary",
     "ListRecognizeCount", "ListRecognizePage", "ListUnmatched", "ComputeStats"}
       \subseteq Readers
  BY DEF Readers, DefaultStatus

\* What is counted for a listing is what is on its pages.
LEMMA TotalIsListed ==
    ASSUME NEW listing, NEW l \in Seq(Entries)
    PROVE  Total(listing, l) = Cardinality(ListedIn(listing, l))
<1>1. CASE listing = "recognized"
  <2>1. \A i \in DOMAIN l :
           ReadStatus("ListRecognizeCount", l[i]) = ReadStatus("ListRecognizePage", l[i])
    BY ReadsAStatus, ReadersNamed
  <2>2. {i \in DOMAIN l : Recognized("ListRecognizeCount", l[i])}
           = {i \in DOMAIN l : Recognized("ListRecognizePage", l[i])}
    BY <2>1 DEF Recognized
  <2>3. ListedIn(listing, l) = {i \in DOMAIN l : Recognized("ListRecognizePage", l[i])}
    BY <1>1 DEF ListedIn, Listed, PageReader
  <2> QED BY <1>1, <2>2, <2>3 DEF Total
<1>2. CASE listing # "recognized"
  BY <1>2 DEF Total
<1> QED BY <1>1, <1>2

\* A listing is a finite part of the log.
LEMMA ListingFinite ==
    ASSUME NEW listing, NEW l \in Seq(Entries)
    PROVE  /\ ListedIn(listing, l) \subseteq 1..Len(l)
           /\ IsFiniteSet(ListedIn(listing, l))
           /\ Cardinality(ListedIn(listing, l)) \in 0..Len(l)
<1>1. ListedIn(listing, l) \subseteq 1..Len(l)
  BY DEF ListedIn
<1>2. IsFiniteSet(1..Len(l)) /\ Cardinality(1..Len(l)) = Len(l)
  <2>1. Len(l) \in Nat
    OBVIOUS
  <2> QED BY <2>1, FS_Interval
<1>3. IsFiniteSet(ListedIn(listing, l)) /\ Cardinality(ListedIn(listing, l)) <= Len(l)
  BY <1>1, <1>2, FS_Subset
<1> QED BY <1>1, <1>3, FS_CardinalityType

\* m is l with entries appended to it.
Grown(l, m) == Len(l) <= Len(m) /\ \A i \in 1..Len(l) : m[i] = l[i]

\* An append.
LEMMA AppendGrows ==
    ASSUME NEW l \in Seq(Entries), NEW e \in Entries
    PROVE  Append(l, e) \in Seq(Entries) /\ Grown(l, Append(l, e))
  BY DEF Grown

\* An entry that is listed stays listed, and so does one that is not.
LEMMA ListingGrows ==
    ASSUME NEW listing, NEW l \in Seq(Entries), NEW m \in Seq(Entries), Grown(l, m)
    PROVE  /\ ListedIn(listing, l) = {i \in ListedIn(listing, m) : i <= Len(l)}
           /\ Cardinality(ListedIn(listing, l)) <= Cardinality(ListedIn(listing, m))
<1>1. ListedIn(listing, l) = {i \in ListedIn(listing, m) : i <= Len(l)}
  BY DEF ListedIn, Grown
<1>2. Cardinality(ListedIn(listing, l)) <= Cardinality(ListedIn(listing, m))
  BY <1>1, ListingFinite, FS_Subset
<1> QED BY <1>1, <1>2

\* The rank of an entry lies between 1, for the newest, and the length of the
\* listing; entries that are newer have smaller ranks.
LEMMA RankRange ==
    ASSUME NEW listing, NEW l \in Seq(Entries), NEW i \in ListedIn(listing, l)
    PROVE  Rank(listing, l, i) \in 1..Cardinality(ListedIn(listing, l))
<1> DEFINE L == ListedIn(listing, l)
           T == {j \in L : j >= i}
<1>1. IsFiniteSet(L) /\ L \subseteq 1..Len(l)
  BY ListingFinite
<1>2. IsFiniteSet(T) /\ Cardinality(T) <= Cardinality(L)
  BY <1>1, FS_Subset
<1>3. i \in T
  BY <1>1
<1>4. Cardinality(T) # 0
  BY <1>2, <1>3, FS_EmptySet
<1> QED BY <1>1, <1>2, <1>4, FS_CardinalityType DEF Rank

LEMMA RankDecreases ==
    ASSUME NEW listing, NEW l \in Seq(Entries),
           NEW i \in ListedIn(listing, l), NEW j \in ListedIn(listing, l), i < j
    PROVE  Rank(listing, l, j) < Rank(listing, l, i)
<1> DEFINE L == ListedIn(listing, l)
           T == {k \in L : k >= i}
           U == {k \in L : k >= j}
<1>1. IsFiniteSet(L) /\ L \subseteq 1..Len(l)
  BY ListingFinite
<1>2. IsFiniteSet(T)
  BY <1>1, FS_Subset
<1>3. U \in SUBSET T /\ U # T
  <2>1. i \in T /\ i \notin U
    BY <1>1
  <2>2. \A k \in U : k \in T
    BY <1>1
  <2> QED BY <2>1, <2>2
<1>4. Cardinality(U) <= Cardinality(T) /\ Cardinality(U) # Cardinality(T)
  BY <1>2, <1>3, FS_Subset
<1>5. Cardinality(U) \in Nat /\ Cardinality(T) \in Nat
  BY <1>2, <1>3, FS_Subset, FS_CardinalityType
<1> QED BY <1>4, <1>5 DEF Rank

\* An append takes no entry further to the front of the listing.
LEMMA RankGrows ==
    ASSUME NEW listing, NEW l \in Seq(Entries), NEW m \in Seq(Entries), Grown(l, m),
           NEW i \in ListedIn(listing, l)
    PROVE  i \in ListedIn(listing, m) /\ Rank(listing, l, i) <= Rank(listing, m, i)
<1> DEFINE T == {j \in ListedIn(listing, l) : j >= i}
           U == {j \in ListedIn(listing, m) : j >= i}
<1>1. ListedIn(listing, l) \subseteq ListedIn(listing, m)
  BY ListingGrows
<1>2. IsFiniteSet(U)
  BY ListingFinite, FS_Subset
<1>3. T \in SUBSET U
  BY <1>1
<1> QED BY <1>1, <1>2, <1>3, FS_Subset DEF Rank

\* Entries with ranks in a+1..b are b - a at most.
LEMMA RanksCount ==
    ASSUME NEW listing, NEW l \in Seq(Entries), NEW T, T \subseteq ListedIn(listing, l),
           NEW a \in Nat, NEW b \in Nat,
           \A i \in T : Rank(listing, l, i) \in a + 1 .. b
    PROVE  /\ IsFiniteSet(T) /\ Cardinality(T) \in Nat
           /\ T # {} => Cardinality(T) <= b - a
<1> DEFINE f == [i \in T |-> Rank(listing, l, i)]
<1>1. f \in Injection(T, a + 1 .. b)
  <2>1. f \in [T -> a + 1 .. b]
    OBVIOUS
  <2>2. ASSUME NEW i \in T, NEW j \in T, f[i] = f[j] PROVE i = j
    <3>1. ~(i < j) /\ ~(j < i)
      <4>1. Rank(listing, l, i) = Rank(listing, l, j) /\ Rank(listing, l, i) \in Int
        BY <2>2
      <4> QED BY <4>1, RankDecreases
    <3>2. i \in Int /\ j \in Int
      BY ListingFinite
    <3> QED BY <3>1, <3>2
  <2> QED BY <2>1, <2>2 DEF Injection, IsInjective
<1>2. IsFiniteSet(a + 1 .. b) /\ Cardinality(a + 1 .. b) = IF a + 1 > b THEN 0 ELSE b - a
  BY FS_Interval
<1>3. IsFiniteSet(T) /\ Cardinality(T) <= Cardinality(a + 1 .. b)
  BY <1>1, <1>2, FS_Injection
<1>4. ASSUME T # {} PROVE Cardinality(T) <= b - a
  <2>1. a + 1 <= b
    BY <1>4
  <2> QED BY <2>1, <1>2, <1>3
<1> QED BY <1>3, <1>4, FS_CardinalityType

\* A page is no longer than PerPage.
LEMMA PageLength ==
    ASSUME NEW listing, NEW l \in Seq(Entries), NEW p \in Nat \ {0}
    PROVE  /\ OnPage(listing, l, p) \subseteq ListedIn(listing, l)
           /\ Cardinality(OnPage(listing, l, p)) <= PerPage
<1> DEFINE T == OnPage(listing, l, p)
           a == (p - 1) * PerPage
           b == p * PerPage
<1>1. a \in Nat /\ b \in Nat /\ b - a = PerPage /\ PerPage \in Nat
  BY AuditRepositoryAssumption
<1>2. T \subseteq ListedIn(listing, l)
  BY DEF OnPage
<1>3. \A i \in T : Rank(listing, l, i) \in Int /\ Rank(listing, l, i) <= b /\ Rank(listing, l, i) > a
  BY RankRange DEF OnPage
<1> HIDE DEF a, b, T
<1>4. \A i \in T : Rank(listing, l, i) \in a + 1 .. b
  BY <1>1, <1>3
<1>5. T # {} => Cardinality(T) <= PerPage
  BY <1>1, <1>2, <1>4, RanksCount
<1>6. Cardinality({}) = 0
  BY FS_EmptySet
<1> QED BY <1>1, <1>2, <1>5, <1>6 DEF T
-----------------------------------------------------------------------------
\* The walk through a listing.

WalkType == [listing : {"all", "filtered", "recognized"}, page : Nat \ {0}, total : Nat,
             rows : SUBSET Nat, first : Nat, shown : SUBSET Nat, late : Nat]

\* What was listed when the walk began and has not been shown yet.
Unshown == {i \in ListedIn(walk.listing, log) : i <= walk.first} \ walk.shown

\* The number of pages that have been collected.
Collections == IF pc \in {"answered", "done"} THEN walk.page ELSE walk.page - 1

CountsOK ==
    /\ walk.total <= Cardinality(ListedIn(walk.listing, log))
    /\ walk.late <= Cardinality(ListedIn(walk.listing, log))
    /\ walk.first <= Len(log)
    /\ walk.listing = "filtered" => walk.late = 0 /\ pc # "counted"
    /\ pc = "done" => walk.total <= walk.page * PerPage

RowsOK ==
    /\ walk.rows \subseteq walk.shown
    /\ walk.shown \subseteq 1..Len(log)
    /\ Cardinality(walk.rows) <= PerPage

\* Appends push an entry that has not been shown to later pages, never to a page
\* that has been collected.
UnshownAreBehind ==
    pc \in {"request", "counted", "answered", "done"} =>
       \A i \in Unshown : Rank(walk.listing, log, i) > Collections * PerPage

\* As the listing had total + late entries when the page was collected, only so
\* many can be behind it.
UnshownAreFew ==
    pc \in {"answered", "done"} =>
       Unshown = {} \/ Cardinality(Unshown) + walk.page * PerPage <= walk.total + walk.late

WalkInv == walk \in WalkType /\ CountsOK /\ RowsOK /\ UnshownAreBehind /\ UnshownAreFew

\* No page begins before the first entry, and the next one begins where it ends.
LEMMA PageBounds ==
    ASSUME NEW p \in Nat \ {0}
    PROVE  /\ (p - 1) * PerPage \in Nat /\ p * PerPage \in Nat
           /\ p * PerPage = (p - 1) * PerPage + PerPage
  BY AuditRepositoryAssumption

LEMMA WalkInit == Init => WalkInv
<1> SUFFICES ASSUME Init PROVE WalkInv
  OBVIOUS
<1>1. walk = Closed /\ pc = "idle" /\ log = <<>>
  BY DEF Init
<1>2. walk \in WalkType
  BY <1>1 DEF Closed, WalkType
<1>3. Cardinality({}) = 0
  BY FS_EmptySet
<1>4. ListedIn(walk.listing, log) = {}
  BY <1>1 DEF ListedIn
<1>5. CountsOK
  <2>1. walk.total = 0 /\ walk.late = 0 /\ walk.first = 0 /\ walk.listing = "all"
    BY <1>1 DEF Closed
  <2> QED BY <1>1, <1>3, <1>4, <2>1 DEF CountsOK
<1>6. RowsOK
  BY <1>1, <1>3, AuditRepositoryAssumption DEF RowsOK, Closed
<1> QED BY <1>1, <1>2, <1>5, <1>6 DEF WalkInv, UnshownAreBehind, UnshownAreFew

\* Appends while the client waits or looks at a page.
LEMMA WalkGrows ==
    ASSUME log \in Seq(Entries), log' \in Seq(Entries), Grown(log, log'),
           WalkInv, UNCHANGED <<pc, walk>>
    PROVE  WalkInv'
<1> DEFINE L == ListedIn(walk.listing, log)
           M == ListedIn(walk.listing, log')
<1>1. walk \in WalkType /\ CountsOK /\ RowsOK /\ UnshownAreBehind /\ UnshownAreFew
  BY DEF WalkInv
<1>2. L = {i \in M : i <= Len(log)} /\ Cardinality(L) <= Cardinality(M)
  BY ListingGrows
<1>3. Cardinality(L) \in Nat /\ Cardinality(M) \in Nat /\ Len(log) <= Len(log')
  BY ListingFinite DEF Grown
<1>4. CountsOK'
  BY <1>1, <1>2, <1>3 DEF CountsOK, WalkType
<1>5. RowsOK'
  BY <1>1, <1>3 DEF RowsOK
<1>6. Unshown' = Unshown
  <2>1. walk.first <= Len(log) /\ walk.first \in Nat /\ Len(log) \in Nat
    BY <1>1 DEF CountsOK, WalkType
  <2>2. M \subseteq 1..Len(log')
    BY ListingFinite
  <2>3. {i \in M : i <= walk.first} = {i \in L : i <= walk.first}
    BY <1>2, <2>1, <2>2
  <2> QED BY <2>3 DEF Unshown
<1>7. UnshownAreBehind'
  <2> SUFFICES ASSUME pc \in {"request", "counted", "answered", "done"}, NEW i \in Unshown
               PROVE  Rank(walk.listing, log', i) > Collections * PerPage
    BY <1>6 DEF UnshownAreBehind, Collections
  <2>1. i \in L /\ Rank(walk.listing, log, i) > Collections * PerPage
    BY <1>1 DEF UnshownAreBehind, Unshown
  <2>2. i \in M /\ Rank(walk.listing, log, i) <= Rank(walk.listing, log', i)
    BY <2>1, RankGrows
  <2>3. Rank(walk.listing, log, i) \in Int /\ Rank(walk.listing, log', i) \in Int
    BY <2>1, <2>2, RankRange
  <2>4. Collections * PerPage \in Int
    BY <1>1, PageBounds DEF Collections, WalkType
  <2> QED BY <2>1, <2>2, <2>3, <2>4
<1>8. UnshownAreFew'
  BY <1>1, <1>6 DEF UnshownAreFew
<1> QED BY <1>1, <1>4, <1>5, <1>7, <1>8 DEF WalkInv

\* A page is collected: what it leaves behind has ranks above it, and there are
\* only so many of them.
LEMMA WalkCollected ==
    ASSUME log \in Seq(Entries), WalkInv, pc \in {"request", "counted"},
           NEW total \in Nat, total <= Cardinality(ListedIn(walk.listing, log)),
           walk.listing = "filtered" => total = Cardinality(ListedIn(walk.listing, log)),
           walk' = Collected(total), pc' = "answered", log' = log
    PROVE  WalkInv'
<1> DEFINE L == ListedIn(walk.listing, log)
           rows == OnPage(walk.listing, log, walk.page)
           rank(i) == Rank(walk.listing, log, i)
           upper == walk.page * PerPage
           lower == (walk.page - 1) * PerPage
<1>1. walk \in WalkType /\ CountsOK /\ RowsOK /\ UnshownAreBehind
  BY DEF WalkInv
<1>2. L \subseteq 1..Len(log) /\ Cardinality(L) \in Nat /\ Len(log) \in Nat
  BY ListingFinite
<1>3. rows \subseteq L /\ Cardinality(rows) <= PerPage
  BY <1>1, PageLength DEF WalkType
<1>4. walk' = [walk EXCEPT !.total = total, !.rows = rows, !.shown = walk.shown \cup rows,
                           !.late = Cardinality(L) - total]
  BY <1>1 DEF Collected, WalkType
<1>5. /\ walk' \in WalkType
      /\ walk'.listing = walk.listing /\ walk'.page = walk.page /\ walk'.first = walk.first
      /\ walk'.total = total /\ walk'.rows = rows /\ walk'.shown = walk.shown \cup rows
      /\ walk'.late = Cardinality(L) - total
  <2> DEFINE late == Cardinality(L) - total
             shown == walk.shown \cup rows
  <2>1. late \in Nat /\ rows \in SUBSET Nat
    BY <1>2, <1>3
  <2>2. walk \in WalkType /\ shown \in SUBSET Nat
    BY <1>1, <2>1 DEF WalkType
  <2>3. walk' = [walk EXCEPT !.total = total, !.rows = rows, !.shown = shown, !.late = late]
    BY <1>4
  <2> HIDE DEF L, rows, late, shown
  <2>4. walk' \in WalkType
    BY <2>1, <2>2, <2>3 DEF WalkType
  <2>5. /\ walk'.listing = walk.listing /\ walk'.page = walk.page /\ walk'.first = walk.first
        /\ walk'.total = total /\ walk'.rows = rows /\ walk'.shown = shown
        /\ walk'.late = late
    BY <2>2, <2>3 DEF WalkType
  <2> QED BY <2>4, <2>5 DEF late, shown
<1> HIDE DEF rows
<1>6. CountsOK'
  BY <1>1, <1>2, <1>5 DEF CountsOK
<1>7. RowsOK'
  BY <1>1, <1>2, <1>3, <1>5 DEF RowsOK
<1>8. upper \in Nat /\ lower \in Nat
  BY <1>1, PageBounds DEF WalkType
<1>9. \A i \in L : rank(i) \in 1..Cardinality(L)
  BY RankRange
<1>10. ASSUME NEW i \in Unshown' PROVE i \in L /\ rank(i) > upper
  <2>1. i \in L /\ i \in Unshown /\ i \notin rows
    BY <1>5 DEF Unshown
  <2>2. rank(i) > lower
    BY <1>1, <2>1 DEF UnshownAreBehind, Collections
  <2>3. ~(rank(i) <= upper)
    BY <2>1, <2>2 DEF rows, OnPage
  <2> HIDE DEF rank, upper
  <2> QED BY <2>1, <2>3, <1>8, <1>9
<1>11. UnshownAreBehind'
  BY <1>5, <1>10 DEF UnshownAreBehind, Collections
<1>12. UnshownAreFew'
  <2> DEFINE n == Cardinality(L)
  <2> SUFFICES ASSUME Unshown' # {}
               PROVE  Cardinality(Unshown') + upper <= total + (n - total)
    BY <1>5 DEF UnshownAreFew
  <2>1. Unshown' \subseteq L
    BY <1>10
  <2>2. ASSUME NEW i \in Unshown' PROVE rank(i) \in upper + 1 .. n
    <3>1. rank(i) > upper /\ rank(i) \in 1..n
      BY <1>9, <1>10
    <3> HIDE DEF rank, upper, n
    <3> QED BY <1>8, <3>1
  <2>3. Cardinality(Unshown') \in Nat /\ Cardinality(Unshown') <= n - upper
    <3> HIDE DEF upper
    <3> QED BY <1>2, <1>8, <2>1, <2>2, RanksCount
  <2> HIDE DEF upper, L
  <2> QED BY <1>2, <1>8, <2>3
<1> QED BY <1>5, <1>6, <1>7, <1>11, <1>12 DEF WalkInv

\* The walk of which nothing has been shown.
FreshWalk(listing, first) ==
    [listing |-> listing, page |-> 1, total |-> 0, rows |-> {},
     first |-> first, shown |-> {}, late |-> 0]

\* A listing is opened, or left for the statistics: nothing has been shown.
LEMMA WalkOpened ==
    ASSUME log \in Seq(Entries), log' = log,
           NEW listing \in {"all", "filtered", "recognized"}, NEW first \in 0..Len(log),
           walk' = FreshWalk(listing, first),
           pc' \in {"idle", "request"}
    PROVE  WalkInv'
<1>0. first \in Nat /\ first <= Len(log)
  OBVIOUS
<1>1. /\ walk' \in WalkType
      /\ walk'.listing = listing /\ walk'.first = first /\ walk'.page = 1 /\ walk'.total = 0
      /\ walk'.late = 0 /\ walk'.rows = {} /\ walk'.shown = {}
  <2> DEFINE w == FreshWalk(listing, first)
  <2>1. walk' = w
    OBVIOUS
  <2>2. {} \in SUBSET Nat /\ 1 \in Nat \ {0} /\ 0 \in Nat
    OBVIOUS
  <2>3. w \in WalkType
    BY <1>0, <2>2 DEF WalkType, FreshWalk
  <2>4. /\ w.listing = listing /\ w.first = first /\ w.page = 1 /\ w.total = 0
        /\ w.late = 0 /\ w.rows = {} /\ w.shown = {}
    BY DEF FreshWalk
  <2> HIDE DEF w
  <2> QED BY <2>1, <2>3, <2>4
<1>2. Cardinality({}) = 0
  BY FS_EmptySet
<1>3. Cardinality(ListedIn(listing, log)) \in Nat
  BY ListingFinite
<1>4. CountsOK' /\ RowsOK'
  <2>1. CountsOK'
    BY <1>0, <1>1, <1>3 DEF CountsOK
  <2>2. RowsOK'
    <3>1. Cardinality({}) <= PerPage
      BY <1>2, AuditRepositoryAssumption
    <3> QED BY <1>1, <3>1, Zenon DEF RowsOK
  <2> QED BY <2>1, <2>2
<1>5. ASSUME NEW i \in Unshown' PROVE Rank(listing, log, i) > Collections' * PerPage
  <2>1. i \in ListedIn(listing, log)
    BY <1>1, <1>5 DEF Unshown
  <2>2. Rank(listing, log, i) >= 1
    BY <2>1, <1>3, RankRange
  <2>3. Collections' * PerPage = 0
    BY <1>1, AuditRepositoryAssumption DEF Collections
  <2>4. Rank(listing, log, i) \in Int
    BY <2>1, RankRange
  <2> QED BY <2>2, <2>3, <2>4
<1>6. UnshownAreBehind' /\ UnshownAreFew'
  BY <1>1, <1>5 DEF UnshownAreBehind, UnshownAreFew
<1> QED BY <1>1, <1>4, <1>6 DEF WalkInv

\* The steps of a walk that collect no page.
LEMMA WalkCounted ==
    ASSUME log \in Seq(Entries), WalkInv, Count
    PROVE  WalkInv'
<1> DEFINE n == Cardinality(ListedIn(walk.listing, log))
<1>1. walk \in WalkType /\ CountsOK /\ RowsOK /\ UnshownAreBehind
  BY DEF WalkInv
<1>2. n \in Nat
  BY ListingFinite
<1>3. /\ walk.listing # "filtered" /\ pc = "request" /\ pc' = "counted" /\ log' = log
      /\ walk' = [walk EXCEPT !.total = n]
  BY TotalIsListed DEF Count
<1> HIDE DEF n
<1>4. /\ walk' \in WalkType
      /\ walk'.listing = walk.listing /\ walk'.page = walk.page /\ walk'.first = walk.first
      /\ walk'.total = n /\ walk'.rows = walk.rows /\ walk'.shown = walk.shown
      /\ walk'.late = walk.late
  BY <1>1, <1>2, <1>3 DEF WalkType
<1>5. CountsOK' /\ RowsOK'
  BY <1>1, <1>2, <1>3, <1>4 DEF CountsOK, RowsOK, n
<1>6. UnshownAreBehind'
  BY <1>1, <1>3, <1>4 DEF UnshownAreBehind, Collections, Unshown
<1> QED BY <1>3, <1>4, <1>5, <1>6 DEF WalkInv, UnshownAreFew

LEMMA WalkTurned ==
    ASSUME log \in Seq(Entries), WalkInv, TurnPage
    PROVE  WalkInv'
<1>1. walk \in WalkType /\ CountsOK /\ RowsOK /\ UnshownAreBehind /\ UnshownAreFew
  BY DEF WalkInv
<1>2. pc = "answered" /\ log' = log
  BY DEF TurnPage
<1>3. walk.page * PerPage \in Nat /\ walk.total \in Nat
  BY <1>1, PageBounds DEF WalkType
<1>4. CASE walk.page * PerPage < walk.total
  <2>1. pc' = "request" /\ walk' = [walk EXCEPT !.page = walk.page + 1]
    BY <1>4 DEF TurnPage
  <2>2. /\ walk' \in WalkType
        /\ walk'.listing = walk.listing /\ walk'.page - 1 = walk.page /\ walk'.first = walk.first
        /\ walk'.total = walk.total /\ walk'.rows = walk.rows /\ walk'.shown = walk.shown
        /\ walk'.late = walk.late
    BY <1>1, <2>1 DEF WalkType
  <2>3. CountsOK' /\ RowsOK'
    BY <1>1, <1>2, <2>1, <2>2 DEF CountsOK, RowsOK
  <2>4. UnshownAreBehind'
    BY <1>1, <1>2, <2>1, <2>2 DEF UnshownAreBehind, Collections, Unshown
  <2> QED BY <2>1, <2>2, <2>3, <2>4 DEF WalkInv, UnshownAreFew
<1>5. CASE ~(walk.page * PerPage < walk.total)
  <2>1. pc' = "done" /\ walk' = walk
    BY <1>5 DEF TurnPage
  <2>2. CountsOK' /\ RowsOK'
    BY <1>1, <1>2, <1>3, <1>5, <2>1 DEF CountsOK, RowsOK
  <2>3. UnshownAreBehind' /\ UnshownAreFew'
    BY <1>1, <1>2, <2>1 DEF UnshownAreBehind, UnshownAreFew, Collections, Unshown
  <2> QED BY <1>1, <2>1, <2>2, <2>3 DEF WalkInv
<1> QED BY <1>4, <1>5

-----------------------------------------------------------------------------
\* The statistics.

\* Every entry reads back with exactly one status, so the tallies add up.
LEMMA TalliesAddUp ==
    ASSUME NEW l \in Seq(Entries)
    PROVE  Sums(StatsOf(l))
<1> DEFINE D == 1..Len(l)
           With(s) == {i \in DOMAIN l : ReadStatus("ComputeStats", l[i]) = s}
           A == With("matched")
           B == With("not_matched")
           C == With("no_face")
<1>1. Len(l) \in Nat /\ DOMAIN l = D
  OBVIOUS
<1>2. IsFiniteSet(D) /\ Cardinality(D) = Len(l)
  BY <1>1, FS_Interval
<1>3. \A i \in D : ReadStatus("ComputeStats", l[i]) \in Status
  BY <1>1, ReadsAStatus, ReadersNamed
<1>4. A \cup B \cup C = D /\ A \cap B = {} /\ (A \cup B) \cap C = {}
  BY <1>1, <1>3 DEF Status
<1>5. A \in SUBSET D /\ B \in SUBSET D /\ C \in SUBSET D
  BY <1>1
<1> HIDE DEF A, B, C, D
<1>6. IsFiniteSet(A) /\ IsFiniteSet(B) /\ IsFiniteSet(C)
  BY <1>2, <1>5, FS_Subset
<1>7. Cardinality({}) = 0
  BY FS_EmptySet
<1>8. /\ IsFiniteSet(A \cup B)
      /\ Cardinality(A \cup B) = Cardinality(A) + Cardinality(B) - Cardinality(A \cap B)
  BY <1>6, FS_Union
<1>9. Cardinality(A \cup B \cup C)
         = Cardinality(A \cup B) + Cardinality(C) - Cardinality((A \cup B) \cap C)
  BY <1>6, <1>8, FS_Union
<1>10. Cardinality(A) \in Nat /\ Cardinality(B) \in Nat /\ Cardinality(C) \in Nat
  BY <1>6, FS_CardinalityType
<1>11. Len(l) = Cardinality(A) + Cardinality(B) + Cardinality(C)
  <2>1. Cardinality(A \cap B) = 0 /\ Cardinality((A \cup B) \cap C) = 0
    BY <1>4, <1>7
  <2>2. Cardinality(A \cup B \cup C) = Len(l)
    BY <1>2, <1>4
  <2> QED BY <1>8, <1>9, <1>10, <2>1, <2>2
<1>12. /\ CountWith("ComputeStats", l, "matched") = Cardinality(A)
       /\ CountWith("ComputeStats", l, "not_matched") = Cardinality(B)
       /\ CountWith("ComputeStats", l, "no_face") = Cardinality(C)
  BY DEF CountWith, A, B, C
<1> QED BY <1>11, <1>12 DEF StatsOf, Sums

\* A longer log has been matched last no earlier.
LEMMA LastGrows ==
    ASSUME NEW l \in Seq(Entries), NEW m \in Seq(Entries), Grown(l, m)
    PROVE  StatsOf(l).last <= StatsOf(m).last
<1> DEFINE Secs(k) == {0} \cup {k[i].sec : i \in {j \in DOMAIN k : ReadStatus("ComputeStats", k[j]) = "matched"}}
<1>1. ASSUME NEW k \in Seq(Entries)
      PROVE  Max(Secs(k)) \in Secs(k) /\ Secs(k) \subseteq Nat /\ \A x \in Secs(k) : Max(Secs(k)) >= x
  <2> DEFINE D == {j \in DOMAIN k : ReadStatus("ComputeStats", k[j]) = "matched"}
             T == {k[i].sec : i \in D}
             f == [i \in D |-> k[i].sec]
  <2>1. Len(k) \in Nat /\ D \in SUBSET (1..Len(k))
    OBVIOUS
  <2>2. IsFiniteSet(D)
    BY <2>1, FS_Interval, FS_Subset
  <2>3. f \in Surjection(D, T)
    BY DEF Surjection
  <2>4. IsFiniteSet(T)
    BY <2>2, <2>3, FS_Surjection
  <2>5. T \cup {0} = Secs(k)
    OBVIOUS
  <2>6. IsFiniteSet(Secs(k))
    <3> HIDE DEF T
    <3>1. IsFiniteSet(T \cup {0})
      BY <2>4, FS_AddElement
    <3> QED BY <2>5, <3>1
  <2>7. Secs(k) \subseteq Nat /\ Secs(k) # {}
    BY AuditRepositoryAssumption
  <2> HIDE DEF Secs
  <2> QED BY <2>6, <2>7, MaxOfFinite
<1>2. Secs(l) \subseteq Secs(m)
  <2> SUFFICES ASSUME NEW i \in DOMAIN l PROVE i \in DOMAIN m /\ m[i] = l[i]
    OBVIOUS
  <2> QED BY DEF Grown
<1> HIDE DEF Secs
<1>3. Max(Secs(l)) <= Max(Secs(m))
  BY <1>1, <1>2
<1> QED BY <1>3 DEF StatsOf, Secs

\* s is the statistics of what the log was when it had s.checks entries.
OfPrefix(s, l) == s.checks \in 0..Len(l) /\ s = StatsOf(SubSeq(l, 1, s.checks))

LEMMA PrefixStats ==
    ASSUME NEW l \in Seq(Entries), NEW n \in 0..Len(l)
    PROVE  /\ SubSeq(l, 1, n) \in Seq(Entries) /\ Len(SubSeq(l, 1, n)) = n
           /\ \A i \in 1..n : SubSeq(l, 1, n)[i] = l[i]
           /\ StatsOf(SubSeq(l, 1, n)).checks = n
  BY DEF StatsOf

LEMMA WholeLogIsPrefix ==
    ASSUME NEW l \in Seq(Entries)
    PROVE  OfPrefix(StatsOf(l), l) /\ StatsOf(l).checks = Len(l)
<1>1. StatsOf(l).checks = Len(l) /\ SubSeq(l, 1, Len(l)) = l /\ Len(l) \in 0..Len(l)
  BY DEF StatsOf
<1> QED BY <1>1 DEF OfPrefix

LEMMA NothingIsPrefix ==
    ASSUME NEW l \in Seq(Entries)
    PROVE  OfPrefix(NoStats, l) /\ NoStats.checks = 0
<1>1. SubSeq(l, 1, 0) = <<>> /\ NoStats.checks = 0 /\ 0 \in 0..Len(l)
  BY DEF NoStats, StatsOf
<1> QED BY <1>1 DEF OfPrefix, NoStats

LEMMA PrefixStaysPrefix ==
    ASSUME NEW s, NEW l \in Seq(Entries), NEW m \in Seq(Entries), Grown(l, m), OfPrefix(s, l)
    PROVE  OfPrefix(s, m)
<1> DEFINE n == s.checks
<1>1. n \in 0..Len(l) /\ n \in 0..Len(m) /\ s = StatsOf(SubSeq(l, 1, n))
  BY DEF OfPrefix, Grown
<1> HIDE DEF n
<1>2. SubSeq(m, 1, n) = SubSeq(l, 1, n)
  BY <1>1 DEF Grown
<1> QED BY <1>1, <1>2 DEF OfPrefix, n

LEMMA LongerPrefix ==
    ASSUME NEW s, NEW t, NEW l \in Seq(Entries), OfPrefix(s, l), OfPrefix(t, l), s.checks <= t.checks
    PROVE  s.last <= t.last
<1> DEFINE p == SubSeq(l, 1, s.checks)
           q == SubSeq(l, 1, t.checks)
<1>1. s.checks \in 0..Len(l) /\ t.checks \in 0..Len(l) /\ s = StatsOf(p) /\ t = StatsOf(q)
  BY DEF OfPrefix
<1>2. p \in Seq(Entries) /\ q \in Seq(Entries) /\ Grown(p, q)
  BY <1>1, PrefixStats DEF Grown
<1> QED BY <1>1, <1>2, LastGrows

\* The last answer, every scan under way and the cache are the statistics of
\* prefixes of the log, the last two unless they are cleared or idle of one that
\* is no shorter than what has been settled.
StatsInv ==
    /\ OfPrefix(answer, log) /\ OfPrefix(cache, log)
    /\ \A c \in Callers : OfPrefix(seen[c], log)
    /\ settled \in 0..Len(log)
    /\ age # Unset => settled <= cache.checks
    /\ \A c \in Callers : spc[c] = "store" => settled <= seen[c].checks

CallsOK ==
    /\ log \in Seq(Entries) /\ Len(log) <= MaxLog
    /\ age \in {Unset} \cup 0..TTL
    /\ apc \in [Appenders -> {"idle", "commit"}]
    /\ spc \in [Callers -> {"idle", "scan", "store"}]
    /\ DOMAIN seen = Callers
    /\ pc \in {"idle", "request", "counted", "answered", "done"}

AuditInv == CallsOK /\ WalkInv /\ StatsInv

LEMMA AuditInit == Init => AuditInv
<1> SUFFICES ASSUME Init PROVE AuditInv
  OBVIOUS
<1>1. CallsOK
  BY AuditRepositoryAssumption DEF Init, CallsOK
<1>2. StatsInv
  <2>1. log \in Seq(Entries) /\ age = Unset /\ settled = 0 /\ Len(log) = 0
        /\ cache = NoStats /\ seen = [c \in Callers |-> NoStats] /\ answer = NoStats
        /\ spc = [c \in Callers |-> "idle"]
    BY DEF Init
  <2>2. OfPrefix(NoStats, log)
    BY <2>1, NothingIsPrefix
  <2> QED BY <2>1, <2>2 DEF StatsInv
<1> QED BY <1>1, <1>2, WalkInit DEF AuditInv

\* What appends do to everything a client has.
LEMMA CommitKeepsInv ==
    ASSUME AuditInv, NEW a \in Appenders, Commit(a)
    PROVE  AuditInv'
<1>1. CallsOK /\ WalkInv /\ StatsInv
  BY DEF AuditInv
<1>2. log \in Seq(Entries) /\ UNCHANGED <<cache, age, spc, seen, answer, settled, pc, walk>>
  BY <1>1 DEF CallsOK, Commit, client, stats
<1>3. log' \in Seq(Entries) /\ Grown(log, log') /\ Len(log') <= MaxLog
  <2>1. PICK e \in Entries : log' = Append(log, e)
    BY DEF Commit
  <2>2. Len(log) < MaxLog /\ MaxLog \in Nat /\ Len(log') = Len(log) + 1 /\ Len(log) \in Nat
    BY <1>2, <2>1, AuditRepositoryAssumption DEF Commit
  <2> QED BY <1>2, <2>1, <2>2, AppendGrows
<1>4. CallsOK'
  BY <1>1, <1>2, <1>3 DEF CallsOK, Commit
<1>5. WalkInv'
  BY <1>1, <1>2, <1>3, WalkGrows
<1>6. StatsInv'
  <2>1. OfPrefix(answer, log') /\ OfPrefix(cache, log')
    BY <1>1, <1>2, <1>3, PrefixStaysPrefix DEF StatsInv
  <2>2. \A c \in Callers : OfPrefix(seen[c], log')
    BY <1>1, <1>2, <1>3, PrefixStaysPrefix DEF StatsInv
  <2>3. settled \in 0..Len(log')
    BY <1>1, <1>2, <1>3 DEF StatsInv, Grown
  <2> QED BY <1>1, <1>2, <2>1, <2>2, <2>3 DEF StatsInv
<1> QED BY <1>4, <1>5, <1>6 DEF AuditInv

\* What a caller is told settles something only if no other call has a scan left
\* to store, so every scan that is left has counted what is settled.
LEMMA TellKeepsSettled ==
    ASSUME StatsInv, log \in Seq(Entries), NEW c \in Callers, NEW s, OfPrefix(s, log),
           settled <= s.checks, Tell(c, s)
    PROVE  /\ OfPrefix(answer', log)
           /\ settled' \in 0..Len(log) /\ settled <= settled' /\ settled' <= s.checks
           /\ \A d \in Callers \ {c} : spc[d] = "store" => settled' <= seen[d].checks
<1>1. answer' = s /\ s.checks \in 0..Len(log) /\ settled \in 0..Len(log)
  BY DEF Tell, StatsInv, OfPrefix
<1>2. CASE \A d \in Callers \ {c} : spc[d] # "store"
  <2>1. settled' = s.checks
    BY <1>2 DEF Tell
  <2> QED BY <1>1, <1>2, <2>1
<1>3. CASE ~(\A d \in Callers \ {c} : spc[d] # "store")
  <2>1. settled' = settled
    BY <1>3 DEF Tell
  <2> QED BY <1>1, <2>1 DEF StatsInv
<1> QED BY <1>2, <1>3

\* The rest leaves the log alone.
LEMMA LookupKeepsInv ==
    ASSUME AuditInv, NEW c \in Callers, Lookup(c)
    PROVE  AuditInv'
<1>1. CallsOK /\ WalkInv /\ StatsInv /\ log \in Seq(Entries)
  BY DEF AuditInv, CallsOK
<1>2. log' = log /\ cache' = cache /\ age' = age /\ apc' = apc /\ seen' = seen
  BY DEF Lookup
<1>3. WalkInv'
  <2>1. CASE c = Walker
    <3>1. walk' = FreshWalk("all", 0) /\ pc' = "idle" /\ 0 \in 0..Len(log)
      BY <1>1, <2>1 DEF Lookup, Closed, FreshWalk
    <3> QED BY <1>1, <1>2, <3>1, WalkOpened
  <2>2. CASE c # Walker
    <3>1. UNCHANGED <<pc, walk>>
      BY <2>2 DEF Lookup, client
    <3>2. Grown(log, log)
      BY <1>1 DEF Grown
    <3> QED BY <1>1, <1>2, <3>1, <3>2, WalkGrows
  <2> QED BY <2>1, <2>2
<1>4. pc' \in {"idle", "request", "counted", "answered", "done"}
  BY <1>1 DEF CallsOK, Lookup, client
<1>5. CASE Valid
  <2>1. Tell(c, cache) /\ spc' = spc /\ age # Unset
    BY <1>5 DEF Lookup, Valid
  <2>2. CallsOK'
    BY <1>1, <1>2, <1>4, <2>1 DEF CallsOK
  <2>3. /\ OfPrefix(answer', log) /\ settled' \in 0..Len(log) /\ settled' <= cache.checks
        /\ \A d \in Callers \ {c} : spc[d] = "store" => settled' <= seen[d].checks
    BY <1>1, <2>1, TellKeepsSettled DEF StatsInv
  <2>4. spc[c] # "store"
    BY DEF Lookup
  <2>5. StatsInv'
    BY <1>1, <1>2, <2>1, <2>3, <2>4 DEF StatsInv
  <2> QED BY <1>3, <2>2, <2>5 DEF AuditInv
<1>6. CASE ~Valid
  <2>1. spc' = [spc EXCEPT ![c] = "scan"] /\ answer' = answer /\ settled' = settled
    BY <1>6 DEF Lookup
  <2>2. CallsOK'
    BY <1>1, <1>2, <1>4, <2>1 DEF CallsOK
  <2>3. \A d \in Callers : spc'[d] = "store" => spc[d] = "store"
    BY <1>1, <2>1 DEF CallsOK
  <2>4. StatsInv'
    BY <1>1, <1>2, <2>1, <2>3 DEF StatsInv
  <2> QED BY <1>3, <2>2, <2>4 DEF AuditInv
<1> QED BY <1>5, <1>6

LEMMA ScanKeepsInv ==
    ASSUME AuditInv, NEW c \in Callers, ScanStats(c)
    PROVE  AuditInv'
<1>1. CallsOK /\ WalkInv /\ StatsInv /\ log \in Seq(Entries)
  BY DEF AuditInv, CallsOK
<1>2. /\ log' = log /\ cache' = cache /\ age' = age /\ apc' = apc /\ answer' = answer
      /\ settled' = settled /\ pc' = pc /\ walk' = walk
  BY DEF ScanStats, client
<1>3. WalkInv'
  <2>1. Grown(log, log)
    BY <1>1 DEF Grown
  <2> QED BY <1>1, <1>2, <2>1, WalkGrows
<1>4. CASE seen' = [seen EXCEPT ![c] = StatsOf(log)] /\ spc' = [spc EXCEPT ![c] = "store"]
  <2>1. CallsOK'
    BY <1>1, <1>2, <1>4 DEF CallsOK
  <2>2. /\ seen'[c] = StatsOf(log)
        /\ \A d \in Callers \ {c} : seen'[d] = seen[d] /\ spc'[d] = spc[d]
    BY <1>1, <1>4 DEF CallsOK
  <2>3. OfPrefix(seen'[c], log) /\ settled <= seen'[c].checks
    BY <1>1, <2>2, WholeLogIsPrefix DEF StatsInv
  <2>4. StatsInv'
    BY <1>1, <1>2, <2>2, <2>3 DEF StatsInv
  <2> QED BY <1>3, <2>1, <2>4 DEF AuditInv
<1>5. CASE spc' = [spc EXCEPT ![c] = "idle"] /\ seen' = seen
  <2>1. CallsOK'
    BY <1>1, <1>2, <1>5 DEF CallsOK
  <2>2. \A d \in Callers : spc'[d] = "store" => spc[d] = "store"
    BY <1>1, <1>5 DEF CallsOK
  <2>3. StatsInv'
    BY <1>1, <1>2, <1>5, <2>2 DEF StatsInv
  <2> QED BY <1>3, <2>1, <2>3 DEF AuditInv
<1> QED BY <1>4, <1>5 DEF ScanStats

LEMMA StoreKeepsInv ==
    ASSUME AuditInv, NEW c \in Callers, Store(c)
    PROVE  AuditInv'
<1>1. CallsOK /\ WalkInv /\ StatsInv /\ log \in Seq(Entries)
  BY DEF AuditInv, CallsOK
<1>2. /\ log' = log /\ cache' = seen[c] /\ age' = 0 /\ apc' = apc /\ pc' = pc /\ walk' = walk
      /\ spc = spc /\ spc[c] = "store" /\ Tell(c, seen[c])
      /\ spc' = [spc EXCEPT ![c] = "idle"] /\ seen' = [seen EXCEPT ![c] = NoStats]
  BY DEF Store, client
<1>3. WalkInv'
  <2>1. Grown(log, log)
    BY <1>1 DEF Grown
  <2> QED BY <1>1, <1>2, <2>1, WalkGrows
<1>4. CallsOK'
  BY <1>1, <1>2, AuditRepositoryAssumption DEF CallsOK
<1>5. OfPrefix(seen[c], log) /\ settled <= seen[c].checks
  BY <1>1, <1>2 DEF StatsInv
<1>6. /\ OfPrefix(answer', log) /\ settled' \in 0..Len(log) /\ settled' <= seen[c].checks
      /\ \A d \in Callers \ {c} : spc[d] = "store" => settled' <= seen[d].checks
  BY <1>1, <1>2, <1>5, TellKeepsSettled
<1>7. /\ seen'[c] = NoStats /\ spc'[c] = "idle"
      /\ \A d \in Callers \ {c} : seen'[d] = seen[d] /\ spc'[d] = spc[d]
  BY <1>1, <1>2 DEF CallsOK
<1>8. OfPrefix(NoStats, log)
  BY <1>1, NothingIsPrefix
<1>9. StatsInv'
  <2>1. \A d \in Callers : OfPrefix(seen'[d], log)
    BY <1>1, <1>7, <1>8 DEF StatsInv
  <2>2. \A d \in Callers : spc'[d] = "store" => settled' <= seen'[d].checks
    BY <1>6, <1>7
  <2> QED BY <1>2, <1>5, <1>6, <2>1, <2>2 DEF StatsInv
<1> QED BY <1>3, <1>4, <1>9 DEF AuditInv

\* Nor do the steps of a walk touch the statistics.
LEMMA WalkStepKeepsInv ==
    ASSUME AuditInv, Open \/ ListFiltered \/ Count \/ ScanPage \/ TurnPage
    PROVE  AuditInv'
<1> DEFINE L == ListedIn(walk.listing, log)
<1>1. CallsOK /\ WalkInv /\ StatsInv /\ log \in Seq(Entries) /\ walk \in WalkType
  BY DEF AuditInv, CallsOK, WalkInv
<1>2. /\ UNCHANGED <<log, cache, age, apc, spc, seen, answer, settled>>
      /\ pc' \in {"request", "counted", "answered", "done"}
  BY DEF Open, ListFiltered, Count, ScanPage, TurnPage, stats
<1>3. CallsOK'
  BY <1>1, <1>2 DEF CallsOK
<1>4. StatsInv'
  BY <1>1, <1>2 DEF StatsInv
<1>5. Cardinality(L) \in Nat
  BY <1>1, ListingFinite
<1>6. WalkInv'
  <2>1. CASE Open
    <3>1. PICK listing \in {"all", "filtered", "recognized"} :
             walk' = FreshWalk(listing, Len(log))
      BY <2>1 DEF Open, Closed, FreshWalk
    <3>2. Len(log) \in 0..Len(log) /\ pc' = "request"
      BY <1>1, <2>1 DEF Open
    <3> QED BY <1>1, <1>2, <3>1, <3>2, WalkOpened
  <2>2. CASE ListFiltered
    <3>1. Cardinality(L) <= Cardinality(L)
      BY <1>5
    <3>2. walk' = Collected(Cardinality(L)) /\ pc = "request" /\ pc' = "answered"
      BY <1>1, <2>2, TotalIsListed DEF ListFiltered
    <3> HIDE DEF L
    <3> QED BY <1>1, <1>2, <1>5, <3>1, <3>2, WalkCollected DEF L
  <2>3. CASE Count
    BY <1>1, <2>3, WalkCounted
  <2>4. CASE ScanPage
    <3>1. walk' = Collected(walk.total) /\ pc = "counted" /\ pc' = "answered"
      BY <2>4 DEF ScanPage
    <3>2. walk.total \in Nat /\ walk.total <= Cardinality(L) /\ walk.listing # "filtered"
      BY <1>1, <3>1 DEF WalkInv, WalkType, CountsOK
    <3> QED BY <1>1, <1>2, <3>1, <3>2, WalkCollected
  <2>5. CASE TurnPage
    BY <1>1, <2>5, WalkTurned
  <2> QED BY <2>1, <2>2, <2>3, <2>4, <2>5
<1> QED BY <1>3, <1>4, <1>6 DEF AuditInv

LEMMA AuditStep == AuditInv /\ [Next]_vars => AuditInv'
<1> SUFFICES ASSUME AuditInv, [Next]_vars PROVE AuditInv'
  OBVIOUS
<1>1. CallsOK /\ WalkInv /\ StatsInv /\ log \in Seq(Entries)
  BY DEF AuditInv, CallsOK
<1>2. ASSUME log' = log, pc' = pc, walk' = walk PROVE WalkInv'
  BY <1>1, <1>2 DEF WalkInv, CountsOK, RowsOK, UnshownAreBehind, UnshownAreFew, Collections, Unshown
<1>3. ASSUME NEW a \in Appenders, Clear(a) PROVE AuditInv'
  <2>1. /\ UNCHANGED <<log, spc, seen, answer, settled, pc, walk>>
        /\ cache' = NoStats /\ age' = Unset
    BY <1>3 DEF Clear, client, stats
  <2>2. CallsOK'
    BY <1>1, <1>3, <2>1 DEF CallsOK, Clear
  <2>3. StatsInv'
    BY <1>1, <2>1, NothingIsPrefix DEF StatsInv
  <2> QED BY <1>2, <2>1, <2>2, <2>3 DEF AuditInv
<1>4. ASSUME NEW a \in Appenders, CommitFails(a) PROVE AuditInv'
  <2>1. UNCHANGED <<log, cache, age, spc, seen, answer, settled, pc, walk>>
    BY <1>4 DEF CommitFails, client, stats
  <2>2. CallsOK'
    BY <1>1, <1>4, <2>1 DEF CallsOK, CommitFails
  <2>3. StatsInv'
    BY <1>1, <2>1 DEF StatsInv
  <2> QED BY <1>2, <2>1, <2>2, <2>3 DEF AuditInv
<1>5. CASE Tick
  <2>1. UNCHANGED <<log, cache, apc, spc, seen, answer, settled, pc, walk>>
    BY <1>5 DEF Tick, client, stats
  <2>2. CallsOK' /\ age # Unset
    BY <1>1, <1>5, <2>1, AuditRepositoryAssumption DEF CallsOK, Tick, Unset
  <2>3. StatsInv'
    BY <1>1, <2>1, <2>2 DEF StatsInv
  <2> QED BY <1>2, <2>1, <2>2, <2>3 DEF AuditInv
<1>6. CASE UNCHANGED vars
  <2>1. UNCHANGED <<log, cache, age, apc, spc, seen, answer, settled, pc, walk>>
    BY <1>6 DEF vars, stats, client
  <2>2. CallsOK' /\ StatsInv'
    BY <1>1, <2>1 DEF CallsOK, StatsInv
  <2> QED BY <1>2, <2>1, <2>2 DEF AuditInv
<1> QED BY <1>3, <1>4, <1>5, <1>6, CommitKeepsInv, LookupKeepsInv, ScanKeepsInv, StoreKeepsInv,
           WalkStepKeepsInv DEF Next

LEMMA AuditInvariance == Spec => []AuditInv
  BY AuditInit, AuditStep, PTL DEF Spec

\* Every page answers with PerPage rows at most, out of the log, with a total
\* that the log has had, and every tally adds up, at any time.
THEOREM AuditTypeCorrectness == Spec => []TypeOK
<1>1. AuditInv => TypeOK
  <2> SUFFICES ASSUME AuditInv PROVE TypeOK
    OBVIOUS
  <2>1. CallsOK /\ walk \in WalkType /\ CountsOK /\ RowsOK /\ StatsInv
    BY DEF AuditInv, WalkInv
  <2>2. log \in Seq(Entries) /\ Len(log) \in Nat /\ DOMAIN log = 1..Len(log)
    BY <2>1 DEF CallsOK
  <2>3. ASSUME NEW s, OfPrefix(s, log) PROVE Sums(s)
    <3>1. s = StatsOf(SubSeq(log, 1, s.checks)) /\ SubSeq(log, 1, s.checks) \in Seq(Entries)
      BY <2>2, <2>3, PrefixStats DEF OfPrefix
    <3> QED BY <3>1, TalliesAddUp
  <2>4. Sums(cache) /\ Sums(answer) /\ (\A c \in Callers : Sums(seen[c])) /\ settled \in 0..Len(log)
    <3>1. /\ OfPrefix(cache, log) /\ OfPrefix(answer, log) /\ settled \in 0..Len(log)
          /\ \A c \in Callers : OfPrefix(seen[c], log)
      BY <2>1 DEF StatsInv
    <3> QED BY <2>3, <3>1
  <2>5. {walk.total, walk.first, walk.late} \subseteq 0..Len(log)
    <3>1. Cardinality(ListedIn(walk.listing, log)) \in 0..Len(log)
      BY <2>2, ListingFinite
    <3>2. walk.total \in Nat /\ walk.first \in Nat /\ walk.late \in Nat
      BY <2>1 DEF WalkType
    <3>3. walk.total <= Len(log) /\ walk.first <= Len(log) /\ walk.late <= Len(log)
      BY <2>1, <3>1, <3>2 DEF CountsOK
    <3> QED BY <3>2, <3>3
  <2>6. walk.listing \in {"all", "filtered", "recognized"} /\ walk.page \in Nat \ {0}
    BY <2>1 DEF WalkType
  <2> QED BY <2>1, <2>2, <2>4, <2>5, <2>6 DEF TypeOK, CallsOK, RowsOK
<1> QED BY <1>1, AuditInvariance, PTL

\* Whoever turns the pages to the end has seen every entry there was at the start,
\* except for as many as were appended inside the last request at most.
THEOREM WalkMissesOnlyLateAppends == Spec => []MissedOnlyByLateAppends
<1>1. AuditInv => MissedOnlyByLateAppends
  <2> SUFFICES ASSUME AuditInv, pc = "done"
               PROVE  /\ Cardinality(Unshown) <= walk.late
                      /\ walk.listing = "filtered" => walk.late = 0
    BY DEF MissedOnlyByLateAppends, Unshown
  <2>1. walk \in WalkType /\ CountsOK /\ UnshownAreFew /\ log \in Seq(Entries)
    BY DEF AuditInv, WalkInv, CallsOK
  <2>2. walk.page * PerPage \in Nat /\ walk.late \in Nat /\ walk.total \in Nat
    BY <2>1, PageBounds DEF WalkType
  <2>3. walk.total <= walk.page * PerPage
    BY <2>1 DEF CountsOK
  <2>4. Cardinality(Unshown) \in Nat /\ Cardinality({}) = 0
    <3>1. Unshown \subseteq ListedIn(walk.listing, log)
      BY DEF Unshown
    <3> QED BY <2>1, <3>1, ListingFinite, FS_Subset, FS_CardinalityType, FS_EmptySet
  <2>5. Unshown = {} \/ Cardinality(Unshown) + walk.page * PerPage <= walk.total + walk.late
    BY <2>1 DEF UnshownAreFew
  <2>6. Cardinality(Unshown) <= walk.late
    <3>1. CASE Unshown = {}
      <4>1. Cardinality(Unshown) = 0
        BY <2>4, <3>1
      <4> QED BY <2>2, <4>1
    <3>2. CASE Unshown # {}
      BY <2>2, <2>3, <2>4, <2>5, <3>2
    <3> QED BY <3>1, <3>2
  <2> QED BY <2>1, <2>6 DEF CountsOK
<1> QED BY <1>1, AuditInvariance, PTL
-----------------------------------------------------------------------------
\* The cache implements Statistics.

\* Who has counted and is not answered yet.
Counting == {c \in Callers : spc[c] = "store"}

LEMMA TellAnswers ==
    ASSUME StatsInv, log \in Seq(Entries), NEW c \in Callers, NEW s, OfPrefix(s, log),
           settled <= s.checks, Tell(c, s), log' = log, Counting' = Counting \ {c}
    PROVE  Promise!Answer(c)
<1>1. s.checks \in settled .. Len(log)
  BY DEF StatsInv, OfPrefix
<1>2. answer' = StatsOf(SubSeq(log, 1, s.checks))
  BY DEF Tell, OfPrefix
<1>3. (\A d \in Callers \ {c} : spc[d] # "store") <=> Counting \subseteq {c}
  BY DEF Counting
<1>4. settled' = IF Counting \subseteq {c} THEN s.checks ELSE settled
  BY <1>3 DEF Tell
<1> QED BY <1>1, <1>2, <1>4 DEF Promise!Answer, Counting

LEMMA StepOfStatistics ==
    ASSUME AuditInv, [Next]_vars
    PROVE  [Promise!Next]_<<log, Counting, answer, settled>>
<1>1. log \in Seq(Entries) /\ StatsInv /\ CallsOK
  BY DEF AuditInv, CallsOK
<1>2. ASSUME NEW a \in Appenders, Commit(a) PROVE Promise!Next
  <2>1. UNCHANGED <<spc, answer, settled>> /\ Promise!AppendEntry
    BY <1>2 DEF Commit, stats, Promise!AppendEntry, Counting
  <2> QED BY <2>1 DEF Promise!Next
<1>3. ASSUME NEW c \in Callers, Lookup(c)
      PROVE  Promise!Next \/ UNCHANGED <<log, Counting, answer, settled>>
  <2>1. CASE Valid
    <3>1. Tell(c, cache) /\ spc' = spc /\ log' = log /\ age # Unset /\ c \notin Counting
      BY <1>3, <2>1 DEF Lookup, Valid, Counting
    <3>2. Counting' = Counting \ {c}
      BY <3>1 DEF Counting
    <3>3. Promise!Answer(c)
      BY <1>1, <3>1, <3>2, TellAnswers DEF StatsInv
    <3> QED BY <3>3 DEF Promise!Next
  <2>2. CASE ~Valid
    <3>1. /\ spc[c] = "idle" /\ spc' = [spc EXCEPT ![c] = "scan"]
          /\ UNCHANGED <<log, answer, settled>>
      BY <1>3, <2>2 DEF Lookup
    <3>2. Counting' = Counting
      BY <1>1, <3>1 DEF Counting, CallsOK
    <3> QED BY <3>1, <3>2
  <2> QED BY <2>1, <2>2
<1>4. ASSUME NEW c \in Callers, ScanStats(c)
      PROVE  Promise!Next \/ UNCHANGED <<log, Counting, answer, settled>>
  <2>1. spc[c] = "scan" /\ UNCHANGED <<log, answer, settled>> /\ c \notin Counting
    BY <1>4 DEF ScanStats, Counting
  <2>2. CASE spc' = [spc EXCEPT ![c] = "store"]
    <3>1. Counting' = Counting \cup {c}
      BY <1>1, <2>1, <2>2 DEF Counting, CallsOK
    <3>2. Promise!Count(c)
      BY <2>1, <3>1 DEF Promise!Count, Counting
    <3> QED BY <3>2 DEF Promise!Next
  <2>3. CASE spc' = [spc EXCEPT ![c] = "idle"]
    <3>1. Counting' = Counting
      BY <1>1, <2>1, <2>3 DEF Counting, CallsOK
    <3> QED BY <2>1, <3>1
  <2> QED BY <1>4, <2>2, <2>3 DEF ScanStats
<1>5. ASSUME NEW c \in Callers, Store(c) PROVE Promise!Next
  <2>1. /\ Tell(c, seen[c]) /\ spc[c] = "store" /\ log' = log
        /\ spc' = [spc EXCEPT ![c] = "idle"]
    BY <1>5 DEF Store
  <2>2. Counting' = Counting \ {c}
    BY <1>1, <2>1 DEF Counting, CallsOK
  <2>3. Promise!Answer(c)
    BY <1>1, <2>1, <2>2, TellAnswers DEF StatsInv
  <2> QED BY <2>3 DEF Promise!Next
<1>6. ASSUME NEW a \in Appenders, Clear(a) \/ CommitFails(a)
      PROVE  UNCHANGED <<log, spc, answer, settled>>
  BY <1>6 DEF Clear, CommitFails, stats
<1>7. ASSUME Open \/ ListFiltered \/ Count \/ ScanPage \/ TurnPage \/ Tick
      PROVE  UNCHANGED <<log, spc, answer, settled>>
  BY <1>7 DEF Open, ListFiltered, Count, ScanPage, TurnPage, Tick, stats
<1>8. ASSUME UNCHANGED vars PROVE UNCHANGED <<log, spc, answer, settled>>
  BY <1>8 DEF vars, stats
<1>9. ASSUME UNCHANGED <<log, spc, answer, settled>>
      PROVE  UNCHANGED <<log, Counting, answer, settled>>
  BY <1>9 DEF Counting
<1> QED BY <1>2, <1>3, <1>4, <1>5, <1>6, <1>7, <1>8, <1>9 DEF Next

\* Whatever the cache holds, expires or loses, and however many calls scan at
\* once and store in whatever order, every answer is the statistics of one log,
\* and none goes back behind one that was given while no other scan was waiting
\* to be stored.
THEOREM CacheImplementsStatistics == Spec => ImplementsStatistics
<1>1. Init => Promise!Init
  BY DEF Init, NoStats, Promise!Init
<1>2. AuditInv /\ [Next]_vars
         => [Promise!Next]_<<log, {c \in Callers : spc[c] = "store"}, answer, settled>>
  BY StepOfStatistics DEF Counting
<1> QED
  BY <1>1, <1>2, AuditInvariance, PTL DEF Spec, ImplementsStatistics, Promise!Spec

\* Once shown while no other scan was waiting, neither the number of checks nor
\* the time of the last match is ever shown smaller, to any caller.
SettledAnswersStay ==
    [][/\ settled' >= settled
       /\ answer'.checks >= settled
       /\ answer'.last >= StatsOf(SubSeq(log, 1, settled)).last]_<<answer, settled>>

THEOREM SettledStatisticsStay == Spec => SettledAnswersStay
<1> DEFINE Stays == /\ settled' >= settled
                    /\ answer'.checks >= settled
                    /\ answer'.last >= StatsOf(SubSeq(log, 1, settled)).last
<1>1. ASSUME AuditInv, [Promise!Next]_<<log, Counting, answer, settled>>
      PROVE  [Stays]_<<answer, settled>>
  <2> SUFFICES ASSUME ~UNCHANGED <<answer, settled>> PROVE Stays
    OBVIOUS
  <2>1. log \in Seq(Entries) /\ settled \in 0..Len(log) /\ Len(log) \in Nat
    BY <1>1 DEF AuditInv, CallsOK, StatsInv
  <2>2. PICK c \in Callers : Promise!Answer(c)
    BY <1>1 DEF Promise!Next, Promise!Count, Promise!AppendEntry
  <2>3. PICK n \in settled .. Len(log) :
           answer' = StatsOf(SubSeq(log, 1, n)) /\ settled' \in {n, settled}
    BY <2>2 DEF Promise!Answer
  <2>4. n \in 0..Len(log) /\ settled <= n
    BY <2>1
  <2> DEFINE p == SubSeq(log, 1, settled)
             q == SubSeq(log, 1, n)
  <2>5. StatsOf(q).checks = n
    BY <2>1, <2>4, PrefixStats
  <2>6. p \in Seq(Entries) /\ q \in Seq(Entries) /\ Grown(p, q)
    BY <2>1, <2>4, PrefixStats DEF Grown
  <2>7. StatsOf(p).last <= StatsOf(q).last
    BY <2>6, LastGrows
  <2> QED BY <2>1, <2>3, <2>4, <2>5, <2>7
<1> QED
  BY <1>1, AuditInvariance, StepOfStatistics, PTL DEF Spec, SettledAnswersStay
-----------------------------------------------------------------------------
\* The scan for unmatched entries.

\* g is a on 0, and each of its values up to n follows from the one before.
Recursive(g, n, V, a, F) ==
    g \in [0..n -> V] /\ g[0] = a /\ \A k \in 1..n : g[k] = F[k][g[k - 1]]

\* There is such a function.
LEMMA RecursionExists ==
    ASSUME NEW n \in Nat, NEW V, NEW a \in V, NEW F \in [1..n -> [V -> V]]
    PROVE  \E g : Recursive(g, n, V, a, F)
<1> DEFINE Solves(g, m) == g[0] = a /\ \A k \in 1..m : g[k] = F[k][g[k - 1]]
           Bad == {m \in 0..n : ~(\E g \in [0..m -> V] : Solves(g, m))}
<1>1. Bad = {}
  <2> SUFFICES ASSUME Bad # {} PROVE FALSE
    OBVIOUS
  <2>1. PICK m \in Bad : \A j \in Bad : m <= j
    <3>1. Bad \subseteq Nat
      OBVIOUS
    <3> HIDE DEF Bad
    <3> QED BY <3>1, LeastNumber
  <2>2. m \in 0..n /\ ~(\E g \in [0..m -> V] : Solves(g, m))
    BY <2>1
  <2>3. CASE m = 0
    <3> DEFINE g == [k \in 0..0 |-> a]
    <3>1. g \in [0..0 -> V] /\ g[0] = a
      OBVIOUS
    <3>2. Solves(g, 0)
      BY <3>1
    <3> QED BY <2>2, <2>3, <3>1, <3>2
  <2>4. CASE m # 0
    <3>1. m \in 1..n /\ m - 1 \in 0..n /\ m - 1 \notin Bad
      <4>1. m \in 1..n /\ m - 1 \in 0..n /\ ~(m <= m - 1)
        BY <2>2, <2>4
      <4> HIDE DEF Bad
      <4> QED BY <4>1, <2>1
    <3>2. PICK g \in [0..m - 1 -> V] : Solves(g, m - 1)
      BY <3>1
    <3> DEFINE h == [k \in 0..m |-> IF k = m THEN F[m][g[m - 1]] ELSE g[k]]
    <3>3. F[m][g[m - 1]] \in V
      <4>1. g[m - 1] \in V
        BY <3>1, <3>2
      <4> QED BY <3>1, <4>1
    <3>4. h \in [0..m -> V]
      BY <3>1, <3>3
    <3>5. h[m] = F[m][g[m - 1]] /\ \A k \in 0..m - 1 : h[k] = g[k]
      BY <3>1
    <3> HIDE DEF h
    <3>6. h[0] = a
      BY <3>1, <3>2, <3>5
    <3>7. ASSUME NEW k \in 1..m PROVE h[k] = F[k][h[k - 1]]
      <4>1. h[k - 1] = g[k - 1]
        BY <3>1, <3>5
      <4>2. CASE k = m
        BY <3>5, <4>1, <4>2
      <4>3. CASE k # m
        <5>1. k \in 1..m - 1 /\ h[k] = g[k]
          BY <3>1, <3>5, <4>3
        <5> QED BY <3>2, <4>1, <5>1
      <4> QED BY <4>2, <4>3
    <3> QED BY <2>2, <3>4, <3>6, <3>7
  <2> QED BY <2>3, <2>4
<1>2. n \notin Bad
  <2> HIDE DEF Bad
  <2> QED BY <1>1
<1> QED BY <1>2 DEF Recursive

Scans == [bytes : Nat, found : SUBSET Nat]

\* The scan is what its equation says.
LEMMA UnmatchedScanStep ==
    ASSUME NEW l \in Seq(Entries), NEW scan, scan = UnmatchedScan(l)
    PROVE  /\ scan[0] = [bytes |-> 0, found |-> {}]
           /\ \A k \in 1..Len(l) :
                 scan[k] = ScanUnmatched(l, Len(l) - k + 1, scan[k - 1])
<1> DEFINE n == Len(l)
           F == [k \in 1..n |-> [s \in Scans |-> ScanUnmatched(l, n - k + 1, s)]]
           none == [bytes |-> 0, found |-> {}]
           Body(g) == [k \in 0..n |-> IF k = 0 THEN none
                                       ELSE ScanUnmatched(l, n - k + 1, g[k - 1])]
<1>1. n \in Nat /\ none \in Scans
  BY DEF Scans
<1>2. F \in [1..n -> [Scans -> Scans]]
  <2> SUFFICES ASSUME NEW k \in 1..n, NEW s \in Scans
               PROVE  ScanUnmatched(l, n - k + 1, s) \in Scans
    OBVIOUS
  <2>1. n - k + 1 \in 1..n
    BY <1>1
  <2> DEFINE i == n - k + 1
  <2> HIDE DEF i
  <2>2. l[i] \in Entries /\ Bytes(l[i]) \in Nat /\ i \in Nat
    BY <2>1, AuditRepositoryAssumption DEF i
  <2>3. /\ s.bytes + Bytes(l[i]) \in Nat
        /\ s.found \cup {j \in {i} : ReadStatus("ListUnmatched", l[j]) = "not_matched"} \in SUBSET Nat
    BY <2>2 DEF Scans
  <2>4. ScanUnmatched(l, i, s) \in Scans
    BY <2>3 DEF ScanUnmatched, Scans
  <2> QED BY <2>4 DEF i
<1>3. PICK g : Recursive(g, n, Scans, none, F)
  <2> HIDE DEF n, F, none
  <2> QED BY <1>1, <1>2, RecursionExists
<1>4. \A k \in 1..n : g[k] = ScanUnmatched(l, n - k + 1, g[k - 1])
  <2> SUFFICES ASSUME NEW k \in 1..n PROVE g[k] = ScanUnmatched(l, n - k + 1, g[k - 1])
    OBVIOUS
  <2>1. g[k - 1] \in Scans
    BY <1>1, <1>3 DEF Recursive
  <2> QED BY <1>3, <2>1 DEF Recursive
<1>5. g = Body(g)
  BY <1>3, <1>4 DEF Recursive
<1>6. scan = CHOOSE f : f = Body(f)
  BY DEF UnmatchedScan
<1>7. scan = Body(scan)
  <2> HIDE DEF Body
  <2> QED BY <1>5, <1>6
<1>8. scan[0] = none /\ \A k \in 1..n : scan[k] = ScanUnmatched(l, n - k + 1, scan[k - 1])
  <2>1. Body(scan)[0] = none
    BY <1>1
  <2>2. ASSUME NEW k \in 1..n
        PROVE  Body(scan)[k] = ScanUnmatched(l, n - k + 1, scan[k - 1])
    <3>1. k \in 0..n /\ k # 0
      BY <1>1
    <3> QED BY <3>1
  <2> HIDE DEF Body
  <2> QED BY <1>7, <2>1, <2>2
<1> QED BY <1>8

LEMMA NewestBytesStep ==
    ASSUME NEW l \in Seq(Entries), NEW sum, sum = NewestBytes(l)
    PROVE  /\ sum \in [0..Len(l) -> Nat] /\ sum[0] = 0
           /\ \A k \in 1..Len(l) : sum[k] = sum[k - 1] + Bytes(l[Len(l) - k + 1])
<1> DEFINE n == Len(l)
           F == [k \in 1..n |-> [s \in Nat |-> s + Bytes(l[n - k + 1])]]
           Body(g) == [k \in 0..n |-> IF k = 0 THEN 0 ELSE g[k - 1] + Bytes(l[n - k + 1])]
<1>1. n \in Nat
  OBVIOUS
<1>2. F \in [1..n -> [Nat -> Nat]]
  <2> SUFFICES ASSUME NEW k \in 1..n, NEW s \in Nat PROVE s + Bytes(l[n - k + 1]) \in Nat
    OBVIOUS
  <2>1. n - k + 1 \in 1..n
    BY <1>1
  <2> QED BY <2>1, AuditRepositoryAssumption
<1>3. PICK g : Recursive(g, n, Nat, 0, F)
  <2> HIDE DEF n, F
  <2> QED BY <1>1, <1>2, RecursionExists
<1>4. \A k \in 1..n : g[k] = g[k - 1] + Bytes(l[n - k + 1])
  <2> SUFFICES ASSUME NEW k \in 1..n PROVE g[k] = g[k - 1] + Bytes(l[n - k + 1])
    OBVIOUS
  <2>1. g[k - 1] \in Nat
    BY <1>1, <1>3 DEF Recursive
  <2> QED BY <1>3, <2>1 DEF Recursive
<1>5. g = Body(g)
  BY <1>3, <1>4 DEF Recursive
<1>6. sum = CHOOSE f : f = Body(f)
  BY DEF NewestBytes
<1>7. sum = Body(sum)
  <2> HIDE DEF Body
  <2> QED BY <1>5, <1>6
<1>8. DOMAIN sum = 0..n /\ sum[0] = 0
  BY <1>1, <1>7
<1>9. ASSUME NEW k \in 1..n PROVE sum[k] = sum[k - 1] + Bytes(l[n - k + 1])
  <2>1. k \in 0..n /\ k # 0
    BY <1>1
  <2>2. Body(sum)[k] = sum[k - 1] + Bytes(l[n - k + 1])
    BY <2>1
  <2> HIDE DEF Body
  <2> QED BY <1>7, <2>2
<1>10. \A k \in 0..n : sum[k] \in Nat
  <2> DEFINE Bad == {k \in 0..n : sum[k] \notin Nat}
  <2> SUFFICES ASSUME Bad # {} PROVE FALSE
    OBVIOUS
  <2>1. PICK k \in Bad : \A j \in Bad : k <= j
    <3>1. Bad \subseteq Nat
      OBVIOUS
    <3> HIDE DEF Bad
    <3> QED BY <3>1, LeastNumber
  <2>2. k \in 1..n /\ k - 1 \in 0..n /\ k - 1 \notin Bad
    <3>1. k \in 1..n /\ k - 1 \in 0..n /\ ~(k <= k - 1)
      BY <1>8, <2>1
    <3> HIDE DEF Bad
    <3> QED BY <2>1, <3>1
  <2>3. sum[k] = sum[k - 1] + Bytes(l[n - k + 1]) /\ sum[k - 1] \in Nat
    BY <1>9, <2>2
  <2>4. n - k + 1 \in 1..n
    BY <1>1, <2>2
  <2>5. Bytes(l[n - k + 1]) \in Nat
    BY <2>4, AuditRepositoryAssumption
  <2>6. sum[k] \in Nat
    BY <2>3, <2>5
  <2> QED BY <2>1, <2>6
<1>11. sum = [k \in 0..n |-> sum[k]]
  BY <1>7
<1> QED BY <1>8, <1>9, <1>10, <1>11

\* More entries are no smaller.
LEMMA NewestBytesGrows ==
    ASSUME NEW l \in Seq(Entries), NEW j \in 0..Len(l), NEW k \in 0..Len(l), j <= k
    PROVE  NewestBytes(l)[j] <= NewestBytes(l)[k]
<1> DEFINE n == Len(l)
           sum == NewestBytes(l)
           Bad == {i \in 0..n : j <= i /\ ~(sum[j] <= sum[i])}
<1>1. /\ sum \in [0..n -> Nat]
      /\ \A i \in 1..n : sum[i] = sum[i - 1] + Bytes(l[n - i + 1])
  BY NewestBytesStep
<1> HIDE DEF sum
<1>2. Bad = {}
  <2> SUFFICES ASSUME Bad # {} PROVE FALSE
    OBVIOUS
  <2>1. PICK m \in Bad : \A i \in Bad : m <= i
    <3>1. Bad \subseteq Nat
      OBVIOUS
    <3> HIDE DEF Bad
    <3> QED BY <3>1, LeastNumber
  <2>2. m \in 0..n /\ j <= m /\ ~(sum[j] <= sum[m]) /\ sum[j] \in Nat /\ sum[m] \in Nat
    BY <1>1, <2>1
  <2>3. m # j
    BY <2>2
  <2>4. m \in 1..n /\ m - 1 \in 0..n /\ j <= m - 1 /\ ~(m <= m - 1) /\ n - m + 1 \in 1..n
    BY <2>2, <2>3
  <2>5. m - 1 \notin Bad
    <3> HIDE DEF Bad
    <3> QED BY <2>1, <2>4
  <2>6. sum[j] <= sum[m - 1] /\ sum[m - 1] \in Nat
    BY <1>1, <2>4, <2>5
  <2>7. Bytes(l[n - m + 1]) \in Nat
    BY <2>4, AuditRepositoryAssumption
  <2>8. sum[m] = sum[m - 1] + Bytes(l[n - m + 1])
    BY <1>1, <2>4
  <2> QED BY <2>2, <2>6, <2>7, <2>8
<1>3. k \notin Bad
  <2> HIDE DEF Bad
  <2> QED BY <1>2
<1> QED BY <1>3 DEF sum

\* After k turns the scan has read and kept everything of the m newest entries,
\* and m is smaller than k only if one of the limits has been reached.
ScanHasRead(l, s, m, k) ==
    /\ s.bytes = NewestBytes(l)[m]
    /\ s.found = {i \in ListedIn("filtered", l) : i > Len(l) - m}
    /\ Cardinality(s.found) <= MaxUnmatched
    /\ m = k \/ s.bytes >= MaxScanBytes \/ Cardinality(s.found) = MaxUnmatched

LEMMA ScanTurn ==
    ASSUME NEW l \in Seq(Entries), NEW k \in 1..Len(l), NEW m \in 0..k - 1, NEW s \in Scans,
           ScanHasRead(l, s, m, k - 1), NEW t, t = ScanUnmatched(l, Len(l) - k + 1, s)
    PROVE  \E q \in 0..k : ScanHasRead(l, t, q, k)
<1> DEFINE n == Len(l)
           i == n - k + 1
           L == ListedIn("filtered", l)
           new == {j \in {i} : ReadStatus("ListUnmatched", l[j]) = "not_matched"}
<1>1. /\ n \in Nat /\ k \in 1..n /\ i \in 1..n /\ m \in 0..k /\ k \in 0..k
      /\ MaxUnmatched \in Nat /\ MaxScanBytes \in Nat
  BY AuditRepositoryAssumption
<1>2. s.bytes \in Nat /\ Bytes(l[i]) \in Nat
  BY <1>1, AuditRepositoryAssumption DEF Scans
<1>3. IsFiniteSet(s.found) /\ Cardinality(s.found) \in Nat
  BY ListingFinite, FS_Subset, FS_CardinalityType DEF ScanHasRead
<1>4. CASE s.bytes < MaxScanBytes /\ Cardinality(s.found) < MaxUnmatched
  <2>1. t = [bytes |-> s.bytes + Bytes(l[i]), found |-> s.found \cup new]
    BY <1>4 DEF ScanUnmatched
  <2>2. m = k - 1
    BY <1>1, <1>2, <1>3, <1>4 DEF ScanHasRead
  <2>3. t.bytes = NewestBytes(l)[k]
    BY <1>1, <2>1, <2>2, NewestBytesStep DEF ScanHasRead
  <2>4. new = {j \in L : j = i}
    <3>1. ReadStatus("ListUnmatched", l[i]) = ReadStatus("ListPaginated", l[i])
      BY <1>1, ReadsAStatus, ReadersNamed
    <3> QED BY <1>1, <3>1 DEF ListedIn, Listed, PageReader
  <2>5. t.found = {j \in L : j > n - k}
    <3>1. L \subseteq 1..n
      BY ListingFinite
    <3>2. s.found = {j \in L : j > n - (k - 1)}
      BY <2>2 DEF ScanHasRead
    <3>3. t.found = s.found \cup new
      BY <2>1
    <3>4. ASSUME NEW j \in L PROVE (j > n - (k - 1) \/ j = i) <=> j > n - k
      BY <1>1, <3>1
    <3> HIDE DEF L, new, i
    <3> QED BY <2>4, <3>2, <3>3, <3>4
  <2>6. Cardinality(t.found) <= MaxUnmatched
    <3>1. new = {} \/ new = {i}
      OBVIOUS
    <3>2. t.found = s.found \/ t.found = s.found \cup {i}
      <4>1. t.found = s.found \cup new
        BY <2>1
      <4> HIDE DEF new, i
      <4> QED BY <3>1, <4>1
    <3>3. Cardinality(s.found \cup {i})
             = IF i \in s.found THEN Cardinality(s.found) ELSE Cardinality(s.found) + 1
      <4> HIDE DEF i
      <4> QED BY <1>3, FS_AddElement
    <3>4. Cardinality(t.found) = Cardinality(s.found) \/ Cardinality(t.found) = Cardinality(s.found) + 1
      <4> HIDE DEF i
      <4> QED BY <3>2, <3>3
    <3> QED BY <1>1, <1>3, <1>4, <3>4
  <2> QED BY <1>1, <2>3, <2>5, <2>6 DEF ScanHasRead
<1>5. CASE ~(s.bytes < MaxScanBytes /\ Cardinality(s.found) < MaxUnmatched)
  <2>1. t = s
    BY <1>5 DEF ScanUnmatched
  <2>2. s.bytes >= MaxScanBytes \/ Cardinality(s.found) = MaxUnmatched
    BY <1>1, <1>2, <1>3, <1>5 DEF ScanHasRead
  <2> QED BY <1>1, <2>1, <2>2 DEF ScanHasRead
<1> QED BY <1>4, <1>5

LEMMA ScanReadsNewest ==
    ASSUME NEW l \in Seq(Entries), NEW k \in 0..Len(l)
    PROVE  UnmatchedScan(l)[k] \in Scans /\ \E m \in 0..k : ScanHasRead(l, UnmatchedScan(l)[k], m, k)
<1> DEFINE n == Len(l)
           scan == UnmatchedScan(l)
           Good(j) == scan[j] \in Scans /\ \E m \in 0..j : ScanHasRead(l, scan[j], m, j)
           Bad == {j \in 0..n : ~Good(j)}
<1>1. /\ scan[0] = [bytes |-> 0, found |-> {}]
      /\ \A j \in 1..n : scan[j] = ScanUnmatched(l, n - j + 1, scan[j - 1])
  BY UnmatchedScanStep
<1> HIDE DEF scan
<1>2. Good(0)
  <2>1. scan[0] \in Scans /\ scan[0].bytes = 0 /\ scan[0].found = {}
    BY <1>1 DEF Scans
  <2>2. {i \in ListedIn("filtered", l) : i > Len(l) - 0} = {}
    BY ListingFinite
  <2>3. NewestBytes(l)[0] = 0
    BY NewestBytesStep
  <2>4. Cardinality({}) <= MaxUnmatched
    BY FS_EmptySet, AuditRepositoryAssumption
  <2>5. ScanHasRead(l, scan[0], 0, 0)
    BY <2>1, <2>2, <2>3, <2>4 DEF ScanHasRead
  <2> QED BY <2>1, <2>5
<1>3. ASSUME NEW j \in 1..n, Good(j - 1) PROVE Good(j)
  <2>1. PICK m \in 0..j - 1 : ScanHasRead(l, scan[j - 1], m, j - 1)
    BY <1>3
  <2>2. scan[j] = ScanUnmatched(l, n - j + 1, scan[j - 1])
    BY <1>1
  <2>3. \E q \in 0..j : ScanHasRead(l, scan[j], q, j)
    BY <1>3, <2>1, <2>2, ScanTurn
  <2>4. scan[j] \in Scans
    <3> DEFINE i == n - j + 1
    <3>1. i \in 1..n
      OBVIOUS
    <3> HIDE DEF i
    <3>2. Bytes(l[i]) \in Nat /\ i \in Nat
      BY <3>1, AuditRepositoryAssumption
    <3>3. /\ scan[j - 1].bytes + Bytes(l[i]) \in Nat
          /\ scan[j - 1].found \cup {q \in {i} : ReadStatus("ListUnmatched", l[q]) = "not_matched"} \in SUBSET Nat
      BY <1>3, <3>2 DEF Scans
    <3>4. ScanUnmatched(l, i, scan[j - 1]) \in Scans
      BY <1>3, <3>3 DEF ScanUnmatched, Scans
    <3> QED BY <2>2, <3>4 DEF i
  <2> QED BY <2>3, <2>4
<1> HIDE DEF Good
<1>4. Bad = {}
  <2> SUFFICES ASSUME Bad # {} PROVE FALSE
    OBVIOUS
  <2>1. PICK j \in Bad : \A i \in Bad : j <= i
    <3>1. Bad \subseteq Nat
      OBVIOUS
    <3> HIDE DEF Bad
    <3> QED BY <3>1, LeastNumber
  <2>2. j \in 1..n /\ j - 1 \in 0..n /\ ~(j <= j - 1)
    BY <1>2, <2>1
  <2>3. j - 1 \notin Bad
    <3> HIDE DEF Bad
    <3> QED BY <2>1, <2>2
  <2>4. Good(j)
    BY <1>3, <2>2, <2>3
  <2> QED BY <2>1, <2>4
<1>5. Good(k)
  <2>1. k \notin Bad
    <3> HIDE DEF Bad
    <3> QED BY <1>4
  <2> QED BY <2>1
<1> QED BY <1>5 DEF Good, scan
-----------------------------------------------------------------------------
\* The queries agree.

\* What ListUnmatched leaves out lies behind one of its two limits.
LEMMA TopOfUnmatched == log \in Seq(Entries) => UnmatchedAreNewest
<1> SUFFICES ASSUME log \in Seq(Entries) PROVE UnmatchedAreNewest
  OBVIOUS
<1> DEFINE n == Len(log)
           s == UnmatchedScan(log)[n]
           found == ListUnmatched(log)
           L == ListedIn("filtered", log)
<1>1. n \in Nat /\ n \in 0..n /\ L \subseteq 1..n
  BY ListingFinite
<1>2. PICK m \in 0..n : ScanHasRead(log, s, m, n)
  <2> HIDE DEF n
  <2> QED BY <1>1, ScanReadsNewest DEF n
<1>3. found = s.found
  BY DEF ListUnmatched
<1>4. /\ found = {i \in L : i > n - m} /\ Cardinality(found) <= MaxUnmatched
      /\ m = n \/ NewestBytes(log)[m] >= MaxScanBytes \/ Cardinality(found) = MaxUnmatched
  BY <1>2, <1>3 DEF ScanHasRead
<1> HIDE DEF found
<1>5. ASSUME NEW i \in L \ found
      PROVE  /\ \A j \in found : j > i
             /\ \/ Cardinality(found) = MaxUnmatched
                \/ NewestBytes(log)[n - i] >= MaxScanBytes
  <2>1. i \in 1..n /\ i <= n - m /\ m # n /\ m <= n - i /\ n - i \in 0..n
    BY <1>1, <1>4, <1>5
  <2>2. \A j \in found : j > i
    BY <1>1, <1>4, <2>1
  <2>3. ASSUME NewestBytes(log)[m] >= MaxScanBytes
        PROVE  NewestBytes(log)[n - i] >= MaxScanBytes
    <3>1. NewestBytes(log)[m] <= NewestBytes(log)[n - i]
      BY <2>1, NewestBytesGrows
    <3>2. NewestBytes(log)[m] \in Nat /\ NewestBytes(log)[n - i] \in Nat /\ MaxScanBytes \in Nat
      BY <2>1, NewestBytesStep, AuditRepositoryAssumption
    <3> QED BY <2>3, <3>1, <3>2
  <2> QED BY <1>4, <2>1, <2>2, <2>3
<1> QED BY <1>4, <1>5 DEF UnmatchedAreNewest, found

\* The total and the two tallies of the summary come from the same entries as
\* the rows of the listing.
LEMMA SummaryAgrees == log \in Seq(Entries) => SummaryAgreesWithListing
<1> SUFFICES ASSUME log \in Seq(Entries) PROVE SummaryAgreesWithListing
  OBVIOUS
<1> DEFINE read(i) == ReadStatus("ComputeRecognizeSummary", log[i])
           Tally(S) == {i \in DOMAIN log :
                          Recognized("ComputeRecognizeSummary", log[i]) /\ read(i) \in S}
           A == Tally({"matched"})
           B == Tally({"not_matched"})
           L == ListedIn("recognized", log)
<1>0. ASSUME NEW i \in DOMAIN log
      PROVE  /\ read(i) \in Status
             /\ \A reader \in Readers : ReadStatus(reader, log[i]) = read(i)
  BY ReadsAStatus, ReadersNamed
<1>1. /\ L = {i \in DOMAIN log : Recognized("ComputeRecognizeSummary", log[i])}
      /\ L = {i \in DOMAIN log : Recognized("CountRecognizeEntries", log[i])}
      /\ IsFiniteSet(L)
  <2>1. \A i \in DOMAIN log :
           /\ ReadStatus("ListRecognizePage", log[i]) = read(i)
           /\ ReadStatus("CountRecognizeEntries", log[i]) = read(i)
    BY <1>0, ReadersNamed
  <2>2. L = {i \in DOMAIN log : Recognized("ListRecognizePage", log[i])}
    BY DEF ListedIn, Listed, PageReader
  <2>3. IsFiniteSet(L)
    BY ListingFinite
  <2> QED BY <2>1, <2>2, <2>3 DEF Recognized
<1>2. \A i \in DOMAIN log : read(i) \in Status
  BY <1>0
<1>3. Tally(Status) = L /\ L = A \cup B /\ A \cap B = {}
  <2>1. \A i \in L : read(i) \in {"matched", "not_matched"}
    BY <1>1, <1>2 DEF Recognized, Status
  <2> QED BY <1>1, <1>2, <2>1
<1>4. /\ RecognizeSummary(log).total = Cardinality(Tally(Status))
      /\ RecognizeSummary(log).matched = Cardinality(A)
      /\ RecognizeSummary(log).notMatched = Cardinality(B)
  BY DEF RecognizeSummary
<1>5. Total("recognized", log) = Cardinality(L) /\ RecognizeCount(log) = Cardinality(L)
  BY <1>1, TotalIsListed DEF RecognizeCount
<1> HIDE DEF A, B, L
<1>6. IsFiniteSet(A) /\ IsFiniteSet(B)
  BY <1>1, <1>3, FS_Subset
<1>7. Cardinality(A \cup B) = Cardinality(A) + Cardinality(B) - Cardinality(A \cap B)
  BY <1>6, FS_Union
<1>8. Cardinality(A) \in Nat /\ Cardinality(B) \in Nat /\ Cardinality(A \cap B) = 0
  BY <1>3, <1>6, FS_CardinalityType, FS_EmptySet
<1>9. Cardinality(L) = Cardinality(A) + Cardinality(B)
  BY <1>3, <1>7, <1>8
<1> QED BY <1>3, <1>4, <1>5, <1>9 DEF SummaryAgreesWithListing, L

\* The unmatched entries of the statistics are the rows of the filtered listing.
LEMMA StatisticsAgree == log \in Seq(Entries) => StatisticsAgreeWithListing
<1> SUFFICES ASSUME log \in Seq(Entries) PROVE StatisticsAgreeWithListing
  OBVIOUS
<1>1. \A i \in DOMAIN log :
         ReadStatus("ComputeStats", log[i]) = ReadStatus("ListPaginated", log[i])
  BY ReadsAStatus, ReadersNamed
<1>2. ListedIn("filtered", log)
         = {i \in DOMAIN log : ReadStatus("ComputeStats", log[i]) = "not_matched"}
  BY <1>1 DEF ListedIn, Listed, PageReader
<1> QED BY <1>2 DEF StatisticsAgreeWithListing, StatsOf, CountWith

\* The newest of the entries of a second is no older than any of them.
LEMMA FaceOfRowHolds == log \in Seq(Entries) /\ walk.rows \subseteq DOMAIN log => FaceOfRow
<1> SUFFICES ASSUME log \in Seq(Entries), NEW i \in DOMAIN log,
                    NEW face, face = FaceAt(log, log[i].sec)
             PROVE  /\ log[face].sec = log[i].sec
                    /\ face >= i
                    /\ (\A j \in DOMAIN log : log[j].sec = log[i].sec => j = i) => face = i
  BY DEF FaceOfRow
<1> DEFINE T == {j \in DOMAIN log : log[j].sec = log[i].sec}
<1>1. i \in T /\ T \subseteq 1..Len(log) /\ T \subseteq Nat /\ Len(log) \in Nat
  OBVIOUS
<1>2. IsFiniteSet(T)
  BY <1>1, FS_Interval, FS_Subset
<1>3. face = Max(T)
  BY DEF FaceAt
<1>4. face \in T /\ \A j \in T : face >= j
  <2> HIDE DEF T
  <2> QED BY <1>1, <1>2, <1>3, MaxOfFinite
<1> QED BY <1>1, <1>4

\* The listing of unmatched entries, the summary, the statistics and the face
\* view, each with its own reading of a missing status, say of the log
\* what its listings show, at any time.
THEOREM AuditQueriesAgree == Spec => []QueriesAgreeWithListings
<1>1. AuditInv => QueriesAgreeWithListings
  <2> SUFFICES ASSUME AuditInv PROVE QueriesAgreeWithListings
    OBVIOUS
  <2>1. log \in Seq(Entries) /\ walk.rows \subseteq DOMAIN log
    BY DEF AuditInv, CallsOK, WalkInv, RowsOK
  <2> QED BY <2>1, TopOfUnmatched, SummaryAgrees, StatisticsAgree, FaceOfRowHolds
          DEF QueriesAgreeWithListings
<1> QED BY <1>1, AuditInvariance, PTL
=============================================================================
