----------------------------- MODULE DepthProofs -----------------------------
(***************************************************************************)
(* The depth columns and the order-flow imbalance are right for every set  *)
(* of prices, quantities, bands and every number of levels kept.           *)
(*                                                                         *)
(* A ladder ranks each level by the number of better ones; ranks that       *)
(* differ, of which there are no more than levels, are all taken, so the   *)
(* ladder has every level once, in order.  An uncrossed mid lies between   *)
(* its two sides, so each leaves the band for good, and stopping there     *)
(* leaves out no level in it.  A sum of naturals is a number of pairs, so  *)
(* that over fewer levels, of a ladder that is cut, is no more.             *)
(***************************************************************************)
EXTENDS Depth, FiniteSetTheorems, SequenceTheorems, TLAPS

\* No two levels have the same rank.
IsRanking(rank, S) == /\ rank \in [S -> 0..(Cardinality(S) - 1)]
                      /\ \A p, r \in S : rank[p] = rank[r] => p = r

\* f holds the levels by rank.
IsByRank(f, rank, S) == /\ f \in [1..Cardinality(S) -> S]
                        /\ \A i \in 1..Cardinality(S) : rank[f[i]] = i - 1

\* Ranks that differ, of which there are no more than levels, are all taken.
LEMMA RanksAreTaken ==
    ASSUME NEW S, IsFiniteSet(S), NEW rank, IsRanking(rank, S)
    PROVE  \A i \in 1..Cardinality(S) : \E p \in S : rank[p] = i - 1
<1> DEFINE n == Cardinality(S)
           T == 0..(n - 1)
<1>1. n \in Nat
  BY FS_CardinalityType
<1>2. IsFiniteSet(T) /\ Cardinality(T) = n
  <2>1. 0 \in Int /\ n - 1 \in Int
    BY <1>1
  <2>2. IsFiniteSet(T) /\ Cardinality(T) = IF 0 > n - 1 THEN 0 ELSE (n - 1) - 0 + 1
    <3> HIDE DEF n
    <3> QED BY <2>1, FS_Interval
  <2> QED BY <1>1, <2>2
<1>3. rank \in Injection(S, T)
  BY DEF Injection, IsInjective, IsRanking
<1>4. rank \in Surjection(S, T)
  <2> HIDE DEF T, n
  <2>1. n = Cardinality(S)
    BY DEF n
  <2> QED BY <1>2, <1>3, <2>1, FS_Injection
<1> TAKE i \in 1..Cardinality(S)
<1>5. i - 1 \in T
  BY <1>1
<1> QED BY <1>4, <1>5 DEF Surjection

\* f is all of S.
IsLadderOf(f, S) ==
    /\ f \in Seq(S) /\ Len(f) = Cardinality(S) /\ Len(f) \in Nat /\ DOMAIN f = 1..Len(f)
    /\ \A p \in S : \E i \in 1..Len(f) : f[i] = p

\* The ladder that ranks give is a sequence of all the levels.
LEMMA RankedLadder ==
    ASSUME NEW S, IsFiniteSet(S), NEW rank, NEW f, IsRanking(rank, S), IsByRank(f, rank, S)
    PROVE  IsLadderOf(f, S)
<1> DEFINE n == Cardinality(S)
<1>1. n \in Nat
  BY FS_CardinalityType
<1>2. f \in Seq(S)
  <2> HIDE DEF n
  <2>1. f \in [1..n -> S]
    BY DEF n, IsByRank
  <2> QED BY <1>1, <2>1, SeqDef
<1>3. Len(f) = n /\ DOMAIN f = 1..n
  BY <1>1, <1>2 DEF IsByRank
<1>4. ASSUME NEW p \in S
      PROVE  \E i \in 1..n : f[i] = p
  <2>1. rank[p] + 1 \in 1..n /\ (rank[p] + 1) - 1 = rank[p]
    BY <1>1 DEF IsRanking
  <2>2. f[rank[p] + 1] \in S /\ rank[f[rank[p] + 1]] = rank[p]
    BY <2>1 DEF IsByRank
  <2> QED BY <2>1, <2>2 DEF IsRanking
<1> QED BY <1>1, <1>2, <1>3, <1>4 DEF IsLadderOf

\* A level with a better one has a higher rank than it.
LEMMA RankRises ==
    ASSUME NEW A, NEW B, IsFiniteSet(B), A \subseteq B, NEW p, p \in B, p \notin A
    PROVE  Cardinality(A) < Cardinality(B) /\ Cardinality(A) \in Nat /\ Cardinality(B) \in Nat
<1>1. IsFiniteSet(A) /\ Cardinality(A) <= Cardinality(B)
      /\ (Cardinality(B) = Cardinality(A) => B = A)
  BY FS_Subset
<1>2. Cardinality(A) \in Nat /\ Cardinality(B) \in Nat
  BY <1>1, FS_CardinalityType
<1> QED BY <1>1, <1>2

\* Each level has a set of better ones: none is better than itself, and of two one is.
Orders(better, S) ==
    /\ better \in [S -> SUBSET S]
    /\ \A p \in S : p \notin better[p]
    /\ \A p, r \in S : r \in better[p] => better[r] \subseteq better[p]
    /\ \A p, r \in S : p = r \/ p \in better[r] \/ r \in better[p]

\* The number of better levels is a rank, and says which of two is better.
LEMMA OrderRanks ==
    ASSUME NEW S, IsFiniteSet(S), NEW better, Orders(better, S)
    PROVE  LET rank == [p \in S |-> Cardinality(better[p])]
           IN  /\ IsRanking(rank, S)
               /\ \A p, r \in S : rank[r] < rank[p] => r \in better[p]
<1> DEFINE rank == [p \in S |-> Cardinality(better[p])]
<1>1. \A p \in S : better[p] \subseteq S /\ p \notin better[p]
  BY DEF Orders
<1>2. ASSUME NEW p \in S
      PROVE  rank[p] \in 0..(Cardinality(S) - 1)
  <2>1. Cardinality(better[p]) < Cardinality(S) /\ Cardinality(better[p]) \in Nat
        /\ Cardinality(S) \in Nat
    BY <1>1, RankRises
  <2> QED BY <2>1
<1>3. ASSUME NEW p \in S, NEW r \in S, r \in better[p]
      PROVE  rank[r] < rank[p]
  <2>1. better[r] \subseteq better[p] /\ r \notin better[r]
    BY <1>1, <1>3 DEF Orders
  <2>2. IsFiniteSet(better[p])
    BY <1>1, FS_Subset
  <2>3. Cardinality(better[r]) < Cardinality(better[p])
    BY <1>3, <2>1, <2>2, RankRises
  <2> QED BY <2>3
<1>4. rank \in [S -> 0..(Cardinality(S) - 1)]
  BY <1>2
<1> HIDE DEF rank
<1>5. ASSUME NEW p \in S, NEW r \in S
      PROVE  rank[p] \in Int /\ rank[r] \in Int
             /\ (p = r \/ rank[p] < rank[r] \/ rank[r] < rank[p])
  <2>1. p = r \/ p \in better[r] \/ r \in better[p]
    BY DEF Orders
  <2>2. rank[p] \in Int /\ rank[r] \in Int
    BY <1>2
  <2> QED BY <1>3, <2>1, <2>2
<1>6. IsRanking(rank, S)
  BY <1>4, <1>5 DEF IsRanking
<1>7. ASSUME NEW p \in S, NEW r \in S, rank[r] < rank[p]
      PROVE  r \in better[p]
  <2>1. p # r /\ ~(rank[p] < rank[r])
    BY <1>5, <1>7
  <2>2. ~(p \in better[r])
    BY <1>3, <2>1
  <2> QED BY <2>1, <2>2 DEF Orders
<1> QED BY <1>6, <1>7 DEF rank

\* Best first, every level has its place, and each is better than those behind it.
LEMMA BestFirstIsSorted ==
    ASSUME NEW S, IsFiniteSet(S), NEW better, Orders(better, S)
    PROVE  LET f == BestFirst(better)
           IN  IsLadderOf(f, S) /\ \A i, j \in 1..Len(f) : i < j => f[i] \in better[f[j]]
<1> DEFINE f == BestFirst(better)
           rank == [p \in S |-> Cardinality(better[p])]
<1>1. IsRanking(rank, S) /\ \A p, r \in S : rank[r] < rank[p] => r \in better[p]
  BY OrderRanks
<1>2. f = [i \in 1..Cardinality(S) |-> CHOOSE p \in S : Cardinality(better[p]) = i - 1]
  <2>1. DOMAIN better = S
    BY DEF Orders
  <2> QED BY <2>1 DEF BestFirst
<1>3. ASSUME NEW i \in 1..Cardinality(S)
      PROVE  f[i] \in S /\ rank[f[i]] = i - 1
  <2>1. PICK p \in S : rank[p] = i - 1
    <3> HIDE DEF rank, f
    <3> QED BY <1>1, RanksAreTaken
  <2>2. f[i] \in S /\ Cardinality(better[f[i]]) = i - 1
    BY <1>2, <2>1
  <2> QED BY <2>2
<1> HIDE DEF rank, f
<1>4. f \in [1..Cardinality(S) -> S]
  BY <1>2, <1>3
<1>5. IsByRank(f, rank, S)
  BY <1>3, <1>4 DEF IsByRank
<1>6. IsLadderOf(f, S)
  BY <1>1, <1>5, RankedLadder
<1>7. ASSUME NEW i \in 1..Len(f), NEW j \in 1..Len(f), i < j
      PROVE  f[i] \in better[f[j]]
  <2>1. Len(f) = Cardinality(S) /\ Len(f) \in Nat
    BY <1>6 DEF IsLadderOf
  <2>2. f[i] \in S /\ f[j] \in S /\ rank[f[i]] < rank[f[j]]
    BY <1>3, <1>7, <2>1
  <2> QED BY <1>1, <2>2
<1> QED BY <1>6, <1>7 DEF f

\* The ladder of the bids has every level, the highest first.
LEMMA BidsAreSorted ==
    ASSUME NEW S, IsFiniteSet(S), S \subseteq Nat
    PROVE  LET f == BestFirst(Above(S))
           IN  IsLadderOf(f, S) /\ \A i, j \in 1..Len(f) : i < j => f[i] > f[j]
<1> DEFINE f == BestFirst(Above(S))
<1>1. Above(S) \in [S -> SUBSET S] /\ \A p, r \in S : r \in Above(S)[p] <=> r > p
  BY DEF Above
<1>2. \A p, r, q \in S : /\ ~(p > p)
                         /\ (r > p /\ q > r => q > p)
                         /\ (p = r \/ p > r \/ r > p)
  OBVIOUS
<1>3. Orders(Above(S), S)
  BY <1>1, <1>2 DEF Orders
<1>4. IsLadderOf(f, S) /\ \A i, j \in 1..Len(f) : i < j => f[i] \in Above(S)[f[j]]
  BY <1>3, BestFirstIsSorted
<1> HIDE DEF f
<1> QED BY <1>1, <1>4 DEF f, IsLadderOf

\* The ladder of the asks has every level, the lowest first.
LEMMA AsksAreSorted ==
    ASSUME NEW S, IsFiniteSet(S), S \subseteq Nat
    PROVE  LET f == BestFirst(Below(S))
           IN  IsLadderOf(f, S) /\ \A i, j \in 1..Len(f) : i < j => f[i] < f[j]
<1> DEFINE f == BestFirst(Below(S))
<1>1. Below(S) \in [S -> SUBSET S] /\ \A p, r \in S : r \in Below(S)[p] <=> r < p
  BY DEF Below
<1>2. \A p, r, q \in S : /\ ~(p < p)
                         /\ (r < p /\ q < r => q < p)
                         /\ (p = r \/ p < r \/ r < p)
  OBVIOUS
<1>3. Orders(Below(S), S)
  BY <1>1, <1>2 DEF Orders
<1>4. IsLadderOf(f, S) /\ \A i, j \in 1..Len(f) : i < j => f[i] \in Below(S)[f[j]]
  BY <1>3, BestFirstIsSorted
<1> HIDE DEF f
<1> QED BY <1>1, <1>4 DEF f, IsLadderOf

-----------------------------------------------------------------------------
(* The reachable books *)

\* Quantities rest at finitely many prices.
BooksOK == /\ bids \in [Prices -> 0..MaxQty] /\ asks \in [Prices -> 0..MaxQty]
           /\ IsFiniteSet(On(bids)) /\ IsFiniteSet(On(asks))

\* A side stays a side, of finitely many levels, when finitely many of them change.
LEMMA OnAfter ==
    ASSUME NEW side \in [Prices -> 0..MaxQty], IsFiniteSet(On(side)), NEW levels \in Levels
    PROVE  /\ ApplySide(side, levels) \in [Prices -> 0..MaxQty]
           /\ IsFiniteSet(On(ApplySide(side, levels)))
<1>1. PICK changed \in SUBSET Prices : IsFiniteSet(changed) /\ levels \in [changed -> 0..MaxQty]
  BY DEF Levels
<1>2. ApplySide(side, levels) \in [Prices -> 0..MaxQty]
  BY <1>1 DEF ApplySide
<1>3. On(ApplySide(side, levels)) \subseteq On(side) \cup changed
  BY <1>1, DepthAssumption DEF On, ApplySide
<1>4. IsFiniteSet(On(side) \cup changed)
  BY <1>1, FS_Union
<1> QED BY <1>2, <1>3, <1>4, FS_Subset

\* A side without a level is one.
LEMMA NoLevelsIsASide == NoLevels \in [Prices -> 0..MaxQty] /\ IsFiniteSet(On(NoLevels))
<1>1. On(NoLevels) = {}
  BY DEF NoLevels, On
<1>2. 0 \in 0..MaxQty
  BY DepthAssumption
<1> QED BY <1>1, <1>2, FS_EmptySet DEF NoLevels

\* The books hold quantities, zero but for finitely many levels: an invariant of Spec.
THEOREM BooksInductive == Spec => []BooksOK
<1>1. Init => BooksOK
  BY NoLevelsIsASide DEF Init, BooksOK
<1>2. BooksOK /\ [Next]_vars => BooksOK'
  <2> SUFFICES ASSUME BooksOK, [Next]_vars PROVE BooksOK'
    OBVIOUS
  <2>1. CASE UNCHANGED vars
    BY <2>1 DEF vars, BooksOK, On
  <2>2. ASSUME NEW b \in Levels, NEW a \in Levels, Apply(b, a) PROVE BooksOK'
    <3>1. /\ bids' = ApplySide(bids, b) /\ asks' = ApplySide(asks, a)
          /\ ApplySide(bids, b) \in [Prices -> 0..MaxQty] /\ IsFiniteSet(On(ApplySide(bids, b)))
          /\ ApplySide(asks, a) \in [Prices -> 0..MaxQty] /\ IsFiniteSet(On(ApplySide(asks, a)))
      BY <2>2, OnAfter DEF BooksOK, Apply
    <3> QED BY <3>1 DEF BooksOK, On
  <2>3. ASSUME NEW b \in Levels, NEW a \in Levels, Reset(b, a) PROVE BooksOK'
    <3>1. /\ ApplySide(NoLevels, b) \in [Prices -> 0..MaxQty]
          /\ IsFiniteSet(On(ApplySide(NoLevels, b)))
          /\ ApplySide(NoLevels, a) \in [Prices -> 0..MaxQty]
          /\ IsFiniteSet(On(ApplySide(NoLevels, a)))
      BY OnAfter, NoLevelsIsASide
    <3> QED BY <2>3, <3>1 DEF BooksOK, On, Reset
  <2> QED BY <2>1, <2>2, <2>3 DEF Next
<1> QED BY <1>1, <1>2, PTL DEF Spec

-----------------------------------------------------------------------------
(* The ladders *)

\* A finite set of naturals has a greatest and a least member: the first of its ladders.
LEMMA Extremes ==
    ASSUME NEW S, IsFiniteSet(S), S \subseteq Nat, S # {}
    PROVE  /\ Max(S) \in S /\ \A p \in S : p <= Max(S)
           /\ Min(S) \in S /\ \A p \in S : p >= Min(S)
<1>1. \E q \in S : \A p \in S : q >= p
  <2>1. PICK f : IsLadderOf(f, S) /\ \A i, j \in 1..Len(f) : i < j => f[i] > f[j]
    BY BidsAreSorted
  <2>a. PICK q \in S : TRUE
    OBVIOUS
  <2>b. PICK k \in 1..Len(f) : f[k] = q
    BY <2>1 DEF IsLadderOf
  <2>c. 1 \in 1..Len(f)
    BY <2>1, <2>b DEF IsLadderOf
  <2>d. f[1] \in S
    BY <2>1, <2>c DEF IsLadderOf
  <2>2. 1 \in 1..Len(f) /\ f[1] \in S /\ f[1] \in Nat
    BY <2>c, <2>d
  <2>3. ASSUME NEW p \in S PROVE f[1] >= p
    <3>1. PICK i \in 1..Len(f) : f[i] = p
      BY <2>1 DEF IsLadderOf
    <3>2. i = 1 \/ (i > 1 /\ f[1] > f[i])
      BY <2>1, <2>2, <3>1 DEF IsLadderOf
    <3>3. p \in Nat
      OBVIOUS
    <3> QED BY <2>2, <3>1, <3>2, <3>3
  <2> QED BY <2>2, <2>3
<1>2. \E q \in S : \A p \in S : q <= p
  <2>1. PICK f : IsLadderOf(f, S) /\ \A i, j \in 1..Len(f) : i < j => f[i] < f[j]
    BY AsksAreSorted
  <2>a. PICK q \in S : TRUE
    OBVIOUS
  <2>b. PICK k \in 1..Len(f) : f[k] = q
    BY <2>1 DEF IsLadderOf
  <2>c. 1 \in 1..Len(f)
    BY <2>1, <2>b DEF IsLadderOf
  <2>d. f[1] \in S
    BY <2>1, <2>c DEF IsLadderOf
  <2>2. 1 \in 1..Len(f) /\ f[1] \in S /\ f[1] \in Nat
    BY <2>c, <2>d
  <2>3. ASSUME NEW p \in S PROVE f[1] <= p
    <3>1. PICK i \in 1..Len(f) : f[i] = p
      BY <2>1 DEF IsLadderOf
    <3>2. i = 1 \/ (i > 1 /\ f[1] < f[i])
      BY <2>1, <2>2, <3>1 DEF IsLadderOf
    <3>3. p \in Nat
      OBVIOUS
    <3> QED BY <2>2, <3>1, <3>2, <3>3
  <2> QED BY <2>2, <2>3
<1>3. Max(S) \in S /\ \A p \in S : Max(S) >= p
  BY <1>1 DEF Max
<1>4. Min(S) \in S /\ \A p \in S : Min(S) <= p
  BY <1>2 DEF Min
<1>5. \A p \in S : (Max(S) >= p <=> p <= Max(S)) /\ (Min(S) <= p <=> p >= Min(S))
  BY <1>3, <1>4
<1> QED BY <1>3, <1>4, <1>5

\* The levels of a book are finitely many prices.
LEMMA OnIsNat ==
    ASSUME BooksOK
    PROVE  /\ On(bids) \subseteq Nat \ {0} /\ IsFiniteSet(On(bids))
           /\ On(asks) \subseteq Nat \ {0} /\ IsFiniteSet(On(asks))
BY DepthAssumption DEF On, BooksOK

\* The whole ladders have every level of their side, in order.
LEMMA LaddersAreSorted ==
    ASSUME BooksOK
    PROVE  /\ IsLadderOf(BidLadder(0), On(bids))
           /\ \A i, j \in 1..Len(BidLadder(0)) : i < j => BidLadder(0)[i] > BidLadder(0)[j]
           /\ IsLadderOf(AskLadder(0), On(asks))
           /\ \A i, j \in 1..Len(AskLadder(0)) : i < j => AskLadder(0)[i] < AskLadder(0)[j]
<1>1. \A s : Kept(s, 0) = s
  BY DEF Kept
<1>2. BidLadder(0) = BestFirst(Above(On(bids)))
  BY <1>1 DEF BidLadder
<1>3. AskLadder(0) = BestFirst(Below(On(asks)))
  BY <1>1 DEF AskLadder
<1>4. On(bids) \subseteq Nat /\ On(asks) \subseteq Nat
  BY OnIsNat
<1> QED BY <1>2, <1>3, <1>4, OnIsNat, BidsAreSorted, AsksAreSorted

\* The first bid is the highest, the first ask the lowest.
LEMMA FirstIsBest ==
    ASSUME BooksOK
    PROVE  /\ BidLadder(0) # <<>> => BidLadder(0)[1] = Max(On(bids)) /\ On(bids) # {}
           /\ AskLadder(0) # <<>> => AskLadder(0)[1] = Min(On(asks)) /\ On(asks) # {}
<1> DEFINE b == BidLadder(0)
           a == AskLadder(0)
<1>1. On(bids) \subseteq Nat /\ On(asks) \subseteq Nat
  BY OnIsNat
<1>2. /\ IsLadderOf(b, On(bids)) /\ \A i, j \in 1..Len(b) : i < j => b[i] > b[j]
      /\ IsLadderOf(a, On(asks)) /\ \A i, j \in 1..Len(a) : i < j => a[i] < a[j]
  BY LaddersAreSorted
<1> HIDE DEF a, b
<1>3. ASSUME b # <<>>
      PROVE  b[1] = Max(On(bids)) /\ On(bids) # {}
  <2>1. 1 \in 1..Len(b) /\ b[1] \in On(bids)
    BY <1>2, <1>3 DEF IsLadderOf
  <2>2. Max(On(bids)) \in On(bids) /\ b[1] <= Max(On(bids))
    BY <1>1, <2>1, OnIsNat, Extremes
  <2>3. PICK i \in 1..Len(b) : b[i] = Max(On(bids))
    BY <1>2, <2>2 DEF IsLadderOf
  <2>4. i = 1 \/ (i > 1 /\ b[1] > b[i])
    BY <1>2, <2>1, <2>3 DEF IsLadderOf
  <2> QED BY <1>1, <2>1, <2>2, <2>3, <2>4
<1>4. ASSUME a # <<>>
      PROVE  a[1] = Min(On(asks)) /\ On(asks) # {}
  <2>1. 1 \in 1..Len(a) /\ a[1] \in On(asks)
    BY <1>2, <1>4 DEF IsLadderOf
  <2>2. Min(On(asks)) \in On(asks) /\ a[1] >= Min(On(asks))
    BY <1>1, <2>1, OnIsNat, Extremes
  <2>3. PICK i \in 1..Len(a) : a[i] = Min(On(asks))
    BY <1>2, <2>2 DEF IsLadderOf
  <2>4. i = 1 \/ (i > 1 /\ a[1] < a[i])
    BY <1>2, <2>1, <2>3 DEF IsLadderOf
  <2> QED BY <1>1, <2>1, <2>2, <2>3, <2>4
<1> QED BY <1>3, <1>4 DEF a, b

\* What a sequence has to be for a sum over its members to be a sum over S.
Lists(f, S) == /\ Len(f) \in Nat /\ \A i \in 1..Len(f) : f[i] \in S
               /\ \A p \in S : \E i \in 1..Len(f) : f[i] = p

\* A ladder lists its levels.
LEMMA LadderLists ==
    ASSUME NEW S, NEW f, IsLadderOf(f, S)
    PROVE  Lists(f, S)
BY DEF IsLadderOf, Lists

\* Where the levels out of the band follow those in it, stopping at the first of them
\* leaves out no other: depth_within is the sum over all that are in it.
LEMMA StopsAtTheBand ==
    ASSUME NEW S, NEW f, Lists(f, S), NEW twice_mid, NEW band,
           \A i, j \in 1..Len(f) : i < j /\ OutOfBand(f[i], twice_mid, band)
                                     => OutOfBand(f[j], twice_mid, band),
           NEW side, NEW notional
    PROVE  DepthWithin(f, side, twice_mid, band, notional)
             = SumOver({p \in S : ~OutOfBand(p, twice_mid, band)}, side, notional)
<1> DEFINE I == {i \in 1..Len(f) : OutOfBand(f[i], twice_mid, band)}
           out == SelectInSubSeq(f, 1, Len(f), LAMBDA p : OutOfBand(p, twice_mid, band))
           end == IF out = 0 THEN Len(f) ELSE out - 1
<1>1. out = IF I # {} THEN Min(I) ELSE 0
  BY DEF SelectInSubSeq
<1>2. Len(f) \in Nat /\ (\A i \in 1..Len(f) : f[i] \in S)
      /\ \A p \in S : \E i \in 1..Len(f) : f[i] = p
  BY DEF Lists
<1>3. I # {} => Min(I) \in I /\ \A i \in I : i >= Min(I)
  <2>1. I \subseteq 1..Len(f) /\ I \subseteq Nat
    OBVIOUS
  <2>2. IsFiniteSet(I)
    <3>1. IsFiniteSet(1..Len(f))
      BY <1>2, FS_Interval
    <3> HIDE DEF I
    <3> QED BY <2>1, <3>1, FS_Subset
  <2> HIDE DEF I
  <2> QED BY <2>1, <2>2, Extremes
<1> HIDE DEF out
<1>4. end \in Nat /\ \A i \in 1..Len(f) : i \in 1..end <=> ~OutOfBand(f[i], twice_mid, band)
  <2>1. CASE I = {}
    BY <1>1, <1>2, <2>1
  <2>2. CASE I # {}
    <3>1. out \in 1..Len(f) /\ out \in I /\ (\A i \in I : i >= out) /\ end = out - 1
      BY <1>1, <1>2, <1>3, <2>2
    <3>2. ASSUME NEW i \in 1..Len(f)
          PROVE  i \in 1..end <=> ~OutOfBand(f[i], twice_mid, band)
      <4>1. CASE i < out
        <5>1. ~(i >= out) /\ i \in 1..end
          BY <1>2, <3>1, <4>1
        <5> QED BY <3>1, <5>1
      <4>2. CASE i = out
        BY <1>2, <3>1, <4>2
      <4>3. CASE i > out
        <5>1. out < i /\ i \notin 1..end
          BY <1>2, <3>1, <4>3
        <5> QED BY <3>1, <5>1
      <4> QED BY <1>2, <3>1, <4>1, <4>2, <4>3
    <3> QED BY <1>2, <3>1, <3>2
  <2> QED BY <2>1, <2>2
<1>5. end <= Len(f)
  BY <1>1, <1>2, <1>3
<1> HIDE DEF end
<1>6. {f[i] : i \in 1..end} = {p \in S : ~OutOfBand(p, twice_mid, band)}
  <2>1. \A i \in 1..end : i \in 1..Len(f)
    BY <1>2, <1>4, <1>5
  <2> QED BY <1>2, <1>4, <2>1
<1>7. DepthWithin(f, side, twice_mid, band, notional)
        = SumOver({f[i] : i \in 1..end}, side, notional)
  BY DEF DepthWithin, end, out
<1> QED BY <1>6, <1>7

\* The further from the mid, the further out of the band.
LEMMA BandIsNested ==
    ASSUME NEW p \in Nat, NEW q \in Nat, NEW mid \in Nat, NEW band \in Nat,
           \/ q <= p /\ 2 * p <= mid
           \/ q >= p /\ 2 * p >= mid,
           OutOfBand(p, mid, band)
    PROVE  OutOfBand(q, mid, band)
<1>1. /\ Distance(p, mid) \in Int /\ Distance(q, mid) \in Int
      /\ Distance(p, mid) * 10000 <= Distance(q, mid) * 10000
      /\ Distance(p, mid) * 10000 \in Int /\ Distance(q, mid) * 10000 \in Int
  BY DEF Distance
<1> QED BY <1>1 DEF OutOfBand

\* Of a book that is not crossed, both ladders leave the band for good.
LEMMA LaddersLeaveTheBand ==
    ASSUME BooksOK, ~CrossedOrEmpty(0), NEW band \in Bands
    PROVE  /\ TwiceMid(0) = Max(On(bids)) + Min(On(asks))
           /\ \A i, j \in 1..Len(BidLadder(0)) :
                i < j /\ OutOfBand(BidLadder(0)[i], TwiceMid(0), band)
                  => OutOfBand(BidLadder(0)[j], TwiceMid(0), band)
           /\ \A i, j \in 1..Len(AskLadder(0)) :
                i < j /\ OutOfBand(AskLadder(0)[i], TwiceMid(0), band)
                  => OutOfBand(AskLadder(0)[j], TwiceMid(0), band)
<1> DEFINE b == BidLadder(0)
           a == AskLadder(0)
           mid == TwiceMid(0)
<1>1. b # <<>> /\ a # <<>> /\ ~(b[1] >= a[1])
  BY DEF CrossedOrEmpty
<1>2. /\ IsLadderOf(b, On(bids)) /\ \A i, j \in 1..Len(b) : i < j => b[i] > b[j]
      /\ IsLadderOf(a, On(asks)) /\ \A i, j \in 1..Len(a) : i < j => a[i] < a[j]
  BY LaddersAreSorted
<1>3. b[1] = Max(On(bids)) /\ a[1] = Min(On(asks)) /\ mid = Max(On(bids)) + Min(On(asks))
  BY <1>1, FirstIsBest DEF TwiceMid
<1> HIDE DEF a, b, mid
<1>4. /\ \A i \in 1..Len(b) : b[i] \in Nat
      /\ \A i \in 1..Len(a) : a[i] \in Nat
  BY <1>2, OnIsNat DEF IsLadderOf
<1>5. 1 \in 1..Len(b) /\ 1 \in 1..Len(a)
  BY <1>1, <1>2 DEF IsLadderOf
<1>6. mid \in Nat /\ b[1] \in Nat /\ a[1] \in Nat /\ mid = b[1] + a[1] /\ b[1] < a[1]
  BY <1>1, <1>3, <1>4, <1>5
<1>7. band \in Nat
  BY DepthAssumption
<1>8. ASSUME NEW i \in 1..Len(b), NEW j \in 1..Len(b), i < j, OutOfBand(b[i], mid, band)
      PROVE  OutOfBand(b[j], mid, band)
  <2>1. b[i] > b[j] /\ (i = 1 \/ b[1] > b[i])
    <3>1. i = 1 \/ 1 < i
      BY <1>2 DEF IsLadderOf
    <3> QED BY <1>2, <1>5, <1>8, <3>1
  <2>2. b[j] <= b[i] /\ 2 * b[i] <= mid
    BY <1>4, <1>6, <2>1
  <2> QED BY <1>4, <1>6, <1>7, <1>8, <2>2, BandIsNested
<1>9. ASSUME NEW i \in 1..Len(a), NEW j \in 1..Len(a), i < j, OutOfBand(a[i], mid, band)
      PROVE  OutOfBand(a[j], mid, band)
  <2>1. a[i] < a[j] /\ (i = 1 \/ a[1] < a[i])
    <3>1. i = 1 \/ 1 < i
      BY <1>2 DEF IsLadderOf
    <3> QED BY <1>2, <1>5, <1>9, <3>1
  <2>2. a[j] >= a[i] /\ 2 * a[i] >= mid
    BY <1>4, <1>6, <2>1
  <2> QED BY <1>4, <1>6, <1>7, <1>9, <2>2, BandIsNested
<1> QED BY <1>3, <1>8, <1>9 DEF a, b, mid

\* DepthIsTheBand, of any book.
LEMMA BandOfBook ==
    ASSUME BooksOK
    PROVE  DepthIsTheBand
<1> SUFFICES ASSUME NEW notional \in BOOLEAN, NEW row \in SnapshotRows(0, notional)
             PROVE  /\ row.bid = SumOver(InBand(bids, row.band), bids, notional)
                    /\ row.ask = SumOver(InBand(asks, row.band), asks, notional)
  BY DEF DepthIsTheBand
<1> DEFINE b == BidLadder(0)
           a == AskLadder(0)
           mid == TwiceMid(0)
<1>1. ~CrossedOrEmpty(0)
  BY DEF SnapshotRows
<1>2. PICK band \in Bands :
          row = [band |-> band,
                 bid |-> DepthWithin(b, bids, mid, band, notional),
                 ask |-> DepthWithin(a, asks, mid, band, notional)]
  BY <1>1 DEF SnapshotRows
<1>3. IsLadderOf(b, On(bids)) /\ IsLadderOf(a, On(asks))
  BY LaddersAreSorted
<1>4. /\ mid = Max(On(bids)) + Min(On(asks))
      /\ \A i, j \in 1..Len(b) : i < j /\ OutOfBand(b[i], mid, band) => OutOfBand(b[j], mid, band)
      /\ \A i, j \in 1..Len(a) : i < j /\ OutOfBand(a[i], mid, band) => OutOfBand(a[j], mid, band)
  BY <1>1, LaddersLeaveTheBand
<1> HIDE DEF a, b, mid
<1>5. DepthWithin(b, bids, mid, band, notional)
        = SumOver({p \in On(bids) : ~OutOfBand(p, mid, band)}, bids, notional)
  BY <1>3, <1>4, LadderLists, StopsAtTheBand
<1>6. DepthWithin(a, asks, mid, band, notional)
        = SumOver({p \in On(asks) : ~OutOfBand(p, mid, band)}, asks, notional)
  BY <1>3, <1>4, LadderLists, StopsAtTheBand
<1> QED BY <1>2, <1>4, <1>5, <1>6 DEF InBand

\* "resting notional within the band", for any book that is not crossed, any band and
\* any prices: stopping at the first level out of it misses none that is in it.
THEOREM DepthIsExact == Spec => []DepthIsTheBand
BY BandOfBook, BooksInductive, PTL

-----------------------------------------------------------------------------
(* Sums: a sum of naturals is a number of pairs, so that of more levels is no less *)

\* The member a sum over s begins with.
Pick(s) == CHOOSE x \in s : TRUE

\* A pair for each unit of weight of a member of s.
Units(s, w) == {e \in s \X Nat : e[2] \in 1..w[e[1]]}

\* The equation that MapThenSumSet is defined by.
IsSum(g, w, S) ==
    g = [s \in SUBSET S |-> IF s = {} THEN 0 ELSE w[Pick(s)] + g[s \ {Pick(s)}]]

\* The weights of S are naturals up to m.
BoundedBy(w, m, S) == m \in Nat /\ \A p \in S : w[p] \in 0..m

\* There are finitely many units of finitely many bounded weights.
LEMMA UnitsAreFinite ==
    ASSUME NEW S, IsFiniteSet(S), NEW w, NEW m, BoundedBy(w, m, S)
    PROVE  IsFiniteSet(Units(S, w)) /\ Cardinality(Units(S, w)) \in Nat
<1>1. m \in Nat /\ \A p \in S : w[p] \in 0..m
  BY DEF BoundedBy
<1>2. IsFiniteSet(1..m)
  BY <1>1, FS_Interval
<1>3. IsFiniteSet(S \X (1..m))
  BY <1>2, FS_Product
<1>4. Units(S, w) \subseteq S \X (1..m)
  <2> SUFFICES ASSUME NEW e \in Units(S, w) PROVE e \in S \X (1..m)
    OBVIOUS
  <2>1. e \in S \X Nat /\ e[2] \in 1..w[e[1]]
    BY DEF Units
  <2>2. e[1] \in S /\ e[2] \in Nat /\ e = <<e[1], e[2]>>
    BY <2>1
  <2>3. e[2] \in 1..m
    BY <1>1, <2>1, <2>2
  <2> QED BY <2>2, <2>3
<1> QED BY <1>3, <1>4, FS_Subset, FS_CardinalityType

\* The units of a member are as many as its weight.
LEMMA UnitsOfOne ==
    ASSUME NEW S, IsFiniteSet(S), NEW w, NEW m, BoundedBy(w, m, S), NEW p \in S
    PROVE  Cardinality(Units(S, w)) = w[p] + Cardinality(Units(S \ {p}, w))
<1> DEFINE one == {p} \X (1..w[p])
           rest == Units(S \ {p}, w)
<1>1. w[p] \in Nat /\ BoundedBy(w, m, S \ {p}) /\ IsFiniteSet(S \ {p})
  BY FS_RemoveElement DEF BoundedBy
<1>2. IsFiniteSet(rest) /\ Cardinality(rest) \in Nat
  BY <1>1, UnitsAreFinite
<1>3. IsFiniteSet(one) /\ Cardinality(one) = w[p]
  <2>1. IsFiniteSet(1..w[p]) /\ Cardinality(1..w[p]) = w[p]
    BY <1>1, FS_Interval
  <2>2. IsFiniteSet({p}) /\ Cardinality({p}) = 1
    BY FS_Singleton
  <2>3. IsFiniteSet(one) /\ Cardinality(one) = Cardinality({p}) * Cardinality(1..w[p])
    BY <2>1, <2>2, FS_Product
  <2> QED BY <1>1, <2>1, <2>2, <2>3
<1>4. Units(S, w) = one \cup rest
  BY <1>1 DEF Units
<1>5. one \cap rest = {}
  BY DEF Units
<1>6. Cardinality(one \cap rest) = 0
  BY <1>5, FS_EmptySet
<1> HIDE DEF one, rest
<1>7. Cardinality(one \cup rest) = Cardinality(one) + Cardinality(rest) - Cardinality(one \cap rest)
  BY <1>2, <1>3, FS_Union
<1> QED BY <1>1, <1>2, <1>3, <1>4, <1>6, <1>7 DEF rest

\* The number of units satisfies the equation of a sum.
LEMMA UnitsAreASum ==
    ASSUME NEW S, IsFiniteSet(S), NEW w, NEW m, BoundedBy(w, m, S)
    PROVE  IsSum([s \in SUBSET S |-> Cardinality(Units(s, w))], w, S)
<1> DEFINE g == [s \in SUBSET S |-> Cardinality(Units(s, w))]
<1>1. ASSUME NEW s \in SUBSET S
      PROVE  g[s] = IF s = {} THEN 0 ELSE w[Pick(s)] + g[s \ {Pick(s)}]
  <2>1. CASE s = {}
    <3>1. Units(s, w) = {}
      BY <2>1 DEF Units
    <3> QED BY <2>1, <3>1, FS_EmptySet
  <2>2. CASE s # {}
    <3>1. Pick(s) \in s
      BY <2>2 DEF Pick
    <3>2. IsFiniteSet(s) /\ BoundedBy(w, m, s)
      BY FS_Subset DEF BoundedBy
    <3>3. Cardinality(Units(s, w)) = w[Pick(s)] + Cardinality(Units(s \ {Pick(s)}, w))
      BY <3>1, <3>2, UnitsOfOne
    <3> QED BY <2>2, <3>3
  <2> QED BY <2>1, <2>2
<1>2. g = [s \in SUBSET S |-> g[s]]
  OBVIOUS
<1> HIDE DEF g
<1>3. [s \in SUBSET S |-> g[s]]
        = [s \in SUBSET S |-> IF s = {} THEN 0 ELSE w[Pick(s)] + g[s \ {Pick(s)}]]
  BY <1>1
<1>4. IsSum(g, w, S)
  BY <1>2, <1>3 DEF IsSum
<1> QED BY <1>4 DEF g

\* And no other function does: a least set on which two differ has no member.
LEMMA SumIsUnique ==
    ASSUME NEW S, IsFiniteSet(S), NEW w, NEW g, NEW h, IsSum(g, w, S), IsSum(h, w, S)
    PROVE  g[S] = h[S]
<1> DEFINE Bad == {s \in SUBSET S : g[s] # h[s]}
           N == {n \in 0..Cardinality(S) : \E s \in Bad : Cardinality(s) = n}
<1>1. \A s \in SUBSET S : /\ g[s] = IF s = {} THEN 0 ELSE w[Pick(s)] + g[s \ {Pick(s)}]
                          /\ h[s] = IF s = {} THEN 0 ELSE w[Pick(s)] + h[s \ {Pick(s)}]
  BY DEF IsSum
<1>2. Cardinality(S) \in Nat
  BY FS_CardinalityType
<1>3. \A s \in SUBSET S : Cardinality(s) \in 0..Cardinality(S) /\ IsFiniteSet(s)
  BY <1>2, FS_Subset, FS_CardinalityType
<1>4. CASE Bad = {}
  BY <1>4
<1>5. CASE Bad # {}
  <2>1. N # {} /\ N \subseteq Nat
    BY <1>2, <1>3, <1>5
  <2>2. IsFiniteSet(N)
    <3>1. IsFiniteSet(0..Cardinality(S))
      BY <1>2, FS_Interval
    <3>2. N \subseteq 0..Cardinality(S)
      OBVIOUS
    <3> HIDE DEF N
    <3> QED BY <3>1, <3>2, FS_Subset
  <2>3. Min(N) \in N /\ \A n \in N : n >= Min(N)
    <3> HIDE DEF N
    <3> QED BY <2>1, <2>2, Extremes
  <2>4. PICK s \in Bad : Cardinality(s) = Min(N)
    BY <2>3
  <2>5. s # {}
    BY <1>1, <2>4
  <2>6. Pick(s) \in s
    BY <2>5 DEF Pick
  <2>7. /\ s \ {Pick(s)} \in SUBSET S
        /\ Cardinality(s \ {Pick(s)}) = Cardinality(s) - 1
    BY <1>3, <2>6, FS_RemoveElement
  <2>8. s \ {Pick(s)} \notin Bad
    <3> SUFFICES ASSUME s \ {Pick(s)} \in Bad PROVE FALSE
      OBVIOUS
    <3>1. Cardinality(s \ {Pick(s)}) \in N
      BY <1>3, <2>7
    <3> QED BY <1>2, <2>3, <2>4, <2>7, <3>1
  <2>9. g[s] = h[s]
    BY <1>1, <2>5, <2>7, <2>8
  <2> QED BY <2>4, <2>9
<1> QED BY <1>4, <1>5

\* SumOver is the number of units.
LEMMA SumIsItsUnits ==
    ASSUME NEW S, IsFiniteSet(S), NEW side, NEW notional, NEW m,
           BoundedBy([p \in S |-> Value(p, side[p], notional)], m, S)
    PROVE  SumOver(S, side, notional)
             = Cardinality(Units(S, [p \in S |-> Value(p, side[p], notional)]))
<1> DEFINE w == [p \in S |-> Value(p, side[p], notional)]
           Says(g) == g = [s \in SUBSET S |->
               IF s = {} THEN 0
               ELSE Value(CHOOSE x \in s : TRUE, side[CHOOSE x \in s : TRUE], notional)
                      + g[s \ {CHOOSE x \in s : TRUE}]]
           iter == CHOOSE g : Says(g)
           units == [s \in SUBSET S |-> Cardinality(Units(s, w))]
<1>1. SumOver(S, side, notional) = iter[S]
  BY DEF SumOver, MapThenSumSet, MapThenFoldSet
<1>2. ASSUME NEW g
      PROVE  Says(g) <=> IsSum(g, w, S)
  <2>1. ASSUME NEW s \in SUBSET S
        PROVE  (IF s = {} THEN 0
                ELSE Value(CHOOSE x \in s : TRUE, side[CHOOSE x \in s : TRUE], notional)
                       + g[s \ {CHOOSE x \in s : TRUE}])
               = (IF s = {} THEN 0 ELSE w[Pick(s)] + g[s \ {Pick(s)}])
    <3>1. s # {} => Pick(s) \in S
      BY DEF Pick
    <3>2. Pick(s) = CHOOSE x \in s : TRUE
      BY DEF Pick
    <3>3. s # {} => w[Pick(s)] = Value(Pick(s), side[Pick(s)], notional)
      BY <3>1
    <3> QED BY <3>2, <3>3
  <2>2. [s \in SUBSET S |->
               IF s = {} THEN 0
               ELSE Value(CHOOSE x \in s : TRUE, side[CHOOSE x \in s : TRUE], notional)
                      + g[s \ {CHOOSE x \in s : TRUE}]]
         = [s \in SUBSET S |-> IF s = {} THEN 0 ELSE w[Pick(s)] + g[s \ {Pick(s)}]]
    BY <2>1, Zenon
  <2> QED BY <2>2 DEF IsSum
<1> HIDE DEF w
<1>3. IsSum(units, w, S)
  BY UnitsAreASum DEF w
<1>4. Says(units)
  BY <1>2, <1>3
<1>5. Says(iter)
  <2> HIDE DEF Says
  <2> QED BY <1>4
<1>6. IsSum(iter, w, S)
  BY <1>2, <1>5
<1>7. iter[S] = units[S]
  <2> HIDE DEF iter, units
  <2> QED BY <1>3, <1>6, SumIsUnique
<1> QED BY <1>1, <1>7 DEF w

\* What each level adds.
Worths(S, side, notional) == [p \in S |-> Value(p, side[p], notional)]

\* A sum over more levels is no less.
LEMMA SumOfMore ==
    ASSUME NEW B, IsFiniteSet(B), NEW A \in SUBSET B, NEW side, NEW notional, NEW m,
           BoundedBy(Worths(B, side, notional), m, B)
    PROVE  SumOver(A, side, notional) <= SumOver(B, side, notional)
<1>1. IsFiniteSet(A) /\ BoundedBy(Worths(A, side, notional), m, A)
  BY FS_Subset DEF BoundedBy, Worths
<1>2. SumOver(A, side, notional) = Cardinality(Units(A, Worths(A, side, notional)))
  BY <1>1, SumIsItsUnits DEF Worths
<1>3. SumOver(B, side, notional) = Cardinality(Units(B, Worths(B, side, notional)))
  BY SumIsItsUnits DEF Worths
<1>4. Units(A, Worths(A, side, notional)) \subseteq Units(B, Worths(B, side, notional))
  BY DEF Units, Worths
<1>5. IsFiniteSet(Units(B, Worths(B, side, notional)))
  BY UnitsAreFinite
<1> QED BY <1>2, <1>3, <1>4, <1>5, FS_Subset

\* A ladder that is cut to n levels is its first n.
LEMMA KeptIsAPrefix ==
    ASSUME NEW S, NEW f, IsLadderOf(f, S), NEW n \in Nat
    PROVE  /\ Len(Kept(f, n)) = IF n > 0 /\ n < Len(f) THEN n ELSE Len(f)
           /\ \A i \in 1..Len(Kept(f, n)) : Kept(f, n)[i] = f[i]
<1>1. CASE n > 0 /\ n < Len(f)
  <2>1. \A i \in 1..n : f[i] \in S
    BY <1>1 DEF IsLadderOf
  <2>2. /\ Len(SubSeq(f, 1, n)) = IF 1 <= n THEN n - 1 + 1 ELSE 0
        /\ \A i \in 1..(n - 1 + 1) : SubSeq(f, 1, n)[i] = f[1 + i - 1]
    BY <2>1, SubSeqProperties
  <2>3. Kept(f, n) = SubSeq(f, 1, n)
    BY <1>1 DEF Kept
  <2> QED BY <1>1, <2>2, <2>3
<1>2. CASE ~(n > 0 /\ n < Len(f))
  BY <1>2 DEF Kept
<1> QED BY <1>1, <1>2

\* The levels of S in the band.
Inside(S, mid, band) == {p \in S : ~OutOfBand(p, mid, band)}

\* No level comes twice, and once out of the band the rest is out of it.
Leaves(f, mid, band) ==
    /\ \A i, j \in 1..Len(f) : i < j => f[i] # f[j]
    /\ \A i, j \in 1..Len(f) : i < j /\ OutOfBand(f[i], mid, band) => OutOfBand(f[j], mid, band)

\* The levels of S by which a cut ladder stops are out of the band, or beyond the cut.
LEMMA CutSide ==
    ASSUME NEW S, IsFiniteSet(S), NEW f, IsLadderOf(f, S),
           NEW mid, NEW band, NEW side, NEW notional, NEW n \in Nat, Leaves(f, mid, band),
           NEW m, BoundedBy(Worths(S, side, notional), m, S)
    PROVE  /\ DepthWithin(Kept(f, n), side, mid, band, notional)
                <= DepthWithin(f, side, mid, band, notional)
           /\ Cardinality(Inside(S, mid, band)) <= n =>
                DepthWithin(Kept(f, n), side, mid, band, notional)
                  = DepthWithin(f, side, mid, band, notional)
<1> DEFINE g == Kept(f, n)
           C == {g[i] : i \in 1..Len(g)}
           inS == {p \in S : ~OutOfBand(p, mid, band)}
           inC == {p \in C : ~OutOfBand(p, mid, band)}
<1>1. Len(f) \in Nat /\ (\A i \in 1..Len(f) : f[i] \in S)
      /\ \A p \in S : \E i \in 1..Len(f) : f[i] = p
  BY DEF IsLadderOf
<1>0. /\ \A i, j \in 1..Len(f) : i < j => f[i] # f[j]
      /\ \A i, j \in 1..Len(f) : i < j /\ OutOfBand(f[i], mid, band) => OutOfBand(f[j], mid, band)
  BY DEF Leaves
<1>2. /\ Len(g) = IF n > 0 /\ n < Len(f) THEN n ELSE Len(f)
      /\ \A i \in 1..Len(g) : g[i] = f[i]
  BY KeptIsAPrefix
<1> HIDE DEF g
<1>3. Len(g) \in Nat /\ Len(g) <= Len(f)
  BY <1>1, <1>2
<1>4. \A i \in 1..Len(g) : i \in 1..Len(f) /\ g[i] = f[i]
  BY <1>1, <1>2, <1>3
<1>5. C \subseteq S
  BY <1>1, <1>4
<1>6. Lists(g, C)
  BY <1>3 DEF Lists
<1>7. \A i, j \in 1..Len(g) : i < j /\ OutOfBand(g[i], mid, band)
                                => OutOfBand(g[j], mid, band)
  BY <1>0, <1>4
<1>8. DepthWithin(g, side, mid, band, notional) = SumOver(inC, side, notional)
  <2> HIDE DEF C
  <2> QED BY <1>6, <1>7, StopsAtTheBand
<1>9. DepthWithin(f, side, mid, band, notional) = SumOver(inS, side, notional)
  BY <1>0, LadderLists, StopsAtTheBand
<1>10. inC \subseteq inS
  BY <1>5
<1>11. IsFiniteSet(inS) /\ BoundedBy(Worths(inS, side, notional), m, inS)
  BY FS_Subset DEF BoundedBy, Worths
<1>12. SumOver(inC, side, notional) <= SumOver(inS, side, notional)
  <2> HIDE DEF inC, inS
  <2> QED BY <1>10, <1>11, SumOfMore
<1>13. ASSUME Cardinality(inS) <= n
       PROVE  inS \subseteq inC
  <2> SUFFICES ASSUME NEW p \in inS PROVE p \in C
    OBVIOUS
  <2>1. PICK k \in 1..Len(f) : f[k] = p
    BY <1>1
  <2>2. CASE k <= Len(g)
    <3>1. k \in 1..Len(g)
      BY <1>1, <1>3, <2>2
    <3> QED BY <1>4, <2>1, <3>1
  <2>3. CASE k > Len(g)
    <3>1. Len(g) = n /\ n < k /\ k \in Nat
      BY <1>1, <1>2, <2>3
    <3>2. ASSUME NEW i \in 1..k
          PROVE  f[i] \in inS
      <4>1. i \in 1..Len(f)
        BY <1>1
      <4>2. i = k \/ i < k
        OBVIOUS
      <4>3. ~OutOfBand(f[i], mid, band)
        BY <1>0, <2>1, <4>1, <4>2
      <4> QED BY <1>1, <4>1, <4>3
    <3> DEFINE h == [i \in 1..k |-> f[i]]
    <3>3. h \in Injection(1..k, inS)
      <4>1. h \in [1..k -> inS]
        <5> HIDE DEF inS
        <5> QED BY <3>2
      <4>2. ASSUME NEW i \in 1..k, NEW j \in 1..k, h[i] = h[j]
            PROVE  i = j
        <5>1. i \in 1..Len(f) /\ j \in 1..Len(f) /\ f[i] = f[j]
          BY <1>1, <4>2
        <5>2. ~(i < j) /\ ~(j < i)
          BY <1>0, <5>1
        <5> QED BY <5>2
      <4> HIDE DEF h, inS
      <4> QED BY <4>1, <4>2 DEF Injection, IsInjective
    <3>4. Cardinality(1..k) <= Cardinality(inS)
      <4> HIDE DEF h, inS
      <4> QED BY <1>11, <3>3, FS_Injection
    <3>5. Cardinality(1..k) = k
      BY <3>1, FS_Interval
    <3>6. Cardinality(inS) \in Nat
      <4> HIDE DEF inS
      <4> QED BY <1>11, FS_CardinalityType
    <3> QED BY <1>13, <3>1, <3>4, <3>5, <3>6
  <2> QED BY <1>1, <1>3, <2>2, <2>3
<1>14. Cardinality(inS) <= n => inS = inC
  BY <1>10, <1>13
<1> QED BY <1>8, <1>9, <1>12, <1>14 DEF g, Inside

\* No level of a finite side is worth more than the dearest could be.
LEMMA WorthsAreBounded ==
    ASSUME NEW S, IsFiniteSet(S), S \subseteq Nat, NEW side, NEW Q \in Nat,
           \A p \in S : side[p] \in 0..Q
    PROVE  \E m : BoundedBy(Worths(S, side, TRUE), m, S)
<1>1. CASE S = {}
  <2>1. BoundedBy(Worths(S, side, TRUE), 0, S)
    BY <1>1 DEF BoundedBy
  <2> QED BY <2>1
<1>2. CASE S # {}
  <2> DEFINE P == Max(S)
  <2>1. P \in Nat /\ \A p \in S : p <= P
    BY <1>2, Extremes
  <2> HIDE DEF P
  <2>2. P * Q \in Nat
    BY <2>1
  <2>3. ASSUME NEW p \in S
        PROVE  p * side[p] \in 0..(P * Q)
    <3> DEFINE q == side[p]
    <3>1. p \in Nat /\ q \in Nat /\ q <= Q /\ p <= P
      BY <2>1
    <3> HIDE DEF q
    <3>2. p * q \in Nat
      BY <3>1
    <3>3. p * q <= p * Q
      <4>1. Q - q \in Nat /\ p * (Q - q) \in Nat /\ p * Q = p * q + p * (Q - q)
        BY <3>1
      <4> QED BY <3>2, <4>1
    <3>4. p * Q <= P * Q
      <4>1. P - p \in Nat
        BY <2>1, <3>1
      <4>2. (P - p) * Q \in Nat
        BY <4>1
      <4>3. P * Q = p * Q + (P - p) * Q
        BY <2>1, <3>1
      <4>4. p * Q \in Nat
        BY <3>1
      <4> QED BY <4>2, <4>3, <4>4
    <3>5. p * Q \in Nat
      BY <3>1
    <3>6. p * q <= P * Q
      BY <2>2, <3>2, <3>3, <3>4, <3>5
    <3>7. p * q \in 0..(P * Q)
      BY <2>2, <3>2, <3>6
    <3> QED BY <3>7 DEF q
  <2>4. BoundedBy(Worths(S, side, TRUE), P * Q, S)
    BY <2>2, <2>3 DEF BoundedBy, Worths, Value
  <2> QED BY <2>4
<1> QED BY <1>1, <1>2

-----------------------------------------------------------------------------
(* A snapshot cut to snapshot_levels *)

\* A cut ladder begins as the whole one does.
LEMMA CutBook ==
    ASSUME BooksOK, ~CrossedOrEmpty(0), NEW n \in Nat
    PROVE  /\ BidLadder(n) = Kept(BidLadder(0), n)
           /\ AskLadder(n) = Kept(AskLadder(0), n)
           /\ TwiceMid(n) = TwiceMid(0)
<1>1. \A s : Kept(s, 0) = s
  BY DEF Kept
<1>2. BidLadder(n) = Kept(BidLadder(0), n) /\ AskLadder(n) = Kept(AskLadder(0), n)
  BY <1>1 DEF BidLadder, AskLadder
<1>3. IsLadderOf(BidLadder(0), On(bids)) /\ IsLadderOf(AskLadder(0), On(asks))
  BY LaddersAreSorted
<1>4. BidLadder(0) # <<>> /\ AskLadder(0) # <<>>
  BY DEF CrossedOrEmpty
<1>5. Len(BidLadder(0)) > 0 /\ Len(AskLadder(0)) > 0
  BY <1>3, <1>4 DEF IsLadderOf
<1>6. BidLadder(n)[1] = BidLadder(0)[1]
  <2>1. /\ Len(BidLadder(n)) = IF n > 0 /\ n < Len(BidLadder(0)) THEN n ELSE Len(BidLadder(0))
        /\ \A i \in 1..Len(BidLadder(n)) : BidLadder(n)[i] = BidLadder(0)[i]
    BY <1>2, <1>3, KeptIsAPrefix
  <2>2. 1 \in 1..Len(BidLadder(n))
    BY <1>3, <1>5, <2>1 DEF IsLadderOf
  <2> QED BY <2>1, <2>2
<1>7. AskLadder(n)[1] = AskLadder(0)[1]
  <2>1. /\ Len(AskLadder(n)) = IF n > 0 /\ n < Len(AskLadder(0)) THEN n ELSE Len(AskLadder(0))
        /\ \A i \in 1..Len(AskLadder(n)) : AskLadder(n)[i] = AskLadder(0)[i]
    BY <1>2, <1>3, KeptIsAPrefix
  <2>2. 1 \in 1..Len(AskLadder(n))
    BY <1>3, <1>5, <2>1 DEF IsLadderOf
  <2> QED BY <2>1, <2>2
<1> QED BY <1>2, <1>6, <1>7 DEF TwiceMid

\* TruncationOnlyUnderstates, of any book.
LEMMA TruncationOfBook ==
    ASSUME BooksOK
    PROVE  TruncationOnlyUnderstates
<1> DEFINE n == SnapshotLevels
           b == BidLadder(0)
           a == AskLadder(0)
           mid == TwiceMid(0)
<1> SUFFICES ASSUME NEW whole \in SnapshotRows(0, TRUE), NEW cut \in SnapshotRows(n, TRUE),
                    whole.band = cut.band
             PROVE  /\ cut.bid <= whole.bid /\ cut.ask <= whole.ask
                    /\ Cardinality(InBand(bids, cut.band)) <= n => cut.bid = whole.bid
                    /\ Cardinality(InBand(asks, cut.band)) <= n => cut.ask = whole.ask
  BY DEF TruncationOnlyUnderstates
<1>1. ~CrossedOrEmpty(0) /\ ~CrossedOrEmpty(n) /\ n \in Nat
  BY DepthAssumption DEF SnapshotRows
<1>2. BidLadder(n) = Kept(b, n) /\ AskLadder(n) = Kept(a, n) /\ TwiceMid(n) = mid
  BY <1>1, CutBook
<1>3. PICK band \in Bands :
          whole = [band |-> band,
                   bid |-> DepthWithin(b, bids, mid, band, TRUE),
                   ask |-> DepthWithin(a, asks, mid, band, TRUE)]
  BY <1>1 DEF SnapshotRows
<1>4. cut = [band |-> band,
             bid |-> DepthWithin(Kept(b, n), bids, mid, band, TRUE),
             ask |-> DepthWithin(Kept(a, n), asks, mid, band, TRUE)]
  <2>1. PICK other \in Bands :
            cut = [band |-> other,
                   bid |-> DepthWithin(Kept(b, n), bids, mid, other, TRUE),
                   ask |-> DepthWithin(Kept(a, n), asks, mid, other, TRUE)]
    BY <1>1, <1>2 DEF SnapshotRows
  <2>2. other = band
    BY <1>3, <2>1
  <2> QED BY <2>1, <2>2
<1>5. /\ IsLadderOf(b, On(bids)) /\ \A i, j \in 1..Len(b) : i < j => b[i] > b[j]
      /\ IsLadderOf(a, On(asks)) /\ \A i, j \in 1..Len(a) : i < j => a[i] < a[j]
  BY LaddersAreSorted
<1>6. /\ mid = Max(On(bids)) + Min(On(asks))
      /\ \A i, j \in 1..Len(b) : i < j /\ OutOfBand(b[i], mid, band) => OutOfBand(b[j], mid, band)
      /\ \A i, j \in 1..Len(a) : i < j /\ OutOfBand(a[i], mid, band) => OutOfBand(a[j], mid, band)
  BY <1>1, LaddersLeaveTheBand
<1>7. InBand(bids, band) = Inside(On(bids), mid, band)
      /\ InBand(asks, band) = Inside(On(asks), mid, band)
  BY <1>6 DEF InBand, Inside
<1> HIDE DEF a, b, mid, n
<1>8. /\ On(bids) \subseteq Nat /\ IsFiniteSet(On(bids))
      /\ On(asks) \subseteq Nat /\ IsFiniteSet(On(asks))
      /\ \A p \in On(bids) : bids[p] \in 0..MaxQty
      /\ \A p \in On(asks) : asks[p] \in 0..MaxQty
  BY OnIsNat DEF On, BooksOK
<1>9. Leaves(b, mid, band)
  <2>1. \A i \in 1..Len(b) : b[i] \in Nat
    BY <1>5, <1>8 DEF IsLadderOf
  <2>2. \A i, j \in 1..Len(b) : i < j => b[i] # b[j]
    BY <1>5, <2>1
  <2> QED BY <1>6, <2>2 DEF Leaves
<1>10. Leaves(a, mid, band)
  <2>1. \A i \in 1..Len(a) : a[i] \in Nat
    BY <1>5, <1>8 DEF IsLadderOf
  <2>2. \A i, j \in 1..Len(a) : i < j => a[i] # a[j]
    BY <1>5, <2>1
  <2> QED BY <1>6, <2>2 DEF Leaves
<1>11. PICK m : BoundedBy(Worths(On(bids), bids, TRUE), m, On(bids))
  BY <1>8, WorthsAreBounded, DepthAssumption
<1>12. PICK k : BoundedBy(Worths(On(asks), asks, TRUE), k, On(asks))
  BY <1>8, WorthsAreBounded, DepthAssumption
<1>13. /\ DepthWithin(Kept(b, n), bids, mid, band, TRUE) <= DepthWithin(b, bids, mid, band, TRUE)
       /\ Cardinality(Inside(On(bids), mid, band)) <= n =>
            DepthWithin(Kept(b, n), bids, mid, band, TRUE) = DepthWithin(b, bids, mid, band, TRUE)
  <2>1. IsFiniteSet(On(bids)) /\ IsLadderOf(b, On(bids)) /\ n \in Nat
    BY <1>1, <1>5, <1>8
  <2> DEFINE notional == TRUE
  <2>2. BoundedBy(Worths(On(bids), bids, notional), m, On(bids))
    BY <1>11
  <2> HIDE DEF notional
  <2>3. /\ DepthWithin(Kept(b, n), bids, mid, band, notional)
             <= DepthWithin(b, bids, mid, band, notional)
        /\ Cardinality(Inside(On(bids), mid, band)) <= n =>
             DepthWithin(Kept(b, n), bids, mid, band, notional)
               = DepthWithin(b, bids, mid, band, notional)
    BY <2>1, <2>2, <1>9, CutSide
  <2> QED BY <2>3 DEF notional
<1>14. /\ DepthWithin(Kept(a, n), asks, mid, band, TRUE) <= DepthWithin(a, asks, mid, band, TRUE)
       /\ Cardinality(Inside(On(asks), mid, band)) <= n =>
            DepthWithin(Kept(a, n), asks, mid, band, TRUE) = DepthWithin(a, asks, mid, band, TRUE)
  <2>1. IsFiniteSet(On(asks)) /\ IsLadderOf(a, On(asks)) /\ n \in Nat
    BY <1>1, <1>5, <1>8
  <2> DEFINE notional == TRUE
  <2>2. BoundedBy(Worths(On(asks), asks, notional), k, On(asks))
    BY <1>12
  <2> HIDE DEF notional
  <2>3. /\ DepthWithin(Kept(a, n), asks, mid, band, notional)
             <= DepthWithin(a, asks, mid, band, notional)
        /\ Cardinality(Inside(On(asks), mid, band)) <= n =>
             DepthWithin(Kept(a, n), asks, mid, band, notional)
               = DepthWithin(a, asks, mid, band, notional)
    BY <2>1, <2>2, <1>10, CutSide
  <2> QED BY <2>3 DEF notional
<1>15. cut.band = band
  BY <1>4
<1> QED BY <1>3, <1>4, <1>7, <1>13, <1>14, <1>15

\* What a snapshot cut to snapshot_levels says is never more than the whole book would
\* say, and the same once the levels it keeps reach past the band, for any book.
THEOREM TruncationUnderstates == Spec => []TruncationOnlyUnderstates
BY TruncationOfBook, BooksInductive, PTL

-----------------------------------------------------------------------------
(* Order-flow imbalance *)

\* What a best price is worth, in either unit, is more for more of it and never nothing.
LEMMA Worth ==
    ASSUME NEW p \in Nat \ {0}, NEW notional \in BOOLEAN
    PROVE  /\ \A q \in Nat : Value(p, q, notional) \in Nat
           /\ \A q \in Nat \ {0} : Value(p, q, notional) > 0
           /\ \A q, r \in Nat : q > r => Value(p, q, notional) > Value(p, r, notional)
<1>1. \A q \in Nat : p * q \in Nat
  OBVIOUS
<1>2. \A q \in Nat \ {0} : p * q > 0
  OBVIOUS
<1>3. ASSUME NEW q \in Nat, NEW r \in Nat, q > r
      PROVE  p * q > p * r
  <2>1. q - r \in Nat \ {0} /\ p * q = p * r + p * (q - r)
    BY <1>3
  <2>2. p * (q - r) > 0 /\ p * (q - r) \in Nat
    BY <1>1, <1>2, <2>1
  <2> QED BY <1>1, <2>1, <2>2
<1> QED BY <1>1, <1>2, <1>3 DEF Value

\* A top of book of two sides.
TopOK(t) == /\ t.bid \in Nat \ {0} /\ t.bid_qty \in Nat \ {0}
            /\ t.ask \in Nat \ {0} /\ t.ask_qty \in Nat \ {0}

\* The top of a book with two sides has all four values.
LEMMA TopOfBook ==
    ASSUME NEW b \in [Prices -> 0..MaxQty], NEW a \in [Prices -> 0..MaxQty],
           IsFiniteSet(On(b)), IsFiniteSet(On(a)), TwoSided(b, a)
    PROVE  TopOK(Top(b, a))
<1>1. On(b) \subseteq Nat \ {0} /\ On(a) \subseteq Nat \ {0}
  BY DepthAssumption DEF On
<1>2. Max(On(b)) \in On(b) /\ Min(On(a)) \in On(a)
  BY <1>1, Extremes DEF TwoSided
<1>3. \A p \in On(b) : b[p] \in Nat \ {0}
  BY DepthAssumption DEF On
<1>4. \A p \in On(a) : a[p] \in Nat \ {0}
  BY DepthAssumption DEF On
<1> QED BY <1>1, <1>2, <1>3, <1>4 DEF Top, TopOK

\* The terms of one side.
LEMMA BidTerms ==
    ASSUME NEW pre, NEW top, TopOK(pre), TopOK(top), NEW notional \in BOOLEAN
    PROVE  LET f == BidFlow(pre, top, notional)
           IN  /\ f \in Int /\ BidFlow(top, pre, notional) = -f
               /\ f > 0 <=> (top.bid > pre.bid \/ (top.bid = pre.bid /\ top.bid_qty > pre.bid_qty))
               /\ f = 0 <=> (top.bid = pre.bid /\ top.bid_qty = pre.bid_qty)
<1> DEFINE v == Value(top.bid, top.bid_qty, notional)
           u == Value(pre.bid, pre.bid_qty, notional)
<1>1. v \in Nat /\ u \in Nat /\ v > 0 /\ u > 0
  BY Worth DEF TopOK
<1>2. top.bid = pre.bid => /\ top.bid_qty > pre.bid_qty => v > u
                           /\ pre.bid_qty > top.bid_qty => u > v
  BY Worth DEF TopOK
<1>3. top.bid = pre.bid /\ top.bid_qty = pre.bid_qty => v = u
  OBVIOUS
<1> HIDE DEF u, v
<1>4. /\ BidFlow(pre, top, notional)
           = (IF top.bid >= pre.bid THEN v ELSE 0) - (IF top.bid <= pre.bid THEN u ELSE 0)
      /\ BidFlow(top, pre, notional)
           = (IF pre.bid >= top.bid THEN u ELSE 0) - (IF pre.bid <= top.bid THEN v ELSE 0)
  BY DEF BidFlow, When, u, v
<1> QED BY <1>1, <1>2, <1>3, <1>4 DEF TopOK

\* And of the other.
LEMMA AskTerms ==
    ASSUME NEW pre, NEW top, TopOK(pre), TopOK(top), NEW notional \in BOOLEAN
    PROVE  LET f == AskFlow(pre, top, notional)
           IN  /\ f \in Int /\ AskFlow(top, pre, notional) = -f
               /\ f < 0 <=> (top.ask > pre.ask \/ (top.ask = pre.ask /\ top.ask_qty < pre.ask_qty))
               /\ f = 0 <=> (top.ask = pre.ask /\ top.ask_qty = pre.ask_qty)
<1> DEFINE v == Value(top.ask, top.ask_qty, notional)
           u == Value(pre.ask, pre.ask_qty, notional)
<1>1. v \in Nat /\ u \in Nat /\ v > 0 /\ u > 0
  BY Worth DEF TopOK
<1>2. top.ask = pre.ask => /\ top.ask_qty > pre.ask_qty => v > u
                           /\ pre.ask_qty > top.ask_qty => u > v
  BY Worth DEF TopOK
<1>3. top.ask = pre.ask /\ top.ask_qty = pre.ask_qty => v = u
  OBVIOUS
<1> HIDE DEF u, v
<1>4. /\ AskFlow(pre, top, notional)
           = (IF top.ask <= pre.ask THEN v ELSE 0) - (IF top.ask >= pre.ask THEN u ELSE 0)
      /\ AskFlow(top, pre, notional)
           = (IF pre.ask <= top.ask THEN u ELSE 0) - (IF pre.ask >= top.ask THEN v ELSE 0)
  BY DEF AskFlow, When, u, v
<1> QED BY <1>1, <1>2, <1>3, <1>4 DEF TopOK

\* OfiIsTheMoveOfTheBest, of any two tops.
LEMMA OfiOfMove ==
    ASSUME NEW pre, NEW top, TopOK(pre), TopOK(top), NEW notional \in BOOLEAN
    PROVE  /\ For(pre, top) /\ ~Against(pre, top) => Ofi(pre, top, notional) > 0
           /\ Against(pre, top) /\ ~For(pre, top) => Ofi(pre, top, notional) < 0
           /\ top = pre => Ofi(pre, top, notional) = 0
           /\ Ofi(pre, top, notional) + Ofi(top, pre, notional) = 0
<1> DEFINE f == BidFlow(pre, top, notional)
           g == AskFlow(pre, top, notional)
<1>1. /\ f \in Int /\ BidFlow(top, pre, notional) = -f
      /\ f > 0 <=> (top.bid > pre.bid \/ (top.bid = pre.bid /\ top.bid_qty > pre.bid_qty))
      /\ f = 0 <=> (top.bid = pre.bid /\ top.bid_qty = pre.bid_qty)
  BY BidTerms
<1>2. /\ g \in Int /\ AskFlow(top, pre, notional) = -g
      /\ g < 0 <=> (top.ask > pre.ask \/ (top.ask = pre.ask /\ top.ask_qty < pre.ask_qty))
      /\ g = 0 <=> (top.ask = pre.ask /\ top.ask_qty = pre.ask_qty)
  BY AskTerms
<1>3. Ofi(pre, top, notional) = f - g
      /\ Ofi(top, pre, notional) = BidFlow(top, pre, notional) - AskFlow(top, pre, notional)
  BY DEF Ofi
<1> HIDE DEF f, g
<1>4. /\ For(pre, top) <=> f > 0 \/ g < 0
      /\ Against(pre, top) <=> f < 0 \/ g > 0
  BY <1>1, <1>2 DEF For, Against, TopOK
<1> QED BY <1>1, <1>2, <1>3, <1>4

\* A row that does something for demand and nothing against it has a positive OFI, the
\* other way round a negative one, a row that leaves the top as it was has none, and a
\* row and its reversal cancel, in either unit and however much changed between them.
THEOREM OfiIsTheMove == Spec => OfiIsTheMoveOfTheBest
<1> DEFINE Move ==
      (TwoSided(bids, asks) /\ TwoSided(bids', asks')) =>
         LET pre == Top(bids, asks)
             top == Top(bids', asks')
         IN  \A notional \in BOOLEAN :
                /\ For(pre, top) /\ ~Against(pre, top) => Ofi(pre, top, notional) > 0
                /\ Against(pre, top) /\ ~For(pre, top) => Ofi(pre, top, notional) < 0
                /\ top = pre => Ofi(pre, top, notional) = 0
                /\ Ofi(pre, top, notional) + Ofi(top, pre, notional) = 0
<1>1. ASSUME BooksOK, BooksOK' PROVE Move
  <2> SUFFICES ASSUME TwoSided(bids, asks), TwoSided(bids', asks'), NEW notional \in BOOLEAN
               PROVE  LET pre == Top(bids, asks)
                          top == Top(bids', asks')
                      IN  /\ For(pre, top) /\ ~Against(pre, top) => Ofi(pre, top, notional) > 0
                          /\ Against(pre, top) /\ ~For(pre, top) => Ofi(pre, top, notional) < 0
                          /\ top = pre => Ofi(pre, top, notional) = 0
                          /\ Ofi(pre, top, notional) + Ofi(top, pre, notional) = 0
    OBVIOUS
  <2>1. TopOK(Top(bids, asks))
    BY <1>1, TopOfBook DEF BooksOK
  <2>2. TopOK(Top(bids', asks'))
    <3>1. /\ bids' \in [Prices -> 0..MaxQty] /\ asks' \in [Prices -> 0..MaxQty]
          /\ IsFiniteSet(On(bids')) /\ IsFiniteSet(On(asks'))
      BY <1>1 DEF BooksOK, On
    <3> QED BY <3>1, TopOfBook
  <2> HIDE DEF Move
  <2> QED BY <2>1, <2>2, OfiOfMove
<1> HIDE DEF Move
<1>2. Spec => [][Move]_vars
  BY <1>1, BooksInductive, PTL DEF Spec
<1> QED BY <1>2 DEF OfiIsTheMoveOfTheBest, Move

=============================================================================
