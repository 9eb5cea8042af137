------------------------- MODULE LeavesTree_proofs -------------------------
(***************************************************************************)
(* What is proved about LeavesTree, for every number of children, page     *)
(* size and corpus: the types, that a child is read once, that the         *)
(* children counted are those with results, that these are shown in order, *)
(* and that a node with no more to load has shown them all.                *)
(***************************************************************************)
EXTENDS LeavesTree, FiniteSetTheorems, TLAPS

-----------------------------------------------------------------------------
(* Ranks: sets of children in the order of their titles *)

\* The rank of a number in a finite set is a number, below its cardinality when
\* it is a member.
LEMMA RankIsNat ==
  ASSUME NEW S \in SUBSET Nat, IsFiniteSet(S), NEW u \in Nat
  PROVE  /\ Cardinality(S) \in Nat
         /\ Rank(u, S) \in Nat /\ Rank(u, S) <= Cardinality(S)
         /\ u \in S => Rank(u, S) < Cardinality(S)
<1> DEFINE below == {v \in S : v < u}
<1>1. below \subseteq S /\ u \notin below
  OBVIOUS
<1>2. /\ IsFiniteSet(below) /\ Cardinality(below) <= Cardinality(S)
      /\ Cardinality(S) = Cardinality(below) => S = below
  BY <1>1, FS_Subset
<1>3. Cardinality(S) \in Nat /\ Cardinality(below) \in Nat
  BY <1>2, FS_CardinalityType
<1> QED BY <1>1, <1>2, <1>3 DEF Rank

\* The rank does not grow when members are removed.
LEMMA RankInSubset ==
  ASSUME NEW S \in SUBSET Nat, IsFiniteSet(S), NEW T \in SUBSET S, NEW u \in Nat
  PROVE  Rank(u, T) <= Rank(u, S)
<1> DEFINE below(R) == {v \in R : v < u}
<1>1. below(S) \subseteq S /\ below(T) \subseteq below(S)
  OBVIOUS
<1>2. IsFiniteSet(below(S))
  BY <1>1, FS_Subset
<1>3. Cardinality(below(T)) <= Cardinality(below(S))
  BY <1>1, <1>2, FS_Subset
<1> QED BY <1>3 DEF Rank

\* The rank follows the order.
LEMMA RankOrder ==
  ASSUME NEW S \in SUBSET Nat, IsFiniteSet(S), NEW u \in S, NEW v \in S
  PROVE  u < v <=> Rank(u, S) < Rank(v, S)
<1> DEFINE below(w) == {x \in S : x < w}
<1>1. ASSUME NEW x \in S, NEW y \in S, x < y PROVE Rank(x, S) < Rank(y, S)
  <2> /\ x \in Nat /\ y \in Nat
      /\ \A z \in S : z \in Nat
    OBVIOUS
  <2>1. below(x) \subseteq below(y) /\ x \in below(y) /\ x \notin below(x)
    <3>1. \A z \in S : z < x => z < y
      BY <1>1
    <3>2. ~ (x < x)
      OBVIOUS
    <3>3. below(x) \subseteq below(y)
      BY <3>1, Zenon
    <3> QED BY <1>1, <3>2, <3>3, Zenon
  <2>2. IsFiniteSet(below(y))
    BY FS_Subset
  <2>3. /\ IsFiniteSet(below(x)) /\ Cardinality(below(x)) <= Cardinality(below(y))
        /\ Cardinality(below(y)) = Cardinality(below(x)) => below(y) = below(x)
    BY <2>1, <2>2, FS_Subset
  <2>4. Cardinality(below(x)) \in Nat /\ Cardinality(below(y)) \in Nat
    BY <2>2, <2>3, FS_CardinalityType
  <2> QED BY <2>1, <2>3, <2>4 DEF Rank
<1>2. Rank(u, S) \in Nat /\ Rank(v, S) \in Nat
  BY RankIsNat
<1>3. u < v \/ u = v \/ v < u
  OBVIOUS
<1> QED BY <1>1, <1>2, <1>3

\* Every rank below the cardinality is the rank of one member.
LEMMA RankOnto ==
  ASSUME NEW S \in SUBSET Nat, IsFiniteSet(S)
  PROVE  /\ Cardinality(S) \in Nat
         /\ \A i \in 0 .. Cardinality(S) - 1 : \E u \in S : Rank(u, S) = i
         /\ \A u, v \in S : Rank(u, S) = Rank(v, S) => u = v
<1> DEFINE n == Cardinality(S)
           f == [u \in S |-> Rank(u, S)]
<1>1. n \in Nat
  BY FS_CardinalityType
<1>2. \A u, v \in S : Rank(u, S) = Rank(v, S) => u = v
  <2> SUFFICES ASSUME NEW u \in S, NEW v \in S, Rank(u, S) = Rank(v, S) PROVE u = v
    OBVIOUS
  <2>1. Rank(u, S) \in Nat
    BY RankIsNat
  <2>2. ~ (u < v) /\ ~ (v < u)
    BY <2>1, RankOrder
  <2> QED BY <2>2
<1>3. \A u \in S : Rank(u, S) \in 0 .. n - 1
  BY RankIsNat
<1>4. f \in Injection(S, 0 .. n - 1)
  BY <1>2, <1>3 DEF Injection, IsInjective
<1>5. IsFiniteSet(0 .. n - 1) /\ Cardinality(0 .. n - 1) = n
  <2>1. 0 \in Int /\ n - 1 \in Int /\ (0 > n - 1 <=> n = 0) /\ n - 1 - 0 + 1 = n
    BY <1>1
  <2> QED BY <2>1, FS_Interval, Zenon
<1>6. f \in Surjection(S, 0 .. n - 1)
  BY <1>4, <1>5, FS_Injection
<1> QED BY <1>1, <1>2, <1>6 DEF Surjection

\* The sequence of the members in order has each of them once.
LEMMA InOrderIsASequence ==
  ASSUME NEW S \in SUBSET Nat, IsFiniteSet(S)
  PROVE  /\ InOrder(S) \in Seq(S) /\ Len(InOrder(S)) = Cardinality(S)
         /\ Range(InOrder(S)) = S
         /\ \A i, j \in 1 .. Cardinality(S) : i < j => InOrder(S)[i] < InOrder(S)[j]
<1> DEFINE n == Cardinality(S)
           t == InOrder(S)
<1>1. n \in Nat
  BY RankOnto
<1>2. \A i \in 1 .. n : t[i] \in S /\ Rank(t[i], S) = i - 1
  <2> SUFFICES ASSUME NEW i \in 1 .. n PROVE t[i] \in S /\ Rank(t[i], S) = i - 1
    OBVIOUS
  <2>1. \E u \in S : Rank(u, S) = i - 1
    BY <1>1, RankOnto
  <2>2. t[i] = CHOOSE u \in S : Rank(u, S) = i - 1
    BY DEF InOrder
  <2> QED BY <2>1, <2>2
<1>3. t \in Seq(S) /\ Len(t) = n /\ DOMAIN t = 1 .. n
  <2>1. t \in [1 .. n -> S]
    BY <1>2 DEF InOrder
  <2> QED BY <1>1, <2>1
<1>4. S \subseteq Range(t)
  <2> SUFFICES ASSUME NEW u \in S PROVE \E i \in 1 .. n : t[i] = u
    BY <1>3 DEF Range
  <2>1. Rank(u, S) \in Nat /\ Rank(u, S) < n
    BY RankIsNat
  <2>2. Rank(u, S) + 1 \in 1 .. n
    BY <1>1, <2>1
  <2>3. t[Rank(u, S) + 1] \in S /\ Rank(t[Rank(u, S) + 1], S) = Rank(u, S)
    BY <1>2, <2>1, <2>2
  <2> QED BY <2>2, <2>3, RankOnto
<1>5. Range(t) \subseteq S
  BY <1>2, <1>3 DEF Range
<1>6. \A i, j \in 1 .. n : i < j => t[i] < t[j]
  <2> SUFFICES ASSUME NEW i \in 1 .. n, NEW j \in 1 .. n, i < j PROVE t[i] < t[j]
    OBVIOUS
  <2>1. Rank(t[i], S) < Rank(t[j], S) /\ t[i] \in S /\ t[j] \in S
    BY <1>1, <1>2
  <2> HIDE DEF t
  <2> QED BY <2>1, RankOrder
<1> QED BY <1>3, <1>4, <1>5, <1>6

\* The members between two ranks are as many as their ranks.
LEMMA SliceSize ==
  ASSUME NEW S \in SUBSET Nat, IsFiniteSet(S), NEW a \in Nat, NEW b \in Nat,
         a <= b, b <= Cardinality(S)
  PROVE  LET slice == {u \in S : a <= Rank(u, S) /\ Rank(u, S) < b}
         IN IsFiniteSet(slice) /\ Cardinality(slice) = b - a
<1> DEFINE slice == {u \in S : a <= Rank(u, S) /\ Rank(u, S) < b}
           f == [u \in slice |-> Rank(u, S)]
<1>1. Cardinality(S) \in Nat
  BY FS_CardinalityType
<1>2. IsFiniteSet(slice)
  BY FS_Subset
<1>3. \A u \in S : Rank(u, S) \in Nat
  BY RankIsNat
<1>4. f \in Bijection(slice, a .. b - 1)
  <2>1. f \in [slice -> a .. b - 1]
    <3>1. \A u \in slice : Rank(u, S) \in a .. b - 1
      BY <1>3
    <3> QED BY <3>1
  <2>2. \A u, v \in slice : f[u] = f[v] => u = v
    BY RankOnto
  <2>3. \A i \in a .. b - 1 : \E u \in slice : f[u] = i
    <3> SUFFICES ASSUME NEW i \in a .. b - 1 PROVE \E u \in slice : f[u] = i
      OBVIOUS
    <3>1. i \in 0 .. Cardinality(S) - 1
      BY <1>1
    <3>2. PICK u \in S : Rank(u, S) = i
      BY <3>1, RankOnto
    <3> QED BY <3>2
  <2> QED BY <2>1, <2>2, <2>3 DEF Bijection, Injection, Surjection, IsInjective
<1>5. Cardinality(a .. b - 1) = Cardinality(slice)
  BY <1>2, <1>4, FS_Bijection DEF ExistsBijection
<1>6. Cardinality(a .. b - 1) = b - a
  <2>1. a \in Int /\ b - 1 \in Int /\ (a > b - 1 => b - a = 0) /\ b - 1 - a + 1 = b - a
    OBVIOUS
  <2>2. Cardinality(a .. b - 1) = IF a > b - 1 THEN 0 ELSE b - 1 - a + 1
    BY <2>1, FS_Interval
  <2> QED BY <2>1, <2>2
<1> QED BY <1>2, <1>5, <1>6

-----------------------------------------------------------------------------
(* The inductive invariants *)

\* The children read, shown or not.
Read == waitingChildren \cup Range(children)

\* A load of the node is under way or has failed while its spinner turns; the
\* requests that come before the pages belong to the first load, which begins
\* with nothing read.
LoadInv ==
  /\ expanded => toggled
  /\ isLoadingChildren => toggled
  /\ stage # "none" => isLoadingChildren
  /\ stage \notin {"none", "page"} => firstPage
  /\ stage = "folders" => kind = "unit"
  /\ stage # "none" /\ firstPage =>
       Read = {} /\ realDirectNodePage = 0 /\ realDirectNodeMatchingPage = 0
  /\ foundPaths \subseteq corpus.paths
  /\ foundPaths # {} => isLoadingChildren /\ firstPage
  /\ foundFolders \subseteq Folders
  /\ foundFolders # {} => kind = "unit"

\* The children that match and come before the page of those that match.
MatchingBefore(page) ==
  {u \in Matching(tree) : Rank(u, Matching(tree)) < page * PageSize}

\* While the search is the one of the tree, the two page numbers are the same
\* until the pages of those that match end, and what they passed is read.
CountInv ==
  /\ tree <= search
  /\ SameSearch =>
       /\ stage # "none" => asked = tree
       /\ stage \in {"paths", "page"} /\ firstPage =>
            foundPaths = corpus.paths \cap corpus.matching[tree]
       /\ counted \subseteq Read \cap WithResults
       /\ (Read \cap WithResults) \ counted \subseteq AnyChildren \ Folders
       /\ MatchingAreRead => counted = Read \cap WithResults
       /\ MatchingBefore(realDirectNodeMatchingPage) \subseteq Read
       /\ \/ realDirectNodeMatchingPage = realDirectNodePage
          \/ Cardinality(Matching(tree)) <= realDirectNodeMatchingPage * PageSize

\* What the pages of any children passed is read; the first load reads the
\* paths and the folders, and the last one leaves nothing.
EndInv ==
  /\ {u \in AnyChildren : Rank(u, AnyChildren) < realDirectNodePage * PageSize} \subseteq Read
  /\ stage \in {"matchingPaths", "paths", "page"} /\ firstPage /\ kind = "unit" =>
       foundFolders = Folders
  /\ toggled /\ ~ isLoadingChildren => realDirectNodePage > 0
  /\ stage = "page" /\ ~ firstPage => realDirectNodePage > 0
  /\ realDirectNodePage > 0 =>
       corpus.paths \subseteq Read /\ (kind = "unit" => Folders \subseteq Read)
  /\ ~ canLoadMoreChildren =>
       /\ waitingChildren = {} /\ realDirectNodePage > 0
       /\ everyAsked => AnyChildren \subseteq Read
       /\ ~ everyAsked /\ SameSearch => Matching(tree) \subseteq Read

\* The children with results that are shown come first, and are no more than
\* what the pages of those that match have passed.
OrderInv ==
  SameSearch /\ FoldersAreFound /\ MatchingAreRead =>
    /\ \A i, j \in DOMAIN children :
         i < j /\ children[i] \in counted /\ children[j] \in counted
           => children[i] < children[j]
    /\ \A u \in Range(children) \cap counted, v \in WithResults \ Range(children) : u < v
    /\ \/ Cardinality(Range(children) \cap counted) <= realDirectNodeMatchingPage * PageSize
       \/ Matching(tree) \subseteq Read

TreeInv == TypeOK /\ LoadInv /\ ReadOnce /\ CountInv /\ EndInv /\ OrderInv

-----------------------------------------------------------------------------
(* What a load reads *)

\* Sets of children are finite sets of numbers.
LEMMA SetsOfUnits ==
  ASSUME NEW S \in SUBSET Units
  PROVE  S \in SUBSET Nat /\ IsFiniteSet(S)
BY SizesAssumption, FS_Subset

\* A sequence followed by another has the members of both.
LEMMA Appended ==
  ASSUME NEW s \in Seq(Units), NEW t \in Seq(Units)
  PROVE  /\ s \o t \in Seq(Units)
         /\ Range(s \o t) = Range(s) \cup Range(t)
         /\ IsInjective(s) /\ IsInjective(t) /\ Range(s) \cap Range(t) = {} => IsInjective(s \o t)
<1> DEFINE r == s \o t
<1>1. /\ r \in Seq(Units) /\ Len(s) \in Nat /\ Len(t) \in Nat /\ Len(r) = Len(s) + Len(t)
      /\ \A i \in 1 .. Len(s) + Len(t) : r[i] = IF i <= Len(s) THEN s[i] ELSE t[i - Len(s)]
      /\ DOMAIN r = 1 .. Len(s) + Len(t) /\ DOMAIN s = 1 .. Len(s) /\ DOMAIN t = 1 .. Len(t)
  OBVIOUS
<1> HIDE DEF r
<1>2. \A i \in DOMAIN s : i \in DOMAIN r /\ r[i] = s[i]
  BY <1>1
<1>3. \A i \in DOMAIN t : i + Len(s) \in DOMAIN r /\ r[i + Len(s)] = t[i]
  BY <1>1
<1>4. \A i \in DOMAIN r : \/ i \in DOMAIN s /\ r[i] = s[i]
                          \/ i - Len(s) \in DOMAIN t /\ r[i] = t[i - Len(s)] /\ i > Len(s)
  BY <1>1
<1>5. Range(r) = Range(s) \cup Range(t)
  BY <1>2, <1>3, <1>4 DEF Range
<1>6. ASSUME IsInjective(s), IsInjective(t), Range(s) \cap Range(t) = {} PROVE IsInjective(r)
  <2> SUFFICES ASSUME NEW i \in DOMAIN r, NEW j \in DOMAIN r, r[i] = r[j] PROVE i = j
    BY DEF IsInjective
  <2>1. i \in Int /\ j \in Int
    BY <1>1
  <2>2. ASSUME NEW k \in DOMAIN s, NEW l \in DOMAIN t PROVE s[k] # t[l]
    BY <1>6 DEF Range
  <2>3. CASE i \in DOMAIN s /\ r[i] = s[i] /\ j \in DOMAIN s /\ r[j] = s[j]
    BY <1>6, <2>3 DEF IsInjective
  <2>4. CASE i - Len(s) \in DOMAIN t /\ r[i] = t[i - Len(s)] /\ j - Len(s) \in DOMAIN t /\ r[j] = t[j - Len(s)]
    <3>1. i - Len(s) = j - Len(s)
      BY <1>6, <2>4 DEF IsInjective
    <3> QED BY <1>1, <2>1, <3>1
  <2> QED BY <1>4, <2>2, <2>3, <2>4
<1> QED BY <1>1, <1>5, <1>6 DEF r

\* What is shown was waiting.
LEMMA ShownWaited ==
  ASSUME NEW W, NEW C
  PROVE  Shown(W, C) \subseteq W
BY DEF Shown

\* Merging reads what comes, counts what is new and has results, and shows or
\* keeps each child once.
LEMMA Merged ==
  ASSUME children \in Seq(Units), waitingChildren \subseteq Units, ReadOnce,
         NEW reads \in SUBSET Units, NEW withResults, NEW paths \in SUBSET Units,
         paths \cap Range(children) = {}, NEW shown,
         shown \subseteq waitingChildren \cup paths \cup (reads \ (Read \cup paths)),
         children' = children \o InOrder(shown),
         waitingChildren' = (waitingChildren \cup paths \cup (reads \ (Read \cup paths))) \ shown,
         counted' = counted \cup ((reads \ (Read \cup paths)) \cap withResults) \cup foundPaths
  PROVE  /\ children' \in Seq(Units) /\ waitingChildren' \subseteq Units
         /\ Read' = Read \cup paths \cup reads
         /\ Range(children') = Range(children) \cup shown
         /\ ReadOnce'
<1> DEFINE new == reads \ (Read \cup paths)
           waiting == waitingChildren \cup paths \cup new
           tail == InOrder(shown)
<1>1. children' = children \o tail /\ waitingChildren' = waiting \ shown
  OBVIOUS
<1>2. waiting = waitingChildren \cup paths \cup new
  OBVIOUS
<1>3. shown \subseteq waiting
  OBVIOUS
<1>4. waiting \subseteq Units /\ waiting \cap Range(children) = {}
  BY DEF ReadOnce, Read
<1>5. shown \in SUBSET Nat /\ IsFiniteSet(shown)
  BY <1>3, <1>4, SetsOfUnits
<1>6. /\ tail \in Seq(shown) /\ Len(tail) = Cardinality(shown) /\ Range(tail) = shown
      /\ \A i, j \in 1 .. Cardinality(shown) : i < j => tail[i] < tail[j]
  BY <1>5, InOrderIsASequence
<1> HIDE DEF tail, waiting
<1>7. tail \in Seq(Units)
  BY <1>3, <1>4, <1>6
<1>8. IsInjective(tail)
  <2>1. DOMAIN tail = 1 .. Cardinality(shown) /\ Cardinality(shown) \in Nat
    BY <1>5, <1>6, FS_CardinalityType
  <2>2. \A i \in DOMAIN tail : tail[i] \in Nat
    <3>1. \A i \in DOMAIN tail : tail[i] \in Range(tail)
      BY Zenon DEF Range
    <3> QED BY <1>5, <1>6, <3>1
  <2> SUFFICES ASSUME NEW i \in DOMAIN tail, NEW j \in DOMAIN tail, tail[i] = tail[j] PROVE i = j
    BY DEF IsInjective
  <2> QED BY <1>6, <2>1, <2>2
<1>9. /\ children' \in Seq(Units) /\ Range(children') = Range(children) \cup shown
      /\ IsInjective(children')
  BY <1>1, <1>3, <1>4, <1>6, <1>7, <1>8, Appended DEF ReadOnce
<1>10. waitingChildren' \subseteq Units /\ Range(children') \cap waitingChildren' = {}
  BY <1>1, <1>3, <1>4, <1>9
<1>11. Read' = waiting \cup Range(children)
  BY <1>1, <1>3, <1>9 DEF Read
<1>12. Read' = Read \cup paths \cup reads
  BY <1>2, <1>11 DEF Read, waiting
<1> QED BY <1>1, <1>9, <1>10, <1>12 DEF ReadOnce

-----------------------------------------------------------------------------
(* Types, and children read once *)

\* What the corpus and a page of the node are made of.
LEMMA SetsOfTheNode ==
  ASSUME TypeOK
  PROVE  /\ corpus.paths \in SUBSET Units
         /\ ArchiveUnits \in SUBSET Units /\ ArchiveUnits \cap corpus.paths = {}
         /\ \A t \in Searches : Matching(t) \in SUBSET ArchiveUnits
         /\ Folders \in SUBSET ArchiveUnits
         /\ AnyChildren \in SUBSET ArchiveUnits /\ AllPage \in SUBSET AnyChildren
         /\ Taken \in SUBSET Matching(asked)
BY DEF TypeOK, Corpus, ArchiveUnits, AnyChildren, Matching, Folders, AllPage, Taken, MatchingPage, PageOf

\* Initially nothing is read.
LEMMA InitTree == Init => TypeOK /\ LoadInv /\ ReadOnce
<1> SUFFICES ASSUME Init PROVE TypeOK /\ LoadInv /\ ReadOnce
  OBVIOUS
<1> 1 \in Searches
  BY SizesAssumption DEF Searches
<1>1. TypeOK
  <2>1. corpus \in Corpus /\ children \in Seq(Units)
    BY CorporaAssumption DEF Init
  <2>2. counted \subseteq waitingChildren \cup Range(children)
    BY DEF Init
  <2>3. /\ answered \subseteq Searches /\ waitingChildren \subseteq Units
        /\ foundFolders \subseteq Units /\ foundPaths \subseteq Units
        /\ realDirectNodePage \in Nat /\ realDirectNodeMatchingPage \in 0 .. realDirectNodePage
    BY DEF Init
  <2>4. stage \in Stages /\ kind \in Kinds
    BY DEF Init, Stages, Kinds
  <2> QED BY <2>1, <2>2, <2>3, <2>4 DEF Init, TypeOK
<1>2. LoadInv
  BY DEF Init, LoadInv
<1>3. ReadOnce
  BY DEF Init, ReadOnce, IsInjective, Range
<1> QED BY <1>1, <1>2, <1>3

\* A node made anew has nothing read.
LEMMA Emptied ==
  ASSUME EmptyNode
  PROVE  /\ children' \in Seq(Units) /\ waitingChildren' = {} /\ counted' = {} /\ Read' = {}
         /\ ReadOnce'
BY DEF EmptyNode, Read, Range, ReadOnce, IsInjective

\* The pages of a load are merged, with the paths on the first load.
LEMMA PageMerged ==
  ASSUME TypeOK, LoadInv, ReadOnce, PageAnswered
  PROVE  LET reads     == foundFolders \cup AllPage \cup Taken
             perimeter == IF kind = "virtual" THEN {} ELSE reads \cap Folders
             paths     == IF firstPage THEN corpus.paths ELSE {}
         IN /\ reads \in SUBSET ArchiveUnits
            /\ children' \in Seq(Units) /\ waitingChildren' \subseteq Units
            /\ Read' = Read \cup paths \cup reads
            /\ ReadOnce'
            /\ counted' = counted \cup ((reads \ (Read \cup paths)) \cap (perimeter \cup Taken))
                            \cup foundPaths
            /\ foundPaths \subseteq paths
            /\ \E waiting, counts, shown :
                 /\ waiting = Read' \ Range(children) /\ counts = counted'
                 /\ shown = Shown(waiting, counts)
                 /\ children' = children \o InOrder(shown)
                 /\ Range(children') = Range(children) \cup shown
<1> DEFINE reads == foundFolders \cup AllPage \cup Taken
           perimeter == IF kind = "virtual" THEN {} ELSE reads \cap Folders
           paths == IF firstPage THEN corpus.paths ELSE {}
<1>1. reads \in SUBSET ArchiveUnits
  <2>1. foundFolders \subseteq ArchiveUnits
    BY SetsOfTheNode DEF LoadInv
  <2>2. asked \in Searches
    BY DEF TypeOK
  <2> QED BY <2>1, <2>2, SetsOfTheNode
<1>2. reads \in SUBSET Units /\ paths \in SUBSET Units
  BY <1>1, SetsOfTheNode
<1>3. stage = "page" /\ Merge(reads, perimeter \cup Taken, paths)
  BY Zenon DEF PageAnswered
<1>4. paths \cap Range(children) = {}
  BY <1>3 DEF LoadInv, Read
<1>5. foundPaths \subseteq paths
  BY DEF LoadInv
<1>6. children \in Seq(Units) /\ waitingChildren \subseteq Units
  BY DEF TypeOK
<1> DEFINE results == perimeter \cup Taken
<1> DEFINE waiting == waitingChildren \cup paths \cup (reads \ (Read \cup paths))
           counts == counted \cup ((reads \ (Read \cup paths)) \cap results) \cup foundPaths
<1>7. /\ children' = children \o InOrder(Shown(waiting, counts))
      /\ waitingChildren' = waiting \ Shown(waiting, counts)
      /\ counted' = counts
  <2>1. {u \in reads : u \notin waitingChildren \cup paths \cup Range(children)}
          = reads \ (Read \cup paths)
    BY DEF Read
  <2>2. Merge(reads, results, paths)
    BY <1>3 DEF results
  <2> HIDE DEF reads, paths, results
  <2> QED BY <2>1, <2>2, Zenon DEF Merge
<1>8. Shown(waiting, counts) \subseteq waiting
  BY ShownWaited
<1>9. PICK r, w, q, shown : r = reads /\ w = results /\ q = paths /\ shown = Shown(waiting, counts)
  OBVIOUS
<1>10. q \cap Range(children) = {} /\ r \in SUBSET Units /\ q \in SUBSET Units
  BY <1>2, <1>4, <1>9, Zenon
<1>11. /\ shown \subseteq waitingChildren \cup q \cup (r \ (Read \cup q))
       /\ children' = children \o InOrder(shown)
       /\ waitingChildren' = (waitingChildren \cup q \cup (r \ (Read \cup q))) \ shown
       /\ counted' = counted \cup ((r \ (Read \cup q)) \cap w) \cup foundPaths
  BY <1>7, <1>8, <1>9, Zenon
<1>12. /\ children' \in Seq(Units) /\ waitingChildren' \subseteq Units
       /\ Read' = Read \cup q \cup r
       /\ Range(children') = Range(children) \cup shown
       /\ ReadOnce'
  BY <1>6, <1>10, <1>11, Merged
<1>13. PICK W, C : W = waiting /\ C = counts
  OBVIOUS
<1>14. W = Read' \ Range(children)
  BY <1>9, <1>10, <1>12, <1>13 DEF Read, ReadOnce
<1>15. \E w2, c2, shown2 :
         /\ w2 = Read' \ Range(children) /\ c2 = counted'
         /\ shown2 = Shown(w2, c2)
         /\ children' = children \o InOrder(shown2)
         /\ Range(children') = Range(children) \cup shown2
  <2> HIDE DEF waiting, counts, reads, paths, results
  <2>1. C = counted' /\ shown = Shown(W, C)
    BY <1>7, <1>9, <1>13, Zenon
  <2> QED BY <1>11, <1>12, <1>14, <2>1, Zenon
<1> QED BY <1>1, <1>5, <1>7, <1>9, <1>12, <1>15, Zenon

\* A step keeps the types, how a load goes and each child in one place.
LEMMA NextTree == TypeOK /\ LoadInv /\ ReadOnce /\ [Next]_vars => (TypeOK /\ LoadInv /\ ReadOnce)'
<1> SUFFICES ASSUME TypeOK, LoadInv, ReadOnce, [Next]_vars PROVE (TypeOK /\ LoadInv /\ ReadOnce)'
  OBVIOUS
<1> USE DEF Kinds, Stages
<1>1. ASSUME UNCHANGED <<corpusVars, searchVars, nodeVars>>
      PROVE  /\ ReadOnce' /\ Read' = Read /\ Folders' = Folders /\ UNCHANGED <<kind, corpus>>
             /\ UNCHANGED <<search, tree, answered, children, waitingChildren, counted,
                            realDirectNodePage, realDirectNodeMatchingPage,
                            canLoadMoreChildren, canLoadMoreMatchingChildren>>
  BY <1>1 DEF corpusVars, searchVars, nodeVars, ReadOnce, Read, Range, IsInjective, Folders, ArchiveUnits
<1>2. CASE Toggle
  BY <1>1, <1>2 DEF Toggle, Open, TypeOK, LoadInv, callVars, foundVars
<1>3. CASE FirstToggle
  <2>1. ReadOnce' /\ Read' = {} /\ children' \in Seq(Units) /\ waitingChildren' = {} /\ counted' = {}
    BY <1>3, Emptied DEF FirstToggle
  <2>2. TypeOK'
    BY <1>3, <2>1 DEF FirstToggle, EmptyNode, Open, TypeOK, corpusVars, searchVars, foundVars
  <2>3. LoadInv'
    BY <1>3, <2>1 DEF FirstToggle, EmptyNode, Open, TypeOK, LoadInv, Folders, ArchiveUnits,
                      corpusVars, searchVars, foundVars
  <2> QED BY <2>1, <2>2, <2>3
<1>4. CASE LoadMore
  BY <1>1, <1>4 DEF LoadMore, CanLoadMore, TypeOK, LoadInv, foundVars
<1>5. CASE SwitchViewAllNodes
  BY <1>1, <1>5 DEF SwitchViewAllNodes, TypeOK, LoadInv, callVars, foundVars
<1>6. CASE FoldersAnswered
  <2>1. Folders \subseteq Units
    BY SetsOfTheNode
  <2> QED BY <1>1, <1>6, <2>1 DEF FoldersAnswered, Ask, TypeOK, LoadInv
<1>7. CASE MatchingPathsAnswered
  <2>1. corpus.paths \subseteq Units
    BY SetsOfTheNode
  <2> QED BY <1>1, <1>7, <2>1 DEF MatchingPathsAnswered, Ask, TypeOK, LoadInv
<1>8. CASE PathsAnswered
  BY <1>1, <1>8 DEF PathsAnswered, Ask, TypeOK, LoadInv, foundVars
<1>9. CASE PageAnswered
  <2> DEFINE reads == foundFolders \cup AllPage \cup Taken
             perimeter == IF kind = "virtual" THEN {} ELSE reads \cap Folders
             paths == IF firstPage THEN corpus.paths ELSE {}
  <2>1. /\ children' \in Seq(Units) /\ waitingChildren' \subseteq Units
        /\ Read' = Read \cup paths \cup reads
        /\ ReadOnce'
        /\ counted' = counted \cup ((reads \ (Read \cup paths)) \cap (perimeter \cup Taken))
                        \cup foundPaths
        /\ foundPaths \subseteq paths
    BY <1>9, PageMerged, Zenon
  <2>2. counted \subseteq Read
    BY DEF TypeOK, Read
  <2> HIDE DEF reads, perimeter, paths
  <2>3. counted' \subseteq Read'
    BY <2>1, <2>2
  <2>4. /\ realDirectNodePage' \in Nat
        /\ realDirectNodeMatchingPage' \in 0 .. realDirectNodePage'
    BY <1>9, SizesAssumption DEF PageAnswered, Shift, TypeOK
  <2>5. /\ UNCHANGED <<kind, corpus, search, tree, answered, showEveryNodes, expanded, toggled,
                       asked, firstPage, everyAsked, failed>>
        /\ stage' = "none" /\ isLoadingChildren' = FALSE /\ foundFolders' = {} /\ foundPaths' = {}
    BY <1>9 DEF PageAnswered, corpusVars, searchVars, callVars
  <2>6. canLoadMoreChildren' \in BOOLEAN /\ canLoadMoreMatchingChildren' \in BOOLEAN
    BY <1>9, Zenon DEF PageAnswered, HasMore, TypeOK
  <2>7. TypeOK'
    BY <2>1, <2>3, <2>4, <2>5, <2>6 DEF TypeOK, Read
  <2>8. LoadInv'
    BY <2>5 DEF LoadInv
  <2> QED BY <2>1, <2>7, <2>8
<1>10. CASE CallFailed
  BY <1>1, <1>10 DEF CallFailed, TypeOK, LoadInv, callVars, foundVars
<1>11. CASE SendSearch
  <2>1. ReadOnce' /\ Read' = Read /\ Folders' = Folders
    BY <1>11 DEF SendSearch, corpusVars, nodeVars, ReadOnce, Read, Range, IsInjective, Folders, ArchiveUnits
  <2> QED BY <1>11, <2>1, SizesAssumption
          DEF SendSearch, TypeOK, LoadInv, Searches, corpusVars, nodeVars, callVars, foundVars
<1>12. CASE SearchAnswered
  <2>1. ReadOnce' /\ Read' = {} /\ children' \in Seq(Units) /\ waitingChildren' = {} /\ counted' = {}
    BY <1>12, Emptied DEF SearchAnswered
  <2>2. PICK s \in 1 .. search : answered' = answered \cup {s} /\ tree' = s
    BY <1>12 DEF SearchAnswered
  <2>3. s \in Searches
    BY SizesAssumption DEF TypeOK, Searches
  <2>4. TypeOK'
    <3>1. /\ UNCHANGED <<kind, corpus, search, showEveryNodes, asked, firstPage, everyAsked>>
          /\ expanded' = FALSE /\ toggled' = FALSE /\ isLoadingChildren' = FALSE
          /\ canLoadMoreChildren' = TRUE /\ canLoadMoreMatchingChildren' = TRUE
          /\ realDirectNodePage' = 0 /\ realDirectNodeMatchingPage' = 0
          /\ stage' = "none" /\ failed' = FALSE
          /\ foundFolders' = {} /\ foundPaths' = {}
      BY <1>12 DEF SearchAnswered, EmptyNode, corpusVars, callVars
    <3>2. tree' \in Searches /\ answered' \subseteq Searches
      BY <2>2, <2>3 DEF TypeOK
    <3>3. /\ waitingChildren' \subseteq Units /\ counted' \subseteq waitingChildren' \cup Range(children')
          /\ foundFolders' \subseteq Units /\ foundPaths' \subseteq Units
          /\ realDirectNodePage' \in Nat /\ realDirectNodeMatchingPage' \in 0 .. realDirectNodePage'
      BY <2>1, <3>1
    <3>4. stage' \in Stages
      BY <3>1
    <3> HIDE DEF Stages, Kinds
    <3> QED BY <2>1, <3>1, <3>2, <3>3, <3>4 DEF TypeOK
  <2>5. LoadInv'
    BY <1>12, <2>1 DEF SearchAnswered, LoadInv, corpusVars, callVars
  <2> QED BY <2>1, <2>4, <2>5
<1>13. CASE UNCHANGED vars
  BY <1>1, <1>13 DEF vars, TypeOK, LoadInv, callVars, foundVars
<1> QED BY <1>2, <1>3, <1>4, <1>5, <1>6, <1>7, <1>8, <1>9, <1>10, <1>11, <1>12, <1>13 DEF Next

\* Types, loads and places are right in every state.
LEMMA TreeTypes == Spec => [](TypeOK /\ LoadInv /\ ReadOnce)
<1>1. Init => TypeOK /\ LoadInv /\ ReadOnce
  BY InitTree
<1>2. TypeOK /\ LoadInv /\ ReadOnce /\ [Next]_vars => (TypeOK /\ LoadInv /\ ReadOnce)'
  BY NextTree
<1> QED BY <1>1, <1>2, PTL DEF Spec

\* The tree is well typed in every state.
THEOREM TypeCorrect == Spec => []TypeOK
BY TreeTypes, PTL

\* A child is under its node once, whatever the requests that read it.
THEOREM EachChildOnce == Spec => []ReadOnce
BY TreeTypes, PTL

-----------------------------------------------------------------------------
(* The arithmetic of pages *)

\* The product of naturals is a natural.
LEMMA ProductIsNat ==
  ASSUME NEW a \in Nat, NEW b \in Nat
  PROVE  a * b \in Nat
BY Z3

\* A number divided by d is p when it is in the p-th interval of d numbers.
LEMMA Division ==
  ASSUME NEW d \in Nat \ {0}, NEW r \in Nat, NEW p \in Nat
  PROVE  /\ r \div d \in Nat
         /\ r \div d = p <=> p * d <= r /\ r < (p + 1) * d
<1>1. PICK q \in Int, s \in Int : r = q * d + s /\ 0 <= s /\ s < d /\ r \div d = q
  <2>1. r \div d \in Int /\ r % d \in Int /\ r = (r \div d) * d + (r % d) /\ 0 <= r % d /\ r % d < d
    BY Z3
  <2> QED BY <2>1
<1>2. q >= 0
  <2>1. ASSUME q <= -1 PROVE FALSE
    <3>1. q * d <= -d
      BY <2>1, Z3
    <3> QED BY <1>1, <3>1
  <2> QED BY <2>1
<1>3. q = p => p * d <= r /\ r < (p + 1) * d
  BY <1>1, Z3
<1>4. ASSUME q < p PROVE r < p * d
  <2>1. (q + 1) * d <= p * d
    BY <1>4, Z3
  <2>2. (q + 1) * d = q * d + d
    BY Z3
  <2>3. q * d \in Int /\ p * d \in Int
    BY Z3
  <2> QED BY <1>1, <2>1, <2>2, <2>3
<1>5. ASSUME p < q PROVE r >= (p + 1) * d
  <2>1. (p + 1) * d <= q * d
    BY <1>5, Z3
  <2>2. q * d \in Int /\ (p + 1) * d \in Int
    BY Z3
  <2> QED BY <1>1, <2>1, <2>2
<1>6. p * d \in Int /\ (p + 1) * d \in Int
  BY Z3
<1> QED BY <1>1, <1>2, <1>3, <1>4, <1>5, <1>6

\* What a load reads of the children that match, or of all, is between two
\* multiples of the page size.
LEMMA PageBetween ==
  ASSUME firstPage \in BOOLEAN, NEW p \in Nat, firstPage => p = 0, NEW r \in Nat
  PROVE  r \div SizeOf(firstPage) = p
           <=> p * PageSize <= r /\ r < (p + Shift(firstPage)) * PageSize
<1>1. PageSize \in Nat \ {0} /\ FirstPages \in Nat \ {0, 1}
  BY SizesAssumption
<1>2. CASE firstPage
  <2>1. FirstPages * PageSize \in Nat \ {0}
    BY <1>1, Z3
  <2>2. r \div (FirstPages * PageSize) = 0
          <=> 0 * (FirstPages * PageSize) <= r /\ r < (0 + 1) * (FirstPages * PageSize)
    BY <2>1, Division
  <2>3. /\ 0 * (FirstPages * PageSize) = 0 /\ 0 * PageSize = 0
        /\ (0 + 1) * (FirstPages * PageSize) = (0 + FirstPages) * PageSize
    BY <1>1, <2>1, Z3
  <2> QED BY <1>2, <2>2, <2>3 DEF SizeOf, Shift
<1>3. CASE ~ firstPage
  <2>1. r \div PageSize = p <=> p * PageSize <= r /\ r < (p + 1) * PageSize
    BY <1>1, Division
  <2> QED BY <1>3, <2>1 DEF SizeOf, Shift
<1> QED BY <1>2, <1>3

\* When the pages of those that match have ended, they are behind the page number.
LEMMA PagesEnded ==
  ASSUME firstPage \in BOOLEAN, NEW p \in Nat, firstPage => p = 0, NEW n \in Nat
  PROVE  ~ (p < (n + SizeOf(firstPage) - 1) \div SizeOf(firstPage)) => n <= p * PageSize
<1>1. PageSize \in Nat \ {0} /\ FirstPages \in Nat \ {0, 1}
  BY SizesAssumption
<1> DEFINE size == SizeOf(firstPage)
<1>2. size \in Nat \ {0}
  BY <1>1, Z3 DEF SizeOf
<1>3. p * size = p * PageSize
  <2>1. CASE firstPage
    <3>1. 0 * size = 0 * PageSize
      BY <1>1, <1>2, Z3
    <3> QED BY <2>1, <3>1
  <2>2. CASE ~ firstPage
    BY <2>2 DEF SizeOf
  <2> QED BY <2>1, <2>2
<1> HIDE DEF size
<1> SUFFICES ASSUME ~ (p < (n + size - 1) \div size) PROVE n <= p * size
  BY <1>3 DEF size
<1>4. n + size - 1 \in Nat
  BY <1>2
<1> DEFINE q == (n + size - 1) \div size
<1>5. q \in Nat /\ n + size - 1 < (q + 1) * size
  BY <1>2, <1>4, Division
<1>6. q <= p
  BY <1>5
<1> HIDE DEF q
<1>7. (q + 1) * size <= (p + 1) * size /\ (p + 1) * size = p * size + size
  BY <1>2, <1>5, <1>6, Z3
<1>8. p * size \in Nat /\ (q + 1) * size \in Nat
  BY <1>2, <1>5, ProductIsNat
<1> QED BY <1>2, <1>5, <1>7, <1>8

-----------------------------------------------------------------------------
(* The counts *)

\* Initially nothing is counted.
LEMMA InitCount == Init => CountInv
<1> SUFFICES ASSUME Init PROVE CountInv
  OBVIOUS
<1>1. TypeOK /\ Read = {}
  BY InitTree DEF Init, Read, Range
<1>2. \A u \in Matching(tree) : Rank(u, Matching(tree)) \in Nat
  BY <1>1, SetsOfTheNode, SetsOfUnits, RankIsNat DEF TypeOK
<1>3. MatchingBefore(0) = {}
  <2>1. 0 * PageSize = 0
    BY SizesAssumption
  <2> QED BY <1>2, <2>1 DEF MatchingBefore
<1> QED BY <1>1, <1>3 DEF Init, CountInv

\* What a page of those that match adds, when it is asked for the search of the tree.
LEMMA MatchingPageAdds ==
  ASSUME TypeOK, LoadInv, stage = "page", asked = tree
  PROVE  LET m == realDirectNodeMatchingPage
             M == Matching(tree)
         IN /\ m \in Nat /\ m * PageSize \in Nat
            /\ firstPage => m = 0 /\ realDirectNodePage = 0
            /\ Cardinality(M) \in Nat
            /\ \A u \in M : /\ Rank(u, M) \in Nat /\ Rank(u, M) < Cardinality(M)
            /\ \A u \in AnyChildren : Rank(u, AnyChildren) \in Nat
            /\ MatchingAreRead => \A u \in M : u \in AnyChildren /\ Rank(u, M) <= Rank(u, AnyChildren)
            /\ \A u \in M : u \in MatchingPage
                              <=> m * PageSize <= Rank(u, M)
                                    /\ Rank(u, M) < (m + Shift(firstPage)) * PageSize
            /\ \A u \in AnyChildren : u \in AllPage
                              <=> realDirectNodePage * PageSize <= Rank(u, AnyChildren)
                                    /\ Rank(u, AnyChildren) < (realDirectNodePage + Shift(firstPage)) * PageSize
            /\ ~ IsPage => Cardinality(M) <= m * PageSize
<1> DEFINE m == realDirectNodeMatchingPage
           M == Matching(tree)
<1>1. /\ m \in Nat /\ realDirectNodePage \in Nat /\ PageSize \in Nat /\ firstPage \in BOOLEAN
      /\ firstPage => m = 0 /\ realDirectNodePage = 0
  BY SizesAssumption DEF TypeOK, LoadInv
<1>2. m * PageSize \in Nat
  BY <1>1, ProductIsNat
<1>3. /\ M \in SUBSET Nat /\ IsFiniteSet(M)
      /\ AnyChildren \in SUBSET Nat /\ IsFiniteSet(AnyChildren)
  <2>1. M \in SUBSET Units /\ AnyChildren \in SUBSET Units
    BY SetsOfTheNode DEF TypeOK
  <2> QED BY <2>1, SetsOfUnits
<1>8. MatchingAreRead => M \subseteq AnyChildren
  BY DEF MatchingAreRead
<1> HIDE DEF M
<1>4. /\ Cardinality(M) \in Nat
      /\ \A u \in M : Rank(u, M) \in Nat /\ Rank(u, M) < Cardinality(M)
      /\ MatchingAreRead => \A u \in M : Rank(u, M) <= Rank(u, AnyChildren)
      /\ \A u \in AnyChildren : Rank(u, AnyChildren) \in Nat
  <2>1. Cardinality(M) \in Nat
    BY <1>3, FS_CardinalityType
  <2>2. \A u \in M : Rank(u, M) \in Nat /\ Rank(u, M) < Cardinality(M)
    BY <1>3, RankIsNat
  <2>3. \A u \in AnyChildren : Rank(u, AnyChildren) \in Nat
    BY <1>3, RankIsNat
  <2>4. MatchingAreRead => \A u \in M : Rank(u, M) <= Rank(u, AnyChildren)
    BY <1>3, <1>8, RankInSubset
  <2> QED BY <2>1, <2>2, <2>3, <2>4
<1>5. \A u \in M : u \in MatchingPage
                     <=> m * PageSize <= Rank(u, M) /\ Rank(u, M) < (m + Shift(firstPage)) * PageSize
  <2>1. MatchingPage = {u \in M : Rank(u, M) \div SizeOf(firstPage) = m}
    BY DEF MatchingPage, PageOf, M
  <2> HIDE DEF m
  <2> QED BY <1>1, <1>4, <2>1, PageBetween
<1>6. \A u \in AnyChildren : u \in AllPage
        <=> realDirectNodePage * PageSize <= Rank(u, AnyChildren)
              /\ Rank(u, AnyChildren) < (realDirectNodePage + Shift(firstPage)) * PageSize
  <2>1. AllPage = {u \in AnyChildren : Rank(u, AnyChildren) \div SizeOf(firstPage) = realDirectNodePage}
    BY DEF AllPage, PageOf
  <2> QED BY <1>1, <1>4, <2>1, PageBetween
<1>7. ~ IsPage => Cardinality(M) <= m * PageSize
  <2>1. IsPage <=> m < (Cardinality(M) + SizeOf(firstPage) - 1) \div SizeOf(firstPage)
    BY DEF IsPage, PageNumbers, M
  <2> HIDE DEF m
  <2> QED BY <1>1, <1>4, <2>1, PagesEnded
<1> QED BY <1>1, <1>2, <1>4, <1>5, <1>6, <1>7, <1>8 DEF M

\* Under a virtual node nothing that matches is left out of the pages of any children.
LEMMA VirtualIsRead == TypeOK /\ kind = "virtual" => MatchingAreRead
BY DEF MatchingAreRead, AnyChildren, Matching

\* A load keeps the counts right: what it reads without knowing whether it
\* matches is on a page of those that match, or was read before.
LEMMA PageCounts ==
  ASSUME TypeOK, LoadInv, ReadOnce, CountInv, PageAnswered
  PROVE  CountInv'
<1> DEFINE reads == foundFolders \cup AllPage \cup Taken
           perimeter == IF kind = "virtual" THEN {} ELSE reads \cap Folders
           paths == IF firstPage THEN corpus.paths ELSE {}
           m == realDirectNodeMatchingPage
           sh == Shift(firstPage)
           M == Matching(tree)
<1>1. /\ UNCHANGED <<kind, corpus, search, tree>> /\ stage = "page" /\ stage' = "none"
      /\ m' = m + (IF IsPage THEN sh ELSE 0) /\ realDirectNodePage' = realDirectNodePage + sh
  BY DEF PageAnswered, corpusVars, searchVars
<1>2. CASE ~ SameSearch
  BY <1>1, <1>2 DEF CountInv, SameSearch
<1>3. CASE SameSearch
  <2>1. /\ asked = tree
        /\ firstPage => foundPaths = corpus.paths \cap corpus.matching[tree]
        /\ counted \subseteq Read \cap WithResults
        /\ (Read \cap WithResults) \ counted \subseteq AnyChildren \ Folders
        /\ MatchingAreRead => counted = Read \cap WithResults
        /\ MatchingBefore(m) \subseteq Read
        /\ m = realDirectNodePage \/ Cardinality(M) <= m * PageSize
    BY <1>1, <1>3 DEF CountInv
  <2>2. /\ reads \in SUBSET ArchiveUnits
        /\ Read' = Read \cup paths \cup reads
        /\ counted' = counted \cup ((reads \ (Read \cup paths)) \cap (perimeter \cup Taken)) \cup foundPaths
        /\ foundPaths \subseteq paths
    BY PageMerged, Zenon
  <2>3. /\ m \in Nat /\ m * PageSize \in Nat
        /\ firstPage => m = 0 /\ realDirectNodePage = 0
        /\ Cardinality(M) \in Nat
        /\ \A u \in M : /\ Rank(u, M) \in Nat /\ Rank(u, M) < Cardinality(M)
        /\ \A u \in AnyChildren : Rank(u, AnyChildren) \in Nat
        /\ MatchingAreRead => \A u \in M : u \in AnyChildren /\ Rank(u, M) <= Rank(u, AnyChildren)
        /\ \A u \in M : u \in MatchingPage
                          <=> m * PageSize <= Rank(u, M) /\ Rank(u, M) < (m + sh) * PageSize
        /\ \A u \in AnyChildren : u \in AllPage
                          <=> realDirectNodePage * PageSize <= Rank(u, AnyChildren)
                                /\ Rank(u, AnyChildren) < (realDirectNodePage + sh) * PageSize
        /\ ~ IsPage => Cardinality(M) <= m * PageSize
    BY <1>1, <2>1, MatchingPageAdds, Zenon
  <2>4. /\ sh \in Nat /\ (m + sh) * PageSize \in Nat /\ m * PageSize <= (m + sh) * PageSize
    <3>1. sh \in Nat /\ PageSize \in Nat
      BY SizesAssumption DEF Shift
    <3>2. (m + sh) * PageSize = m * PageSize + sh * PageSize
      BY <2>3, <3>1, Z3
    <3>3. sh * PageSize \in Nat
      BY <3>1, ProductIsNat
    <3> QED BY <2>3, <3>1, <3>2, <3>3
  <2>5. /\ M \in SUBSET ArchiveUnits /\ Folders \in SUBSET ArchiveUnits /\ Taken \in SUBSET M
        /\ ArchiveUnits \in SUBSET Units /\ corpus.paths \in SUBSET Units /\ AllPage \in SUBSET AnyChildren
        /\ ArchiveUnits \cap corpus.paths = {}
        /\ M = ArchiveUnits \cap corpus.matching[tree]
    BY <2>1, SetsOfTheNode DEF TypeOK, Matching
  <2>6. WithResults = (Units \cap corpus.matching[tree]) \cup (IF kind = "virtual" THEN {} ELSE Folders)
    BY DEF WithResults
  <2>7. foundFolders \subseteq Folders /\ (foundFolders # {} => kind = "unit")
        /\ (foundPaths # {} => firstPage)
    BY DEF LoadInv
  <2>8. MatchingBefore(m) = {u \in M : Rank(u, M) < m * PageSize}
    BY DEF MatchingBefore
  <2>9. /\ WithResults' = WithResults /\ SameSearch' /\ M' = M /\ Folders' = Folders
        /\ AnyChildren' = AnyChildren /\ MatchingAreRead' = MatchingAreRead
    BY <1>1, <1>3 DEF WithResults, Folders, ArchiveUnits, SameSearch, Matching, AnyChildren, MatchingAreRead
  <2> HIDE DEF reads, perimeter, paths, M, sh
  <2>10. ASSUME MatchingAreRead, NEW u \in M, u \in AllPage, u \notin Read PROVE u \in Taken
    <3>1. ~ (Rank(u, M) < m * PageSize)
      BY <2>1, <2>8, <2>10
    <3>2. ~ (Cardinality(M) <= m * PageSize)
      BY <2>3, <3>1
    <3>3. m = realDirectNodePage /\ IsPage
      BY <2>1, <2>3, <3>2
    <3>4. /\ Rank(u, AnyChildren) \in Nat /\ Rank(u, AnyChildren) < (m + sh) * PageSize
          /\ Rank(u, M) \in Nat /\ Rank(u, M) <= Rank(u, AnyChildren)
      BY <2>3, <2>5, <2>10, <3>3
    <3>5. u \in MatchingPage
      BY <2>3, <2>4, <3>1, <3>4
    <3> QED BY <3>3, <3>5 DEF Taken
  <2>11. counted' \subseteq Read' \cap WithResults
    <3>1. perimeter \subseteq WithResults
      BY <2>6 DEF perimeter
    <3>2. Taken \subseteq WithResults
      BY <2>5, <2>6
    <3>3. foundPaths \subseteq WithResults
      BY <2>1, <2>5, <2>6, <2>7
    <3> QED BY <2>1, <2>2, <3>1, <3>2, <3>3
  <2>12. ASSUME NEW u \in Read', u \in WithResults, u \notin counted', u \notin Read
         PROVE  u \in AnyChildren \ Folders /\ ~ MatchingAreRead
    <3>1. CASE u \in paths
      <4>1. firstPage /\ u \in corpus.paths
        BY <3>1 DEF paths
      <4>2. u \in corpus.matching[tree]
        BY <2>5, <2>6, <2>12, <4>1
      <4> QED BY <2>1, <2>2, <2>12, <4>1, <4>2
    <3>2. CASE u \notin paths
      <4>1. u \in reads /\ u \in ArchiveUnits
        BY <2>2, <2>12, <3>2
      <4>2. CASE u \in Folders /\ kind # "virtual"
        BY <2>2, <2>12, <3>2, <4>1, <4>2 DEF perimeter
      <4>3. CASE ~ (u \in Folders /\ kind # "virtual")
        <5>1. u \in M
          BY <2>5, <2>6, <2>12, <4>1, <4>3
        <5>2. u \notin foundFolders
          BY <2>7, <4>3
        <5>3. u \notin Taken
          BY <2>2, <2>12, <3>2, <4>1
        <5>4. u \in AllPage
          BY <4>1, <5>2, <5>3 DEF reads
        <5>5. ~ MatchingAreRead
          BY <2>10, <2>12, <5>1, <5>3, <5>4
        <5>6. u \notin Folders
          BY <4>3, <5>5, VirtualIsRead
        <5> QED BY <2>5, <5>4, <5>5, <5>6
      <4> QED BY <4>2, <4>3
    <3> QED BY <3>1, <3>2
  <2>16. /\ (Read' \cap WithResults) \ counted' \subseteq AnyChildren \ Folders
         /\ MatchingAreRead => Read' \cap WithResults \subseteq counted'
    BY <2>1, <2>2, <2>12
  <2>13. MatchingBefore(m)' \subseteq Read'
    <3>1. MatchingBefore(m)' = {u \in M : Rank(u, M) < m' * PageSize}
      BY <2>9 DEF MatchingBefore, Rank, M
    <3> SUFFICES ASSUME NEW u \in M, Rank(u, M) < m' * PageSize, u \notin Read PROVE u \in reads
      BY <2>2, <3>1
    <3>2. ~ (Rank(u, M) < m * PageSize)
      BY <2>1, <2>8
    <3>3. IsPage /\ m' = m + sh
      <4>1. CASE ~ IsPage
        BY <1>1, <2>3, <3>2, <4>1
      <4> QED BY <1>1, <4>1
    <3>4. u \in MatchingPage
      BY <2>3, <3>2, <3>3
    <3> QED BY <3>3, <3>4 DEF reads, Taken
  <2>14. m' = realDirectNodePage' \/ Cardinality(M) <= m' * PageSize
    <3>1. CASE IsPage
      <4>1. m' = m + sh
        BY <1>1, <3>1
      <4> QED BY <1>1, <2>1, <2>3, <2>4, <4>1
    <3>2. CASE ~ IsPage
      <4>1. m' = m
        BY <1>1, <2>3, <3>2
      <4> QED BY <2>3, <3>2, <4>1
    <3> QED BY <3>1, <3>2
  <2>15. tree' <= search'
    BY <1>1 DEF CountInv
  <2> QED BY <1>1, <2>9, <2>11, <2>13, <2>14, <2>15, <2>16 DEF CountInv, M
<1> QED BY <1>2, <1>3

\* What is said of the node stays true while neither the node nor the tree changes.
LEMMA NodeUnchanged ==
  ASSUME UNCHANGED <<corpusVars, searchVars, nodeVars>>
  PROVE  /\ UNCHANGED <<kind, corpus, search, tree, children, waitingChildren, counted,
                        realDirectNodePage, realDirectNodeMatchingPage, canLoadMoreChildren>>
         /\ Read' = Read /\ Folders' = Folders /\ ArchiveUnits' = ArchiveUnits
         /\ Matching(tree)' = Matching(tree) /\ WithResults' = WithResults
         /\ MatchingBefore(realDirectNodeMatchingPage)' = MatchingBefore(realDirectNodeMatchingPage)
         /\ AnyChildren' = AnyChildren /\ MatchingAreRead' = MatchingAreRead
         /\ SameSearch' = SameSearch /\ FoldersAreFound' = FoldersAreFound
BY DEF corpusVars, searchVars, nodeVars, Read, Range, Folders, ArchiveUnits, Matching, WithResults,
       MatchingBefore, Rank, SameSearch, FoldersAreFound, AnyChildren, MatchingAreRead

\* A node made anew has the counts right, for the tree its search has.
LEMMA EmptiedCounts ==
  ASSUME TypeOK', EmptyNode, (tree <= search)', (stage = "none" \/ asked = search)',
         (stage \notin {"paths", "page"})'
  PROVE  CountInv' /\ OrderInv'
<1>1. Read' = {} /\ counted' = {} /\ Range(children') = {} /\ DOMAIN children' = {}
      /\ realDirectNodePage' = 0 /\ realDirectNodeMatchingPage' = 0
  BY Emptied DEF EmptyNode, Range
<1>2. MatchingBefore(0)' = {}
  <2>1. (\A u \in Matching(tree) : Rank(u, Matching(tree)) \in Nat)'
    <3>1. (Matching(tree) \in SUBSET Nat /\ IsFiniteSet(Matching(tree)))'
      <4>1. Matching(tree)' \in SUBSET Units
        BY DEF TypeOK, Matching, ArchiveUnits
      <4>2. Matching(tree)' \in SUBSET Nat /\ IsFiniteSet(Matching(tree)')
        BY <4>1, SetsOfUnits
      <4> QED BY <4>2
    <3> DEFINE N == Matching(tree)'
    <3>2. \A u \in N : Rank(u, N) \in Nat
      <4>1. N \in SUBSET Nat /\ IsFiniteSet(N)
        BY <3>1
      <4> HIDE DEF N
      <4> QED BY <4>1, RankIsNat
    <3> QED BY <3>2 DEF Rank
  <2>2. 0 * PageSize = 0
    BY SizesAssumption
  <2> QED BY <2>1, <2>2 DEF MatchingBefore
<1>3. CountInv'
  BY <1>1, <1>2 DEF CountInv, SameSearch
<1>4. OrderInv'
  <2>1. Cardinality(Range(children') \cap counted') = 0
    BY <1>1, FS_EmptySet
  <2>2. 0 <= 0 * PageSize
    BY SizesAssumption
  <2> QED BY <1>1, <2>1, <2>2 DEF OrderInv
<1> QED BY <1>3, <1>4

\* The counts and the order are kept by every step that reads no page.
LEMMA NextCount ==
  TypeOK /\ TypeOK' /\ LoadInv /\ CountInv /\ OrderInv /\ [Next]_vars /\ ~ PageAnswered
    => CountInv' /\ OrderInv'
<1> SUFFICES ASSUME TypeOK, TypeOK', LoadInv, CountInv, OrderInv, [Next]_vars, ~ PageAnswered
             PROVE  CountInv' /\ OrderInv'
  OBVIOUS
<1>1. ASSUME UNCHANGED <<corpusVars, searchVars, nodeVars>>,
             SameSearch /\ stage' # "none" => asked' = tree,
             SameSearch /\ stage' \in {"paths", "page"} /\ firstPage' =>
               foundPaths' = corpus.paths \cap corpus.matching[tree]
      PROVE  CountInv' /\ OrderInv'
  <2>1. CountInv'
    BY <1>1, NodeUnchanged DEF CountInv
  <2>2. OrderInv'
    BY <1>1, NodeUnchanged DEF OrderInv
  <2> QED BY <2>1, <2>2
<1>2. CASE UNCHANGED <<stage, asked, firstPage, foundPaths>> /\ UNCHANGED <<corpusVars, searchVars, nodeVars>>
  BY <1>1, <1>2 DEF CountInv
<1>3. CASE Toggle \/ SwitchViewAllNodes \/ UNCHANGED vars
  <2>1. UNCHANGED <<stage, asked, firstPage, foundPaths>> /\ UNCHANGED <<corpusVars, searchVars, nodeVars>>
    BY <1>3, Zenon DEF Toggle, SwitchViewAllNodes, vars, callVars, foundVars
  <2> QED BY <1>2, <2>1
<1>4. CASE FirstToggle
  <2>1. EmptyNode /\ asked' = search /\ UNCHANGED <<search, tree>> /\ stage' \notin {"paths", "page"}
    BY <1>4 DEF FirstToggle, searchVars
  <2> QED BY <2>1, EmptiedCounts DEF CountInv
<1>5. CASE LoadMore
  <2>1. /\ UNCHANGED <<corpusVars, searchVars, nodeVars>>
        /\ asked' = search /\ stage' = "page" /\ firstPage' = FALSE
    BY <1>5 DEF LoadMore
  <2> QED BY <1>1, <2>1 DEF SameSearch
<1>6. CASE FoldersAnswered \/ MatchingPathsAnswered \/ PathsAnswered
  <2>1. UNCHANGED <<corpusVars, searchVars, nodeVars>> /\ asked' = search
    BY <1>6 DEF FoldersAnswered, MatchingPathsAnswered, PathsAnswered, Ask
  <2>2. CASE FoldersAnswered
    <3>1. stage' = "matchingPaths"
      BY <2>2 DEF FoldersAnswered, Ask
    <3> QED BY <1>1, <2>1, <3>1 DEF SameSearch
  <2>3. CASE MatchingPathsAnswered
    <3>1. foundPaths' = corpus.paths \cap corpus.matching[asked] /\ stage = "matchingPaths"
      BY <2>3 DEF MatchingPathsAnswered
    <3>2. SameSearch => asked = tree
      BY <3>1 DEF CountInv
    <3> QED BY <1>1, <2>1, <3>1, <3>2 DEF SameSearch
  <2>4. CASE PathsAnswered
    <3>1. UNCHANGED <<foundPaths, firstPage>> /\ stage = "paths"
      BY <2>4 DEF PathsAnswered, Ask, foundVars
    <3>2. SameSearch /\ firstPage => foundPaths = corpus.paths \cap corpus.matching[tree]
      BY <3>1 DEF CountInv
    <3> QED BY <1>1, <2>1, <3>1, <3>2 DEF SameSearch
  <2> QED BY <1>6, <2>2, <2>3, <2>4
<1>7. CASE CallFailed
  <2>1. UNCHANGED <<corpusVars, searchVars, nodeVars>> /\ stage' = "none"
    BY <1>7 DEF CallFailed
  <2> QED BY <1>1, <2>1
<1>8. CASE SendSearch
  <2>1. search' = search + 1 /\ tree' = tree /\ tree <= search /\ search \in Int /\ tree \in Int
    BY <1>8 DEF SendSearch, CountInv, TypeOK, Searches
  <2>2. tree' <= search' /\ ~ SameSearch'
    BY <2>1 DEF SameSearch
  <2> QED BY <2>2 DEF CountInv, OrderInv
<1>9. CASE SearchAnswered
  <2>1. EmptyNode /\ stage' = "none" /\ search' = search /\ tree' <= search
    BY <1>9 DEF SearchAnswered, TypeOK, Searches
  <2> QED BY <2>1, EmptiedCounts
<1> QED BY <1>3, <1>4, <1>5, <1>6, <1>7, <1>8, <1>9 DEF Next

-----------------------------------------------------------------------------
(* The end of the pages *)

\* Initially there is more to load.
LEMMA InitEnd == Init => EndInv /\ OrderInv
<1> SUFFICES ASSUME Init PROVE EndInv /\ OrderInv
  OBVIOUS
<1>1. TypeOK /\ 0 * PageSize = 0
  BY InitTree, SizesAssumption
<1>2. \A u \in AnyChildren : Rank(u, AnyChildren) \in Nat
  <2>1. AnyChildren \in SUBSET Units
    BY <1>1, SetsOfTheNode DEF TypeOK
  <2>2. AnyChildren \in SUBSET Nat /\ IsFiniteSet(AnyChildren)
    BY <2>1, SetsOfUnits
  <2> QED BY <2>2, RankIsNat
<1>3. EndInv
  BY <1>1, <1>2 DEF Init, EndInv
<1>4. Range(children) \cap counted = {} /\ Range(children) = {} /\ DOMAIN children = {}
  BY DEF Init, Range
<1>5. OrderInv
  BY <1>1, <1>4, FS_EmptySet DEF Init, OrderInv
<1> QED BY <1>3, <1>5

\* A slice that is not full ends the set: every member is before its end.
LEMMA LastSlice ==
  ASSUME NEW S \in SUBSET Nat, IsFiniteSet(S), NEW a \in Nat, NEW b \in Nat, NEW T, NEW n \in Nat,
         a <= b, n = b - a,
         \A u \in S : u \in T <=> a <= Rank(u, S) /\ Rank(u, S) < b,
         T \subseteq S, ~ (Cardinality(T) >= n)
  PROVE  \A u \in S : Rank(u, S) < b
<1> SUFFICES ASSUME NEW v \in S, ~ (Rank(v, S) < b) PROVE FALSE
  OBVIOUS
<1>1. Cardinality(S) \in Nat /\ Rank(v, S) \in Nat /\ Rank(v, S) < Cardinality(S)
  BY RankIsNat
<1>2. T = {u \in S : a <= Rank(u, S) /\ Rank(u, S) < b}
  OBVIOUS
<1>3. Cardinality(T) = b - a
  BY <1>1, <1>2, SliceSize
<1> QED BY <1>3

\* A load that finds no full page has read everything it looks for.
LEMMA PageEnds ==
  ASSUME TypeOK, LoadInv, ReadOnce, CountInv, EndInv, PageAnswered
  PROVE  EndInv'
<1> DEFINE reads == foundFolders \cup AllPage \cup Taken
           paths == IF firstPage THEN corpus.paths ELSE {}
           m == realDirectNodeMatchingPage
           sh == Shift(firstPage)
           M == Matching(tree)
<1>1. /\ UNCHANGED <<kind, corpus, search, tree, asked, firstPage, everyAsked>>
      /\ stage = "page" /\ stage' = "none" /\ isLoadingChildren' = FALSE
      /\ realDirectNodePage' = realDirectNodePage + sh /\ canLoadMoreChildren' = HasMore
  BY DEF PageAnswered, corpusVars, searchVars, callVars
<1>2. /\ reads \in SUBSET ArchiveUnits
      /\ Read' = Read \cup paths \cup reads
      /\ children' \in Seq(Units)
  BY PageMerged, Zenon
<1>3. /\ sh \in Nat \ {0} /\ PageSize \in Nat \ {0} /\ realDirectNodePage \in Nat /\ m \in Nat
      /\ SizeOf(firstPage) = sh * PageSize /\ firstPage \in BOOLEAN
  BY SizesAssumption DEF Shift, SizeOf, TypeOK
<1>4. ASSUME NEW p \in Nat
      PROVE  /\ p * PageSize \in Nat /\ (p + sh) * PageSize \in Nat
             /\ p * PageSize <= (p + sh) * PageSize
             /\ (p + sh) * PageSize - p * PageSize = SizeOf(firstPage)
             /\ SizeOf(firstPage) \in Nat
  <2>1. (p + sh) * PageSize = p * PageSize + sh * PageSize
    BY <1>3, Z3
  <2>2. sh * PageSize \in Nat /\ p * PageSize \in Nat
    BY <1>3, ProductIsNat
  <2> QED BY <1>3, <2>1, <2>2
<1>5. /\ AnyChildren \in SUBSET Nat /\ IsFiniteSet(AnyChildren)
      /\ AnyChildren' = AnyChildren /\ Folders' = Folders
      /\ M \in SUBSET Nat /\ IsFiniteSet(M) /\ M' = M
  <2>1. M \in SUBSET Units /\ AnyChildren \in SUBSET Units
    BY <1>1, SetsOfTheNode DEF TypeOK
  <2>2. AnyChildren' = AnyChildren /\ Folders' = Folders /\ M' = M
    BY <1>1 DEF ArchiveUnits, AnyChildren, Folders, Matching
  <2> QED BY <2>1, <2>2, SetsOfUnits
<1>6. /\ firstPage => realDirectNodePage = 0 /\ m = 0
      /\ \A u \in AnyChildren : Rank(u, AnyChildren) \in Nat
  BY <1>1, <1>5, RankIsNat DEF LoadInv
<1>7. \A u \in AnyChildren : u \in AllPage
        <=> realDirectNodePage * PageSize <= Rank(u, AnyChildren)
              /\ Rank(u, AnyChildren) < (realDirectNodePage + sh) * PageSize
  <2>1. AllPage = {u \in AnyChildren : Rank(u, AnyChildren) \div SizeOf(firstPage) = realDirectNodePage}
    BY DEF AllPage, PageOf
  <2> QED BY <1>3, <1>6, <2>1, PageBetween
<1> HIDE DEF sh, M, reads, paths
<1>8. \A u \in AnyChildren : Rank(u, AnyChildren) < (realDirectNodePage + sh) * PageSize => u \in Read'
  <2> SUFFICES ASSUME NEW u \in AnyChildren,
                      Rank(u, AnyChildren) < (realDirectNodePage + sh) * PageSize, u \notin Read
               PROVE  u \in AllPage
    BY <1>2 DEF reads
  <2>1. ~ (Rank(u, AnyChildren) < realDirectNodePage * PageSize)
    BY DEF EndInv
  <2> QED BY <1>3, <1>4, <1>6, <1>7, <2>1
<1>9. corpus.paths \subseteq Read' /\ (kind = "unit" => Folders \subseteq Read')
  <2>1. CASE firstPage
    BY <1>1, <1>2, <2>1 DEF EndInv, paths, reads
  <2>2. CASE ~ firstPage
    BY <1>1, <1>2, <2>2 DEF EndInv
  <2> QED BY <2>1, <2>2
<1>10. ASSUME ~ HasMore
       PROVE  /\ waitingChildren' = {}
              /\ everyAsked => AnyChildren \subseteq Read'
              /\ ~ everyAsked /\ SameSearch => M \subseteq Read'
  <2>1. waitingChildren' = {}
    BY <1>10 DEF HasMore
  <2>2. ASSUME everyAsked PROVE AnyChildren \subseteq Read'
    <3>1. AllPage \subseteq AnyChildren /\ ~ (Cardinality(AllPage) >= SizeOf(firstPage))
      BY <1>10, <2>2 DEF HasMore, AllPage, PageOf
    <3>2. \A u \in AnyChildren : Rank(u, AnyChildren) < (realDirectNodePage + sh) * PageSize
      BY <1>3, <1>4, <1>5, <1>7, <3>1, LastSlice
    <3> QED BY <1>8, <3>2
  <2>3. ASSUME ~ everyAsked, SameSearch PROVE M \subseteq Read'
    <3>1. asked = tree /\ MatchingBefore(m) \subseteq Read
      BY <1>1, <2>3 DEF CountInv
    <3>2. /\ \A u \in M : Rank(u, M) \in Nat /\ Rank(u, M) < Cardinality(M)
          /\ \A u \in M : u \in MatchingPage
                            <=> m * PageSize <= Rank(u, M) /\ Rank(u, M) < (m + sh) * PageSize
          /\ ~ IsPage => Cardinality(M) <= m * PageSize
          /\ Cardinality(M) \in Nat
      BY <1>1, <3>1, MatchingPageAdds, Zenon DEF M, sh
    <3>3. MatchingPage \subseteq M /\ ~ (Cardinality(MatchingPage) >= SizeOf(firstPage))
      BY <1>10, <2>3, <3>1 DEF HasMore, MatchingPage, PageOf, M
    <3>4. \A u \in M : Rank(u, M) < (m + sh) * PageSize
      BY <1>3, <1>4, <1>5, <3>2, <3>3, LastSlice
    <3> SUFFICES ASSUME NEW u \in M, u \notin Read PROVE u \in Taken
      BY <1>2 DEF reads
    <3>5. ~ (Rank(u, M) < m * PageSize)
      BY <3>1 DEF MatchingBefore, M
    <3>6. u \in MatchingPage
      BY <1>3, <1>4, <3>2, <3>4, <3>5
    <3>7. IsPage
      BY <1>3, <1>4, <3>2, <3>5
    <3> QED BY <3>6, <3>7 DEF Taken
  <2> QED BY <2>1, <2>2, <2>3
<1>11. realDirectNodePage' \in Nat /\ realDirectNodePage' > 0
  BY <1>1, <1>3
<1>12. \A u \in AnyChildren : Rank(u, AnyChildren)' = Rank(u, AnyChildren)
  BY <1>5 DEF Rank
<1>13. {u \in AnyChildren : Rank(u, AnyChildren) < realDirectNodePage * PageSize}' \subseteq Read'
  <2>1. {u \in AnyChildren : Rank(u, AnyChildren) < realDirectNodePage * PageSize}'
          = {u \in AnyChildren : Rank(u, AnyChildren) < (realDirectNodePage + sh) * PageSize}
    BY <1>1, <1>5, <1>12
  <2> QED BY <1>8, <2>1
<1>14. SameSearch' = SameSearch
  BY <1>1 DEF SameSearch
<1> QED BY <1>1, <1>5, <1>9, <1>10, <1>11, <1>13, <1>14 DEF EndInv, M

\* Every step keeps what is said of the pages that were passed.
LEMMA NextEnd ==
  TypeOK /\ TypeOK' /\ LoadInv /\ ReadOnce /\ CountInv /\ EndInv /\ [Next]_vars => EndInv'
<1> SUFFICES ASSUME TypeOK, TypeOK', LoadInv, ReadOnce, CountInv, EndInv, [Next]_vars PROVE EndInv'
  OBVIOUS
<1>1. ASSUME UNCHANGED <<corpusVars, searchVars, nodeVars, everyAsked>>,
             stage' \in {"matchingPaths", "paths", "page"} /\ firstPage' /\ kind = "unit" =>
               foundFolders' = Folders,
             toggled' /\ ~ isLoadingChildren' => realDirectNodePage > 0,
             stage' = "page" /\ ~ firstPage' => realDirectNodePage > 0
      PROVE  EndInv'
  <2>1. {u \in AnyChildren : Rank(u, AnyChildren) < realDirectNodePage * PageSize}'
          = {u \in AnyChildren : Rank(u, AnyChildren) < realDirectNodePage * PageSize}
    BY <1>1, NodeUnchanged DEF Rank
  <2> QED BY <1>1, <2>1, NodeUnchanged DEF EndInv
<1>2. ASSUME EmptyNode, stage' \in {"none", "folders"} \/ (kind' # "unit" /\ stage' = "matchingPaths"),
             toggled' => isLoadingChildren'
      PROVE  EndInv'
  <2>1. AnyChildren' \in SUBSET Units
    BY DEF TypeOK, ArchiveUnits, AnyChildren
  <2> DEFINE A == AnyChildren'
  <2>2. \A u \in A : Rank(u, A) \in Nat
    <3>1. A \in SUBSET Nat /\ IsFiniteSet(A)
      BY <2>1, SetsOfUnits
    <3> HIDE DEF A
    <3> QED BY <3>1, RankIsNat
  <2>3. 0 * PageSize = 0
    BY SizesAssumption
  <2>4. {u \in AnyChildren : Rank(u, AnyChildren) < realDirectNodePage * PageSize}'
          = {u \in A : Rank(u, A) < 0}
    BY <1>2, <2>3 DEF EmptyNode, Rank
  <2>5. {u \in A : Rank(u, A) < 0} = {}
    BY <2>2
  <2> QED BY <1>2, <2>4, <2>5 DEF EndInv, EmptyNode
<1>3. CASE Toggle \/ SwitchViewAllNodes \/ UNCHANGED vars
  <2>1. UNCHANGED <<corpusVars, searchVars, nodeVars, stage, firstPage, everyAsked, foundFolders,
                    toggled, isLoadingChildren>>
    BY <1>3, Zenon DEF Toggle, SwitchViewAllNodes, vars, callVars, foundVars
  <2> QED BY <1>1, <2>1 DEF EndInv
<1>4. CASE FirstToggle
  <2>1. EmptyNode /\ kind' = kind /\ toggled' /\ isLoadingChildren'
        /\ stage' = IF kind = "unit" THEN "folders" ELSE "matchingPaths"
    BY <1>4 DEF FirstToggle, corpusVars
  <2> QED BY <1>2, <2>1
<1>5. CASE LoadMore
  <2>1. /\ canLoadMoreChildren /\ ~ isLoadingChildren /\ toggled
        /\ UNCHANGED <<corpusVars, searchVars, nodeVars, toggled>>
        /\ stage' = "page" /\ firstPage' = FALSE /\ isLoadingChildren' = TRUE
    BY <1>5 DEF LoadMore, CanLoadMore, LoadInv
  <2>2. {u \in AnyChildren : Rank(u, AnyChildren) < realDirectNodePage * PageSize}'
          = {u \in AnyChildren : Rank(u, AnyChildren) < realDirectNodePage * PageSize}
    BY <2>1, NodeUnchanged DEF Rank
  <2> QED BY <2>1, <2>2, NodeUnchanged DEF EndInv
<1>6. CASE FoldersAnswered \/ MatchingPathsAnswered \/ PathsAnswered
  <2>1. UNCHANGED <<corpusVars, searchVars, nodeVars, firstPage, everyAsked, toggled, isLoadingChildren>>
    BY <1>6 DEF FoldersAnswered, MatchingPathsAnswered, PathsAnswered, Ask
  <2>2. CASE FoldersAnswered
    <3>1. stage' = "matchingPaths" /\ foundFolders' = Folders
      BY <2>2 DEF FoldersAnswered, Ask
    <3> QED BY <1>1, <2>1, <3>1 DEF EndInv
  <2>3. CASE MatchingPathsAnswered \/ PathsAnswered
    <3>1. stage \in {"matchingPaths", "paths"} /\ firstPage /\ foundFolders' = foundFolders
      BY <2>3 DEF MatchingPathsAnswered, PathsAnswered, LoadInv, foundVars
    <3> QED BY <1>1, <2>1, <3>1 DEF EndInv
  <2> QED BY <1>6, <2>2, <2>3
<1>7. CASE PageAnswered
  BY <1>7, PageEnds
<1>8. CASE CallFailed
  <2>1. UNCHANGED <<corpusVars, searchVars, nodeVars, everyAsked, toggled, isLoadingChildren>> /\ stage' = "none"
    BY <1>8 DEF CallFailed, callVars
  <2> QED BY <1>1, <2>1 DEF EndInv
<1>9. CASE SendSearch
  <2>1. /\ UNCHANGED <<kind, corpus, tree, children, waitingChildren, realDirectNodePage, canLoadMoreChildren,
                       stage, firstPage, everyAsked, foundFolders, toggled, isLoadingChildren>>
        /\ search' = search + 1
    BY <1>9 DEF SendSearch, corpusVars, nodeVars, callVars, foundVars
  <2>2. Read' = Read /\ Folders' = Folders /\ AnyChildren' = AnyChildren
    BY <2>1 DEF Read, Range, Folders, ArchiveUnits, AnyChildren
  <2>3. ~ SameSearch'
    <3>1. tree <= search /\ tree \in Int /\ search \in Int
      BY DEF CountInv, TypeOK, Searches
    <3> QED BY <2>1, <3>1 DEF SameSearch
  <2>4. {u \in AnyChildren : Rank(u, AnyChildren) < realDirectNodePage * PageSize}'
          = {u \in AnyChildren : Rank(u, AnyChildren) < realDirectNodePage * PageSize}
    BY <2>1, <2>2 DEF Rank
  <2> QED BY <2>1, <2>2, <2>3, <2>4 DEF EndInv
<1>10. CASE SearchAnswered
  <2>1. EmptyNode /\ stage' = "none" /\ toggled' = FALSE
    BY <1>10 DEF SearchAnswered
  <2> QED BY <1>2, <2>1
<1> QED BY <1>3, <1>4, <1>5, <1>6, <1>7, <1>8, <1>9, <1>10 DEF Next

-----------------------------------------------------------------------------
(* The order of what has results *)

\* The first n members of a set are n at most.
LEMMA PrefixSize ==
  ASSUME NEW S \in SUBSET Nat, IsFiniteSet(S), NEW n \in Nat
  PROVE  LET prefix == {u \in S : Rank(u, S) < n}
         IN IsFiniteSet(prefix) /\ Cardinality(prefix) \in Nat /\ Cardinality(prefix) <= n
<1> DEFINE prefix == {u \in S : Rank(u, S) < n}
           f == [u \in prefix |-> Rank(u, S)]
<1>1. \A u \in prefix : Rank(u, S) \in 0 .. n - 1
  BY RankIsNat
<1>2. \A u, v \in prefix : Rank(u, S) = Rank(v, S) => u = v
  BY RankOnto
<1>3. f \in Injection(prefix, 0 .. n - 1)
  BY <1>1, <1>2 DEF Injection, IsInjective
<1>4. IsFiniteSet(0 .. n - 1) /\ Cardinality(0 .. n - 1) = n
  <2>1. 0 \in Int /\ n - 1 \in Int /\ (0 > n - 1 <=> n = 0) /\ n - 1 - 0 + 1 = n
    OBVIOUS
  <2> QED BY <2>1, FS_Interval, Zenon
<1>5. IsFiniteSet(prefix) /\ Cardinality(prefix) <= n
  BY <1>3, <1>4, FS_Injection
<1> QED BY <1>5, FS_CardinalityType

\* A load shows no more children than its pages have.
LEMMA ElementsBound ==
  ASSUME NEW W \in SUBSET Units, NEW C, firstPage \in BOOLEAN
  PROVE  ElementsToShow(W, C) \in Nat /\ ElementsToShow(W, C) <= Shift(firstPage) * PageSize
<1> DEFINE inSight == {u \in W \cap C : Rank(u, W) < FirstPages * PageSize}
           IsLast(p) == /\ \E u \in inSight : Rank(u, W) \div PageSize = p - 1
                        /\ \A u \in inSight : Rank(u, W) \div PageSize < p
           lastPage == CHOOSE p \in 1 .. FirstPages : IsLast(p)
<1>1. PageSize \in Nat \ {0} /\ FirstPages \in Nat \ {0, 1}
  BY SizesAssumption
<1>2. FirstPages * PageSize \in Nat /\ PageSize <= FirstPages * PageSize /\ 1 * PageSize = PageSize
  BY <1>1, Z3
<1>3. W \in SUBSET Nat /\ IsFiniteSet(W)
  BY SetsOfUnits
<1>4. inSight \in SUBSET Nat /\ IsFiniteSet(inSight)
  BY <1>3, FS_Subset
<1>5. \A u \in inSight : Rank(u, W) \in Nat /\ u \in W
  BY <1>3, RankIsNat
<1>6. ASSUME inSight # {} PROVE \E p \in 1 .. FirstPages : IsLast(p)
  <2>1. Cardinality(inSight) \in Nat \ {0}
    BY <1>4, <1>6, FS_CardinalityType, FS_EmptySet
  <2>2. PICK last \in inSight : Rank(last, inSight) = Cardinality(inSight) - 1
    <3> HIDE DEF inSight
    <3>1. Cardinality(inSight) - 1 \in 0 .. Cardinality(inSight) - 1
      BY <2>1
    <3> QED BY <1>4, <3>1, RankOnto
  <2>3. \A u \in inSight : Rank(u, W) <= Rank(last, W)
    <3> SUFFICES ASSUME NEW u \in inSight PROVE Rank(u, W) <= Rank(last, W)
      OBVIOUS
    <3>1. Rank(u, inSight) \in Nat /\ Rank(u, inSight) < Cardinality(inSight)
      BY <1>4, RankIsNat
    <3>2. ~ (Rank(last, inSight) < Rank(u, inSight))
      BY <2>1, <2>2, <3>1
    <3>3. ~ (last < u)
      BY <1>4, <3>2, RankOrder
    <3>4. ~ (Rank(last, W) < Rank(u, W))
      BY <1>3, <1>5, <3>3, RankOrder
    <3> QED BY <1>5, <3>4
  <2> DEFINE page == Rank(last, W) \div PageSize
  <2>4. page \in Nat /\ page * PageSize <= Rank(last, W) /\ Rank(last, W) < (page + 1) * PageSize
    BY <1>1, <1>5, Division
  <2>5. Rank(last, W) < FirstPages * PageSize
    OBVIOUS
  <2>6. page < FirstPages
    <3> HIDE DEF page
    <3> SUFFICES ASSUME FirstPages <= page PROVE FALSE
      BY <1>1, <2>4
    <3>1. FirstPages * PageSize <= page * PageSize /\ page * PageSize \in Nat
      BY <1>1, <2>4, Z3
    <3> QED BY <1>2, <1>5, <2>4, <2>5, <3>1
  <2>7. \A u \in inSight : Rank(u, W) \div PageSize < page + 1
    <3> SUFFICES ASSUME NEW u \in inSight PROVE Rank(u, W) \div PageSize < page + 1
      OBVIOUS
    <3> DEFINE q == Rank(u, W) \div PageSize
    <3>1. q \in Nat /\ q * PageSize <= Rank(u, W)
      BY <1>1, <1>5, Division
    <3> HIDE DEF page, q
    <3> SUFFICES ASSUME page + 1 <= q PROVE FALSE
      BY <2>4, <3>1 DEF q
    <3>2. (page + 1) * PageSize <= q * PageSize /\ (page + 1) * PageSize \in Nat /\ q * PageSize \in Nat
      BY <1>1, <2>4, <3>1, Z3
    <3> QED BY <1>5, <2>3, <2>4, <3>1, <3>2
  <2> HIDE DEF page
  <2>8. page + 1 \in 1 .. FirstPages /\ (page + 1) - 1 = page
    BY <1>1, <2>4, <2>6
  <2>9. IsLast(page + 1)
    <3>1. \E u \in inSight : Rank(u, W) \div PageSize = (page + 1) - 1
      BY <2>8 DEF page
    <3> QED BY <2>7, <3>1, Zenon
  <2> QED BY <2>8, <2>9
<1>7. ElementsToShow(W, C) = IF everyAsked /\ firstPage /\ inSight # {} THEN lastPage * PageSize ELSE PageSize
  BY DEF ElementsToShow
<1> HIDE DEF inSight, IsLast
<1>8. CASE everyAsked /\ firstPage /\ inSight # {}
  <2>1. lastPage \in 1 .. FirstPages
    BY <1>6, <1>8
  <2> HIDE DEF lastPage
  <2>2. lastPage * PageSize \in Nat /\ lastPage * PageSize <= FirstPages * PageSize
    BY <1>1, <2>1, Z3
  <2> QED BY <1>7, <1>8, <2>2 DEF Shift
<1>9. CASE ~ (everyAsked /\ firstPage /\ inSight # {})
  <2>1. ElementsToShow(W, C) = PageSize
    BY <1>7, <1>9
  <2> QED BY <1>1, <1>2, <2>1 DEF Shift
<1> QED BY <1>8, <1>9

\* What a load shows of the children with results comes before what it leaves:
\* those that are read wait in order, and so many of those that match come
\* before one that is not read that the load stops short of it.
LEMMA ShownComeFirst ==
  ASSUME TypeOK, LoadInv, CountInv, EndInv, OrderInv, PageAnswered, SameSearch, FoldersAreFound,
         MatchingAreRead, EndInv', CountInv', Read \subseteq Read', NEW waiting, waiting = Read' \ Range(children), waiting \in SUBSET Units,
         Range(children) \subseteq Read', Read' \subseteq Units,
         NEW n \in Nat, n <= Shift(firstPage) * PageSize,
         NEW ranked, ranked = IF everyAsked THEN waiting ELSE waiting \cap counted',
         NEW u \in waiting \cap counted', Rank(u, ranked) < n,
         NEW v \in WithResults, v \notin Range(children), v \in waiting => ~ (Rank(v, ranked) < n)
  PROVE  u < v
<1> DEFINE m == realDirectNodeMatchingPage
           sh == Shift(firstPage)
           M == Matching(tree)
<1>1. /\ UNCHANGED <<kind, corpus, search, tree>> /\ stage = "page"
      /\ m' = m + (IF IsPage THEN sh ELSE 0) /\ realDirectNodePage' = realDirectNodePage + sh
  BY DEF PageAnswered, corpusVars, searchVars
<1>2. /\ WithResults' = WithResults /\ Folders' = Folders /\ M' = M /\ SameSearch' /\ MatchingAreRead'
      /\ MatchingBefore(m)' = {w \in M : Rank(w, M) < m' * PageSize}
  BY <1>1 DEF WithResults, Folders, ArchiveUnits, Matching, SameSearch, MatchingBefore, Rank,
              AnyChildren, MatchingAreRead
<1>3. counted' = Read' \cap WithResults
  BY <1>2 DEF CountInv
<1>4. /\ asked = tree
      /\ M \in SUBSET ArchiveUnits /\ ArchiveUnits \in SUBSET Units /\ M \subseteq WithResults
      /\ WithResults \subseteq M \cup corpus.paths \cup (IF kind = "virtual" THEN {} ELSE Folders)
      /\ M \in SUBSET Nat /\ IsFiniteSet(M)
  <2>1. M \in SUBSET ArchiveUnits /\ ArchiveUnits \in SUBSET Units
    BY SetsOfTheNode DEF TypeOK
  <2>2. M \in SUBSET Nat /\ IsFiniteSet(M)
    BY <2>1, SetsOfUnits
  <2>3. M = ArchiveUnits \cap corpus.matching[tree] /\ ArchiveUnits = Units \ corpus.paths
    BY DEF Matching, ArchiveUnits
  <2> QED BY <1>1, <2>1, <2>2, <2>3 DEF CountInv, WithResults
<1>5. ranked \in SUBSET Nat /\ IsFiniteSet(ranked) /\ u \in ranked /\ ranked \subseteq waiting
  <2>1. ranked \in SUBSET Units
    OBVIOUS
  <2> QED BY <2>1, SetsOfUnits
<1>6. u \in Nat /\ Rank(u, ranked) \in Nat /\ v \in Nat
  <2>1. v \in Units
    BY <1>4, SetsOfTheNode DEF WithResults
  <2> QED BY <1>5, <2>1, RankIsNat, SizesAssumption
<1>7. CASE v \in waiting
  <2>1. v \in ranked
    BY <1>3, <1>7
  <2>2. Rank(u, ranked) < Rank(v, ranked)
    <3>1. Rank(v, ranked) \in Nat
      BY <1>5, <2>1, RankIsNat
    <3> QED BY <1>6, <1>7, <3>1
  <2> QED BY <1>5, <2>1, <2>2, RankOrder
<1>8. CASE v \notin waiting
  <2>1. v \notin Read'
    BY <1>8
  <2>2. sh \in Nat \ {0} /\ m \in Nat /\ PageSize \in Nat \ {0} /\ realDirectNodePage \in Nat
    BY SizesAssumption DEF Shift, TypeOK
  <2>3. v \in M
    <3>1. realDirectNodePage' > 0
      BY <1>1, <2>2
    <3>2. corpus.paths \subseteq Read' /\ (kind = "unit" => Folders \subseteq Read')
      BY <1>1, <1>2, <3>1 DEF EndInv
    <3>3. kind = "orphans" => Folders \subseteq M
      BY DEF FoldersAreFound
    <3>4. kind \in {"unit", "virtual", "orphans"}
      BY DEF TypeOK, Kinds
    <3> QED BY <1>4, <2>1, <3>2, <3>3, <3>4
  <2>4. {w \in M : Rank(w, M) < m' * PageSize} \subseteq Read'
    BY <1>2 DEF CountInv
  <2> HIDE DEF M, sh
  <2>5. ~ (Rank(v, M) < m' * PageSize)
    BY <2>1, <2>3, <2>4
  <2>6. Cardinality(M) \in Nat /\ Rank(v, M) \in Nat /\ Rank(v, M) < Cardinality(M)
    BY <1>4, <2>3, RankIsNat
  <2>7. m' = m + sh
    <3>1. ASSUME ~ IsPage PROVE FALSE
      <4>1. m' = m
        BY <1>1, <2>2, <3>1
      <4>2. Cardinality(M) <= m * PageSize
        BY <1>1, <1>4, <3>1, MatchingPageAdds, Zenon DEF M
      <4>3. m * PageSize \in Nat
        BY <2>2, ProductIsNat
      <4> QED BY <2>5, <2>6, <4>1, <4>2, <4>3
    <3> QED BY <1>1, <3>1
  <2>8. /\ m * PageSize \in Nat /\ (m + sh) * PageSize \in Nat /\ sh * PageSize \in Nat
        /\ (m + sh) * PageSize = m * PageSize + sh * PageSize
    <3>1. (m + sh) * PageSize = m * PageSize + sh * PageSize
      BY <2>2, Z3
    <3>2. m * PageSize \in Nat /\ sh * PageSize \in Nat
      BY <2>2, ProductIsNat
    <3> QED BY <3>1, <3>2
  <2> DEFINE b == (m + sh) * PageSize
             B == {w \in M : 0 <= Rank(w, M) /\ Rank(w, M) < b}
             old == Range(children) \cap counted
             below == {w \in ranked : w < u}
  <2>9. b \in Nat /\ b <= Cardinality(M) /\ 0 <= b /\ b - 0 = b
    BY <2>5, <2>6, <2>7, <2>8
  <2>10. IsFiniteSet(B) /\ Cardinality(B) = b
    <3> HIDE DEF b
    <3>1. IsFiniteSet(B) /\ Cardinality(B) = b - 0
      BY <1>4, <2>9, SliceSize
    <3> QED BY <2>9, <3>1
  <2>11. B \subseteq Read' \cap WithResults
    BY <1>4, <2>4, <2>7 DEF M
  <2>12. \A w \in B : w < v /\ w \in Nat
    <3> SUFFICES ASSUME NEW w \in B PROVE w < v
      BY <1>4
    <3>1. Rank(w, M) < Rank(v, M)
      BY <2>5, <2>6, <2>7, <2>8, <1>4, RankIsNat
    <3> QED BY <1>4, <2>3, <3>1, RankOrder
  <2> SUFFICES ASSUME ~ (u < v) PROVE FALSE
    OBVIOUS
  <2>13. v < u
    BY <1>3, <1>6, <2>1
  <2>14. B \subseteq old \cup below
    <3> SUFFICES ASSUME NEW w \in B, w \notin below PROVE w \in old
      OBVIOUS
    <3>1. w < u /\ w \in counted' /\ w \in Read'
      BY <1>3, <1>6, <2>11, <2>12, <2>13
    <3>2. w \notin waiting
      BY <3>1
    <3>3. w \in Range(children)
      BY <3>1, <3>2
    <3>4. w \in counted
      BY <2>11, <3>3 DEF CountInv, Read
    <3> QED BY <3>3, <3>4
  <2>15. /\ IsFiniteSet(old) /\ Cardinality(old) \in Nat /\ Cardinality(old) <= m * PageSize
    <3>1. old \in SUBSET Units
      BY DEF Read
    <3>2. ~ (M \subseteq Read)
      BY <2>1, <2>3
    <3>3. Cardinality(old) <= m * PageSize
      BY <3>2 DEF OrderInv, M
    <3>4. IsFiniteSet(old)
      BY <3>1, SetsOfUnits
    <3> QED BY <3>3, <3>4, FS_CardinalityType
  <2>16. IsFiniteSet(below) /\ Cardinality(below) \in Nat /\ Cardinality(below) < sh * PageSize
    <3>1. IsFiniteSet(below)
      BY <1>5, FS_Subset
    <3>2. Cardinality(below) = Rank(u, ranked)
      BY DEF Rank
    <3> QED BY <1>6, <2>8, <3>1, <3>2 DEF sh
  <2> HIDE DEF B, old, below, b
  <2>17. IsFiniteSet(old \cup below) /\ Cardinality(old \cup below) <= Cardinality(old) + Cardinality(below)
    <3>1. /\ IsFiniteSet(old \cup below)
          /\ Cardinality(old \cup below) = Cardinality(old) + Cardinality(below) - Cardinality(old \cap below)
      BY <2>15, <2>16, FS_Union
    <3>2. Cardinality(old \cap below) \in Nat
      BY <2>15, FS_Subset, FS_CardinalityType
    <3> QED BY <2>15, <2>16, <3>1, <3>2
  <2>18. Cardinality(B) <= Cardinality(old \cup below) /\ Cardinality(old \cup below) \in Nat
    BY <2>14, <2>17, FS_Subset, FS_CardinalityType
  <2> QED BY <2>8, <2>10, <2>15, <2>16, <2>17, <2>18 DEF b
<1> QED BY <1>7, <1>8

\* A load shows the children with results in order, and no more of them than
\* the pages of those that match have passed.
LEMMA PageOrder ==
  ASSUME TypeOK, LoadInv, ReadOnce, CountInv, EndInv, OrderInv, PageAnswered, CountInv', EndInv'
  PROVE  OrderInv'
<1> DEFINE m == realDirectNodeMatchingPage
           sh == Shift(firstPage)
           old == Range(children) \cap counted
<1>1. /\ UNCHANGED <<kind, corpus, search, tree>> /\ stage = "page"
      /\ m' = m + (IF IsPage THEN sh ELSE 0)
  BY DEF PageAnswered, corpusVars, searchVars
<1>2. /\ SameSearch' = SameSearch /\ FoldersAreFound' = FoldersAreFound /\ MatchingAreRead' = MatchingAreRead
      /\ WithResults' = WithResults /\ Matching(tree)' = Matching(tree)
  BY <1>1 DEF SameSearch, FoldersAreFound, WithResults, Folders, ArchiveUnits, Matching,
              AnyChildren, MatchingAreRead
<1> SUFFICES ASSUME SameSearch, FoldersAreFound, MatchingAreRead PROVE OrderInv'
  BY <1>2 DEF OrderInv
<1>3. /\ \A i, j \in DOMAIN children :
           i < j /\ children[i] \in counted /\ children[j] \in counted => children[i] < children[j]
      /\ \A u \in old, v \in WithResults \ Range(children) : u < v
      /\ Cardinality(old) <= m * PageSize \/ Matching(tree) \subseteq Read
      /\ counted = Read \cap WithResults /\ counted' = Read' \cap WithResults
  BY <1>2, Zenon DEF OrderInv, CountInv
<1>4. PICK waiting, counts, shown :
        /\ waiting = Read' \ Range(children) /\ counts = counted'
        /\ shown = Shown(waiting, counts)
        /\ children' = children \o InOrder(shown)
        /\ Range(children') = Range(children) \cup shown
  BY PageMerged, Zenon
<1>5. Read \subseteq Read' /\ Read' \subseteq Units /\ children \in Seq(Units)
  <2>1. Read \subseteq Read' /\ children' \in Seq(Units) /\ waitingChildren' \subseteq Units
    BY PageMerged, Zenon
  <2>2. Range(children') \subseteq Units
    BY <2>1 DEF Range
  <2> QED BY <2>1, <2>2 DEF Read, TypeOK
<1>6. waiting \in SUBSET Units /\ Range(children) \subseteq Read' /\ firstPage \in BOOLEAN
  BY <1>4, <1>5 DEF Read, TypeOK
<1>7. PICK n, ranked : n = ElementsToShow(waiting, counts)
                         /\ ranked = IF everyAsked THEN waiting ELSE waiting \cap counts
  OBVIOUS
<1>8. n \in Nat /\ n <= sh * PageSize /\ ranked \in SUBSET waiting
  BY <1>6, <1>7, ElementsBound
<1>9. shown = {u \in waiting : Rank(u, ranked) < n}
  BY <1>4, <1>7, Zenon DEF Shown
<1>10. \A u \in shown \cap counted', v \in WithResults \ Range(children') : u < v
  <2> SUFFICES ASSUME NEW u \in shown \cap counted', NEW v \in WithResults, v \notin Range(children')
               PROVE  u < v
    OBVIOUS
  <2>1. /\ u \in waiting \cap counted' /\ Rank(u, ranked) < n /\ v \notin Range(children)
        /\ v \in waiting => ~ (Rank(v, ranked) < n)
    BY <1>4, <1>9
  <2>2. ranked = IF everyAsked THEN waiting ELSE waiting \cap counted'
    BY <1>4, <1>7
  <2>3. n <= Shift(firstPage) * PageSize
    BY <1>8
  <2>4. waiting = Read' \ Range(children)
    BY <1>4
  <2> HIDE DEF m, sh, old
  <2> QED BY <1>5, <1>6, <1>8, <2>1, <2>2, <2>3, <2>4, ShownComeFirst
<1>11. ASSUME NEW i \in DOMAIN children', NEW j \in DOMAIN children', i < j,
              children'[i] \in counted', children'[j] \in counted'
       PROVE  children'[i] < children'[j]
  <2> DEFINE tail == InOrder(shown)
             len == Len(children)
  <2>1. shown \in SUBSET Units /\ shown \in SUBSET Nat /\ IsFiniteSet(shown)
    BY <1>6, <1>9, SetsOfUnits
  <2>2. /\ tail \in Seq(shown) /\ Len(tail) = Cardinality(shown) /\ Range(tail) = shown
        /\ \A k, l \in 1 .. Cardinality(shown) : k < l => tail[k] < tail[l]
    BY <2>1, InOrderIsASequence
  <2> HIDE DEF tail
  <2>3. tail \in Seq(Units)
    <3>1. tail \in Seq(shown) /\ shown \subseteq Units
      BY <2>1, <2>2
    <3> QED BY <3>1
  <2>4. /\ len \in Nat /\ Len(tail) \in Nat /\ DOMAIN children = 1 .. len
        /\ DOMAIN tail = 1 .. Len(tail) /\ DOMAIN children' = 1 .. len + Len(tail)
        /\ \A k \in 1 .. len + Len(tail) : children'[k] = IF k <= len THEN children[k] ELSE tail[k - len]
    BY <1>4, <1>5, <2>3 DEF tail
  <2>5. ASSUME NEW k \in DOMAIN children', k <= len
        PROVE  k \in DOMAIN children /\ children'[k] = children[k] /\ children[k] \in Range(children)
    BY <2>4, <2>5 DEF Range
  <2>6. ASSUME NEW k \in DOMAIN children', ~ (k <= len)
        PROVE  /\ k - len \in 1 .. Cardinality(shown) /\ children'[k] = tail[k - len]
               /\ children'[k] \in shown
    <3>1. k - len \in DOMAIN tail /\ children'[k] = tail[k - len]
      BY <2>4, <2>6
    <3>2. tail[k - len] \in Range(tail)
      BY <3>1 DEF Range
    <3> QED BY <2>2, <2>4, <3>1, <3>2
  <2>7. Range(children) \cap counted' = old
    BY <1>3, <1>5 DEF Read
  <2>8. CASE j <= len
    <3>1. i <= len
      BY <2>4, <2>8, <1>11
    <3> QED BY <1>3, <1>11, <2>5, <2>7, <2>8, <3>1
  <2>9. CASE i <= len /\ ~ (j <= len)
    <3>1. children'[i] \in old
      BY <1>11, <2>5, <2>7, <2>9
    <3>2. children'[j] \in WithResults \ Range(children)
      BY <1>3, <1>4, <1>9, <1>11, <2>6, <2>9
    <3> QED BY <1>3, <3>1, <3>2
  <2>10. CASE ~ (i <= len)
    <3>1. ~ (j <= len) /\ i - len < j - len
      BY <1>11, <2>4, <2>10
    <3> QED BY <2>2, <2>6, <2>10, <3>1
  <2> QED BY <2>8, <2>9, <2>10
<1>12. \A u \in Range(children') \cap counted', v \in WithResults \ Range(children') : u < v
  <2>1. Range(children) \cap counted' = old
    BY <1>3, <1>5 DEF Read
  <2> SUFFICES ASSUME NEW u \in Range(children') \cap counted',
                      NEW v \in WithResults \ Range(children')
               PROVE  u < v
    OBVIOUS
  <2>2. CASE u \in shown
    BY <1>10, <2>2
  <2>3. CASE u \in Range(children)
    <3>1. u \in old /\ v \in WithResults \ Range(children)
      BY <1>4, <2>1, <2>3
    <3> HIDE DEF old
    <3> QED BY <1>3, <3>1
  <2> QED BY <1>4, <2>2, <2>3
<1>13. Cardinality(Range(children') \cap counted') <= m' * PageSize \/ Matching(tree) \subseteq Read'
  <2> SUFFICES ASSUME ~ (Matching(tree) \subseteq Read')
               PROVE  Cardinality(Range(children') \cap counted') <= m' * PageSize
    OBVIOUS
  <2> DEFINE new == shown \cap counted'
             prefix == {u \in ranked : Rank(u, ranked) < n}
  <2>1. Cardinality(old) <= m * PageSize
    BY <1>3, <1>5
  <2>2. asked = tree /\ MatchingBefore(m) \subseteq Read
    BY <1>1 DEF CountInv
  <2>3. IsPage
    <3> SUFFICES ASSUME ~ IsPage PROVE FALSE
      OBVIOUS
    <3> DEFINE M == Matching(tree)
    <3>1. /\ Cardinality(M) <= m * PageSize /\ m * PageSize \in Nat /\ Cardinality(M) \in Nat
          /\ \A u \in M : Rank(u, M) \in Nat /\ Rank(u, M) < Cardinality(M)
      BY <1>1, <2>2, MatchingPageAdds, Zenon
    <3>2. \A u \in M : Rank(u, M) < m * PageSize
      <4> HIDE DEF M, m
      <4> QED BY <3>1
    <3>3. M \subseteq MatchingBefore(m)
      BY <3>2 DEF MatchingBefore
    <3> QED BY <1>5, <2>2, <3>3
  <2>4. sh \in Nat /\ PageSize \in Nat /\ m \in Nat
    BY SizesAssumption DEF Shift, TypeOK
  <2>5. m' * PageSize = m * PageSize + sh * PageSize /\ m * PageSize \in Nat /\ sh * PageSize \in Nat
    <3>1. m' = m + sh
      BY <1>1, <2>3
    <3> HIDE DEF m, sh
    <3>2. (m + sh) * PageSize = m * PageSize + sh * PageSize
      BY <2>4, Z3
    <3> QED BY <2>4, <3>1, <3>2, ProductIsNat DEF m
  <2>6. IsFiniteSet(prefix) /\ Cardinality(prefix) \in Nat /\ Cardinality(prefix) <= n
    <3>1. ranked \in SUBSET Units
      BY <1>6, <1>8
    <3>2. ranked \in SUBSET Nat /\ IsFiniteSet(ranked)
      BY <3>1, SetsOfUnits
    <3> QED BY <1>8, <3>2, PrefixSize
  <2>7. new \subseteq prefix
    BY <1>4, <1>7, <1>9
  <2>8. IsFiniteSet(new) /\ Cardinality(new) <= Cardinality(prefix) /\ Cardinality(new) \in Nat
    <3> HIDE DEF new, prefix
    <3> QED BY <2>6, <2>7, FS_Subset, FS_CardinalityType
  <2>9. IsFiniteSet(old) /\ Cardinality(old) \in Nat
    <3>1. old \in SUBSET Units
      BY <1>5 DEF Range
    <3> HIDE DEF old
    <3>2. IsFiniteSet(old)
      BY <3>1, SetsOfUnits
    <3> QED BY <3>2, FS_CardinalityType
  <2>10. Range(children') \cap counted' = old \cup new
    <3>1. Range(children) \cap counted' = old
      BY <1>3, <1>5 DEF Read
    <3> QED BY <1>4, <3>1
  <2> HIDE DEF old, new, prefix
  <2>11. /\ Cardinality(old \cup new) = Cardinality(old) + Cardinality(new) - Cardinality(old \cap new)
         /\ Cardinality(old \cap new) \in Nat
    <3>1. IsFiniteSet(old \cap new)
      BY <2>9, FS_Subset
    <3> QED BY <2>8, <2>9, <3>1, FS_Union, FS_CardinalityType
  <2>12. Cardinality(old \cup new) <= Cardinality(old) + Cardinality(new)
    BY <2>8, <2>9, <2>11
  <2> DEFINE x == m * PageSize
             y == sh * PageSize
  <2>13. Cardinality(old) <= x /\ Cardinality(new) <= y /\ x \in Nat /\ y \in Nat
    BY <1>8, <2>1, <2>5, <2>6, <2>8
  <2>14. Cardinality(old \cup new) \in Nat
    BY <2>8, <2>9, FS_Union, FS_CardinalityType
  <2>15. m' * PageSize = x + y
    BY <2>5
  <2> HIDE DEF x, y, m, sh
  <2>16. Cardinality(old \cup new) <= x + y
    BY <2>8, <2>9, <2>12, <2>13, <2>14
  <2> QED BY <2>10, <2>15, <2>16 DEF m
<1> QED BY <1>2, <1>11, <1>12, <1>13 DEF OrderInv

-----------------------------------------------------------------------------
(* The invariant and what it says *)

\* The whole invariant is inductive.
LEMMA TreeInvariant == Spec => []TreeInv
<1>1. Init => TreeInv
  BY InitTree, InitCount, InitEnd DEF TreeInv
<1>2. TreeInv /\ [Next]_vars => TreeInv'
  <2> SUFFICES ASSUME TreeInv, [Next]_vars PROVE TreeInv'
    OBVIOUS
  <2>1. (TypeOK /\ LoadInv /\ ReadOnce)'
    BY NextTree DEF TreeInv
  <2>2. CASE PageAnswered
    <3>1. CountInv'
      BY <2>2, PageCounts DEF TreeInv
    <3>2. EndInv'
      BY <2>2, PageEnds DEF TreeInv
    <3>3. OrderInv'
      BY <2>2, <3>1, <3>2, PageOrder DEF TreeInv
    <3> QED BY <2>1, <3>1, <3>2, <3>3 DEF TreeInv
  <2>3. CASE ~ PageAnswered
    <3>1. CountInv' /\ OrderInv'
      BY <2>1, <2>3, NextCount DEF TreeInv
    <3>2. EndInv'
      BY <2>1, NextEnd DEF TreeInv
    <3> QED BY <2>1, <3>1, <3>2 DEF TreeInv
  <2> QED BY <2>2, <2>3
<1> QED BY <1>1, <1>2, PTL DEF Spec

\* Only a child of the tree with results of the last search is counted, and every
\* one is when the pages of any children pass all that match; when they do not,
\* a child that is not counted is of type INGEST and no folder.
THEOREM CountsRight == Spec => []CountsAreTrue
<1>1. TreeInv => CountsAreTrue
  BY DEF TreeInv, CountInv, CountsAreTrue, Read
<1> QED BY <1>1, TreeInvariant, PTL

\* When the pages of any children pass all that match, the children with results
\* are shown in the order of their titles.
THEOREM OrderOfResults == Spec => []ResultsInOrder
<1>1. TreeInv => ResultsInOrder
  BY DEF TreeInv, OrderInv, ResultsInOrder
<1> QED BY <1>1, TreeInvariant, PTL

\* A node with no more to load shows every child with results, if its last load
\* was not of the complete view or the pages of any children pass all that match;
\* and every path, folder of a unit and INGEST child, if it was.
THEOREM NothingMissed == Spec => []NothingLeft
<1>1. TreeInv => NothingLeft
  <2> SUFFICES ASSUME TreeInv, SameSearch, FoldersAreFound, ~ canLoadMoreChildren
               PROVE  /\ ~ everyAsked \/ MatchingAreRead => WithResults \subseteq Range(children)
                      /\ everyAsked =>
                           corpus.paths \cup AnyChildren \cup (IF kind = "unit" THEN Folders ELSE {})
                             \subseteq Range(children)
    BY DEF NothingLeft
  <2>1. TypeOK /\ EndInv
    BY DEF TreeInv
  <2>2. /\ Range(children) = Read /\ corpus.paths \subseteq Read
        /\ (kind = "unit" => Folders \subseteq Read)
        /\ everyAsked => AnyChildren \subseteq Read
        /\ ~ everyAsked => Matching(tree) \subseteq Read
    BY <2>1 DEF EndInv, Read
  <2>3. /\ tree \in Searches /\ kind \in {"unit", "virtual", "orphans"}
        /\ ArchiveUnits = Units \ corpus.paths /\ Matching(tree) = ArchiveUnits \cap corpus.matching[tree]
    BY <2>1 DEF TypeOK, Kinds, Matching, ArchiveUnits
  <2>4. ASSUME ~ everyAsked \/ MatchingAreRead PROVE WithResults \subseteq Range(children)
    <3>1. Matching(tree) \subseteq Read
      BY <2>2, <2>4 DEF MatchingAreRead
    <3>2. kind # "virtual" => Folders \subseteq Read
      BY <2>2, <2>3, <3>1 DEF FoldersAreFound
    <3> QED BY <2>2, <2>3, <3>1, <3>2 DEF WithResults
  <2> QED BY <2>2, <2>4
<1> QED BY <1>1, TreeInvariant, PTL
=============================================================================
