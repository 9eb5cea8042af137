------------------------ MODULE ArchiveSearch_proofs ------------------------
(***************************************************************************)
(* What is proved about ArchiveSearch, for every page size, threshold and  *)
(* number of hits: the types, then PageInv, and from it the order of the   *)
(* list, the spinner, the selection and what bulk operations receive.      *)
(***************************************************************************)
EXTENDS ArchiveSearch, FiniteSetTheorems, TLAPS

(* The units of a page *)

\* The smaller of two numbers is one of them.
LEMMA SmallerOfNat ==
  ASSUME NEW a \in Int, NEW b \in Int
  PROVE  /\ SmallerOf(a, b) \in {a, b}
         /\ SmallerOf(a, b) <= a /\ SmallerOf(a, b) <= b
         /\ SmallerOf(a, b) \in Int
         /\ a \in Nat /\ b \in Nat => SmallerOf(a, b) \in Nat
BY DEF SmallerOf

\* The product of naturals is a natural.
LEMMA ProductNat ==
  ASSUME NEW a \in Nat, NEW b \in Nat
  PROVE  a * b \in Nat
BY Z3

\* Numbered pairs are as many as their numbers.
LEMMA PairsOf ==
  ASSUME NEW q, NEW a \in Int, NEW b \in Int
  PROVE  /\ IsFiniteSet({<<q, i>> : i \in a .. b})
         /\ Cardinality({<<q, i>> : i \in a .. b}) = IF a <= b THEN b - a + 1 ELSE 0
<1> DEFINE S == {<<q, i>> : i \in a .. b}
           f == [i \in a .. b |-> <<q, i>>]
<1>1. IsFiniteSet(a .. b) /\ Cardinality(a .. b) = IF a <= b THEN b - a + 1 ELSE 0
  BY FS_Interval
<1>2. f \in Bijection(a .. b, S)
  <2>1. f \in [a .. b -> S]
    OBVIOUS
  <2>2. \A i, j \in a .. b : f[i] = f[j] => i = j
    OBVIOUS
  <2>3. \A t \in S : \E i \in a .. b : f[i] = t
    OBVIOUS
  <2> QED BY <2>1, <2>2, <2>3 DEF Bijection, Injection, Surjection, IsInjective
<1>3. ExistsBijection(a .. b, S)
  BY <1>2 DEF ExistsBijection
<1> QED BY <1>1, <1>3, FS_Bijection

\* A page is a finite set of units of its search.
LEMMA UnitsOfPage ==
  ASSUME NEW q \in Search, NEW p \in Nat
  PROVE  /\ UnitsOf(q, p) \subseteq Unit
         /\ IsFiniteSet(UnitsOf(q, p))
         /\ Cardinality(UnitsOf(q, p)) \in Nat
<1>1. hits[q] \in Nat /\ PageSize \in Nat
  BY SizesAssumption DEF Search
<1>2. p * PageSize \in Nat /\ (p + 1) * PageSize \in Nat
  BY <1>1, ProductNat
<1> DEFINE first == p * PageSize
           last == SmallerOf((p + 1) * PageSize, hits[q]) - 1
<1>3. first \in Nat /\ first \in Int /\ last \in Int
  BY <1>1, <1>2 DEF SmallerOf
<1> HIDE DEF first, last
<1>6. UnitsOf(q, p) = {<<q, i>> : i \in first .. last}
  BY DEF UnitsOf, first, last
<1>4. IsFiniteSet(UnitsOf(q, p))
  <2>1. IsFiniteSet({<<q, i>> : i \in first .. last})
    BY <1>3, PairsOf, Zenon
  <2> QED BY <2>1, <1>6, Zenon
<1>5. UnitsOf(q, p) \subseteq Unit
  BY <1>3, <1>6 DEF Unit
<1> QED BY <1>4, <1>5, FS_CardinalityType

\* The units shown are units.
LEMMA ShownUnits ==
  ASSUME NEW s \in Seq(Page)
  PROVE  Shown(s) \subseteq Unit
<1> SUFFICES ASSUME NEW k \in DOMAIN s PROVE UnitsOf(s[k][1], s[k][2]) \subseteq Unit
  BY DEF Shown
<1>1. s[k] \in Page
  OBVIOUS
<1> QED BY <1>1, UnitsOfPage DEF Page

\* The number of pages is a number.
LEMMA PageNumbersNat ==
  ASSUME NEW q \in Search, NEW p \in Nat
  PROVE  PageNumbers(q, p) \in Nat
<1> DEFINE size == Cardinality(UnitsOf(q, p))
           m == SmallerOf(hits[q], Threshold)
<1>1. size \in Nat
  BY UnitsOfPage
<1>2. m \in Nat
  BY SizesAssumption DEF Search, SmallerOf
<1>3. CASE size = 0
  BY <1>3 DEF PageNumbers
<1>4. CASE size # 0
  <2> HIDE DEF size, m
  <2>1. m + size - 1 \in Nat /\ size > 0
    BY <1>1, <1>2, <1>4
  <2>2. (m + size - 1) \div size \in Nat
    BY <2>1, <1>1
  <2> QED BY <1>4, <2>2 DEF PageNumbers, CeilDiv, size, m
<1> QED BY <1>3, <1>4

-----------------------------------------------------------------------------
(* Types *)

\* The initial page is well typed.
LEMMA InitTypeOK == Init => TypeOK
<1> SUFFICES ASSUME Init PROVE TypeOK
  OBVIOUS
<1>1. pages \in Seq(Page) /\ calls \subseteq Call /\ dialogs \in Seq(Request)
  BY DEF Init
<1>2. submits \in 0..MaxSubmits /\ query \in 0..submits /\ counted \in 0..submits
  BY SizesAssumption DEF Init
<1>3. currentPage \in Nat /\ pageNumbers \in Nat /\ totalResults \in Nat
  /\ selectedItemCount \in Int /\ itemNotSelected \in Int
  BY DEF Init
<1>4. /\ listOfUAIdToInclude \subseteq Unit /\ listOfUAIdToExclude \subseteq Unit
      /\ ticked \subseteq Unit /\ failed \subseteq Nat
      /\ \A c \in calls : c.q <= submits
      /\ \A c, d \in calls : c.id = d.id => c = d
  BY DEF Init
<1> QED BY <1>1, <1>2, <1>3, <1>4, Zenon DEF Init, TypeOK

\* A call is sent with an identifier of its own.
LEMMA SendTyped ==
  ASSUME TypeOK, NEW kind \in {"page", "link", "facets", "action"},
         NEW q \in Search, NEW p \in Nat, q <= submits', submits <= submits', submits' \in Nat,
         Send(kind, q, p)
  PROVE  /\ calls' \subseteq Call
         /\ \A c \in calls' : c.q <= submits'
         /\ \A c, d \in calls' : c.id = d.id => c = d
<1>1. NextId \in 1..MaxInFlight /\ \A c \in calls : c.id # NextId
  BY DEF Send, NextId, FreeIds
<1>2. \A c \in calls : c.q \in Int
  BY DEF TypeOK, Call, Search
<1> DEFINE new == [id |-> NextId, kind |-> kind, q |-> q, p |-> p]
<1>3. new \in Call /\ new.id = NextId /\ new.q = q
  BY <1>1 DEF Call
<1>4. calls' = calls \cup {new}
  BY DEF Send
<1>5. submits \in Int /\ q \in Int
  BY SizesAssumption DEF TypeOK, Search
<1> HIDE DEF new
<1> QED BY <1>1, <1>2, <1>3, <1>4, <1>5 DEF TypeOK

\* The list an operation receives is a selection or nothing.
LEMMA PreparedListTyped ==
  ASSUME TypeOK
  PROVE  PreparedList \in Selection \cup {None}
BY SizesAssumption DEF TypeOK, PreparedList, Selection, Search

\* Comparing leaves well-typed lists, dialogs and operations.
LEMMA CompareTyped ==
  ASSUME TypeOK, NEW count \in Int, NEW waiting \in BOOLEAN, NEW settled \in BOOLEAN,
         Compare(count, waiting, settled)
  PROVE  /\ listOfUACriteriaSearch' \in Selection \cup {None}
         /\ dialogs' \in Seq(Request)
         /\ operation' \in Operation \cup {None}
<1> DEFINE request == [checked |-> count, search |-> submits, settled |-> settled]
           launched == [checked |-> count, count |-> count, list |-> PreparedList,
                        reread |-> FALSE, crossed |-> FALSE, settled |-> settled]
<1>1. count > 0 => request \in Request /\ launched \in Operation
  BY PreparedListTyped, SizesAssumption DEF Request, Operation, TypeOK
<1>2. dialogs' \in {dialogs, Append(dialogs, request)} /\ (dialogs' # dialogs => count > 0)
  BY DEF Compare
<1>3. operation' \in {None, launched} /\ (operation' # None => count > 0)
  BY DEF Compare
<1> HIDE DEF request, launched
<1>4. dialogs' \in Seq(Request)
  BY <1>1, <1>2 DEF TypeOK
<1> QED BY <1>1, <1>3, <1>4, PreparedListTyped DEF Compare

\* A dialog that is closed leaves those it covers.
LEMMA CoveredDialogs ==
  ASSUME dialogs \in Seq(Request), dialogs # <<>>
  PROVE  /\ Len(dialogs) \in DOMAIN dialogs /\ TopDialog \in Request
         /\ Covered \in Seq(Request)
         /\ \A k \in DOMAIN Covered : k \in DOMAIN dialogs /\ Covered[k] = dialogs[k]
<1>1. Len(dialogs) \in Nat \ {0} /\ DOMAIN dialogs = 1..Len(dialogs)
  OBVIOUS
<1>2. Covered \in Seq(Request) /\ Len(Covered) = Len(dialogs) - 1
      /\ \A k \in 1..Len(dialogs) - 1 : Covered[k] = dialogs[k]
  BY <1>1 DEF Covered
<1> QED BY <1>1, <1>2 DEF TopDialog

-----------------------------------------------------------------------------
(* TypeOK, by groups of fields that change together *)

TypeSearch ==
  /\ submits \in 0..MaxSubmits
  /\ query \in 0..submits /\ counted \in 0..submits
  /\ hasCriteria \in BOOLEAN /\ armed \in BOOLEAN

TypeList ==
  /\ submitted \in BOOLEAN /\ pending \in BOOLEAN /\ canLoadMore \in BOOLEAN
  /\ currentPage \in Nat /\ pageNumbers \in Nat
  /\ pages \in Seq(Page) /\ failed \subseteq Nat

TypeCount ==
  /\ totalResults \in Nat
  /\ waitingToGetFixedCount \in BOOLEAN /\ exactCountLoaded \in BOOLEAN

TypeBoxes ==
  /\ isAllChecked \in BOOLEAN /\ isIndeterminate \in BOOLEAN
  /\ selectedItemCount \in Int /\ itemNotSelected \in Int
  /\ listOfUAIdToInclude \subseteq Unit /\ listOfUAIdToExclude \subseteq Unit
  /\ ticked \subseteq Unit

TypeCalls ==
  /\ calls \subseteq Call
  /\ \A c \in calls : c.q <= submits
  /\ \A c, d \in calls : c.id = d.id => c = d

TypeRequests ==
  /\ listOfUACriteriaSearch \in Selection \cup {None}
  /\ dialogs \in Seq(Request)
  /\ operation \in Operation \cup {None}
  /\ clean \in BOOLEAN

\* The groups are TypeOK, in both states of a step.
LEMMA TypeGroups ==
  /\ TypeOK <=> TypeSearch /\ TypeList /\ TypeCount /\ TypeBoxes /\ TypeCalls /\ TypeRequests
  /\ TypeOK' <=> TypeSearch' /\ TypeList' /\ TypeCount' /\ TypeBoxes' /\ TypeCalls' /\ TypeRequests'
BY Zenon DEF TypeOK, TypeSearch, TypeList, TypeCount, TypeBoxes, TypeCalls, TypeRequests

\* A group whose fields do not change keeps its types.
LEMMA GroupsUnchanged ==
  /\ TypeSearch /\ UNCHANGED searchVars => TypeSearch'
  /\ TypeList /\ UNCHANGED listVars => TypeList'
  /\ TypeCount /\ UNCHANGED countVars => TypeCount'
  /\ TypeBoxes /\ UNCHANGED <<boxVars, selectedItemCount>> => TypeBoxes'
  /\ TypeCalls /\ UNCHANGED <<submits, calls>> => TypeCalls'
BY DEF TypeSearch, TypeList, TypeCount, TypeBoxes, TypeCalls,
       searchVars, listVars, countVars, boxVars

\* Fewer calls are well typed too.
LEMMA FewerCalls ==
  ASSUME TypeCalls, calls' \subseteq calls, UNCHANGED submits
  PROVE  TypeCalls'
BY DEF TypeCalls

\* Submitting a search keeps the types.
LEMMA SubmitTypeOK ==
  ASSUME TypeOK, Submit, armed' \in BOOLEAN, operation' = None
  PROVE  TypeOK'
<1>1. submits' \in 0..MaxSubmits /\ submits' = submits + 1 /\ submits' \in Search
  BY SizesAssumption DEF TypeOK, Submit, Search
<1>2. query' \in 0..submits' /\ counted' \in 0..submits'
  BY <1>1 DEF TypeOK, Submit
<1>3. TypeCalls'
  <2>1. CASE hasCriteria
    <3>1. Send("page", submits + 1, 0)
      BY <2>1 DEF Submit
    <3>2. submits + 1 \in Search /\ submits + 1 <= submits' /\ submits <= submits' /\ submits' \in Nat
      BY <1>1, SizesAssumption DEF TypeOK
    <3> QED BY <3>1, <3>2, SendTyped DEF TypeCalls
  <2>2. CASE ~ hasCriteria
    <3>1. calls' = calls
      BY <2>2 DEF Submit
    <3>2. \A c \in calls : c.q \in Int
      BY DEF TypeOK, Call, Search
    <3> QED BY <1>1, <3>1, <3>2 DEF TypeOK, TypeCalls
  <2> QED BY <2>1, <2>2 DEF TypeOK
<1>4. pages' \in Seq(Page)
  BY DEF Submit
<1>5. exactCountLoaded' \in BOOLEAN /\ UNCHANGED <<hasCriteria, canLoadMore, pageNumbers, totalResults,
                 waitingToGetFixedCount, listOfUACriteriaSearch, dialogs>>
  BY DEF TypeOK, Submit
<1>6. TypeList'
  <2>1. submitted' = TRUE /\ pending' = TRUE /\ currentPage' = 0 /\ failed' = {}
    BY DEF Submit
  <2> QED BY <1>4, <1>5, <2>1 DEF TypeList, TypeOK
<1>7. TypeBoxes'
  <2>1. /\ ticked' = {} /\ selectedItemCount' = 0 /\ itemNotSelected' = 0
        /\ isAllChecked' = FALSE /\ isIndeterminate' = FALSE
        /\ listOfUAIdToInclude' = {} /\ listOfUAIdToExclude' = {}
    BY DEF Submit
  <2>2. selectedItemCount' \in Int /\ itemNotSelected' \in Int
    BY <2>1
  <2> QED BY <2>1, <2>2, Zenon DEF TypeBoxes
<1>8. TypeRequests'
  <2>1. clean' = TRUE
    BY DEF Submit
  <2> QED BY <1>5, <2>1 DEF TypeRequests, TypeOK
<1>9. TypeSearch' /\ TypeCount'
  BY <1>1, <1>2, <1>5 DEF TypeSearch, TypeCount, TypeOK
<1> QED BY <1>3, <1>6, <1>7, <1>8, <1>9, TypeGroups

\* The answers about the list keep the types.
LEMMA ListAnswerTypeOK ==
  ASSUME TypeOK, NEW c \in calls, PageAnswered(c) \/ PageFailed(c), operation' = None
  PROVE  TypeOK'
<1>1. c \in Call /\ c.q \in Search /\ c.p \in Nat
  BY DEF TypeOK, Call
<1>2. TypeCalls'
  BY FewerCalls, TypeGroups DEF PageAnswered, PageFailed, searchVars
<1>3. TypeSearch'
  BY GroupsUnchanged, TypeGroups DEF PageAnswered, PageFailed
<1>4. TypeRequests'
  BY DEF TypeRequests, TypeOK, PageAnswered, PageFailed
<1>5. CASE PageAnswered(c)
  <2>1. PageNumbers(c.q, c.p) \in Nat
    BY <1>1, PageNumbersNat
  <2>2. SmallerOf(hits[c.q], Threshold) \in Nat
    BY <1>1, SizesAssumption DEF SmallerOf, Search
  <2>3. UnitsOf(c.q, c.p) \subseteq Unit
    BY <1>1, UnitsOfPage
  <2>4. <<c.q, c.p>> \in Page
    BY <1>1 DEF Page
  <2>5. pages' \in Seq(Page)
    <3>1. pages' = <<(<<c.q, c.p>>)>> \/ pages' = Append(pages, <<c.q, c.p>>)
      BY <1>5, Zenon DEF PageAnswered
    <3>2. pages \in Seq(Page)
      BY DEF TypeOK
    <3> DEFINE pair == <<c.q, c.p>>
    <3>3. pair \in Page /\ (pages' = <<pair>> \/ pages' = Append(pages, pair))
      BY <2>4, <3>1
    <3> HIDE DEF pair
    <3>4. <<pair>> \in Seq(Page) /\ Append(pages, pair) \in Seq(Page)
      BY <3>2, <3>3
    <3> QED BY <3>3, <3>4, Zenon
  <2>6. TypeList'
    <3>1. /\ canLoadMore' = (currentPage < pageNumbers' - 1) /\ pending' = FALSE
          /\ UNCHANGED <<submitted, currentPage, failed>>
      BY <1>5, Zenon DEF PageAnswered
    <3>2. pageNumbers' \in Nat
      BY <1>5, <2>1, Zenon DEF PageAnswered
    <3>3. canLoadMore' \in BOOLEAN
      <4> DEFINE more == currentPage < pageNumbers' - 1
      <4>1. more \in BOOLEAN
        OBVIOUS
      <4> HIDE DEF more
      <4>2. canLoadMore' = more
        BY <3>1, Zenon DEF more
      <4> QED BY <4>1, <4>2, Zenon
    <3> QED BY <2>5, <3>1, <3>2, <3>3, Zenon DEF TypeList, TypeOK
  <2>7. totalResults' \in Nat /\ waitingToGetFixedCount' \in BOOLEAN /\ UNCHANGED exactCountLoaded
    BY <1>5, <2>2 DEF PageAnswered, TypeOK
  <2>8. TypeBoxes'
    <3>1. ticked' \subseteq Unit
      BY <1>5, <2>3 DEF PageAnswered, TypeOK
    <3>2. selectedItemCount' \in Int
      BY <1>5, <2>7 DEF PageAnswered, TypeOK
    <3> QED BY <1>5, <3>1, <3>2 DEF PageAnswered, TypeBoxes, TypeOK
  <2> QED BY <1>2, <1>3, <1>4, <2>6, <2>7, <2>8, TypeGroups DEF TypeCount, TypeOK
<1>6. CASE PageFailed(c)
  <2>1. TypeList'
    BY <1>1, <1>6 DEF PageFailed, TypeList, TypeOK
  <2>2. TypeCount' /\ TypeBoxes'
    BY <1>6, GroupsUnchanged, TypeGroups DEF PageFailed
  <2> QED BY <1>2, <1>3, <1>4, <2>1, <2>2, TypeGroups
<1> QED BY <1>5, <1>6

\* Asking for a page or for a count keeps the types.
LEMMA CallTypeOK ==
  ASSUME TypeOK, LoadMore \/ LoadExactCount \/ LaunchFacetsComputing, operation' = None
  PROVE  TypeOK'
<1>1. UNCHANGED searchVars /\ UNCHANGED <<boxVars, selectedItemCount>> /\ UNCHANGED countVars
      /\ UNCHANGED <<submitted, pageNumbers, pages, failed, listOfUACriteriaSearch, dialogs, clean>>
  BY DEF LoadMore, LoadExactCount, LaunchFacetsComputing, listVars
<1>2. TypeSearch' /\ TypeCount' /\ TypeBoxes'
  BY <1>1, GroupsUnchanged, TypeGroups
<1>3. TypeRequests'
  BY <1>1 DEF TypeRequests, TypeOK
<1>4. submits' = submits /\ submits \in Nat /\ query <= submits /\ counted <= submits
      /\ (query # 0 => query \in Search) /\ (counted # 0 => counted \in Search)
  BY <1>1, SizesAssumption DEF TypeOK, Search, searchVars
<1>5. TypeList'
  <2>1. currentPage' \in Nat
    BY DEF LoadMore, LoadExactCount, LaunchFacetsComputing, listVars, TypeOK
  <2>2. pending' \in BOOLEAN
    BY Zenon DEF LoadMore, LoadExactCount, LaunchFacetsComputing, listVars, TypeOK
  <2>3. canLoadMore' \in BOOLEAN
    <3> DEFINE more == currentPage < pageNumbers - 1
    <3>1. more \in BOOLEAN
      OBVIOUS
    <3> HIDE DEF more
    <3>2. canLoadMore' = more \/ canLoadMore' = canLoadMore
      BY Zenon DEF LoadMore, LoadExactCount, LaunchFacetsComputing, listVars, more
    <3> QED BY <3>1, <3>2, Zenon DEF TypeOK
  <2> QED BY <1>1, <2>1, <2>2, <2>3 DEF TypeList, TypeOK
<1>6. TypeCalls'
  <2>1. CASE UNCHANGED calls
    BY <1>4, <2>1, TypeGroups DEF TypeCalls
  <2>2. ASSUME NEW kind \in {"page", "link", "facets", "action"}, NEW q \in Search,
               NEW p \in Nat, q <= submits, Send(kind, q, p)
        PROVE  TypeCalls'
    <3> submits' \in Nat /\ submits <= submits' /\ q <= submits'
      BY <1>4, <2>2
    <3> QED BY <2>2, SendTyped DEF TypeCalls
  <2>3. CASE LoadMore
    <3>1. UNCHANGED calls \/ (query # 0 /\ Send("page", query, currentPage + 1))
      BY <2>3 DEF LoadMore
    <3>2. currentPage + 1 \in Nat
      BY DEF TypeOK
    <3> QED BY <1>4, <2>1, <2>2, <3>1, <3>2
  <2>4. CASE LoadExactCount
    BY <1>4, <2>2, <2>4 DEF LoadExactCount
  <2>5. CASE LaunchFacetsComputing
    BY <1>4, <2>2, <2>5 DEF LaunchFacetsComputing
  <2> QED BY <2>3, <2>4, <2>5
<1> QED BY <1>2, <1>3, <1>5, <1>6, TypeGroups

\* The answers about the counts keep the types.
LEMMA CountAnswerTypeOK ==
  ASSUME TypeOK, NEW c \in calls, operation' = None,
         LinkAnswered(c) \/ LinkFailed(c) \/ FacetsCountAnswered(c) \/ FacetsCountFailed(c)
  PROVE  TypeOK'
<1>1. hits[c.q] \in Nat
  BY SizesAssumption DEF TypeOK, Call, Search
<1>2. TypeCalls'
  BY FewerCalls, TypeGroups DEF LinkAnswered, LinkFailed, FacetsCountAnswered, FacetsCountFailed, searchVars
<1>3. TypeSearch'
  BY GroupsUnchanged, TypeGroups DEF LinkAnswered, LinkFailed, FacetsCountAnswered, FacetsCountFailed
<1>4. TypeRequests'
  BY Zenon DEF TypeRequests, TypeOK, LinkAnswered, LinkFailed, FacetsCountAnswered, FacetsCountFailed
<1>5. TypeList'
  BY Zenon DEF TypeList, TypeOK, LinkAnswered, LinkFailed, FacetsCountAnswered, FacetsCountFailed, listVars
<1>6. TypeCount'
  BY <1>1, Zenon DEF TypeCount, TypeOK, LinkAnswered, LinkFailed, FacetsCountAnswered, FacetsCountFailed, countVars
<1>7. TypeBoxes'
  <2>1. selectedItemCount' \in Int
    BY <1>1 DEF TypeOK, LinkAnswered, LinkFailed, FacetsCountAnswered, FacetsCountFailed
  <2> QED BY <2>1, Zenon DEF TypeBoxes, TypeOK, LinkAnswered, LinkFailed, FacetsCountAnswered,
                             FacetsCountFailed, boxVars
<1> QED BY <1>2, <1>3, <1>4, <1>5, <1>6, <1>7, TypeGroups

\* The boxes keep the types.
LEMMA BoxTypeOK ==
  ASSUME TypeOK, CheckParentBox \/ (\E u \in Shown(pages) : CheckChildrenBox(u)), operation' = None
  PROVE  TypeOK'
<1>1. Shown(pages) \subseteq Unit
  BY ShownUnits DEF TypeOK
<1>2. UNCHANGED <<searchVars, listVars, countVars, calls, dialogs, clean>>
  BY Zenon DEF CheckParentBox, CheckChildrenBox
<1>3. TypeSearch' /\ TypeList' /\ TypeCount' /\ TypeCalls'
  BY <1>2, GroupsUnchanged, TypeGroups, Zenon DEF searchVars
<1>4. TypeRequests'
  <2>1. listOfUACriteriaSearch' \in Selection \cup {None}
    BY Zenon DEF TypeOK, CheckParentBox, CheckChildrenBox, ExcludeRow, TickRow, UntickRow
  <2> QED BY <1>2, <2>1, Zenon DEF TypeRequests, TypeOK
<1>5. CASE CheckParentBox
  <2>1. selectedItemCount' \in Int /\ itemNotSelected' \in Int
    BY <1>5 DEF CheckParentBox, TypeOK
  <2>2. isAllChecked' \in BOOLEAN /\ isIndeterminate' \in BOOLEAN
    BY <1>5, Zenon DEF CheckParentBox, TypeOK
  <2>3. listOfUAIdToInclude' \subseteq Unit /\ listOfUAIdToExclude' \subseteq Unit /\ ticked' \subseteq Unit
    BY <1>1, <1>5, Zenon DEF CheckParentBox
  <2> QED BY <1>3, <1>4, <2>1, <2>2, <2>3, TypeGroups, Zenon DEF TypeBoxes
<1>6. ASSUME NEW u \in Shown(pages), CheckChildrenBox(u) PROVE TypeOK'
  <2>1. selectedItemCount' \in Int /\ itemNotSelected' \in Int
    <3>1. selectedItemCount \in Int /\ itemNotSelected \in Int
      BY DEF TypeOK
    <3> QED BY <1>6, <3>1 DEF CheckChildrenBox, ExcludeRow, TickRow, UntickRow
  <2>2. isAllChecked' \in BOOLEAN /\ isIndeterminate' \in BOOLEAN
    <3> DEFINE different == selectedItemCount' # totalResults
    <3>1. different \in BOOLEAN
      OBVIOUS
    <3>2. isAllChecked' = isAllChecked
      BY <1>6, Zenon DEF CheckChildrenBox, ExcludeRow, TickRow, UntickRow
    <3>3. isIndeterminate' = TRUE \/ isIndeterminate' = isIndeterminate
          \/ isIndeterminate' = (isIndeterminate /\ different)
      BY <1>6, Zenon DEF CheckChildrenBox, ExcludeRow, TickRow, UntickRow
    <3> HIDE DEF different
    <3> QED BY <3>1, <3>2, <3>3, Zenon DEF TypeOK
  <2>3. listOfUAIdToInclude' \subseteq Unit /\ listOfUAIdToExclude' \subseteq Unit /\ ticked' \subseteq Unit
    <3>1. u \in Unit
      BY <1>1
    <3> QED BY <1>6, <3>1 DEF CheckChildrenBox, ExcludeRow, TickRow, UntickRow, TypeOK
  <2> QED BY <1>3, <1>4, <2>1, <2>2, <2>3, TypeGroups, Zenon DEF TypeBoxes
<1> QED BY <1>5, <1>6

\* The criteria keep the types.
LEMMA CriteriaTypeOK ==
  ASSUME TypeOK, AddCriterion \/ RemoveLastCriterion \/ ClearCriteria \/ ChangeOrder, operation' = None
  PROVE  TypeOK'
<1>1. UNCHANGED <<submits, query, counted>> /\ hasCriteria' \in BOOLEAN /\ armed' \in BOOLEAN
  BY Zenon DEF AddCriterion, RemoveLastCriterion, ClearCriteria, ChangeOrder, TypeOK
<1>2. TypeSearch'
  BY <1>1, Zenon DEF TypeSearch, TypeOK
<1>3. TypeCalls'
  <2>1. calls' \subseteq calls
    BY Zenon DEF AddCriterion, RemoveLastCriterion, ClearCriteria, ChangeOrder, WithoutLink
  <2> QED BY <1>1, <2>1, FewerCalls, TypeGroups
<1>4. TypeRequests'
  BY Zenon DEF AddCriterion, RemoveLastCriterion, ClearCriteria, ChangeOrder, TypeOK, TypeRequests
<1>5. 0 \in Nat /\ 0 \in Int /\ <<>> \in Seq(Page)
  OBVIOUS
<1>6. TypeList' /\ TypeCount'
  BY <1>5, Zenon DEF AddCriterion, RemoveLastCriterion, ClearCriteria, ChangeOrder, TypeOK,
                     TypeList, TypeCount, listVars, countVars
<1>7. TypeBoxes'
  BY <1>5, Zenon DEF AddCriterion, RemoveLastCriterion, ClearCriteria, ChangeOrder, TypeOK,
                     TypeBoxes, boxVars
<1> QED BY <1>2, <1>3, <1>4, <1>6, <1>7, TypeGroups

\* Launching, confirming and cancelling an operation keep the types.
LEMMA OperationTypeOK ==
  ASSUME TypeOK, LaunchBulkOperation \/ Confirm \/ (Cancel /\ operation' = None)
  PROVE  TypeOK'
<1>1. UNCHANGED <<searchVars, listVars, countVars, boxVars, selectedItemCount, clean>>
  BY Zenon DEF LaunchBulkOperation, Confirm, Cancel
<1>2. TypeSearch' /\ TypeList' /\ TypeCount' /\ TypeBoxes'
  BY <1>1, GroupsUnchanged, TypeGroups, Zenon
<1>3. CASE LaunchBulkOperation
  <2>1. CASE Compare(selectedItemCount, waitingToGetFixedCount, Settled) /\ UNCHANGED calls
    <3>1. Settled \in BOOLEAN /\ selectedItemCount \in Int /\ waitingToGetFixedCount \in BOOLEAN
      BY DEF Settled, TypeOK
    <3>2. TypeRequests'
      BY <1>1, <2>1, <3>1, CompareTyped, Zenon DEF TypeRequests, TypeOK
    <3>3. TypeCalls'
      BY <1>1, <2>1, FewerCalls, TypeGroups DEF searchVars
    <3> QED BY <1>2, <3>2, <3>3, TypeGroups
  <2>2. CASE query # 0 /\ Send("action", query, 0) /\ operation' = None
             /\ UNCHANGED <<listOfUACriteriaSearch, dialogs>>
    <3>1. TypeRequests'
      BY <1>1, <2>2, Zenon DEF TypeRequests, TypeOK
    <3>2. query \in Search /\ query <= submits' /\ submits <= submits' /\ submits' \in Nat
      BY <1>1, <2>2, SizesAssumption DEF TypeOK, Search, searchVars
    <3>3. TypeCalls'
      BY <2>2, <3>2, SendTyped DEF TypeCalls
    <3> QED BY <1>2, <3>1, <3>3, TypeGroups
  <2> QED BY <1>3, <2>1, <2>2, Zenon DEF LaunchBulkOperation
<1>4. CASE Confirm
  <2>1. TopDialog \in Request /\ dialogs' \in Seq(Request)
    BY <1>4, CoveredDialogs, Zenon DEF Confirm, TypeOK
  <2>2. operation' \in Operation
    BY <1>4, <2>1, PreparedListTyped DEF Confirm, Request, Operation, TypeOK
  <2>3. TypeRequests'
    BY <1>1, <1>4, <2>1, <2>2, Zenon DEF Confirm, TypeRequests, TypeOK
  <2>4. TypeCalls'
    BY <1>1, <1>4, FewerCalls, TypeGroups DEF Confirm, searchVars
  <2> QED BY <1>2, <2>3, <2>4, TypeGroups
<1>5. CASE Cancel /\ operation' = None
  <2>1. TypeRequests'
    BY <1>1, <1>5, CoveredDialogs, Zenon DEF Cancel, TypeRequests, TypeOK
  <2>2. TypeCalls'
    BY <1>1, <1>5, FewerCalls, TypeGroups DEF Cancel, searchVars
  <2> QED BY <1>2, <2>1, <2>2, TypeGroups
<1> QED BY <1>3, <1>4, <1>5

\* The end of the count of an operation keeps the types.
LEMMA ActionCountTypeOK ==
  ASSUME TypeOK, NEW c \in calls, ActionCountAnswered(c) \/ ActionCountFailed(c)
  PROVE  TypeOK'
<1>1. hits[c.q] \in Nat
  BY SizesAssumption DEF TypeOK, Call, Search
<1>2. UNCHANGED <<searchVars, listVars, exactCountLoaded, boxVars>> /\ calls' = calls \ {c}
  BY Zenon DEF ActionCountAnswered, ActionCountFailed, countVars
<1>3. TypeSearch' /\ TypeList' /\ TypeCalls'
  BY <1>2, GroupsUnchanged, FewerCalls, TypeGroups DEF searchVars
<1>4. selectedItemCount' \in Int /\ totalResults' \in Nat /\ waitingToGetFixedCount' \in BOOLEAN
  <2>1. selectedItemCount \in Int /\ itemNotSelected \in Int /\ hits[c.q] - itemNotSelected \in Int
    BY <1>1 DEF TypeOK
  <2> QED BY <1>1, <2>1, Zenon DEF ActionCountAnswered, ActionCountFailed, countVars, TypeOK
<1>5. TypeCount' /\ TypeBoxes'
  BY <1>2, <1>4, Zenon DEF TypeCount, TypeBoxes, boxVars, TypeOK
<1>6. TypeRequests'
  <2> DEFINE settled == Settled /\ c.q = query
  <2>1. settled \in BOOLEAN
    OBVIOUS
  <2> HIDE DEF settled
  <2>2. \E waiting \in BOOLEAN, count \in Int : Compare(count, waiting, settled)
    <3>1. FALSE \in BOOLEAN /\ waitingToGetFixedCount \in BOOLEAN /\ selectedItemCount \in Int
      BY DEF TypeOK
    <3> QED BY <1>4, <3>1, Zenon DEF ActionCountAnswered, ActionCountFailed, settled
  <2>3. /\ listOfUACriteriaSearch' \in Selection \cup {None}
        /\ dialogs' \in Seq(Request)
        /\ operation' \in Operation \cup {None}
    BY <2>1, <2>2, CompareTyped
  <2>4. clean' \in BOOLEAN
    BY Zenon DEF ActionCountAnswered, ActionCountFailed, TypeOK
  <2> QED BY <2>3, <2>4, Zenon DEF TypeRequests
<1> QED BY <1>3, <1>5, <1>6, TypeGroups

\* Every step keeps the types.
LEMMA NextTypeOK == TypeOK /\ [Next]_vars => TypeOK'
<1> SUFFICES ASSUME TypeOK, [Next]_vars PROVE TypeOK'
  OBVIOUS
<1>1. ASSUME NEW c \in calls, Ended(c) PROVE TypeOK'
  BY <1>1, ListAnswerTypeOK, CountAnswerTypeOK, ActionCountTypeOK DEF Ended
<1>2. CASE Quiet /\ operation' = None
  <2>1. CASE ClickSearch \/ DebouncedSearch
    <3>1. Submit /\ armed' \in BOOLEAN
      BY <2>1, Zenon DEF ClickSearch, DebouncedSearch, TypeOK
    <3> QED BY <1>2, <3>1, SubmitTypeOK
  <2> QED BY <1>2, <2>1, CriteriaTypeOK, CallTypeOK, BoxTypeOK, OperationTypeOK DEF Quiet
<1>3. CASE LaunchBulkOperation \/ Confirm
  BY <1>3, OperationTypeOK
<1>4. CASE UNCHANGED vars
  <2>1. UNCHANGED <<searchVars, listVars, countVars, boxVars, selectedItemCount, calls>>
        /\ UNCHANGED <<listOfUACriteriaSearch, dialogs, operation, clean>>
    BY <1>4, Zenon DEF vars
  <2>2. TypeSearch' /\ TypeList' /\ TypeCount' /\ TypeBoxes' /\ TypeCalls'
    BY <2>1, GroupsUnchanged, TypeGroups, Zenon DEF searchVars
  <2>3. TypeRequests'
    BY <2>1, Zenon DEF TypeRequests, TypeOK
  <2> QED BY <2>2, <2>3, TypeGroups
<1> QED BY <1>1, <1>2, <1>3, <1>4 DEF Next

\* The fields of the page always hold what they are declared to hold: no
\* failed or late answer leaves one of them undefined, negative or of another type.
THEOREM TypeCorrect == Spec => []TypeOK
<1> QED BY InitTypeOK, NextTypeOK, PTL DEF Spec

-----------------------------------------------------------------------------
(* The list *)

PageCalls(q) == {c \in calls : c.kind = "page" /\ c.q = q}

\* A page call of the search of the list is a list call.
LEMMA PageCallsAreListCalls ==
  /\ PageCalls(query) \subseteq ListCalls(query)
  /\ PageCalls(query)' \subseteq ListCalls(query)'
BY DEF PageCalls, ListCalls

\* PagesInOrder depends on these fields and on the page calls only.
LEMMA PagesInOrderUnchanged ==
  ASSUME PagesInOrder,
         UNCHANGED <<query, submitted, pages, currentPage, failed>>, clean' => clean,
         \A c : c \in calls' /\ c.kind = "page" <=> c \in calls /\ c.kind = "page"
  PROVE  PagesInOrder'
<1>1. {d \in calls : d.kind = "page" /\ d.q = query}' = {d \in calls : d.kind = "page" /\ d.q = query}
  OBVIOUS
<1>2. {c.p : c \in {d \in calls : d.kind = "page" /\ d.q = query}}'
        = {c.p : c \in {d \in calls : d.kind = "page" /\ d.q = query}}
  BY <1>1
<1> QED BY <1>2 DEF PagesInOrder

\* ListInv does not depend on the other fields, nor on the other calls.
LEMMA ListInvUnchanged ==
  ASSUME ListInv,
         UNCHANGED <<query, counted, submitted, pending, pages, currentPage, failed>>,
         clean' => clean,
         \A c : c \in calls' /\ c.kind \in {"page", "link"} <=> c \in calls /\ c.kind \in {"page", "link"}
  PROVE  ListInv'
<1>1. ListCalls(query)' = ListCalls(query)
  BY DEF ListCalls
<1>2. \A c : c \in calls' /\ c.kind = "page" <=> c \in calls /\ c.kind = "page"
  BY Zenon
<1>4. SpinnerIsTrue'
  BY <1>1, Zenon DEF ListInv, SpinnerIsTrue
<1>5. PagesInOrder'
  BY <1>2, PagesInOrderUnchanged, Zenon DEF ListInv
<1> QED BY <1>2, <1>4, <1>5, Zenon DEF ListInv

\* ListInv says little once something came out of turn.
LEMMA ListInvUnclean ==
  ASSUME ListInv, UNCHANGED <<query, counted>>, clean' = FALSE
  PROVE  ListInv'
BY DEF ListInv, SpinnerIsTrue, PagesInOrder

\* Submitting a search keeps ListInv: no call in flight is of that search.
LEMMA ListInvSubmit ==
  ASSUME TypeOK, ListInv, Submit
  PROVE  ListInv'
<1>1. /\ pages' = <<>> /\ currentPage' = 0 /\ failed' = {} /\ clean' = TRUE
      /\ submitted' = TRUE /\ pending' = TRUE
      /\ query' = IF hasCriteria THEN submits + 1 ELSE 0
  BY DEF Submit
<1>2. CASE ~ hasCriteria
  BY <1>1, <1>2 DEF ListInv, SpinnerIsTrue, PagesInOrder
<1>3. CASE hasCriteria
  <2> DEFINE new == [id |-> NextId, kind |-> "page", q |-> submits + 1, p |-> 0]
  <2>1. calls' = calls \cup {new} /\ counted' = query' /\ query' = submits + 1
    BY <1>1, <1>3 DEF Submit, Send
  <2>2. \A c \in calls : c.q # submits + 1
    BY SizesAssumption DEF TypeOK, Call, Search
  <2>3. new.kind = "page" /\ new.q = submits + 1 /\ new.p = 0
    OBVIOUS
  <2> HIDE DEF new
  <2>4. ListCalls(query)' = {new}
    BY <2>1, <2>2, <2>3 DEF ListCalls
  <2>5. {d \in calls : d.kind = "page" /\ d.q = query}' = {new}
    BY <2>1, <2>2, <2>3
  <2>6. SpinnerIsTrue'
    BY <1>1, <2>4 DEF SpinnerIsTrue
  <2>7. {c.p : c \in {d \in calls : d.kind = "page" /\ d.q = query}}' = {0}
    BY <2>3, <2>5
  <2>8. PagesInOrder'
    BY <1>1, <2>7 DEF PagesInOrder
  <2>9. \A c \in calls' : c.kind = "page" /\ c.q = query' => c = new
    BY <2>5
  <2>10. query' # 0
    BY <2>1, SizesAssumption DEF TypeOK
  <2> QED BY <1>1, <2>1, <2>3, <2>6, <2>8, <2>9, <2>10 DEF ListInv
<1> QED BY <1>2, <1>3 DEF TypeOK

\* Scrolling keeps ListInv: no other call about the list is in flight.
LEMMA ListInvLoadMore ==
  ASSUME TypeOK, ListInv, LoadMore
  PROVE  ListInv'
<1>1. /\ UNCHANGED <<query, counted, submitted, pages, failed, clean>>
      /\ submitted /\ ~ pending
  BY Zenon DEF LoadMore, AtTable, searchVars
<1>2. CASE query = 0 \/ UNCHANGED <<currentPage, calls, pending>>
  <2>1. calls' = calls /\ (query # 0 => UNCHANGED <<currentPage, pending>>)
    BY <1>2 DEF LoadMore
  <2>2. CASE query = 0
    BY <1>1, <2>1, <2>2, Zenon DEF ListInv, SpinnerIsTrue, PagesInOrder
  <2>3. CASE query # 0
    BY <1>1, <2>1, <2>3, ListInvUnchanged
  <2> QED BY <2>2, <2>3
<1>3. CASE query # 0 /\ currentPage' = currentPage + 1 /\ Send("page", query, currentPage + 1) /\ pending' = TRUE
  <2> DEFINE new == [id |-> NextId, kind |-> "page", q |-> query, p |-> currentPage + 1]
  <2>1. calls' = calls \cup {new}
    BY <1>3 DEF Send
  <2>2. new.kind = "page" /\ new.q = query /\ new.p = currentPage + 1
    OBVIOUS
  <2> HIDE DEF new
  <2> SUFFICES ASSUME clean PROVE ListInv'
    BY <1>1, ListInvUnclean DEF TypeOK
  <2>3. ListCalls(query) = {}
    BY <1>1, <1>3 DEF ListInv, SpinnerIsTrue
  <2>4. ListCalls(query)' = {new} /\ {d \in calls : d.kind = "page" /\ d.q = query} = {}
        /\ {d \in calls : d.kind = "page" /\ d.q = query}' = {new}
    BY <1>1, <2>1, <2>2, <2>3 DEF ListCalls
  <2>5. SpinnerIsTrue'
    BY <1>3, <2>4 DEF SpinnerIsTrue
  <2>6. {c.p : c \in {d \in calls : d.kind = "page" /\ d.q = query}} = {}
        /\ {c.p : c \in {d \in calls : d.kind = "page" /\ d.q = query}}' = {currentPage + 1}
    BY <2>2, <2>4
  <2>7. currentPage \in Nat /\ failed \subseteq 0..currentPage
    BY <1>3 DEF ListInv, TypeOK
  <2>8. {pages[k][2] : k \in DOMAIN pages} = 0..currentPage \ failed
    BY <1>1, <1>3, <2>6 DEF ListInv, PagesInOrder
  <2>9. {pages[k][2] : k \in DOMAIN pages}' = 0..currentPage' \ (failed' \cup {currentPage + 1})
    BY <1>1, <1>3, <2>7, <2>8
  <2>10. PagesInOrder'
    BY <1>1, <2>6, <2>9 DEF ListInv, PagesInOrder
  <2>11. failed' \subseteq 0..currentPage' /\ currentPage + 1 \notin failed'
    BY <1>1, <1>3, <2>7
  <2>12. \A c \in calls' : c.kind = "page" /\ c.q = query' => c = new
    BY <2>4
  <2> QED BY <1>1, <1>3, <2>2, <2>5, <2>10, <2>11, <2>12 DEF ListInv
<1> QED BY <1>2, <1>3 DEF LoadMore

\* Asking for the exact count keeps ListInv: it is of the search of the list.
LEMMA ListInvLoadExactCount ==
  ASSUME TypeOK, ListInv, LoadExactCount
  PROVE  ListInv'
<1>1. /\ UNCHANGED <<query, counted, submitted, pages, currentPage, failed, clean>>
      /\ submitted /\ ~ pending /\ pending' = TRUE /\ Send("link", counted, 0)
  BY Zenon DEF LoadExactCount, AtTable, searchVars
<1> DEFINE new == [id |-> NextId, kind |-> "link", q |-> counted, p |-> 0]
<1>2. calls' = calls \cup {new}
  BY <1>1 DEF Send
<1>3. new.kind = "link" /\ new.q = counted
  OBVIOUS
<1> HIDE DEF new
<1>4. \A c : c \in calls' /\ c.kind = "page" <=> c \in calls /\ c.kind = "page"
  BY <1>2, <1>3
<1>6. PagesInOrder'
  BY <1>1, <1>4, PagesInOrderUnchanged, Zenon DEF ListInv
<1>7. SpinnerIsTrue'
  <2> SUFFICES ASSUME clean, query # 0 PROVE SpinnerIsTrue'
    BY <1>1 DEF SpinnerIsTrue
  <2>1. ListCalls(query) = {} /\ counted = query
    BY <1>1 DEF ListInv, SpinnerIsTrue
  <2>2. ListCalls(query)' = {new}
    BY <1>1, <1>2, <1>3, <2>1 DEF ListCalls
  <2> QED BY <1>1, <2>2 DEF SpinnerIsTrue
<1>8. clean /\ query # 0 => \A c \in calls' : c.kind = "page" /\ c.q = query => c.p = currentPage /\ c.p \notin failed
  BY <1>4, Zenon DEF ListInv
<1> QED BY <1>1, <1>6, <1>7, <1>8, Zenon DEF ListInv

\* The end of a call about the list leaves none for that search in flight.
LEMMA NoListCallLeft ==
  ASSUME TypeOK, ListInv, NEW c \in calls, c.kind \in {"page", "link"}, calls' = calls \ {c},
         clean, c.q = query, UNCHANGED query
  PROVE  /\ query # 0 /\ submitted
         /\ ListCalls(query) = {c} /\ ListCalls(query)' = {}
         /\ {d \in calls : d.kind = "page" /\ d.q = query}' = {}
         /\ {e.p : e \in {d \in calls : d.kind = "page" /\ d.q = query}}' = {}
<1>1. c.q \in Search
  BY DEF TypeOK, Call
<1>2. query # 0
  BY <1>1 DEF Search
<1>3. submitted
  BY <1>2 DEF ListInv
<1>4. \A d, e \in ListCalls(query) : d = e
  BY <1>2, <1>3 DEF ListInv, SpinnerIsTrue
<1>5. c \in ListCalls(query)
  BY DEF ListCalls
<1>6. ListCalls(query) = {c}
  BY <1>4, <1>5
<1>7. ListCalls(query)' = {}
  BY <1>6 DEF ListCalls
<1>8. {d \in calls : d.kind = "page" /\ d.q = query}' = {}
  BY <1>7 DEF ListCalls
<1>9. {e.p : e \in {d \in calls : d.kind = "page" /\ d.q = query}}' = {}
  BY <1>8
<1> QED BY <1>2, <1>3, <1>6, <1>7, <1>8, <1>9

\* The end of an exact count keeps ListInv.
LEMMA ListInvLinkEnds ==
  ASSUME TypeOK, ListInv, NEW c \in calls, LinkAnswered(c) \/ LinkFailed(c)
  PROVE  ListInv'
<1>1. /\ UNCHANGED <<query, counted, submitted, pages, currentPage, failed>>
      /\ pending' = FALSE /\ calls' = calls \ {c} /\ c.kind = "link"
      /\ clean' => clean /\ c.q = query
  BY Zenon DEF LinkAnswered, LinkFailed, searchVars
<1>2. CASE ~ clean'
  BY <1>1, <1>2 DEF ListInv, SpinnerIsTrue, PagesInOrder
<1>3. CASE clean'
  <2>1. /\ query # 0 /\ submitted /\ ListCalls(query) = {c} /\ ListCalls(query)' = {}
        /\ {e.p : e \in {d \in calls : d.kind = "page" /\ d.q = query}}' = {}
        /\ {d \in calls : d.kind = "page" /\ d.q = query}' = {}
    BY <1>1, <1>3, NoListCallLeft
  <2>2. {d \in calls : d.kind = "page" /\ d.q = query} = {}
    BY <1>1, <2>1 DEF ListCalls
  <2>3. {e.p : e \in {d \in calls : d.kind = "page" /\ d.q = query}} = {}
    BY <2>2
  <2>4. SpinnerIsTrue'
    BY <1>1, <2>1 DEF SpinnerIsTrue
  <2>5. PagesInOrder'
    BY <1>1, <1>3, <2>1, <2>3 DEF ListInv, PagesInOrder
  <2>6. \A d \in calls' : ~ (d.kind = "page" /\ d.q = query)
    BY <1>1, <2>1
  <2> QED BY <1>1, <1>3, <2>1, <2>4, <2>5, <2>6, Zenon DEF ListInv
<1> QED BY <1>2, <1>3

\* The failure of a page keeps ListInv: the page goes from awaited to failed.
LEMMA ListInvPageFailed ==
  ASSUME TypeOK, ListInv, NEW c \in calls, PageFailed(c)
  PROVE  ListInv'
<1>1. /\ UNCHANGED <<query, counted, submitted, pages, currentPage>>
      /\ pending' = FALSE /\ calls' = calls \ {c} /\ c.kind = "page"
      /\ clean' => clean /\ c.q = query /\ failed' = failed \cup {c.p}
  BY Zenon DEF PageFailed, searchVars
<1>2. CASE ~ clean'
  BY <1>1, <1>2 DEF ListInv, SpinnerIsTrue, PagesInOrder
<1>3. CASE clean'
  <2>1. /\ query # 0 /\ submitted /\ ListCalls(query) = {c} /\ ListCalls(query)' = {}
        /\ {e.p : e \in {d \in calls : d.kind = "page" /\ d.q = query}}' = {}
        /\ {d \in calls : d.kind = "page" /\ d.q = query}' = {}
    BY <1>1, <1>3, NoListCallLeft
  <2>2. {d \in calls : d.kind = "page" /\ d.q = query} = {c}
    BY <1>1, <1>3, <2>1 DEF ListCalls
  <2>3. {e.p : e \in {d \in calls : d.kind = "page" /\ d.q = query}} = {c.p}
    BY <2>2
  <2>4. SpinnerIsTrue'
    BY <1>1, <2>1 DEF SpinnerIsTrue
  <2>5. PagesInOrder'
    BY <1>1, <1>3, <2>1, <2>3 DEF ListInv, PagesInOrder
  <2>6. \A d \in calls' : ~ (d.kind = "page" /\ d.q = query)
    BY <1>1, <2>1
  <2>7. c.p = currentPage /\ currentPage \in Nat /\ failed \subseteq 0..currentPage
    BY <1>1, <1>3, <2>1 DEF ListInv, TypeOK
  <2>8. failed' \subseteq 0..currentPage'
    <3>1. failed' = failed \cup {currentPage} /\ currentPage' = currentPage
      BY <1>1, <1>3, <2>7, Zenon
    <3> QED BY <2>7, <3>1
  <2> QED BY <1>1, <1>3, <2>1, <2>4, <2>5, <2>6, <2>8, Zenon DEF ListInv
<1> QED BY <1>2, <1>3

\* An answered page is the last one of the list.
LEMMA ListInvPageAnswered ==
  ASSUME TypeOK, ListInv, NEW c \in calls, PageAnswered(c)
  PROVE  ListInv'
<1>1. /\ UNCHANGED <<query, counted, submitted, currentPage, failed>>
      /\ pending' = FALSE /\ calls' = calls \ {c} /\ c.kind = "page"
      /\ clean' => clean /\ c.q = query
      /\ pages' = IF currentPage = 0 THEN <<(<<c.q, c.p>>)>> ELSE Append(pages, <<c.q, c.p>>)
  BY Zenon DEF PageAnswered, searchVars
<1>2. CASE ~ clean'
  BY <1>1, <1>2 DEF ListInv, SpinnerIsTrue, PagesInOrder
<1>3. CASE clean'
  <2>1. /\ query # 0 /\ submitted /\ ListCalls(query) = {c} /\ ListCalls(query)' = {}
        /\ {e.p : e \in {d \in calls : d.kind = "page" /\ d.q = query}}' = {}
        /\ {d \in calls : d.kind = "page" /\ d.q = query}' = {}
    BY <1>1, <1>3, NoListCallLeft
  <2>2. {d \in calls : d.kind = "page" /\ d.q = query} = {c}
    BY <1>1, <1>3, <2>1 DEF ListCalls
  <2>3. {e.p : e \in {d \in calls : d.kind = "page" /\ d.q = query}} = {c.p}
    BY <2>2
  <2>4. SpinnerIsTrue'
    BY <1>1, <2>1 DEF SpinnerIsTrue
  <2>5. \A d \in calls' : ~ (d.kind = "page" /\ d.q = query)
    BY <1>1, <2>1
  <2>6. c.p = currentPage /\ c.p \notin failed /\ currentPage \in Nat /\ failed \subseteq 0..currentPage
    BY <1>1, <1>3, <2>1 DEF ListInv, TypeOK
  <2>7. pages \in Seq(Page) /\ \A k \in DOMAIN pages : pages[k][1] = query
    BY <1>1, <1>3 DEF ListInv, PagesInOrder, TypeOK
  <2>8. {pages[k][2] : k \in DOMAIN pages} = 0..currentPage \ (failed \cup {c.p})
    BY <1>1, <1>3, <2>1, <2>3 DEF ListInv, PagesInOrder
  <2>9. \A j, k \in DOMAIN pages : j < k => pages[j][2] < pages[k][2]
    BY <1>1, <1>3 DEF ListInv, PagesInOrder
  <2> DEFINE pair == <<c.q, c.p>>
  <2>10. pair[1] = query /\ pair[2] = c.p /\ pages' = IF currentPage = 0 THEN <<pair>> ELSE Append(pages, pair)
    BY <1>1, <1>3
  <2> HIDE DEF pair
  <2>11. PagesInOrder'
    <3>1. CASE currentPage = 0
      <4>1. pages' = <<pair>> /\ DOMAIN pages' = {1} /\ pages'[1] = pair
        BY <2>10, <3>1
      <4>2. {pages'[k][2] : k \in DOMAIN pages'} = {0}
        BY <2>6, <2>10, <3>1, <4>1
      <4>3. 0..currentPage \ failed = {0}
        BY <2>6, <3>1
      <4> QED BY <1>1, <2>1, <2>10, <3>1, <4>1, <4>2, <4>3 DEF PagesInOrder
    <3>2. CASE currentPage # 0
      <4>1. pages' = Append(pages, pair) /\ Len(pages) \in Nat /\ DOMAIN pages = 1..Len(pages)
        BY <2>7, <2>10, <3>2
      <4>2. DOMAIN pages' = 1..Len(pages) + 1 /\ pages'[Len(pages) + 1] = pair
            /\ \A k \in DOMAIN pages : pages'[k] = pages[k]
        BY <2>7, <4>1
      <4>3. \A k \in DOMAIN pages : pages[k][2] < currentPage /\ pages[k][2] \in 0..currentPage
        BY <2>6, <2>8
      <4>4. {pages'[k][2] : k \in DOMAIN pages'} = {pages[k][2] : k \in DOMAIN pages} \cup {c.p}
        <5>1. DOMAIN pages' = DOMAIN pages \cup {Len(pages) + 1}
          BY <4>1, <4>2
        <5> QED BY <2>10, <4>2, <5>1
      <4>5. {pages'[k][2] : k \in DOMAIN pages'} = 0..currentPage \ failed
        BY <2>6, <2>8, <4>4
      <4>6. \A k \in DOMAIN pages' : pages'[k][1] = query
        BY <2>7, <2>10, <4>1, <4>2
      <4>7. \A j, k \in DOMAIN pages' : j < k => pages'[j][2] < pages'[k][2]
        <5> SUFFICES ASSUME NEW j \in DOMAIN pages', NEW k \in DOMAIN pages', j < k
                     PROVE  pages'[j][2] < pages'[k][2]
          OBVIOUS
        <5>1. j \in DOMAIN pages
          BY <4>1, <4>2
        <5>2. CASE k \in DOMAIN pages
          BY <2>9, <4>2, <5>1, <5>2
        <5>3. CASE k = Len(pages) + 1
          BY <2>6, <2>10, <4>2, <4>3, <5>1, <5>3
        <5> QED BY <4>1, <4>2, <5>2, <5>3
      <4>8. {e.p : e \in {d \in calls : d.kind = "page" /\ d.q = query}}' = {}
        BY <2>1
      <4> QED BY <1>1, <4>5, <4>6, <4>7, <4>8 DEF PagesInOrder
    <3> QED BY <3>1, <3>2
  <2> QED BY <1>1, <1>3, <2>1, <2>4, <2>5, <2>6, <2>11, Zenon DEF ListInv
<1> QED BY <1>2, <1>3

\* Every step keeps ListInv.
LEMMA NextListInv == TypeOK /\ ListInv /\ [Next]_vars => ListInv'
<1> SUFFICES ASSUME TypeOK, ListInv, [Next]_vars PROVE ListInv'
  OBVIOUS
<1>1. ASSUME UNCHANGED <<query, counted, listVars>>, clean' => clean,
             \A c : c \in calls' /\ c.kind \in {"page", "link"} <=> c \in calls /\ c.kind \in {"page", "link"}
      PROVE  ListInv'
  BY <1>1, ListInvUnchanged, Zenon DEF listVars
<1>2. ASSUME NEW c \in calls, Ended(c) PROVE ListInv'
  <2>1. CASE FacetsCountAnswered(c) \/ FacetsCountFailed(c) \/ ActionCountAnswered(c) \/ ActionCountFailed(c)
    <3>1. UNCHANGED <<searchVars, listVars>> /\ calls' = calls \ {c} /\ (c.kind = "facets" \/ c.kind = "action")
      BY <2>1, Zenon DEF FacetsCountAnswered, FacetsCountFailed, ActionCountAnswered, ActionCountFailed
    <3>2. clean' => clean
      BY <2>1 DEF FacetsCountAnswered, FacetsCountFailed, ActionCountAnswered, ActionCountFailed
    <3> QED BY <1>1, <3>1, <3>2 DEF searchVars
  <2> QED BY <1>2, <2>1, ListInvPageAnswered, ListInvPageFailed, ListInvLinkEnds DEF Ended
<1>3. CASE Quiet
  <2>1. CASE AddCriterion \/ ChangeOrder \/ CheckParentBox \/ (\E u \in Shown(pages) : CheckChildrenBox(u)) \/ Cancel
    <3>1. UNCHANGED <<query, counted, listVars, calls, clean>>
      BY <2>1, Zenon DEF AddCriterion, ChangeOrder, CheckParentBox, CheckChildrenBox, Cancel, searchVars
    <3> QED BY <1>1, <3>1, Zenon
  <2>2. CASE LaunchFacetsComputing
    <3>1. UNCHANGED <<query, counted, listVars, clean>> /\ Send("facets", query, 0)
      BY <2>2, Zenon DEF LaunchFacetsComputing, searchVars
    <3> QED BY <1>1, <3>1 DEF Send
  <2>3. CASE RemoveLastCriterion \/ ClearCriteria
    BY <2>3, ListInvUnclean, Zenon DEF RemoveLastCriterion, ClearCriteria
  <2> QED BY <1>3, <2>1, <2>2, <2>3, ListInvSubmit, ListInvLoadMore, ListInvLoadExactCount
          DEF Quiet, ClickSearch, DebouncedSearch
<1>4. CASE LaunchBulkOperation
  <2>1. UNCHANGED <<query, counted, listVars, clean>> /\ (UNCHANGED calls \/ Send("action", query, 0))
    BY <1>4, Zenon DEF LaunchBulkOperation, searchVars
  <2> QED BY <1>1, <2>1 DEF Send
<1>5. CASE Confirm \/ UNCHANGED vars
  <2>1. UNCHANGED <<query, counted, listVars, calls, clean>>
    BY <1>5, Zenon DEF Confirm, searchVars, vars
  <2> QED BY <1>1, <2>1, Zenon
<1> QED BY <1>2, <1>3, <1>4, <1>5 DEF Next

-----------------------------------------------------------------------------
(* The pages that are counted *)

\* Multiplying by a natural keeps the order.
LEMMA ProductMonotone ==
  ASSUME NEW a \in Int, NEW b \in Int, NEW k \in Nat, a <= b
  PROVE  a * k <= b * k
BY Z3

\* The threshold is a number of whole pages, one at least.
LEMMA WholePages ==
  \E n \in Nat : n >= 1 /\ Threshold = n * PageSize
<1>1. PageSize \in Nat /\ PageSize > 0 /\ Threshold \in Nat /\ Threshold > 0 /\ Threshold % PageSize = 0
  BY SizesAssumption
<1> DEFINE n == Threshold \div PageSize
<1>2. Threshold = n * PageSize /\ n \in Nat
  BY <1>1, Z3
<1>3. n # 0
  BY <1>1, <1>2
<1> HIDE DEF n
<1> QED BY <1>2, <1>3

\* A unit of a page is numbered within it.
LEMMA UnitNumber ==
  ASSUME NEW q \in Search, NEW p \in Nat, NEW u \in UnitsOf(q, p)
  PROVE  /\ u[1] = q /\ u[2] \in Nat /\ u = <<u[1], u[2]>>
         /\ p * PageSize <= u[2] /\ u[2] < (p + 1) * PageSize /\ u[2] < hits[q]
<1>1. hits[q] \in Nat /\ PageSize \in Nat
  BY SizesAssumption DEF Search
<1>2. p * PageSize \in Nat /\ (p + 1) * PageSize \in Nat
  BY <1>1, ProductNat
<1> DEFINE first == p * PageSize
           end == (p + 1) * PageSize
<1>3. first \in Nat /\ end \in Nat
  BY <1>2
<1> HIDE DEF first, end
<1>4. u \in {<<q, i>> : i \in first .. SmallerOf(end, hits[q]) - 1}
  BY DEF UnitsOf, first, end
<1>5. PICK i \in first .. SmallerOf(end, hits[q]) - 1 : u = <<q, i>>
  BY <1>4
<1>6. i \in Nat /\ first <= i /\ i < end /\ i < hits[q]
  BY <1>1, <1>3, <1>5 DEF SmallerOf
<1> QED BY <1>5, <1>6 DEF first, end

\* A page that ends within the threshold is counted.
LEMMA BoundedPage ==
  ASSUME NEW q \in Search, NEW p \in Nat, hits[q] <= Threshold \/ (p + 1) * PageSize <= Threshold
  PROVE  Bounded(q, p)
<1>1. hits[q] \in Nat /\ PageSize \in Nat /\ Threshold \in Nat
  BY SizesAssumption DEF Search
<1>2. (p + 1) * PageSize \in Nat
  BY <1>1, ProductNat
<1> SUFFICES ASSUME NEW u \in UnitsOf(q, p) PROVE u[2] < SmallerOf(hits[q], Threshold)
  BY DEF Bounded
<1>3. u[2] \in Nat /\ u[2] < hits[q] /\ u[2] < (p + 1) * PageSize
  BY UnitNumber
<1> DEFINE end == (p + 1) * PageSize
<1>4. end \in Nat /\ u[2] < end /\ (hits[q] <= Threshold \/ end <= Threshold)
  BY <1>2, <1>3
<1> HIDE DEF end
<1> QED BY <1>1, <1>3, <1>4 DEF SmallerOf

\* The first page is counted.
LEMMA FirstPageBounded ==
  ASSUME NEW q \in Search
  PROVE  Bounded(q, 0)
<1>1. PICK n \in Nat : n >= 1 /\ Threshold = n * PageSize
  BY WholePages
<1>2. PageSize \in Nat
  BY SizesAssumption
<1>3. 1 * PageSize <= n * PageSize
  BY <1>1, <1>2, ProductMonotone
<1>4. (0 + 1) * PageSize <= Threshold
  BY <1>1, <1>2, <1>3
<1> QED BY <1>4, BoundedPage

\* Beyond the threshold, a page that is counted is whole.
LEMMA WholePage ==
  ASSUME NEW q \in Search, NEW p \in Nat, Bounded(q, p), hits[q] > Threshold, UnitsOf(q, p) # {}
  PROVE  Cardinality(UnitsOf(q, p)) = PageSize
<1>1. hits[q] \in Nat /\ PageSize \in Nat /\ PageSize > 0 /\ Threshold \in Nat
  BY SizesAssumption DEF Search
<1>2. PICK n \in Nat : n >= 1 /\ Threshold = n * PageSize
  BY WholePages
<1>3. PICK u \in UnitsOf(q, p) : TRUE
  OBVIOUS
<1>4. p * PageSize \in Nat /\ n * PageSize \in Nat /\ p * PageSize < n * PageSize
  <2>1. p * PageSize \in Nat /\ n * PageSize \in Nat
    BY <1>1, ProductNat
  <2>2. p * PageSize <= u[2] /\ u[2] \in Nat
    BY UnitNumber
  <2>3. u[2] < Threshold
    BY <1>1, <2>2 DEF Bounded, SmallerOf
  <2> DEFINE first == p * PageSize
             all == n * PageSize
  <2>4. first \in Nat /\ all \in Nat /\ first <= u[2] /\ u[2] < all
    BY <1>2, <2>1, <2>2, <2>3
  <2> HIDE DEF first, all
  <2>5. first < all
    BY <2>2, <2>4
  <2> QED BY <2>1, <2>5 DEF first, all
<1>5. p < n
  <2> SUFFICES ASSUME n <= p PROVE FALSE
    BY <1>2
  <2>1. n * PageSize <= p * PageSize
    BY <1>1, ProductMonotone
  <2> DEFINE first == p * PageSize
             all == n * PageSize
  <2>2. first \in Nat /\ all \in Nat /\ all <= first /\ first < all
    BY <1>4, <2>1
  <2> HIDE DEF first, all
  <2> QED BY <2>2
<1>6. (p + 1) * PageSize <= Threshold
  BY <1>1, <1>2, <1>5, ProductMonotone
<1>7. (p + 1) * PageSize = p * PageSize + PageSize
  BY <1>1, Z3
<1> DEFINE first == p * PageSize
           end == (p + 1) * PageSize
<1>8. first \in Nat /\ end \in Nat /\ end <= Threshold /\ end = first + PageSize
  BY <1>1, <1>4, <1>6, <1>7
<1>9. UnitsOf(q, p) = {<<q, i>> : i \in first .. SmallerOf(end, hits[q]) - 1}
  BY DEF UnitsOf
<1> HIDE DEF first, end
<1>10. SmallerOf(end, hits[q]) - 1 = end - 1
  BY <1>1, <1>8 DEF SmallerOf
<1>11. Cardinality({<<q, i>> : i \in first .. end - 1}) = IF first <= end - 1 THEN end - 1 - first + 1 ELSE 0
  <2>1. first \in Int /\ end - 1 \in Int
    BY <1>8
  <2> QED BY <2>1, PairsOf, Zenon
<1>12. (IF first <= end - 1 THEN end - 1 - first + 1 ELSE 0) = PageSize
  BY <1>1, <1>8
<1> QED BY <1>9, <1>10, <1>11, <1>12, Zenon

\* From a page that is counted, whichever its size, the number of pages computed
\* goes beyond no unit that is counted.
LEMMA PageNumbersBounded ==
  ASSUME NEW q \in Search, NEW p \in Nat, Bounded(q, p), NEW r \in 0..PageNumbers(q, p) - 1
  PROVE  Bounded(q, r)
<1>1. hits[q] \in Nat /\ PageSize \in Nat /\ PageSize > 0 /\ Threshold \in Nat
  BY SizesAssumption DEF Search
<1>2. PageNumbers(q, p) \in Nat
  BY PageNumbersNat
<1>3. r \in Nat /\ r < PageNumbers(q, p)
  BY <1>2
<1>4. CASE hits[q] <= Threshold
  BY <1>3, <1>4, BoundedPage
<1>5. CASE hits[q] > Threshold
  <2>1. PageNumbers(q, p) # 0
    BY <1>2
  <2>2. Cardinality(UnitsOf(q, p)) # 0
    BY <2>1 DEF PageNumbers
  <2>3. UnitsOf(q, p) # {}
    BY <2>2, FS_EmptySet
  <2>4. Cardinality(UnitsOf(q, p)) = PageSize
    BY <1>5, <2>3, WholePage
  <2>5. SmallerOf(hits[q], Threshold) = Threshold
    BY <1>1, <1>5 DEF SmallerOf
  <2>6. PageNumbers(q, p) = (Threshold + PageSize - 1) \div PageSize
    BY <2>2, <2>4, <2>5, Zenon DEF PageNumbers, CeilDiv
  <2>7. PICK n \in Nat : n >= 1 /\ Threshold = n * PageSize
    BY WholePages
  <2>8. (n * PageSize + PageSize - 1) \div PageSize = n
    BY <1>1, Z3
  <2>9. r + 1 <= n
    BY <1>3, <2>6, <2>7, <2>8
  <2>10. (r + 1) * PageSize <= n * PageSize
    BY <1>1, <1>3, <2>9, ProductMonotone
  <2> QED BY <1>3, <2>7, <2>10, BoundedPage
<1> QED BY <1>1, <1>4, <1>5

\* Two pages of a search have no unit in common.
LEMMA PagesDisjoint ==
  ASSUME NEW q \in Search, NEW p \in Nat, NEW r \in Nat, p < r
  PROVE  UnitsOf(q, p) \cap UnitsOf(q, r) = {}
<1>1. PageSize \in Nat
  BY SizesAssumption
<1>2. (p + 1) * PageSize <= r * PageSize
  BY <1>1, ProductMonotone
<1>3. (p + 1) * PageSize \in Nat /\ r * PageSize \in Nat
  BY <1>1, ProductNat
<1> DEFINE end == (p + 1) * PageSize
           first == r * PageSize
<1>4. end \in Nat /\ first \in Nat /\ end <= first
  BY <1>2, <1>3
<1> SUFFICES ASSUME NEW u \in UnitsOf(q, p), u \in UnitsOf(q, r) PROVE FALSE
  OBVIOUS
<1>5. u[2] \in Nat /\ u[2] < end /\ first <= u[2]
  BY UnitNumber
<1> HIDE DEF end, first
<1> QED BY <1>4, <1>5

\* The units shown, when all are counted, are no more than those counted.
LEMMA ShownBounded ==
  ASSUME NEW q \in Search, NEW s \in Seq(Page),
         \A k \in DOMAIN s : s[k][1] = q /\ Bounded(q, s[k][2])
  PROVE  /\ IsFiniteSet(Shown(s))
         /\ Cardinality(Shown(s)) <= SmallerOf(hits[q], Threshold)
<1> DEFINE m == SmallerOf(hits[q], Threshold)
<1>1. m \in Nat
  BY SizesAssumption DEF Search, SmallerOf
<1>2. Shown(s) \subseteq {<<q, i>> : i \in 0 .. m - 1}
  <2> SUFFICES ASSUME NEW k \in DOMAIN s, NEW u \in UnitsOf(q, s[k][2])
               PROVE  u \in {<<q, i>> : i \in 0 .. m - 1}
    BY DEF Shown
  <2>1. s[k][2] \in Nat
    BY DEF Page
  <2>2. u[1] = q /\ u[2] \in Nat /\ u = <<u[1], u[2]>>
    BY <2>1, UnitNumber
  <2>3. u[2] < m
    BY DEF Bounded
  <2> HIDE DEF m
  <2>4. u[2] \in 0 .. m - 1
    BY <1>1, <2>2, <2>3
  <2> QED BY <2>2, <2>4
<1> HIDE DEF m
<1>3. 0 \in Int /\ m - 1 \in Int /\ (IF 0 <= m - 1 THEN m - 1 - 0 + 1 ELSE 0) = m
  BY <1>1
<1>4. /\ IsFiniteSet({<<q, i>> : i \in 0 .. m - 1})
      /\ Cardinality({<<q, i>> : i \in 0 .. m - 1}) = m
  <2> DEFINE S == {<<q, i>> : i \in 0 .. m - 1}
             count == Cardinality(S)
  <2>1. IsFiniteSet(S) /\ count = IF 0 <= m - 1 THEN m - 1 - 0 + 1 ELSE 0
    BY <1>3, PairsOf
  <2> HIDE DEF count
  <2>2. count = m
    BY <1>3, <2>1
  <2> QED BY <2>1, <2>2 DEF count
<1>5. IsFiniteSet(Shown(s)) /\ Cardinality(Shown(s)) <= m
  BY <1>2, <1>4, FS_Subset
<1> QED BY <1>5 DEF m

-----------------------------------------------------------------------------
(* The total *)

\* TotalInv says nothing of a page that is not settled.
LEMMA TotalInvUnsettled ==
  ASSUME clean' = FALSE \/ pages' = <<>>
  PROVE  TotalInv'
BY DEF TotalInv, Settled

\* TotalInv depends on these fields and on the page calls only.
LEMMA TotalInvUnchanged ==
  ASSUME TotalInv, UNCHANGED <<query, pages, pageNumbers, totalResults, waitingToGetFixedCount>>,
         clean' => clean,
         \A c \in calls' : c.kind = "page" => c \in calls
  PROVE  TotalInv'
<1> SUFFICES ASSUME Settled' PROVE TotalInv'
  BY DEF TotalInv
<1>1. Settled
  BY Zenon DEF Settled
<1>2. \A p : Bounded(query, p)' = Bounded(query, p)
  BY DEF Bounded
<1> QED BY <1>1, <1>2 DEF TotalInv

\* The exact count of the search is a right total.
LEMMA TotalInvCounted ==
  ASSUME TotalInv, NEW c \in calls, UNCHANGED <<query, pages, pageNumbers>>,
         clean' => clean /\ c.q = query, calls' \subseteq calls, totalResults' = hits[c.q]
  PROVE  TotalInv'
<1> SUFFICES ASSUME Settled' PROVE TotalInv'
  BY DEF TotalInv
<1>1. Settled /\ c.q = query
  BY Zenon DEF Settled
<1>2. \A p : Bounded(query, p)' = Bounded(query, p)
  BY DEF Bounded
<1> QED BY <1>1, <1>2 DEF TotalInv

\* The page asked for by scrolling is counted.
LEMMA TotalInvLoadMore ==
  ASSUME TypeOK, TotalInv, LoadMore
  PROVE  TotalInv'
<1>1. UNCHANGED <<query, pages, pageNumbers, totalResults, waitingToGetFixedCount, clean>>
  BY Zenon DEF LoadMore, searchVars, countVars
<1>2. CASE UNCHANGED calls
  BY <1>1, <1>2, TotalInvUnchanged
<1>3. CASE currentPage < pageNumbers - 1 /\ Send("page", query, currentPage + 1)
  <2> SUFFICES ASSUME Settled' PROVE TotalInv'
    BY DEF TotalInv
  <2>1. Settled
    BY <1>1, Zenon DEF Settled
  <2> DEFINE new == [id |-> NextId, kind |-> "page", q |-> query, p |-> currentPage + 1]
  <2>2. calls' = calls \cup {new} /\ new.p = currentPage + 1
    BY <1>3 DEF Send
  <2> HIDE DEF new
  <2>3. currentPage + 1 \in 0..pageNumbers - 1
    BY <1>3 DEF TypeOK
  <2>4. Bounded(query, new.p)
    BY <2>1, <2>2, <2>3 DEF TotalInv
  <2>5. \A p : Bounded(query, p)' = Bounded(query, p)
    BY <1>1 DEF Bounded
  <2> QED BY <1>1, <2>1, <2>2, <2>4, <2>5 DEF TotalInv
<1> QED BY <1>2, <1>3 DEF LoadMore

\* The page just received is counted, and the number of pages computed from it too.
LEMMA TotalInvPageAnswered ==
  ASSUME TypeOK, ListInv, TotalInv, NEW c \in calls, PageAnswered(c)
  PROVE  TotalInv'
<1>1. /\ UNCHANGED <<query, currentPage>> /\ calls' = calls \ {c} /\ c.kind = "page"
      /\ clean' => clean /\ c.q = query
      /\ pageNumbers' = PageNumbers(c.q, c.p)
      /\ pages' = IF currentPage = 0 THEN <<(<<c.q, c.p>>)>> ELSE Append(pages, <<c.q, c.p>>)
      /\ totalResults' = IF currentPage = 0 THEN SmallerOf(hits[c.q], Threshold) ELSE totalResults
  BY Zenon DEF PageAnswered, searchVars
<1>2. ~ waitingToGetFixedCount' => totalResults' # Threshold
  BY Zenon DEF PageAnswered
<1> SUFFICES ASSUME Settled' PROVE TotalInv'
  BY DEF TotalInv
<1>3. clean' /\ clean /\ c.q = query /\ pages' # <<>> /\ pages'[1] = <<query, 0>>
  BY <1>1, Zenon DEF Settled
<1>4. query \in Search /\ c.p \in Nat /\ hits[query] \in Nat /\ Threshold \in Nat
  BY <1>3, SizesAssumption DEF TypeOK, Call, Search
<1>5. /\ query # 0 /\ submitted /\ ListCalls(query) = {c}
      /\ {d \in calls : d.kind = "page" /\ d.q = query}' = {}
  BY <1>1, <1>3, NoListCallLeft
<1>6. c.p = currentPage /\ \A k \in DOMAIN pages : pages[k][1] = query
  BY <1>1, <1>3, <1>5 DEF ListInv, PagesInOrder
<1>7. currentPage # 0 => Settled
  <2> SUFFICES ASSUME currentPage # 0 PROVE Settled
    OBVIOUS
  <2>1. pages \in Seq(Page)
    BY DEF TypeOK
  <2> DEFINE pair == <<c.q, c.p>>
  <2>2. pages' = Append(pages, pair) /\ pair # <<query, 0>>
    BY <1>1, <1>6
  <2> HIDE DEF pair
  <2>3. CASE pages = <<>>
    BY <1>3, <2>2, <2>3
  <2>4. CASE pages # <<>>
    <3>1. pages'[1] = pages[1]
      BY <2>1, <2>2, <2>4
    <3> QED BY <1>3, <2>4, <3>1 DEF Settled
  <2> QED BY <2>3, <2>4
<1>8. Bounded(query, c.p)
  <2>1. CASE currentPage = 0
    BY <1>4, <1>6, <2>1, FirstPageBounded
  <2>2. CASE currentPage # 0
    BY <1>1, <1>3, <1>7, <2>2 DEF TotalInv
  <2> QED BY <2>1, <2>2
<1>9. \A r \in 0..pageNumbers' - 1 : Bounded(query, r)
  BY <1>1, <1>3, <1>4, <1>8, PageNumbersBounded
<1>10. \A k \in DOMAIN pages' : Bounded(query, pages'[k][2])
  <2> DEFINE pair == <<c.q, c.p>>
  <2>1. pair[2] = c.p /\ pages' = IF currentPage = 0 THEN <<pair>> ELSE Append(pages, pair)
    BY <1>1
  <2> HIDE DEF pair
  <2>2. CASE currentPage = 0
    BY <1>8, <2>1, <2>2
  <2>3. CASE currentPage # 0
    <3>1. pages \in Seq(Page) /\ \A k \in DOMAIN pages : Bounded(query, pages[k][2])
      BY <1>7, <2>3 DEF TotalInv, TypeOK
    <3> SUFFICES ASSUME NEW k \in DOMAIN pages' PROVE Bounded(query, pages'[k][2])
      OBVIOUS
    <3>2. pages'[k] = pair \/ (k \in DOMAIN pages /\ pages'[k] = pages[k])
      BY <2>1, <2>3, <3>1
    <3> QED BY <1>8, <2>1, <3>1, <3>2
  <2> QED BY <2>2, <2>3
<1>11. /\ totalResults' \in {hits[query], SmallerOf(hits[query], Threshold)}
       /\ ~ waitingToGetFixedCount' => totalResults' = hits[query]
  <2>1. totalResults' \in {hits[query], SmallerOf(hits[query], Threshold)}
    BY <1>1, <1>3, <1>7 DEF TotalInv
  <2>2. SmallerOf(hits[query], Threshold) # Threshold => SmallerOf(hits[query], Threshold) = hits[query]
    BY DEF SmallerOf
  <2> QED BY <1>2, <2>1, <2>2
<1>12. \A p : Bounded(query, p)' = Bounded(query, p)
  BY <1>1 DEF Bounded
<1>13. \A d \in calls' : ~ (d.kind = "page" /\ d.q = query')
  BY <1>5
<1> QED BY <1>1, <1>9, <1>10, <1>11, <1>12, <1>13 DEF TotalInv

\* Every step keeps TotalInv.
LEMMA NextTotalInv == TypeOK /\ ListInv /\ TotalInv /\ [Next]_vars => TotalInv'
<1> SUFFICES ASSUME TypeOK, ListInv, TotalInv, [Next]_vars PROVE TotalInv'
  OBVIOUS
<1>1. ASSUME UNCHANGED <<query, pages, pageNumbers, totalResults, waitingToGetFixedCount>>, clean' => clean,
             UNCHANGED calls \/ (\E d \in calls : calls' = calls \ {d})
             \/ (\E kind \in {"link", "facets", "action"}, q \in Int, p \in Int : Send(kind, q, p))
      PROVE  TotalInv'
  <2>1. \A c \in calls' : c.kind = "page" => c \in calls
    BY <1>1 DEF Send
  <2> QED BY <1>1, <2>1, TotalInvUnchanged
<1>2. query \in Int /\ counted \in Int /\ 0 \in Int
  BY DEF TypeOK
<1>3. ASSUME NEW c \in calls, Ended(c) PROVE TotalInv'
  <2>1. CASE PageFailed(c) \/ LinkFailed(c) \/ FacetsCountFailed(c) \/ ActionCountFailed(c)
    <3>1. UNCHANGED <<query, pages, pageNumbers, totalResults, waitingToGetFixedCount>> /\ calls' = calls \ {c}
      BY <2>1, Zenon DEF PageFailed, LinkFailed, FacetsCountFailed, ActionCountFailed, searchVars, listVars, countVars
    <3>2. clean' => clean
      BY <2>1, Zenon DEF PageFailed, LinkFailed, FacetsCountFailed, ActionCountFailed
    <3> QED BY <1>1, <3>1, <3>2
  <2>2. CASE LinkAnswered(c) \/ FacetsCountAnswered(c) \/ ActionCountAnswered(c)
    <3>1. UNCHANGED <<query, pages, pageNumbers>> /\ calls' = calls \ {c} /\ totalResults' = hits[c.q]
          /\ (clean' => clean /\ c.q = query)
      BY <2>2, Zenon DEF LinkAnswered, FacetsCountAnswered, ActionCountAnswered, searchVars, listVars
    <3> QED BY <3>1, TotalInvCounted
  <2> QED BY <1>3, <2>1, <2>2, TotalInvPageAnswered DEF Ended
<1>4. CASE Quiet
  <2>1. CASE AddCriterion \/ ChangeOrder \/ CheckParentBox \/ (\E u \in Shown(pages) : CheckChildrenBox(u)) \/ Cancel
    <3>1. UNCHANGED <<query, listVars, countVars, calls, clean>>
      BY <2>1, Zenon DEF AddCriterion, ChangeOrder, CheckParentBox, CheckChildrenBox, Cancel, searchVars
    <3> QED BY <1>1, <3>1, Zenon DEF listVars, countVars
  <2>2. CASE LoadExactCount \/ LaunchFacetsComputing
    <3>1. UNCHANGED <<query, pages, pageNumbers, totalResults, waitingToGetFixedCount, clean>>
          /\ (Send("link", counted, 0) \/ Send("facets", query, 0))
      BY <2>2, Zenon DEF LoadExactCount, LaunchFacetsComputing, searchVars, listVars, countVars
    <3> QED BY <1>1, <1>2, <3>1
  <2>3. CASE RemoveLastCriterion \/ ClearCriteria \/ ClickSearch \/ DebouncedSearch
    <3>1. pages' = <<>>
      BY <2>3, Zenon DEF RemoveLastCriterion, ClearCriteria, ClickSearch, DebouncedSearch, Submit
    <3> QED BY <3>1, TotalInvUnsettled
  <2> QED BY <1>4, <2>1, <2>2, <2>3, TotalInvLoadMore DEF Quiet
<1>5. CASE LaunchBulkOperation
  <2>1. UNCHANGED <<query, pages, pageNumbers, totalResults, waitingToGetFixedCount, clean>>
        /\ (UNCHANGED calls \/ Send("action", query, 0))
    BY <1>5, Zenon DEF LaunchBulkOperation, searchVars, listVars, countVars
  <2> QED BY <1>1, <1>2, <2>1
<1>6. CASE Confirm \/ UNCHANGED vars
  <2>1. UNCHANGED <<query, pages, pageNumbers, totalResults, waitingToGetFixedCount, clean, calls>>
    BY <1>6, Zenon DEF Confirm, vars, searchVars, listVars, countVars
  <2> QED BY <1>1, <2>1, Zenon
<1> QED BY <1>3, <1>4, <1>5, <1>6 DEF Next

-----------------------------------------------------------------------------
(* The selection *)

\* Appending a page shows its units too.
LEMMA ShownAppend ==
  ASSUME NEW s \in Seq(Page), NEW pair \in Page
  PROVE  Shown(Append(s, pair)) = Shown(s) \cup UnitsOf(pair[1], pair[2])
<1>1. /\ DOMAIN Append(s, pair) = DOMAIN s \cup {Len(s) + 1}
      /\ Append(s, pair)[Len(s) + 1] = pair
      /\ \A k \in DOMAIN s : Append(s, pair)[k] = s[k]
  OBVIOUS
<1> QED BY <1>1 DEF Shown

\* SelectionInv says nothing once something came out of turn.
LEMMA SelectionInvUnclean ==
  ASSUME clean' = FALSE
  PROVE  SelectionInv'
BY DEF SelectionInv, SelectionIsOne, Settled

\* SelectionInv depends on these fields only.
LEMMA SelectionInvUnchanged ==
  ASSUME SelectionInv, UNCHANGED <<query, pages, totalResults, boxVars, selectedItemCount>>, clean' => clean
  PROVE  SelectionInv'
<1>1. UNCHANGED <<query, pages, totalResults, isAllChecked, isIndeterminate, itemNotSelected>>
      /\ UNCHANGED <<listOfUAIdToInclude, listOfUAIdToExclude, ticked, selectedItemCount>>
  BY Zenon DEF boxVars
<1>2. Settled' => Settled
  BY <1>1, Zenon DEF Settled
<1>3. Shown(pages)' = Shown(pages)
  BY <1>1, Zenon DEF Shown
<1>4. SelectionIsOne'
  BY <1>1, <1>2, <1>3, Zenon DEF SelectionInv, SelectionIsOne
<1> QED BY <1>1, <1>2, <1>3, <1>4, Zenon DEF SelectionInv

\* Submitting a search clears the selection.
LEMMA SelectionInvSubmit ==
  ASSUME Submit
  PROVE  SelectionInv'
<1>1. /\ pages' = <<>> /\ ticked' = {} /\ selectedItemCount' = 0 /\ itemNotSelected' = 0
      /\ isAllChecked' = FALSE /\ isIndeterminate' = FALSE
      /\ listOfUAIdToInclude' = {} /\ listOfUAIdToExclude' = {}
  BY DEF Submit
<1>2. ~ Settled'
  BY <1>1 DEF Settled
<1> QED BY <1>1, <1>2 DEF SelectionInv, SelectionIsOne

\* The units of an answered page follow the box of the header.
LEMMA SelectionInvPageAnswered ==
  ASSUME TypeOK, ListInv, SelectionInv, NEW c \in calls, PageAnswered(c)
  PROVE  SelectionInv'
<1>1. /\ UNCHANGED <<query, currentPage, isAllChecked, isIndeterminate, itemNotSelected>>
      /\ UNCHANGED <<listOfUAIdToInclude, listOfUAIdToExclude>>
      /\ calls' = calls \ {c} /\ c.kind = "page"
      /\ clean' => clean /\ c.q = query
      /\ pages' = IF currentPage = 0 THEN <<(<<c.q, c.p>>)>> ELSE Append(pages, <<c.q, c.p>>)
  BY Zenon DEF PageAnswered, searchVars
<1>2. /\ ticked' = IF isAllChecked
                   THEN IF currentPage = 0 THEN UnitsOf(c.q, c.p) ELSE ticked \cup UnitsOf(c.q, c.p)
                   ELSE IF currentPage = 0 THEN {} ELSE ticked
      /\ selectedItemCount' = IF isAllChecked THEN totalResults' - itemNotSelected ELSE selectedItemCount
  BY Zenon DEF PageAnswered
<1> SUFFICES ASSUME clean' PROVE SelectionInv'
  <2>1. ~ clean' => ~ Settled'
    BY DEF Settled
  <2> QED BY <2>1, Zenon DEF SelectionInv, SelectionIsOne
<1>3. clean /\ c.q = query /\ query \in Search /\ c.p \in Nat /\ totalResults' \in Int
  <2>1. totalResults' \in {totalResults, SmallerOf(hits[c.q], Threshold)}
    BY Zenon DEF PageAnswered
  <2>2. c.q \in Search /\ c.p \in Nat
    BY DEF TypeOK, Call
  <2>3. hits[c.q] \in Nat /\ Threshold \in Nat
    BY <2>2, SizesAssumption DEF Search
  <2> QED BY <1>1, <2>1, <2>2, <2>3 DEF TypeOK, SmallerOf
<1>4. /\ query # 0 /\ submitted /\ ListCalls(query) = {c}
  BY <1>1, <1>3, NoListCallLeft
<1>5. c.p = currentPage /\ \A k \in DOMAIN pages : pages[k][1] = query
  BY <1>1, <1>3, <1>4 DEF ListInv, PagesInOrder
<1>6. \A k \in DOMAIN pages : pages[k][2] \in 0..currentPage /\ pages[k][2] # c.p
  <2>1. c \in {d \in calls : d.kind = "page" /\ d.q = query}
    BY <1>1, <1>3
  <2>2. {pages[k][2] : k \in DOMAIN pages} =
          0..currentPage \ (failed \cup {e.p : e \in {d \in calls : d.kind = "page" /\ d.q = query}})
    BY <1>3, <1>4 DEF ListInv, PagesInOrder
  <2>3. c.p \in {e.p : e \in {d \in calls : d.kind = "page" /\ d.q = query}}
    BY <2>1
  <2> QED BY <2>2, <2>3
<1> DEFINE pair == <<c.q, c.p>>
<1>7. pair \in Page /\ pair[1] = query /\ pair[2] = c.p
  BY <1>3 DEF Page
<1>8. pages' = IF currentPage = 0 THEN <<pair>> ELSE Append(pages, pair)
  BY <1>1
<1> HIDE DEF pair
<1>9. pages \in Seq(Page) /\ currentPage \in Nat
  BY DEF TypeOK
<1>10. CASE currentPage = 0
  <2>1. pages = <<>>
    <3>1. DOMAIN pages = {}
      BY <1>5, <1>6, <1>10
    <3> QED BY <1>9, <3>1
  <2>2. /\ listOfUAIdToInclude = {} /\ listOfUAIdToExclude = {} /\ ticked = {}
        /\ itemNotSelected = 0 /\ ~ isIndeterminate
        /\ ~ isAllChecked => selectedItemCount = 0
    BY <1>3, <2>1 DEF SelectionInv
  <2>3. pages' = <<pair>>
    BY <1>8, <1>10
  <2>4. Shown(pages') = UnitsOf(query, c.p)
    BY <1>7, <2>3 DEF Shown
  <2>5. ticked' = IF isAllChecked THEN Shown(pages') ELSE {}
    BY <1>2, <1>3, <1>10, <2>4
  <2>6. selectedItemCount' = IF isAllChecked THEN totalResults' - 0 ELSE 0
    BY <1>2, <2>2, Zenon
  <2>7. Cardinality(listOfUAIdToExclude') = 0 /\ Cardinality(listOfUAIdToInclude') = 0
    BY <1>1, <2>2, FS_EmptySet
  <2>8. SelectionIsOne'
    <3>1. /\ Shown(pages') \ {} = Shown(pages')
          /\ {} \subseteq Shown(pages')
      OBVIOUS
    <3> QED BY <1>1, <2>2, <2>5, <2>6, <2>7, <3>1, Zenon DEF SelectionIsOne
  <2>9. pages' # <<>>
    BY <2>3
  <2> QED BY <1>1, <2>2, <2>8, <2>9 DEF SelectionInv
<1>11. CASE currentPage # 0
  <2>1. pages' = Append(pages, pair)
    BY <1>8, <1>11
  <2>2. pages' # <<>>
    BY <1>7, <1>9, <2>1
  <2> SUFFICES ASSUME Settled' PROVE SelectionInv'
    BY <2>2 DEF SelectionInv, SelectionIsOne
  <2>3. Settled
    <3>1. pages'[1] = <<query, 0>> /\ pair # <<query, 0>>
      BY <1>1, <1>5, <1>7, <1>11 DEF Settled
    <3>2. pages # <<>>
      <4> SUFFICES ASSUME pages = <<>> PROVE FALSE
        OBVIOUS
      <4>1. pages' = <<pair>>
        BY <2>1
      <4> QED BY <3>1, <4>1
    <3>3. pages'[1] = pages[1]
      BY <1>9, <2>1, <3>2
    <3> QED BY <1>3, <3>1, <3>2, <3>3 DEF Settled
  <2>4. Shown(pages') = Shown(pages) \cup UnitsOf(query, c.p)
    BY <1>7, <1>9, <2>1, ShownAppend
  <2>5. Shown(pages) \cap UnitsOf(query, c.p) = {}
    <3> SUFFICES ASSUME NEW k \in DOMAIN pages PROVE UnitsOf(pages[k][1], pages[k][2]) \cap UnitsOf(query, c.p) = {}
      BY DEF Shown
    <3>1. pages[k][1] = query /\ pages[k][2] \in Nat /\ pages[k][2] < c.p
      BY <1>5, <1>6, <1>9
    <3> QED BY <1>3, <3>1, PagesDisjoint
  <2>6. SelectionIsOne
    BY DEF SelectionInv
  <2>7. ticked' = IF isAllChecked THEN Shown(pages') \ listOfUAIdToExclude ELSE listOfUAIdToInclude
    <3>1. CASE isAllChecked
      <4>1. ticked = Shown(pages) \ listOfUAIdToExclude /\ listOfUAIdToExclude \subseteq Shown(pages)
        BY <2>3, <2>6, <3>1 DEF SelectionIsOne
      <4>2. ticked' = ticked \cup UnitsOf(query, c.p)
        BY <1>2, <1>3, <1>11, <3>1
      <4> QED BY <2>4, <2>5, <3>1, <4>1, <4>2
    <3>2. CASE ~ isAllChecked
      BY <1>2, <1>11, <2>3, <2>6, <3>2 DEF SelectionIsOne
    <3> QED BY <3>1, <3>2
  <2>8. isAllChecked => listOfUAIdToInclude = {} /\ listOfUAIdToExclude \subseteq Shown(pages')
    BY <2>3, <2>4, <2>6 DEF SelectionIsOne
  <2>9. isAllChecked => itemNotSelected = Cardinality(listOfUAIdToExclude)
    BY <2>3, <2>6 DEF SelectionIsOne
  <2>10. ~ isAllChecked => listOfUAIdToExclude = {} /\ ~ isIndeterminate
    BY <2>3, <2>6 DEF SelectionIsOne
  <2>11. selectedItemCount' = IF isAllChecked THEN totalResults' - Cardinality(listOfUAIdToExclude)
                              ELSE Cardinality(listOfUAIdToInclude)
    BY <1>2, <2>3, <2>6, <2>9 DEF SelectionIsOne
  <2>12. SelectionIsOne'
    BY <1>1, <2>7, <2>8, <2>9, <2>10, <2>11, Zenon DEF SelectionIsOne
  <2>13. listOfUAIdToInclude' \subseteq Shown(pages')
    BY <1>1, <2>3, <2>4 DEF SelectionInv
  <2> QED BY <2>2, <2>12, <2>13, Zenon DEF SelectionInv
<1> QED BY <1>10, <1>11

\* The exact count of the search follows the selection.
LEMMA SelectionInvCounted ==
  ASSUME TypeOK, SelectionInv, NEW c \in calls,
         LinkAnswered(c) \/ FacetsCountAnswered(c) \/ ActionCountAnswered(c)
  PROVE  SelectionInv'
<1>1. /\ UNCHANGED <<query, pages, boxVars>> /\ totalResults' = hits[c.q]
      /\ clean' => clean
  BY Zenon DEF LinkAnswered, FacetsCountAnswered, ActionCountAnswered, searchVars, listVars
<1>2. UNCHANGED <<isAllChecked, isIndeterminate, itemNotSelected, listOfUAIdToInclude, listOfUAIdToExclude, ticked>>
  BY <1>1, Zenon DEF boxVars
<1> SUFFICES ASSUME clean' PROVE SelectionInv'
  <2>1. ~ clean' => ~ Settled'
    BY DEF Settled
  <2> QED BY <2>1, Zenon DEF SelectionInv, SelectionIsOne
<1>3. ~ isAllChecked => selectedItemCount' = selectedItemCount
  BY Zenon DEF LinkAnswered, FacetsCountAnswered, ActionCountAnswered
<1>4. Settled /\ isAllChecked => selectedItemCount' = hits[c.q] - Cardinality(listOfUAIdToExclude)
  <2> SUFFICES ASSUME Settled, isAllChecked
               PROVE  selectedItemCount' = hits[c.q] - Cardinality(listOfUAIdToExclude)
    OBVIOUS
  <2>1. hits[c.q] \in Nat
    BY SizesAssumption DEF TypeOK, Call, Search
  <2>2. /\ itemNotSelected = Cardinality(listOfUAIdToExclude)
        /\ selectedItemCount = totalResults - Cardinality(listOfUAIdToExclude)
    BY DEF SelectionInv, SelectionIsOne
  <2>3. CASE LinkAnswered(c)
    <3>1. listOfUAIdToExclude = {}
      BY <2>3, Zenon DEF LinkAnswered
    <3>2. Cardinality(listOfUAIdToExclude) = 0
      BY <3>1, FS_EmptySet
    <3>3. selectedItemCount' = IF totalResults # hits[c.q] THEN hits[c.q] ELSE selectedItemCount
      BY <2>3, Zenon DEF LinkAnswered
    <3>4. totalResults \in Nat
      BY DEF TypeOK
    <3> HIDE DEF TypeOK
    <3> QED BY <2>1, <2>2, <3>2, <3>3, <3>4
  <2>4. ~ FacetsCountAnswered(c)
    BY Zenon DEF FacetsCountAnswered
  <2>5. CASE ActionCountAnswered(c)
    BY <2>2, <2>5, Zenon DEF ActionCountAnswered
  <2> QED BY <2>3, <2>4, <2>5
<1>5. Settled' => Settled
  BY <1>1, Zenon DEF Settled
<1>6. Shown(pages)' = Shown(pages)
  BY <1>1, Zenon DEF Shown
<1>7. ASSUME Settled' PROVE SelectionIsOne'
  <2>1. Settled /\ SelectionIsOne
    BY <1>5, <1>7, Zenon DEF SelectionInv
  <2>2. selectedItemCount' = IF isAllChecked THEN totalResults' - Cardinality(listOfUAIdToExclude)
                             ELSE Cardinality(listOfUAIdToInclude)
    BY <1>1, <1>3, <1>4, <2>1, Zenon DEF SelectionIsOne
  <2> QED BY <1>2, <1>6, <2>1, <2>2, Zenon DEF SelectionIsOne
<1>8. SelectionIsOne'
  BY <1>7, Zenon DEF SelectionIsOne
<1>9. clean /\ (pages' = <<>> => pages = <<>>)
  BY <1>1
<1> QED BY <1>2, <1>3, <1>5, <1>6, <1>8, <1>9, Zenon DEF SelectionInv

\* The box of the header selects all or nothing.
LEMMA SelectionInvParentBox ==
  ASSUME TypeOK, SelectionInv, CheckParentBox
  PROVE  SelectionInv'
<1>1. /\ UNCHANGED <<query, pages, totalResults>> /\ (clean' => clean)
      /\ isAllChecked' = ~ isAllChecked
      /\ selectedItemCount' = IF isAllChecked' THEN totalResults ELSE 0
      /\ isIndeterminate' = (isIndeterminate /\ isAllChecked')
      /\ itemNotSelected' = IF isAllChecked' THEN 0 ELSE itemNotSelected
      /\ ticked' = IF isAllChecked' THEN Shown(pages) ELSE {}
      /\ listOfUAIdToInclude' = {} /\ listOfUAIdToExclude' = {}
  BY Zenon DEF CheckParentBox, searchVars, listVars, countVars
<1>2. Cardinality(listOfUAIdToInclude') = 0 /\ Cardinality(listOfUAIdToExclude') = 0
  BY <1>1, FS_EmptySet
<1>3. Shown(pages)' = Shown(pages)
  BY <1>1, Zenon DEF Shown
<1>4. totalResults' - 0 = totalResults
  BY <1>1 DEF TypeOK
<1>5. Shown(pages) \ {} = Shown(pages) /\ {} \subseteq Shown(pages)
  OBVIOUS
<1>6. SelectionIsOne'
  BY <1>1, <1>2, <1>3, <1>4, <1>5, Zenon DEF SelectionIsOne
<1>7. pages = <<>> => Shown(pages) = {}
  BY DEF Shown
<1> QED BY <1>1, <1>3, <1>5, <1>6, <1>7, Zenon DEF SelectionInv

\* The boxes of the rows select one unit more or less.
LEMMA SelectionInvRow ==
  ASSUME TypeOK, ListInv, TotalInv, SelectionInv, NEW u \in Shown(pages), CheckChildrenBox(u)
  PROVE  SelectionInv'
<1>1. UNCHANGED <<query, pages, totalResults, isAllChecked>> /\ (clean' => clean)
  BY Zenon DEF CheckChildrenBox, ExcludeRow, TickRow, UntickRow, searchVars, listVars, countVars
<1>2. pages # <<>>
  BY DEF Shown
<1> SUFFICES ASSUME Settled PROVE SelectionInv'
  <2>1. Settled' => Settled
    BY <1>1, Zenon DEF Settled
  <2> QED BY <1>1, <1>2, <2>1, Zenon DEF SelectionInv, SelectionIsOne
<1>3. Shown(pages)' = Shown(pages)
  BY <1>1, Zenon DEF Shown
<1> DEFINE m == SmallerOf(hits[query], Threshold)
<1>4. query \in Search /\ hits[query] \in Nat
  <2>1. pages[1] \in Page /\ pages[1] = <<query, 0>>
    BY DEF Settled, TypeOK
  <2> QED BY <2>1, SizesAssumption DEF Page, Search
<1>5. IsFiniteSet(Shown(pages)) /\ Cardinality(Shown(pages)) <= m
  <2>1. \A k \in DOMAIN pages : pages[k][1] = query /\ Bounded(query, pages[k][2])
    BY DEF Settled, ListInv, PagesInOrder, TotalInv
  <2> QED BY <1>4, <2>1, ShownBounded DEF TypeOK
<1>6. m \in Nat /\ m <= totalResults /\ totalResults \in Nat
  BY <1>4, SizesAssumption DEF TotalInv, SmallerOf, TypeOK
<1> HIDE DEF m
<1>7. SelectionIsOne /\ listOfUAIdToInclude \subseteq Shown(pages)
  BY DEF SelectionInv
<1>8. IsFiniteSet(listOfUAIdToInclude) /\ Cardinality(listOfUAIdToInclude) \in Nat
  BY <1>5, <1>7, FS_Subset, FS_CardinalityType
<1>9. CASE isAllChecked
  <2>1. /\ ticked = Shown(pages) \ listOfUAIdToExclude
        /\ listOfUAIdToInclude = {} /\ listOfUAIdToExclude \subseteq Shown(pages)
        /\ itemNotSelected = Cardinality(listOfUAIdToExclude)
        /\ selectedItemCount = totalResults - Cardinality(listOfUAIdToExclude)
    BY <1>7, <1>9 DEF SelectionIsOne
  <2>2. IsFiniteSet(listOfUAIdToExclude) /\ Cardinality(listOfUAIdToExclude) \in Nat
    BY <1>5, <2>1, FS_Subset, FS_CardinalityType
  <2>3. CASE ExcludeRow(u)
    <3>1. /\ u \in ticked /\ ticked' = ticked \ {u}
          /\ listOfUAIdToExclude' = listOfUAIdToExclude \cup {u} /\ listOfUAIdToInclude' = {}
      BY <2>3, Zenon DEF ExcludeRow
    <3>2. u \notin listOfUAIdToExclude
      BY <2>1, <3>1
    <3>3. Cardinality(listOfUAIdToExclude') = Cardinality(listOfUAIdToExclude) + 1
      BY <2>2, <3>1, <3>2, FS_AddElement
    <3>4. Cardinality(listOfUAIdToExclude') <= Cardinality(Shown(pages))
      BY <1>5, <2>1, <3>1, FS_Subset
    <3>5. Cardinality(Shown(pages)) \in Nat
      BY <1>5, FS_CardinalityType
    <3>6. selectedItemCount > 0
      BY <1>5, <1>6, <2>1, <2>2, <3>3, <3>4, <3>5
    <3>7. selectedItemCount' = selectedItemCount - 1 /\ itemNotSelected' = itemNotSelected + 1
      BY <2>3, <3>6, Zenon DEF ExcludeRow
    <3>8. selectedItemCount' = totalResults - Cardinality(listOfUAIdToExclude')
      BY <1>6, <2>1, <2>2, <3>3, <3>7
    <3>9. ticked' = Shown(pages) \ listOfUAIdToExclude' /\ listOfUAIdToExclude' \subseteq Shown(pages)
      BY <2>1, <3>1
    <3>10. itemNotSelected' = Cardinality(listOfUAIdToExclude')
      BY <2>1, <3>3, <3>7, Zenon
    <3>11. SelectionIsOne'
      BY <1>1, <1>3, <1>9, <3>1, <3>8, <3>9, <3>10, Zenon DEF SelectionIsOne
    <3>12. listOfUAIdToInclude' \subseteq Shown(pages)'
      BY <3>1
    <3> QED BY <1>1, <1>2, <3>11, <3>12, Zenon DEF SelectionInv
  <2>4. CASE TickRow(u)
    <3>1. /\ u \notin ticked /\ ticked' = ticked \cup {u} /\ UNCHANGED listOfUAIdToInclude
          /\ listOfUAIdToExclude' = listOfUAIdToExclude \ {u}
          /\ selectedItemCount' = selectedItemCount + 1 /\ itemNotSelected' = itemNotSelected - 1
      BY <1>9, <2>4, Zenon DEF TickRow
    <3>2. u \in listOfUAIdToExclude
      BY <2>1, <3>1
    <3>3. Cardinality(listOfUAIdToExclude') = Cardinality(listOfUAIdToExclude) - 1
      BY <2>2, <3>1, <3>2, FS_RemoveElement
    <3>4. selectedItemCount' = totalResults - Cardinality(listOfUAIdToExclude')
      BY <1>6, <2>1, <2>2, <3>1, <3>3
    <3>5. ticked' = Shown(pages) \ listOfUAIdToExclude' /\ listOfUAIdToExclude' \subseteq Shown(pages)
      BY <2>1, <3>1
    <3>6. itemNotSelected' = Cardinality(listOfUAIdToExclude') /\ listOfUAIdToInclude' = {}
      BY <2>1, <3>1, <3>3, Zenon
    <3>7. SelectionIsOne'
      BY <1>1, <1>3, <1>9, <3>4, <3>5, <3>6, Zenon DEF SelectionIsOne
    <3>8. listOfUAIdToInclude' \subseteq Shown(pages)'
      BY <3>6
    <3> QED BY <1>1, <1>2, <3>7, <3>8, Zenon DEF SelectionInv
  <2> QED BY <1>9, <2>3, <2>4, Zenon DEF CheckChildrenBox, UntickRow
<1>10. CASE ~ isAllChecked
  <2>1. /\ ticked = listOfUAIdToInclude /\ listOfUAIdToExclude = {} /\ ~ isIndeterminate
        /\ selectedItemCount = Cardinality(listOfUAIdToInclude)
    BY <1>7, <1>10 DEF SelectionIsOne
  <2>2. CASE TickRow(u)
    <3>1. /\ u \notin ticked /\ ticked' = ticked \cup {u}
          /\ listOfUAIdToInclude' = listOfUAIdToInclude \cup {u} /\ listOfUAIdToExclude' = {}
          /\ selectedItemCount' = selectedItemCount + 1
      BY <1>10, <2>2, Zenon DEF TickRow
    <3>2. ~ isIndeterminate'
      BY <2>1, <2>2, Zenon DEF TickRow
    <3>3. Cardinality(listOfUAIdToInclude') = Cardinality(listOfUAIdToInclude) + 1
      BY <1>8, <2>1, <3>1, FS_AddElement
    <3>4. ticked' = listOfUAIdToInclude' /\ selectedItemCount' = Cardinality(listOfUAIdToInclude')
      BY <2>1, <3>1, <3>3, Zenon
    <3>5. SelectionIsOne'
      BY <1>1, <1>3, <1>10, <3>1, <3>2, <3>4, Zenon DEF SelectionIsOne
    <3>6. listOfUAIdToInclude' \subseteq Shown(pages)'
      BY <1>3, <1>7, <3>1
    <3> QED BY <1>1, <1>2, <3>5, <3>6, Zenon DEF SelectionInv
  <2>3. CASE UntickRow(u)
    <3>1. /\ u \in ticked /\ ticked' = ticked \ {u}
          /\ listOfUAIdToInclude' = listOfUAIdToInclude \ {u}
          /\ UNCHANGED <<isIndeterminate, listOfUAIdToExclude>>
      BY <2>3, Zenon DEF UntickRow
    <3>2. Cardinality(listOfUAIdToInclude') = Cardinality(listOfUAIdToInclude) - 1
      BY <1>8, <2>1, <3>1, FS_RemoveElement
    <3>3. Cardinality(listOfUAIdToInclude) # 0
      BY <1>8, <2>1, <3>1, FS_EmptySet
    <3>4. selectedItemCount > 0
      BY <1>8, <2>1, <3>3
    <3>5. selectedItemCount' = selectedItemCount - 1
      BY <2>3, <3>4, Zenon DEF UntickRow
    <3>6. ticked' = listOfUAIdToInclude' /\ selectedItemCount' = Cardinality(listOfUAIdToInclude')
      BY <2>1, <3>1, <3>2, <3>5, Zenon
    <3>7. SelectionIsOne'
      BY <1>1, <1>3, <1>10, <2>1, <3>1, <3>6, Zenon DEF SelectionIsOne
    <3>8. listOfUAIdToInclude' \subseteq Shown(pages)'
      BY <1>3, <1>7, <3>1
    <3> QED BY <1>1, <1>2, <3>7, <3>8, Zenon DEF SelectionInv
  <2> QED BY <1>10, <2>2, <2>3, Zenon DEF CheckChildrenBox, ExcludeRow
<1> QED BY <1>9, <1>10

\* Every step keeps SelectionInv.
LEMMA NextSelectionInv == TypeOK /\ ListInv /\ TotalInv /\ SelectionInv /\ [Next]_vars => SelectionInv'
<1> SUFFICES ASSUME TypeOK, ListInv, TotalInv, SelectionInv, [Next]_vars PROVE SelectionInv'
  OBVIOUS
<1>1. ASSUME NEW c \in calls, Ended(c) PROVE SelectionInv'
  <2>1. CASE PageFailed(c) \/ LinkFailed(c) \/ FacetsCountFailed(c) \/ ActionCountFailed(c)
    <3>1. UNCHANGED <<query, pages, totalResults, boxVars, selectedItemCount>>
      BY <2>1, Zenon DEF PageFailed, LinkFailed, FacetsCountFailed, ActionCountFailed, searchVars, listVars, countVars
    <3>2. clean' => clean
      BY <2>1, Zenon DEF PageFailed, LinkFailed, FacetsCountFailed, ActionCountFailed
    <3> QED BY <3>1, <3>2, SelectionInvUnchanged
  <2> QED BY <1>1, <2>1, SelectionInvCounted, SelectionInvPageAnswered DEF Ended
<1>2. CASE Quiet
  <2>1. CASE AddCriterion \/ ChangeOrder \/ LoadMore \/ LoadExactCount \/ LaunchFacetsComputing \/ Cancel
    <3>1. UNCHANGED <<query, pages, totalResults, boxVars, selectedItemCount, clean>>
      BY <2>1, Zenon DEF AddCriterion, ChangeOrder, LoadMore, LoadExactCount, LaunchFacetsComputing, Cancel,
                         searchVars, listVars, countVars
    <3> QED BY <3>1, SelectionInvUnchanged, Zenon
  <2>2. CASE RemoveLastCriterion \/ ClearCriteria
    BY <2>2, SelectionInvUnclean, Zenon DEF RemoveLastCriterion, ClearCriteria
  <2> QED BY <1>2, <2>1, <2>2, SelectionInvSubmit, SelectionInvParentBox, SelectionInvRow, Zenon
          DEF Quiet, ClickSearch, DebouncedSearch
<1>3. CASE LaunchBulkOperation \/ Confirm \/ UNCHANGED vars
  <2>1. UNCHANGED <<query, pages, totalResults, boxVars, selectedItemCount, clean>>
    BY <1>3, Zenon DEF LaunchBulkOperation, Confirm, vars, searchVars, listVars, countVars
  <2> QED BY <2>1, SelectionInvUnchanged, Zenon
<1> QED BY <1>1, <1>2, <1>3 DEF Next

-----------------------------------------------------------------------------
(* Bulk operations *)

\* The list prepared from a settled page designates as many units as the count.
LEMMA GoodSelection ==
  ASSUME TypeOK, Settled, SelectionIsOne, NEW count,
         isAllChecked => count = hits[query] - Cardinality(listOfUAIdToExclude),
         ~ isAllChecked => count = selectedItemCount
  PROVE  Good(PreparedList, count)
<1>1. query # 0
  <2>1. pages[1] \in Page /\ pages[1] = <<query, 0>>
    BY DEF Settled, TypeOK
  <2> QED BY <2>1 DEF Page, Search
<1>2. /\ PreparedList # None
      /\ PreparedList.q = query /\ PreparedList.criteria = (isAllChecked \/ isIndeterminate)
      /\ PreparedList.include = listOfUAIdToInclude /\ PreparedList.exclude = listOfUAIdToExclude
  BY <1>1 DEF PreparedList, None
<1>3. CASE isAllChecked
  BY <1>2, <1>3, Zenon DEF Good, Designated
<1>4. CASE ~ isAllChecked
  <2>1. ~ isIndeterminate /\ listOfUAIdToExclude = {} /\ count = Cardinality(listOfUAIdToInclude)
    BY <1>4, Zenon DEF SelectionIsOne
  <2> QED BY <1>2, <1>4, <2>1, Zenon DEF Good, Designated
<1> QED BY <1>3, <1>4

\* The number of ticked units, when it may be read, is the number designated.
LEMMA GoodToRead ==
  ASSUME TypeOK, TotalInv, SelectionInv, Settled, ShouldReadSelectedItemCount(waitingToGetFixedCount)
  PROVE  Good(PreparedList, selectedItemCount)
<1>1. SelectionIsOne
  BY DEF SelectionInv
<1>2. isAllChecked => selectedItemCount = hits[query] - Cardinality(listOfUAIdToExclude)
  <2> SUFFICES ASSUME isAllChecked PROVE selectedItemCount = hits[query] - Cardinality(listOfUAIdToExclude)
    OBVIOUS
  <2>1. totalResults = hits[query]
    BY Zenon DEF ShouldReadSelectedItemCount, TotalInv
  <2>2. selectedItemCount = totalResults - Cardinality(listOfUAIdToExclude)
    BY <1>1, Zenon DEF SelectionIsOne
  <2> QED BY <2>1, <2>2, Zenon
<1> QED BY <1>1, <1>2, GoodSelection

\* The number of ticked units is the number a good list designates.
LEMMA CountIsChecked ==
  ASSUME TypeOK, Settled, SelectionIsOne, isAllChecked => totalResults = hits[query],
         NEW n, Good(PreparedList, n)
  PROVE  selectedItemCount = n
<1>1. /\ PreparedList.q = query /\ PreparedList.criteria = (isAllChecked \/ isIndeterminate)
      /\ PreparedList.include = listOfUAIdToInclude /\ PreparedList.exclude = listOfUAIdToExclude
  BY DEF PreparedList, Good
<1>2. n = IF isAllChecked \/ isIndeterminate THEN hits[query] - Cardinality(listOfUAIdToExclude)
          ELSE Cardinality(listOfUAIdToInclude)
  BY <1>1, Zenon DEF Good, Designated
<1>3. CASE isAllChecked
  <2>1. selectedItemCount = totalResults - Cardinality(listOfUAIdToExclude)
    BY <1>3, Zenon DEF SelectionIsOne
  <2> QED BY <1>2, <1>3, <2>1, Zenon
<1>4. CASE ~ isAllChecked
  BY <1>2, <1>4, Zenon DEF SelectionIsOne
<1> QED BY <1>3, <1>4

\* What Compare launches, or asks to confirm, was compared just now and is
\* within the threshold that applies.
LEMMA CompareWithin ==
  ASSUME TypeOK, NEW count \in Int, NEW waiting \in BOOLEAN, NEW settled \in BOOLEAN,
         Compare(count, waiting, settled),
         settled /\ ShouldReadSelectedItemCount(waiting) => Good(PreparedList, count)
  PROVE  /\ listOfUACriteriaSearch' = PreparedList
         /\ OperationWithinThreshold'
         /\ \/ dialogs' = dialogs
            \/ \E request \in Request :
                 /\ dialogs' = Append(dialogs, request)
                 /\ ShouldReadSelectedItemCount(waiting)
                 /\ WithinThreshold(request.checked) /\ request.search = submits
                 /\ request.settled => settled /\ Good(PreparedList, request.checked)
<1> DEFINE allowed == IF BulkThreshold # -1 THEN count <= BulkThreshold ELSE count <= DefaultThreshold
           go == ShouldReadSelectedItemCount(waiting) /\ count > 0 /\ allowed
           request == [checked |-> count, search |-> submits, settled |-> settled]
           launched == [checked |-> count, count |-> count, list |-> PreparedList,
                        reread |-> FALSE, crossed |-> FALSE, settled |-> settled]
<1>1. /\ request.checked = count /\ request.search = submits /\ request.settled = settled
      /\ count > 0 => request \in Request
  BY SizesAssumption DEF Request, TypeOK
<1>2. /\ launched.checked = count /\ launched.count = count /\ launched.list = PreparedList
      /\ ~ launched.crossed /\ launched.settled = settled
  OBVIOUS
<1>3. go => WithinThreshold(count) /\ count > 0 /\ ShouldReadSelectedItemCount(waiting)
            /\ (settled => Good(PreparedList, count))
  BY DEF WithinThreshold
<1>4. /\ listOfUACriteriaSearch' = PreparedList
      /\ dialogs' = IF go /\ count > DefaultThreshold THEN Append(dialogs, request) ELSE dialogs
      /\ operation' = IF go /\ count <= DefaultThreshold THEN launched ELSE None
  BY Zenon DEF Compare
<1> HIDE DEF go, request, launched
<1>5. OperationWithinThreshold'
  <2>1. CASE operation' = None
    BY <2>1 DEF OperationWithinThreshold
  <2>2. CASE go /\ operation' = launched
    <3>1. WithinThreshold(operation'.checked) /\ ~ operation'.crossed
          /\ operation'.count = operation'.checked
          /\ (operation'.settled => Good(operation'.list, operation'.checked))
      BY <1>2, <1>3, <2>2, Zenon
    <3> QED BY <3>1, Zenon DEF OperationWithinThreshold, WithinThreshold, Good, Designated
  <2> QED BY <1>4, <2>1, <2>2, Zenon
<1>6. CASE dialogs' = dialogs
  BY <1>4, <1>5, <1>6
<1>7. CASE go /\ dialogs' = Append(dialogs, request)
  BY <1>1, <1>3, <1>4, <1>5, <1>7, Zenon
<1> QED BY <1>4, <1>6, <1>7, Zenon

\* A dialog stays right as long as the selection and the list stay.
LEMMA DialogAgreesUnchanged ==
  ASSUME NEW d, DialogAgrees(d),
         UNCHANGED <<submits, query, isAllChecked, isIndeterminate, listOfUAIdToInclude,
                     listOfUAIdToExclude, listOfUACriteriaSearch>>,
         armed' => armed, clean' => clean,
         \A c \in calls' : c.kind = "action" => c \in calls,
         ~ isAllChecked => selectedItemCount' = selectedItemCount,
         clean' /\ Settled => Settled' /\ (isAllChecked /\ totalResults = hits[query] => totalResults' = hits[query])
  PROVE  DialogAgrees(d)'
<1>1. PreparedList' = PreparedList
  BY DEF PreparedList
<1>2. \A list, n : Good(list, n)' = Good(list, n)
  BY Zenon DEF Good, Designated
<1>3. WithinThreshold(d.checked)' /\ d.search <= submits'
  BY DEF DialogAgrees, WithinThreshold
<1>4. ASSUME d.search = submits', d.settled
      PROVE  /\ PreparedList' = listOfUACriteriaSearch' /\ Good(PreparedList, d.checked)
             /\ clean' => Settled' /\ (isAllChecked' => totalResults' = hits[query'])
  BY <1>1, <1>4, Zenon DEF DialogAgrees
<1>5. ASSUME d.search # submits' PROVE SelectionCleared'
  BY <1>5, Zenon DEF DialogAgrees, SelectionCleared
<1>6. ASSUME d.search # submits', d.settled
      PROVE  /\ ~ armed'
             /\ \A c \in calls' : c.kind = "action" => c.q # query'
             /\ clean' => Good(listOfUACriteriaSearch, d.checked)
  BY <1>6, Zenon DEF DialogAgrees
<1>7. (Good(PreparedList, d.checked) => Good(PreparedList, d.checked)')
      /\ (Good(listOfUACriteriaSearch, d.checked) => Good(listOfUACriteriaSearch, d.checked)')
  BY <1>1, Zenon DEF Good, Designated
<1> QED BY <1>3, <1>4, <1>5, <1>6, <1>7, Zenon DEF DialogAgrees

\* The same for all the dialogs, when none is opened and the top one may close.
LEMMA DialogInvUnchanged ==
  ASSUME DialogInv,
         \A k \in DOMAIN dialogs' : k \in DOMAIN dialogs /\ dialogs'[k] = dialogs[k],
         UNCHANGED <<submits, query, isAllChecked, isIndeterminate, listOfUAIdToInclude,
                     listOfUAIdToExclude, listOfUACriteriaSearch>>,
         armed' => armed, clean' => clean,
         \A c \in calls' : c.kind = "action" => c \in calls,
         ~ isAllChecked => selectedItemCount' = selectedItemCount,
         clean' /\ Settled => Settled' /\ (isAllChecked /\ totalResults = hits[query] => totalResults' = hits[query])
  PROVE  DialogInv'
<1>1. \A d : DialogAgrees(d) => DialogAgrees(d)'
  BY DialogAgreesUnchanged
<1> SUFFICES ASSUME NEW k \in DOMAIN dialogs', NEW d, d = dialogs'[k]
             PROVE  DialogAgrees(d)'
  BY Zenon DEF DialogInv
<1>2. DialogAgrees(d)
  BY Zenon DEF DialogInv
<1> QED BY <1>1, <1>2

\* A debounced search clears the selection and leaves the list of the dialogs.
LEMMA DialogInvSearch ==
  ASSUME TypeOK, DialogInv, DebouncedSearch
  PROVE  DialogInv'
<1>1. /\ UNCHANGED <<listOfUACriteriaSearch, dialogs>> /\ armed /\ armed' = FALSE
      /\ submits' = submits + 1 /\ query' \in {0, submits + 1}
      /\ ~ isAllChecked' /\ ~ isIndeterminate' /\ selectedItemCount' = 0
      /\ listOfUAIdToInclude' = {} /\ listOfUAIdToExclude' = {}
  BY Zenon DEF DebouncedSearch, Submit
<1>2. \A c \in calls' : c.kind = "action" => c.q # query'
  <2>1. \A c \in calls' : c.kind = "action" => c \in calls
    BY DEF DebouncedSearch, Submit, Send
  <2>2. \A c \in calls : c.q # 0 /\ c.q # submits + 1
    BY SizesAssumption DEF TypeOK, Call, Search
  <2> QED BY <1>1, <2>1, <2>2
<1> SUFFICES ASSUME NEW k \in DOMAIN dialogs, NEW d, d = dialogs[k]
             PROVE  DialogAgrees(d)'
  BY <1>1, Zenon DEF DialogInv
<1>3. DialogAgrees(d) /\ d \in Request
  BY DEF DialogInv, TypeOK
<1>4. WithinThreshold(d.checked) /\ d.search <= submits' /\ d.search # submits'
  <2>1. WithinThreshold(d.checked) /\ d.search <= submits
    BY <1>3, Zenon DEF DialogAgrees
  <2> QED BY <1>1, <1>3, <2>1 DEF TypeOK, Request
<1>5. d.settled => Good(listOfUACriteriaSearch, d.checked)
  BY <1>1, <1>3, Zenon DEF DialogAgrees
<1>6. /\ SelectionCleared' /\ WithinThreshold(d.checked)'
      /\ d.settled => Good(listOfUACriteriaSearch, d.checked)'
  BY <1>1, <1>4, <1>5, Zenon DEF SelectionCleared, WithinThreshold, Good, Designated
<1> QED BY <1>1, <1>2, <1>4, <1>6, Zenon DEF DialogAgrees

\* Comparing keeps the dialogs right and what is launched within the threshold.
LEMMA DialogInvCompare ==
  ASSUME TypeOK, DialogInv, NEW count \in Int, NEW waiting \in BOOLEAN, NEW settled \in BOOLEAN,
         Compare(count, waiting, settled),
         settled /\ ShouldReadSelectedItemCount(waiting) =>
           /\ Good(PreparedList, count) /\ (clean' => Settled')
           /\ isAllChecked => totalResults' = hits[query],
         UNCHANGED <<submits, query, isAllChecked, isIndeterminate, listOfUAIdToInclude,
                     listOfUAIdToExclude, armed>>,
         calls' \subseteq calls, clean' => clean,
         ~ isAllChecked => selectedItemCount' = selectedItemCount,
         clean' /\ Settled => Settled' /\ (isAllChecked /\ totalResults = hits[query] => totalResults' = hits[query]),
         dialogs = <<>> \/ (clean' => \E c \in calls : c.kind = "action" /\ c.q = query)
  PROVE  DialogInv' /\ OperationWithinThreshold'
<1>1. PreparedList' = PreparedList
  BY DEF PreparedList
<1>2. /\ listOfUACriteriaSearch' = PreparedList
      /\ OperationWithinThreshold'
      /\ \/ dialogs' = dialogs
         \/ \E request \in Request :
              /\ dialogs' = Append(dialogs, request)
              /\ ShouldReadSelectedItemCount(waiting)
              /\ WithinThreshold(request.checked) /\ request.search = submits
              /\ request.settled => settled /\ Good(PreparedList, request.checked)
  BY CompareWithin
<1>3. ASSUME NEW k \in DOMAIN dialogs, NEW d, d = dialogs[k] PROVE DialogAgrees(d)'
  <2>1. DialogAgrees(d) /\ dialogs # <<>>
    BY <1>3 DEF DialogInv
  <2>2. clean' => \E c \in calls : c.kind = "action" /\ c.q = query
    BY <2>1
  <2>3. WithinThreshold(d.checked)' /\ d.search <= submits'
    BY <2>1 DEF DialogAgrees, WithinThreshold
  <2>4. ASSUME d.search = submits', d.settled
        PROVE  /\ Good(PreparedList, d.checked)
               /\ clean' => Settled' /\ (isAllChecked' => totalResults' = hits[query'])
    BY <2>1, <2>4, Zenon DEF DialogAgrees
  <2>5. ASSUME d.search # submits' PROVE SelectionCleared'
    BY <2>1, <2>5, Zenon DEF DialogAgrees, SelectionCleared
  <2>6. ASSUME d.search # submits', d.settled
        PROVE  ~ armed' /\ (\A c \in calls' : c.kind = "action" => c.q # query') /\ ~ clean'
    BY <2>1, <2>2, <2>6, Zenon DEF DialogAgrees
  <2>7. Good(PreparedList, d.checked) => Good(PreparedList, d.checked)'
    BY <1>1, Zenon DEF Good, Designated
  <2> QED BY <1>1, <1>2, <2>3, <2>4, <2>5, <2>6, <2>7, Zenon DEF DialogAgrees
<1>4. CASE dialogs' = dialogs
  <2> SUFFICES ASSUME NEW k \in DOMAIN dialogs, NEW d, d = dialogs[k] PROVE DialogAgrees(d)'
    BY <1>2, <1>4, Zenon DEF DialogInv
  <2> QED BY <1>3
<1>5. ASSUME NEW request \in Request,
             dialogs' = Append(dialogs, request),
             ShouldReadSelectedItemCount(waiting),
             WithinThreshold(request.checked), request.search = submits,
             request.settled => settled /\ Good(PreparedList, request.checked)
      PROVE  DialogInv'
  <2>1. DialogAgrees(request)'
    <3>1. WithinThreshold(request.checked)' /\ request.search = submits' /\ request.search <= submits'
      BY <1>5 DEF WithinThreshold, TypeOK
    <3>2. ASSUME request.settled
          PROVE  /\ Good(PreparedList, request.checked)
                 /\ clean' => Settled' /\ (isAllChecked' => totalResults' = hits[query'])
      BY <1>5, <3>2, Zenon
    <3>3. Good(PreparedList, request.checked) => Good(PreparedList, request.checked)'
      BY <1>1, Zenon DEF Good, Designated
    <3> QED BY <1>1, <1>2, <3>1, <3>2, <3>3, Zenon DEF DialogAgrees
  <2>2. \A k \in DOMAIN dialogs' : dialogs'[k] = request \/ (k \in DOMAIN dialogs /\ dialogs'[k] = dialogs[k])
    BY <1>5 DEF TypeOK
  <2> SUFFICES ASSUME NEW k \in DOMAIN dialogs', NEW d, d = dialogs'[k] PROVE DialogAgrees(d)'
    BY Zenon DEF DialogInv
  <2>3. CASE d = request
    BY <2>1, <2>3
  <2>4. CASE k \in DOMAIN dialogs /\ d = dialogs[k]
    BY <1>3, <2>4
  <2> QED BY <2>2, <2>3, <2>4
<1> QED BY <1>2, <1>4, <1>5, Zenon

\* Launching an operation compares what is ticked.
LEMMA DialogInvLaunch ==
  ASSUME TypeOK, TotalInv, SelectionInv, DialogInv, LaunchBulkOperation
  PROVE  DialogInv' /\ OperationWithinThreshold'
<1>1. /\ dialogs = <<>>
      /\ UNCHANGED <<searchVars, pages, totalResults, waitingToGetFixedCount, boxVars, selectedItemCount, clean>>
  BY Zenon DEF LaunchBulkOperation, AtTable, AtPage, listVars, countVars
<1>2. UNCHANGED <<submits, query, isAllChecked, isIndeterminate, listOfUAIdToInclude, listOfUAIdToExclude, armed>>
  BY <1>1, Zenon DEF boxVars, searchVars
<1>3. CASE Compare(selectedItemCount, waitingToGetFixedCount, Settled) /\ UNCHANGED calls
  <2>1. Settled \in BOOLEAN /\ selectedItemCount \in Int /\ waitingToGetFixedCount \in BOOLEAN
    BY DEF Settled, TypeOK
  <2>2. Settled' = Settled
    BY <1>1, <1>2, Zenon DEF Settled
  <2>3. ASSUME Settled, ShouldReadSelectedItemCount(waitingToGetFixedCount)
        PROVE  /\ Good(PreparedList, selectedItemCount) /\ (clean' => Settled')
               /\ isAllChecked => totalResults' = hits[query]
    <3>1. Good(PreparedList, selectedItemCount)
      BY <2>3, GoodToRead
    <3>2. isAllChecked => totalResults = hits[query]
      BY <2>3, Zenon DEF ShouldReadSelectedItemCount, TotalInv
    <3> QED BY <1>1, <2>2, <2>3, <3>1, <3>2, Zenon
  <2>4. calls' \subseteq calls
    BY <1>3
  <2> QED BY <1>1, <1>2, <1>3, <2>1, <2>2, <2>3, <2>4, DialogInvCompare
<1>4. CASE operation' = None /\ UNCHANGED dialogs
  BY <1>1, <1>4 DEF DialogInv, OperationWithinThreshold
<1> QED BY <1>3, <1>4, Zenon DEF LaunchBulkOperation

\* The end of the count of an operation compares what is ticked then.
LEMMA DialogInvActionCount ==
  ASSUME TypeOK, TotalInv, SelectionInv, DialogInv, NEW c \in calls,
         ActionCountAnswered(c) \/ ActionCountFailed(c)
  PROVE  DialogInv' /\ OperationWithinThreshold'
<1>1. /\ UNCHANGED <<submits, query, isAllChecked, isIndeterminate, listOfUAIdToInclude, listOfUAIdToExclude, armed>>
      /\ UNCHANGED pages
      /\ calls' = calls \ {c} /\ c.kind = "action"
  BY Zenon DEF ActionCountAnswered, ActionCountFailed, boxVars, searchVars, listVars
<1>2. clean' => clean /\ c.q = query
  BY Zenon DEF ActionCountAnswered, ActionCountFailed
<1>3. clean' => \E d \in calls : d.kind = "action" /\ d.q = query
  BY <1>1, <1>2
<1>4. ~ isAllChecked => selectedItemCount' = selectedItemCount
  BY Zenon DEF ActionCountAnswered, ActionCountFailed
<1>5. clean' /\ Settled => Settled'
  BY <1>1, Zenon DEF Settled
<1>6. clean' /\ Settled => Settled' /\ (isAllChecked /\ totalResults = hits[query] => totalResults' = hits[query])
  BY <1>2, <1>5, Zenon DEF ActionCountAnswered, ActionCountFailed, countVars
<1> DEFINE settled == Settled /\ c.q = query
<1>7. settled \in BOOLEAN /\ (settled => Settled /\ c.q = query) /\ calls' \subseteq calls
  BY <1>1
<1>8. CASE ActionCountAnswered(c)
  <2>1. selectedItemCount' \in Int /\ FALSE \in BOOLEAN
    <3>1. selectedItemCount' \in {selectedItemCount, hits[c.q] - itemNotSelected}
      BY <1>8, Zenon DEF ActionCountAnswered
    <3>2. hits[c.q] \in Nat
      BY SizesAssumption DEF TypeOK, Call, Search
    <3> QED BY <3>1, <3>2 DEF TypeOK
  <2>2. ASSUME settled
        PROVE  /\ Good(PreparedList, selectedItemCount') /\ (clean' => Settled')
               /\ isAllChecked => totalResults' = hits[query]
    <3>1. SelectionIsOne /\ Settled /\ c.q = query
      BY <1>7, <2>2 DEF SelectionInv
    <3>2. isAllChecked => selectedItemCount' = hits[query] - Cardinality(listOfUAIdToExclude)
      BY <1>8, <3>1, Zenon DEF ActionCountAnswered, SelectionIsOne
    <3>3. Good(PreparedList, selectedItemCount')
      BY <1>4, <3>1, <3>2, GoodSelection
    <3>4. totalResults' = hits[query]
      BY <1>8, <3>1, Zenon DEF ActionCountAnswered
    <3> QED BY <1>5, <3>1, <3>3, <3>4, Zenon
  <2>3. Compare(selectedItemCount', FALSE, settled)
    BY <1>8, Zenon DEF ActionCountAnswered
  <2> HIDE DEF settled
  <2> QED BY <1>1, <1>2, <1>3, <1>4, <1>6, <1>7, <2>1, <2>2, <2>3, DialogInvCompare
<1>9. CASE ActionCountFailed(c)
  <2>1. selectedItemCount \in Int /\ waitingToGetFixedCount \in BOOLEAN
    BY DEF TypeOK
  <2>2. ASSUME settled, ShouldReadSelectedItemCount(waitingToGetFixedCount)
        PROVE  /\ Good(PreparedList, selectedItemCount) /\ (clean' => Settled')
               /\ isAllChecked => totalResults' = hits[query]
    <3>1. Settled /\ Good(PreparedList, selectedItemCount)
      BY <1>7, <2>2, GoodToRead
    <3>2. totalResults' = totalResults
      BY <1>9, Zenon DEF ActionCountFailed, countVars
    <3>3. isAllChecked => totalResults = hits[query]
      BY <2>2, <3>1, Zenon DEF ShouldReadSelectedItemCount, TotalInv
    <3> QED BY <1>5, <3>1, <3>2, <3>3, Zenon
  <2>3. Compare(selectedItemCount, waitingToGetFixedCount, settled)
    BY <1>9, Zenon DEF ActionCountFailed
  <2> HIDE DEF settled
  <2> QED BY <1>1, <1>2, <1>3, <1>4, <1>6, <1>7, <2>1, <2>2, <2>3, DialogInvCompare
<1> QED BY <1>8, <1>9

\* The other answers leave what is under the dialogs: a page or a count of the
\* search shown agrees with what is known of it already.
LEMMA DialogInvAnswer ==
  ASSUME TypeOK, ListInv, DialogInv, NEW c \in calls,
         PageAnswered(c) \/ PageFailed(c) \/ LinkAnswered(c) \/ LinkFailed(c)
           \/ FacetsCountAnswered(c) \/ FacetsCountFailed(c)
  PROVE  DialogInv'
<1>1. /\ UNCHANGED <<submits, query, armed, isAllChecked, isIndeterminate, listOfUAIdToInclude,
                     listOfUAIdToExclude, listOfUACriteriaSearch, dialogs>>
      /\ calls' = calls \ {c}
  BY Zenon DEF PageAnswered, PageFailed, LinkAnswered, LinkFailed, FacetsCountAnswered,
               FacetsCountFailed, searchVars, boxVars
<1>2. clean' => clean
  BY Zenon DEF PageAnswered, PageFailed, LinkAnswered, LinkFailed, FacetsCountAnswered, FacetsCountFailed
<1>3. ~ isAllChecked => selectedItemCount' = selectedItemCount
  BY Zenon DEF PageAnswered, PageFailed, LinkAnswered, LinkFailed, FacetsCountAnswered, FacetsCountFailed
<1>4. ASSUME clean', Settled
      PROVE  Settled' /\ (isAllChecked /\ totalResults = hits[query] => totalResults' = hits[query])
  <2>1. pages # <<>> /\ pages[1] = <<query, 0>> /\ clean /\ query # 0
    <3>1. pages # <<>> /\ pages[1] = <<query, 0>> /\ clean
      BY <1>4, Zenon DEF Settled
    <3> QED BY <3>1 DEF TypeOK, Page, Search
  <2>2. CASE PageAnswered(c)
    <3>1. c.kind = "page" /\ c.q = query
      BY <1>4, <2>2, Zenon DEF PageAnswered
    <3>2. currentPage # 0
      <4> SUFFICES ASSUME currentPage = 0 PROVE FALSE
        OBVIOUS
      <4>1. submitted /\ c.p = 0
        BY <2>1, <3>1, Zenon DEF ListInv
      <4>2. {pages[k][2] : k \in DOMAIN pages} =
              0..currentPage \ (failed \cup {d.p : d \in {e \in calls : e.kind = "page" /\ e.q = query}})
        <5> QED BY <2>1, <4>1, Zenon DEF ListInv, PagesInOrder
      <4>3. 0 \in {d.p : d \in {e \in calls : e.kind = "page" /\ e.q = query}}
        BY <3>1, <4>1
      <4>4. 1 \in DOMAIN pages /\ pages[1][2] = 0
        BY <2>1 DEF TypeOK
      <4> QED BY <4>2, <4>3, <4>4
    <3>3. pages' = Append(pages, <<c.q, c.p>>) /\ totalResults' = totalResults
      BY <2>2, <3>2, Zenon DEF PageAnswered
    <3>4. pages' # <<>> /\ pages'[1] = <<query, 0>>
      BY <2>1, <3>3 DEF TypeOK
    <3> QED BY <1>1, <1>4, <3>3, <3>4, Zenon DEF Settled
  <2>3. CASE ~ PageAnswered(c)
    <3>1. pages' = pages
      BY <2>3, Zenon DEF PageFailed, LinkAnswered, LinkFailed, FacetsCountAnswered, FacetsCountFailed, listVars
    <3>2. totalResults' \in {totalResults, hits[c.q]}
          /\ (totalResults' = totalResults \/ c.q = query)
      BY <1>4, <2>3, Zenon DEF PageFailed, LinkAnswered, LinkFailed, FacetsCountAnswered, FacetsCountFailed, countVars
    <3> QED BY <1>1, <1>4, <2>1, <3>1, <3>2 DEF Settled
  <2> QED BY <2>2, <2>3
<1>5. \A d \in calls' : d.kind = "action" => d \in calls
  BY <1>1
<1>6. \A k \in DOMAIN dialogs' : k \in DOMAIN dialogs /\ dialogs'[k] = dialogs[k]
  BY <1>1
<1> QED BY <1>1, <1>2, <1>3, <1>4, <1>5, <1>6, DialogInvUnchanged

\* Closing a dialog, and a step that changes nothing, leave the others as they are.
LEMMA DialogInvClosed ==
  ASSUME TypeOK, DialogInv, dialogs' = dialogs \/ (dialogs # <<>> /\ dialogs' = Covered),
         UNCHANGED <<searchVars, pages, totalResults, boxVars, selectedItemCount,
                     listOfUACriteriaSearch, calls, clean>>
  PROVE  DialogInv'
<1>1. \A k \in DOMAIN dialogs' : k \in DOMAIN dialogs /\ dialogs'[k] = dialogs[k]
  BY CoveredDialogs, Zenon DEF TypeOK
<1>2. UNCHANGED <<submits, query, armed, isAllChecked, isIndeterminate, listOfUAIdToInclude,
                  listOfUAIdToExclude, listOfUACriteriaSearch, selectedItemCount, pages, totalResults, calls, clean>>
  BY Zenon DEF searchVars, boxVars
<1>3. Settled' = Settled
  BY <1>2 DEF Settled
<1> QED BY <1>1, <1>2, <1>3, DialogInvUnchanged

\* What a dialog confirms: the operation is given what was compared, or nothing
\* is ticked any more.
LEMMA ConfirmWithin ==
  ASSUME TypeOK, SelectionInv, DialogInv, Confirm
  PROVE  OperationWithinThreshold'
<1>1. PICK reread \in BOOLEAN :
        operation' = [checked |-> TopDialog.checked, count |-> selectedItemCount,
                      list |-> IF reread THEN PreparedList ELSE listOfUACriteriaSearch,
                      reread |-> reread, crossed |-> TopDialog.search # submits,
                      settled |-> TopDialog.settled /\ clean]
  BY Zenon DEF Confirm
<1>2. PICK d : d = TopDialog
  OBVIOUS
<1>3. DialogAgrees(d)
  <2>1. Len(dialogs) \in DOMAIN dialogs
    BY CoveredDialogs, Zenon DEF Confirm, TypeOK
  <2> QED BY <1>2, <2>1, Zenon DEF DialogInv, TopDialog
<1>4. /\ operation'.checked = d.checked /\ operation'.count = selectedItemCount
      /\ operation'.list = IF reread THEN PreparedList ELSE listOfUACriteriaSearch
      /\ operation'.reread = reread /\ operation'.crossed = (d.search # submits)
      /\ operation'.settled = (d.settled /\ clean)
  BY <1>1, <1>2
<1>5. WithinThreshold(operation'.checked)
  BY <1>3, <1>4, Zenon DEF DialogAgrees
<1>6. ASSUME operation'.crossed
      PROVE  operation'.count = 0 /\ (operation'.reread => Empty(operation'.list))
  <2>1. SelectionCleared
    BY <1>3, <1>4, <1>6, Zenon DEF DialogAgrees
  <2>2. Empty(PreparedList)
    BY <2>1 DEF SelectionCleared, Empty, PreparedList
  <2> QED BY <1>4, <2>1, <2>2, Zenon DEF SelectionCleared
<1>7. ASSUME operation'.settled
      PROVE  /\ ~ operation'.crossed => operation'.count = operation'.checked
             /\ ~ (operation'.crossed /\ operation'.reread) => Good(operation'.list, operation'.checked)
  <2>1. CASE operation'.crossed
    <3>1. Good(listOfUACriteriaSearch, d.checked)
      BY <1>3, <1>4, <1>7, <2>1, Zenon DEF DialogAgrees
    <3> QED BY <1>4, <2>1, <3>1, Zenon
  <2>2. CASE ~ operation'.crossed
    <3>1. /\ PreparedList = listOfUACriteriaSearch /\ Good(PreparedList, d.checked)
          /\ Settled /\ (isAllChecked => totalResults = hits[query])
      BY <1>3, <1>4, <1>7, <2>2, Zenon DEF DialogAgrees
    <3>2. selectedItemCount = d.checked
      BY <3>1, CountIsChecked DEF SelectionInv
    <3> QED BY <1>4, <3>1, <3>2, Zenon
  <2> QED BY <2>1, <2>2
<1> QED BY <1>5, <1>6, <1>7, Zenon DEF OperationWithinThreshold, WithinThreshold, Empty, Good, Designated

\* Every step keeps the dialogs right and what is launched within the threshold.
LEMMA NextDialogInv ==
  TypeOK /\ ListInv /\ TotalInv /\ SelectionInv /\ DialogInv /\ OperationWithinThreshold /\ [Next]_vars
    => DialogInv' /\ OperationWithinThreshold'
<1> SUFFICES ASSUME TypeOK, ListInv, TotalInv, SelectionInv, DialogInv, OperationWithinThreshold, [Next]_vars
             PROVE  DialogInv' /\ OperationWithinThreshold'
  OBVIOUS
<1>1. operation' = None => OperationWithinThreshold'
  BY Zenon DEF OperationWithinThreshold
<1>2. dialogs' = <<>> => DialogInv'
  BY DEF DialogInv
<1>3. ASSUME NEW c \in calls, Ended(c) PROVE DialogInv' /\ OperationWithinThreshold'
  BY <1>1, <1>3, DialogInvActionCount, DialogInvAnswer DEF Ended
<1>4. CASE Quiet /\ operation' = None
  <2>1. CASE DebouncedSearch
    BY <1>1, <1>4, <2>1, DialogInvSearch
  <2>2. CASE Cancel
    <3>1. UNCHANGED <<searchVars, pages, totalResults, boxVars, selectedItemCount,
                      listOfUACriteriaSearch, calls, clean>>
          /\ dialogs # <<>> /\ dialogs' = Covered
      BY <2>2, Zenon DEF Cancel, listVars, countVars
    <3> QED BY <1>1, <1>4, <3>1, DialogInvClosed, Zenon
  <2>3. CASE AddCriterion \/ RemoveLastCriterion \/ ClearCriteria \/ ChangeOrder \/ ClickSearch \/ LoadMore
             \/ LoadExactCount \/ LaunchFacetsComputing \/ CheckParentBox
             \/ (\E u \in Shown(pages) : CheckChildrenBox(u))
    <3>1. dialogs' = <<>>
      BY <2>3, Zenon DEF AddCriterion, RemoveLastCriterion, ClearCriteria, ChangeOrder, ClickSearch, Submit,
                         LoadMore, LoadExactCount, LaunchFacetsComputing, CheckParentBox, CheckChildrenBox,
                         AtTable, AtPage
    <3> QED BY <1>1, <1>2, <1>4, <3>1, Zenon
  <2> QED BY <1>4, <2>1, <2>2, <2>3, Zenon DEF Quiet
<1>5. CASE LaunchBulkOperation
  BY <1>5, DialogInvLaunch
<1>6. CASE Confirm
  <2>1. UNCHANGED <<searchVars, pages, totalResults, boxVars, selectedItemCount,
                    listOfUACriteriaSearch, calls, clean>>
        /\ dialogs # <<>> /\ dialogs' = Covered
    BY <1>6, Zenon DEF Confirm, listVars, countVars
  <2> QED BY <1>6, <2>1, DialogInvClosed, ConfirmWithin, Zenon
<1>7. CASE UNCHANGED vars
  <2>1. UNCHANGED <<searchVars, pages, totalResults, boxVars, selectedItemCount,
                    listOfUACriteriaSearch, calls, clean, dialogs, operation>>
    BY <1>7, Zenon DEF vars, listVars, countVars
  <2>2. DialogInv'
    BY <2>1, DialogInvClosed, Zenon
  <2>3. OperationWithinThreshold'
    BY <2>1, Zenon DEF OperationWithinThreshold, WithinThreshold, Empty, Good, Designated
  <2> QED BY <2>2, <2>3
<1> QED BY <1>3, <1>4, <1>5, <1>6, <1>7 DEF Next

-----------------------------------------------------------------------------
(* The footer *)

\* From a page that leaves counted units after it, whole then, the number of
\* pages computed is beyond the next one.
LEMMA PagesBeyond ==
  ASSUME NEW q \in Search, NEW p \in Nat, (p + 1) * PageSize < SmallerOf(hits[q], Threshold)
  PROVE  p < PageNumbers(q, p) - 1
<1>1. hits[q] \in Nat /\ PageSize \in Nat /\ PageSize > 0 /\ Threshold \in Nat
  BY SizesAssumption DEF Search
<1> DEFINE first == p * PageSize
           end == (p + 1) * PageSize
           m == SmallerOf(hits[q], Threshold)
<1>2. first \in Nat /\ end \in Nat
  BY <1>1, ProductNat
<1>3. end = first + PageSize
  BY <1>1, Z3
<1>4. m \in Nat /\ m <= hits[q] /\ end < m
  <2>1. m \in Nat /\ m <= hits[q]
    BY <1>1 DEF SmallerOf
  <2> QED BY <2>1
<1>5. Cardinality(UnitsOf(q, p)) = PageSize
  <2>1. UnitsOf(q, p) = {<<q, i>> : i \in first .. SmallerOf(end, hits[q]) - 1}
    BY DEF UnitsOf
  <2> HIDE DEF first, end, m
  <2>2. SmallerOf(end, hits[q]) - 1 = end - 1
    BY <1>1, <1>2, <1>4 DEF SmallerOf
  <2>3. Cardinality({<<q, i>> : i \in first .. end - 1}) = IF first <= end - 1 THEN end - 1 - first + 1 ELSE 0
    <3>1. first \in Int /\ end - 1 \in Int
      BY <1>2
    <3> QED BY <3>1, PairsOf, Zenon
  <2>4. (IF first <= end - 1 THEN end - 1 - first + 1 ELSE 0) = PageSize
    BY <1>1, <1>2, <1>3
  <2> QED BY <2>1, <2>2, <2>3, <2>4, Zenon
<1>6. PageNumbers(q, p) = (m + PageSize - 1) \div PageSize
  <2>1. PageSize # 0
    BY <1>1
  <2> QED BY <1>5, <2>1, Zenon DEF PageNumbers, CeilDiv
<1> DEFINE n == (m + PageSize - 1) \div PageSize
<1>7. n \in Int /\ m + PageSize - 1 < (n + 1) * PageSize
  <2> HIDE DEF m
  <2> QED BY <1>1, <1>4, Z3
<1>8. p + 2 <= n
  <2> SUFFICES ASSUME n + 1 <= p + 2 PROVE FALSE
    BY <1>7
  <2> HIDE DEF n
  <2>1. (n + 1) * PageSize <= (p + 2) * PageSize
    BY <1>1, <1>7, ProductMonotone
  <2>2. (p + 2) * PageSize = end + PageSize
    BY <1>1, Z3
  <2> DEFINE a == (n + 1) * PageSize
             b == (p + 2) * PageSize
  <2>3. a \in Int
    BY <1>1, <1>7, Z3
  <2>4. a <= b /\ b = end + PageSize /\ m + PageSize - 1 < a
    BY <1>7, <2>1, <2>2
  <2> HIDE DEF a, b, end, m
  <2> QED BY <1>1, <1>2, <1>4, <2>3, <2>4
<1> HIDE DEF n, m
<1> QED BY <1>6, <1>7, <1>8 DEF n

\* A unit is on the page its number divided by the page size tells.
LEMMA UnitOnPage ==
  ASSUME NEW q \in Search, NEW i \in Nat, i < hits[q]
  PROVE  /\ i \div PageSize \in Nat
         /\ (i \div PageSize) * PageSize <= i
         /\ <<q, i>> \in UnitsOf(q, i \div PageSize)
<1>1. hits[q] \in Nat /\ PageSize \in Nat /\ PageSize > 0
  BY SizesAssumption DEF Search
<1> DEFINE k == i \div PageSize
           first == k * PageSize
           end == (k + 1) * PageSize
<1>2. k \in Nat /\ first <= i /\ i < end
  BY <1>1, Z3
<1>3. first \in Nat /\ end \in Nat
  BY <1>1, <1>2, ProductNat
<1>4. UnitsOf(q, k) = {<<q, j>> : j \in first .. SmallerOf(end, hits[q]) - 1}
  BY DEF UnitsOf
<1> HIDE DEF first, end
<1>5. i \in first .. SmallerOf(end, hits[q]) - 1
  BY <1>1, <1>2, <1>3 DEF SmallerOf
<1>6. <<q, i>> \in UnitsOf(q, k)
  BY <1>4, <1>5
<1> QED BY <1>2, <1>6 DEF first

\* When the number of pages computed from the last page ends there, the pages
\* up to it hold every unit that is counted.
LEMMA AllPagesShown ==
  ASSUME NEW q \in Search, NEW n \in Nat, ~ (n < PageNumbers(q, n) - 1),
         NEW s \in Seq(Page), \A k \in DOMAIN s : s[k][1] = q /\ Bounded(q, s[k][2]),
         {s[k][2] : k \in DOMAIN s} = 0..n
  PROVE  Shown(s) = {<<q, i>> : i \in 0 .. SmallerOf(hits[q], Threshold) - 1}
<1> DEFINE m == SmallerOf(hits[q], Threshold)
<1>1. hits[q] \in Nat /\ PageSize \in Nat /\ PageSize > 0 /\ m \in Nat /\ m <= hits[q]
  BY SizesAssumption DEF Search, SmallerOf
<1>2. ASSUME NEW k \in DOMAIN s, NEW u \in UnitsOf(q, s[k][2])
      PROVE  u \in {<<q, i>> : i \in 0 .. m - 1}
  <2>1. s[k][2] \in Nat
    BY DEF Page
  <2>2. u[1] = q /\ u[2] \in Nat /\ u = <<u[1], u[2]>>
    BY <2>1, UnitNumber
  <2>3. u[2] < m
    BY DEF Bounded
  <2> HIDE DEF m
  <2>4. u[2] \in 0 .. m - 1
    BY <1>1, <2>2, <2>3
  <2> QED BY <2>2, <2>4
<1>3. ASSUME NEW i \in 0 .. m - 1 PROVE <<q, i>> \in Shown(s)
  <2>1. i \in Nat /\ i < m /\ i < hits[q]
    BY <1>1
  <2> DEFINE r == i \div PageSize
  <2>2. r \in Nat /\ r * PageSize <= i /\ <<q, i>> \in UnitsOf(q, r)
    BY <2>1, UnitOnPage
  <2> HIDE DEF r
  <2>3. r <= n
    <3> SUFFICES ASSUME n + 1 <= r PROVE FALSE
      BY <2>2
    <3>1. (n + 1) * PageSize <= r * PageSize
      BY <1>1, <2>2, ProductMonotone
    <3> DEFINE end == (n + 1) * PageSize
               first == r * PageSize
    <3>2. end \in Nat /\ first \in Nat /\ end <= first /\ first <= i
      BY <1>1, <2>2, <3>1, ProductNat
    <3> HIDE DEF end, first, m
    <3>3. end < m
      BY <1>1, <2>1, <3>2
    <3> QED BY <3>3, PagesBeyond DEF end, m
  <2>4. PICK k \in DOMAIN s : s[k][2] = r
    BY <2>2, <2>3
  <2> QED BY <2>2, <2>4 DEF Shown
<1>4. Shown(s) \subseteq {<<q, i>> : i \in 0 .. m - 1}
  BY <1>2 DEF Shown
<1>5. {<<q, i>> : i \in 0 .. m - 1} \subseteq Shown(s)
  BY <1>3
<1> QED BY <1>4, <1>5

\* FooterInv depends on these fields and on the page calls only.
LEMMA FooterInvUnchanged ==
  ASSUME FooterInv, UNCHANGED <<query, failed, pageNumbers, currentPage, canLoadMore>>, clean' => clean,
         \A c \in calls : c.kind = "page" => c \in calls'
  PROVE  FooterInv'
<1>1. PageNumbers(query, currentPage)' = PageNumbers(query, currentPage)
  BY Zenon DEF PageNumbers, UnitsOf
<1> QED BY <1>1, Zenon DEF FooterInv

\* Scrolling leaves the footer as it is, or asks for a page.
LEMMA FooterInvLoadMore ==
  ASSUME TypeOK, ListInv, FooterInv, LoadMore
  PROVE  FooterInv'
<1>1. /\ UNCHANGED <<query, failed, pageNumbers, clean>>
      /\ canLoadMore' = (currentPage < pageNumbers - 1)
      /\ submitted /\ ~ pending
  BY Zenon DEF LoadMore, AtTable, searchVars
<1> SUFFICES ASSUME clean, query # 0, failed = {}, \A c \in calls' : c.kind = "page" => c.q # query
             PROVE  pageNumbers' = PageNumbers(query, currentPage)' /\ canLoadMore' = (currentPage < pageNumbers - 1)'
  BY <1>1, Zenon DEF FooterInv
<1>2. UNCHANGED <<currentPage, calls>>
  <2> SUFFICES ASSUME Send("page", query, currentPage + 1) PROVE FALSE
    BY DEF LoadMore
  <2> DEFINE new == [id |-> NextId, kind |-> "page", q |-> query, p |-> currentPage + 1]
  <2>1. new \in calls' /\ new.kind = "page" /\ new.q = query
    BY DEF Send
  <2> QED BY <2>1
<1>3. pageNumbers = PageNumbers(query, currentPage)
  BY <1>2 DEF FooterInv
<1>4. PageNumbers(query, currentPage)' = PageNumbers(query, currentPage)
  BY <1>1, <1>2, Zenon DEF PageNumbers, UnitsOf
<1> QED BY <1>1, <1>2, <1>3, <1>4

\* The page that is answered is the one the footer counts from.
LEMMA FooterInvPageAnswered ==
  ASSUME TypeOK, ListInv, NEW c \in calls, PageAnswered(c)
  PROVE  FooterInv'
<1>1. /\ UNCHANGED <<query, currentPage>> /\ calls' = calls \ {c} /\ c.kind = "page"
      /\ clean' => clean /\ c.q = query
      /\ pageNumbers' = PageNumbers(c.q, c.p)
      /\ canLoadMore' = (currentPage < pageNumbers' - 1)
  BY Zenon DEF PageAnswered, searchVars
<1>2. clean' /\ query' # 0 => c.p = currentPage
  BY <1>1 DEF ListInv
<1>3. PageNumbers(query, currentPage)' = PageNumbers(query, currentPage)
  BY <1>1, Zenon DEF PageNumbers, UnitsOf
<1> QED BY <1>1, <1>2, <1>3, Zenon DEF FooterInv

\* Every step keeps FooterInv.
LEMMA NextFooterInv == TypeOK /\ ListInv /\ FooterInv /\ [Next]_vars => FooterInv'
<1> SUFFICES ASSUME TypeOK, ListInv, FooterInv, [Next]_vars PROVE FooterInv'
  OBVIOUS
<1>1. ASSUME UNCHANGED <<query, listVars>>, clean' => clean,
             \A c \in calls : c.kind = "page" => c \in calls'
      PROVE  FooterInv'
  BY <1>1, FooterInvUnchanged, Zenon DEF listVars
<1>2. ASSUME clean' = FALSE PROVE FooterInv'
  BY <1>2 DEF FooterInv
<1>3. ASSUME NEW c \in calls, Ended(c) PROVE FooterInv'
  <2>1. CASE PageFailed(c)
    <3>1. clean' => failed' # {}
      BY <2>1 DEF PageFailed
    <3> QED BY <3>1 DEF FooterInv
  <2>2. CASE \/ LinkAnswered(c) \/ LinkFailed(c) \/ FacetsCountAnswered(c) \/ FacetsCountFailed(c)
             \/ ActionCountAnswered(c) \/ ActionCountFailed(c)
    <3>1. /\ UNCHANGED <<query, failed, pageNumbers, currentPage, canLoadMore>>
          /\ calls' = calls \ {c} /\ c.kind # "page"
      BY <2>2 DEF LinkAnswered, LinkFailed, FacetsCountAnswered, FacetsCountFailed,
                  ActionCountAnswered, ActionCountFailed, searchVars, listVars
    <3>2. clean' => clean
      BY <2>2, Zenon DEF LinkAnswered, LinkFailed, FacetsCountAnswered, FacetsCountFailed,
                         ActionCountAnswered, ActionCountFailed
    <3> QED BY <3>1, <3>2, FooterInvUnchanged
  <2> QED BY <1>3, <2>1, <2>2, FooterInvPageAnswered DEF Ended
<1>4. CASE Quiet
  <2>1. CASE AddCriterion \/ ChangeOrder \/ CheckParentBox \/ (\E u \in Shown(pages) : CheckChildrenBox(u)) \/ Cancel
    <3>1. UNCHANGED <<query, listVars, calls, clean>>
      BY <2>1, Zenon DEF AddCriterion, ChangeOrder, CheckParentBox, CheckChildrenBox, Cancel, searchVars
    <3> QED BY <1>1, <3>1, Zenon
  <2>2. CASE LoadExactCount \/ LaunchFacetsComputing
    <3>1. /\ UNCHANGED <<query, failed, pageNumbers, currentPage, canLoadMore, clean>>
          /\ calls \subseteq calls'
      BY <2>2 DEF LoadExactCount, LaunchFacetsComputing, Send, searchVars, listVars
    <3> QED BY <3>1, FooterInvUnchanged
  <2>3. CASE RemoveLastCriterion \/ ClearCriteria
    BY <1>2, <2>3, Zenon DEF RemoveLastCriterion, ClearCriteria
  <2>4. CASE ClickSearch \/ DebouncedSearch
    <3>1. Submit
      BY <2>4 DEF ClickSearch, DebouncedSearch
    <3>2. CASE ~ hasCriteria
      BY <3>1, <3>2 DEF Submit, FooterInv
    <3>3. CASE hasCriteria
      <4> DEFINE new == [id |-> NextId, kind |-> "page", q |-> submits + 1, p |-> 0]
      <4>1. new \in calls' /\ new.kind = "page" /\ new.q = query'
        BY <3>1, <3>3 DEF Submit, Send
      <4> HIDE DEF new
      <4> QED BY <4>1, Zenon DEF FooterInv
    <3> QED BY <3>2, <3>3
  <2> QED BY <1>4, <2>1, <2>2, <2>3, <2>4, FooterInvLoadMore DEF Quiet
<1>5. CASE LaunchBulkOperation
  <2>1. UNCHANGED <<query, listVars, clean>> /\ (UNCHANGED calls \/ Send("action", query, 0))
    BY <1>5, Zenon DEF LaunchBulkOperation, searchVars
  <2> QED BY <1>1, <2>1 DEF Send
<1>6. CASE Confirm \/ UNCHANGED vars
  <2>1. UNCHANGED <<query, listVars, calls, clean>>
    BY <1>6, Zenon DEF Confirm, searchVars, vars
  <2> QED BY <1>1, <2>1, Zenon
<1> QED BY <1>3, <1>4, <1>5, <1>6 DEF Next

\* The first page of a list in order, when page 0 is in it, is page 0.
LEMMA FirstPageFirst ==
  ASSUME TypeOK, NEW n \in Nat, {pages[k][2] : k \in DOMAIN pages} = 0..n,
         \A k \in DOMAIN pages : pages[k][1] = query,
         \A j, k \in DOMAIN pages : j < k => pages[j][2] < pages[k][2]
  PROVE  pages # <<>> /\ pages[1] = <<query, 0>>
<1>1. pages \in Seq(Page)
  BY DEF TypeOK
<1>2. PICK k \in DOMAIN pages : pages[k][2] = 0
  BY 0 \in 0..n
<1>3. DOMAIN pages = 1..Len(pages) /\ Len(pages) \in Nat
  BY <1>1
<1>4. 1 \in DOMAIN pages /\ pages[1] \in Page /\ pages # <<>>
  BY <1>1, <1>2, <1>3
<1>5. pages[1][2] \in Nat /\ pages[1] = <<pages[1][1], pages[1][2]>>
  BY <1>4 DEF Page
<1>6. k = 1
  BY <1>2, <1>3, <1>4, <1>5
<1> QED BY <1>2, <1>4, <1>5, <1>6

\* What the footer says follows from the invariants.
LEMMA FooterIsTrue == TypeOK /\ ListInv /\ FooterInv /\ TotalInv => NoMoreResultsIsTrue
<1> SUFFICES ASSUME TypeOK, ListInv, FooterInv, TotalInv,
                    clean, submitted, query # 0, ~ pending, ~ canLoadMore, failed = {}
             PROVE  Shown(pages) = {<<query, i>> : i \in 0 .. SmallerOf(hits[query], Threshold) - 1}
  BY DEF NoMoreResultsIsTrue
<1>1. ListCalls(query) = {}
  BY DEF ListInv, SpinnerIsTrue
<1>2. {d \in calls : d.kind = "page" /\ d.q = query} = {}
  BY <1>1 DEF ListCalls
<1>3. {c.p : c \in {d \in calls : d.kind = "page" /\ d.q = query}} = {}
  BY <1>2
<1>4. /\ {pages[k][2] : k \in DOMAIN pages} = 0..currentPage
      /\ \A k \in DOMAIN pages : pages[k][1] = query
      /\ \A j, k \in DOMAIN pages : j < k => pages[j][2] < pages[k][2]
  BY <1>3 DEF ListInv, PagesInOrder
<1>5. currentPage \in Nat /\ query \in Search /\ pages \in Seq(Page)
  BY SizesAssumption DEF TypeOK, Search
<1>6. Settled
  BY <1>4, <1>5, FirstPageFirst DEF Settled
<1>7. \A k \in DOMAIN pages : Bounded(query, pages[k][2])
  BY <1>6 DEF TotalInv
<1>8. ~ (currentPage < PageNumbers(query, currentPage) - 1)
  BY <1>2 DEF FooterInv
<1> QED BY <1>4, <1>5, <1>7, <1>8, AllPagesShown

-----------------------------------------------------------------------------
(* The invariant and what follows from it *)

\* The initial page satisfies PageInv.
LEMMA InitPageInv == Init => PageInv
<1> SUFFICES ASSUME Init PROVE PageInv
  OBVIOUS
<1>1. TypeOK
  BY InitTypeOK
<1>2. /\ pages = <<>> /\ query = 0 /\ submitted = FALSE /\ dialogs = <<>> /\ operation = None
      /\ isAllChecked = FALSE /\ isIndeterminate = FALSE /\ selectedItemCount = 0 /\ itemNotSelected = 0
      /\ listOfUAIdToInclude = {} /\ listOfUAIdToExclude = {} /\ ticked = {}
  BY DEF Init
<1>3. ListInv
  BY <1>2 DEF ListInv, SpinnerIsTrue, PagesInOrder
<1>4. ~ Settled
  BY <1>2 DEF Settled
<1>5. FooterInv /\ TotalInv /\ SelectionInv
  BY <1>2, <1>4 DEF FooterInv, TotalInv, SelectionInv, SelectionIsOne
<1>6. DialogInv /\ OperationWithinThreshold
  BY <1>2 DEF DialogInv, OperationWithinThreshold
<1> QED BY <1>1, <1>3, <1>5, <1>6 DEF PageInv

\* PageInv is inductive.
LEMMA NextPageInv == PageInv /\ [Next]_vars => PageInv'
BY NextTypeOK, NextListInv, NextFooterInv, NextTotalInv, NextSelectionInv, NextDialogInv DEF PageInv

\* The calls, the list, the footer, the total, the boxes and the dialogs of the page agree in
\* every reachable state, whatever the sizes, the thresholds and the hits.
THEOREM PageInvariant == Spec => []PageInv
<1> QED BY InitPageInv, NextPageInv, PTL DEF Spec

\* However the answers interleave with new searches, the list holds the pages
\* of its search in order, none twice and none missing but the awaited and the failed.
THEOREM ListIsInOrder == Spec => []PagesInOrder
<1>1. PageInv => PagesInOrder
  BY DEF PageInv, ListInv
<1> QED BY <1>1, PageInvariant, PTL

\* The footer says "no more results" only when every unit that can be paged is
\* listed, whichever the page sizes, the hits and the interleaving of the answers.
THEOREM NoMoreResultsTellsTheTruth == Spec => []NoMoreResultsIsTrue
<1>1. PageInv => NoMoreResultsIsTrue
  BY FooterIsTrue DEF PageInv
<1> QED BY <1>1, PageInvariant, PTL

\* The spinner turns exactly while the one call about the list is in flight.
THEOREM SpinnerTellsTheTruth == Spec => []SpinnerIsTrue
<1>1. PageInv => SpinnerIsTrue
  BY DEF PageInv, ListInv
<1> QED BY <1>1, PageInvariant, PTL

\* The boxes, the counter and the lists sent to the operations are one selection.
THEOREM SelectionAgrees == Spec => []SelectionIsOne
<1>1. PageInv => SelectionIsOne
  BY DEF PageInv, SelectionInv
<1> QED BY <1>1, PageInvariant, PTL

\* No operation is launched above its threshold, nor on another number of units
\* than the one that was compared, unless a search was submitted under its dialog:
\* then it is told of no unit, and the reassignment is given an empty list.
THEOREM OperationsAreWithinThreshold == Spec => []OperationWithinThreshold
<1>1. PageInv => OperationWithinThreshold
  BY DEF PageInv
<1> QED BY <1>1, PageInvariant, PTL
=============================================================================
