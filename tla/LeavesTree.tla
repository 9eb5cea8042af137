----------------------------- MODULE LeavesTree -----------------------------
(***************************************************************************)
(* The tree of results of the archive search: one node of the tree, its    *)
(* children read page by page by the service of the leaves tree, the user  *)
(* who opens it, asks for more and switches between the two views, and the *)
(* searches that replace the tree.                                         *)
(*                                                                         *)
(* Children are numbers in the order of their titles.  Each page of        *)
(* children is read twice: once among any children, of type INGEST except  *)
(* under a virtual node, once among those that match the search, of        *)
(* whatever type; what is read waits until it is its turn to be shown.     *)
(***************************************************************************)
EXTENDS Integers, FiniteSets, Sequences, SequencesExt

CONSTANTS
  Units,      \* the children of the node, in the order of their titles
  PageSize,   \* DEFAULT_UNIT_PAGE_SIZE (10)
  FirstPages, \* DEFAULT_LEAVES_FIRST_PAGE_SIZE in pages (30 / 10 = 3)
  Corpora,    \* [paths, ingest, matching, folders]: what the children are
  MaxSearches \* bound: searches of a behaviour

ASSUME SizesAssumption ==
  /\ Units \subseteq Nat /\ IsFiniteSet(Units)
  /\ PageSize \in Nat \ {0} /\ FirstPages \in Nat \ {0, 1}
  /\ MaxSearches \in Nat \ {0}

Searches == 1 .. MaxSearches

\* paths: the children that are virtual paths and not archive units; ingest: the
\* archive units of type INGEST, the others being of the holding or filing scheme;
\* matching[s]: those with results of search s; folders[s]: the archive units
\* named by the facets of s (nodesCountMap): they lead to results of s.
Corpus == [paths : SUBSET Units, ingest : SUBSET Units,
           matching : [Searches -> SUBSET Units], folders : [Searches -> SUBSET Units]]

ASSUME CorporaAssumption == Corpora \subseteq Corpus

VARIABLES
  kind,          \* of the node: a unit, a virtual path, the orphans' node
  corpus,        \* what VITAM holds under the node (never changes)
  search,        \* searchCriterias of the service: of the last search sent
  tree,          \* the search whose facets built the tree and its counts
  answered,      \* the searches whose facets have come
  showEveryNodes,
  \* the node
  expanded, toggled,
  isLoadingChildren, canLoadMoreChildren,
  canLoadMoreMatchingChildren,
  children,      \* shown under the node, in that order
  waitingChildren, \* read and not shown yet (sorted: a set stands for it)
  counted,       \* of the children read, those with a count above 0
  realDirectNodePage, realDirectNodeMatchingPage, \* of a virtual node: its
                 \* virtualDirectNodePage, virtualDirectChildrenMatchingPage
  \* the call of the node that is not answered
  stage,         \* the request sent ("none")
  asked,         \* the search of its criteria
  firstPage, everyAsked, \* leavesLoadingCriteria.firstPage, showEveryNodes
  foundFolders, foundPaths, \* what the first requests have found
  failed         \* ghost: a call of the node has failed

corpusVars == <<kind, corpus>>
searchVars == <<search, tree, answered>>
nodeVars == <<children, waitingChildren, counted, realDirectNodePage,
              realDirectNodeMatchingPage, canLoadMoreChildren,
              canLoadMoreMatchingChildren>>
foundVars == <<foundFolders, foundPaths>>
callVars == <<asked, firstPage, everyAsked>>
vars == <<corpusVars, searchVars, showEveryNodes, expanded, toggled,
          isLoadingChildren, nodeVars, stage, callVars, foundVars, failed>>

-----------------------------------------------------------------------------
(* What VITAM answers *)

ArchiveUnits == Units \ corpus.paths

\* The query of any child asks a unit or the orphans for type INGEST only.
AnyChildren ==
  IF kind = "virtual" THEN ArchiveUnits ELSE ArchiveUnits \cap corpus.ingest

\* The query of the children that match asks for no type.
Matching(s) == ArchiveUnits \cap corpus.matching[s]

\* The folders of the facets of the tree that are children of the node.
Folders == ArchiveUnits \cap corpus.folders[tree]

Rank(u, S) == Cardinality({v \in S : v < u})

\* The members of S in the order of their titles (localeCompare of titles).
InOrder(S) == [i \in 1 .. Cardinality(S) |-> CHOOSE u \in S : Rank(u, S) = i - 1]

\* The units of page p of S, in the order of their titles.
PageOf(S, p, size) == {u \in S : Rank(u, S) \div size = p}

PageNumbers(S, size) == (Cardinality(S) + size - 1) \div size

\* The page sizes of a load.
SizeOf(first) == IF first THEN FirstPages * PageSize ELSE PageSize

\* A page of several units of pages moves the page number by as many.
Shift(first) == IF first THEN FirstPages ELSE 1

-----------------------------------------------------------------------------
(* Merging what was read with what is waiting *)

\* A page that shows everything that waits.
ElementsToShow_Everything(waiting, withResults) == Cardinality(waiting)

\* How many children a load shows: on the first load of the complete view,
\* the pages up to the last child with results of the first pages.
ElementsToShow(waiting, withResults) ==
  LET inSight == {u \in waiting \cap withResults :
                    Rank(u, waiting) < FirstPages * PageSize}
      lastPage == CHOOSE p \in 1 .. FirstPages :
                    /\ \E u \in inSight : Rank(u, waiting) \div PageSize = p - 1
                    /\ \A u \in inSight : Rank(u, waiting) \div PageSize < p
  IN IF everyAsked /\ firstPage /\ inSight # {} THEN lastPage * PageSize
                                                ELSE PageSize

\* The waiting children a load moves to the children: in the view of the
\* results, until enough of them have results.
Shown(waiting, withResults) ==
  LET n == ElementsToShow(waiting, withResults)
      ranked == IF everyAsked THEN waiting ELSE waiting \cap withResults
  IN {u \in waiting : Rank(u, ranked) < n}

\* What is shown is read again: only what waits is looked for.
Merge_TwiceShown(read, withResults, paths) ==
  LET waiting == waitingChildren \cup paths \cup read
      counts  == counted \cup (read \cap withResults) \cup foundPaths
      shown   == Shown(waiting, counts)
  IN /\ children' = children \o InOrder(shown)
     /\ waitingChildren' = waiting \ shown
     /\ counted' = counts

\* deduplicateAndMergeChildren: read are the children of the answer, those of
\* withResults have a count; paths were pushed to the waiting ones before.
Merge(read, withResults, paths) ==
  LET new     == {u \in read : u \notin waitingChildren \cup paths
                                        \cup Range(children)}
      waiting == waitingChildren \cup paths \cup new
      counts  == counted \cup (new \cap withResults) \cup foundPaths
      shown   == Shown(waiting, counts)
  IN /\ children' = children \o InOrder(shown)
     /\ waitingChildren' = waiting \ shown
     /\ counted' = counts
-----------------------------------------------------------------------------
Kinds == {"unit", "virtual", "orphans"}
Stages == {"none", "folders", "matchingPaths", "paths", "page"}

TypeOK ==
  /\ kind \in Kinds /\ corpus \in Corpus
  /\ search \in Searches /\ tree \in Searches /\ answered \subseteq Searches
  /\ showEveryNodes \in BOOLEAN
  /\ expanded \in BOOLEAN /\ toggled \in BOOLEAN
  /\ isLoadingChildren \in BOOLEAN
  /\ canLoadMoreChildren \in BOOLEAN /\ canLoadMoreMatchingChildren \in BOOLEAN
  /\ children \in Seq(Units) /\ waitingChildren \subseteq Units
  /\ counted \subseteq waitingChildren \cup Range(children)
  /\ realDirectNodePage \in Nat
  /\ realDirectNodeMatchingPage \in 0 .. realDirectNodePage
  /\ stage \in Stages /\ asked \in Searches
  /\ firstPage \in BOOLEAN /\ everyAsked \in BOOLEAN
  /\ foundFolders \subseteq Units /\ foundPaths \subseteq Units
  /\ failed \in BOOLEAN

-----------------------------------------------------------------------------
(* The node *)

Init ==
  /\ kind \in Kinds /\ corpus \in Corpora
  /\ search = 1 /\ tree = 1 /\ answered = {1}
  /\ showEveryNodes = FALSE
  /\ expanded = FALSE /\ toggled = FALSE /\ isLoadingChildren = FALSE
  /\ canLoadMoreChildren = TRUE /\ canLoadMoreMatchingChildren = TRUE
  /\ children = <<>> /\ waitingChildren = {} /\ counted = {}
  /\ realDirectNodePage = 0 /\ realDirectNodeMatchingPage = 0
  /\ stage = "none" /\ failed = FALSE
  /\ foundFolders = {} /\ foundPaths = {}
  /\ asked = 1 /\ firstPage = FALSE /\ everyAsked = FALSE

\* The counts of the former tree are kept.
EmptyNode_KeepsCounts ==
  /\ canLoadMoreChildren' = TRUE /\ canLoadMoreMatchingChildren' = TRUE
  /\ children' = <<>> /\ waitingChildren' = {} /\ counted' = counted
  /\ realDirectNodePage' = 0 /\ realDirectNodeMatchingPage' = 0

\* copyNodeWithoutChildren, firstToggle and initNode: nothing is read yet.
EmptyNode ==
  /\ canLoadMoreChildren' = TRUE /\ canLoadMoreMatchingChildren' = TRUE
  /\ children' = <<>> /\ waitingChildren' = {} /\ counted' = {}
  /\ realDirectNodePage' = 0 /\ realDirectNodeMatchingPage' = 0

Open == expanded' = ~expanded

\* toggleLeave, toggleOrphansNode: the node is opened or closed.
Toggle ==
  /\ expanded \/ toggled
  /\ Open
  /\ UNCHANGED <<corpusVars, searchVars, showEveryNodes, toggled,
                 isLoadingChildren, nodeVars, stage, callVars, foundVars, failed>>

\* The first time it is opened its children are asked for, in several requests.
FirstToggle ==
  /\ ~expanded /\ ~toggled
  /\ Open
  /\ toggled' = TRUE /\ isLoadingChildren' = TRUE
  /\ EmptyNode
  /\ stage' = IF kind = "unit" THEN "folders" ELSE "matchingPaths"
  /\ asked' = search /\ firstPage' = TRUE /\ everyAsked' = showEveryNodes
  /\ UNCHANGED <<corpusVars, searchVars, showEveryNodes, foundVars, failed>>

\* The next request of the first load; it reads the criteria when it is sent.
Ask(next) ==
  /\ stage' = next /\ asked' = search
  /\ UNCHANGED <<corpusVars, searchVars, showEveryNodes, expanded, toggled,
                 isLoadingChildren, nodeVars, firstPage, everyAsked, failed>>

FoldersAnswered ==
  /\ stage = "folders"
  /\ foundFolders' = Folders
  /\ Ask("matchingPaths")
  /\ UNCHANGED foundPaths

MatchingPathsAnswered ==
  /\ stage = "matchingPaths"
  /\ foundPaths' = corpus.paths \cap corpus.matching[asked]
  /\ Ask("paths")
  /\ UNCHANGED foundFolders

\* The first load forgets to ask for the children.
PathsAnswered_NoPage ==
  /\ stage = "paths"
  /\ Ask("none")
  /\ UNCHANGED foundVars

PathsAnswered ==
  /\ stage = "paths"
  /\ Ask("page")
  /\ UNCHANGED foundVars

\* The pages a load asks for, among any children and among those that match.
AllPage == PageOf(AnyChildren, realDirectNodePage, SizeOf(firstPage))

\* The page of the children that match is never larger than a page.
MatchingPage_Small == PageOf(Matching(asked), realDirectNodeMatchingPage, PageSize)

MatchingPage == PageOf(Matching(asked), realDirectNodeMatchingPage, SizeOf(firstPage))

\* The matching children are read and counted until their pages end.
IsPage == realDirectNodeMatchingPage < PageNumbers(Matching(asked), SizeOf(firstPage))

Taken == IF kind = "virtual" \/ IsPage THEN MatchingPage ELSE {}

\* A full page may have another one after it.
HasMore_PagesOnly ==
  Cardinality(IF everyAsked THEN AllPage ELSE MatchingPage) >= SizeOf(firstPage)

HasMore ==
  \/ Cardinality(IF everyAsked THEN AllPage ELSE MatchingPage) >= SizeOf(firstPage)
  \/ waitingChildren' # {}

\* retrieveNodeChildren, retrieveVirtualNodeChildren: both pages have come.
PageAnswered ==
  LET read      == foundFolders \cup AllPage \cup Taken
      perimeter == IF kind = "virtual" THEN {} ELSE read \cap Folders
  IN /\ stage = "page"
     /\ Merge(read, perimeter \cup Taken, IF firstPage THEN corpus.paths ELSE {})
     /\ realDirectNodePage' = realDirectNodePage + Shift(firstPage)
     /\ realDirectNodeMatchingPage' =
          realDirectNodeMatchingPage + (IF IsPage THEN Shift(firstPage) ELSE 0)
     /\ canLoadMoreChildren' = HasMore
     /\ canLoadMoreMatchingChildren' = IF kind = "virtual" THEN ~everyAsked /\ HasMore
                                       ELSE canLoadMoreMatchingChildren
     /\ isLoadingChildren' = FALSE
     /\ stage' = "none" /\ foundFolders' = {} /\ foundPaths' = {}
     /\ UNCHANGED <<corpusVars, searchVars, showEveryNodes, expanded, toggled,
                    callVars, failed>>

\* The promise of the load is rejected or never settles.
CallFailed ==
  /\ stage # "none"
  /\ stage' = "none" /\ failed' = TRUE
  /\ UNCHANGED <<corpusVars, searchVars, showEveryNodes, expanded, toggled,
                 isLoadingChildren, nodeVars, callVars, foundVars>>

CanLoadMore ==
  /\ ~isLoadingChildren /\ canLoadMoreChildren
  /\ showEveryNodes \/ canLoadMoreMatchingChildren

\* toggleLoadMore, toggleLoadMoreOrphans.
LoadMore ==
  /\ CanLoadMore /\ expanded
  /\ isLoadingChildren' = TRUE
  /\ stage' = "page" /\ asked' = search
  /\ firstPage' = FALSE /\ everyAsked' = showEveryNodes
  /\ UNCHANGED <<corpusVars, searchVars, showEveryNodes, expanded, toggled,
                 nodeVars, foundVars, failed>>

SwitchViewAllNodes ==
  /\ showEveryNodes' = ~showEveryNodes
  /\ UNCHANGED <<corpusVars, searchVars, expanded, toggled, isLoadingChildren,
                 nodeVars, stage, callVars, foundVars, failed>>

-----------------------------------------------------------------------------
(* The searches *)

\* A search is sent: its criteria are the service's at once.
SendSearch ==
  /\ search < MaxSearches
  /\ search' = search + 1
  /\ UNCHANGED <<corpusVars, tree, answered, showEveryNodes, expanded, toggled,
                 isLoadingChildren, nodeVars, stage, callVars, foundVars, failed>>

\* Its first page has come: the facets replace the nodes of the tree.  The
\* answers the former node waits for will change that node, no longer shown.
SearchAnswered ==
  \E s \in 1 .. search :
    /\ s \notin answered
    /\ answered' = answered \cup {s} /\ tree' = s
    /\ expanded' = FALSE /\ toggled' = FALSE /\ isLoadingChildren' = FALSE
    /\ EmptyNode
    /\ stage' = "none" /\ failed' = FALSE
    /\ foundFolders' = {} /\ foundPaths' = {}
    /\ UNCHANGED <<corpusVars, search, showEveryNodes, callVars>>

Next ==
  \/ Toggle \/ FirstToggle \/ LoadMore \/ SwitchViewAllNodes
  \/ FoldersAnswered \/ MatchingPathsAnswered \/ PathsAnswered
  \/ PageAnswered \/ CallFailed
  \/ SendSearch \/ SearchAnswered

Spec == Init /\ [][Next]_vars

\* VITAM answers every request, or the request fails.
FairSpec ==
  Spec /\ WF_vars(CallFailed \/ FoldersAnswered \/ MatchingPathsAnswered
                  \/ PathsAnswered \/ PageAnswered)

-----------------------------------------------------------------------------
(* Properties *)

\* The children read belong to the search of the tree.
SameSearch == search = tree

\* The children with results of a node: archive units and virtual paths that
\* match, and the folders that lead to results.
WithResults ==
  (Units \cap corpus.matching[tree]) \cup (IF kind = "virtual" THEN {} ELSE Folders)

\* The folders among the orphans are found by the pages of any children
\* only: what is promised of children with results leaves them out.
FoldersAreFound == kind = "orphans" => Folders \subseteq Matching(tree)

\* A child of another type than INGEST that matches is in the pages of those
\* that match and in no page of any children, so the two pagings part: what is
\* promised of both together leaves such a node out.  A virtual node has none.
MatchingAreRead == Matching(tree) \subseteq AnyChildren

\* A child is under its node once, whichever of the requests has read it, and
\* how often: the two kinds of pages overlap (deduplicateAndMergeChildren).
ReadOnce ==
  /\ IsInjective(children)
  /\ Range(children) \cap waitingChildren = {}

\* Only a child with results is counted, and a virtual path, a folder and a child
\* of another type than INGEST always is.  An INGEST child is read by the pages of
\* any children without knowing whether it matches, so the page of those that
\* match must never be behind, across the two page sizes and the two views
\* (processRealDirectChildren, -Matching); where the pagings part it may be.
CountsAreTrue ==
  LET uncounted == ((waitingChildren \cup Range(children)) \cap WithResults) \ counted
  IN SameSearch =>
       /\ counted \subseteq WithResults
       /\ uncounted \subseteq AnyChildren \ Folders
       /\ MatchingAreRead => uncounted = {}

\* Where the pagings do not part, the children with results come in the order of
\* their titles, although they are read from four requests, in two page sizes,
\* and moved by two views.
ResultsInOrder ==
  SameSearch /\ FoldersAreFound /\ MatchingAreRead =>
    \A i, j \in DOMAIN children :
      i < j /\ children[i] \in counted /\ children[j] \in counted
        => children[i] < children[j]

\* When the node has no more to load after a load, every child with results is
\* shown, unless that load was of the complete view and the pagings part; and
\* after a load of the complete view every path, folder of a unit and INGEST child.
NothingLeft ==
  SameSearch /\ FoldersAreFound /\ ~isLoadingChildren /\ ~canLoadMoreChildren =>
    /\ ~everyAsked \/ MatchingAreRead => WithResults \subseteq Range(children)
    /\ everyAsked =>
         corpus.paths \cup AnyChildren \cup (IF kind = "unit" THEN Folders ELSE {})
           \subseteq Range(children)

\* The spinner of a node ends, unless one of its calls has failed.
LoadEnds == isLoadingChildren ~> (~isLoadingChildren \/ failed)
=============================================================================
