---------------------------- MODULE ArchiveSearch ----------------------------
(***************************************************************************)
(* The archive search page (ArchiveSearchComponent, with the counter       *)
(* ArchiveUnitCountComponent it shows): one browser page, the HTTP calls   *)
(* it has in flight, and the user.                                         *)
(*                                                                         *)
(* A search replaces the list by its first page; scrolling appends the     *)
(* next ones.  Rows are ticked one by one, or all at once with exclusions, *)
(* and a bulk operation is launched on the ticked units, after its size    *)
(* was compared with the thresholds.  Nothing cancels the calls of an      *)
(* older search and no answer says which search it belongs to, so answers  *)
(* are handled in any order; a handler reads the fields of the page as     *)
(* they are when the answer comes.                                         *)
(*                                                                         *)
(* A search is named by its number; its criteria are abstracted to whether *)
(* there are any.  External: the search API, which finds hits[q] units for *)
(* search q, says Threshold when there are more (unless the call tracks    *)
(* the total), and may fail on any call.                                   *)
(***************************************************************************)
EXTENDS Integers, Sequences, FiniteSets

CONSTANTS
  PageSize,         \* PAGE_SIZE
  Threshold,        \* resultThreshold: totals are not counted beyond it
  BulkThreshold,    \* bulkOperationsThreshold, -1 when there is none
  DefaultThreshold, \* the threshold of the operation
  hits,             \* the units each search finds
  ClickedRows,      \* bound on the rows whose box is clicked: their indices
  MaxSubmits,       \* bound on the searches
  MaxInFlight       \* bound on the calls in flight

ASSUME SizesAssumption ==
  /\ PageSize \in Nat \ {0}
  /\ Threshold \in Nat \ {0}
  /\ Threshold % PageSize = 0
  /\ BulkThreshold \in Nat \cup {-1}
  /\ DefaultThreshold \in Nat
  /\ hits \in [1..MaxSubmits -> Nat]
  /\ ClickedRows \subseteq Nat
  /\ MaxSubmits \in Nat
  /\ MaxInFlight \in Nat

VARIABLES
  submits,           \* searches submitted so far
  query,             \* criteriaSearchList: the search it describes, 0 when empty
  counted,           \* search$: the search its count is of, 0 when not yet set
  hasCriteria,       \* searchCriterias is not empty
  armed,             \* a change of order or filter waits for its debounce
  submitted, pending, canLoadMore,
  currentPage, pageNumbers, totalResults,
  waitingToGetFixedCount,
  exactCountLoaded,  \* of ArchiveUnitCountComponent
  pages,             \* archiveUnits, as the sequence of the pages in it
  isAllChecked, isIndeterminate, selectedItemCount, itemNotSelected,
  listOfUAIdToInclude, listOfUAIdToExclude,
  ticked,            \* the rows whose box shows a tick
  listOfUACriteriaSearch,
  calls,             \* the HTTP calls in flight
  dialogs,           \* the confirmation dialogs of bulk operations, the last on top
  operation,         \* the operation this step launched
  clean,             \* history: nothing out of turn since the last submit
  failed             \* history: the pages of the search whose call failed

searchVars == <<submits, query, counted, hasCriteria, armed>>
listVars == <<submitted, pending, canLoadMore, currentPage, pageNumbers, pages, failed>>
countVars == <<totalResults, waitingToGetFixedCount, exactCountLoaded>>
boxVars == <<isAllChecked, isIndeterminate, itemNotSelected, listOfUAIdToInclude,
             listOfUAIdToExclude, ticked>>
vars == <<searchVars, listVars, countVars, boxVars, selectedItemCount,
          listOfUACriteriaSearch, calls, dialogs, operation, clean>>

-----------------------------------------------------------------------------
None == [none |-> TRUE]
Search == 1..MaxSubmits
Unit == Search \X Nat
Page == Search \X Nat
Call == [id : 1..MaxInFlight, kind : {"page", "link", "facets", "action"},
         q : Search, p : Nat]
Selection == [q : Search, criteria : BOOLEAN, include : SUBSET Unit, exclude : SUBSET Unit]

SmallerOf(a, b) == IF a < b THEN a ELSE b
CeilDiv(a, b) == (a + b - 1) \div b

\* The units of page p of search q, and those of the pages in s.
UnitsOf(q, p) == {<<q, i>> : i \in p * PageSize .. SmallerOf((p + 1) * PageSize, hits[q]) - 1}
Shown(s) == UNION {UnitsOf(s[k][1], s[k][2]) : k \in DOMAIN s}
PagesIn(s) == {s[k] : k \in DOMAIN s}

\* A free identifier for a call; none is free when the bound is reached.
FreeIds == 1..MaxInFlight \ {c.id : c \in calls}
NextId == CHOOSE n \in FreeIds : TRUE
Send(kind, q, p) ==
  /\ FreeIds # {}
  /\ calls' = calls \cup {[id |-> NextId, kind |-> kind, q |-> q, p |-> p]}

\* The user reaches the page only while no dialog covers it.
AtPage == dialogs = <<>>
AtTable == AtPage /\ submitted

\* The list holds the first page of the search, and nothing came out of turn.
Settled == clean /\ pages # <<>> /\ pages[1] = <<query, 0>>

\* The query list an operation receives: prepareUAIdList.
PreparedList ==
  IF query = 0 THEN None
  ELSE [q |-> query, criteria |-> isAllChecked \/ isIndeterminate,
        include |-> listOfUAIdToInclude, exclude |-> listOfUAIdToExclude]

\* How many units such a list designates.
Designated(list) ==
  IF list.criteria THEN hits[list.q] - Cardinality(list.exclude)
  ELSE Cardinality(list.include)

-----------------------------------------------------------------------------
Init ==
  /\ submits = 0 /\ query = 0 /\ counted = 0 /\ hasCriteria = FALSE /\ armed = FALSE
  /\ submitted = FALSE /\ pending = FALSE /\ canLoadMore = FALSE
  /\ currentPage = 0 /\ pageNumbers = 0 /\ totalResults = 0
  /\ waitingToGetFixedCount = FALSE /\ exactCountLoaded = FALSE
  /\ pages = <<>>
  /\ isAllChecked = FALSE /\ isIndeterminate = FALSE
  /\ selectedItemCount = 0 /\ itemNotSelected = 0
  /\ listOfUAIdToInclude = {} /\ listOfUAIdToExclude = {} /\ ticked = {}
  /\ listOfUACriteriaSearch = None
  /\ calls = {} /\ dialogs = <<>> /\ operation = None
  /\ clean = TRUE /\ failed = {}

-----------------------------------------------------------------------------
(* Criteria.                                                               *)

AddCriterion ==
  /\ AtPage /\ ~ hasCriteria
  /\ hasCriteria' = TRUE
  /\ UNCHANGED <<submits, query, counted, armed, listVars, countVars, boxVars, selectedItemCount,
                 listOfUACriteriaSearch, calls, dialogs, clean>>

\* The counter is destroyed with the table: its call no longer reaches the page.
WithoutLink == {c \in calls : c.kind # "link"}

\* removeCriteria, when it removes the last criterion.
RemoveLastCriterion ==
  /\ AtPage /\ hasCriteria
  /\ hasCriteria' = FALSE /\ submitted' = FALSE
  /\ pages' = <<>> /\ ticked' = {}
  /\ calls' = WithoutLink
  /\ exactCountLoaded' = FALSE
  /\ clean' = FALSE
  /\ UNCHANGED <<submits, query, counted, armed, pending, canLoadMore, currentPage, pageNumbers,
                 totalResults, waitingToGetFixedCount, isAllChecked, isIndeterminate,
                 itemNotSelected, listOfUAIdToInclude, listOfUAIdToExclude, selectedItemCount,
                 listOfUACriteriaSearch, dialogs, failed>>

\* clearCriteria removes them all and resets the counters.
ClearCriteria ==
  /\ AtPage /\ hasCriteria
  /\ hasCriteria' = FALSE /\ submitted' = FALSE
  /\ pages' = <<>> /\ ticked' = {}
  /\ pageNumbers' = 0 /\ totalResults' = 0 /\ canLoadMore' = FALSE
  /\ isAllChecked' = FALSE /\ isIndeterminate' = FALSE
  /\ selectedItemCount' = 0 /\ itemNotSelected' = 0
  /\ calls' = WithoutLink
  /\ exactCountLoaded' = FALSE
  /\ clean' = FALSE
  /\ UNCHANGED <<submits, query, counted, armed, pending, currentPage, waitingToGetFixedCount,
                 listOfUAIdToInclude, listOfUAIdToExclude, listOfUACriteriaSearch, dialogs, failed>>

\* emitOrderChange, or a filter: a submit follows the debounce.
ChangeOrder ==
  /\ AtTable /\ ~ armed
  /\ armed' = TRUE
  /\ UNCHANGED <<submits, query, counted, hasCriteria, listVars, countVars, boxVars, selectedItemCount,
                 listOfUACriteriaSearch, calls, dialogs, clean>>

\* submit, with initializeSelectionParams and callVitamApiService.
Submit ==
  /\ submits < MaxSubmits
  /\ submits' = submits + 1
  /\ query' = IF hasCriteria THEN submits + 1 ELSE 0
  /\ submitted' = TRUE /\ pending' = TRUE
  /\ currentPage' = 0 /\ pages' = <<>> /\ ticked' = {}
  /\ selectedItemCount' = 0 /\ itemNotSelected' = 0
  /\ isAllChecked' = FALSE /\ isIndeterminate' = FALSE
  /\ listOfUAIdToInclude' = {} /\ listOfUAIdToExclude' = {}
  /\ IF hasCriteria
     THEN Send("page", submits + 1, 0) /\ counted' = submits + 1 /\ exactCountLoaded' = FALSE
     ELSE UNCHANGED <<calls, counted, exactCountLoaded>>
  /\ clean' = TRUE /\ failed' = {}
  /\ UNCHANGED <<hasCriteria, canLoadMore, pageNumbers, totalResults,
                 waitingToGetFixedCount, listOfUACriteriaSearch, dialogs>>

\* The search button.
ClickSearch == AtPage /\ hasCriteria /\ Submit /\ UNCHANGED armed
\* The end of the debounce, which asks nobody.
DebouncedSearch == armed /\ Submit /\ armed' = FALSE

-----------------------------------------------------------------------------
(* The list.                                                               *)

\* Mutant: the scroll does not wait for the page asked for.
LoadMore_WhilePending ==
  /\ AtTable /\ query # 0
  /\ canLoadMore' = (currentPage < pageNumbers - 1)
  /\ canLoadMore' /\ currentPage' = currentPage + 1 /\ pending' = TRUE
  /\ Send("page", query, currentPage + 1)
  /\ UNCHANGED <<searchVars, submitted, pageNumbers, pages, failed, countVars, boxVars,
                 selectedItemCount, listOfUACriteriaSearch, dialogs, clean>>
LoadMore ==
  /\ AtTable /\ ~ pending
  /\ canLoadMore' = (currentPage < pageNumbers - 1)
  /\ IF canLoadMore'
     THEN /\ currentPage' = currentPage + 1
          /\ IF query # 0 THEN Send("page", query, currentPage + 1) /\ pending' = TRUE
             ELSE UNCHANGED <<calls, pending>>
     ELSE UNCHANGED <<currentPage, calls, pending>>
  /\ UNCHANGED <<searchVars, submitted, pageNumbers, pages, failed, countVars, boxVars,
                 selectedItemCount, listOfUACriteriaSearch, dialogs, clean>>

\* Mutant: the last page, when it is short, is not counted.
PageNumbers_Floor(q, p) ==
  LET size == Cardinality(UnitsOf(q, p))
  IN IF size = 0 THEN 0 ELSE SmallerOf(hits[q], Threshold) \div size
\* buildPagedResults: the number of pages, from the size of the page received.
PageNumbers(q, p) ==
  LET size == Cardinality(UnitsOf(q, p))
  IN IF size = 0 THEN 0 ELSE CeilDiv(SmallerOf(hits[q], Threshold), size)

\* The answer of a page call, handled by what currentPage is now.
PageAnswered(c) ==
  /\ c.kind = "page"
  /\ calls' = calls \ {c}
  /\ IF currentPage = 0
     THEN /\ pages' = <<(<<c.q, c.p>>)>>
          /\ totalResults' = SmallerOf(hits[c.q], Threshold)
          /\ ticked' = IF isAllChecked THEN UnitsOf(c.q, c.p) ELSE {}
     ELSE /\ pages' = Append(pages, <<c.q, c.p>>)
          /\ ticked' = IF isAllChecked THEN ticked \cup UnitsOf(c.q, c.p) ELSE ticked
          /\ UNCHANGED totalResults
  /\ pageNumbers' = PageNumbers(c.q, c.p)
  /\ waitingToGetFixedCount' = (totalResults' = Threshold)
  /\ selectedItemCount' = IF isAllChecked THEN totalResults' - itemNotSelected ELSE selectedItemCount
  /\ canLoadMore' = (currentPage < pageNumbers' - 1)
  /\ pending' = FALSE
  /\ clean' = (clean /\ c.q = query)
  /\ UNCHANGED <<searchVars, submitted, currentPage, failed, exactCountLoaded, isAllChecked,
                 isIndeterminate, itemNotSelected, listOfUAIdToInclude, listOfUAIdToExclude,
                 listOfUACriteriaSearch, dialogs>>

\* Mutant: an error leaves the spinner.
PageFailed_KeepsSpinner(c) ==
  /\ c.kind = "page"
  /\ calls' = calls \ {c}
  /\ canLoadMore' = FALSE
  /\ clean' = (clean /\ c.q = query)
  /\ failed' = IF c.q = query THEN failed \cup {c.p} ELSE failed
  /\ UNCHANGED <<searchVars, submitted, pending, currentPage, pageNumbers, pages, countVars, boxVars,
                 selectedItemCount, listOfUACriteriaSearch, dialogs>>
\* The page stays counted in currentPage: loadMore will ask for the next one.
PageFailed(c) ==
  /\ c.kind = "page"
  /\ calls' = calls \ {c}
  /\ canLoadMore' = FALSE /\ pending' = FALSE
  /\ clean' = (clean /\ c.q = query)
  /\ failed' = IF c.q = query THEN failed \cup {c.p} ELSE failed
  /\ UNCHANGED <<searchVars, submitted, currentPage, pageNumbers, pages, countVars, boxVars,
                 selectedItemCount, listOfUACriteriaSearch, dialogs>>

-----------------------------------------------------------------------------
(* The exact count, asked by the counter, by the facets or by an operation. *)

\* Mutant: the link can be clicked while a page is awaited.
LoadExactCount_WhilePending ==
  /\ AtTable /\ counted # 0
  /\ ~ exactCountLoaded /\ totalResults >= Threshold
  /\ Send("link", counted, 0)
  /\ pending' = TRUE
  /\ UNCHANGED <<searchVars, submitted, canLoadMore, currentPage, pageNumbers, pages, failed,
                 countVars, boxVars, selectedItemCount, listOfUACriteriaSearch, dialogs, clean>>
\* loadExactCount, the link "more than Threshold".
LoadExactCount ==
  /\ AtTable /\ ~ pending /\ counted # 0
  /\ ~ exactCountLoaded /\ totalResults >= Threshold
  /\ Send("link", counted, 0)
  /\ pending' = TRUE
  /\ UNCHANGED <<searchVars, submitted, canLoadMore, currentPage, pageNumbers, pages, failed,
                 countVars, boxVars, selectedItemCount, listOfUACriteriaSearch, dialogs, clean>>

\* handleExactCount: the exclusions are not deducted.
LinkAnswered(c) ==
  /\ c.kind = "link"
  /\ calls' = calls \ {c}
  /\ pending' = FALSE
  /\ exactCountLoaded' = TRUE
  /\ totalResults' = hits[c.q]
  /\ selectedItemCount' = IF isAllChecked /\ totalResults # hits[c.q] THEN hits[c.q]
                          ELSE selectedItemCount
  /\ clean' = (clean /\ c.q = query /\ (isAllChecked => listOfUAIdToExclude = {}))
  /\ UNCHANGED <<searchVars, submitted, canLoadMore, currentPage, pageNumbers, pages, failed,
                 waitingToGetFixedCount, boxVars, listOfUACriteriaSearch, dialogs>>

\* Mutant: the -1 of a failed count is taken for a count.
LinkFailed_Unchecked(c) ==
  /\ c.kind = "link"
  /\ calls' = calls \ {c}
  /\ pending' = FALSE
  /\ exactCountLoaded' = FALSE
  /\ totalResults' = -1
  /\ clean' = (clean /\ c.q = query)
  /\ UNCHANGED <<searchVars, submitted, canLoadMore, currentPage, pageNumbers, pages, failed,
                 waitingToGetFixedCount, boxVars, selectedItemCount, listOfUACriteriaSearch, dialogs>>
LinkFailed(c) ==
  /\ c.kind = "link"
  /\ calls' = calls \ {c}
  /\ pending' = FALSE
  /\ exactCountLoaded' = FALSE
  /\ clean' = (clean /\ c.q = query)
  /\ UNCHANGED <<searchVars, submitted, canLoadMore, currentPage, pageNumbers, pages, failed,
                 totalResults, waitingToGetFixedCount, boxVars, selectedItemCount,
                 listOfUACriteriaSearch, dialogs>>

\* launchFacetsComputing: without a count to wait for it changes nothing here.
LaunchFacetsComputing ==
  /\ AtTable /\ ~ pending /\ query # 0 /\ waitingToGetFixedCount
  /\ Send("facets", query, 0)
  /\ UNCHANGED <<searchVars, listVars, countVars, boxVars, selectedItemCount,
                 listOfUACriteriaSearch, dialogs, clean>>

\* The total becomes exact, the number of ticked units does not follow.
FacetsCountAnswered(c) ==
  /\ c.kind = "facets"
  /\ calls' = calls \ {c}
  /\ totalResults' = hits[c.q]
  /\ waitingToGetFixedCount' = FALSE
  /\ clean' = (clean /\ c.q = query /\ ~ isAllChecked)
  /\ UNCHANGED <<searchVars, listVars, exactCountLoaded, boxVars, selectedItemCount,
                 listOfUACriteriaSearch, dialogs>>

FacetsCountFailed(c) ==
  /\ c.kind = "facets"
  /\ calls' = calls \ {c}
  /\ UNCHANGED <<searchVars, listVars, countVars, boxVars, selectedItemCount,
                 listOfUACriteriaSearch, dialogs, clean>>

-----------------------------------------------------------------------------
(* The boxes.                                                              *)

\* checkParentBoxChange: the box of the header, and with it those of the rows.
CheckParentBox ==
  /\ AtTable
  /\ isAllChecked' = ~ isAllChecked
  /\ selectedItemCount' = IF isAllChecked' THEN totalResults ELSE 0
  /\ isIndeterminate' = (isIndeterminate /\ isAllChecked')
  /\ itemNotSelected' = IF isAllChecked' THEN 0 ELSE itemNotSelected
  /\ ticked' = IF isAllChecked' THEN Shown(pages) ELSE {}
  /\ listOfUAIdToInclude' = {} /\ listOfUAIdToExclude' = {}
  /\ listOfUACriteriaSearch' = None
  /\ UNCHANGED <<searchVars, listVars, countVars, calls, dialogs, clean>>

\* checkChildrenBoxChange, its three branches.
ExcludeRow(u) ==
  /\ isAllChecked /\ u \in ticked
  /\ ticked' = ticked \ {u}
  /\ isIndeterminate' = TRUE
  /\ listOfUAIdToExclude' = listOfUAIdToExclude \cup {u}
  /\ listOfUAIdToInclude' = {}
  /\ IF selectedItemCount > 0
     THEN selectedItemCount' = selectedItemCount - 1 /\ itemNotSelected' = itemNotSelected + 1
     ELSE UNCHANGED <<selectedItemCount, itemNotSelected>>
  /\ listOfUACriteriaSearch' = None
  /\ UNCHANGED isAllChecked

\* Mutant: a row ticked again stays excluded.
TickRow_KeepsExclusion(u) ==
  /\ u \notin ticked
  /\ ticked' = ticked \cup {u}
  /\ selectedItemCount' = selectedItemCount + 1
  /\ isIndeterminate' = (isIndeterminate /\ selectedItemCount' # totalResults)
  /\ IF isAllChecked
     THEN itemNotSelected' = itemNotSelected - 1 /\ UNCHANGED listOfUAIdToInclude
     ELSE listOfUAIdToInclude' = listOfUAIdToInclude \cup {u} /\ itemNotSelected' = 0
  /\ listOfUACriteriaSearch' = None
  /\ UNCHANGED <<isAllChecked, listOfUAIdToExclude>>
TickRow(u) ==
  /\ u \notin ticked
  /\ ticked' = ticked \cup {u}
  /\ selectedItemCount' = selectedItemCount + 1
  /\ isIndeterminate' = (isIndeterminate /\ selectedItemCount' # totalResults)
  /\ IF isAllChecked
     THEN /\ listOfUAIdToExclude' = listOfUAIdToExclude \ {u}
          /\ itemNotSelected' = itemNotSelected - 1
          /\ UNCHANGED listOfUAIdToInclude
     ELSE /\ listOfUAIdToInclude' = listOfUAIdToInclude \cup {u}
          /\ listOfUAIdToExclude' = {}
          /\ itemNotSelected' = 0
  /\ listOfUACriteriaSearch' = None
  /\ UNCHANGED isAllChecked

UntickRow(u) ==
  /\ ~ isAllChecked /\ u \in ticked
  /\ ticked' = ticked \ {u}
  /\ listOfUAIdToInclude' = listOfUAIdToInclude \ {u}
  /\ IF selectedItemCount > 0
     THEN selectedItemCount' = selectedItemCount - 1 /\ itemNotSelected' = itemNotSelected + 1
     ELSE UNCHANGED <<selectedItemCount, itemNotSelected>>
  /\ UNCHANGED <<isAllChecked, isIndeterminate, listOfUAIdToExclude, listOfUACriteriaSearch>>

CheckChildrenBox(u) ==
  /\ AtTable /\ u \in Shown(pages) /\ u[2] \in ClickedRows
  /\ ExcludeRow(u) \/ TickRow(u) \/ UntickRow(u)
  /\ UNCHANGED <<searchVars, listVars, countVars, calls, dialogs, clean>>

-----------------------------------------------------------------------------
(* Bulk operations: launchBulkOperationWorkflow, shared by nine of them.   *)

ShouldReadSelectedItemCount(waiting) == ~ waiting \/ ~ isAllChecked

\* The selection is read after the count, and compared with the thresholds.
\* Beyond them a message is shown and nothing is launched.
Compare(count, waiting, settled) ==
  LET allowed == IF BulkThreshold # -1 THEN count <= BulkThreshold ELSE count <= DefaultThreshold
      go == ShouldReadSelectedItemCount(waiting) /\ count > 0 /\ allowed
  IN /\ listOfUACriteriaSearch' = PreparedList
     /\ dialogs' = IF go /\ count > DefaultThreshold
                   THEN Append(dialogs, [checked |-> count, search |-> submits, settled |-> settled])
                   ELSE dialogs
     /\ operation' = IF go /\ count <= DefaultThreshold
                     THEN [checked |-> count, count |-> count, list |-> PreparedList,
                           reread |-> FALSE, crossed |-> FALSE, settled |-> settled]
                     ELSE None

LaunchBulkOperation ==
  /\ AtTable /\ selectedItemCount > 0
  /\ IF ShouldReadSelectedItemCount(waitingToGetFixedCount) \/ query = 0
     THEN Compare(selectedItemCount, waitingToGetFixedCount, Settled) /\ UNCHANGED calls
     ELSE /\ Send("action", query, 0)
          /\ operation' = None
          /\ UNCHANGED <<listOfUACriteriaSearch, dialogs>>
  /\ UNCHANGED <<searchVars, listVars, countVars, boxVars, selectedItemCount, clean>>

\* Mutant: the exact count does not reach the number of ticked units.
ActionCountAnswered_NotTaken(c) ==
  /\ c.kind = "action"
  /\ calls' = calls \ {c}
  /\ totalResults' = hits[c.q]
  /\ waitingToGetFixedCount' = FALSE
  /\ clean' = (clean /\ c.q = query)
  /\ Compare(selectedItemCount, FALSE, Settled /\ c.q = query)
  /\ UNCHANGED <<searchVars, listVars, exactCountLoaded, boxVars, selectedItemCount>>
\* The rest of prepareToLaunchVitamAction and of the workflow, after its await.
ActionCountAnswered(c) ==
  /\ c.kind = "action"
  /\ calls' = calls \ {c}
  /\ totalResults' = hits[c.q]
  /\ waitingToGetFixedCount' = FALSE
  /\ selectedItemCount' = IF isAllChecked THEN hits[c.q] - itemNotSelected ELSE selectedItemCount
  /\ clean' = (clean /\ c.q = query)
  /\ Compare(selectedItemCount', FALSE, Settled /\ c.q = query)
  /\ UNCHANGED <<searchVars, listVars, exactCountLoaded, boxVars>>

ActionCountFailed(c) ==
  /\ c.kind = "action"
  /\ calls' = calls \ {c}
  /\ Compare(selectedItemCount, waitingToGetFixedCount, Settled /\ c.q = query)
  /\ clean' = (clean /\ c.q = query)
  /\ UNCHANGED <<searchVars, listVars, countVars, boxVars, selectedItemCount>>

\* The dialog on top, and those it covers: the answer of a count awaited by
\* another operation opens one more dialog over the page and its dialogs.
TopDialog == dialogs[Len(dialogs)]
Covered == SubSeq(dialogs, 1, Len(dialogs) - 1)

\* The operation runs with the count as it is now, and with the list as it is
\* now: the reassignment prepares it again, the others read the field (the two
\* eliminations are given no count).
Confirm ==
  /\ dialogs # <<>>
  /\ dialogs' = Covered
  /\ \E reread \in BOOLEAN :
       operation' = [checked |-> TopDialog.checked, count |-> selectedItemCount,
                     list |-> IF reread THEN PreparedList ELSE listOfUACriteriaSearch,
                     reread |-> reread, crossed |-> TopDialog.search # submits,
                     settled |-> TopDialog.settled /\ clean]
  /\ UNCHANGED <<searchVars, listVars, countVars, boxVars, selectedItemCount,
                 listOfUACriteriaSearch, calls, clean>>

Cancel ==
  /\ dialogs # <<>>
  /\ dialogs' = Covered
  /\ UNCHANGED <<searchVars, listVars, countVars, boxVars, selectedItemCount,
                 listOfUACriteriaSearch, calls, clean>>

-----------------------------------------------------------------------------
Ended(c) ==
  \/ ActionCountAnswered(c) \/ ActionCountFailed(c)
  \/ /\ PageAnswered(c) \/ PageFailed(c) \/ LinkAnswered(c) \/ LinkFailed(c)
        \/ FacetsCountAnswered(c) \/ FacetsCountFailed(c)
     /\ operation' = None

Quiet ==
  \/ AddCriterion \/ RemoveLastCriterion \/ ClearCriteria
  \/ ChangeOrder \/ ClickSearch \/ DebouncedSearch
  \/ LoadMore \/ LoadExactCount \/ LaunchFacetsComputing
  \/ CheckParentBox \/ \E u \in Shown(pages) : CheckChildrenBox(u)
  \/ Cancel

Next ==
  \/ \E c \in calls : Ended(c)
  \/ Quiet /\ operation' = None
  \/ LaunchBulkOperation
  \/ Confirm

Spec == Init /\ [][Next]_vars

\* A browser ends every HTTP call, with an answer or an error.
FairSpec ==
  /\ Spec
  /\ \A n \in 1..MaxInFlight : WF_vars(\E c \in calls : c.id = n /\ Ended(c))

-----------------------------------------------------------------------------
(* Properties.  Settled and clean name exactly what the page needs to be   *)
(* right: since the search was submitted, no answer of an older search was *)
(* handled, and no exact count was taken behind the selection.             *)

\* What a dialog asks to confirm: the units compared with the thresholds, the
\* search that was shown, and whether it was settled.  What an operation is
\* launched with: the list and the count it is given, whether it prepared the
\* list again, and whether a search was submitted under its dialog (crossed).
Request == [checked : Nat, search : 0..MaxSubmits, settled : BOOLEAN]
Operation == [checked : Nat, count : Int, list : Selection \cup {None},
              reread : BOOLEAN, crossed : BOOLEAN, settled : BOOLEAN]

\* The page holds what its fields are declared to hold.
TypeOK ==
  /\ submits \in 0..MaxSubmits
  /\ query \in 0..submits /\ counted \in 0..submits
  /\ hasCriteria \in BOOLEAN /\ armed \in BOOLEAN
  /\ submitted \in BOOLEAN /\ pending \in BOOLEAN /\ canLoadMore \in BOOLEAN
  /\ currentPage \in Nat /\ pageNumbers \in Nat /\ totalResults \in Nat
  /\ waitingToGetFixedCount \in BOOLEAN /\ exactCountLoaded \in BOOLEAN
  /\ pages \in Seq(Page)
  /\ isAllChecked \in BOOLEAN /\ isIndeterminate \in BOOLEAN
  /\ selectedItemCount \in Int /\ itemNotSelected \in Int
  /\ listOfUAIdToInclude \subseteq Unit /\ listOfUAIdToExclude \subseteq Unit
  /\ ticked \subseteq Unit
  /\ listOfUACriteriaSearch \in Selection \cup {None}
  /\ calls \subseteq Call
  /\ \A c \in calls : c.q <= submits
  /\ \A c, d \in calls : c.id = d.id => c = d
  /\ dialogs \in Seq(Request)
  /\ operation \in Operation \cup {None}
  /\ clean \in BOOLEAN
  /\ failed \subseteq Nat

ListCalls(q) == {c \in calls : c.kind \in {"page", "link"} /\ c.q = q}

\* The list shows the pages of the current search in order, none twice, and
\* lacks only those still asked for and those whose call failed (the answers
\* are told apart by currentPage alone, read when they come).
PagesInOrder ==
  clean =>
    /\ \A k \in DOMAIN pages : pages[k][1] = query
    /\ \A j, k \in DOMAIN pages : j < k => pages[j][2] < pages[k][2]
    /\ query # 0 /\ submitted =>
         {pages[k][2] : k \in DOMAIN pages} =
           0..currentPage \ (failed \cup {c.p : c \in {d \in calls : d.kind = "page" /\ d.q = query}})

\* The footer says "no more results" only when every unit that can be paged is
\* listed, though the number of pages is computed from the size of the last
\* page received, which is often a short one.
NoMoreResultsIsTrue ==
  clean /\ submitted /\ query # 0 /\ ~ pending /\ ~ canLoadMore /\ failed = {} =>
    Shown(pages) = {<<query, i>> : i \in 0 .. SmallerOf(hits[query], Threshold) - 1}

\* The spinner turns exactly while a call about the list is in flight, and
\* there is one such call at most (two would append their pages in any order).
SpinnerIsTrue ==
  clean /\ submitted /\ query # 0 =>
    /\ pending <=> ListCalls(query) # {}
    /\ \A c, d \in ListCalls(query) : c = d

\* What the boxes show, what the counter says and what the lists sent to the
\* operations designate are one and the same selection.
SelectionIsOne ==
  Settled =>
    /\ ticked = IF isAllChecked THEN Shown(pages) \ listOfUAIdToExclude ELSE listOfUAIdToInclude
    /\ isAllChecked => listOfUAIdToInclude = {} /\ listOfUAIdToExclude \subseteq Shown(pages)
    /\ isAllChecked => itemNotSelected = Cardinality(listOfUAIdToExclude)
    /\ ~ isAllChecked => listOfUAIdToExclude = {} /\ ~ isIndeterminate
    /\ selectedItemCount = IF isAllChecked THEN totalResults - Cardinality(listOfUAIdToExclude)
                           ELSE Cardinality(listOfUAIdToInclude)

\* The list designates as many units as were compared.
Good(list, count) ==
  /\ list # None
  /\ Designated(list) = count
  /\ list.exclude # {} => list.criteria

\* A number of units an operation may be launched on.
WithinThreshold(n) ==
  n > 0 /\ n <= IF BulkThreshold # -1 THEN BulkThreshold ELSE DefaultThreshold

\* The list designates nothing.
Empty(list) == list = None \/ (~ list.criteria /\ list.include = {} /\ list.exclude = {})

\* An operation is launched with a count that was compared with the thresholds
\* and is not above the one that applies; the list it is given designates as many
\* units, and it is told as many.  A debounced search submitted under the dialog
\* clears the selection: then the operation is told of no unit, the reassignment
\* is given an empty list, and the others still the list that was compared.
OperationWithinThreshold ==
  operation # None =>
    /\ WithinThreshold(operation.checked)
    /\ operation.crossed =>
         /\ operation.count = 0
         /\ operation.reread => Empty(operation.list)
    /\ operation.settled =>
         /\ ~ operation.crossed => operation.count = operation.checked
         /\ ~ (operation.crossed /\ operation.reread) => Good(operation.list, operation.checked)

\* The list part of PageInv: the count is of the search of the list, there is
\* one call for a page at most, and it asks for the last page.
ListInv ==
  /\ query # 0 => counted = query
  /\ SpinnerIsTrue /\ PagesInOrder
  /\ clean /\ query = 0 => pages = <<>>
  /\ clean /\ query # 0 =>
       /\ submitted
       /\ failed \subseteq 0..currentPage
       /\ \A c \in calls : c.kind = "page" /\ c.q = query => c.p = currentPage /\ c.p \notin failed

\* The units of a page are among those that were counted.
Bounded(q, p) == \A u \in UnitsOf(q, p) : u[2] < SmallerOf(hits[q], Threshold)

\* Once the first page is listed, the total is right or known to wait for its
\* exact value, and no page goes beyond it.
TotalInv ==
  Settled =>
    /\ totalResults \in {hits[query], SmallerOf(hits[query], Threshold)}
    /\ ~ waitingToGetFixedCount => totalResults = hits[query]
    /\ \A p \in 0..pageNumbers - 1 : Bounded(query, p)
    /\ \A k \in DOMAIN pages : Bounded(query, pages[k][2])
    /\ \A c \in calls : c.kind = "page" /\ c.q = query => Bounded(query, c.p)

\* Once every page asked for is listed, the number of pages is the one computed
\* from the last of them, and canLoadMore compares the two.
FooterInv ==
  clean /\ query # 0 /\ failed = {} /\ (\A c \in calls : c.kind = "page" => c.q # query) =>
    /\ pageNumbers = PageNumbers(query, currentPage)
    /\ canLoadMore = (currentPage < pageNumbers - 1)

\* The units picked are listed, and before the first page is listed nothing can
\* be ticked but the header.
SelectionInv ==
  /\ SelectionIsOne
  /\ Settled => listOfUAIdToInclude \subseteq Shown(pages)
  /\ clean /\ pages = <<>> =>
       /\ listOfUAIdToInclude = {} /\ listOfUAIdToExclude = {} /\ ticked = {}
       /\ itemNotSelected = 0 /\ ~ isIndeterminate
       /\ ~ isAllChecked => selectedItemCount = 0

\* Nothing is selected.
SelectionCleared ==
  /\ ~ isAllChecked /\ ~ isIndeterminate /\ selectedItemCount = 0
  /\ listOfUAIdToInclude = {} /\ listOfUAIdToExclude = {}

\* Under a dialog the selection stays the one that was compared, unless the
\* debounced search comes: it clears the selection, and the list stays until the
\* count of an operation asked before that search is answered.
DialogAgrees(d) ==
  /\ WithinThreshold(d.checked) /\ d.search <= submits
  /\ d.search = submits /\ d.settled =>
       /\ PreparedList = listOfUACriteriaSearch /\ Good(PreparedList, d.checked)
       /\ clean => Settled /\ (isAllChecked => totalResults = hits[query])
  /\ d.search # submits => SelectionCleared
  /\ d.search # submits /\ d.settled =>
       /\ ~ armed
       /\ \A c \in calls : c.kind = "action" => c.q # query
       /\ clean => Good(listOfUACriteriaSearch, d.checked)

DialogInv == \A k \in DOMAIN dialogs : DialogAgrees(dialogs[k])

\* The inductive invariant behind PagesInOrder, NoMoreResultsIsTrue, SpinnerIsTrue,
\* SelectionIsOne and OperationWithinThreshold: the calls, the list, the footer,
\* the total, the boxes and the dialogs agree.
PageInv ==
  /\ TypeOK /\ ListInv /\ FooterInv /\ TotalInv
  /\ SelectionInv /\ DialogInv /\ OperationWithinThreshold

\* A search that was submitted with criteria stops turning.
SearchEnds ==
  (pending /\ submitted /\ query # 0) ~> ~ (pending /\ submitted /\ query # 0)
=============================================================================
