# Specifications of VITAM UI

TLA+ models of the parts of VITAM UI that keep state of their own, their model-checking runs and machine-checked
proofs about them. Paths are those of the repository below `src/`; `iam/` stands for
`src/api/api-iam/iam/src/main/java/fr/gouv/vitamui/iam/server/` and `logbook/` for
`src/commons/commons-logbook/src/main/java/fr/gouv/vitamui/commons/logbook/`; `ui/` stands for
`src/ui/ui-frontend/projects/`.

## 1. The system

VITAM UI is a set of Angular applications over Spring Boot services. Most of these services translate requests for
VITAM, the archival back end, and keep nothing. State lives in the IAM service (MongoDB), in CAS (tickets) and in the
pages of the Angular applications, which hold lists, selections and statuses that calls in flight are about to change.

| Part | State | Operations | Interactions |
|---|---|---|---|
| Event journal (`logbook/`) | collection `events`: status, last date of sending | `EventService.logCreate/logUpdate`; scheduled tasks `SendEventToVitamTasks` (primary instance) and `DeleteSynchronizedEventsTasks` (every instance) | events are written in the transaction of the business operation; VITAM records operations by id |
| Profiles (`iam/profile`) | `profiles`: application, tenant, level, enabled, roles | create, patch; update, for external parameters only | referenced by groups |
| Groups (`iam/group`) | `groups`: profileIds, level, enabled, units | create, patch, `updateProfilesById` | reference profiles; referenced by users |
| Users (`iam/user`) | `users`: groupId, a copy of the level of the group, status, password, otp | create, update, patch, patchAnalytics | reference a group |
| Tenants, owners, customers (`iam/tenant`, `iam/owner`, `iam/customer`) | one document each | create (a tenant brings its profiles and extends the admin group), update, patch | initialisation of a tenant in VITAM |
| External parameters (`iam/externalParameters`, `iam/externalparamprofile`) | access contract, thresholds, and a profile | create, patch | save a profile behind the back of `ProfileService.patch` |
| Login, tokens, subrogation (`iam/cas`, `iam/subrogation`, `iam/security`) | `tokens` and `subrogations` with TTL indexes, failed attempts of a user | login, token read and extended at each request, logout, accept, decline | CAS, every API |
| Identity providers and provisioning | `providers` | CRUD; call to an external service at login | CAS reloads its copy every minute |
| Discussions (`iam/discussion`) | messages and read marks | CRUD; purge of closed transactions | asks VITAM for the status of a transaction |
| Archive search, collect, ingest, referential, PASTIS | none | translate to VITAM or convert files | VITAM |
| Security contexts, gateway, security and REST libraries | contexts of applications | CRUD, filters | none |
| Archive search page (`ui/archive-search`) | the criteria, the list, its page number and total, the boxes ticked, the calls in flight | search, scroll, order, tick, exact count, bulk operations | the archive search API; the leaves tree; a counter component |
| Leaves tree (`ui/vitamui-library`, shown by `ui/archive-search`) | for each node the children shown and waiting, two page numbers, flags | open, load more, change the view | the searches of the page replace it; the archive search API |
| Transactions (`ui/collect`) | the status shown, the pending SIP imports, two kinds of pollings | validate, send, edit, abort, import a SIP | the collect API; VITAM moves the transaction meanwhile |
| Other Angular applications, deployment | a form or a list each | load, edit, save | the APIs |

What is hard there is not in one method. It is in the *outbox* of events (crashes, lost answers, two schedulers, status
read long before it is used), in the *references between documents* that no database constraint keeps (concurrent
transactions that write different documents, copies, one path that skips the checks of another), in *sessions*
(read, extend, save against delete; expiry), and in the *pages*: nothing cancels the calls of an older search or of an
older status, answers are handled in any order, by what the fields of the page say when they come, and the user goes on
clicking between a call and its answer. `PROJECT.json` lists every component and every hazard at its line.

What makes each part correct:

* journal: no committed event is lost; SUCCESS means recorded; one REST call is one operation of VITAM; all is
  journaled in the end, and nothing is kept for ever;
* identity: customers never share a group, profile or tenant; a group has one profile for an application and a tenant;
  group, profiles and users agree on the level; what is referenced is enabled;
* search page: the list is the pages of the current search, in order; the spinner, the footer, the boxes, the counter and
  what a bulk operation receives say one and the same thing; no operation passes its threshold;
* leaves tree: a child is there once, with the right count, in order; when there is no more to load, none is missing;
* transactions: no validation offered during an import that is tracked; the validation is never blocked for ever; the status shown is right;
* sessions: a token that was deleted stays deleted; a subrogation token lives no longer than its subrogation; at most one
  subrogation for a super user and for a surrogate;
* account: failed attempts are counted, a blocked user stays so for the delay, and an administrator's change is not undone;
* tenancy: a tenant, its owner, its profiles have one customer; sequences give distinct identifiers; every tenant of a
  customer is open to its admin group.

## 2. Modules

| Module | What it is |
|---|---|
| `Journal` | abstract: what the journal promises (submit, record, forget) |
| `EventJournal` | the outbox: `EventService`, both scheduled tasks, crashes, VITAM; refines `Journal` |
| `EventJournal_proofs` | its theorems |
| `MCEventJournal` | its instances for TLC |
| `Identity` | profiles, groups, users and tenants, and the REST calls that change them, several in flight |
| `Directory` | abstract: the identity referential as operations made at once on what is stored |
| `Identity_proofs` | its theorems |
| `Identity_directory_proofs` | that `Identity` implements `Directory` |
| `MCIdentity` | its instances for TLC |
| `ArchiveSearch` | the archive search page: list, count, selection and bulk operations, with several calls in flight |
| `ArchiveSearch_proofs`, `MCArchiveSearch` | its theorems, its instance |
| `LeavesTree` | a node of the tree of results, its loads, its two views, the searches that replace it |
| `LeavesTree_proofs`, `MCLeavesTree` | its theorems, its instance |
| `Transactions` | a transaction in the Collect application, its commands and pollings; `collect_transactions.cfg` instantiates it |
| `Transactions_proofs` | its theorems |

Operators named `Operation_Something` are mutants: a wrong version of `Operation` that must break a property. No
specification uses them.

### EventJournal

| Model | Code |
|---|---|
| `status`, `age` | `Event.status`, time since `Event.synchronizedVitamDate` (`logbook/domain/Event.java`) |
| `task`, `todo`, `group`, `outcome`, `doomed` | the local variables of the two `run()` methods; an instance has one scheduling thread, so they never run together on it |
| `operation[m]` | what VITAM recorded under the id of the event `m` (external) |
| `Commit` | a business transaction that called `EventService.logCreate/logUpdate` commits |
| `StartRun` | `run()` reads the eligible events and stacks them by request |
| `SendToVitam` | `sendToVitam` of a group, up to its `finally`: the converters throw, or VITAM records and answers 201, records and the answer is lost, answers 409, or fails |
| `UpdateEventStatus` | the `finally`: `updateMulti` by ids, which may stop partway |
| `StartDeletion`, `DeleteById` | `DeleteSynchronizedEventsTasks.run()`: the query, then one deletion at a time |
| `Crash`, `Tick` | restart of an instance; time |

The call to VITAM and the write of the status are two steps, so a crash, another instance or a new transaction may come
between. `Primary` is the set of instances for which `InstanceService.isPrimary()` holds; the deployment makes it one,
and the property is true by default when it is missing.

VITAM is assumed to record an operation id once and to answer a conflict afterwards, as the code expects (it tests for
`Status.CREATED` and names `CONFLICT`). `updateMulti` is not a transaction, hence the partial updates.

### Identity

| Model | Code |
|---|---|
| `tenants`, `profile`, `group`, `user` | the collections, reduced to existence, enabled, level, profileIds, groupId |
| `call[c]` | what the REST call `c` is about to write, once its checks passed |
| `CreateProfile`, `PatchProfile` | `ProfileService.create`, `patch` |
| `PatchExternalProfile` | `ExternalParamProfileService.patch` |
| `CreateGroup`, `PatchGroup` | `GroupService.create`, `patch` |
| `CreateTenant` | `TenantService.create` with `saveProfile`, `addAdminProfilesToAdminGroup` |
| `CreateUser`, `UpdateUser`, `PatchUser`, `PatchAnalytics` | `UserService` |
| `Commit`, `Abort` | the end of a MongoDB transaction |

MongoDB gives snapshot isolation: a transaction reads the state in which it began, and of two that write a same
document one gets a WriteConflict. So the reads and checks of a service method are one step, its commit is another, and
`Commit` makes the transactions in flight that write one of its documents idle again. Two transactions that write
*different* documents do not see each other. `patchAnalytics` has no `@Transactional`: what it writes is not withdrawn.
A save through Spring Data writes the whole document; fields the model leaves out (names, roles, units...) are written
back unchanged as far as the model can tell, and a patch of those fields alone is left out: it could only make another
call fail, which `Abort` does.

The caller is an administrator who may act on every level, of whichever customer: the controllers check the customer and
the tenant of the session, the services check again, and the model relies on the services alone. Nothing deletes a
profile, a group or a user in the code, and nothing does in the model. Each customer starts as
`InitCustomerService.initCustomer` leaves it, without the groups and users of `customer-init.yml`.

### ArchiveSearch

`ui/archive-search/.../archive-search.component.ts`, and the `ArchiveUnitCountComponent` of the library that it shows.

| Model | Code |
|---|---|
| `query`, `counted`, `hasCriteria` | `criteriaSearchList`, `search$`, `searchCriterias`: a search is its number, and whether it has criteria |
| `pages` | `archiveUnits`, as the pages appended to it |
| `pending`, `canLoadMore`, `currentPage`, `pageNumbers`, `totalResults`, `waitingToGetFixedCount`, `isAllChecked`, `isIndeterminate`, `selectedItemCount`, `itemNotSelected`, `listOf...` | the fields of these names |
| `ticked` | what the boxes of the rows show: set by the template when the header or a row is clicked and when a page comes |
| `Submit`, as `ClickSearch` or `DebouncedSearch` | `submit`, from the button, or 400 ms after the order or a filter has changed |
| `LoadMore`; `PageAnswered`, `PageFailed` | `loadMore`; the two callbacks of `callVitamApiService` |
| `LoadExactCount`, `LinkAnswered`, `LinkFailed` | the link of the counter |
| `LaunchFacetsComputing`, `FacetsCount...` | `launchFacetsComputing`, before and after its `await` |
| `CheckParentBox`, `CheckChildrenBox` | `checkParentBoxChange`, `checkChildrenBoxChange` |
| `LaunchBulkOperation`, `ActionCount...`, `Compare` | `launchBulkOperationWorkflow`, before and after its `await`: nine operations share it |
| `dialogs`; `Confirm`, `Cancel` | the dialogs for large but allowed operations, one over the other; the closure of the operation, which runs when its dialog is confirmed |
| `AddCriterion`, `RemoveLastCriterion`, `ClearCriteria` | the criteria panel; the last two hide the table and so destroy the counter |

A handler is one step, since JavaScript runs it whole; an `await` splits it in two. A call is handled in whatever order it
is answered: nothing in the code cancels the call of an older search. Two variables are histories: `clean`, that no answer of
an older search was handled since the submit and no exact count was put behind a selection that does not follow it, and
`failed`, the pages that could not be read. The properties are about a clean page; what an unclean one shows is what the code
does, and the hazards say where.

A closure reads the fields of the page when its dialog is confirmed: all the operations but the eliminations read
`selectedItemCount`, the reassignment prepares its list again, the others read `listOfUACriteriaSearch`. Only a debounced
search, and answers, can come under a dialog. The search clears the selection, and what is then launched is not what was
confirmed: the reassignment gets a list without any criterion, the others the list that was compared and a count of 0.
`OperationWithinThreshold` tells the two cases apart (`crossed`) and says of each what the operation is given.

### LeavesTree

`ui/vitamui-library/.../leaves-tree.service.ts` and `leaves-tree-api.service.ts`, under the `LeavesTreeComponent` and the
`FilingHoldingSchemeComponent` of the archive search.

| Model | Code |
|---|---|
| `kind`, `corpus` | the node is an archive unit, a virtual path or the node of the orphans; what VITAM holds under it (external) |
| `search`, `tree` | `searchCriterias` of the service, of the last search sent; the search whose facets made the nodes and `nodesCountMap` |
| `children`, `waitingChildren`, `counted` | the fields of the node, the last one as the children whose `count` is positive |
| `realDirectNodePage`, `realDirectNodeMatchingPage` | the page numbers of the node, among all children and among those that match |
| `FirstToggle`, `FoldersAnswered`, `MatchingPathsAnswered`, `PathsAnswered`, `PageAnswered` | the chain of `await` of `loadNodeChildrenOnFirstToggle` and `loadOrphanNodeChildrenOnFirstToggle`; each request reads the criteria when it is sent |
| `Merge`, `Shown`, `ElementsToShow` | `deduplicateAndMergeChildren`, `getElementNbToShow` |
| `LoadMore` | `loadMoreFromNode`, `loadMoreFromOrphanNode` |
| `CallFailed` | a request fails: the promise never settles, or is rejected |
| `SwitchViewAllNodes` | the complete view, or that of the results |
| `SendSearch`, `SearchAnswered` | a search of the page: its criteria reach the service at once, its facets replace the nodes when they come |

Children are numbers in the order of their titles, which is taken for the order VITAM sorts by. `LoadMore` needs the button,
so one load at most is in flight for a node; nodes share only what `search` and `tree` stand for, so one node is enough.

The pages of all the children and those of the children that match are two queries. Under an archive unit and for the
orphans the first keeps the units of type INGEST (`AnyChildren`), the second does not. `CountsAreTrue`, `ResultsInOrder` and
`NothingLeft` say what holds whatever matches, and what holds when every child that matches is among `AnyChildren`
(`MatchingAreRead`). When one is not, the two page numbers no longer speak of the same children: an INGEST child may be
shown before the page of results that counts it, later results may follow children with later titles, and the complete view
may end with results left. TLC shows the first and the last of them when the condition is dropped on the instance of `leaves_tree`, and
the second with a first load of 2 pages.

### Transactions

`ui/collect/.../transaction-list.component.ts`, `transactions.service.ts`, `polling.ts`, `sip-import-tracking.service.ts`.

| Model | Code |
|---|---|
| `server`, `imports`, `automaticIngest` | VITAM: the transaction, the operations that import SIPs, the project (external) |
| `status`, `isAutomaticIngest` | what the row shows, what the component knows of the project |
| `commands` | the PUT calls in flight, and what became of them |
| `polls`, `trackers` | the `pollUntil` that follow a validation, those of imports; `read` is the answer under way |
| `pending` | the transaction is in `pendingTransactionIds$` |
| `Upload`, `UploadAnswered`, `UploadFailed` | a SIP is sent; `handleUploadSuccess` and `trackSipImport`; an error |
| `TrackerTick/Answered/Timeout/Failed`, `PollTick/Answered/Timeout/Failed` | `pollUntil`: `timer` and `switchMap`, `takeWhile`, `takeUntil`, `catchError`; `finalize` |
| `ClickValidate`, `Confirm`, `Cancel`, `ClickOther` | the buttons of the row, with their conditions |
| `CommandAnswered` | the callbacks of the commands |
| `Process`, `Progress`, `ImportEnds` | VITAM accepts, refuses or loses a command; goes on by itself |

The status a polling reads is fixed when the server answers, and handled later: commands may be accepted in between.
`raced` remembers that one was; `watched` the imports that are tracked and that VITAM has not ended, until their
polling fails or times out. `OfferedAfterImport` is about the button, which is disabled while an import is tracked. The dialog
that a batch in error opens is not: `ValidationWaitsForImport`, what the doc of `SipImportTrackingService` asks for, is
broken when an upload is answered under it (`collect_validation`). An import uploaded while another is tracked is never
tracked, by the early return of `trackSipImport`, and none of the two speaks of it.

## 3. Runs

| Run | Shows |
|---|---|
| `journal_single` | one primary of two instances, one transaction per request, two crashes, a malformed event. Safety: `OneOperationPerRequest`, `SuccessIsFinal`, the inductive `RequestInv`. Liveness: `JournaledEventually`, `PurgedEventually` |
| `journal_pair` | two primaries, two transactions in a request, one partial update. `NoLoss`, `SuccessIsTrue`, the inductive `OutboxInv`, and `JournalSpec`: refinement of `Journal` |
| `journal_settle` | *violation*: after a lost answer an event stays in ERROR although VITAM holds it |
| `journal_orphan` | *violation*: after a lost answer, the event of a second transaction of the call is never journaled |
| `identity_calls` | two calls in flight, two customers: `GroupSlots`, `UserLevels`, `GroupLevelIsFixed`, the inductive `IdentityInv`, and `DirectorySpec`: refinement of `Directory`, which keeps the customers apart and never loses the profile of a tenant |
| `identity_serial` | one call at a time: `CustomersApart`, `GroupLevels`, `ReferencesEnabled` (but external parameter profiles, which `ExternalParamProfileService:402` disables unchecked), the inductive `SerialInv` |
| `identity_skew` | *violation*: `GroupLevels` with two calls in flight (write skew) |
| `identity_null` | *violation*: a patch with an explicit null level |
| `archive_search` | two searches, calls answered or failing in any order: `PagesInOrder`, `NoMoreResultsIsTrue`, `SpinnerIsTrue`, `SelectionIsOne`, `OperationWithinThreshold`. Liveness: `SearchEnds` |
| `leaves_tree` | a node, its loads, two searches: `ReadOnce`, `CountsAreTrue`, `ResultsInOrder`, `NothingLeft`. Liveness: `LoadEnds` |
| `collect_transactions` | two imports and two commands: `BlockedWhilePolled`, `OfferedAfterImport`, `ValidatedIsTrue`, the inductive `SessionInv`. Liveness: `PollingEnds`, `BlockingEnds` |
| `collect_validation` | *violation*: a validation is confirmed after an import began under its dialog |

The five violations are explained in `findings` of `PROJECT.json`. Why the passing runs stand next to them: the level of
a profile and that of its group are read by two different calls that write two different documents, so nothing but luck
keeps them equal; group and user, on the contrary, agree even under concurrency, because a group has profiles from its
creation and so may never change its level.

### Bounds

* Journal: three events of two requests. One request has two events, so a group may be split, partly updated, partly
  deleted; the other shares its nanoTime with the first, so the order between requests is not relied upon. Two instances are
  enough for every pair of tasks to race. Crashes (`MaxCrashes`) and partial updates (`MaxTorn`) are counted: liveness asks
  for finitely many of them anyway; they are 2 and 0 in `journal_single`, 0 and 1 in `journal_pair`. With two primaries a
  crash adds nothing to safety but states: an instance that never takes its next step is one that crashed, and the other
  goes on. `RetryAge` is 1, `Ttl` 1 or 2: what matters is old enough or not. `age` stops at the larger.
* Journal runs do not check deadlock: when all is journaled and purged, the bounded system stops.
* Identity: two customers, with two tenants more for one of them, so that both may be created at once; a custom profile for the
  slot of a profile that a new tenant brings; one group and one user besides those of the admins; two levels; two calls. 236 521
  states. `identity_serial` has one new tenant, an external parameter profile, a custom profile on the tenant of the other
  customer and one call. That last profile with two calls in flight is too slow for a run: there the proofs speak. `CallSymmetry`
  permutes the calls, which are alike.
* Archive search: a page is 2 units and the count stops at 4. One search finds 5 units, so that its total is inexact, its
  exact count differs and its last countable page is full; the other finds 3, a short last page. Thresholds 1 and 4 make an
  operation silent, confirmed or refused. Rows of index 2 can be ticked one by one: the row of the second page, and none of
  the first, whose rows are ticked through the header; an index stands for any row, as rows differ by their page only. Two
  searches and two calls in flight give every order of two answers, of one search or of two. 673 207 states.
* Leaves tree: six children, pages of 1 and a first load of 3 pages, as 10 and 30 in the code, hence up to four loads; every
  subset of the children may match, one may be a virtual path, one is a folder, and the folder and the first child may be of
  another type than INGEST. With INGEST children only, larger instances (every set of virtual paths and folders, 2880 corpora;
  pages of 2 with nine children) were run once without a violation and are too slow to keep.
* Transactions: two imports, so that the second is refused by `trackSipImport`; two commands, so that one may cross the
  answer of the other; two polls before a polling stops (an hour in the code), so that it reads, waits and times out.
* `archive_search` and `collect_transactions` do not check deadlock: with no search or command left the page may rest.

### Fairness

`FairSpec` asks for what the scheduler gives: a started task goes on (weak fairness); a task that is due gets the only
scheduling thread of its instance again and again (strong, as the other task may hold the thread when it is due);
time passes. Of VITAM it asks that, called over and over with an operation id, it once answers properly, 201 or 409
(strong): the doc says events are retried until sent, and with a VITAM that never answers nothing can hold. Nothing asks
for a call to succeed at once, for a crash not to come, or for a transaction to commit.

In the pages, nothing is asked of the user nor of VITAM. In `ArchiveSearch` and `LeavesTree` a browser ends every HTTP call,
with an answer or an error (weak fairness, per call). In `Transactions` the timers fire (weak fairness of the pollings):
each polling ends by its own limit even when no answer ever comes.

## 4. Proofs

All for any values of the constants that satisfy the named assumptions of the modules.

`EventJournal_proofs`, without further assumption:

* `TypeCorrect`, `NothingLost` (`NoLoss`), `SuccessTrue` (`SuccessIsTrue`), from the inductive `OutboxInv`. `NoLoss` is not
  inductive: the deletion trusts `doomed`, `doomed` trusts the status, the status trusts the `outcome` a task still holds;
  `OutboxInv` says of each that it is about events VITAM has. Crashes are harmless since they only forget.
* `OutboxImplementsJournal`: the initial state and each action map to `Journal`; sending maps to `Record` or a stutter,
  `DeleteById` to `Forget`, `Commit` to `Submit` or, for a transaction without events, a stutter.

With `Regular` (at most one primary, `MaxTorn` = 0, one transaction per request):

* `OneOperation` (`OneOperationPerRequest`) and `SuccessFinal` (`SuccessIsFinal`), from `RequestInv`: the events of a
  request always have the same status and age while they are pending, so every group is a whole request. Each part of
  `Regular` is needed: `journal_orphan` shows what two transactions do.

`Identity_proofs`, for any number of calls in flight:

* Whatever the patches carry, a null level included: `TypeCorrect`, and from the inductive `LinksInv` (theorem `Linked`)
  `Apart` (`CustomersApart`) and `Slots` (`GroupSlots`). `LinksInv` says that what a call is about to write is sound by the
  *present* documents, not by those the call had read. It is inductive because the facts the checks establish are stable:
  customers and tenants never change and stored documents are never deleted. The enabled flag and the level of a profile are
  not stable, and these are exactly the properties that fail under concurrency. Before the proof TLC checked `LinksInv`
  on the instance of `identity_calls` with a null level among the patches (949 353 states).
* When no patch carries a null level (`NullLevel \notin PatchLevel`; `identity_null` shows why): with `LevelsInv`, which says that a
  stored group is about to keep its level and a user about to have that of its group, `Sound` (`IdentityInv`), `LevelsOfUsers`
  (`UserLevels`) and `LevelsOfGroups` (`GroupLevelIsFixed`).
* `Identity_directory_proofs`: a call checks one state and commits on a later one; `FreshInv` (theorem `Fresh`) is what of
  its checks still holds then and is not about soundness: it writes one document or one new tenant, the tenant does not
  exist yet, its admin group is still the one that was read. This holds as two transactions that write a same document do
  not both commit, and since only `CreateTenant` writes the group of an admin user; `patchAnalytics`, outside of any
  transaction, writes an admin user back as it is. From it, `EveryTenantIsManaged`: the hierarchy profile of every tenant is,
  and stays, in the admin group of its customer. Neither needs an assumption on the patches.
* `ConcurrentCallsImplementDirectory` (`DirectorySpec`), when no patch carries a null level: from `IdentityInv`, `FreshInv`
  and `NoNullLevel`, a commit maps to `AddProfile`, `PutGroup`, `OpenTenant`, `PutUser` or, for a change of what
  the directory does not speak of, a stutter. What `Directory` leaves out (the levels of profiles, who is enabled) is
  what concurrent calls do break. TLC checked `FreshInv` on the instance of `identity_calls` before it was proved.
* In `Identity_proofs` again, with one call at a time (`\A c1, c2 \in Call : c1 = c2`) and no null level in a patch, `Serial` (`SerialInv`), and from it `LevelsOfProfiles`
  (`GroupLevels`) and `EnabledReferences` (`ReferencesEnabled`). The invariant also needs that admin users, hence their groups, are
  at the root level, as a new tenant adds a root profile without a check.

`ArchiveSearch_proofs`, for any hits, rows, thresholds and number of searches and of calls in flight, when the size of a page
divides the count threshold (`SizesAssumption`; a page is 10 units): `TypeCorrect`, and from the inductive `PageInv`
`ListIsInOrder` (`PagesInOrder`), `NoMoreResultsTellsTheTruth` (`NoMoreResultsIsTrue`), `SpinnerTellsTheTruth` (`SpinnerIsTrue`), `SelectionAgrees` (`SelectionIsOne`) and
`OperationsAreWithinThreshold`. None of them is inductive alone. `ListInv` says that at most one call about the list is in
flight and that it asks for the page `currentPage` names: that is why an answer, handled without a search number, lands in its
place. `TotalInv` says that no page goes beyond the total (here the assumption is needed), so that all ticked minus the exclusions
is a count. `FooterInv` says that, once no page is in flight and none has failed, the number of pages is the one computed from
the size of the last page listed, and that `canLoadMore` compares the two; that no unit lies beyond this page when it says
no is the arithmetic of `PageNumbers` (`PagesBeyond`, `AllPagesShown`). `SelectionInv` follows the boxes, also before the first page is listed. `DialogInv` says that the list an open dialog
will use, and the selection, are still those that were compared, or that a search has cleared the selection since and left
the list until the count of an older operation is answered.

`LeavesTree_proofs`, for any children, page sizes and corpora: `TypeCorrect`, `EachChildOnce` (`ReadOnce`), `CountsRight`
(`CountsAreTrue`), `OrderOfResults` (`ResultsInOrder`) and `NothingMissed` (`NothingLeft`). The argument is about the two page
numbers. While the search is that of the tree they are equal, until the pages of the children that match are exhausted, and
whatever they have passed is read (`CountInv`, `EndInv`); what is shown with results is an initial part, by title, of all that has
results (`OrderInv`). `MatchingAreRead` is needed for the first of these facts, and where the theorems name it. The arithmetic of the two sizes is in `Division`, `PageBetween` and `PagesEnded`.

`Transactions_proofs`, for any number of imports, commands and polls: `TypeCorrect`, and from the inductive `SessionInv`
`ValidationIsUnblockedOnce` (`BlockedWhilePolled`), `ValidationIsOfferedAfterImport` (`OfferedAfterImport`) and `RowIsTrue`
(`ValidatedIsTrue`). `SessionInv` adds that an import waited for is not over and is polled, that an answer under way that
says COMPLETED is true, and that a status under way that says VALIDATED is still true.

Only model-checked: the liveness properties `JournaledEventually`, `PurgedEventually`, `SearchEnds`, `LoadEnds`, `PollingEnds` and `BlockingEnds`, as liveness under fairness (and ENABLED) is out of the reach
of the prover.

## 5. Not modelled, and why

* Names, roles, units, e-mails, OTP, passwords, levels a caller may not act on: they only refuse calls, and no property
  is about them yet. The write of a null in `enabled` or `profileIds` fails in the code (unboxing, `findAllById`), so only
  the null level is an input.
* The tenant an operation of the journal is filed under, two events of a request with the same nanoTime.
* `TenantService.update` and `patch`, owners, customers: see the plan.
* Archive search: the actions outside the shared workflow (reclassification, computed inherited rules), and the question an
  elimination asks VITAM before it enters the workflow (whether the selection has units of the holding scheme or others): an
  elimination starts in the model with that answer, at the page. What a criterion says, facets, the history of searches, the forms that follow a bulk operation, roles.
  A criterion is added and removed as a whole. The units VITAM finds for a search do not change while it is shown.
* Leaves tree: how deep a virtual path is, the limit of 1000 folders or paths in a facet, a change of the holding units between
  two pages, titles that VITAM and `localeCompare` sort differently.
* Transactions: other sessions on the same transaction, a reload of the page, which forgets the pollings, and the second view
  with the same commands (`archive-search-collect.component.ts:1333-1393`). Statuses that offer the same commands are one
  (`SENT` for `SENT`, `ACK_OK`, `ACK_WARNING`; `KO` for `KO`, `ACK_KO`).
* The services that only translate for VITAM, conversions of files, CAS's own web flow, the other Angular applications (a form or
  a list each), and templates. They are most of the lines of the repository; what they compute is not what goes wrong in them.

## 6. Plan

Done: `Journal`, `EventJournal`, `Identity`, then the pages with state of their own, `ArchiveSearch`, `LeavesTree`,
`Transactions`, each with its proofs. Next, in this order:

1. `Session`: tokens and subrogations (`iam/security/IamUserAuthentificationService`, `iam/cas/service/CasService`,
   `iam/subrogation`): requests that extend a token while a logout deletes it, TTL indexes that are late, two subrogations
   created at once. Abstract specification `Sessions`: a session is open, then closed, never open again.
   Proofs: types, and the part of it that holds (subrogation tokens are never extended).
2. `Account`: login with failed attempts, blocking and its delay, status changed by an administrator, password change,
   provisioning. Invariants on the counter and the status; action property on what a login may undo.
3. `Tenancy`: customer creation, tenant create, update and patch, owners, sequences, initialisation in VITAM before the
   commit. It composes with `Identity` for what follows a tenant that changes.
4. `Discussions` and `Providers`: the purge against users who write; the reloaded copy of the providers.
5. `EventJournal` again: the tenant of an operation, equal dates.
6. The page of the archive units of a transaction, as an instance of `ArchiveSearch` without bulk operations, and with the
   commands of `Transactions`; its own leaves tree.
