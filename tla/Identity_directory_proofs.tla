------------------------ MODULE Identity_directory_proofs ------------------------
(***************************************************************************)
(* Identity implements Directory, for any customers and any number of      *)
(* calls in flight.                                                        *)
(*                                                                         *)
(* A call has checked an earlier state than the one it commits on.         *)
(* LinksInv and LevelsInv say that the documents it leaves are sound in    *)
(* any case; that its commit is one operation of the directory also takes  *)
(* what no other call can have changed meanwhile, FreshInv.                *)
(***************************************************************************)
EXTENDS Identity_proofs

-------------------------------------------------------------------------------
(* What is still so when a call commits *)

OnlyProfiles(w) == w.tenants = {} /\ DOMAIN w.groups = {} /\ DOMAIN w.users = {}
OnlyGroups(w) == w.tenants = {} /\ DOMAIN w.profiles = {} /\ DOMAIN w.users = {}
OnlyUsers(w) == w.tenants = {} /\ DOMAIN w.profiles = {} /\ DOMAIN w.groups = {}

\* A call writes at most one profile, which is not a default one to be.
FreshProfile(w) ==
  /\ OnlyProfiles(w)
  /\ DOMAIN w.profiles \subseteq StoredProfiles \cup (Profile \ Readonly)
  /\ \A p, q \in DOMAIN w.profiles : p = q

\* Or one group, not of an admin user.
FreshGroup(w) ==
  /\ OnlyGroups(w)
  /\ \E g \in Group : DOMAIN w.groups = {g} /\ ~ ReadonlyGroup(g)

\* Or one user; the admin user as it is stored now.
FreshUser(w) ==
  /\ OnlyUsers(w)
  /\ \E u \in User : DOMAIN w.users = {u} /\ (ReadonlyUser(u) => w.users[u] = user[u])

\* Or a tenant that does not exist yet, its profiles, and the group of the admin
\* user as it is stored now with the hierarchy profile of the tenant.
FreshTenant(w) ==
  /\ w.transactional
  /\ DOMAIN w.users = {}
  /\ \E t \in Tenant :
       LET g == AdminGroup[TenantCustomer[t]]
       IN /\ w.tenants = {t}
          /\ t \notin tenants
          /\ DOMAIN w.profiles = DefaultProfiles(t)
          /\ DOMAIN w.groups = {g}
          /\ w.groups[g].level = group[g].level
          /\ w.groups[g].profiles = group[g].profiles \cup {HierarchyProfile[t]}

FreshCall(w) == FreshProfile(w) \/ FreshGroup(w) \/ FreshUser(w) \/ FreshTenant(w)

\* The admin users stay in their group, and what a call is about to write does
\* not depend on anything another call may have changed.
FreshInv ==
  /\ \A k \in Customer : AdminUser[k] \in StoredUsers /\ user[AdminUser[k]].group = AdminGroup[k]
  /\ \A c \in Call : FreshCall(call[c])

LEMMA FreshIdle == FreshCall(Idle)
  BY DEF FreshCall, FreshProfile, OnlyProfiles, Idle, Nothing

LEMMA BeginFresh ==
  ASSUME TypeOK, FreshInv, NEW c \in Call, NEW w,
         FreshCall(w), Begin(c, w)
  PROVE  FreshInv'
  <1>1. UNCHANGED <<tenants, profile, group, user>>
    BY DEF Begin
  <1>2. \A d \in Call : FreshCall(call'[d])
    BY DEF TypeOK, FreshInv, Begin
  <1>3. \A d \in Call : FreshCall(call[d])'
    BY <1>1, <1>2
    DEF FreshCall, FreshProfile, FreshGroup, FreshUser, FreshTenant, OnlyProfiles, OnlyGroups,
        OnlyUsers, StoredProfiles
  <1>4. QED
    BY <1>1, <1>2, <1>3 DEF FreshInv, StoredUsers

LEMMA ProfileCallsFresh ==
  ASSUME TypeOK, FreshInv, NEW c \in Call, NEW p \in Profile,
         CreateProfile(c, p) \/ PatchProfile(c, p) \/ PatchExternalProfile(c, p)
  PROVE  FreshInv'
  <1>1. p \in StoredProfiles \/ p \notin Readonly
    BY DEF CreateProfile, PatchProfile, PatchExternalProfile
  <1>2. PICK doc : Begin(c, Transaction({}, Write(p, doc), Nothing, Nothing))
    BY DEF CreateProfile, PatchProfile, PatchExternalProfile
  <1> DEFINE w == Transaction({}, Write(p, doc), Nothing, Nothing)
  <1>3. FreshProfile(w)
    BY <1>1 DEF FreshProfile, OnlyProfiles, Transaction, Write, Nothing
  <1>4. QED
    BY <1>2, <1>3, BeginFresh DEF FreshCall

LEMMA GroupCallsFresh ==
  ASSUME TypeOK, LinksInv, FreshInv,
         NEW c \in Call, NEW g \in Group, CreateGroup(c, g) \/ PatchGroup(c, g)
  PROVE  FreshInv'
  <1>1. ~ ReadonlyGroup(g)
    <2>1. CASE CreateGroup(c, g)
      <3>1. GroupCustomer[g] \in Customer
        BY CustomersAssumption
      <3>2. AdminGroup[GroupCustomer[g]] \in StoredGroups
        BY <3>1, CustomersAssumption, LevelsAssumption DEF FreshInv, LinksInv, SoundUser
      <3>3. g \notin StoredGroups
        BY <2>1 DEF CreateGroup, StoredGroups
      <3>4. QED
        BY <3>2, <3>3 DEF ReadonlyGroup
    <2>2. CASE PatchGroup(c, g)
      BY <2>2 DEF PatchGroup
    <2>3. QED
      BY <2>1, <2>2
  <1>2. PICK doc : Begin(c, Transaction({}, Nothing, Write(g, doc), Nothing))
    BY DEF CreateGroup, PatchGroup
  <1> DEFINE w == Transaction({}, Nothing, Write(g, doc), Nothing)
  <1>3. FreshGroup(w)
    BY <1>1 DEF FreshGroup, OnlyGroups, Transaction, Write, Nothing
  <1>4. QED
    BY <1>2, <1>3, BeginFresh DEF FreshCall

LEMMA TenantCallsFresh ==
  ASSUME TypeOK, FreshInv, NEW c \in Call, NEW t \in Tenant, CreateTenant(c, t)
  PROVE  FreshInv'
  <1> DEFINE g == AdminGroup[TenantCustomer[t]]
             doc == [group[g] EXCEPT !.profiles = @ \cup {HierarchyProfile[t]}]
             new == [p \in DefaultProfiles(t) |-> [status |-> "enabled", level |-> Root]]
             w == Transaction({t}, new, Write(g, doc), Nothing)
  <1>1. g = user[AdminUser[TenantCustomer[t]]].group
    BY CustomersAssumption DEF FreshInv
  <1>2. t \notin tenants /\ g \in StoredGroups /\ Begin(c, w)
    BY <1>1 DEF CreateTenant
  <1>3. g \in Group /\ group[g] \in GroupDoc
    BY <1>2 DEF StoredGroups, TypeOK
  <1>4. doc.level = group[g].level /\ doc.profiles = group[g].profiles \cup {HierarchyProfile[t]}
    BY <1>3 DEF GroupDoc
  <1> HIDE DEF doc, new, g
  <1>5. DOMAIN new = DefaultProfiles(t)
    BY DEF new
  <1>6. FreshTenant(w)
    <2>1. /\ w.transactional /\ w.tenants = {t} /\ w.profiles = new
          /\ w.groups = Write(g, doc) /\ w.users = Nothing
      BY DEF Transaction
    <2>2. DOMAIN Nothing = {} /\ DOMAIN Write(g, doc) = {g} /\ Write(g, doc)[g] = doc
      BY DEF Nothing, Write
    <2>3. QED
      BY <1>2, <1>4, <1>5, <2>1, <2>2 DEF FreshTenant, g
  <1>7. QED
    BY <1>2, <1>6, BeginFresh DEF FreshCall

LEMMA UserCallsFresh ==
  ASSUME TypeOK, FreshInv, NEW c \in Call, NEW u \in User,
         CreateUser(c, u) \/ UpdateUser(c, u) \/ PatchUser(c, u) \/ PatchAnalytics(c, u)
  PROVE  FreshInv'
  <1>1. ASSUME NEW w, NEW doc, ReadonlyUser(u) => doc = user[u],
               w.tenants = {}, w.profiles = Nothing, w.groups = Nothing, w.users = Write(u, doc),
               Begin(c, w)
        PROVE  FreshInv'
    <2>1. FreshUser(w)
      BY <1>1 DEF FreshUser, OnlyUsers, Write, Nothing
    <2>2. QED
      BY <1>1, <2>1, BeginFresh DEF FreshCall
  <1>2. CASE CreateUser(c, u) \/ UpdateUser(c, u) \/ PatchUser(c, u)
    <2>1. ~ ReadonlyUser(u)
      <3>1. CASE CreateUser(c, u)
        <4>1. u \notin StoredUsers /\ UserCustomer[u] \in Customer
          BY <3>1, CustomersAssumption DEF CreateUser, StoredUsers
        <4>2. QED
          BY <4>1 DEF ReadonlyUser, FreshInv
      <3>2. CASE UpdateUser(c, u) \/ PatchUser(c, u)
        BY <3>2 DEF UpdateUser, PatchUser
      <3>3. QED
        BY <1>2, <3>1, <3>2
    <2>2. PICK doc : Begin(c, Transaction({}, Nothing, Nothing, Write(u, doc)))
      BY <1>2 DEF CreateUser, UpdateUser, PatchUser
    <2>3. QED
      BY <1>1, <2>1, <2>2 DEF Transaction
  <1>3. CASE PatchAnalytics(c, u)
    <2> DEFINE w == [Idle EXCEPT !.users = Write(u, user[u])]
    <2>1. /\ w.tenants = {} /\ w.profiles = Nothing /\ w.groups = Nothing
          /\ w.users = Write(u, user[u])
      BY DEF Idle
    <2>2. Begin(c, w)
      BY <1>3 DEF PatchAnalytics
    <2> HIDE DEF w
    <2>3. QED
      BY <1>1, <2>1, <2>2
  <1>4. QED
    BY <1>2, <1>3

\* The admin user is written as it is stored.
LEMMA AdminsKept ==
  ASSUME TypeOK, LinksInv, FreshInv, NEW c \in Call, Commit(c), NEW u \in User, ReadonlyUser(u)
  PROVE  user'[u] = user[u]
  <1>1. FreshCall(call[c])
    BY DEF FreshInv
  <1>2. u \in DOMAIN call[c].users => call[c].users[u] = user[u]
    BY <1>1 DEF FreshCall, FreshProfile, FreshGroup, FreshUser, FreshTenant, OnlyProfiles, OnlyGroups
  <1>3. QED
    BY <1>2, CommitGrows

LEMMA CommitFresh ==
  ASSUME TypeOK, LinksInv, FreshInv, NEW c \in Call, Commit(c)
  PROVE  FreshInv'
  <1> DEFINE w == call[c]
  <1>1. FreshCall(w)
    BY DEF FreshInv
  <1>2. ASSUME NEW k \in Customer
        PROVE  (AdminUser[k] \in StoredUsers /\ user[AdminUser[k]].group = AdminGroup[k])'
    <2>1. AdminUser[k] \in User /\ ReadonlyUser(AdminUser[k])
      BY CustomersAssumption DEF ReadonlyUser
    <2>2. QED
      BY <2>1, AdminsKept, CommitGrows DEF FreshInv
  <1>3. ASSUME NEW d \in Call
        PROVE  FreshCall(call[d])'
    <2> DEFINE x == call'[d]
    <2>1. FreshCall(x)
      BY FreshIdle DEF Commit, FreshInv
    <2>2. x.transactional => ~ SameDocument(w, x)
      BY DEF Commit, Idle
    <2>3. CASE FreshProfile(x)
      BY <2>1, <2>3, CommitGrows DEF FreshCall, FreshProfile, OnlyProfiles
    <2>4. CASE FreshGroup(x)
      BY <2>1, <2>4 DEF FreshCall, FreshGroup, OnlyGroups
    <2>5. CASE FreshUser(x)
      <3>1. PICK u \in User : DOMAIN x.users = {u} /\ (ReadonlyUser(u) => x.users[u] = user[u])
        BY <2>5 DEF FreshUser
      <3>2. ReadonlyUser(u) => x.users[u] = user'[u]
        BY <3>1, AdminsKept
      <3>3. QED
        BY <2>1, <2>5, <3>1, <3>2 DEF FreshCall, FreshUser, OnlyUsers
    <2>6. CASE FreshTenant(x)
      <3>1. PICK t \in Tenant :
              LET g == AdminGroup[TenantCustomer[t]]
              IN /\ x.tenants = {t}
                 /\ t \notin tenants
                 /\ DOMAIN x.profiles = DefaultProfiles(t)
                 /\ DOMAIN x.groups = {g}
                 /\ x.groups[g].level = group[g].level
                 /\ x.groups[g].profiles = group[g].profiles \cup {HierarchyProfile[t]}
        BY <2>6 DEF FreshTenant
      <3> DEFINE g == AdminGroup[TenantCustomer[t]]
      <3>2. t \notin w.tenants /\ g \notin DOMAIN w.groups
        BY <2>2, <2>6, <3>1 DEF FreshTenant, SameDocument
      <3>3. g \in Group
        BY CustomersAssumption
      <3>4. t \notin tenants' /\ group'[g] = group[g]
        BY <3>1, <3>2, <3>3, CommitGrows
      <3>5. QED
        BY <2>1, <2>6, <3>1, <3>4 DEF FreshCall, FreshTenant
    <2>7. QED
      BY <2>1, <2>3, <2>4, <2>5, <2>6 DEF FreshCall
  <1>4. QED
    BY <1>2, <1>3 DEF FreshInv

LEMMA AbortFresh ==
  ASSUME TypeOK, FreshInv, NEW c \in Call, Abort(c)
  PROVE  FreshInv'
  <1>1. Begin(c, Idle)
    BY DEF Abort, Begin
  <1>2. QED
    BY <1>1, FreshIdle, BeginFresh

LEMMA InitFresh == Init => FreshInv
  <1> SUFFICES ASSUME Init PROVE FreshInv
    OBVIOUS
  <1>1. ASSUME NEW k \in Customer
        PROVE  AdminUser[k] \in StoredUsers /\ user[AdminUser[k]].group = AdminGroup[k]
    <2>1. AdminUser[k] \in User /\ ReadonlyUser(AdminUser[k]) /\ UserCustomer[AdminUser[k]] = k
      BY CustomersAssumption DEF ReadonlyUser
    <2>2. QED
      BY <2>1 DEF Init, StoredUsers
  <1>2. \A c \in Call : call[c] = Idle
    BY DEF Init
  <1>3. QED
    BY <1>1, <1>2, FreshIdle DEF FreshInv

LEMMA StepFresh ==
  ASSUME TypeOK, LinksInv, FreshInv, [Next]_vars
  PROVE  FreshInv'
  <1>1. CASE Next
    BY <1>1, ProfileCallsFresh, GroupCallsFresh, TenantCallsFresh, UserCallsFresh,
       CommitFresh, AbortFresh DEF Next
  <1>2. CASE UNCHANGED vars
    BY <1>2
    DEF FreshInv, FreshCall, FreshProfile, FreshGroup, FreshUser, FreshTenant, OnlyProfiles,
        OnlyGroups, OnlyUsers, StoredProfiles, StoredUsers, vars
  <1>3. QED
    BY <1>1, <1>2

\* Whatever other calls commit first, what a call is about to write stays what
\* it would write if it made its checks again.
THEOREM Fresh == Spec => []FreshInv
  <1>1. Init => FreshInv
    BY InitFresh
  <1>2. TypeOK /\ LinksInv /\ FreshInv /\ [Next]_vars => FreshInv'
    BY StepFresh
  <1>3. QED
    BY <1>1, <1>2, TypeCorrect, Linked, PTL DEF Spec

-------------------------------------------------------------------------------
(* The tenants *)

\* The group of an admin user loses no profile, and gets that of a new tenant.
LEMMA CommitManages ==
  ASSUME TypeOK, LinksInv, FreshInv, NEW c \in Call, Commit(c)
  PROVE  /\ \A k \in Customer : group[AdminGroup[k]].profiles \subseteq group'[AdminGroup[k]].profiles
         /\ \A t \in tenants' \ tenants :
               HierarchyProfile[t] \in group'[AdminGroup[TenantCustomer[t]]].profiles
  <1> DEFINE w == call[c]
  <1>1. FreshCall(w)
    BY DEF FreshInv
  <1>2. \A k \in Customer : AdminGroup[k] \in Group /\ ReadonlyGroup(AdminGroup[k])
    BY CustomersAssumption DEF ReadonlyGroup
  <1>3. CASE w.tenants = {} /\ \A k \in Customer : AdminGroup[k] \notin DOMAIN w.groups
    BY <1>2, <1>3, CommitGrows
  <1>4. CASE FreshTenant(w)
    <2>1. PICK t \in Tenant :
            /\ w.tenants = {t}
            /\ DOMAIN w.groups = {AdminGroup[TenantCustomer[t]]}
            /\ w.groups[AdminGroup[TenantCustomer[t]]].profiles =
                 group[AdminGroup[TenantCustomer[t]]].profiles \cup {HierarchyProfile[t]}
      BY <1>4 DEF FreshTenant
    <2>2. TenantCustomer[t] \in Customer
      BY CustomersAssumption
    <2>3. \A k \in Customer :
             group'[AdminGroup[k]] = IF AdminGroup[k] \in DOMAIN w.groups
                                     THEN w.groups[AdminGroup[k]] ELSE group[AdminGroup[k]]
      BY <1>2, CommitGrows
    <2>4. tenants' = tenants \cup {t}
      BY <2>1, CommitGrows
    <2>5. QED
      BY <2>1, <2>2, <2>3, <2>4
  <1>5. QED
    BY <1>1, <1>2, <1>3, <1>4
    DEF FreshCall, FreshProfile, FreshGroup, FreshUser, OnlyProfiles, OnlyGroups, OnlyUsers

\* The hierarchy profile of every tenant is in the group of the admin user of
\* its customer (TenantsManaged of Directory).
ManagedTenants ==
  \A t \in tenants : HierarchyProfile[t] \in group[AdminGroup[TenantCustomer[t]]].profiles

LEMMA NextManaged ==
  ASSUME TypeOK, LinksInv, FreshInv, ManagedTenants, [Next]_vars
  PROVE  ManagedTenants'
  <1>1. ASSUME NEW c \in Call, Commit(c)
        PROVE  ManagedTenants'
    <2>1. \A t \in tenants : TenantCustomer[t] \in Customer
      BY CustomersAssumption DEF TypeOK
    <2>2. QED
      BY <1>1, <2>1, CommitManages DEF ManagedTenants
  <1>2. CASE UNCHANGED <<tenants, group>>
    BY <1>2 DEF ManagedTenants
  <1>3. Next \/ UNCHANGED vars
    OBVIOUS
  <1>4. QED
    BY <1>1, <1>2, <1>3, OnlyCommits DEF vars

\* Every tenant is managed: however many tenants are created at once, the admin
\* user of the customer gets the hierarchy profile of each, and keeps it.
THEOREM EveryTenantIsManaged == Spec => []ManagedTenants
  <1>1. Init => ManagedTenants
    <2> SUFFICES ASSUME Init, NEW t \in tenants
                 PROVE  HierarchyProfile[t] \in group[AdminGroup[TenantCustomer[t]]].profiles
      BY DEF ManagedTenants
    <2>1. PICK k \in Customer : t = ProofTenant[k]
      BY DEF Init
    <2>2. TenantCustomer[t] = k /\ AdminGroup[k] \in Group /\ GroupCustomer[AdminGroup[k]] = k
      BY <2>1, CustomersAssumption
    <2>3. group[AdminGroup[k]].profiles = {HierarchyProfile[t]}
      BY <2>1, <2>2 DEF Init, ReadonlyGroup
    <2>4. QED
      BY <2>2, <2>3
  <1>2. TypeOK /\ LinksInv /\ FreshInv /\ ManagedTenants /\ [Next]_vars => ManagedTenants'
    BY NextManaged
  <1>3. QED
    BY <1>1, <1>2, TypeCorrect, Linked, Fresh, PTL DEF Spec

-------------------------------------------------------------------------------
(* No null level *)

\* No level is null.
KnownLevels(groups, users) ==
  /\ \A g \in DOMAIN groups : groups[g].level \in Level
  /\ \A u \in DOMAIN users : users[u].level \in Level

\* No level is null, stored or about to be.
KnownInv ==
  KnownLevels(group, user) /\ \A c \in Call : KnownLevels(call[c].groups, call[c].users)

LEMMA BeginKnown ==
  ASSUME TypeOK, KnownInv, NEW c \in Call, NEW w, KnownLevels(w.groups, w.users), Begin(c, w)
  PROVE  KnownInv'
  <1>1. UNCHANGED <<group, user>>
    BY DEF Begin
  <1>2. \A d \in Call : KnownLevels(call'[d].groups, call'[d].users)
    BY DEF TypeOK, KnownInv, Begin
  <1>3. QED
    BY <1>1, <1>2 DEF KnownInv, KnownLevels

LEMMA StoredKnown ==
  ASSUME TypeOK, KnownInv
  PROVE  (\A g \in Group : group[g].level \in Level) /\ (\A u \in User : user[u].level \in Level)
  BY DEF TypeOK, KnownInv, KnownLevels

LEMMA ProfileCallsKnown ==
  ASSUME TypeOK, KnownInv, NEW c \in Call, NEW p \in Profile,
         CreateProfile(c, p) \/ PatchProfile(c, p) \/ PatchExternalProfile(c, p)
  PROVE  KnownInv'
  <1>1. PICK doc : Begin(c, Transaction({}, Write(p, doc), Nothing, Nothing))
    BY DEF CreateProfile, PatchProfile, PatchExternalProfile
  <1> DEFINE w == Transaction({}, Write(p, doc), Nothing, Nothing)
  <1>2. KnownLevels(w.groups, w.users)
    BY DEF KnownLevels, Transaction, Nothing
  <1>3. QED
    BY <1>1, <1>2, BeginKnown

LEMMA GroupCallsKnown ==
  ASSUME NullLevel \notin PatchLevel, TypeOK, KnownInv,
         NEW c \in Call, NEW g \in Group, CreateGroup(c, g) \/ PatchGroup(c, g)
  PROVE  KnownInv'
  <1>1. group[g].level \in Level /\ PatchLevel \subseteq Level
    BY StoredKnown, LevelsAssumption
  <1>2. PICK profiles \in (SUBSET StoredProfiles) \cup {group[g].profiles},
             status \in {"enabled", "disabled"}, level \in Level :
           Begin(c, Transaction({}, Nothing,
             Write(g, [status |-> status, level |-> level, profiles |-> profiles]), Nothing))
    <2>1. CASE CreateGroup(c, g)
      BY <2>1 DEF CreateGroup
    <2>2. CASE PatchGroup(c, g)
      BY <1>1, <2>2 DEF PatchGroup
    <2>3. QED
      BY <2>1, <2>2
  <1> DEFINE doc == [status |-> status, level |-> level, profiles |-> profiles]
             w == Transaction({}, Nothing, Write(g, doc), Nothing)
  <1>3. KnownLevels(w.groups, w.users)
    BY DEF KnownLevels, Transaction, Write, Nothing
  <1>4. QED
    BY <1>2, <1>3, BeginKnown

LEMMA TenantCallsKnown ==
  ASSUME TypeOK, KnownInv, NEW c \in Call, NEW t \in Tenant, CreateTenant(c, t)
  PROVE  KnownInv'
  <1> DEFINE g == user[AdminUser[TenantCustomer[t]]].group
             doc == [group[g] EXCEPT !.profiles = @ \cup {HierarchyProfile[t]}]
             new == [p \in DefaultProfiles(t) |-> [status |-> "enabled", level |-> Root]]
             w == Transaction({t}, new, Write(g, doc), Nothing)
  <1>1. g \in Group /\ Begin(c, w)
    BY DEF CreateTenant, StoredGroups
  <1>2. doc.level \in Level
    <2>1. group[g] \in GroupDoc /\ group[g].level \in Level
      BY <1>1, StoredKnown DEF TypeOK
    <2>2. QED
      BY <2>1 DEF GroupDoc
  <1>3. KnownLevels(w.groups, w.users)
    BY <1>2 DEF KnownLevels, Transaction, Write, Nothing
  <1>4. QED
    BY <1>1, <1>3, BeginKnown

LEMMA UserCallsKnown ==
  ASSUME TypeOK, KnownInv, NEW c \in Call, NEW u \in User,
         CreateUser(c, u) \/ UpdateUser(c, u) \/ PatchUser(c, u) \/ PatchAnalytics(c, u)
  PROVE  KnownInv'
  <1>1. ASSUME NEW doc, doc.level \in Level,
               Begin(c, Transaction({}, Nothing, Nothing, Write(u, doc)))
        PROVE  KnownInv'
    <2> DEFINE w == Transaction({}, Nothing, Nothing, Write(u, doc))
    <2>1. KnownLevels(w.groups, w.users)
      BY <1>1 DEF KnownLevels, Transaction, Write, Nothing
    <2>2. QED
      BY <1>1, <2>1, BeginKnown
  <1>2. ASSUME NEW g \in Group,
               Begin(c, Transaction({}, Nothing, Nothing,
                 Write(u, [status |-> "present", level |-> group[g].level, group |-> g])))
        PROVE  KnownInv'
    <2>1. group[g].level \in Level
      BY StoredKnown
    <2>2. QED
      BY <1>1, <1>2, <2>1
  <1>3. CASE CreateUser(c, u) \/ UpdateUser(c, u)
    BY <1>2, <1>3 DEF CreateUser, UpdateUser
  <1>4. CASE PatchUser(c, u)
    <2>1. [user[u] EXCEPT !.group = NoGroup].level \in Level
      <3>1. user[u] \in UserDoc /\ user[u].level \in Level
        BY StoredKnown DEF TypeOK
      <3>2. QED
        BY <3>1 DEF UserDoc
    <2>2. QED
      BY <1>1, <1>2, <1>4, <2>1 DEF PatchUser
  <1>5. CASE PatchAnalytics(c, u)
    <2> DEFINE w == [Idle EXCEPT !.users = Write(u, user[u])]
    <2>1. w.groups = Nothing /\ w.users = Write(u, user[u])
      BY DEF Idle
    <2>2. Begin(c, w)
      BY <1>5 DEF PatchAnalytics
    <2> HIDE DEF w
    <2>3. KnownLevels(w.groups, w.users)
      BY <2>1, StoredKnown DEF KnownLevels, Write, Nothing
    <2>4. QED
      BY <2>2, <2>3, BeginKnown
  <1>6. QED
    BY <1>3, <1>4, <1>5

LEMMA IdleKnown == KnownLevels(Idle.groups, Idle.users)
  BY DEF KnownLevels, Idle, Nothing

LEMMA CommitKnown ==
  ASSUME TypeOK, LinksInv, KnownInv, NEW c \in Call, Commit(c)
  PROVE  KnownInv'
  <1>1. KnownLevels(call[c].groups, call[c].users)
    BY DEF KnownInv
  <1>2. KnownLevels(group, user)'
    <2>1. DOMAIN group' = Group /\ DOMAIN user' = User
      BY CommitTyped DEF TypeOK
    <2>2. QED
      BY <1>1, <2>1, StoredKnown, CommitGrows DEF KnownLevels
  <1>3. \A d \in Call : KnownLevels(call'[d].groups, call'[d].users)
    BY IdleKnown DEF Commit, KnownInv
  <1>4. QED
    BY <1>2, <1>3 DEF KnownInv, KnownLevels

LEMMA StepKnown ==
  ASSUME NullLevel \notin PatchLevel, TypeOK, LinksInv, KnownInv, [Next]_vars
  PROVE  KnownInv'
  <1>1. ASSUME NEW c \in Call, Abort(c)
        PROVE  KnownInv'
    <2>1. Begin(c, Idle)
      BY <1>1 DEF Abort, Begin
    <2>2. QED
      BY <2>1, IdleKnown, BeginKnown
  <1>2. CASE Next
    BY <1>1, <1>2, ProfileCallsKnown, GroupCallsKnown, TenantCallsKnown, UserCallsKnown,
       CommitKnown DEF Next
  <1>3. CASE UNCHANGED vars
    BY <1>3 DEF KnownInv, KnownLevels, vars
  <1>4. QED
    BY <1>2, <1>3

\* When no patch carries a null level, no level is ever null.
THEOREM NoNullLevel ==
  ASSUME NullLevel \notin PatchLevel
  PROVE  Spec => []KnownInv
  <1>1. Init => KnownInv
    BY IdleKnown, LevelsAssumption DEF Init, KnownInv, KnownLevels
  <1>2. TypeOK /\ LinksInv /\ KnownInv /\ [Next]_vars => KnownInv'
    BY StepKnown
  <1>3. QED
    BY <1>1, <1>2, TypeCorrect, Linked, PTL DEF Spec

-------------------------------------------------------------------------------
(* The directory *)

Groups == [g \in StoredGroups |-> [level |-> group[g].level, profiles |-> group[g].profiles]]
Users == [u \in StoredUsers |-> [level |-> user[u].level, group |-> user[u].group]]

LEMMA GroupsSame ==
  ASSUME StoredGroups' = StoredGroups, \A g \in StoredGroups : group'[g] = group[g]
  PROVE  Groups' = Groups
  BY DEF Groups

LEMMA UsersSame ==
  ASSUME StoredUsers' = StoredUsers, \A u \in StoredUsers : user'[u] = user[u]
  PROVE  Users' = Users
  BY DEF Users

LEMMA DirectoryVars ==
  ASSUME tenants' = tenants, StoredProfiles' = StoredProfiles, Groups' = Groups, Users' = Users
  PROVE  UNCHANGED D!vars
  BY DEF D!vars, Groups, Users

LEMMA AdminGroups == \A g \in Group : g \in D!Admins(AdminGroup) <=> ReadonlyGroup(g)
  BY CustomersAssumption DEF D!Admins, ReadonlyGroup

LEMMA AdminUsers == \A u \in User : u \in D!Admins(AdminUser) <=> ReadonlyUser(u)
  BY CustomersAssumption DEF D!Admins, ReadonlyUser

LEMMA InitDirectory == Init => D!Init
  <1> SUFFICES ASSUME Init PROVE D!Init
    OBVIOUS
  <1>1. StoredProfiles = UNION {D!DefaultProfiles(t) : t \in tenants}
    BY ProfilesAssumption DEF Init, StoredProfiles, D!DefaultProfiles
  <1>2. Groups = [g \in D!Admins(AdminGroup) |->
          [level |-> Root, profiles |-> {HierarchyProfile[ProofTenant[GroupCustomer[g]]]}]]
    <2>1. StoredGroups = D!Admins(AdminGroup)
      <3>1. D!Admins(AdminGroup) \subseteq Group
        BY CustomersAssumption DEF D!Admins
      <3>2. QED
        BY <3>1, AdminGroups DEF Init, StoredGroups
    <2>2. \A g \in StoredGroups :
             /\ group[g].level = Root
             /\ group[g].profiles = {HierarchyProfile[ProofTenant[GroupCustomer[g]]]}
      BY DEF Init, StoredGroups
    <2>3. QED
      BY <2>1, <2>2 DEF Groups
  <1>3. Users = [u \in D!Admins(AdminUser) |->
          [level |-> Root, group |-> AdminGroup[UserCustomer[u]]]]
    <2>1. StoredUsers = D!Admins(AdminUser)
      <3>1. D!Admins(AdminUser) \subseteq User
        BY CustomersAssumption DEF D!Admins
      <3>2. QED
        BY <3>1, AdminUsers DEF Init, StoredUsers
    <2>2. \A u \in StoredUsers :
             user[u].level = Root /\ user[u].group = AdminGroup[UserCustomer[u]]
      BY DEF Init, StoredUsers
    <2>3. QED
      BY <2>1, <2>2 DEF Users
  <1>4. tenants = {ProofTenant[c] : c \in Customer}
    BY DEF Init
  <1>5. QED
    BY <1>1, <1>2, <1>3, <1>4 DEF D!Init, Groups, Users

\* A commit of a call of profiles adds one, or changes what the directory
\* does not say.
LEMMA CommitProfile ==
  ASSUME TypeOK, LinksInv, NEW c \in Call, Commit(c), FreshProfile(call[c])
  PROVE  [D!Next]_(D!vars)
  <1> DEFINE w == call[c]
  <1>1. /\ w.tenants = {} /\ DOMAIN w.groups = {} /\ DOMAIN w.users = {}
        /\ DOMAIN w.profiles \subseteq StoredProfiles \cup (Profile \ Readonly)
        /\ \A p, q \in DOMAIN w.profiles : p = q
    BY DEF FreshProfile, OnlyProfiles
  <1>2. Groups' = Groups
    BY <1>1, CommitGrows, GroupsSame DEF StoredGroups
  <1>3. Users' = Users
    BY <1>1, CommitGrows, UsersSame DEF StoredUsers
  <1>4. tenants' = tenants /\ StoredProfiles' = StoredProfiles \cup DOMAIN w.profiles
    <2>1. /\ tenants' = tenants \cup w.tenants
          /\ StoredProfiles' = StoredProfiles \cup DOMAIN w.profiles
      BY CommitGrows
    <2>2. QED
      BY <1>1, <2>1
  <1>5. CASE DOMAIN w.profiles \subseteq StoredProfiles
    BY <1>2, <1>3, <1>4, <1>5, DirectoryVars
  <1>6. CASE ~ (DOMAIN w.profiles \subseteq StoredProfiles)
    <2>1. PICK p \in DOMAIN w.profiles : p \notin StoredProfiles
      BY <1>6
    <2>2. p \in Profile /\ p \notin Readonly /\ DOMAIN w.profiles = {p}
      BY <1>1, <2>1
    <2>3. ProfileTenant[p] \in tenants
      BY <1>1, <2>1 DEF LinksInv, SoundCall
    <2>4. D!AddProfile(p)
      BY <1>2, <1>3, <1>4, <2>1, <2>2, <2>3 DEF D!AddProfile, Groups, Users
    <2>5. QED
      BY <2>2, <2>4 DEF D!Next
  <1>7. QED
    BY <1>5, <1>6

\* A commit of a call of groups puts the group, although the profiles it has
\* checked may have changed.
LEMMA CommitGroup ==
  ASSUME TypeOK, LinksInv, LevelsInv, FreshInv, KnownInv, NEW c \in Call, Commit(c), FreshGroup(call[c])
  PROVE  [D!Next]_(D!vars)
  <1> DEFINE w == call[c]
  <1>1. PICK g \in Group : DOMAIN w.groups = {g} /\ ~ ReadonlyGroup(g)
    BY DEF FreshGroup
  <1>2. w.tenants = {} /\ DOMAIN w.profiles = {} /\ DOMAIN w.users = {}
    BY DEF FreshGroup, OnlyGroups
  <1> DEFINE doc == [level |-> w.groups[g].level, profiles |-> w.groups[g].profiles]
  <1>3. UNCHANGED <<tenants, StoredProfiles, Users>>
    <2>1. Users' = Users
      BY <1>2, CommitGrows, UsersSame DEF StoredUsers
    <2>2. QED
      BY <1>2, <2>1, CommitGrows
  <1>4. Groups' = D!Put(Groups, g, doc)
    <2>1. StoredGroups' = StoredGroups \cup {g}
      BY <1>1, CommitGrows
    <2>2. \A i \in StoredGroups' : group'[i] = IF i = g THEN w.groups[g] ELSE group[i]
      BY <1>1, <2>1, CommitGrows DEF StoredGroups
    <2>3. QED
      BY <2>1, <2>2 DEF Groups, D!Put
  <1>5. /\ SoundGroup(g, w.groups[g])
        /\ w.groups[g].profiles \subseteq StoredProfiles
        /\ g \in StoredGroups => w.groups[g].level = group[g].level
        /\ w.groups[g].level \in Level
    BY <1>1, <1>2 DEF LinksInv, LevelsInv, SoundCall, KnownInv, KnownLevels
  <1>6. D!MayHold(g, w.groups[g].profiles)
    BY <1>5 DEF D!MayHold, SoundGroup, DistinctSlots
  <1>7. g \in DOMAIN Groups => w.groups[g].level = Groups[g].level
    BY <1>5 DEF Groups
  <1>8. D!PutGroup(g)
    BY <1>1, <1>3, <1>4, <1>5, <1>6, <1>7, AdminGroups DEF D!PutGroup, Groups, Users
  <1>9. QED
    BY <1>8 DEF D!Next

\* A commit of a call of tenants opens the tenant; no profile is lost by the group.
LEMMA CommitTenant ==
  ASSUME TypeOK, LinksInv, LevelsInv, FreshInv, KnownInv, NEW c \in Call, Commit(c), FreshTenant(call[c])
  PROVE  [D!Next]_(D!vars)
  <1> DEFINE w == call[c]
  <1>1. PICK t \in Tenant :
          LET g == AdminGroup[TenantCustomer[t]]
          IN /\ w.tenants = {t}
             /\ t \notin tenants
             /\ DOMAIN w.profiles = DefaultProfiles(t)
             /\ DOMAIN w.groups = {g}
             /\ w.groups[g].level = group[g].level
             /\ w.groups[g].profiles = group[g].profiles \cup {HierarchyProfile[t]}
    BY DEF FreshTenant
  <1> DEFINE g == AdminGroup[TenantCustomer[t]]
  <1>2. g \in StoredGroups
    <2>1. TenantCustomer[t] \in Customer /\ g \in Group
      BY CustomersAssumption
    <2>2. QED
      BY <2>1, LevelsAssumption DEF FreshInv, LinksInv, SoundUser
  <1>3. Users' = Users
    BY CommitGrows, UsersSame DEF FreshTenant, StoredUsers
  <1>4. tenants' = tenants \cup {t} /\ StoredProfiles' = StoredProfiles \cup D!DefaultProfiles(t)
    BY <1>1, CommitGrows DEF DefaultProfiles, D!DefaultProfiles
  <1>5. Groups' = [Groups EXCEPT ![g].profiles = @ \cup {HierarchyProfile[t]}]
    <2>1. StoredGroups' = StoredGroups
      <3>1. StoredGroups' = StoredGroups \cup DOMAIN w.groups
        BY CommitGrows
      <3>2. DOMAIN w.groups = {g}
        BY <1>1
      <3>3. QED
        BY <1>2, <3>1, <3>2
    <2>2. \A i \in StoredGroups :
             /\ group'[i].level = group[i].level
             /\ group'[i].profiles = IF i = g THEN group[i].profiles \cup {HierarchyProfile[t]}
                                              ELSE group[i].profiles
      <3>1. DOMAIN w.groups = {g} /\ w.groups[g].level = group[g].level
            /\ w.groups[g].profiles = group[g].profiles \cup {HierarchyProfile[t]}
        BY <1>1
      <3>2. \A i \in StoredGroups : group'[i] = IF i = g THEN w.groups[g] ELSE group[i]
        BY <3>1, CommitGrows DEF StoredGroups
      <3> HIDE DEF g, w
      <3>3. QED
        BY <3>1, <3>2
    <2>3. Groups[g].profiles = group[g].profiles
      BY <1>2 DEF Groups
    <2> HIDE DEF g
    <2>4. Groups' = [i \in StoredGroups |->
            [level |-> group[i].level,
             profiles |-> IF i = g THEN group[i].profiles \cup {HierarchyProfile[t]}
                                   ELSE group[i].profiles]]
      BY <2>1, <2>2 DEF Groups
    <2>5. QED
      BY <1>2, <2>3, <2>4 DEF Groups
  <1>6. D!OpenTenant(t)
    BY <1>1, <1>3, <1>4, <1>5 DEF D!OpenTenant, Groups, Users
  <1>7. QED
    BY <1>6 DEF D!Next

\* A commit of a call of users puts the user, with the level its group has now;
\* the admin user is as it was.
LEMMA CommitUser ==
  ASSUME TypeOK, LinksInv, LevelsInv, FreshInv, KnownInv, NEW c \in Call, Commit(c), FreshUser(call[c])
  PROVE  [D!Next]_(D!vars)
  <1> DEFINE w == call[c]
  <1>1. PICK u \in User : DOMAIN w.users = {u} /\ (ReadonlyUser(u) => w.users[u] = user[u])
    BY DEF FreshUser
  <1>2. w.tenants = {} /\ DOMAIN w.profiles = {} /\ DOMAIN w.groups = {}
    BY DEF FreshUser, OnlyUsers
  <1> DEFINE doc == [level |-> w.users[u].level, group |-> w.users[u].group]
  <1>3. UNCHANGED <<tenants, StoredProfiles, Groups>>
    <2>1. Groups' = Groups
      BY <1>2, CommitGrows, GroupsSame DEF StoredGroups
    <2>2. QED
      BY <1>2, <2>1, CommitGrows
  <1>4. Users' = D!Put(Users, u, doc)
    <2>1. StoredUsers' = StoredUsers \cup {u}
      BY <1>1, CommitGrows
    <2>2. \A i \in StoredUsers' : user'[i] = IF i = u THEN w.users[u] ELSE user[i]
      BY <1>1, <2>1, CommitGrows DEF StoredUsers
    <2>3. QED
      BY <2>1, <2>2 DEF Users, D!Put
  <1>5. SoundUser(u, w.users[u]) /\ AtLevel(w.users[u]) /\ w.users[u].level \in Level
    BY <1>1 DEF LinksInv, LevelsInv, SoundCall, KnownInv, KnownLevels
  <1>6. CASE ReadonlyUser(u)
    <2>1. UserCustomer[u] \in Customer
      BY CustomersAssumption
    <2>2. u \in StoredUsers
      BY <1>6, <2>1 DEF ReadonlyUser, FreshInv
    <2>3. Users' = Users
      BY <1>1, <1>6, <2>2, CommitGrows, UsersSame DEF StoredUsers
    <2>4. QED
      BY <1>3, <2>3, DirectoryVars
  <1>7. CASE ~ ReadonlyUser(u)
    <2>1. CASE w.users[u].group = NoGroup
      <3>1. doc = [level |-> w.users[u].level, group |-> NoGroup]
        BY <2>1
      <3>2. D!PutUser(u)
        BY <1>3, <1>4, <1>5, <1>7, <3>1, AdminUsers DEF D!PutUser, Groups, Users
      <3>3. QED
        BY <3>2 DEF D!Next
    <2>2. CASE w.users[u].group # NoGroup
      <3> DEFINE g == w.users[u].group
      <3>1. g \in StoredGroups /\ GroupCustomer[g] = UserCustomer[u]
            /\ w.users[u].level = group[g].level
        BY <1>5, <2>2 DEF SoundUser, AtLevel
      <3>2. g \in DOMAIN Groups /\ doc = [level |-> Groups[g].level, group |-> g]
        BY <3>1 DEF Groups
      <3>3. D!PutUser(u)
        BY <1>3, <1>4, <1>7, <3>1, <3>2, AdminUsers DEF D!PutUser, Groups, Users
      <3>4. QED
        BY <3>3 DEF D!Next
    <2>3. QED
      BY <2>1, <2>2
  <1>8. QED
    BY <1>6, <1>7

LEMMA NextDirectory ==
  ASSUME TypeOK, LinksInv, LevelsInv, FreshInv, KnownInv, [Next]_vars
  PROVE  [D!Next]_(D!vars)
  <1>1. ASSUME NEW c \in Call, Commit(c)
        PROVE  [D!Next]_(D!vars)
    <2>1. FreshCall(call[c])
      BY DEF FreshInv
    <2>2. QED
      BY <1>1, <2>1, CommitProfile, CommitGroup, CommitTenant, CommitUser DEF FreshCall
  <1>2. CASE UNCHANGED <<tenants, profile, group, user>>
    BY <1>2 DEF D!vars, StoredProfiles, StoredGroups, StoredUsers
  <1>3. Next \/ UNCHANGED vars
    OBVIOUS
  <1>4. (\E c \in Call : Commit(c)) \/ UNCHANGED <<tenants, profile, group, user>>
    BY <1>3, OnlyCommits DEF vars
  <1>5. QED
    BY <1>1, <1>2, <1>4

\* The concurrent calls implement the directory: each commit is one operation on
\* what is stored then.
THEOREM ConcurrentCallsImplementDirectory ==
  ASSUME NullLevel \notin PatchLevel
  PROVE  Spec => DirectorySpec
  <1>1. Init => D!Init
    BY InitDirectory
  <1>2. TypeOK /\ IdentityInv /\ FreshInv /\ KnownInv /\ [Next]_vars => [D!Next]_(D!vars)
    BY NextDirectory DEF IdentityInv
  <1>3. QED
    BY <1>1, <1>2, TypeCorrect, Sound, Fresh, NoNullLevel, PTL DEF Spec, D!Spec, DirectorySpec
==================================================================================
