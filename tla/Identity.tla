------------------------------- MODULE Identity -------------------------------
(***************************************************************************)
(* The identity referential of the IAM service: tenants, profiles, profile *)
(* groups and users of the customers, and the REST calls that change them. *)
(*                                                                         *)
(* A service method is one MongoDB transaction: it reads a snapshot, makes *)
(* its checks on it and saves documents.  The model takes the reads and    *)
(* the checks in one step, which leaves the documents to write in call[c], *)
(* and commits them in another.  Of two transactions in flight that write  *)
(* a same document, one fails with a WriteConflict; transactions that      *)
(* write different documents do not see each other.  patchAnalytics alone  *)
(* reads and saves the user outside of any transaction.                    *)
(*                                                                         *)
(* The caller may act on every level (an administrator of the instance, so *)
(* that isLevelAllowed refuses nothing).  Checks that only look at names,  *)
(* roles, units, e-mail addresses or the customer's status only refuse     *)
(* calls; the model lets those calls through.                              *)
(***************************************************************************)
EXTENDS Integers, FiniteSets

CONSTANTS
  Customer,
  Tenant,
  TenantCustomer,   \* the customer of each tenant
  ProofTenant,      \* the proof tenant of each customer
  Profile,
  ProfileCustomer,
  ProfileTenant,
  ProfileApp,       \* the application of each profile
  ExternalParams,   \* the application EXTERNAL_PARAMS
  Readonly,         \* the profiles created with a tenant (readonly)
  HierarchyProfile, \* the readonly HIERARCHY_PROFILE_APP profile of a tenant
  Group,
  GroupCustomer,
  AdminGroup,       \* the readonly group of the customer's admin user
  User,
  UserCustomer,
  AdminUser,        \* the readonly admin user of each customer
  Level,
  Root,             \* the root level, ""
  NullLevel,        \* a level that is null
  PatchLevel,       \* the levels the patches may carry
  NoGroup,          \* a groupId that is ""
  Call              \* the REST calls in flight at the same time

ASSUME CustomersAssumption ==
  /\ TenantCustomer \in [Tenant -> Customer]
  /\ ProofTenant \in [Customer -> Tenant]
  /\ ProfileCustomer \in [Profile -> Customer]
  /\ GroupCustomer \in [Group -> Customer]
  /\ AdminGroup \in [Customer -> Group]
  /\ UserCustomer \in [User -> Customer]
  /\ AdminUser \in [Customer -> User]
  /\ \A c \in Customer :
        /\ TenantCustomer[ProofTenant[c]] = c
        /\ GroupCustomer[AdminGroup[c]] = c
        /\ UserCustomer[AdminUser[c]] = c

ASSUME ProfilesAssumption ==
  /\ ProfileTenant \in [Profile -> Tenant]
  /\ DOMAIN ProfileApp = Profile
  /\ Readonly \subseteq Profile
  /\ HierarchyProfile \in [Tenant -> Readonly]
  /\ \A p \in Readonly : ProfileCustomer[p] = TenantCustomer[ProfileTenant[p]]
  /\ \A t \in Tenant :
        /\ ProfileTenant[HierarchyProfile[t]] = t
        /\ ProfileApp[HierarchyProfile[t]] # ExternalParams

ASSUME LevelsAssumption ==
  /\ Root \in Level
  /\ NullLevel \notin Level
  /\ PatchLevel \subseteq Level \cup {NullLevel}
  /\ NoGroup \notin Group

VARIABLES
  tenants,  \* the tenants that exist
  profile,  \* the collections: status and level of each profile,
  group,    \* status, level and profileIds of each group,
  user,     \* groupId and level of each user
  call      \* what each call in flight is about to write

vars == <<tenants, profile, group, user, call>>

ProfileDoc == [status : {"absent", "enabled", "disabled"}, level : Level \cup {NullLevel}]

GroupDoc ==
  [status : {"absent", "enabled", "disabled"}, level : Level \cup {NullLevel},
   profiles : SUBSET Profile]

UserDoc ==
  [status : {"absent", "present"}, level : Level \cup {NullLevel}, group : Group \cup {NoGroup}]

\* The documents a call writes in a collection: a function on some of the ids.
AreWrites(writes, Id, Doc) == DOMAIN writes \subseteq Id /\ writes \in [DOMAIN writes -> Doc]

Nothing == [id \in {} |-> id]

Write(id, doc) == [i \in {id} |-> doc]

\* save: the documents of a collection once the writes are applied.
Save(docs, writes) ==
  [id \in DOMAIN docs |-> IF id \in DOMAIN writes THEN writes[id] ELSE docs[id]]

Idle ==
  [transactional |-> FALSE, tenants |-> {},
   profiles |-> Nothing, groups |-> Nothing, users |-> Nothing]

StoredProfiles == {p \in Profile : profile[p].status # "absent"}
StoredGroups == {g \in Group : group[g].status # "absent"}
StoredUsers == {u \in User : user[u].status # "absent"}

ReadonlyGroup(g) == g = AdminGroup[GroupCustomer[g]]
ReadonlyUser(u) == u = AdminUser[UserCustomer[u]]

\* getDefaultProfiles, and the default profile of external parameters.
DefaultProfiles(t) == {p \in Readonly : ProfileTenant[p] = t}

TypedCall(w) ==
  /\ w.transactional \in BOOLEAN
  /\ w.tenants \subseteq Tenant
  /\ AreWrites(w.profiles, Profile, ProfileDoc)
  /\ AreWrites(w.groups, Group, GroupDoc)
  /\ AreWrites(w.users, User, UserDoc)

TypeOK ==
  /\ tenants \subseteq Tenant
  /\ profile \in [Profile -> ProfileDoc]
  /\ group \in [Group -> GroupDoc]
  /\ user \in [User -> UserDoc]
  /\ DOMAIN call = Call
  /\ \A c \in Call : TypedCall(call[c])

\* Every customer has been initialised: its proof tenant, the profiles of that
\* tenant, the limited group of its admin user, and that user.
Init ==
  /\ tenants = {ProofTenant[c] : c \in Customer}
  /\ profile = [p \in Profile |->
        [status |-> IF p \in Readonly /\ ProfileTenant[p] \in tenants THEN "enabled" ELSE "absent",
         level |-> Root]]
  /\ group = [g \in Group |->
        [status |-> IF ReadonlyGroup(g) THEN "enabled" ELSE "absent",
         level |-> Root,
         profiles |-> IF ReadonlyGroup(g)
                      THEN {HierarchyProfile[ProofTenant[GroupCustomer[g]]]} ELSE {}]]
  /\ user = [u \in User |->
        [status |-> IF ReadonlyUser(u) THEN "present" ELSE "absent",
         level |-> Root,
         group |-> IF ReadonlyUser(u) THEN AdminGroup[UserCustomer[u]] ELSE NoGroup]]
  /\ call = [c \in Call |-> Idle]

\* The call c, idle, has made its checks: it is about to commit these writes.
Begin(c, writes) ==
  /\ call' = [call EXCEPT ![c] = writes]
  /\ UNCHANGED <<tenants, profile, group, user>>

Transaction(newTenants, profiles, groups, users) ==
  [transactional |-> TRUE, tenants |-> newTenants,
   profiles |-> profiles, groups |-> groups, users |-> users]

-------------------------------------------------------------------------------
(* ProfileService, ExternalParamProfileService *)

Unreferenced(p) == \A g \in StoredGroups : p \notin group[g].profiles

\* Mutant: the tenant is not looked up.
CreateProfile_NoTenant(c, p) ==
  /\ call[c] = Idle
  /\ p \notin Readonly
  /\ profile[p].status = "absent"
  /\ Begin(c, Transaction({}, Write(p, [status |-> "enabled", level |-> Root]), Nothing, Nothing))

\* create: the tenant has to exist, whichever customer it belongs to.
CreateProfile(c, p) ==
  /\ call[c] = Idle
  /\ p \notin Readonly
  /\ profile[p].status = "absent"
  /\ ProfileTenant[p] \in tenants
  /\ \E status \in {"enabled", "disabled"}, level \in Level :
        Begin(c, Transaction({}, Write(p, [status |-> status, level |-> level]), Nothing, Nothing))

\* Mutant: the level of a referenced profile may change.
CheckPatchProfile_AnyLevel(p, status, level) ==
  /\ profile[p].level # NullLevel
  /\ status = "disabled" /\ profile[p].status # status => Unreferenced(p)

\* checkModifyLevel and checkEnabled: a profile that groups reference keeps its
\* level and stays enabled.  A level that is null is not looked at, and
\* becomes the level of the profile; checkLevel then refuses every later patch.
CheckPatchProfile(p, status, level) ==
  /\ profile[p].level # NullLevel
  /\ level \notin {profile[p].level, NullLevel} => Unreferenced(p)
  /\ status = "disabled" /\ profile[p].status # status => Unreferenced(p)

\* patch (a patch that changes neither is left out).
PatchProfile(c, p) ==
  /\ call[c] = Idle
  /\ p \in StoredProfiles \ Readonly
  /\ \E status \in {"enabled", "disabled"}, level \in PatchLevel \cup {profile[p].level} :
        /\ [status |-> status, level |-> level] # profile[p]
        /\ CheckPatchProfile(p, status, level)
        /\ Begin(c, Transaction({}, Write(p, [status |-> status, level |-> level]),
                                Nothing, Nothing))

\* ExternalParamProfileService.patch saves the profile with ProfileService.update,
\* whose beforeUpdate checks nothing.
PatchExternalProfile(c, p) ==
  /\ call[c] = Idle
  /\ p \in StoredProfiles
  /\ ProfileApp[p] = ExternalParams
  /\ \E status \in {"enabled", "disabled"} \ {profile[p].status} :
        Begin(c, Transaction({}, Write(p, [profile[p] EXCEPT !.status = status]),
                             Nothing, Nothing))

(* GroupService *)

\* At most one profile for an application and a tenant.
DistinctSlots(profiles) ==
  \A p, q \in profiles :
    ProfileApp[p] = ProfileApp[q] /\ ProfileTenant[p] = ProfileTenant[q] => p = q

\* Mutants: the tenants of the profiles, or their slots, are not looked at.
CheckProfiles_AnyTenant(customer, level, profiles) ==
  /\ profiles # {}
  /\ \A p \in profiles :
        /\ profile[p] = [status |-> "enabled", level |-> level]
        /\ ProfileCustomer[p] = customer
  /\ DistinctSlots(profiles)
CheckProfiles_AnySlot(customer, level, profiles) ==
  /\ profiles # {}
  /\ \A p \in profiles :
        /\ profile[p] = [status |-> "enabled", level |-> level]
        /\ ProfileCustomer[p] = customer
        /\ TenantCustomer[ProfileTenant[p]] = customer

\* The profiles that do not exist are left out of the sets the callers choose.
CheckProfiles(customer, level, profiles) ==
  /\ profiles # {}
  /\ \A p \in profiles :
        /\ profile[p].status = "enabled"
        /\ profile[p].level = level
        /\ ProfileCustomer[p] = customer
        /\ ProfileTenant[p] \in tenants
        /\ TenantCustomer[ProfileTenant[p]] = customer
  /\ DistinctSlots(profiles)

CreateGroup(c, g) ==
  /\ call[c] = Idle
  /\ group[g].status = "absent"
  /\ \E profiles \in SUBSET StoredProfiles, status \in {"enabled", "disabled"}, level \in Level :
        /\ CheckProfiles(GroupCustomer[g], level, profiles)
        /\ Begin(c, Transaction({}, Nothing,
             Write(g, [status |-> status, level |-> level, profiles |-> profiles]), Nothing))

NoUsers(g) == \A u \in StoredUsers : user[u].group # g

\* Mutants: the level of a group without users may change; a group may be
\* disabled under its users.
CheckPatchGroup_NoUsersOnly(g, status, level, profiles) ==
  /\ group[g].level # NullLevel
  /\ level \notin {group[g].level, NullLevel} => NoUsers(g)
  /\ profiles # group[g].profiles => CheckProfiles(GroupCustomer[g], group[g].level, profiles)
  /\ status = "disabled" /\ group[g].status # status => NoUsers(g)
CheckPatchGroup_DisableUsed(g, status, level, profiles) ==
  /\ group[g].level # NullLevel
  /\ level \notin {group[g].level, NullLevel} => group[g].profiles = {} /\ NoUsers(g)
  /\ profiles # group[g].profiles => CheckProfiles(GroupCustomer[g], group[g].level, profiles)

\* checkModifyLevel, checkProfiles (for the level the group had), checkEnabled.
\* As for a profile, a level that is null is not looked at.
CheckPatchGroup(g, status, level, profiles) ==
  /\ group[g].level # NullLevel
  /\ level \notin {group[g].level, NullLevel} => group[g].profiles = {} /\ NoUsers(g)
  /\ profiles # group[g].profiles => CheckProfiles(GroupCustomer[g], group[g].level, profiles)
  /\ status = "disabled" /\ group[g].status # status => NoUsers(g)

\* patch (a patch that changes none of these fields is left out).
PatchGroup(c, g) ==
  /\ call[c] = Idle
  /\ g \in StoredGroups
  /\ ~ ReadonlyGroup(g)
  /\ \E profiles \in (SUBSET StoredProfiles) \cup {group[g].profiles},
        status \in {"enabled", "disabled"}, level \in PatchLevel \cup {group[g].level} :
        /\ [status |-> status, level |-> level, profiles |-> profiles] # group[g]
        /\ CheckPatchGroup(g, status, level, profiles)
        /\ Begin(c, Transaction({}, Nothing,
             Write(g, [status |-> status, level |-> level, profiles |-> profiles]), Nothing))

(* TenantService *)

\* Mutant: the method is not @Transactional.
CreateTenant_NoTransaction(c, t) ==
  LET admin == AdminUser[TenantCustomer[t]]
      g == user[admin].group
  IN  /\ call[c] = Idle
      /\ t \notin tenants
      /\ admin \in StoredUsers
      /\ g \in StoredGroups
      /\ Begin(c,
           [tenants |-> {t},
            profiles |-> [p \in DefaultProfiles(t) |-> [status |-> "enabled", level |-> Root]],
            groups |-> Write(g, [group[g] EXCEPT !.profiles = @ \cup {HierarchyProfile[t]}]),
            users |-> Nothing, transactional |-> FALSE])

\* create: the tenant, its default profiles, and its hierarchy profile added to
\* the group of the customer's admin user (updateProfilesById).
CreateTenant(c, t) ==
  LET admin == AdminUser[TenantCustomer[t]]
      g == user[admin].group
  IN  /\ call[c] = Idle
      /\ t \notin tenants
      /\ admin \in StoredUsers
      /\ g \in StoredGroups
      /\ Begin(c, Transaction({t},
           [p \in DefaultProfiles(t) |-> [status |-> "enabled", level |-> Root]],
           Write(g, [group[g] EXCEPT !.profiles = @ \cup {HierarchyProfile[t]}]),
           Nothing))

(* UserService *)

\* Mutant: the group may be disabled.
CheckGroup_Disabled(customer, g) ==
  /\ g \in StoredGroups
  /\ GroupCustomer[g] = customer
  /\ group[g].level # NullLevel

CheckGroup(customer, g) ==
  /\ g \in StoredGroups
  /\ GroupCustomer[g] = customer
  /\ group[g].status = "enabled"
  /\ group[g].level # NullLevel

\* create and update: the user gets the group and the level of the group.
CreateUser(c, u) ==
  /\ call[c] = Idle
  /\ user[u].status = "absent"
  /\ \E g \in Group :
        /\ CheckGroup(UserCustomer[u], g)
        /\ Begin(c, Transaction({}, Nothing, Nothing,
             Write(u, [status |-> "present", level |-> group[g].level, group |-> g])))

\* Mutant: the level of the group is not copied.
UpdateUser_KeepsLevel(c, u) ==
  /\ call[c] = Idle
  /\ u \in StoredUsers
  /\ ~ ReadonlyUser(u)
  /\ user[u].level # NullLevel
  /\ \E g \in Group :
        /\ CheckGroup(UserCustomer[u], g)
        /\ Begin(c, Transaction({}, Nothing, Nothing, Write(u, [user[u] EXCEPT !.group = g])))

UpdateUser(c, u) ==
  /\ call[c] = Idle
  /\ u \in StoredUsers
  /\ ~ ReadonlyUser(u)
  /\ user[u].level # NullLevel
  /\ \E g \in Group :
        /\ CheckGroup(UserCustomer[u], g)
        /\ Begin(c, Transaction({}, Nothing, Nothing,
             Write(u, [status |-> "present", level |-> group[g].level, group |-> g])))

\* Mutant: no group is a null and not "".
PatchUser_NullGroup(c, u) ==
  /\ call[c] = Idle
  /\ u \in StoredUsers
  /\ ~ ReadonlyUser(u)
  /\ user[u].group \in StoredGroups
  /\ Begin(c, Transaction({}, Nothing, Nothing, Write(u, [user[u] EXCEPT !.group = NullLevel])))

\* patch of the groupId.  The group the user had has to exist (processPatch
\* reads it for the logbook); "" removes the group and leaves the level.
PatchUser(c, u) ==
  /\ call[c] = Idle
  /\ u \in StoredUsers
  /\ ~ ReadonlyUser(u)
  /\ user[u].level # NullLevel
  /\ user[u].group \in StoredGroups
  /\ \/ \E g \in Group :
           /\ CheckGroup(UserCustomer[u], g)
           /\ Begin(c, Transaction({}, Nothing, Nothing,
                Write(u, [status |-> "present", level |-> group[g].level, group |-> g])))
     \/ Begin(c, Transaction({}, Nothing, Nothing,
          Write(u, [user[u] EXCEPT !.group = NoGroup])))

\* patchAnalytics is not @Transactional: the user it read, all fields, is saved.
PatchAnalytics(c, u) ==
  /\ call[c] = Idle
  /\ u \in StoredUsers
  /\ Begin(c, [Idle EXCEPT !.users = Write(u, user[u])])

(* MongoDB *)

SameDocument(w1, w2) ==
  \/ w1.tenants \cap w2.tenants # {}
  \/ DOMAIN w1.profiles \cap DOMAIN w2.profiles # {}
  \/ DOMAIN w1.groups \cap DOMAIN w2.groups # {}
  \/ DOMAIN w1.users \cap DOMAIN w2.users # {}

\* The writes of the call are applied; the transactions that are in flight and
\* write one of its documents fail.
Commit(c) ==
  /\ call[c] # Idle
  /\ tenants' = tenants \cup call[c].tenants
  /\ profile' = Save(profile, call[c].profiles)
  /\ group' = Save(group, call[c].groups)
  /\ user' = Save(user, call[c].users)
  /\ call' = [d \in Call |->
        IF d = c \/ (call[d].transactional /\ SameDocument(call[c], call[d]))
        THEN Idle ELSE call[d]]

\* The call fails after its checks (another check, the logbook, MongoDB).
Abort(c) ==
  /\ call[c] # Idle
  /\ call' = [call EXCEPT ![c] = Idle]
  /\ UNCHANGED <<tenants, profile, group, user>>

Next ==
  \E c \in Call :
    \/ \E p \in Profile : CreateProfile(c, p) \/ PatchProfile(c, p) \/ PatchExternalProfile(c, p)
    \/ \E g \in Group : CreateGroup(c, g) \/ PatchGroup(c, g)
    \/ \E t \in Tenant : CreateTenant(c, t)
    \/ \E u \in User :
          CreateUser(c, u) \/ UpdateUser(c, u) \/ PatchUser(c, u) \/ PatchAnalytics(c, u)
    \/ Commit(c)
    \/ Abort(c)

Spec == Init /\ [][Next]_vars

-------------------------------------------------------------------------------
(* Properties *)

\* The customers stay apart: a user is in a group of its own customer, and the
\* profiles of a group and the tenants they open belong to the customer of the
\* group (architecture.md, "Un client ne doit jamais pouvoir accéder aux tenants
\* d'un autre client"), although checkTenant lets a profile be created on any
\* tenant, and a new tenant adds a profile to a group without checkProfiles.
CustomersApart ==
  /\ \A g \in StoredGroups : \A p \in group[g].profiles :
        /\ p \in StoredProfiles
        /\ ProfileTenant[p] \in tenants
        /\ ProfileCustomer[p] = GroupCustomer[g]
        /\ TenantCustomer[ProfileTenant[p]] = GroupCustomer[g]
  /\ \A u \in StoredUsers :
        user[u].group # NoGroup =>
          /\ user[u].group \in StoredGroups
          /\ GroupCustomer[user[u].group] = UserCustomer[u]

\* A group has at most one profile for an application and a tenant
\* (architecture.md:721), also when concurrent calls create custom profiles
\* for the application of the profile that a new tenant adds to a group.
GroupSlots == \A g \in StoredGroups : DistinctSlots(group[g].profiles)

\* A user has the level of its group.  The level is copied when the user is
\* saved, and nothing updates the users when a group changes; patchAnalytics
\* may even write back a user it read before another call moved it.
UserLevels ==
  \A u \in StoredUsers :
    user[u].group # NoGroup => user[u].level = group[user[u].group].level

\* A group keeps its level: a group has profiles from its creation on
\* (checkProfiles), and a group that has profiles keeps its level
\* (architecture.md:847, checkModifyLevel).
GroupLevelIsFixed ==
  [][\A g \in StoredGroups : group'[g].level = group[g].level]_vars

LevelsAgree(profiles, groups) ==
  \A g \in Group : groups[g].status # "absent" =>
    \A p \in groups[g].profiles : profiles[p].level = groups[g].level

\* The profiles of a group have the level of the group (architecture.md:738,
\* 803 and 831).  checkProfiles reads the profiles and checkModifyLevel the
\* groups: one call at a time, neither can miss the other.
GroupLevels == LevelsAgree(profile, group)

Enabled(profiles, groups, users) ==
  /\ \A g \in Group : groups[g].status # "absent" =>
        \A p \in groups[g].profiles :
          profiles[p].status = "enabled" \/ ProfileApp[p] = ExternalParams
  /\ \A u \in User : users[u].status # "absent" /\ users[u].group # NoGroup =>
        groups[users[u].group].status = "enabled"

\* A profile that a group references is enabled, except those of external
\* parameters; a group that a user references is enabled (the checkEnabled of
\* ProfileService, GroupService.checkProfiles and UserService.checkGroup each
\* guard one end of a reference).  One call at a time.
ReferencesEnabled == Enabled(profile, group, user)

\* What holds of a group whether it is stored or about to be: the part of
\* CustomersApart and GroupSlots that no other document can change.
SoundGroup(g, doc) ==
  /\ doc.status # "absent"
  /\ doc.profiles # {}
  /\ \A p \in doc.profiles :
        ProfileCustomer[p] = GroupCustomer[g] /\ TenantCustomer[ProfileTenant[p]] = GroupCustomer[g]
  /\ DistinctSlots(doc.profiles)

\* What holds of a user, stored or about to be.
SoundUser(u, doc) ==
  /\ doc.status # "absent"
  /\ doc.group # NoGroup => doc.group \in StoredGroups /\ GroupCustomer[doc.group] = UserCustomer[u]

\* What holds of a call in flight.
SoundCall(w) ==
  /\ \A p \in DOMAIN w.profiles :
        w.profiles[p].status # "absent" /\ ProfileTenant[p] \in tenants \cup w.tenants
  /\ \A g \in DOMAIN w.groups :
        /\ w.transactional
        /\ SoundGroup(g, w.groups[g])
        /\ w.groups[g].profiles \subseteq StoredProfiles \cup DOMAIN w.profiles
  /\ \A u \in DOMAIN w.users : SoundUser(u, w.users[u])

\* The inductive invariant behind CustomersApart and GroupSlots: the documents
\* that calls are about to write are sound by the documents that are stored
\* now, and not only by those the call had read.
LinksInv ==
  /\ \A p \in StoredProfiles : ProfileTenant[p] \in tenants
  /\ \A g \in StoredGroups :
        SoundGroup(g, group[g]) /\ group[g].profiles \subseteq StoredProfiles
  /\ \A u \in StoredUsers : SoundUser(u, user[u])
  /\ \A c \in Call : SoundCall(call[c])

\* The user has the level of its group.
AtLevel(doc) == doc.group # NoGroup => doc.level = group[doc.group].level

\* The same of levels, which takes that no patch carries a null level: a stored
\* group is about to keep its level, and a user about to have that of its group.
LevelsInv ==
  /\ \A u \in StoredUsers : AtLevel(user[u])
  /\ \A c \in Call :
        /\ \A g \in DOMAIN call[c].groups \cap StoredGroups :
              call[c].groups[g].level = group[g].level
        /\ \A u \in DOMAIN call[c].users : AtLevel(call[c].users[u])

\* The inductive invariant behind the properties of concurrent calls.
IdentityInv == LinksInv /\ LevelsInv

\* The directory without what concurrent calls may leave stale.
D == INSTANCE Directory WITH
  profiles <- StoredProfiles,
  group <- [g \in StoredGroups |-> [level |-> group[g].level, profiles |-> group[g].profiles]],
  user <- [u \in StoredUsers |-> [level |-> user[u].level, group |-> user[u].group]]

\* The concurrent calls implement the directory: each commit is one of its
\* operations, made at once on what is stored then, although the call made its
\* checks earlier; and no write is lost (two tenants created at once both leave
\* their profile in the group of the admin user).
DirectorySpec == D!Spec

\* What holds of the collections one call at a time.  The admin user, and
\* so its group, is at the root level, as are the profiles of a new tenant.
Consistent(profiles, groups, users) ==
  /\ LevelsAgree(profiles, groups)
  /\ Enabled(profiles, groups, users)
  /\ \A u \in User :
        ReadonlyUser(u) => users[u].status # "absent" /\ users[u].level = Root

\* The inductive invariant behind GroupLevels and ReferencesEnabled, one call
\* at a time: the collections are consistent, and will be once the call commits.
SerialInv ==
  /\ Consistent(profile, group, user)
  /\ \A c \in Call :
        Consistent(Save(profile, call[c].profiles), Save(group, call[c].groups),
                   Save(user, call[c].users))
===============================================================================
