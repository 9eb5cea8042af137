---------------------------- MODULE Identity_proofs ----------------------------
(* Proofs about Identity, for any customers and any number of calls in flight. *)
EXTENDS Identity, TLAPS

-------------------------------------------------------------------------------
(* Documents and writes *)

LEMMA SaveTyped ==
  ASSUME NEW Id, NEW Doc, NEW docs \in [Id -> Doc], NEW w, AreWrites(w, Id, Doc)
  PROVE  Save(docs, w) \in [Id -> Doc]
  BY DEF Save, AreWrites

LEMMA WriteTyped ==
  ASSUME NEW Id, NEW Doc, NEW id \in Id, NEW doc \in Doc
  PROVE  /\ AreWrites(Write(id, doc), Id, Doc)
         /\ DOMAIN Write(id, doc) = {id}
         /\ Write(id, doc)[id] = doc
  BY DEF AreWrites, Write

LEMMA NothingTyped ==
  ASSUME NEW Id, NEW Doc
  PROVE  AreWrites(Nothing, Id, Doc) /\ DOMAIN Nothing = {}
  BY DEF AreWrites, Nothing

LEMMA IdleTyped == TypedCall(Idle)
  BY NothingTyped DEF TypedCall, Idle

LEMMA BeginTyped ==
  ASSUME TypeOK, NEW c \in Call, NEW w, TypedCall(w), Begin(c, w)
  PROVE  TypeOK'
  BY DEF TypeOK, Begin, TypedCall, AreWrites

-------------------------------------------------------------------------------
(* Type correctness *)

LEMMA ProfileCallsTyped ==
  ASSUME TypeOK, NEW c \in Call, NEW p \in Profile,
         CreateProfile(c, p) \/ PatchProfile(c, p) \/ PatchExternalProfile(c, p)
  PROVE  TypeOK'
  <1>1. ASSUME NEW doc \in ProfileDoc, Begin(c, Transaction({}, Write(p, doc), Nothing, Nothing))
        PROVE  TypeOK'
    <2>1. TypedCall(Transaction({}, Write(p, doc), Nothing, Nothing))
      BY WriteTyped, NothingTyped DEF TypedCall, Transaction
    <2>2. QED
      BY <1>1, <2>1, BeginTyped
  <1>2. CASE CreateProfile(c, p)
    BY <1>1, <1>2 DEF CreateProfile, ProfileDoc
  <1>3. CASE PatchProfile(c, p)
    <2>1. PatchLevel \cup {profile[p].level} \subseteq Level \cup {NullLevel}
      BY LevelsAssumption DEF TypeOK, ProfileDoc
    <2>2. QED
      BY <1>1, <1>3, <2>1 DEF PatchProfile, ProfileDoc
  <1>4. CASE PatchExternalProfile(c, p)
    <2>1. PICK status \in {"enabled", "disabled"} :
             Begin(c, Transaction({}, Write(p, [profile[p] EXCEPT !.status = status]),
                                  Nothing, Nothing))
      BY <1>4 DEF PatchExternalProfile
    <2>2. [profile[p] EXCEPT !.status = status] \in ProfileDoc
      BY DEF TypeOK, ProfileDoc
    <2>3. QED
      BY <1>1, <2>1, <2>2
  <1>5. QED
    BY <1>2, <1>3, <1>4

LEMMA GroupCallsTyped ==
  ASSUME TypeOK, NEW c \in Call, NEW g \in Group, CreateGroup(c, g) \/ PatchGroup(c, g)
  PROVE  TypeOK'
  <1>1. ASSUME NEW doc \in GroupDoc, Begin(c, Transaction({}, Nothing, Write(g, doc), Nothing))
        PROVE  TypeOK'
    <2>1. TypedCall(Transaction({}, Nothing, Write(g, doc), Nothing))
      BY WriteTyped, NothingTyped DEF TypedCall, Transaction
    <2>2. QED
      BY <1>1, <2>1, BeginTyped
  <1>2. StoredProfiles \subseteq Profile /\ group[g].profiles \subseteq Profile
    BY DEF StoredProfiles, TypeOK, GroupDoc
  <1>3. CASE CreateGroup(c, g)
    BY <1>1, <1>2, <1>3 DEF CreateGroup, GroupDoc
  <1>4. CASE PatchGroup(c, g)
    <2>1. PatchLevel \cup {group[g].level} \subseteq Level \cup {NullLevel}
      BY LevelsAssumption DEF TypeOK, GroupDoc
    <2>2. QED
      BY <1>1, <1>2, <1>4, <2>1 DEF PatchGroup, GroupDoc
  <1>5. QED
    BY <1>3, <1>4

LEMMA TenantCallsTyped ==
  ASSUME TypeOK, NEW c \in Call, NEW t \in Tenant, CreateTenant(c, t)
  PROVE  TypeOK'
  <1> DEFINE g == user[AdminUser[TenantCustomer[t]]].group
             doc == [group[g] EXCEPT !.profiles = @ \cup {HierarchyProfile[t]}]
             new == [p \in DefaultProfiles(t) |-> [status |-> "enabled", level |-> Root]]
             w == Transaction({t}, new, Write(g, doc), Nothing)
  <1>1. g \in Group /\ Begin(c, w)
    BY DEF CreateTenant, StoredGroups
  <1>2. doc \in GroupDoc
    <2>1. HierarchyProfile[t] \in Profile
      BY ProfilesAssumption
    <2>2. group[g] \in GroupDoc
      BY <1>1 DEF TypeOK
    <2>3. QED
      BY <2>1, <2>2 DEF GroupDoc
  <1>3. AreWrites(new, Profile, ProfileDoc)
    BY ProfilesAssumption, LevelsAssumption DEF AreWrites, DefaultProfiles, ProfileDoc
  <1>4. TypedCall(w)
    BY <1>1, <1>2, <1>3, WriteTyped, NothingTyped DEF TypedCall, Transaction
  <1>5. QED
    BY <1>1, <1>4, BeginTyped

LEMMA UserCallsTyped ==
  ASSUME TypeOK, NEW c \in Call, NEW u \in User,
         CreateUser(c, u) \/ UpdateUser(c, u) \/ PatchUser(c, u) \/ PatchAnalytics(c, u)
  PROVE  TypeOK'
  <1>1. ASSUME NEW doc \in UserDoc, Begin(c, Transaction({}, Nothing, Nothing, Write(u, doc)))
        PROVE  TypeOK'
    <2>1. TypedCall(Transaction({}, Nothing, Nothing, Write(u, doc)))
      BY WriteTyped, NothingTyped DEF TypedCall, Transaction
    <2>2. QED
      BY <1>1, <2>1, BeginTyped
  <1>2. \A g \in Group : [status |-> "present", level |-> group[g].level, group |-> g] \in UserDoc
    BY DEF TypeOK, GroupDoc, UserDoc
  <1>3. CASE CreateUser(c, u)
    BY <1>1, <1>2, <1>3 DEF CreateUser
  <1>4. CASE UpdateUser(c, u)
    BY <1>1, <1>2, <1>4 DEF UpdateUser
  <1>5. CASE PatchUser(c, u)
    <2>1. [user[u] EXCEPT !.group = NoGroup] \in UserDoc
      BY DEF TypeOK, UserDoc
    <2>2. QED
      BY <1>1, <1>2, <1>5, <2>1 DEF PatchUser
  <1>6. CASE PatchAnalytics(c, u)
    <2>1. TypedCall([Idle EXCEPT !.users = Write(u, user[u])])
      <3>1. AreWrites(Write(u, user[u]), User, UserDoc)
        BY WriteTyped DEF TypeOK
      <3>2. QED
        BY <3>1, NothingTyped DEF TypedCall, Idle
    <2>2. QED
      BY <1>6, <2>1, BeginTyped DEF PatchAnalytics
  <1>7. QED
    BY <1>3, <1>4, <1>5, <1>6

LEMMA CommitTyped ==
  ASSUME TypeOK, NEW c \in Call, Commit(c)
  PROVE  TypeOK'
  <1>1. TypedCall(call[c])
    BY DEF TypeOK
  <1>2. tenants' \subseteq Tenant
    BY <1>1 DEF TypeOK, TypedCall, Commit
  <1>3. profile' \in [Profile -> ProfileDoc]
    <2>1. profile \in [Profile -> ProfileDoc] /\ AreWrites(call[c].profiles, Profile, ProfileDoc)
      BY <1>1 DEF TypeOK, TypedCall
    <2>2. Save(profile, call[c].profiles) \in [Profile -> ProfileDoc]
      BY <2>1, SaveTyped
    <2>3. QED
      BY <2>2 DEF Commit
  <1>4. group' \in [Group -> GroupDoc]
    <2>1. group \in [Group -> GroupDoc] /\ AreWrites(call[c].groups, Group, GroupDoc)
      BY <1>1 DEF TypeOK, TypedCall
    <2>2. Save(group, call[c].groups) \in [Group -> GroupDoc]
      BY <2>1, SaveTyped
    <2>3. QED
      BY <2>2 DEF Commit
  <1>5. user' \in [User -> UserDoc]
    <2>1. user \in [User -> UserDoc] /\ AreWrites(call[c].users, User, UserDoc)
      BY <1>1 DEF TypeOK, TypedCall
    <2>2. Save(user, call[c].users) \in [User -> UserDoc]
      BY <2>1, SaveTyped
    <2>3. QED
      BY <2>2 DEF Commit
  <1>6. DOMAIN call' = Call /\ \A d \in Call : call'[d] \in {Idle, call[d]}
    BY DEF Commit
  <1>7. \A d \in Call : TypedCall(call'[d])
    BY <1>6, IdleTyped DEF TypeOK
  <1>8. QED
    BY <1>2, <1>3, <1>4, <1>5, <1>6, <1>7 DEF TypeOK, TypedCall

LEMMA AbortTyped ==
  ASSUME TypeOK, NEW c \in Call, Abort(c)
  PROVE  TypeOK'
  <1>1. Begin(c, Idle)
    BY DEF Abort, Begin
  <1>2. QED
    BY <1>1, IdleTyped, BeginTyped

LEMMA InitTyped == Init => TypeOK
  <1> SUFFICES ASSUME Init PROVE TypeOK
    OBVIOUS
  <1>1. tenants \subseteq Tenant
    BY CustomersAssumption DEF Init
  <1>2. profile \in [Profile -> ProfileDoc]
    BY LevelsAssumption DEF Init, ProfileDoc
  <1>3. group \in [Group -> GroupDoc]
    BY CustomersAssumption, ProfilesAssumption, LevelsAssumption DEF Init, GroupDoc
  <1>4. user \in [User -> UserDoc]
    BY CustomersAssumption, LevelsAssumption DEF Init, UserDoc
  <1>5. DOMAIN call = Call /\ \A c \in Call : call[c] = Idle
    BY DEF Init
  <1>6. QED
    BY <1>1, <1>2, <1>3, <1>4, <1>5, IdleTyped DEF TypeOK

\* Type correctness, whatever the levels in the patches: what a call is about to
\* write are documents of the collections.
THEOREM TypeCorrect == Spec => []TypeOK
  <1>1. Init => TypeOK
    BY InitTyped
  <1>2. TypeOK /\ [Next]_vars => TypeOK'
    <2> SUFFICES ASSUME TypeOK, [Next]_vars PROVE TypeOK'
      OBVIOUS
    <2>1. CASE Next
      BY <2>1, ProfileCallsTyped, GroupCallsTyped, TenantCallsTyped, UserCallsTyped,
         CommitTyped, AbortTyped DEF Next
    <2>2. CASE UNCHANGED vars
      BY <2>2 DEF TypeOK, TypedCall, vars
    <2>3. QED
      BY <2>1, <2>2
  <1>3. QED
    BY <1>1, <1>2, PTL DEF Spec

-------------------------------------------------------------------------------
(* What holds while calls are in flight *)

LEMMA SoundIdle == SoundCall(Idle)
  BY DEF SoundCall, Idle, Nothing

LEMMA BeginSound ==
  ASSUME TypeOK, LinksInv, NEW c \in Call, NEW w, SoundCall(w), Begin(c, w)
  PROVE  LinksInv'
  <1>1. \A d \in Call : SoundCall(call'[d])
    BY DEF TypeOK, LinksInv, Begin
  <1>2. UNCHANGED <<tenants, profile, group, user>>
    BY DEF Begin
  <1>3. \A d \in Call : SoundCall(call[d])'
    BY <1>1, <1>2 DEF SoundCall, SoundUser, StoredProfiles, StoredGroups
  <1>4. QED
    BY <1>2, <1>3
    DEF LinksInv, SoundUser, StoredProfiles, StoredGroups, StoredUsers

LEMMA ProfileWriteSound ==
  ASSUME NEW p \in Profile, NEW doc, doc.status # "absent", ProfileTenant[p] \in tenants
  PROVE  SoundCall(Transaction({}, Write(p, doc), Nothing, Nothing))
  BY DEF SoundCall, Transaction, Write, Nothing

LEMMA GroupWriteSound ==
  ASSUME NEW g \in Group, NEW doc, SoundGroup(g, doc), doc.profiles \subseteq StoredProfiles
  PROVE  SoundCall(Transaction({}, Nothing, Write(g, doc), Nothing))
  BY DEF SoundCall, Transaction, Write, Nothing

LEMMA UserWriteSound ==
  ASSUME NEW u \in User, NEW doc, SoundUser(u, doc)
  PROVE  SoundCall(Transaction({}, Nothing, Nothing, Write(u, doc)))
  BY DEF SoundCall, Transaction, Write, Nothing

LEMMA ProfileCallsSound ==
  ASSUME TypeOK, LinksInv, NEW c \in Call, NEW p \in Profile,
         CreateProfile(c, p) \/ PatchProfile(c, p) \/ PatchExternalProfile(c, p)
  PROVE  LinksInv'
  <1>1. ProfileTenant[p] \in tenants
    BY DEF CreateProfile, PatchProfile, PatchExternalProfile, LinksInv
  <1>2. PICK doc : /\ doc.status # "absent"
                   /\ Begin(c, Transaction({}, Write(p, doc), Nothing, Nothing))
    <2>1. CASE CreateProfile(c, p) \/ PatchProfile(c, p)
      BY <2>1 DEF CreateProfile, PatchProfile
    <2>2. CASE PatchExternalProfile(c, p)
      <3>1. PICK status \in {"enabled", "disabled"} :
               Begin(c, Transaction({}, Write(p, [profile[p] EXCEPT !.status = status]),
                                    Nothing, Nothing))
        BY <2>2 DEF PatchExternalProfile
      <3>2. [profile[p] EXCEPT !.status = status].status = status
        BY DEF TypeOK, ProfileDoc
      <3>3. QED
        BY <3>1, <3>2
    <2>3. QED
      BY <2>1, <2>2
  <1>3. QED
    BY <1>1, <1>2, ProfileWriteSound, BeginSound

LEMMA CheckedProfilesSound ==
  ASSUME NEW g \in Group, NEW status \in {"enabled", "disabled"}, NEW level, NEW checked, NEW profiles,
         CheckProfiles(GroupCustomer[g], checked, profiles)
  PROVE  SoundGroup(g, [status |-> status, level |-> level, profiles |-> profiles])
  BY DEF CheckProfiles, SoundGroup

LEMMA GroupCallsSound ==
  ASSUME TypeOK, LinksInv, NEW c \in Call, NEW g \in Group, CreateGroup(c, g) \/ PatchGroup(c, g)
  PROVE  LinksInv'
  <1>1. CASE CreateGroup(c, g)
    <2>1. PICK profiles \in SUBSET StoredProfiles, status \in {"enabled", "disabled"},
               level \in Level :
            /\ CheckProfiles(GroupCustomer[g], level, profiles)
            /\ Begin(c, Transaction({}, Nothing,
                 Write(g, [status |-> status, level |-> level, profiles |-> profiles]), Nothing))
      BY <1>1 DEF CreateGroup
    <2>2. QED
      BY <2>1, CheckedProfilesSound, GroupWriteSound, BeginSound
  <1>2. CASE PatchGroup(c, g)
    <2>1. PICK profiles \in (SUBSET StoredProfiles) \cup {group[g].profiles},
               status \in {"enabled", "disabled"}, level \in PatchLevel \cup {group[g].level} :
            /\ CheckPatchGroup(g, status, level, profiles)
            /\ Begin(c, Transaction({}, Nothing,
                 Write(g, [status |-> status, level |-> level, profiles |-> profiles]), Nothing))
      BY <1>2 DEF PatchGroup
    <2>2. SoundGroup(g, group[g]) /\ group[g].profiles \subseteq StoredProfiles
      BY <1>2 DEF PatchGroup, LinksInv
    <2>3. SoundGroup(g, [status |-> status, level |-> level, profiles |-> profiles])
      <3>1. CASE profiles = group[g].profiles
        BY <2>2, <3>1 DEF SoundGroup
      <3>2. CASE profiles # group[g].profiles
        BY <2>1, <3>2, CheckedProfilesSound DEF CheckPatchGroup
      <3>3. QED
        BY <3>1, <3>2
    <2>4. QED
      BY <2>1, <2>2, <2>3, GroupWriteSound, BeginSound
  <1>3. QED
    BY <1>1, <1>2

LEMMA TenantCallsSound ==
  ASSUME TypeOK, LinksInv, NEW c \in Call, NEW t \in Tenant, CreateTenant(c, t)
  PROVE  LinksInv'
  <1> DEFINE a == AdminUser[TenantCustomer[t]]
             g == user[a].group
             h == HierarchyProfile[t]
             doc == [group[g] EXCEPT !.profiles = @ \cup {h}]
             new == [p \in DefaultProfiles(t) |-> [status |-> "enabled", level |-> Root]]
             w == Transaction({t}, new, Write(g, doc), Nothing)
  <1>1. t \notin tenants /\ a \in StoredUsers /\ g \in StoredGroups /\ Begin(c, w)
    BY DEF CreateTenant
  <1>2. g \in Group /\ group[g] \in GroupDoc /\ g # NoGroup
    BY <1>1, LevelsAssumption DEF TypeOK, StoredGroups
  <1>3. doc.status = group[g].status /\ doc.level = group[g].level
        /\ doc.profiles = group[g].profiles \cup {h}
    BY <1>2 DEF GroupDoc
  <1>4. SoundGroup(g, group[g]) /\ group[g].profiles \subseteq StoredProfiles
    BY <1>1 DEF LinksInv
  <1>5. h \in Readonly /\ ProfileTenant[h] = t /\ TenantCustomer[t] \in Customer
        /\ ProfileCustomer[h] = TenantCustomer[t]
    BY ProfilesAssumption, CustomersAssumption
  <1>6. GroupCustomer[g] = TenantCustomer[t]
    <2>1. a \in User /\ UserCustomer[a] = TenantCustomer[t]
      BY <1>5, CustomersAssumption
    <2>2. QED
      BY <1>1, <1>2, <2>1 DEF LinksInv, SoundUser
  <1>7. DistinctSlots(doc.profiles)
    <2>1. \A p \in group[g].profiles : ProfileTenant[p] # t
      BY <1>1, <1>4 DEF LinksInv
    <2>2. DistinctSlots(group[g].profiles)
      BY <1>4 DEF SoundGroup
    <2>3. \A p \in doc.profiles : p \in group[g].profiles \/ p = h
      BY <1>3
    <2>4. QED
      BY <1>5, <2>1, <2>2, <2>3 DEF DistinctSlots
  <1>8. SoundGroup(g, doc)
    BY <1>3, <1>4, <1>5, <1>6, <1>7 DEF SoundGroup
  <1>9. SoundCall(w)
    <2>1. h \in DOMAIN new
      BY <1>5 DEF DefaultProfiles
    <2>2. \A p \in DOMAIN new : new[p].status = "enabled" /\ ProfileTenant[p] = t
      BY DEF DefaultProfiles
    <2>3. QED
      BY <1>2, <1>3, <1>4, <1>8, <2>1, <2>2 DEF SoundCall, Transaction, Write, Nothing
  <1>10. QED
    BY <1>1, <1>9, BeginSound

LEMMA UserCallsSound ==
  ASSUME TypeOK, LinksInv, NEW c \in Call, NEW u \in User,
         CreateUser(c, u) \/ UpdateUser(c, u) \/ PatchUser(c, u) \/ PatchAnalytics(c, u)
  PROVE  LinksInv'
  <1>1. ASSUME NEW g \in Group, CheckGroup(UserCustomer[u], g)
        PROVE  SoundUser(u, [status |-> "present", level |-> group[g].level, group |-> g])
    BY <1>1 DEF CheckGroup, SoundUser
  <1>2. CASE CreateUser(c, u)
    BY <1>1, <1>2, UserWriteSound, BeginSound DEF CreateUser
  <1>3. CASE UpdateUser(c, u)
    BY <1>1, <1>3, UserWriteSound, BeginSound DEF UpdateUser
  <1>4. CASE PatchUser(c, u)
    <2>1. SoundUser(u, [user[u] EXCEPT !.group = NoGroup])
      <3>1. user[u] \in UserDoc /\ user[u].status # "absent"
        BY <1>4 DEF PatchUser, StoredUsers, TypeOK
      <3>2. [user[u] EXCEPT !.group = NoGroup].group = NoGroup
            /\ [user[u] EXCEPT !.group = NoGroup].status = user[u].status
        BY <3>1 DEF UserDoc
      <3>3. QED
        BY <3>1, <3>2 DEF SoundUser
    <2>2. QED
      BY <1>1, <1>4, <2>1, UserWriteSound, BeginSound DEF PatchUser
  <1>5. CASE PatchAnalytics(c, u)
    <2>1. SoundUser(u, user[u])
      BY <1>5 DEF PatchAnalytics, LinksInv
    <2>2. SoundCall([Idle EXCEPT !.users = Write(u, user[u])])
      BY <2>1 DEF SoundCall, Idle, Write, Nothing
    <2>3. QED
      BY <1>5, <2>2, BeginSound DEF PatchAnalytics
  <1>6. QED
    BY <1>2, <1>3, <1>4, <1>5

\* A commit adds documents and removes none.
LEMMA CommitGrows ==
  ASSUME TypeOK, LinksInv, NEW c \in Call, Commit(c)
  PROVE  /\ tenants' = tenants \cup call[c].tenants
         /\ StoredProfiles' = StoredProfiles \cup DOMAIN call[c].profiles
         /\ StoredGroups' = StoredGroups \cup DOMAIN call[c].groups
         /\ StoredUsers' = StoredUsers \cup DOMAIN call[c].users
         /\ \A g \in Group : group'[g] = IF g \in DOMAIN call[c].groups
                                         THEN call[c].groups[g] ELSE group[g]
         /\ \A u \in User : user'[u] = IF u \in DOMAIN call[c].users
                                       THEN call[c].users[u] ELSE user[u]
  <1> DEFINE w == call[c]
  <1>1. TypedCall(w) /\ SoundCall(w)
    BY DEF TypeOK, LinksInv
  <1>2. /\ AreWrites(w.profiles, Profile, ProfileDoc)
        /\ AreWrites(w.groups, Group, GroupDoc)
        /\ AreWrites(w.users, User, UserDoc)
    BY <1>1 DEF TypedCall
  <1>3. DOMAIN w.profiles \subseteq Profile /\ DOMAIN w.groups \subseteq Group
        /\ DOMAIN w.users \subseteq User
    BY <1>2 DEF AreWrites
  <1>4. /\ profile' = Save(profile, w.profiles)
        /\ group' = Save(group, w.groups)
        /\ user' = Save(user, w.users)
        /\ tenants' = tenants \cup w.tenants
    BY DEF Commit
  <1>5. \A p \in Profile :
           profile'[p] = IF p \in DOMAIN w.profiles THEN w.profiles[p] ELSE profile[p]
    <2>1. DOMAIN profile = Profile
      BY DEF TypeOK
    <2>2. QED
      BY <1>4, <2>1 DEF Save
  <1>6. \A g \in Group : group'[g] = IF g \in DOMAIN w.groups THEN w.groups[g] ELSE group[g]
    <2>1. DOMAIN group = Group
      BY DEF TypeOK
    <2>2. QED
      BY <1>4, <2>1 DEF Save
  <1>7. \A u \in User : user'[u] = IF u \in DOMAIN w.users THEN w.users[u] ELSE user[u]
    <2>1. DOMAIN user = User
      BY DEF TypeOK
    <2>2. QED
      BY <1>4, <2>1 DEF Save
  <1>8. StoredProfiles' = StoredProfiles \cup DOMAIN w.profiles
    BY <1>1, <1>3, <1>5 DEF StoredProfiles, SoundCall
  <1>9. StoredGroups' = StoredGroups \cup DOMAIN w.groups
    BY <1>1, <1>3, <1>6 DEF StoredGroups, SoundCall, SoundGroup
  <1>10. StoredUsers' = StoredUsers \cup DOMAIN w.users
    BY <1>1, <1>3, <1>7 DEF StoredUsers, SoundCall, SoundUser
  <1>11. QED
    BY <1>4, <1>6, <1>7, <1>8, <1>9, <1>10

LEMMA CommitSound ==
  ASSUME TypeOK, LinksInv, NEW c \in Call, Commit(c)
  PROVE  LinksInv'
  <1> DEFINE w == call[c]
  <1>1. SoundCall(w) /\ TypedCall(w)
    BY DEF LinksInv, TypeOK
  <1>2. \A p \in StoredProfiles' : ProfileTenant[p] \in tenants'
    BY <1>1, CommitGrows DEF LinksInv, SoundCall
  <1>3. \A g \in StoredGroups' :
           SoundGroup(g, group'[g]) /\ group'[g].profiles \subseteq StoredProfiles'
    <2> TAKE g \in StoredGroups'
    <2>1. g \in Group
      BY DEF StoredGroups
    <2>2. CASE g \in DOMAIN w.groups
      BY <1>1, <2>1, <2>2, CommitGrows DEF SoundCall
    <2>3. CASE g \notin DOMAIN w.groups
      BY <2>1, <2>3, CommitGrows DEF LinksInv
    <2>4. QED
      BY <2>2, <2>3
  <1>4. ASSUME NEW u, NEW doc, SoundUser(u, doc)
        PROVE  SoundUser(u, doc)'
    BY <1>4, CommitGrows DEF SoundUser
  <1>5. \A u \in StoredUsers' : SoundUser(u, user[u])'
    <2> TAKE u \in StoredUsers'
    <2>1. u \in User
      BY DEF StoredUsers
    <2>2. SoundUser(u, user'[u])
      BY <1>1, <2>1, CommitGrows DEF LinksInv, SoundCall
    <2>3. QED
      BY <1>4, <2>2 DEF SoundUser
  <1>6. \A d \in Call : SoundCall(call[d])'
    <2> TAKE d \in Call
    <2> DEFINE x == call'[d]
    <2>1. SoundCall(x)
      BY SoundIdle DEF Commit, LinksInv
    <2>2. \A p \in DOMAIN x.profiles :
             x.profiles[p].status # "absent" /\ ProfileTenant[p] \in tenants' \cup x.tenants
      BY <2>1, CommitGrows DEF SoundCall
    <2>3. \A g \in DOMAIN x.groups :
             /\ x.transactional
             /\ SoundGroup(g, x.groups[g])
             /\ x.groups[g].profiles \subseteq StoredProfiles' \cup DOMAIN x.profiles
      BY <2>1, CommitGrows DEF SoundCall
    <2>4. \A u \in DOMAIN x.users : SoundUser(u, call[d].users[u])'
      <3> TAKE u \in DOMAIN x.users
      <3>1. SoundUser(u, x.users[u])
        BY <2>1 DEF SoundCall
      <3>2. QED
        BY <1>4, <3>1 DEF SoundUser
    <2>5. QED
      BY <2>2, <2>3, <2>4 DEF SoundCall, SoundGroup
  <1>7. QED
    BY <1>2, <1>3, <1>5, <1>6 DEF LinksInv, SoundGroup

LEMMA AbortSound ==
  ASSUME TypeOK, LinksInv, NEW c \in Call, Abort(c)
  PROVE  LinksInv'
  <1>1. Begin(c, Idle)
    BY DEF Abort, Begin
  <1>2. QED
    BY <1>1, SoundIdle, BeginSound

LEMMA InitSound == Init => LinksInv
  <1> SUFFICES ASSUME Init PROVE LinksInv
    OBVIOUS
  <1>1. \A p \in StoredProfiles : ProfileTenant[p] \in tenants
    BY DEF Init, StoredProfiles
  <1>2. ASSUME NEW g \in StoredGroups
        PROVE  SoundGroup(g, group[g]) /\ group[g].profiles \subseteq StoredProfiles
    <2> DEFINE h == HierarchyProfile[ProofTenant[GroupCustomer[g]]]
    <2>1. g \in Group /\ ReadonlyGroup(g)
      BY <1>2 DEF Init, StoredGroups
    <2>2. group[g] = [status |-> "enabled", level |-> Root, profiles |-> {h}]
      BY <2>1 DEF Init
    <2>3. ProofTenant[GroupCustomer[g]] \in Tenant
          /\ TenantCustomer[ProofTenant[GroupCustomer[g]]] = GroupCustomer[g]
      BY <2>1, CustomersAssumption
    <2>4. h \in Readonly /\ h \in Profile /\ ProfileTenant[h] = ProofTenant[GroupCustomer[g]]
          /\ ProfileCustomer[h] = GroupCustomer[g]
      BY <2>3, ProfilesAssumption
    <2>5. h \in StoredProfiles
      BY <2>1, <2>4, CustomersAssumption DEF Init, StoredProfiles
    <2>6. QED
      BY <2>2, <2>3, <2>4, <2>5 DEF SoundGroup, DistinctSlots
  <1>3. ASSUME NEW u \in StoredUsers
        PROVE  SoundUser(u, user[u])
    <2> DEFINE g == AdminGroup[UserCustomer[u]]
    <2>1. u \in User /\ ReadonlyUser(u)
      BY <1>3 DEF Init, StoredUsers
    <2>2. user[u] = [status |-> "present", level |-> Root, group |-> g]
      BY <2>1 DEF Init
    <2>3. g \in Group /\ GroupCustomer[g] = UserCustomer[u] /\ ReadonlyGroup(g)
      BY <2>1, CustomersAssumption DEF ReadonlyGroup
    <2>4. group[g].status = "enabled" /\ group[g].level = Root
      BY <2>3 DEF Init
    <2>5. QED
      BY <2>2, <2>3, <2>4 DEF SoundUser, StoredGroups
  <1>4. \A c \in Call : call[c] = Idle
    BY DEF Init
  <1>5. QED
    BY <1>1, <1>2, <1>3, <1>4, SoundIdle DEF LinksInv

LEMMA StepSound ==
  ASSUME TypeOK, LinksInv, [Next]_vars
  PROVE  LinksInv'
  <1>1. CASE Next
    BY <1>1, ProfileCallsSound, GroupCallsSound, TenantCallsSound, UserCallsSound,
       CommitSound, AbortSound DEF Next
  <1>2. CASE UNCHANGED vars
    BY <1>2 DEF LinksInv, SoundCall, SoundUser, StoredProfiles, StoredGroups, StoredUsers, vars
  <1>3. QED
    BY <1>1, <1>2

\* What stays linked and apart, for any number of calls in flight.
THEOREM Linked == Spec => []LinksInv
  <1>1. Init => LinksInv
    BY InitSound
  <1>2. TypeOK /\ LinksInv /\ [Next]_vars => LinksInv'
    BY StepSound
  <1>3. QED
    BY <1>1, <1>2, TypeCorrect, PTL DEF Spec

\* The customers stay apart: concurrent calls of any customers never put a user
\* in a group of another customer, nor open a tenant of another customer.
THEOREM Apart == Spec => []CustomersApart
  <1>1. LinksInv => CustomersApart
    BY DEF LinksInv, CustomersApart, SoundGroup, SoundUser
  <1>2. QED
    BY <1>1, Linked, PTL

\* No group ever has two profiles for an application and a tenant.
THEOREM Slots == Spec => []GroupSlots
  <1>1. LinksInv => GroupSlots
    BY DEF LinksInv, GroupSlots, SoundGroup
  <1>2. QED
    BY <1>1, Linked, PTL

\* The collections change when a call commits.
LEMMA OnlyCommits ==
  ASSUME Next
  PROVE  (\E c \in Call : Commit(c)) \/ UNCHANGED <<tenants, profile, group, user>>
  <1>1. ASSUME NEW c \in Call, NEW p \in Profile,
               CreateProfile(c, p) \/ PatchProfile(c, p) \/ PatchExternalProfile(c, p)
        PROVE  UNCHANGED <<tenants, profile, group, user>>
    BY <1>1 DEF CreateProfile, PatchProfile, PatchExternalProfile, Begin
  <1>2. ASSUME NEW c \in Call, NEW g \in Group, CreateGroup(c, g) \/ PatchGroup(c, g)
        PROVE  UNCHANGED <<tenants, profile, group, user>>
    BY <1>2 DEF CreateGroup, PatchGroup, Begin
  <1>3. ASSUME NEW c \in Call, NEW t \in Tenant, CreateTenant(c, t)
        PROVE  UNCHANGED <<tenants, profile, group, user>>
    BY <1>3 DEF CreateTenant, Begin
  <1>4. ASSUME NEW c \in Call, NEW u \in User,
               CreateUser(c, u) \/ UpdateUser(c, u) \/ PatchUser(c, u) \/ PatchAnalytics(c, u)
        PROVE  UNCHANGED <<tenants, profile, group, user>>
    BY <1>4 DEF CreateUser, UpdateUser, PatchUser, PatchAnalytics, Begin
  <1>5. ASSUME NEW c \in Call, Abort(c)
        PROVE  UNCHANGED <<tenants, profile, group, user>>
    BY <1>5 DEF Abort
  <1>6. QED
    BY <1>1, <1>2, <1>3, <1>4, <1>5 DEF Next

-------------------------------------------------------------------------------
(* The levels, while calls are in flight *)

\* What a call about to write w adds to LevelsInv.
KeepsLevels(w) ==
  /\ \A g \in DOMAIN w.groups \cap StoredGroups : w.groups[g].level = group[g].level
  /\ \A u \in DOMAIN w.users : AtLevel(w.users[u])

LEMMA LevelsOfIdle == KeepsLevels(Idle)
  BY DEF KeepsLevels, Idle, Nothing

LEMMA BeginLevels ==
  ASSUME TypeOK, LevelsInv, NEW c \in Call, NEW w, KeepsLevels(w), Begin(c, w)
  PROVE  LevelsInv'
  <1>1. UNCHANGED <<group, user>>
    BY DEF Begin
  <1>2. \A d \in Call : KeepsLevels(call'[d])
    BY DEF TypeOK, LevelsInv, KeepsLevels, Begin
  <1>3. QED
    BY <1>1, <1>2 DEF LevelsInv, KeepsLevels, AtLevel, StoredGroups, StoredUsers

LEMMA ProfileCallsLevels ==
  ASSUME TypeOK, LevelsInv, NEW c \in Call, NEW p \in Profile,
         CreateProfile(c, p) \/ PatchProfile(c, p) \/ PatchExternalProfile(c, p)
  PROVE  LevelsInv'
  <1>1. PICK doc : Begin(c, Transaction({}, Write(p, doc), Nothing, Nothing))
    BY DEF CreateProfile, PatchProfile, PatchExternalProfile
  <1>2. KeepsLevels(Transaction({}, Write(p, doc), Nothing, Nothing))
    BY DEF KeepsLevels, Transaction, Nothing
  <1>3. QED
    BY <1>1, <1>2, BeginLevels

\* A group that is stored has profiles, so a patch has to leave its level.
LEMMA GroupCallsLevels ==
  ASSUME NullLevel \notin PatchLevel, TypeOK, LinksInv, LevelsInv,
         NEW c \in Call, NEW g \in Group, CreateGroup(c, g) \/ PatchGroup(c, g)
  PROVE  LevelsInv'
  <1>1. ASSUME NEW doc, g \in StoredGroups => doc.level = group[g].level,
               Begin(c, Transaction({}, Nothing, Write(g, doc), Nothing))
        PROVE  LevelsInv'
    <2>1. KeepsLevels(Transaction({}, Nothing, Write(g, doc), Nothing))
      BY <1>1 DEF KeepsLevels, Transaction, Write, Nothing
    <2>2. QED
      BY <1>1, <2>1, BeginLevels
  <1>2. CASE CreateGroup(c, g)
    <2>1. g \notin StoredGroups
      BY <1>2 DEF CreateGroup, StoredGroups
    <2>2. QED
      BY <1>1, <1>2, <2>1 DEF CreateGroup
  <1>3. CASE PatchGroup(c, g)
    <2>1. PICK profiles \in (SUBSET StoredProfiles) \cup {group[g].profiles},
               status \in {"enabled", "disabled"}, level \in PatchLevel \cup {group[g].level} :
            /\ CheckPatchGroup(g, status, level, profiles)
            /\ Begin(c, Transaction({}, Nothing,
                 Write(g, [status |-> status, level |-> level, profiles |-> profiles]), Nothing))
      BY <1>3 DEF PatchGroup
    <2>2. group[g].profiles # {}
      BY <1>3 DEF PatchGroup, LinksInv, SoundGroup
    <2>3. level = group[g].level
      BY <2>1, <2>2 DEF CheckPatchGroup
    <2>4. QED
      BY <1>1, <2>1, <2>3
  <1>4. QED
    BY <1>2, <1>3

LEMMA TenantCallsLevels ==
  ASSUME TypeOK, LevelsInv, NEW c \in Call, NEW t \in Tenant, CreateTenant(c, t)
  PROVE  LevelsInv'
  <1> DEFINE g == user[AdminUser[TenantCustomer[t]]].group
             doc == [group[g] EXCEPT !.profiles = @ \cup {HierarchyProfile[t]}]
             new == [p \in DefaultProfiles(t) |-> [status |-> "enabled", level |-> Root]]
  <1>1. g \in Group /\ Begin(c, Transaction({t}, new, Write(g, doc), Nothing))
    BY DEF CreateTenant, StoredGroups
  <1>2. doc.level = group[g].level
    BY <1>1 DEF TypeOK, GroupDoc
  <1>3. KeepsLevels(Transaction({t}, new, Write(g, doc), Nothing))
    BY <1>2 DEF KeepsLevels, Transaction, Write, Nothing
  <1>4. QED
    BY <1>1, <1>3, BeginLevels

LEMMA UserCallsLevels ==
  ASSUME TypeOK, LevelsInv, NEW c \in Call, NEW u \in User,
         CreateUser(c, u) \/ UpdateUser(c, u) \/ PatchUser(c, u) \/ PatchAnalytics(c, u)
  PROVE  LevelsInv'
  <1>1. ASSUME NEW doc, AtLevel(doc), Begin(c, Transaction({}, Nothing, Nothing, Write(u, doc)))
        PROVE  LevelsInv'
    <2>1. KeepsLevels(Transaction({}, Nothing, Nothing, Write(u, doc)))
      BY <1>1 DEF KeepsLevels, Transaction, Write, Nothing
    <2>2. QED
      BY <1>1, <2>1, BeginLevels
  <1>2. \A g \in Group : AtLevel([status |-> "present", level |-> group[g].level, group |-> g])
    BY DEF AtLevel
  <1>3. CASE CreateUser(c, u)
    BY <1>1, <1>2, <1>3 DEF CreateUser
  <1>4. CASE UpdateUser(c, u)
    BY <1>1, <1>2, <1>4 DEF UpdateUser
  <1>5. CASE PatchUser(c, u)
    <2>1. AtLevel([user[u] EXCEPT !.group = NoGroup])
      <3>1. user[u] \in UserDoc
        BY DEF TypeOK
      <3>2. [user[u] EXCEPT !.group = NoGroup].group = NoGroup
        BY <3>1 DEF UserDoc
      <3>3. QED
        BY <3>2 DEF AtLevel
    <2>2. QED
      BY <1>1, <1>2, <1>5, <2>1 DEF PatchUser
  <1>6. CASE PatchAnalytics(c, u)
    <2>1. AtLevel(user[u])
      BY <1>6 DEF PatchAnalytics, LevelsInv
    <2>2. KeepsLevels([Idle EXCEPT !.users = Write(u, user[u])])
      BY <2>1 DEF KeepsLevels, Idle, Write, Nothing
    <2>3. QED
      BY <1>6, <2>2, BeginLevels DEF PatchAnalytics
  <1>7. QED
    BY <1>3, <1>4, <1>5, <1>6

LEMMA CommitKeepsLevels ==
  ASSUME TypeOK, LinksInv, LevelsInv, NEW c \in Call, Commit(c)
  PROVE  \A g \in StoredGroups : group'[g].level = group[g].level
  BY CommitGrows DEF LevelsInv, StoredGroups

LEMMA CommitLevels ==
  ASSUME TypeOK, LinksInv, LevelsInv, NEW c \in Call, Commit(c)
  PROVE  LevelsInv'
  <1> DEFINE w == call[c]
  <1>1. ASSUME NEW u, NEW doc, SoundUser(u, doc), AtLevel(doc)
        PROVE  AtLevel(doc)'
    BY <1>1, CommitKeepsLevels DEF SoundUser, AtLevel
  <1>2. SoundCall(w) /\ KeepsLevels(w)
    BY DEF LinksInv, LevelsInv, KeepsLevels
  <1>3. ASSUME NEW u \in StoredUsers'
        PROVE  AtLevel(user[u])'
    <2>1. u \in User
      BY DEF StoredUsers
    <2>2. SoundUser(u, user'[u]) /\ AtLevel(user'[u])
      BY <1>2, <2>1, CommitGrows DEF LinksInv, LevelsInv, SoundCall, KeepsLevels
    <2>3. QED
      BY <1>1, <2>2 DEF AtLevel
  <1>4. ASSUME NEW d \in Call
        PROVE  KeepsLevels(call[d])'
    <2> DEFINE x == call'[d]
    <2>1. /\ SoundCall(x) /\ KeepsLevels(x)
          /\ x.transactional => DOMAIN x.groups \cap DOMAIN w.groups = {}
      <3>1. CASE x = Idle
        BY <3>1, SoundIdle, LevelsOfIdle DEF Idle
      <3>2. CASE x # Idle
        BY <3>2 DEF Commit, SameDocument, LinksInv, LevelsInv, KeepsLevels
      <3>3. QED
        BY <3>1, <3>2
    <2>2. \A g \in DOMAIN x.groups \cap StoredGroups' : x.groups[g].level = group'[g].level
      BY <2>1, CommitGrows DEF SoundCall, KeepsLevels, StoredGroups
    <2>3. ASSUME NEW u \in DOMAIN x.users
          PROVE  AtLevel(call[d].users[u])'
      <3>1. SoundUser(u, x.users[u]) /\ AtLevel(x.users[u])
        BY <2>1 DEF SoundCall, KeepsLevels
      <3>2. QED
        BY <1>1, <3>1 DEF AtLevel
    <2>4. QED
      BY <2>2, <2>3 DEF KeepsLevels
  <1>5. QED
    BY <1>3, <1>4 DEF LevelsInv, KeepsLevels

LEMMA AbortLevels ==
  ASSUME TypeOK, LevelsInv, NEW c \in Call, Abort(c)
  PROVE  LevelsInv'
  <1>1. Begin(c, Idle)
    BY DEF Abort, Begin
  <1>2. QED
    BY <1>1, LevelsOfIdle, BeginLevels

LEMMA InitLevels == Init => LevelsInv
  <1> SUFFICES ASSUME Init PROVE LevelsInv
    OBVIOUS
  <1>1. ASSUME NEW u \in StoredUsers
        PROVE  AtLevel(user[u])
    <2>1. u \in User /\ user[u].level = Root /\ user[u].group = AdminGroup[UserCustomer[u]]
      BY DEF Init, StoredUsers
    <2>2. AdminGroup[UserCustomer[u]] \in Group
      BY <2>1, CustomersAssumption
    <2>3. QED
      BY <2>1, <2>2 DEF Init, AtLevel
  <1>2. \A c \in Call : call[c] = Idle
    BY DEF Init
  <1>3. QED
    BY <1>1, <1>2, LevelsOfIdle DEF LevelsInv, KeepsLevels

LEMMA StepLevels ==
  ASSUME NullLevel \notin PatchLevel, TypeOK, LinksInv, LevelsInv, [Next]_vars
  PROVE  LevelsInv'
  <1>1. CASE Next
    BY <1>1, ProfileCallsLevels, GroupCallsLevels, TenantCallsLevels, UserCallsLevels,
       CommitLevels, AbortLevels DEF Next
  <1>2. CASE UNCHANGED vars
    BY <1>2 DEF LevelsInv, AtLevel, StoredGroups, StoredUsers, vars
  <1>3. QED
    BY <1>1, <1>2

\* The inductive invariant, for any number of calls in flight.
THEOREM Sound ==
  ASSUME NullLevel \notin PatchLevel
  PROVE  Spec => []IdentityInv
  <1>1. Init => LevelsInv
    BY InitLevels
  <1>2. TypeOK /\ LinksInv /\ LevelsInv /\ [Next]_vars => LevelsInv'
    BY StepLevels
  <1>3. IdentityInv <=> LinksInv /\ LevelsInv
    BY DEF IdentityInv
  <1>4. QED
    BY <1>1, <1>2, <1>3, TypeCorrect, Linked, PTL DEF Spec

\* The level copied on the users never goes stale.
THEOREM LevelsOfUsers ==
  ASSUME NullLevel \notin PatchLevel
  PROVE  Spec => []UserLevels
  <1>1. IdentityInv => UserLevels
    BY DEF IdentityInv, LevelsInv, AtLevel, UserLevels
  <1>2. QED
    BY <1>1, Sound, PTL

\* A group has the level it was created with for ever.
THEOREM LevelsOfGroups ==
  ASSUME NullLevel \notin PatchLevel
  PROVE  Spec => GroupLevelIsFixed
  <1>1. TypeOK /\ IdentityInv /\ [Next]_vars =>
           [\A g \in StoredGroups : group'[g].level = group[g].level]_vars
    BY OnlyCommits, CommitKeepsLevels DEF IdentityInv
  <1>2. QED
    BY <1>1, TypeCorrect, Sound, PTL DEF Spec, GroupLevelIsFixed

-------------------------------------------------------------------------------
(* One call at a time *)

After(w) == Consistent(Save(profile, w.profiles), Save(group, w.groups), Save(user, w.users))

LEMMA SaveNothing ==
  ASSUME NEW Id, NEW Doc, NEW docs \in [Id -> Doc]
  PROVE  Save(docs, Nothing) = docs
  BY DEF Save, Nothing

LEMMA SaveWrite ==
  ASSUME NEW Id, NEW Doc, NEW docs \in [Id -> Doc], NEW id \in Id, NEW doc, NEW i \in Id
  PROVE  Save(docs, Write(id, doc))[i] = IF i = id THEN doc ELSE docs[i]
  BY DEF Save, Write

LEMMA AfterIdle ==
  ASSUME TypeOK, Consistent(profile, group, user)
  PROVE  After(Idle)
  <1>1. Save(profile, Nothing) = profile /\ Save(group, Nothing) = group
        /\ Save(user, Nothing) = user
    BY SaveNothing DEF TypeOK
  <1>2. QED
    BY <1>1 DEF After, Idle

LEMMA BeginSerial ==
  ASSUME \A c1, c2 \in Call : c1 = c2,
         TypeOK, SerialInv, NEW c \in Call, NEW w, After(w), Begin(c, w)
  PROVE  SerialInv'
  <1>1. UNCHANGED <<profile, group, user>>
    BY DEF Begin
  <1>2. \A d \in Call : call'[d] = w
    BY DEF Begin, TypeOK
  <1>3. QED
    BY <1>1, <1>2 DEF SerialInv, After

\* A profile may change, except that a referenced one keeps its level and stays
\* enabled.
LEMMA ProfileWriteSerial ==
  ASSUME TypeOK, SerialInv, NEW p \in Profile, NEW doc,
         ~ Unreferenced(p) =>
           /\ doc.level = profile[p].level
           /\ doc.status = "enabled" \/ ProfileApp[p] = ExternalParams
  PROVE  After(Transaction({}, Write(p, doc), Nothing, Nothing))
  <1> DEFINE saved == Save(profile, Write(p, doc))
  <1>1. \A q \in Profile : saved[q] = IF q = p THEN doc ELSE profile[q]
    <2>1. profile \in [Profile -> ProfileDoc]
      BY DEF TypeOK
    <2>2. QED
      BY <2>1, SaveWrite
  <1>2. Save(group, Nothing) = group /\ Save(user, Nothing) = user
    BY SaveNothing DEF TypeOK
  <1>3. Consistent(profile, group, user)
    BY DEF SerialInv
  <1>4. \A g \in Group : group[g].status # "absent" => group[g].profiles \subseteq Profile
    BY DEF TypeOK, GroupDoc
  <1>5. LevelsAgree(saved, group)
    BY <1>1, <1>3, <1>4 DEF Consistent, LevelsAgree, Unreferenced, StoredGroups
  <1>6. Enabled(saved, group, user)
    BY <1>1, <1>3, <1>4 DEF Consistent, Enabled, Unreferenced, StoredGroups
  <1>7. Consistent(saved, group, user)
    BY <1>3, <1>5, <1>6 DEF Consistent
  <1>8. QED
    BY <1>2, <1>7 DEF After, Transaction

LEMMA ProfileCallsSerial ==
  ASSUME NullLevel \notin PatchLevel, \A c1, c2 \in Call : c1 = c2,
         TypeOK, IdentityInv, SerialInv, NEW c \in Call, NEW p \in Profile,
         CreateProfile(c, p) \/ PatchProfile(c, p) \/ PatchExternalProfile(c, p)
  PROVE  SerialInv'
  <1>1. ~ Unreferenced(p) =>
          /\ p \in StoredProfiles
          /\ profile[p].status = "enabled" \/ ProfileApp[p] = ExternalParams
    BY DEF IdentityInv, LinksInv, SerialInv, Consistent, Enabled, Unreferenced, StoredGroups
  <1>2. CASE CreateProfile(c, p)
    <2>1. Unreferenced(p)
      BY <1>1, <1>2 DEF CreateProfile, StoredProfiles
    <2>2. QED
      BY <1>2, <2>1, ProfileWriteSerial, BeginSerial DEF CreateProfile
  <1>3. CASE PatchProfile(c, p)
    <2>1. PICK status \in {"enabled", "disabled"}, level \in PatchLevel \cup {profile[p].level} :
            /\ CheckPatchProfile(p, status, level)
            /\ Begin(c, Transaction({}, Write(p, [status |-> status, level |-> level]),
                                    Nothing, Nothing))
      BY <1>3 DEF PatchProfile
    <2>2. ~ Unreferenced(p) =>
            /\ level = profile[p].level
            /\ status = "enabled" \/ ProfileApp[p] = ExternalParams
      BY <1>1, <2>1 DEF CheckPatchProfile
    <2>3. QED
      BY <2>1, <2>2, ProfileWriteSerial, BeginSerial
  <1>4. CASE PatchExternalProfile(c, p)
    <2>1. PICK status \in {"enabled", "disabled"} :
            Begin(c, Transaction({}, Write(p, [profile[p] EXCEPT !.status = status]),
                                 Nothing, Nothing))
      BY <1>4 DEF PatchExternalProfile
    <2>2. [profile[p] EXCEPT !.status = status].level = profile[p].level
      BY DEF TypeOK, ProfileDoc
    <2>3. ProfileApp[p] = ExternalParams
      BY <1>4 DEF PatchExternalProfile
    <2>4. QED
      BY <2>1, <2>2, <2>3, ProfileWriteSerial, BeginSerial
  <1>5. QED
    BY <1>2, <1>3, <1>4

\* A group may change to profiles of its level, and be disabled without users.
LEMMA GroupWriteSerial ==
  ASSUME TypeOK, SerialInv, NEW g \in Group, NEW doc,
         doc.status = "enabled" \/ NoUsers(g),
         \A p \in doc.profiles :
           /\ p \in Profile
           /\ profile[p].level = doc.level
           /\ profile[p].status = "enabled" \/ ProfileApp[p] = ExternalParams
  PROVE  After(Transaction({}, Nothing, Write(g, doc), Nothing))
  <1> DEFINE saved == Save(group, Write(g, doc))
  <1>1. \A h \in Group : saved[h] = IF h = g THEN doc ELSE group[h]
    BY SaveWrite DEF TypeOK
  <1>2. Save(profile, Nothing) = profile /\ Save(user, Nothing) = user
    BY SaveNothing DEF TypeOK
  <1>3. Consistent(profile, group, user)
    BY DEF SerialInv
  <1>4. LevelsAgree(profile, saved)
    BY <1>1, <1>3 DEF Consistent, LevelsAgree
  <1>5. Enabled(profile, saved, user)
    <2>1. \A h \in Group : saved[h].status # "absent" =>
            \A p \in saved[h].profiles :
              profile[p].status = "enabled" \/ ProfileApp[p] = ExternalParams
      BY <1>1, <1>3 DEF Consistent, Enabled
    <2>2. \A u \in User : user[u].group # NoGroup => user[u].group \in Group
      BY DEF TypeOK, UserDoc
    <2>3. \A u \in User : user[u].status # "absent" /\ user[u].group # NoGroup =>
            saved[user[u].group].status = "enabled"
      BY <1>1, <1>3, <2>2 DEF Consistent, Enabled, NoUsers, StoredUsers
    <2>4. QED
      BY <2>1, <2>3 DEF Enabled
  <1>6. Consistent(profile, saved, user)
    BY <1>3, <1>4, <1>5 DEF Consistent
  <1>7. QED
    BY <1>2, <1>6 DEF After, Transaction

LEMMA GroupCallsSerial ==
  ASSUME NullLevel \notin PatchLevel, \A c1, c2 \in Call : c1 = c2,
         TypeOK, IdentityInv, SerialInv, NEW c \in Call, NEW g \in Group,
         CreateGroup(c, g) \/ PatchGroup(c, g)
  PROVE  SerialInv'
  <1>1. StoredProfiles \subseteq Profile
    BY DEF StoredProfiles
  <1>2. CASE CreateGroup(c, g)
    <2>1. PICK profiles \in SUBSET StoredProfiles, status \in {"enabled", "disabled"},
               level \in Level :
            /\ CheckProfiles(GroupCustomer[g], level, profiles)
            /\ Begin(c, Transaction({}, Nothing,
                 Write(g, [status |-> status, level |-> level, profiles |-> profiles]), Nothing))
      BY <1>2 DEF CreateGroup
    <2>2. NoUsers(g)
      BY <1>2, LevelsAssumption
      DEF CreateGroup, NoUsers, IdentityInv, LinksInv, SoundUser, StoredGroups
    <2>3. QED
      BY <1>1, <2>1, <2>2, GroupWriteSerial, BeginSerial DEF CheckProfiles
  <1>3. CASE PatchGroup(c, g)
    <2>1. PICK profiles \in (SUBSET StoredProfiles) \cup {group[g].profiles},
               status \in {"enabled", "disabled"}, level \in PatchLevel \cup {group[g].level} :
            /\ CheckPatchGroup(g, status, level, profiles)
            /\ Begin(c, Transaction({}, Nothing,
                 Write(g, [status |-> status, level |-> level, profiles |-> profiles]), Nothing))
      BY <1>3 DEF PatchGroup
    <2>2. g \in StoredGroups /\ SoundGroup(g, group[g]) /\ group[g].profiles \subseteq StoredProfiles
      BY <1>3 DEF PatchGroup, IdentityInv, LinksInv
    <2>3. level = group[g].level
      BY <2>1, <2>2 DEF CheckPatchGroup, SoundGroup
    <2>4. status = "enabled" \/ NoUsers(g)
      <3>1. group[g].status = "disabled" => NoUsers(g)
        BY LevelsAssumption DEF SerialInv, Consistent, Enabled, NoUsers, StoredUsers
      <3>2. QED
        BY <2>1, <3>1 DEF CheckPatchGroup
    <2>5. \A p \in profiles :
            /\ p \in Profile
            /\ profile[p].level = level
            /\ profile[p].status = "enabled" \/ ProfileApp[p] = ExternalParams
      <3>1. CASE profiles = group[g].profiles
        BY <1>1, <2>2, <2>3, <3>1
        DEF SerialInv, Consistent, LevelsAgree, Enabled, StoredGroups
      <3>2. CASE profiles # group[g].profiles
        BY <1>1, <2>1, <2>3, <3>2 DEF CheckPatchGroup, CheckProfiles
      <3>3. QED
        BY <3>1, <3>2
    <2>6. QED
      BY <2>1, <2>4, <2>5, GroupWriteSerial, BeginSerial
  <1>4. QED
    BY <1>2, <1>3

LEMMA TenantCallsSerial ==
  ASSUME \A c1, c2 \in Call : c1 = c2, TypeOK, IdentityInv, SerialInv,
         NEW c \in Call, NEW t \in Tenant, CreateTenant(c, t)
  PROVE  SerialInv'
  <1> DEFINE a == AdminUser[TenantCustomer[t]]
             g == user[a].group
             h == HierarchyProfile[t]
             doc == [group[g] EXCEPT !.profiles = @ \cup {h}]
             new == [p \in DefaultProfiles(t) |-> [status |-> "enabled", level |-> Root]]
             w == Transaction({t}, new, Write(g, doc), Nothing)
             profiles == Save(profile, new)
             groups == Save(group, Write(g, doc))
  <1>1. t \notin tenants /\ a \in StoredUsers /\ g \in StoredGroups /\ Begin(c, w)
    BY DEF CreateTenant
  <1>2. g \in Group /\ group[g] \in GroupDoc /\ g # NoGroup
    BY <1>1, LevelsAssumption DEF TypeOK, StoredGroups
  <1>3. doc.status = group[g].status /\ doc.level = group[g].level
        /\ doc.profiles = group[g].profiles \cup {h}
    BY <1>2 DEF GroupDoc
  <1>4. h \in DefaultProfiles(t) /\ h \in Profile
    BY ProfilesAssumption DEF DefaultProfiles
  <1>5. group[g].level = Root
    <2>1. a \in User /\ ReadonlyUser(a)
      BY CustomersAssumption DEF ReadonlyUser
    <2>2. user[a].level = Root
      BY <2>1 DEF SerialInv, Consistent
    <2>3. QED
      BY <1>1, <1>2, <2>2 DEF IdentityInv, LevelsInv, AtLevel
  <1>6. \A p \in Profile : profiles[p] = IF p \in DefaultProfiles(t)
                                         THEN [status |-> "enabled", level |-> Root]
                                         ELSE profile[p]
    BY DEF Save, TypeOK
  <1>7. \A i \in Group : groups[i] = IF i = g THEN doc ELSE group[i]
    BY DEF Save, Write, TypeOK
  <1>8. Save(user, Nothing) = user
    BY SaveNothing DEF TypeOK
  <1>9. \A i \in StoredGroups : \A p \in group[i].profiles :
           p \in Profile /\ p \notin DefaultProfiles(t)
    BY <1>1 DEF IdentityInv, LinksInv, StoredProfiles, DefaultProfiles
  <1>10. Consistent(profile, group, user)
    BY DEF SerialInv
  <1> HIDE DEF a, g, h, doc, new, w, profiles, groups
  <1>11. \A i \in StoredGroups :
           groups[i].level = group[i].level /\ groups[i].profiles \subseteq group[i].profiles \cup {h}
    BY <1>3, <1>7 DEF StoredGroups
  <1>12. \A i \in StoredGroups : \A p \in groups[i].profiles :
           p \notin group[i].profiles => p = h /\ group[i].level = Root
    BY <1>3, <1>5, <1>7 DEF StoredGroups
  <1>13. profiles[h] = [status |-> "enabled", level |-> Root]
    BY <1>4, <1>6
  <1>14. profiles[h].status = "enabled" /\ profiles[h].level = Root
    BY <1>13
  <1>15. LevelsAgree(profiles, groups)
    <2> SUFFICES ASSUME NEW i \in Group, groups[i].status # "absent", NEW p \in groups[i].profiles
                 PROVE  profiles[p].level = groups[i].level
      BY DEF LevelsAgree
    <2>1. i \in StoredGroups
      BY <1>1, <1>7 DEF StoredGroups
    <2>2. CASE p \in group[i].profiles
      <3>1. p \in Profile /\ profiles[p] = profile[p]
        BY <1>6, <1>9, <2>1, <2>2
      <3>2. profile[p].level = group[i].level
        BY <1>10, <2>1, <2>2 DEF Consistent, LevelsAgree, StoredGroups
      <3>3. QED
        BY <1>11, <2>1, <3>1, <3>2
    <2>3. CASE p \notin group[i].profiles
      BY <1>11, <1>12, <1>14, <2>1, <2>3
    <2>4. QED
      BY <2>2, <2>3
  <1>16. Enabled(profiles, groups, user)
    <2>1. ASSUME NEW i \in Group, groups[i].status # "absent", NEW p \in groups[i].profiles
          PROVE  profiles[p].status = "enabled" \/ ProfileApp[p] = ExternalParams
      <3>1. i \in StoredGroups
        BY <1>1, <1>7, <2>1 DEF StoredGroups
      <3>2. CASE p \in group[i].profiles
        BY <1>6, <1>9, <1>10, <3>1, <3>2 DEF Consistent, Enabled, StoredGroups
      <3>3. CASE p \notin group[i].profiles
        BY <1>12, <1>14, <2>1, <3>1, <3>3
      <3>4. QED
        BY <3>2, <3>3
    <2>2. \A u \in User : user[u].group # NoGroup => user[u].group \in Group
      BY DEF TypeOK, UserDoc
    <2>3. \A i \in Group : groups[i].status = group[i].status
      BY <1>3, <1>7
    <2>4. \A u \in User : user[u].status # "absent" /\ user[u].group # NoGroup =>
            groups[user[u].group].status = "enabled"
      BY <1>10, <2>2, <2>3 DEF Consistent, Enabled
    <2>5. QED
      BY <2>1, <2>4 DEF Enabled
  <1>17. After(w)
    <2>1. Consistent(profiles, groups, user)
      BY <1>10, <1>15, <1>16 DEF Consistent
    <2>2. QED
      BY <1>8, <2>1 DEF After, Transaction, w, profiles, groups
  <1>18. QED
    BY <1>1, <1>17, BeginSerial

\* A user may change to an enabled group; the admin users stay at the root level.
LEMMA UserWriteSerial ==
  ASSUME TypeOK, SerialInv, NEW u \in User, NEW doc,
         doc.group # NoGroup => group[doc.group].status = "enabled",
         ReadonlyUser(u) => doc.status # "absent" /\ doc.level = Root
  PROVE  Consistent(profile, group, Save(user, Write(u, doc)))
  <1> DEFINE saved == Save(user, Write(u, doc))
  <1>1. \A v \in User : saved[v] = IF v = u THEN doc ELSE user[v]
    BY DEF Save, Write, TypeOK
  <1>2. QED
    BY <1>1 DEF SerialInv, Consistent, Enabled

LEMMA UserCallsSerial ==
  ASSUME \A c1, c2 \in Call : c1 = c2, TypeOK, IdentityInv, SerialInv,
         NEW c \in Call, NEW u \in User,
         CreateUser(c, u) \/ UpdateUser(c, u) \/ PatchUser(c, u) \/ PatchAnalytics(c, u)
  PROVE  SerialInv'
  <1> DEFINE inGroup(g) == [status |-> "present", level |-> group[g].level, group |-> g]
  <1>1. Save(profile, Nothing) = profile /\ Save(group, Nothing) = group
    BY SaveNothing DEF TypeOK
  <1>2. ASSUME NEW doc, Consistent(profile, group, Save(user, Write(u, doc))),
               Begin(c, Transaction({}, Nothing, Nothing, Write(u, doc)))
        PROVE  SerialInv'
    <2>1. After(Transaction({}, Nothing, Nothing, Write(u, doc)))
      BY <1>1, <1>2 DEF After, Transaction
    <2>2. QED
      BY <1>2, <2>1, BeginSerial
  <1>3. ASSUME NEW g \in Group, CheckGroup(UserCustomer[u], g), ~ ReadonlyUser(u)
        PROVE  Consistent(profile, group, Save(user, Write(u, inGroup(g))))
    BY <1>3, UserWriteSerial DEF CheckGroup
  <1>4. CASE CreateUser(c, u)
    <2>1. ~ ReadonlyUser(u)
      BY <1>4 DEF CreateUser, SerialInv, Consistent
    <2>2. QED
      BY <1>2, <1>3, <1>4, <2>1 DEF CreateUser
  <1>5. CASE UpdateUser(c, u)
    BY <1>2, <1>3, <1>5 DEF UpdateUser
  <1>6. CASE PatchUser(c, u)
    <2>1. Consistent(profile, group, Save(user, Write(u, [user[u] EXCEPT !.group = NoGroup])))
      <3>1. [user[u] EXCEPT !.group = NoGroup].group = NoGroup
        BY DEF TypeOK, UserDoc
      <3>2. ~ ReadonlyUser(u)
        BY <1>6 DEF PatchUser
      <3>3. QED
        BY <3>1, <3>2, UserWriteSerial
    <2>2. QED
      BY <1>2, <1>3, <1>6, <2>1 DEF PatchUser
  <1>7. CASE PatchAnalytics(c, u)
    <2>1. user[u].group # NoGroup => group[user[u].group].status = "enabled"
      BY <1>7 DEF PatchAnalytics, StoredUsers, SerialInv, Consistent, Enabled
    <2>2. ReadonlyUser(u) => user[u].status # "absent" /\ user[u].level = Root
      BY DEF SerialInv, Consistent
    <2>3. Consistent(profile, group, Save(user, Write(u, user[u])))
      BY <2>1, <2>2, UserWriteSerial
    <2>4. After([Idle EXCEPT !.users = Write(u, user[u])])
      BY <1>1, <2>3 DEF After, Idle
    <2>5. QED
      BY <1>7, <2>4, BeginSerial DEF PatchAnalytics
  <1>8. QED
    BY <1>4, <1>5, <1>6, <1>7

LEMMA CommitSerial ==
  ASSUME \A c1, c2 \in Call : c1 = c2, TypeOK, SerialInv, NEW c \in Call, Commit(c)
  PROVE  SerialInv'
  <1>1. Consistent(profile, group, user)'
    BY DEF Commit, SerialInv, Consistent, LevelsAgree, Enabled
  <1>2. TypeOK'
    BY CommitTyped
  <1>3. \A d \in Call : call'[d] = Idle
    BY DEF Commit
  <1>4. Save(profile, Nothing)' = profile' /\ Save(group, Nothing)' = group'
        /\ Save(user, Nothing)' = user'
    BY <1>2, SaveNothing DEF TypeOK
  <1>5. QED
    BY <1>1, <1>3, <1>4 DEF SerialInv, Idle, Consistent

LEMMA AbortSerial ==
  ASSUME \A c1, c2 \in Call : c1 = c2, TypeOK, SerialInv, NEW c \in Call, Abort(c)
  PROVE  SerialInv'
  <1>1. Begin(c, Idle) /\ After(Idle)
    BY AfterIdle DEF Abort, Begin, SerialInv
  <1>2. QED
    BY <1>1, BeginSerial

LEMMA InitSerial == Init => SerialInv
  <1> SUFFICES ASSUME Init PROVE SerialInv
    OBVIOUS
  <1>1. LevelsAgree(profile, group)
    <2>1. \A g \in Group : group[g].level = Root
      BY DEF Init
    <2>2. \A p \in Profile : profile[p].level = Root
      BY DEF Init
    <2>3. \A g \in Group : group[g].profiles \subseteq Profile
      BY InitTyped DEF TypeOK, GroupDoc
    <2>4. QED
      BY <2>1, <2>2, <2>3 DEF LevelsAgree
  <1>2. Enabled(profile, group, user)
    <2>1. ASSUME NEW g \in Group, group[g].status # "absent", NEW p \in group[g].profiles
          PROVE  profile[p].status = "enabled"
      <3>1. p = HierarchyProfile[ProofTenant[GroupCustomer[g]]]
        BY <2>1 DEF Init
      <3>2. ProofTenant[GroupCustomer[g]] \in Tenant /\ GroupCustomer[g] \in Customer
        BY CustomersAssumption
      <3>3. p \in Readonly /\ p \in Profile /\ ProfileTenant[p] \in tenants
        BY <3>1, <3>2, ProfilesAssumption DEF Init
      <3>4. QED
        BY <3>3 DEF Init
    <2>2. ASSUME NEW u \in User, user[u].status # "absent"
          PROVE  group[user[u].group].status = "enabled"
      <3>1. ReadonlyUser(u) /\ user[u].group = AdminGroup[UserCustomer[u]]
        BY <2>2 DEF Init
      <3>2. AdminGroup[UserCustomer[u]] \in Group /\ ReadonlyGroup(AdminGroup[UserCustomer[u]])
        BY CustomersAssumption DEF ReadonlyGroup
      <3>3. QED
        BY <3>1, <3>2 DEF Init
    <2>3. QED
      BY <2>1, <2>2 DEF Enabled
  <1>3. \A u \in User : ReadonlyUser(u) => user[u].status # "absent" /\ user[u].level = Root
    BY DEF Init
  <1>4. Consistent(profile, group, user)
    BY <1>1, <1>2, <1>3 DEF Consistent
  <1>5. After(Idle) /\ \A c \in Call : call[c] = Idle
    BY <1>4, InitTyped, AfterIdle DEF Init
  <1>6. QED
    BY <1>4, <1>5 DEF SerialInv, After

LEMMA StepSerial ==
  ASSUME NullLevel \notin PatchLevel, \A c1, c2 \in Call : c1 = c2,
         TypeOK, IdentityInv, SerialInv, [Next]_vars
  PROVE  SerialInv'
  <1>1. CASE Next
    BY <1>1, ProfileCallsSerial, GroupCallsSerial, TenantCallsSerial, UserCallsSerial,
       CommitSerial, AbortSerial DEF Next
  <1>2. CASE UNCHANGED vars
    BY <1>2 DEF SerialInv, vars
  <1>3. QED
    BY <1>1, <1>2

\* The inductive invariant of one call at a time.
THEOREM Serial ==
  ASSUME NullLevel \notin PatchLevel, \A c1, c2 \in Call : c1 = c2
  PROVE  Spec => []SerialInv
  <1>1. Init => SerialInv
    BY InitSerial
  <1>2. TypeOK /\ IdentityInv /\ SerialInv /\ [Next]_vars => SerialInv'
    BY StepSerial
  <1>3. QED
    BY <1>1, <1>2, TypeCorrect, Sound, PTL DEF Spec

\* One call at a time, the profiles of a group have its level.
THEOREM LevelsOfProfiles ==
  ASSUME NullLevel \notin PatchLevel, \A c1, c2 \in Call : c1 = c2
  PROVE  Spec => []GroupLevels
  <1>1. SerialInv => GroupLevels
    BY DEF SerialInv, Consistent, GroupLevels
  <1>2. QED
    BY <1>1, Serial, PTL

\* One call at a time, what groups and users reference is enabled.
THEOREM EnabledReferences ==
  ASSUME NullLevel \notin PatchLevel, \A c1, c2 \in Call : c1 = c2
  PROVE  Spec => []ReferencesEnabled
  <1>1. SerialInv => ReferencesEnabled
    BY DEF SerialInv, Consistent, ReferencesEnabled
  <1>2. QED
    BY <1>1, Serial, PTL
===============================================================================
