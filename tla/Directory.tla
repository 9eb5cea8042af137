------------------------------ MODULE Directory ------------------------------
(***************************************************************************)
(* What the identity referential promises of the calls that change it,     *)
(* without saying how: each call that ends well is one operation, which    *)
(* looks at what is stored at that moment and leaves the customers apart.  *)
(*                                                                         *)
(* Nothing is ever removed.  A group keeps its level and always has        *)
(* profiles; a user has the level of its group; the group of the admin     *)
(* user of a customer changes only to get the hierarchy profile of a new   *)
(* tenant, and loses none.                                                 *)
(*                                                                         *)
(* Not promised, since calls that write different documents do not see     *)
(* each other: that the profiles of a group have its level, that they or   *)
(* the group of a user are enabled.  The directory does not say these.     *)
(***************************************************************************)
CONSTANTS Customer, Tenant, TenantCustomer, ProofTenant,
          Profile, ProfileCustomer, ProfileTenant, ProfileApp,
          Readonly, HierarchyProfile,
          Group, GroupCustomer, AdminGroup,
          User, UserCustomer, AdminUser,
          Level, Root, NoGroup

VARIABLES tenants,   \* the tenants stored
          profiles,  \* the profiles stored
          group,     \* level and profiles of each group stored
          user       \* level and group of each user stored

vars == <<tenants, profiles, group, user>>

DefaultProfiles(t) == {p \in Readonly : ProfileTenant[p] = t}
Admins(Ids) == {Ids[c] : c \in Customer}

Put(docs, id, doc) == [i \in DOMAIN docs \cup {id} |-> IF i = id THEN doc ELSE docs[i]]

\* Every customer has its proof tenant, whose hierarchy its admin user manages.
Init ==
  /\ tenants = {ProofTenant[c] : c \in Customer}
  /\ profiles = UNION {DefaultProfiles(t) : t \in tenants}
  /\ group = [g \in Admins(AdminGroup) |->
                [level |-> Root, profiles |-> {HierarchyProfile[ProofTenant[GroupCustomer[g]]]}]]
  /\ user = [u \in Admins(AdminUser) |->
               [level |-> Root, group |-> AdminGroup[UserCustomer[u]]]]

\* A profile is added, on a tenant that is stored, of any customer.
AddProfile(p) ==
  /\ p \notin profiles \cup Readonly
  /\ ProfileTenant[p] \in tenants
  /\ profiles' = profiles \cup {p}
  /\ UNCHANGED <<tenants, group, user>>

\* What a group g may hold: stored profiles, of the customer of the group and on
\* tenants of this customer, one for an application and a tenant.
MayHold(g, content) ==
  /\ content # {}
  /\ content \subseteq profiles
  /\ \A p \in content :
        ProfileCustomer[p] = GroupCustomer[g] /\ TenantCustomer[ProfileTenant[p]] = GroupCustomer[g]
  /\ \A p, q \in content :
        ProfileApp[p] = ProfileApp[q] /\ ProfileTenant[p] = ProfileTenant[q] => p = q

\* A group is added, or gets other profiles at the level it has.
PutGroup(g) ==
  /\ g \notin Admins(AdminGroup)
  /\ UNCHANGED <<tenants, profiles, user>>
  /\ \E level \in Level, content \in SUBSET profiles :
        /\ MayHold(g, content)
        /\ g \in DOMAIN group => level = group[g].level
        /\ group' = Put(group, g, [level |-> level, profiles |-> content])

\* A tenant opens, with its default profiles; the group of the admin user of its
\* customer gets its hierarchy profile and keeps those it has.
OpenTenant(t) ==
  LET g == AdminGroup[TenantCustomer[t]]
  IN /\ t \notin tenants
     /\ tenants' = tenants \cup {t}
     /\ profiles' = profiles \cup DefaultProfiles(t)
     /\ group' = [group EXCEPT ![g].profiles = @ \cup {HierarchyProfile[t]}]
     /\ UNCHANGED user

\* A user is added or put in a group of its customer, and gets its level; or
\* it is put in none, whichever its level is then.
PutUser(u) ==
  /\ u \notin Admins(AdminUser)
  /\ UNCHANGED <<tenants, profiles, group>>
  /\ \/ \E g \in DOMAIN group :
           /\ GroupCustomer[g] = UserCustomer[u]
           /\ user' = Put(user, u, [level |-> group[g].level, group |-> g])
     \/ \E level \in Level : user' = Put(user, u, [level |-> level, group |-> NoGroup])

Next ==
  \/ \E p \in Profile : AddProfile(p)
  \/ \E g \in Group : PutGroup(g)
  \/ \E t \in Tenant : OpenTenant(t)
  \/ \E u \in User : PutUser(u)

Spec == Init /\ [][Next]_vars

\* Every tenant is managed: its hierarchy profile is in the group of the admin
\* user of its customer.
TenantsManaged ==
  \A t \in tenants : HierarchyProfile[t] \in group[AdminGroup[TenantCustomer[t]]].profiles
==============================================================================
