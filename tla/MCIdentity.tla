------------------------------ MODULE MCIdentity ------------------------------
(* Instances of Identity for TLC: two customers, A and B. *)
EXTENDS Identity, TLC

CONSTANTS
  A, B,        \* the customers
  tA, tB,      \* their proof tenants
  tC, tD,      \* two tenants that A may get
  hA, hB, hC, hD, \* the hierarchy profiles of the tenants
  xA,          \* the default EXTERNAL_PARAMS profile of tA
  pC,          \* a profile of A on tC for the application of hC
  pA,          \* a profile of A on tA
  pB,          \* a profile of A on the tenant of B
  gA, gB,      \* the groups of the admin users
  g1, g2,      \* groups of A
  uA, uB,      \* the admin users
  u1,          \* a user of A
  Hierarchy, Users, \* applications
  L            \* a level below Root

MCTenantCustomer == [t \in Tenant |-> IF t = tB THEN B ELSE A]
MCProofTenant == [c \in Customer |-> IF c = B THEN tB ELSE tA]
MCProfileCustomer == [p \in Profile |-> IF p = hB THEN B ELSE A]
MCProfileTenant ==
  [p \in Profile |-> IF p \in {hC, pC} THEN tC ELSE IF p = hD THEN tD ELSE IF p \in {hB, pB} THEN tB ELSE tA]
MCProfileApp ==
  [p \in Profile |-> IF p = xA THEN ExternalParams ELSE IF p \in {pA, pB} THEN Users ELSE Hierarchy]
MCHierarchyProfile == [t \in Tenant |-> IF t = tC THEN hC ELSE IF t = tD THEN hD ELSE IF t = tB THEN hB ELSE hA]
MCGroupCustomer == [g \in Group |-> IF g = gB THEN B ELSE A]
MCAdminGroup == [c \in Customer |-> IF c = B THEN gB ELSE gA]
MCUserCustomer == [u \in User |-> IF u = uB THEN B ELSE A]
MCAdminUser == [c \in Customer |-> IF c = B THEN uB ELSE uA]

\* The calls in flight are interchangeable.
CallSymmetry == Permutations(Call)
===============================================================================
