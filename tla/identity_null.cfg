SPECIFICATION Spec
CONSTANTS
  A = A
  B = B
  tA = tA
  tB = tB
  tC = tC
  tD = tD
  hA = hA
  hB = hB
  hC = hC
  hD = hD
  xA = xA
  pC = pC
  pA = pA
  pB = pB
  gA = gA
  gB = gB
  g1 = g1
  g2 = g2
  uA = uA
  uB = uB
  u1 = u1
  Hierarchy = Hierarchy
  Users = Users
  L = L
  Customer = {A}
  Tenant = {tA, tC}
  TenantCustomer <- MCTenantCustomer
  ProofTenant <- MCProofTenant
  Profile = {hA, hC, xA, pA}
  ProfileCustomer <- MCProfileCustomer
  ProfileTenant <- MCProfileTenant
  ProfileApp <- MCProfileApp
  ExternalParams = ExternalParams
  Readonly = {hA, hC, xA}
  HierarchyProfile <- MCHierarchyProfile
  Group = {gA, g1, g2}
  GroupCustomer <- MCGroupCustomer
  AdminGroup <- MCAdminGroup
  User = {uA, u1}
  UserCustomer <- MCUserCustomer
  AdminUser <- MCAdminUser
  Level = {Root, L}
  Root = Root
  NullLevel = NullLevel
  PatchLevel = {Root, L, NullLevel}
  NoGroup = NoGroup
  Call = {c1}
PROPERTY GroupLevelIsFixed
