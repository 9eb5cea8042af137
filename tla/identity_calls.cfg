SPECIFICATION Spec
CONSTANTS
  A = A
  B = B
  tA = tA
  tB = tB
  tC = tC
  tD = tD
  hA = hA
  hB = hB
  hC = hC
  hD = hD
  xA = xA
  pC = pC
  pA = pA
  pB = pB
  gA = gA
  gB = gB
  g1 = g1
  g2 = g2
  uA = uA
  uB = uB
  u1 = u1
  Hierarchy = Hierarchy
  Users = Users
  L = L
  Customer = {A, B}
  Tenant = {tA, tB, tC, tD}
  TenantCustomer <- MCTenantCustomer
  ProofTenant <- MCProofTenant
  Profile = {hA, hB, hC, hD, pC}
  ProfileCustomer <- MCProfileCustomer
  ProfileTenant <- MCProfileTenant
  ProfileApp <- MCProfileApp
  ExternalParams = ExternalParams
  Readonly = {hA, hB, hC, hD}
  HierarchyProfile <- MCHierarchyProfile
  Group = {gA, gB, g1}
  GroupCustomer <- MCGroupCustomer
  AdminGroup <- MCAdminGroup
  User = {uA, uB, u1}
  UserCustomer <- MCUserCustomer
  AdminUser <- MCAdminUser
  Level = {Root, L}
  Root = Root
  NullLevel = NullLevel
  PatchLevel = {Root, L}
  NoGroup = NoGroup
  Call = {c1, c2}
SYMMETRY CallSymmetry
INVARIANTS TypeOK GroupSlots UserLevels IdentityInv
PROPERTIES GroupLevelIsFixed DirectorySpec
