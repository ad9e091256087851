SPECIFICATION Spec
CONSTANTS
  Users = {alice, bob}
  Orgs = {team}
  Repos = {r1, r2}
  Slugs = {s1, s2}
  Admin = Admin
  Nobody = Nobody
  NoName = NoName
  Budget = 5
SYMMETRY Symmetric
INVARIANTS
  OrganizationHasOwner
  RowsAreStored
  ViewsAgree
  HistoryReplays
PROPERTIES
  NoEscalation
CHECK_DEADLOCK FALSE
