SPECIFICATION Spec
CONSTANTS
  Users = {u1, u2}
  Requests = {r1, r2}
  Boots = {b1, b2}
  Groups = {ga, gb}
  AdminGroups = {ga}
  None = None
SYMMETRY Symmetry
INVARIANTS
  AttemptsAreRecorded
PROPERTIES
  AnAdminRemains
  ChangesAreWhole
