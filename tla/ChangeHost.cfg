\* Two tabs of two users, one of them a super admin; two branches.
CONSTANTS
  t1 = t1  t2 = t2  ann = ann  root = root
  Tabs = {t1, t2}
  Users = {ann, root}
  UserOf <- MCUserOf
  Admins = {root}
  SuperAdmins = {root}
  Branches = {r1, r2}
  Edits = {e1}
  Original = Original
  MaxOps = 7
  None = None
SPECIFICATION Spec
SYMMETRY Symmetry
PROPERTIES
  OnlyMergesMoveBase
CHECK_DEADLOCK FALSE
