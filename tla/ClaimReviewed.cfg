\* One tab of a super admin; a change is edited again after it was approved.
CONSTANTS
  t1 = t1  t2 = t2  ann = ann  root = root
  Tabs = {t2}
  Users = {ann, root}
  UserOf <- MCUserOf
  Admins = {root}
  SuperAdmins = {root}
  Branches = {r1, r2}
  Edits = {e1, e2}
  Original = Original
  MaxOps = 6
  None = None
SPECIFICATION Spec

INVARIANTS
  MergedAsApproved
CHECK_DEADLOCK FALSE
