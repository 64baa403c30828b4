\* Twelve arguments in any order, on top of what the ones before have left.
SPECIFICATION Spec
CONSTANTS
  Dirs <- Tree
  PathMax = 8
  Args <- Arguments
INVARIANTS
  TypeOK
  CwdUsable
PROPERTY
  CwdMeansTarget
