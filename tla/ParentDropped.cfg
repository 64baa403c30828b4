\* CWD .. in any directory but the root.
SPECIFICATION Spec
CONSTANTS
  Dirs <- Tree
  PathMax = 8
  Args <- Arguments
PROPERTY
  ParentIsMeant
