CONSTANTS
  Option = {o1, o2}
  Name = {n1}
  Group = {g1}
  Empty = Empty
  None = None
  MaxNested = 2
  Careful = TRUE
  Leaves = TRUE
SPECIFICATION Spec
INVARIANT GroupMembersExist
