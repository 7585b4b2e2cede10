CONSTANTS
  Option = {o1, o2, o3}
  Name = {n1}
  Group = {g1}
  Empty = Empty
  None = None
  MaxNested = 2
  Careful = TRUE
  Leaves = FALSE
SYMMETRY Symmetry
SPECIFICATION Spec
INVARIANTS TypeOK NamesExist GroupMembersExist SelectedFindsItsGroup OneElected
PROPERTIES  ImplementsOptionGroups
