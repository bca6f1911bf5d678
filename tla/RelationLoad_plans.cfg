SPECIFICATION Spec
CONSTANTS
  Posts = {p, q}
  Comments = {1, 2}
  Tags = {1}
  Labels = {x, y}
  Anything = Anything
  None = None
  Unset = Unset
  MaxFinds = 2
  MaxChanges = 0
INVARIANT FilteredByOwnValue
