SPECIFICATION Spec
CONSTANTS
  Clients = {c1, c2}
  Keys = {k}
  Values = {x, y}
  Dialects = {"mysql", "mariadb"}
  NoRow = NoRow
  Nobody = Nobody
  Unconditional = FALSE
  MaxOps = 2
INVARIANT ConditionalUpdateIsAtomic
