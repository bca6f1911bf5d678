SPECIFICATION Spec
SYMMETRY Symmetry
CONSTANTS
  Clients = {a, b}
  Keys = {k}
  Values = {x, y}
  Dialects = {"postgres", "sqlite", "mysql", "mariadb"}
  NoRow = NoRow
  Nobody = Nobody
  Unconditional = FALSE
  MaxOps = 3
  Parents = {p1, p2}
  Subject = p1
  Children = {a, b}
  Kinds = {"owner", "one", "many", "m2m"}
  Engines = {"postgres", "sqlite", "mysql"}
  MaxOperations = 2
  All = All
  Absent = Absent
  Gone = Gone
  Ids = {1, 2, 3}
  Ranks = {0, 1}
  Grain = 1
  Takes = {1, 2}
  None = None
  MaxWrites = 2
  Posts = {a, b}
  Comments = {1, 2}
  Tags = {1}
  Labels = {x, y}
  Anything = Anything
  Unset = Unset
  MaxFinds = 2
  MaxChanges = 1
  RowIds = {1, 2, 3, 4}
  Stored = {1, 2}
  Authors = {1, 2}
  Null = Null
  MaxEvents = 3
  MaxFlight = 2
  MaxCalls = 2
  MaxReads = 2
INVARIANTS
  WritesAnswerTruly
  NestedWritesAreWhole
  PagesAreTrue
  LoadedAsAsked
  AnsweredAreAffected
  GridKeepsItsWord
  AnswersAsAsked
