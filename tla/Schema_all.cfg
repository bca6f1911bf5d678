SPECIFICATION PartSpec
SYMMETRY Symmetry
CONSTRAINT InOrder
CONSTANTS
  Commands = {p1, p2}
  Verbs = {"generate", "dev", "deploy", "down", "reset", "push"}
  Tables = {t}
  Columns = {c}
  LastFile = 2
  NoFile = NoFile
  Seconds = {1, 2}
  MaxRuns = 3
  MaxEdits = 1
  MaxCrashes = 1
  Dialects = {"postgres", "sqlite", "mysql"}
  Properties = {a, b}
  SqlNames = {x, y}
  IndexNames = {i}
  Fresh = Fresh
  None = None
  Providers = {"sqlite", "postgres"}
  Whole = Whole
  MaxPulls = 2
  Absent = Absent
  MaxSteps = 5
  Null = Null
  Capacity = 1
INVARIANTS
  FilesSnapshotDatabase
  Revertible
  DiffReachesAndKeeps
  IndexCoversItsRows
  SchemaIsDatabase
  PulledIsAccepted
  NamesLead
  WhereSelectsItsRows
PROPERTIES
  DevReachesSchema
