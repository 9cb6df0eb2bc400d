CONSTANTS
  Process = {"p"}
  Others = {}
  Settings <- ConsoleOnly
  Tools = {}
  Changing = {}
  Dir = {"home"}
  Name = {"a"}
  BadName = {}
  Volatile = {}
SPECIFICATION Spec
INVARIANTS TypedNameIsSaved
CHECK_DEADLOCK FALSE
