SPECIFICATION MCSpec
CONSTANTS
  run = run
  a = a
  b = b
  x = x
  y = y
  Runs = {run}
  Workers = {a, b}
  RunOf <- OneRun
  Names = {x}
  Files = {x}
  Snapped <- Plain
  Written <- Plain
  Calls <- MCCalls
  FirstRules <- AllowWrites
  Terminals = {run}
  PreApproved = {}
  MaxCalls <- TwoAndOne
  MaxCancels = 1
  Every = Every
  Nobody = Nobody
  Absent = Absent
  Requests = {r1, r2}
  None = None
  Empty = Empty
  Torn = Torn
  WriteFailures = TRUE
  Tools = {"Bash", "Edit"}
  Letters = {"a", "b"}
  MaxGlob = 2
  MaxArg = 3
  Agents = {w, n}
  Resumable = {w}
  MaxTurns = 2
  Runes = {"a", " "}
  Prompt <- MCPrompt
  Wide = {}
  Width = 3
  MaxLen = 4
  MaxHistory = 1
INVARIANTS
  UndoRestores
  NotAskedAgain
  RaiseIsBacked
  DirectIsAsked
  ScreenShowsLine
PROPERTIES
  AnsweredReturns
CHECK_DEADLOCK FALSE
