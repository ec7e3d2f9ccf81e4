CONSTANTS
  Tasks = {t1, t2}
  Requests = {q1, q2}
  MoreCalls = {c3}
  Names = {a, b}
  BuiltIn = {b}
  OnDemand = {b}
  Dirs = {d1, d2}
  Workspace = d1
  Jobs = {j1}
  Slots = {k1}
  Edits = {u1}
  Answers = {a1}
  Loops = {l1}
  None = none
  Limits = {1, 2}
  Costs = {1}
  MaxDue = 2
  MaxStops = 2
  Budget = 1
  ActionBudget = 1
  Dismissals = 1
  MaxDays = 1
  MaxTokens = 2
  MaxDeletes = 1
  MaxAttempts = 2
  MaxRestarts = 1
  MaxSpent = 2
SPECIFICATION Spec
INVARIANTS
  ServicesTypeOK
  DueOnceEach
  SuggestionsLimited
  DirectoriesKept
  NoChangeLost
  RunsAsConfigured
  CredentialCurrent
  RoutedIfConfigured
  InstalledIsAudited
  BudgetCounted
CHECK_DEADLOCK FALSE
SYMMETRY Sym
