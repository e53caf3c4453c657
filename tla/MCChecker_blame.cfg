SPECIFICATION Spec
CONSTANTS
  Clients = {a, b, c}
  Repertoire <- ReadsAndWrites
  Keys = {1}
  Values = {1, 2}
  None = None
  Budgets = {2, 3, 4}
  MaxOps = 3
  Horizon = 2
INVARIANT BlameIsRight
