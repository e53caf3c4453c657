SPECIFICATION Spec
CONSTANTS
  Clients = {a, b, c}
  Repertoire <- Mixed
  Keys = {1, 2}
  Values = {1, 2}
  None = None
  Budgets = {0, 6}
  MaxOps = 3
  Horizon = 2
INVARIANT TypeOK
INVARIANT VerdictIsRight
INVARIANT ViolationIsReal
INVARIANT SearchIsRight
INVARIANT MemoIsSound
INVARIANT CutsStayLegal
INVARIANT BlameIsNotLate
