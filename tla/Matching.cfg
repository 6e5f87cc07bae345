CONSTANTS
  Amounts = {1, 2, 3}
  Ages = {0, 365}
  MaxExpenses = 5
  MaxCandidates = 4
  Targets = {3, 6}
  Tolerances = {0, 1}
  Depths = {2, 3}
  Limits = {1, 2}
  Budgets = {3, 100}
  PruneAbove = 10
  Recent = 90
  CheckInterval = 2
SPECIFICATION Match
INVARIANTS
  AnswersAreRight
  NothingBetterIsMissed
CHECK_DEADLOCK FALSE
