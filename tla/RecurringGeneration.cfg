CONSTANTS
  Rule = {r1, r2}
  Account = {a1, a2}
  NoAccount = NoAccount
  NoRule = NoRule
  Scheduler = scheduler
  Client = {c1}
  Old = {r1}
  OldAccounts = {a1}
  Failing = {r2}
  Batch = 2
  MaxCatchUp = 2
  MaxDay = 1
  Starts = {1}
  Ends = {1}
  MaxRequests = 2
  MaxFaults = 1
SPECIFICATION Spec
INVARIANTS
  LiveRulesHaveOpenAccounts
  NoGaps
PROPERTIES
  NobodyActsOnAStaleRow
  DueRulesMoveOn
CHECK_DEADLOCK FALSE
