CONSTANTS
  s1 = s1
  s2 = s2
  a1 = a1
  a2 = a2
  school = school
  other = other
  f1 = f1
  f2 = f2
  Session = {s1, s2}
  NoSession = NoSession
  Backup <- MCBackup
  MaxPending = 1
  MaxAttempts = 2
  Home = home
  Word <- MCWord
  Lower <- MCLower
  SqlLower <- MCSqlLower
  HomeName <- MCHomeName
  HomeCategories <- MCHomeCategories
  NoParent = NoParent
  food = food
  lunch = lunch
  snack = snack
  ecole1 = ecole1
  ecole2 = ecole2
  etude1 = etude1
  etude2 = etude2
  home_lunch = home_lunch
  MaxFaults = 2
  MaxCrashes = 1
SYMMETRY Alike
SPECIFICATION Spec
INVARIANTS
  ExecutionIsCovered
  RowsAndObjectsAgree
  AnswersHold
  NothingLeftBehind
  NamesStayApart
PROPERTIES
  MergesOnlyAdd
CHECK_DEADLOCK FALSE
