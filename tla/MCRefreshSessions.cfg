CONSTANTS
  Session = {s1}
  Token = {t1, t2, t3, t4}
  Call = {c1, c2}
  NoToken = NoToken
  NoSession = NoSession
  RefreshTTL = 2
  AbsoluteTTL = 3
  RetryGrace = 1
  MaxHops = 2
  MaxTime = 3
  MaxPwd = 1
SPECIFICATION Spec
SYMMETRY Symmetry
INVARIANTS
  OneActiveGeneration
  NoLiveSessionWithOldCredentials
PROPERTIES
  RevokedIsFinal
  RefreshYieldsNewest
  NoReplayAlarmInsideGrace
