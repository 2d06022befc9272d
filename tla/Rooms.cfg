CONSTANTS
  d1 = d1
  d2 = d2
  ana = ana
  ben = ben
  Devices = {d1, d2}
  NamesOf <- MCNamesOf
  IdSpace = 2
  Nothing = Nothing
  Connections <- MCConnections
  MaxCalls <- MCMaxCalls
  MaxEvents = 1
SPECIFICATION FairSpec
INVARIANTS MembersListedOnce AnswerIsOwn PartyInOwnRoom
PROPERTIES ShownOnlyGrows LastBroadcastShown
CHECK_DEADLOCK FALSE
