SPECIFICATION FairSpec
CONSTANTS
  n1 = n1
  n2 = n2
  r1 = r1
  r2 = r2
  Notifiers = {n1, n2}
  Subscribed <- MCSubscribed
  MaxAlerts = 1
  Delays = 1
  Limit = 2
  Rules = {r1, r2}
  Kind <- MCKind
  Bot = n1
  PollLimit = 2
  Scenarios <- MCScenarios
INVARIANTS RepeatedOnlyWhenUnsure CreatedComesFirst
PROPERTY OwedIsSettled
