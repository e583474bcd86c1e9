SPECIFICATION Spec
CONSTANTS
  s1 = s1  s2 = s2  a1 = a1  a2 = a2  h1 = h1  h2 = h2
  Signals <- MCOneSignal
  SecurityTests <- MCNone
  Endpoint <- MCOneSignal
  Analysts <- MCAnalysts
  Threads <- MCThread
  Priorities <- MCLevels
  Playbook <- MCNoTasks
  Manual <- MCNone
  Retain = 0
  MaxTickets = 2
  MaxCalendars = 2
  MaxTasks = 1
  MaxFaults = 0
SYMMETRY Sessions
ACTION_CONSTRAINT OwnTickets
INVARIANTS AuditExplains DecisionTimes DeadlineOfPriority
PROPERTIES ImplementsLifecycle PolicyReaches
