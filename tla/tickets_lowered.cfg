SPECIFICATION Spec
CONSTANTS
  s1 = s1  s2 = s2  a1 = a1  a2 = a2  h1 = h1  h2 = h2
  Signals <- MCOneSignal
  SecurityTests <- MCNone
  Endpoint <- MCOneSignal
  Analysts <- MCAnalyst
  Threads <- MCThread
  Priorities <- MCLevels
  Playbook <- MCNoTasks
  Manual <- MCNone
  Retain = 1
  MaxTickets = 1
  MaxCalendars = 1
  MaxTasks = 1
  MaxFaults = 0
PROPERTIES PolicyNeverLowers
