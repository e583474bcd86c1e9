SPECIFICATION Spec
CONSTANTS
  s1 = s1  s2 = s2  a1 = a1  a2 = a2  h1 = h1  h2 = h2
  Signals <- MCSignals
  SecurityTests <- MCOneSignal
  Endpoint <- MCOneSignal
  Analysts <- MCAnalyst
  Threads <- MCThreads
  Priorities <- MCUrgent
  Playbook <- MCPlaybook
  Manual <- MCManual
  Retain = 1
  MaxTickets = 4
  MaxCalendars = 1
  MaxTasks = 3
  MaxFaults = 1
SYMMETRY Sessions
ACTION_CONSTRAINT MCAllowed
INVARIANTS ChecklistOnce
PROPERTIES PruneKeepsTests
