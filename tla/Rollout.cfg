SPECIFICATION FairRollout
CONSTANTS
  a0 = a0
  a1 = a1
  t1 = t1
  t2 = t2
  bad = bad
  NoTask = NoTask
  InitArtifact = a0
  Artifacts <- MCArtifacts
  Garbage <- MCGarbage
  Tasks <- MCTasks
  QueueCap = 1
  ResponseCap = 1
  Links <- MCLinks
  MaxRequests = 2
  MaxFaults = 1
  MaxErrors = 1
  MaxEvents = 2
  AdminTokens = {"admin", "other"}
  AdminToken = "admin"
INVARIANTS ResponseTruthful StaleOnlyByOverlap
PROPERTIES ImplementsDeployment Recovers ReloadAnswered
