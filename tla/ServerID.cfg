SPECIFICATION Spec
CONSTANTS
  Starts <- OneStart
  Clients <- OneClient
  Requests <- IDRequests
  Tasks <- BothTasks
  Started <- JustApp
  PartOf <- Fragments
  Misread <- Unescaped
  Mistyped = Mistyped
  AgentIDs <- OneAgentID
  Files <- SandboxFiles
INVARIANT
  GivenTask
CHECK_DEADLOCK FALSE
