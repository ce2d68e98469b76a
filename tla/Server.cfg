SPECIFICATION LiveSpec
CONSTANTS
  Starts <- AllStarts
  Clients <- AllClients
  Requests <- AllRequests
  Tasks <- BothTasks
  Started <- JustApp
  PartOf <- Fragments
  Misread <- Unescaped
  Mistyped = Mistyped
  AgentIDs <- TwoAgentIDs
  Files <- SandboxFiles
INVARIANTS
  TypeOK
  ServesValid
  TaskAuthorised
  DiscoversRight
  RightSandbox
  FoundIfThere
  LockedForScript
PROPERTY
  EveryRequestAnswered
CHECK_DEADLOCK FALSE
