SPECIFICATION AnsweredSpec
CONSTANTS
  Lines <- MCLines
  BufferBytes = 3
  Height = 2
  Workspaces <- MCWorkspaces
  ProjectCapacity = 2
  ProjectDrain = 1
  LogCapacity = 2
  LogDrain = 1
  CommandCapacity = 2
  Letters = {"a"}
  MaxQuery = 1
  Sessions <- MCQuits
PROPERTY TerminalIsRestored
CHECK_DEADLOCK FALSE
