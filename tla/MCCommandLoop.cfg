SPECIFICATION Spec
CONSTANTS
  input = input
  background = background
  Senders <- MCSenders
  ExtSenders <- MCBackground
  EarlySenders <- MCBackground
  Sends <- MCSends
  MaxBuffers = 2
INVARIANTS
  TypeOK
  CommandsHaveTop
  QuitLosesNothing
PROPERTIES
  QuitStopsCommands
  SendReturns
  RunReturns
  RenderHappens
