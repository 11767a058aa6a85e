SPECIFICATION ProxySpec
CONSTANTS
  editor = editor
  other = other
  first = first
  second = second
  third = third
  Conns <- MCConns
  Lines <- MCLines
  Linger <- NoConns
  Quit = Quit
  Ping = Ping
  None = None
INVARIANTS
  TypeOK
  AckedIsTaken
  OneProcess
PROPERTIES
  SendReturns
  RunReturns
  CommandsAreExecuted
