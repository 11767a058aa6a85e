SPECIFICATION Spec
CONSTANTS
  editor = editor
  other = other
  first = first
  second = second
  Conns <- MCConns
  Lines <- MCLines
  Linger <- Lingering
  Ping = Ping
  None = None
PROPERTIES
  RunReturns
CHECK_DEADLOCK FALSE
