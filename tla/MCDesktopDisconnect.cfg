SPECIFICATION Spec
CONSTANTS
  IP = {"a", "b"}
  MaxConnects = 1
  MaxChanges = 1
PROPERTY
  DisconnectSticks
