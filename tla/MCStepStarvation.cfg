SPECIFICATION Spec
CONSTANTS
  Streams = {s1, s2}
  Budget = 0
  Breakable = {s1}
  MaxChanges = 0
PROPERTIES
  ReadyServed
