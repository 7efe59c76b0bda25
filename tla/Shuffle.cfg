SPECIFICATION ShuffleSpec
CONSTANTS
  a = a
  b = b
  c = c
  Profiles = {a, b, c}
  None = None
PROPERTIES
  OncePerCycle
  NeverSame
