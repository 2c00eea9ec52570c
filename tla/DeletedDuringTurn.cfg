CONSTANTS
  p1 = p1
  p2 = p2
  a = a
  b = b
  Procs = {p1, p2}
  Names = {a, b}
  Sessions = {1, 2, 3, 4, 5}
  None = None
  Leftover = Leftover
SPECIFICATION Spec
PROPERTY TurnLandsOnItsAgent
