CONSTANTS
  p1 = p1
  p2 = p2
  p3 = p3
  Procs = {p1, p2, p3}
SPECIFICATION Spec
INVARIANTS RegistryStays AlwaysRemovable
PROPERTY NoStrayTeam
SYMMETRY ProcsSymmetric
