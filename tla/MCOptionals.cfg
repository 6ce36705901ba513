SPECIFICATION OptionalSpec
CONSTANTS
  r1 = r1
  r2 = r2
  r3 = r3
  local1 = local1
  o1 = o1
  o2 = o2
  temp = temp
  k1 = k1
  k2 = k2
  k3 = k3
  References <- MCReferences
  Referees <- MCReferees
  Optionals <- MCOptionals
  Objects <- MCObjects
  Temporary = temp
  MoveAssignable = TRUE
  Null = Null
SYMMETRY Symmetry
INVARIANTS
  FollowsItsObject
  FlagIsLifetime
