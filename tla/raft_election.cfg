SPECIFICATION Spec
CONSTANTS
  n1 = n1
  n2 = n2
  n3 = n3
  None = None
  Node = {n1, n2, n3}
  Views = {{n1, n2, n3}}
  MaxTurn = 1
  MaxRestarts = 0
  MaxDups = 0
INVARIANTS
  TypeOK
  OneLeaderPerTurn
  OneChoicePerTurn
  LeaderElectedByQuorum
PROPERTIES
  ElectsOncePerTurn
SYMMETRY Symmetry
