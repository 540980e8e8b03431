SPECIFICATION Spec
CONSTANTS
  n1 = n1
  n2 = n2
  n3 = n3
  None = None
  Node = {n1, n2, n3}
  Views = {{n1, n2, n3}}
  MaxTurn = 0
  MaxRestarts = 1
  MaxDups = 0
INVARIANTS
  OneLeaderPerTurn
SYMMETRY Symmetry
