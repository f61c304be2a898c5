SPECIFICATION Spec
CONSTANTS
  n1 = n1  n2 = n2  n3 = n3  n4 = n4
  Nodes = {n1, n2, n3, n4}
  First = n1
  NoNode = NoNode
  Target <- Targets
INVARIANT JoinTypeOK
PROPERTY JoinersServe
