CONSTANTS
  g1 = g1
  g2 = g2
  r1 = r1
  r2 = r2
  f1 = f1
  c1 = c1
  c2 = c2
  Groups = {g1}
  Replicas = {r1, r2}
  GroupOf <- OneGroup
  Fields = {f1}
  Controllers = {c1, c2}
  MaxVersions = 2
  MaxNamed = 2
  MaxCanaries = 1
SPECIFICATION Spec
SYMMETRY Symmetric
PROPERTY DecisionIsFinal
