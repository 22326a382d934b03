CONSTANTS
  g1 = g1
  r1 = r1
  r2 = r2
  f1 = f1
  k8s = k8s
  cli = cli
  cap = cap
  Groups = {g1}
  Replicas = {r1, r2}
  GroupOf <- OneGroup
  Fields = {f1}
  Controllers = {k8s, cli}
  MaxVersions = 2
  MaxNamed = 2
  MaxCanaries = 2
  Objects = {cap}
  Specs <- Written
  K8sOp = k8s
  MaxEdits = 0
  MaxFaults = 1
SPECIFICATION OpLiveSpec

PROPERTY VerdictReported
