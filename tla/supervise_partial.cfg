CONSTANTS
  g = g
  r1 = r1
  Groups = {g}
  Replicas = {r1}
  GroupOf <- OneReplica
  History <- Mixed
  Fields <- MixedFields
  Knobs <- K
  Values <- X
  Klass <- KlassOf
  ManifestOK <- PassManifest
  EngineOK <- PassEngine
  Norm <- Stored
  Boot <- AtBoot
  ComparesLive = TRUE
  Shown = {"a"}
  WARM = {"m"}
  COLD_FLAGS = {"m", "t"}
SPECIFICATION Spec
INVARIANT IsConverged
