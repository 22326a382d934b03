CONSTANTS
  g1 = g1
  g2 = g2
  r1 = r1
  r2 = r2
  c1 = c1
  Groups = {g1, g2}
  Replicas = {r1, r2}
  GroupOf <- OneGroup
  Fields <- AllFields
  Controllers = {c1}
  MaxVersions = 3
  MaxNamed = 4
  MaxCanaries = 1
  History <- Three
  Knobs <- K
  Values = {0, 1, 2}
  Klass <- KlassOf
  ManifestOK <- PassManifest
  EngineOK <- PassEngine
  Norm <- Stored
  Boot <- AtBoot
  ComparesLive = TRUE
  Shown = {"a", "b"}
  Up = {r1}
SPECIFICATION FleetLiveSpec
INVARIANT BlastRadius
PROPERTY Settles
