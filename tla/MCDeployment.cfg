SPECIFICATION Spec
CONSTANTS
  Articles = {1, 2, 3}
  Paths = {"p1", "p2", "p3"}
  Sums = {"s1", "s2", "s3"}
  Models = {"hash"}
  Releases <- MCReleases
  Bundles <- MCReleases
  Corpus <- MCCorpus
  Embedder <- MCEmbedder
  Bundle <- MCBundle
  Importers = {"compose", "operator"}
  Watched = {"compose"}
  Awaited = {"compose"}
  Loaders = {"compose", "operator"}
  Compose = "compose"
  GroundTruth <- MCGroundTruth
  MinCases = 1
  NoEntry = NoEntry
  NoRow = NoRow
  NoBundle = NoBundle
  Unlisted = Unlisted
INVARIANTS
  DeploymentTypeOK
  OutcomesBackfilled
  KnowledgeOfRelease
  DatasetWhole
PROPERTIES
  SchemaOfRevision
  BackendReady
  StartupEnds
