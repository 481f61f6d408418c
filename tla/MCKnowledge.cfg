SPECIFICATION KnowledgeSpec
CONSTANTS
  Articles = {1}
  Paths = {"guide"}
  Sums = {"first", "edited"}
  Models = {"hash"}
  Releases <- MCReleases
  Corpus <- MCCorpus
  Embedder <- MCEmbedder
  Importers = {"operator"}
  Watched = {"operator"}
  NoEntry = NoEntry
  NoRow = NoRow
  Unlisted = Unlisted
INVARIANT ChangedArticlesReplaced
