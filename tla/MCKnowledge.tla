----------------------------- MODULE MCKnowledge -----------------------------
(* Two releases of one article at one path: the second edits its text.      *)
EXTENDS Knowledge

Text(sum) == [path |-> "guide", sum |-> sum, listed |-> sum]
MCReleases == {"first", "edited"}
MCCorpus == [r \in MCReleases |-> [a \in {1} |-> Text(r)]]
MCEmbedder == [r \in MCReleases |-> "hash"]
=============================================================================
