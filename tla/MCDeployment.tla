---------------------------- MODULE MCDeployment -----------------------------
(* A first release; a second that adds an article, retires another and      *)
(* changes the rows of the dataset without a new version; the first again,  *)
(* judged by a case of a ticket that it does not have; and a spoilt one,    *)
(* whose index has a path twice and whose ticket is at an unknown location. *)
EXTENDS Deployment

MCReleases == {"first", "second", "unjudged", "spoilt"}
Text(path, sum) == [path |-> path, sum |-> sum, listed |-> sum]
MCCorpus ==
  [r \in MCReleases |->
     CASE r \in {"first", "unjudged"} -> <<Text("p1", "s1"), Text("p2", "s2"), NoEntry>>
       [] r = "second" -> <<Text("p1", "s1"), NoEntry, Text("p3", "s3")>>
       [] r = "spoilt" -> <<Text("p1", "s1"), Text("p1", "s1"), NoEntry>>]
MCEmbedder == [r \in MCReleases |-> "hash"]
RowOf(key, refs) == [key |-> key, refs |-> refs]
File(sum, rows) == [listed |-> sum, sum |-> sum, count |-> Len(rows),
                    rows |-> rows]
FilesWith(sum, locations, tickets) ==
  [f \in Files |->
     CASE f = "locations" -> File(sum, locations)
       [] f = "tickets"   -> File(sum, tickets)
       [] OTHER           -> File(sum, <<>>)]
L(n) == RowOf(n, {})
T(n, l) == RowOf(n, {<<"locations", l>>})
MCBundle ==
  [r \in MCReleases |->
     CASE r \in {"first", "unjudged"} ->
            [version |-> 1, sum |-> "d1",
             files |-> FilesWith("f1", <<L(1)>>, <<T(1, 1)>>)]
       [] r = "second" ->
            [version |-> 1, sum |-> "d2",
             files |-> FilesWith("f2", <<L(1), L(2)>>, <<T(1, 1), T(2, 2)>>)]
       [] r = "spoilt" ->
            [version |-> 2, sum |-> "d3",
             files |-> FilesWith("f3", <<L(1)>>, <<T(1, 2)>>)]]
MCGroundTruth ==
  [r \in MCReleases |->
     [listed |-> "truth", sum |-> "truth", incidents |-> {1},
      cases |-> <<[ticket |-> IF r = "unjudged" THEN 2 ELSE 1, incident |-> 1]>>]]
=============================================================================
