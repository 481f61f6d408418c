----------------------------- MODULE MCEvidence ------------------------------
(* A ticket for every branch of the planner; texts of all lengths; one with *)
(* no location, and one whose incident may name another service first.      *)
EXTENDS Evidence

Of(words, application, length) ==
  [words |-> words, located |-> TRUE, application |-> application,
   length |-> length]

MCTickets ==
  { Of({"vpn", "internal", "identity", "network"}, "", "long"),
    Of({"vpn", "m365"}, "PayrollPro", "short"),
    Of({"m365", "unavailable"}, "PayrollPro", "short"),
    Of({"wireless"}, "", "huge"),
    Of({"identity"}, "", "long"),
    Of({"outage"}, "PayrollPro", "short"),
    Of({"unavailable", "network"}, "", "short"),
    [Of({"vpn", "internal"}, "", "short") EXCEPT !.located = FALSE] }

MCGuides == {Item("knowledge_chunk", "VPN", "", "relevant"),
             Item("knowledge_chunk", "VPN", "", "weak"),
             Item("knowledge_chunk", "", "", "relevant")}
MCPast == {Item("similar_ticket", "", "", "linked")}
=============================================================================
