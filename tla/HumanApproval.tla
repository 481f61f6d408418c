--------------------------- MODULE HumanApproval ---------------------------
(***************************************************************************)
(* What ResolveAI promises about human authority over one ticket           *)
(* (docs/human-approval.md, "Principle" and "Ticket Outcomes"), with no    *)
(* handlers, locks or transactions: a proposal is decided once, an answer  *)
(* is drafted only from an accepted proposal, only an approved answer      *)
(* resolves the ticket, and the ticket gets at most one kind of outcome,   *)
(* for good.                                                               *)
(*                                                                         *)
(* Resolution implements this specification: its ApprovalChain states the  *)
(* mapping.                                                                *)
(***************************************************************************)
CONSTANTS Proposals,   \* the ticket's recommendations
          Answers,     \* the ticket's support responses
          NoProposal   \* the basis of an answer not drafted yet

VARIABLES outcome,     \* "open", or how the ticket was closed
          decision,    \* what became of each proposal
          answer,      \* what became of each answer
          basis        \* the proposal each answer was drafted from

approvalVars == <<outcome, decision, answer, basis>>

Decided == {"accepted", "completed"}

ApprovalInit ==
  /\ outcome  = "open"
  /\ decision = [p \in Proposals |-> "absent"]
  /\ answer   = [a \in Answers |-> "absent"]
  /\ basis    = [a \in Answers |-> NoProposal]

\* A completed assessment proposes.
Propose(p) ==
  /\ decision[p] = "absent"
  /\ decision' = [decision EXCEPT ![p] = "proposed"]
  /\ UNCHANGED <<outcome, answer, basis>>

\* A human accepts or rejects a proposal, once.
Decide(p) ==
  /\ decision[p] = "proposed"
  /\ \E d \in {"accepted", "rejected"} :
       decision' = [decision EXCEPT ![p] = d]
  /\ UNCHANGED <<outcome, answer, basis>>

\* An answer is drafted from a proposal a human has accepted.
Draft(a, p) ==
  /\ answer[a] = "absent"
  /\ decision[p] \in Decided
  /\ answer' = [answer EXCEPT ![a] = "draft"]
  /\ basis'  = [basis EXCEPT ![a] = p]
  /\ UNCHANGED <<outcome, decision>>

\* A human approves or rejects a draft, once.
Judge(a) ==
  /\ answer[a] = "draft"
  /\ \E d \in {"approved", "rejected"} :
       answer' = [answer EXCEPT ![a] = d]
  /\ UNCHANGED <<outcome, decision, basis>>

\* The ticket is resolved on an approved answer, which completes the
\* accepted proposal behind it.
Resolve(a) ==
  /\ outcome \in {"open", "resolved"}
  /\ answer[a] = "approved"
  /\ basis[a] \in Proposals
  /\ decision[basis[a]] = "accepted"
  /\ outcome'  = "resolved"
  /\ decision' = [decision EXCEPT ![basis[a]] = "completed"]
  /\ UNCHANGED <<answer, basis>>

\* The ticket is routed to someone else; at most one pending or accepted
\* proposal is completed by that.
Escalate ==
  /\ outcome \in {"open", "escalated"}
  /\ outcome' = "escalated"
  /\ \/ UNCHANGED decision
     \/ \E p \in Proposals :
          /\ decision[p] \in {"proposed", "accepted"}
          /\ decision' = [decision EXCEPT ![p] = "completed"]
  /\ UNCHANGED <<answer, basis>>

ApprovalNext ==
  \/ \E p \in Proposals : Propose(p) \/ Decide(p)
  \/ \E a \in Answers : Judge(a) \/ Resolve(a)
  \/ \E a \in Answers, p \in Proposals : Draft(a, p)
  \/ Escalate

ApprovalSpec == ApprovalInit /\ [][ApprovalNext]_approvalVars
=============================================================================
