----------------------------- MODULE Resolution -----------------------------
(***************************************************************************)
(* One ticket on its way from a proposed recommendation to its outcome:    *)
(* services/recommendations.py, responses.py, outcomes.py and the update   *)
(* and assign operations of services/tickets.py, run by concurrent HTTP    *)
(* handlers against PostgreSQL at READ COMMITTED.                          *)
(*                                                                         *)
(* A handler is one request.  Each SELECT ... FOR UPDATE is a step of its  *)
(* own (it waits while another handler holds the row), and so is the       *)
(* commit that applies the writes and releases the locks.  Statements      *)
(* between two waits that touch no shared state are part of the step       *)
(* before them.  A request's payload is chosen at the step that first uses *)
(* it.                                                                     *)
(*                                                                         *)
(* Left out: texts, reasons, timestamps and the event and audit rows       *)
(* (written by the same commit as the change they record).  The order of   *)
(* the row numbers is the order of created_at, which is the time the       *)
(* inserting transaction began: a row may be committed before one with a   *)
(* smaller number.                                                         *)
(***************************************************************************)
EXTENDS Enums, FiniteSets

CONSTANTS Handlers,   \* requests in flight at one time
          Roles,      \* roles of the users who send them
          Actions,    \* action types the instructions of this ticket have
          Users,      \* active users a ticket may be assigned to
          NoOne,      \* assigned_to_id IS NULL
          MaxRecs,    \* bound: recommendations the ticket ever gets
          MaxResps    \* bound: support responses the ticket ever gets

ASSUME ResolutionAssumption ==
  /\ MaxRecs \in Nat /\ MaxResps \in Nat
  /\ Roles \subseteq Role
  /\ Actions \subseteq RecommendationActionType
  /\ NoOne \notin Users

Recs  == 1..MaxRecs
Resps == 1..MaxResps

VARIABLES ticket,   \* the tickets row
          rec,      \* the recommendations rows, by created_at
          resp,     \* the support_responses rows, by created_at
          handler   \* what each request has done so far

vars == <<ticket, rec, resp, handler>>

---------------------------------------------------------------------------
(* Rows *)

Assignees == Users \cup {NoOne}

NoRec  == [status |-> "absent", action_type |-> "troubleshoot",
           assessment |-> 0, decided_by |-> "none"]
NoResp == [status |-> "absent", recommendation |-> 0,
           draft_body |-> "none", final_body |-> "none"]

\* What a handler of update() or assign() has loaded of the ticket.
Unread == [status |-> "new", assigned_to |-> NoOne]
Idle   == [pc |-> "idle", rec |-> 0, resp |-> 0, seen |-> Unread]

LatestOf(rows) == CHOOSE x \in rows : \A y \in rows : y <= x

PresentRecs  == {r \in Recs : rec[r].status # "absent"}
PresentResps == {s \in Resps : resp[s].status # "absent"}

Open == ticket.status \notin TerminalStatus

\* latest_completed_assessment: one commit completes an assessment and inserts
\* its recommendation, so the completed ones are those of the rows of rec (the
\* duplicate jobs that can mark one of them failed again are left out).
LatestAssessment == LatestOf({rec[r].assessment : r \in PresentRecs})

---------------------------------------------------------------------------
(* Row locks, held from the SELECT ... FOR UPDATE to the end of the        *)
(* handler's transaction.                                                  *)

\* Mutant: decide and the draft handlers read the ticket without FOR UPDATE.
HoldsTicketByOutcomes(h) ==
  handler[h].pc \in {"resolve_ticket", "resolve_resp", "resolve_rec",
                     "escalate_ticket", "escalate_rec"}

HoldsTicket(h) ==
  handler[h].pc \in {"decide_ticket", "draft_ticket", "resolve_ticket",
                     "resolve_resp", "resolve_rec",
                     "escalate_ticket", "escalate_rec"}

\* Mutant: decide reads the recommendation without FOR UPDATE.
HoldsRecByOutcomes(h, r) ==
  /\ handler[h].pc \in {"resolve_rec", "escalate_rec"}
  /\ handler[h].rec = r

HoldsRec(h, r) ==
  /\ handler[h].pc \in {"decide_rec", "decide_ticket",
                        "resolve_rec", "escalate_rec"}
  /\ handler[h].rec = r

\* Mutant: _draft reads the response without FOR UPDATE.
HoldsRespByOutcomes(h, s) ==
  /\ handler[h].pc \in {"resolve_resp", "resolve_rec"}
  /\ handler[h].resp = s

HoldsResp(h, s) ==
  /\ handler[h].pc \in {"draft_resp", "draft_ticket",
                        "resolve_resp", "resolve_rec"}
  /\ handler[h].resp = s

TicketFree  == \A g \in Handlers : ~ HoldsTicket(g)
RecFree(r)  == \A g \in Handlers : ~ HoldsRec(g, r)
RespFree(s) == \A g \in Handlers : ~ HoldsResp(g, s)

\* h waits for a row that g holds.
BlockedBy(h, g) ==
  \/ handler[h].pc \in {"decide_rec", "draft_resp"} /\ HoldsTicket(g)
  \/ handler[h].pc = "resolve_ticket" /\ HoldsResp(g, handler[h].resp)
  \/ /\ handler[h].pc = "resolve_resp"
     /\ HoldsRec(g, resp[handler[h].resp].recommendation)
  \/ handler[h].pc = "escalate_ticket" /\ HoldsRec(g, LatestOf(PresentRecs))

---------------------------------------------------------------------------
(* A handler's progress *)

At(h, pc)  == handler[h].pc = pc
Goto(h, pc) == handler' = [handler EXCEPT ![h].pc = pc]
Finish(h)  == handler' = [handler EXCEPT ![h] = Idle]

---------------------------------------------------------------------------
(* The assessment job's commit: a completed assessment and its proposal.   *)
(* The insert takes FOR KEY SHARE on the ticket.                           *)

CompleteAssessment(r, a, action) ==
  /\ TicketFree
  /\ rec[r].status = "absent"
  /\ \A q \in PresentRecs : rec[q].assessment # a
  /\ rec' = [rec EXCEPT ![r] = [status |-> "proposed", action_type |-> action,
                                assessment |-> a, decided_by |-> "none"]]
  /\ UNCHANGED <<ticket, resp, handler>>

---------------------------------------------------------------------------
(* RecommendationService.decide.  A request for a decided recommendation   *)
(* ends at its first statement and is left out.                            *)

DecideLockRec(h, r) ==
  /\ At(h, "idle")
  /\ rec[r].status = "proposed"
  /\ RecFree(r)
  /\ handler' = [handler EXCEPT ![h].pc = "decide_rec", ![h].rec = r]
  /\ UNCHANGED <<ticket, rec, resp>>

DecideLockTicket(h) ==
  /\ At(h, "decide_rec")
  /\ TicketFree
  /\ IF Open THEN Goto(h, "decide_ticket") ELSE Finish(h)
  /\ UNCHANGED <<ticket, rec, resp>>

\* classify_action of the instructions a human wrote.
Reclassified(action) ==
  Actions \cap IF action = "escalate"
                THEN {"high_impact", "escalate"}
                ELSE {"high_impact", "request_information", "troubleshoot"}

\* Mutant: only approvals are checked, modifications are not.
ForbiddenApproval(decision, action, role) ==
  /\ decision = "approved"
  /\ action = "high_impact"
  /\ ~ RoleAllows(role, "manager")

Forbidden(decision, action, role) ==
  /\ decision # "rejected"
  /\ action = "high_impact"
  /\ ~ RoleAllows(role, "manager")

DecideCommit(h) ==
  /\ At(h, "decide_ticket")
  /\ LET r == handler[h].rec
     IN  \E decision \in {"approved", "rejected", "modified"}, role \in Roles :
         \E action \in IF decision = "modified"
                         THEN Reclassified(rec[r].action_type)
                         ELSE {rec[r].action_type} :
           rec' = IF Forbidden(decision, action, role)
                    THEN rec
                    ELSE [rec EXCEPT ![r].status = decision,
                                     ![r].action_type = action,
                                     ![r].decided_by = role]
  /\ Finish(h)
  /\ UNCHANGED <<ticket, resp>>

---------------------------------------------------------------------------
(* ResponseService.generate: its checks take no lock, the provider is      *)
(* awaited, then the draft is inserted.  The insert takes FOR KEY SHARE on *)
(* the ticket and on the recommendation; the unique index on active drafts *)
(* refuses a second draft.                                                 *)

MayDraft(r) ==
  /\ Open
  /\ PresentRecs # {}
  /\ r = LatestOf(PresentRecs)
  /\ rec[r].assessment = LatestAssessment
  /\ rec[r].status \in AcceptedStatus
  /\ PresentResps # {} => resp[LatestOf(PresentResps)].status = "rejected"

\* Bound: as many responses as there are rows left for them.
RowsLeft ==
  Cardinality({h \in Handlers : At(h, "generating")})
    < Cardinality(Resps \ PresentResps)

GenerateCheck(h, r) ==
  /\ At(h, "idle")
  /\ MayDraft(r)
  /\ RowsLeft
  /\ handler' = [handler EXCEPT ![h].pc = "generating", ![h].rec = r]
  /\ UNCHANGED <<ticket, rec, resp>>

\* Mutant: no unique index on active drafts.
NoDraftIndex == FALSE

ActiveDraft == \E s \in Resps : resp[s].status = "draft"

GenerateInsert(h) ==
  /\ At(h, "generating")
  /\ TicketFree
  /\ RecFree(handler[h].rec)
  /\ IF ActiveDraft
       THEN UNCHANGED resp
       ELSE \E s \in Resps \ PresentResps :
              resp' = [resp EXCEPT ![s] =
                         [status |-> "draft", recommendation |-> handler[h].rec,
                          draft_body |-> "ai", final_body |-> "none"]]
  /\ Finish(h)
  /\ UNCHANGED <<ticket, rec>>

---------------------------------------------------------------------------
(* ResponseService.edit, approve and reject.  _draft locks the response,   *)
(* then the ticket.  A request for a response that is no draft ends at its *)
(* first statement and is left out; text the safety check refuses ends the *)
(* handler as Abort does.                                                  *)

DraftLockResp(h, s) ==
  /\ At(h, "idle")
  /\ resp[s].status = "draft"
  /\ RespFree(s)
  /\ handler' = [handler EXCEPT ![h].pc = "draft_resp", ![h].resp = s]
  /\ UNCHANGED <<ticket, rec, resp>>

\* Mutant: the conflict leaves the transaction open.
DraftLeftOpen(h) ==
  /\ At(h, "draft_resp")
  /\ TicketFree
  /\ Open
  /\ Goto(h, "draft_ticket")
  /\ UNCHANGED <<ticket, rec, resp>>

DraftLockTicket(h) ==
  /\ At(h, "draft_resp")
  /\ TicketFree
  /\ IF Open THEN Goto(h, "draft_ticket") ELSE Finish(h)
  /\ UNCHANGED <<ticket, rec, resp>>

EditCommit(h) ==
  /\ At(h, "draft_ticket")
  /\ resp' = [resp EXCEPT ![handler[h].resp].draft_body = "human"]
  /\ Finish(h)
  /\ UNCHANGED <<ticket, rec>>

ApproveCommit(h) ==
  /\ At(h, "draft_ticket")
  /\ LET s == handler[h].resp
     IN  resp' = [resp EXCEPT ![s].status = "approved",
                              ![s].final_body = resp[s].draft_body]
  /\ Finish(h)
  /\ UNCHANGED <<ticket, rec>>

RejectCommit(h) ==
  /\ At(h, "draft_ticket")
  /\ resp' = [resp EXCEPT ![handler[h].resp].status = "rejected"]
  /\ Finish(h)
  /\ UNCHANGED <<ticket, rec>>

---------------------------------------------------------------------------
(* OutcomeService.resolve: ticket, then response, then recommendation.     *)

ResolveLockTicket(h, s) ==
  /\ At(h, "idle")
  /\ Open
  /\ TicketFree
  /\ handler' = [handler EXCEPT ![h].pc = "resolve_ticket", ![h].resp = s]
  /\ UNCHANGED <<ticket, rec, resp>>

ResolveLockResp(h) ==
  /\ At(h, "resolve_ticket")
  /\ RespFree(handler[h].resp)
  /\ IF handler[h].resp \in PresentResps
       THEN Goto(h, "resolve_resp") ELSE Finish(h)
  /\ UNCHANGED <<ticket, rec, resp>>

\* Mutant: the response need not be approved.
ResolveAnyResponse(h) ==
  /\ At(h, "resolve_resp")
  /\ LET r == resp[handler[h].resp].recommendation
     IN  /\ RecFree(r)
         /\ IF rec[r].status \in AcceptedStatus
              THEN handler' = [handler EXCEPT ![h].pc = "resolve_rec",
                                              ![h].rec = r]
              ELSE Finish(h)
  /\ UNCHANGED <<ticket, rec, resp>>

ResolveLockRec(h) ==
  /\ At(h, "resolve_resp")
  /\ LET r == resp[handler[h].resp].recommendation
     IN  /\ RecFree(r)
         /\ IF /\ resp[handler[h].resp].status = "approved"
               /\ resp[handler[h].resp].final_body # "none"
               /\ rec[r].status \in AcceptedStatus
              THEN handler' = [handler EXCEPT ![h].pc = "resolve_rec",
                                              ![h].rec = r]
              ELSE Finish(h)
  /\ UNCHANGED <<ticket, rec, resp>>

\* Mutant: no check of the other outcome.
ResolveAnyway(h) ==
  /\ At(h, "resolve_rec")
  /\ ticket' = [ticket EXCEPT !.status = "resolved", !.resolved_at = TRUE]
  /\ rec' = [rec EXCEPT ![handler[h].rec].status = "completed"]
  /\ Finish(h)
  /\ UNCHANGED resp

\* ck_tickets_single_terminal_outcome refuses the commit of a second outcome.
ResolveCommit(h) ==
  /\ At(h, "resolve_rec")
  /\ IF ticket.escalated_at
       THEN UNCHANGED <<ticket, rec>>
       ELSE /\ ticket' = [ticket EXCEPT !.status = "resolved",
                                        !.resolved_at = TRUE]
            /\ rec' = [rec EXCEPT ![handler[h].rec].status = "completed"]
  /\ Finish(h)
  /\ UNCHANGED resp

---------------------------------------------------------------------------
(* OutcomeService.escalate: ticket, then the latest recommendation.        *)

EscalateLockTicket(h) ==
  /\ At(h, "idle")
  /\ Open
  /\ TicketFree
  /\ PresentRecs # {}
  /\ Goto(h, "escalate_ticket")
  /\ UNCHANGED <<ticket, rec, resp>>

EscalateLockRec(h) ==
  /\ At(h, "escalate_ticket")
  /\ LET r == LatestOf(PresentRecs)
     IN  /\ RecFree(r)
         /\ handler' = [handler EXCEPT ![h].pc = "escalate_rec", ![h].rec = r]
  /\ UNCHANGED <<ticket, rec, resp>>

\* Mutant: whatever the latest proposal says is completed by routing.
RoutedAny(row, role) ==
  IF row.status \in AcceptedStatus \cup {"proposed"}
    THEN [row EXCEPT !.status = "completed", !.decided_by = role]
    ELSE row

\* The explicit routing action completes a proposal to escalate.
RoutedBy(row, role) ==
  IF /\ row.action_type = "escalate"
     /\ row.status \in AcceptedStatus \cup {"proposed"}
    THEN [row EXCEPT !.status = "completed",
                     !.decided_by = IF row.status = "proposed" THEN role ELSE @]
    ELSE row

EscalateCommit(h) ==
  /\ At(h, "escalate_rec")
  /\ IF ticket.resolved_at
       THEN UNCHANGED <<ticket, rec>>
       ELSE /\ ticket' = [ticket EXCEPT !.status = "escalated",
                                        !.escalated_at = TRUE]
            /\ \E role \in Roles :
                 rec' = [rec EXCEPT ![handler[h].rec] = RoutedBy(@, role)]
  /\ Finish(h)
  /\ UNCHANGED resp

---------------------------------------------------------------------------
(* TicketService.update and assign: the ticket is read without a lock and  *)
(* checked; the later UPDATE names only the columns whose value differs    *)
(* from the one read, and waits for the ticket's row lock.                 *)

\* Mutant: update and assign do not check the ticket's status.
ReadAnyTicket(h, pc) ==
  /\ At(h, "idle")
  /\ handler' = [handler EXCEPT ![h].pc = pc,
                   ![h].seen = [status |-> ticket.status,
                                assigned_to |-> ticket.assigned_to]]
  /\ UNCHANGED <<ticket, rec, resp>>

ReadOpenTicket(h, pc) ==
  /\ At(h, "idle")
  /\ Open
  /\ handler' = [handler EXCEPT ![h].pc = pc,
                   ![h].seen = [status |-> ticket.status,
                                assigned_to |-> ticket.assigned_to]]
  /\ UNCHANGED <<ticket, rec, resp>>

UpdateCommit(h) ==
  /\ At(h, "update")
  /\ TicketFree
  /\ \E status \in TicketStatus \ TerminalStatus :
       ticket' = IF status = handler[h].seen.status
                   THEN ticket ELSE [ticket EXCEPT !.status = status]
  /\ Finish(h)
  /\ UNCHANGED <<rec, resp>>

AssignCommit(h) ==
  /\ At(h, "assign")
  /\ TicketFree
  /\ \E user \in Assignees :
       ticket' = IF user = handler[h].seen.assigned_to
                   THEN ticket ELSE [ticket EXCEPT !.assigned_to = user]
  /\ Finish(h)
  /\ UNCHANGED <<rec, resp>>

---------------------------------------------------------------------------
(* PostgreSQL ends a cycle of waiting transactions by rolling one back.    *)
(* Every waiting handler waits for the ticket or holds it, so a cycle has  *)
(* two members.                                                            *)

DeadlockVictim(h) ==
  /\ \E g \in Handlers : BlockedBy(h, g) /\ BlockedBy(g, h)
  /\ Finish(h)
  /\ UNCHANGED <<ticket, rec, resp>>

\* A provider or database error, or the end of the process: rolled back.
Abort(h) ==
  /\ ~ At(h, "idle")
  /\ Finish(h)
  /\ UNCHANGED <<ticket, rec, resp>>

---------------------------------------------------------------------------

Init ==
  /\ ticket = [status |-> "new", assigned_to |-> NoOne,
               resolved_at |-> FALSE, escalated_at |-> FALSE]
  /\ rec = [r \in Recs |-> NoRec]
  /\ resp = [s \in Resps |-> NoResp]
  /\ handler = [h \in Handlers |-> Idle]

\* The first statement of a request.
Start(h) ==
  \/ \E r \in Recs : DecideLockRec(h, r) \/ GenerateCheck(h, r)
  \/ \E s \in Resps : DraftLockResp(h, s) \/ ResolveLockTicket(h, s)
  \/ EscalateLockTicket(h)
  \/ ReadOpenTicket(h, "update")
  \/ ReadOpenTicket(h, "assign")

\* The rest of it.
Continue(h) ==
  \/ DecideLockTicket(h) \/ DecideCommit(h)
  \/ GenerateInsert(h)
  \/ DraftLockTicket(h) \/ EditCommit(h) \/ ApproveCommit(h) \/ RejectCommit(h)
  \/ ResolveLockResp(h) \/ ResolveLockRec(h) \/ ResolveCommit(h)
  \/ EscalateLockRec(h) \/ EscalateCommit(h)
  \/ UpdateCommit(h) \/ AssignCommit(h)

Next ==
  \/ \E r, a \in Recs, action \in Actions :
       CompleteAssessment(r, a, action)
  \/ \E h \in Handlers : Start(h) \/ Continue(h) \/ DeadlockVictim(h) \/ Abort(h)

Spec == Init /\ [][Next]_vars

\* A request that waits for a row lock is queued for it, and the deadlock
\* detector runs; nobody has to send a request.
Fairness ==
  \A h \in Handlers : SF_vars(Continue(h)) /\ WF_vars(DeadlockVictim(h))

FairSpec == Spec /\ Fairness

---------------------------------------------------------------------------
(* Properties *)

PCs == {"idle", "decide_rec", "decide_ticket", "generating",
        "draft_resp", "draft_ticket",
        "resolve_ticket", "resolve_resp", "resolve_rec",
        "escalate_ticket", "escalate_rec", "update", "assign"}

TicketRow == [status: TicketStatus, assigned_to: Assignees,
              resolved_at: BOOLEAN, escalated_at: BOOLEAN]
RecRow    == [status: RecommendationStatus \cup {"absent"},
              action_type: RecommendationActionType,
              assessment: 0..MaxRecs, decided_by: Roles \cup {"none"}]
Body      == ResponseGeneratedBy \cup {"none"}
RespRow   == [status: SupportResponseStatus \cup {"absent"},
              recommendation: 0..MaxRecs, draft_body: Body, final_body: Body]
Progress  == [pc: PCs, rec: 0..MaxRecs, resp: 0..MaxResps,
              seen: [status: TicketStatus \ TerminalStatus,
                     assigned_to: Assignees]]

\* The rows and the handlers have the shape the code gives them.
TypeOK ==
  /\ ticket \in TicketRow
  /\ rec \in [Recs -> RecRow]
  /\ resp \in [Resps -> RespRow]
  /\ handler \in [Handlers -> Progress]

\* However the unlocked checks of generate() interleave, a ticket never has
\* two drafts at once (uq_support_responses_active_draft).
OneDraft ==
  \A s, t \in Resps :
    resp[s].status = "draft" /\ resp[t].status = "draft" => s = t

\* A ticket that was ever resolved has the evidence resolve() asked for: an
\* approved response with a final body, whose recommendation is completed.
ResolvedOnApproval ==
  ticket.resolved_at =>
    \E s \in Resps :
      /\ resp[s].status = "approved"
      /\ resp[s].final_body # "none"
      /\ resp[s].recommendation \in Recs
      /\ rec[resp[s].recommendation].status = "completed"

\* A recommendation is completed only with the ticket's one outcome: resolved,
\* with an approved response drafted from this very recommendation, or routed,
\* on a proposal to escalate.  A ticket reopened by a stale update does not get
\* the other outcome, nor the proposals of the first completed by it.
CompletedByOutcome ==
  \A r \in Recs :
    rec[r].status = "completed" =>
      \/ /\ ticket.resolved_at /\ ~ ticket.escalated_at
         /\ \E s \in Resps :
              resp[s].status = "approved" /\ resp[s].recommendation = r
      \/ /\ ticket.escalated_at /\ ~ ticket.resolved_at
         /\ rec[r].action_type = "escalate"

\* A high-impact instruction stands accepted only on the word of a manager or
\* administrator, also when a modification made it high-impact.
HighImpactByManager ==
  \A r \in Recs :
    /\ rec[r].action_type = "high_impact"
    /\ rec[r].status \in AcceptedStatus \cup {"completed"}
    => rec[r].decided_by # "none" /\ RoleAllows(rec[r].decided_by, "manager")

\* The approved text is the draft as it stands: no edit that passed its check
\* before an approval lands after it.
ApprovedTextIsFinal ==
  \A s \in Resps :
    resp[s].status = "approved" => resp[s].final_body = resp[s].draft_body

\* While the ticket is terminal nobody decides a recommendation or edits,
\* approves or rejects a draft, although each handler checks the ticket's
\* status one or more steps before it writes (docs/human-approval.md:72).
NoDecisionOnTerminal ==
  [][ ~ Open =>
        /\ \A r \in PresentRecs : rec'[r] = rec[r]
        /\ \A s \in PresentResps : resp'[s] = resp[s] ]_vars

\* A decided recommendation is not decided again: it keeps its decision until
\* the outcome completes it (docs/human-approval.md:28).
DecidedOnce ==
  [][ \A r \in Recs :
        rec[r].status \notin {"absent", "proposed"} =>
          \/ rec'[r] = rec[r]
          \/ /\ rec[r].status \in AcceptedStatus
             /\ rec'[r] = [rec[r] EXCEPT !.status = "completed"] ]_vars

\* Terminal tickets cannot be reopened or reassigned
\* (docs/human-approval.md:72).  The code does not keep this.
TerminalTicketsFrozen ==
  [][ ~ Open =>
        /\ ticket'.status = ticket.status
        /\ ticket'.assigned_to = ticket.assigned_to ]_vars

\* A request that took a lock or started its work ends, whatever the other
\* requests lock in the opposite order.
RequestsEnd ==
  \A h \in Handlers : ~ At(h, "idle") ~> At(h, "idle")

---------------------------------------------------------------------------
(* Refinement: the handlers implement the approval chain. *)

Outcome ==
  IF ticket.resolved_at THEN "resolved"
  ELSE IF ticket.escalated_at THEN "escalated" ELSE "open"

Accepted(status) == IF status \in AcceptedStatus THEN "accepted" ELSE status

Decisions == [r \in Recs |-> Accepted(rec[r].status)]
Judgements == [s \in Resps |-> resp[s].status]
Bases == [s \in Resps |-> resp[s].recommendation]

Approval ==
  INSTANCE HumanApproval
    WITH Proposals  <- Recs,
         Answers    <- Resps,
         NoProposal <- 0,
         outcome    <- Outcome,
         decision   <- Decisions,
         answer     <- Judgements,
         basis      <- Bases

\* Every step of every handler is a step of the approval chain or none: an
\* outcome is final and rests on an approved answer to an accepted proposal.
ApprovalChain == Approval!ApprovalSpec
=============================================================================
