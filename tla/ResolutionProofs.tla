-------------------------- MODULE ResolutionProofs --------------------------
(***************************************************************************)
(* Proofs about Resolution.                                                *)
(***************************************************************************)
EXTENDS Resolution, TLAPS, WellFoundedInduction

---------------------------------------------------------------------------
(* The latest row of a non-empty table *)

\* The order of the natural numbers, as a set of pairs, is well founded.
LEMMA NatOrderWellFounded ==
  IsWellFoundedOn({ss \in Nat \X Nat : ss[1] < ss[2]}, Nat)
BY NatLessThanWellFounded DEF OpToRel

\* LatestOf, the ORDER BY created_at DESC LIMIT 1 of the repositories, returns
\* a row of any non-empty table, and none of the others is later.
LEMMA LatestOfIsLatest ==
  ASSUME NEW n \in Nat, NEW rows \in SUBSET (0..n), rows # {}
  PROVE  LatestOf(rows) \in rows /\ \A y \in rows : y <= LatestOf(rows)
<1> DEFINE R == {ss \in Nat \X Nat : ss[1] < ss[2]}
           T == {m \in Nat : n - m \in rows}
<1>1. T \subseteq Nat /\ T # {}
  <2>1. PICK x \in rows : TRUE
    OBVIOUS
  <2>2. n - x \in Nat /\ n - (n - x) = x
    BY <2>1
  <2>3. n - x \in T
    BY <2>1, <2>2
  <2>4. QED BY <2>3
<1>2. PICK m \in T : \A y \in T : ~ (<<y, m>> \in R)
  <2> HIDE DEF R, T
  <2>1. QED BY <1>1, NatOrderWellFounded, WFMin DEF R
<1>3. \A y \in rows : n - y \in T
  <2>1. TAKE y \in rows
  <2>2. n - y \in Nat /\ n - (n - y) = y
    OBVIOUS
  <2>3. QED BY <2>1, <2>2
<1>4. \A y \in rows : y <= n - m
  <2>1. TAKE y \in rows
  <2>2. n - y \in T /\ n - y \in Nat /\ m \in Nat
    BY <1>3
  <2>3. ~ (n - y < m)
    BY <2>2, <1>2
  <2>4. QED BY <2>2, <2>3
<1>5. n - m \in rows
  BY <1>2
<1>6. QED BY <1>4, <1>5 DEF LatestOf

\* The latest recommendation is one of the ticket's recommendations.
LEMMA LatestRecPresent ==
  ASSUME ResolutionAssumption, PresentRecs # {}
  PROVE  LatestOf(PresentRecs) \in PresentRecs
<1>1. PresentRecs \in SUBSET (0..MaxRecs) /\ MaxRecs \in Nat
  BY DEF ResolutionAssumption, PresentRecs, Recs
<1>2. QED BY <1>1, LatestOfIsLatest

---------------------------------------------------------------------------
(* The inductive invariant *)

\* No two handlers hold the lock of one row.
LocksExclusive ==
  \A g, h \in Handlers :
    g # h =>
      /\ ~ (HoldsTicket(g) /\ HoldsTicket(h))
      /\ \A r \in Recs : ~ (HoldsRec(g, r) /\ HoldsRec(h, r))
      /\ \A s \in Resps : ~ (HoldsResp(g, s) /\ HoldsResp(h, s))

\* A locked ticket was open when it was locked and still is.
LockedTicketOpen == \A h \in Handlers : HoldsTicket(h) => Open

\* What a handler has checked of a recommendation or a response is still true
\* when it goes on.
Deciding(h) ==
  handler[h].pc \in {"decide_rec", "decide_ticket"} =>
    handler[h].rec \in Recs /\ rec[handler[h].rec].status = "proposed"

Generating(h) ==
  handler[h].pc = "generating" =>
    /\ handler[h].rec \in Recs
    /\ rec[handler[h].rec].status \in AcceptedStatus \cup {"completed"}

Drafting(h) ==
  handler[h].pc \in {"draft_resp", "draft_ticket"} =>
    handler[h].resp \in Resps /\ resp[handler[h].resp].status = "draft"

Resolving(h) ==
  /\ handler[h].pc = "resolve_ticket" => handler[h].resp \in Resps
  /\ handler[h].pc = "resolve_resp" => handler[h].resp \in PresentResps
  /\ handler[h].pc = "resolve_rec" =>
       /\ handler[h].resp \in Resps
       /\ resp[handler[h].resp].status = "approved"
       /\ resp[handler[h].resp].final_body # "none"
       /\ resp[handler[h].resp].recommendation = handler[h].rec
       /\ handler[h].rec \in Recs
       /\ rec[handler[h].rec].status \in AcceptedStatus

Escalating(h) ==
  /\ handler[h].pc = "escalate_ticket" => PresentRecs # {}
  /\ handler[h].pc = "escalate_rec" => handler[h].rec \in PresentRecs

ChecksHold ==
  \A h \in Handlers :
    Deciding(h) /\ Generating(h) /\ Drafting(h) /\ Resolving(h) /\ Escalating(h)

\* A response was drafted from a recommendation a human had accepted.
BasisDecided ==
  \A s \in PresentResps :
    /\ resp[s].recommendation \in Recs
    /\ rec[resp[s].recommendation].status \in AcceptedStatus \cup {"completed"}

\* ck_tickets_single_terminal_outcome.
SingleOutcome == ~ (ticket.resolved_at /\ ticket.escalated_at)

IInv ==
  /\ TypeOK
  /\ LocksExclusive
  /\ LockedTicketOpen
  /\ ChecksHold
  /\ BasisDecided
  /\ SingleOutcome

---------------------------------------------------------------------------
(* Type correctness *)

\* Row numbers are what a handler's fields hold; 0 is no row.
LEMMA RowNumbers ==
  /\ Recs \subseteq 0..MaxRecs /\ 0 \in 0..MaxRecs
  /\ Resps \subseteq 0..MaxResps /\ 0 \in 0..MaxResps
BY ResolutionAssumption DEF Recs, Resps, ResolutionAssumption

\* A handler that ends, and one that only moves on, keep their shape.
LEMMA ProgressKept ==
  ASSUME NEW h \in Handlers, handler \in [Handlers -> Progress]
  PROVE  /\ Finish(h) => handler' \in [Handlers -> Progress]
         /\ \A pc \in PCs : Goto(h, pc) => handler' \in [Handlers -> Progress]
<1>1. Idle \in Progress
  BY RowNumbers
     DEF Idle, Unread, Progress, PCs, TicketStatus, TerminalStatus, Assignees
<1>2. ASSUME NEW k \in Progress, NEW pc \in PCs
      PROVE  [k EXCEPT !.pc = pc] \in Progress
  BY <1>2 DEF Progress
<1>3. QED BY <1>1, <1>2 DEF Finish, Goto

\* Every step of the handlers keeps the rows and the handlers in shape.
LEMMA TypeStep == TypeOK /\ ChecksHold /\ [Next]_vars => TypeOK'
<1> SUFFICES ASSUME TypeOK, ChecksHold, [Next]_vars
             PROVE  TypeOK'
  OBVIOUS
<1> USE DEF TypeOK
<1>1. ASSUME NEW r \in Recs, NEW a \in Recs, NEW action \in Actions,
             CompleteAssessment(r, a, action)
      PROVE  TypeOK'
  <2>1. [status |-> "proposed", action_type |-> action,
         assessment |-> a, decided_by |-> "none"] \in RecRow
    BY <1>1, RowNumbers, ResolutionAssumption
       DEF RecRow, RecommendationStatus, ResolutionAssumption
  <2>2. QED BY <1>1, <2>1 DEF CompleteAssessment
<1>2. ASSUME NEW h \in Handlers, Start(h)
      PROVE  TypeOK'
  <2>1. ASSUME NEW r \in Recs, NEW pc \in PCs,
               handler' = [handler EXCEPT ![h].pc = pc, ![h].rec = r]
        PROVE  handler' \in [Handlers -> Progress]
    BY <2>1, RowNumbers DEF Progress
  <2>2. ASSUME NEW s \in Resps, NEW pc \in PCs,
               handler' = [handler EXCEPT ![h].pc = pc, ![h].resp = s]
        PROVE  handler' \in [Handlers -> Progress]
    BY <2>2, RowNumbers DEF Progress
  <2>3. {"decide_rec", "generating", "draft_resp", "resolve_ticket",
         "escalate_ticket", "update", "assign"} \subseteq PCs
    BY DEF PCs
  <2>4. ASSUME NEW r \in Recs, DecideLockRec(h, r) \/ GenerateCheck(h, r)
        PROVE  TypeOK'
    BY <2>1, <2>3, <2>4 DEF DecideLockRec, GenerateCheck
  <2>5. ASSUME NEW s \in Resps, DraftLockResp(h, s) \/ ResolveLockTicket(h, s)
        PROVE  TypeOK'
    BY <2>2, <2>3, <2>5 DEF DraftLockResp, ResolveLockTicket
  <2>6. CASE EscalateLockTicket(h)
    BY <2>6, <2>3, ProgressKept DEF EscalateLockTicket
  <2>7. ASSUME NEW pc \in {"update", "assign"}, ReadOpenTicket(h, pc)
        PROVE  TypeOK'
    <3>1. [status |-> ticket.status, assigned_to |-> ticket.assigned_to]
            \in [status: TicketStatus \ TerminalStatus, assigned_to: Assignees]
      BY <2>7 DEF ReadOpenTicket, Open, TicketRow
    <3>2. pc \in PCs
      BY <2>3
    <3>3. handler' \in [Handlers -> Progress]
      BY <2>7, <3>1, <3>2 DEF ReadOpenTicket, Progress
    <3>4. QED BY <2>7, <3>3 DEF ReadOpenTicket
  <2>8. QED BY <1>2, <2>4, <2>5, <2>6, <2>7 DEF Start
<1>3. ASSUME NEW h \in Handlers, Continue(h)
      PROVE  TypeOK'
  <2>1. {"decide_ticket", "draft_ticket", "resolve_resp", "resolve_rec",
         "escalate_rec"} \subseteq PCs
    BY DEF PCs
  <2>2. ASSUME NEW r \in 0..MaxRecs, NEW pc \in PCs,
               handler' = [handler EXCEPT ![h].pc = pc, ![h].rec = r]
        PROVE  handler' \in [Handlers -> Progress]
    BY <2>2 DEF Progress
  <2>3. CASE DecideLockTicket(h)
    BY <2>3, <2>1, ProgressKept DEF DecideLockTicket
  <2>4. CASE DecideCommit(h)
    <3>1. PICK decision \in {"approved", "rejected", "modified"},
               role \in Roles, action \in RecommendationActionType :
            rec' = rec \/ rec' = [rec EXCEPT ![handler[h].rec].status = decision,
                                    ![handler[h].rec].action_type = action,
                                    ![handler[h].rec].decided_by = role]
      <4>1. rec[handler[h].rec].action_type \in RecommendationActionType
        BY <2>4 DEF DecideCommit, ChecksHold, Deciding, At, RecRow
      <4>2. \A action : Reclassified(action) \subseteq RecommendationActionType
        BY ResolutionAssumption DEF Reclassified, ResolutionAssumption
      <4>3. QED BY <2>4, <4>1, <4>2 DEF DecideCommit
    <3>2. decision \in RecommendationStatus
      BY DEF RecommendationStatus
    <3>3. rec' \in [Recs -> RecRow]
      BY <3>1, <3>2 DEF RecRow
    <3>4. QED BY <2>4, <3>3, ProgressKept DEF DecideCommit
  <2>5. CASE GenerateInsert(h)
    <3>1. [status |-> "draft", recommendation |-> handler[h].rec,
           draft_body |-> "ai", final_body |-> "none"] \in RespRow
      BY DEF RespRow, Progress, Body, SupportResponseStatus,
             ResponseGeneratedBy
    <3>2. resp' \in [Resps -> RespRow]
      BY <2>5, <3>1 DEF GenerateInsert
    <3>3. QED BY <2>5, <3>2, ProgressKept DEF GenerateInsert
  <2>6. CASE DraftLockTicket(h)
    BY <2>6, <2>1, ProgressKept DEF DraftLockTicket
  <2>7. CASE EditCommit(h) \/ ApproveCommit(h) \/ RejectCommit(h)
    <3>1. {"approved", "rejected"} \subseteq SupportResponseStatus
          /\ "human" \in Body
      BY DEF SupportResponseStatus, Body, ResponseGeneratedBy
    <3>2. resp' \in [Resps -> RespRow]
      BY <2>7, <3>1 DEF EditCommit, ApproveCommit, RejectCommit, RespRow
    <3>3. QED BY <2>7, <3>2, ProgressKept
              DEF EditCommit, ApproveCommit, RejectCommit
  <2>8. CASE ResolveLockResp(h)
    BY <2>8, <2>1, ProgressKept DEF ResolveLockResp
  <2>9. CASE ResolveLockRec(h)
    <3>1. resp[handler[h].resp].recommendation \in 0..MaxRecs
      BY <2>9 DEF ResolveLockRec, ChecksHold, Resolving, PresentResps, RespRow, At
    <3>2. QED BY <2>9, <2>1, <2>2, <3>1, ProgressKept DEF ResolveLockRec
  <2>10. CASE ResolveCommit(h)
    <3>1. "resolved" \in TicketStatus /\ "completed" \in RecommendationStatus
      BY DEF TicketStatus, RecommendationStatus
    <3>2. ticket' \in TicketRow
      BY <2>10, <3>1 DEF ResolveCommit, TicketRow
    <3>3. rec' \in [Recs -> RecRow]
      BY <2>10, <3>1 DEF ResolveCommit, RecRow
    <3>4. QED BY <2>10, <3>2, <3>3, ProgressKept DEF ResolveCommit
  <2>11. CASE EscalateLockRec(h)
    <3>1. LatestOf(PresentRecs) \in 0..MaxRecs
      BY <2>11, RowNumbers, ResolutionAssumption, LatestRecPresent
         DEF EscalateLockRec, ChecksHold, Escalating, PresentRecs, At
    <3>2. QED BY <2>11, <2>1, <2>2, <3>1 DEF EscalateLockRec
  <2>12. CASE EscalateCommit(h)
    <3>1. "escalated" \in TicketStatus /\ "completed" \in RecommendationStatus
      BY DEF TicketStatus, RecommendationStatus
    <3>2. \A row \in RecRow, role \in Roles : RoutedBy(row, role) \in RecRow
      BY <3>1 DEF RoutedBy, RecRow
    <3>3. ticket' \in TicketRow
      BY <2>12, <3>1 DEF EscalateCommit, TicketRow
    <3>4. rec' \in [Recs -> RecRow]
      BY <2>12, <3>2 DEF EscalateCommit
    <3>5. QED BY <2>12, <3>3, <3>4, ProgressKept DEF EscalateCommit
  <2>13. CASE UpdateCommit(h)
    BY <2>13, ProgressKept DEF UpdateCommit, TicketRow
  <2>14. CASE AssignCommit(h)
    BY <2>14, ProgressKept DEF AssignCommit, TicketRow
  <2>15. QED
    BY <1>3, <2>3, <2>4, <2>5, <2>6, <2>7, <2>8, <2>9, <2>10,
       <2>11, <2>12, <2>13, <2>14 DEF Continue
<1>4. ASSUME NEW h \in Handlers, DeadlockVictim(h) \/ Abort(h)
      PROVE  TypeOK'
  BY <1>4, ProgressKept DEF DeadlockVictim, Abort
<1>5. CASE UNCHANGED vars
  BY <1>5 DEF vars
<1>6. QED BY <1>1, <1>2, <1>3, <1>4, <1>5 DEF Next

---------------------------------------------------------------------------
(* Locks *)

\* A step of a handler is one of these: it starts, goes on, or ends at once.
Step(h) == Start(h) \/ Continue(h) \/ DeadlockVictim(h) \/ Abort(h)

\* A step of one handler leaves the others where they are.
LEMMA OthersStay ==
  ASSUME TypeOK, NEW h \in Handlers, Step(h),
         NEW g \in Handlers, g # h
  PROVE  handler'[g] = handler[g]
<1> USE DEF TypeOK, Goto, Finish
<1>1. CASE Start(h)
  BY <1>1 DEF Start, DecideLockRec, GenerateCheck, DraftLockResp,
              ResolveLockTicket, EscalateLockTicket, ReadOpenTicket
<1>2. CASE Continue(h)
  <2>1. CASE DecideLockTicket(h) \/ DecideCommit(h) \/ GenerateInsert(h)
    BY <2>1 DEF DecideLockTicket, DecideCommit, GenerateInsert
  <2>2. CASE \/ DraftLockTicket(h) \/ EditCommit(h)
             \/ ApproveCommit(h) \/ RejectCommit(h)
    BY <2>2 DEF DraftLockTicket, EditCommit, ApproveCommit, RejectCommit
  <2>3. CASE ResolveLockResp(h) \/ ResolveLockRec(h) \/ ResolveCommit(h)
    BY <2>3 DEF ResolveLockResp, ResolveLockRec, ResolveCommit
  <2>4. CASE \/ EscalateLockRec(h) \/ EscalateCommit(h)
             \/ UpdateCommit(h) \/ AssignCommit(h)
    BY <2>4 DEF EscalateLockRec, EscalateCommit, UpdateCommit, AssignCommit
  <2>5. QED BY <1>2, <2>1, <2>2, <2>3, <2>4 DEF Continue
<1>3. CASE DeadlockVictim(h) \/ Abort(h)
  BY <1>3 DEF DeadlockVictim, Abort
<1>4. QED BY <1>1, <1>2, <1>3 DEF Step

\* A handler that has ended holds no lock.
LEMMA FinishReleases ==
  ASSUME TypeOK, NEW h \in Handlers, Finish(h)
  PROVE  /\ ~ HoldsTicket(h)'
         /\ \A r \in Recs : ~ HoldsRec(h, r)'
         /\ \A s \in Resps : ~ HoldsResp(h, s)'
BY DEF TypeOK, Finish, Idle, HoldsTicket, HoldsRec, HoldsResp

\* A handler comes to hold only a lock that nobody held.
LEMMA LocksTakenFree ==
  ASSUME TypeOK, NEW h \in Handlers, Step(h)
  PROVE  /\ HoldsTicket(h)' => HoldsTicket(h) \/ TicketFree
         /\ \A r \in Recs : HoldsRec(h, r)' => HoldsRec(h, r) \/ RecFree(r)
         /\ \A s \in Resps : HoldsResp(h, s)' => HoldsResp(h, s) \/ RespFree(s)
<1> USE DEF TypeOK, Goto, At, HoldsTicket, HoldsRec, HoldsResp
<1>1. CASE Start(h)
  BY <1>1 DEF Start, DecideLockRec, GenerateCheck, DraftLockResp,
              ResolveLockTicket, EscalateLockTicket, ReadOpenTicket, Progress
<1>2. CASE Continue(h)
  <2>1. CASE DecideLockTicket(h)
    BY <2>1, FinishReleases DEF DecideLockTicket, Progress
  <2>2. CASE DraftLockTicket(h)
    BY <2>2, FinishReleases DEF DraftLockTicket, Progress
  <2>3. CASE ResolveLockResp(h)
    BY <2>3, FinishReleases DEF ResolveLockResp, Progress
  <2>4. CASE ResolveLockRec(h)
    BY <2>4, FinishReleases DEF ResolveLockRec, Progress
  <2>5. CASE EscalateLockRec(h)
    BY <2>5 DEF EscalateLockRec, Progress
  <2>6. CASE \/ DecideCommit(h) \/ GenerateInsert(h)
             \/ EditCommit(h) \/ ApproveCommit(h) \/ RejectCommit(h)
             \/ ResolveCommit(h) \/ EscalateCommit(h)
             \/ UpdateCommit(h) \/ AssignCommit(h)
    <3>1. Finish(h)
      BY <2>6 DEF DecideCommit, GenerateInsert, EditCommit, ApproveCommit,
                  RejectCommit, ResolveCommit, EscalateCommit, UpdateCommit,
                  AssignCommit
    <3>2. QED BY <3>1, FinishReleases
  <2>7. QED BY <1>2, <2>1, <2>2, <2>3, <2>4, <2>5, <2>6 DEF Continue
<1>3. CASE DeadlockVictim(h) \/ Abort(h)
  BY <1>3, FinishReleases DEF DeadlockVictim, Abort
<1>4. QED BY <1>1, <1>2, <1>3 DEF Step

\* Row locks exclude each other.
LEMMA LocksStep == TypeOK /\ LocksExclusive /\ [Next]_vars => LocksExclusive'
<1> SUFFICES ASSUME TypeOK, LocksExclusive, [Next]_vars
             PROVE  LocksExclusive'
  OBVIOUS
<1>1. CASE UNCHANGED handler
  BY <1>1 DEF LocksExclusive, HoldsTicket, HoldsRec, HoldsResp
<1>2. ASSUME NEW h \in Handlers, Step(h)
      PROVE  LocksExclusive'
  <2>1. \A g \in Handlers \ {h} :
          /\ HoldsTicket(g)' <=> HoldsTicket(g)
          /\ \A r \in Recs : HoldsRec(g, r)' <=> HoldsRec(g, r)
          /\ \A s \in Resps : HoldsResp(g, s)' <=> HoldsResp(g, s)
    BY <1>2, OthersStay DEF HoldsTicket, HoldsRec, HoldsResp
  <2>2. \A g \in Handlers \ {h} :
          /\ ~ (HoldsTicket(g) /\ HoldsTicket(h)')
          /\ \A r \in Recs : ~ (HoldsRec(g, r) /\ HoldsRec(h, r)')
          /\ \A s \in Resps : ~ (HoldsResp(g, s) /\ HoldsResp(h, s)')
    BY <1>2, LocksTakenFree DEF LocksExclusive, TicketFree, RecFree, RespFree
  <2>3. QED BY <2>1, <2>2 DEF LocksExclusive
<1>3. CASE UNCHANGED vars
  BY <1>1, <1>3 DEF vars
<1>4. QED BY <1>1, <1>2, <1>3 DEF Next, Step, CompleteAssessment

---------------------------------------------------------------------------
(* How rows change *)

\* A handler changes a recommendation only under its lock and the ticket's:
\* it decides a proposed one, or completes an accepted one.
LEMMA RecChanges ==
  ASSUME TypeOK, ChecksHold, NEW h \in Handlers, Step(h), NEW r \in Recs
  PROVE  \/ rec'[r] = rec[r]
         \/ /\ HoldsRec(h, r) /\ HoldsTicket(h)
            /\ \/ /\ rec[r].status = "proposed"
                  /\ rec'[r].status
                       \in {"approved", "rejected", "modified", "completed"}
               \/ /\ rec[r].status \in AcceptedStatus
                  /\ rec'[r] = [rec[r] EXCEPT !.status = "completed"]
<1> USE DEF TypeOK, At, HoldsTicket, HoldsRec
<1>1. CASE DecideCommit(h)
  <2>1. handler[h].rec \in Recs /\ rec[handler[h].rec].status = "proposed"
    BY <1>1 DEF DecideCommit, ChecksHold, Deciding
  <2>2. PICK decision \in {"approved", "rejected", "modified"} :
          \/ rec' = rec
          \/ \E role, action :
               rec' = [rec EXCEPT ![handler[h].rec].status = decision,
                                  ![handler[h].rec].action_type = action,
                                  ![handler[h].rec].decided_by = role]
    BY <1>1 DEF DecideCommit
  <2>3. r # handler[h].rec => rec'[r] = rec[r]
    BY <2>2
  <2>4. rec' = rec \/ rec'[handler[h].rec].status = decision
    <3>1. ASSUME NEW role, NEW action,
                 rec' = [rec EXCEPT ![handler[h].rec].status = decision,
                                    ![handler[h].rec].action_type = action,
                                    ![handler[h].rec].decided_by = role]
          PROVE  rec'[handler[h].rec].status = decision
      BY <2>1, <3>1 DEF RecRow
    <3>2. QED BY <2>2, <3>1
  <2>5. QED BY <1>1, <2>1, <2>3, <2>4 DEF DecideCommit
<1>2. CASE ResolveCommit(h)
  <2>1. /\ handler[h].rec \in Recs
        /\ rec[handler[h].rec].status \in AcceptedStatus
    BY <1>2 DEF ResolveCommit, ChecksHold, Resolving
  <2>2. QED BY <1>2, <2>1 DEF ResolveCommit
<1>3. CASE EscalateCommit(h)
  <2>1. PICK role : rec' = rec \/ rec' =
              [rec EXCEPT ![handler[h].rec] = RoutedBy(rec[handler[h].rec], role)]
    BY <1>3 DEF EscalateCommit
  <2>2. \A row \in RecRow :
          \/ RoutedBy(row, role) = row
          \/ row.status = "proposed" /\ RoutedBy(row, role).status = "completed"
          \/ /\ row.status \in AcceptedStatus
             /\ RoutedBy(row, role) = [row EXCEPT !.status = "completed"]
    BY DEF RoutedBy, RecRow, AcceptedStatus
  <2>3. QED BY <1>3, <2>1, <2>2 DEF EscalateCommit
<1>4. CASE UNCHANGED rec
  BY <1>4
<1>5. QED BY <1>1, <1>2, <1>3, <1>4
          DEF Step, Start, Continue, DeadlockVictim, Abort, DecideLockRec,
              GenerateCheck, DraftLockResp, ResolveLockTicket,
              EscalateLockTicket, ReadOpenTicket, DecideLockTicket,
              GenerateInsert, DraftLockTicket, EditCommit, ApproveCommit,
              RejectCommit, ResolveLockResp, ResolveLockRec, EscalateLockRec,
              UpdateCommit, AssignCommit

\* generate() inserts response s.
Inserted(h, s) ==
  /\ resp[s].status = "absent" /\ At(h, "generating")
  /\ ~ ActiveDraft
  /\ resp'[s] = [status |-> "draft", recommendation |-> handler[h].rec,
                 draft_body |-> "ai", final_body |-> "none"]

\* edit(), approve() or reject() changes response s.
Judged(h, s) ==
  /\ HoldsResp(h, s) /\ HoldsTicket(h)
  /\ resp[s].status = "draft"
  /\ \/ resp'[s] = [resp[s] EXCEPT !.draft_body = "human"]
     \/ resp'[s] = [resp[s] EXCEPT !.status = "approved",
                                   !.final_body = resp[s].draft_body]
     \/ resp'[s] = [resp[s] EXCEPT !.status = "rejected"]

\* A handler inserts a draft from the recommendation it checked, or changes a
\* draft under its lock and the ticket's.
LEMMA RespChanges ==
  ASSUME TypeOK, ChecksHold, NEW h \in Handlers, Step(h), NEW s \in Resps
  PROVE  resp'[s] = resp[s] \/ Inserted(h, s) \/ Judged(h, s)
<1> USE DEF TypeOK, At, HoldsTicket, HoldsResp
<1>1. CASE GenerateInsert(h)
  BY <1>1 DEF GenerateInsert, PresentResps, Inserted
<1>2. CASE EditCommit(h) \/ ApproveCommit(h) \/ RejectCommit(h)
  <2>1. handler[h].resp \in Resps /\ resp[handler[h].resp].status = "draft"
    BY <1>2 DEF EditCommit, ApproveCommit, RejectCommit, ChecksHold, Drafting
  <2>2. QED BY <1>2, <2>1
            DEF EditCommit, ApproveCommit, RejectCommit, RespRow, Judged
<1>3. CASE UNCHANGED resp
  BY <1>3
<1>4. QED BY <1>1, <1>2, <1>3
          DEF Step, Start, Continue, DeadlockVictim, Abort, DecideLockRec,
              GenerateCheck, DraftLockResp, ResolveLockTicket,
              EscalateLockTicket, ReadOpenTicket, DecideLockTicket,
              DecideCommit, DraftLockTicket, ResolveLockResp, ResolveLockRec,
              ResolveCommit, EscalateLockRec, EscalateCommit, UpdateCommit,
              AssignCommit

\* A handler changes the ticket's outcome only under its lock, and its status
\* otherwise only while nobody holds the lock, to a status that is open.
LEMMA TicketChanges ==
  ASSUME TypeOK, ChecksHold, NEW h \in Handlers, Step(h)
  PROVE  \/ ticket' = ticket
         \/ /\ TicketFree /\ (Open => Open')
            /\ ticket'.resolved_at = ticket.resolved_at
            /\ ticket'.escalated_at = ticket.escalated_at
         \/ /\ ResolveCommit(h) /\ ~ ticket.escalated_at
            /\ ticket' = [ticket EXCEPT !.status = "resolved",
                                        !.resolved_at = TRUE]
         \/ /\ EscalateCommit(h) /\ ~ ticket.resolved_at
            /\ ticket' = [ticket EXCEPT !.status = "escalated",
                                        !.escalated_at = TRUE]
<1> USE DEF TypeOK, TicketRow
<1>1. CASE ResolveCommit(h)
  BY <1>1 DEF ResolveCommit
<1>2. CASE EscalateCommit(h)
  BY <1>2 DEF EscalateCommit
<1>3. CASE UpdateCommit(h) \/ AssignCommit(h)
  BY <1>3 DEF UpdateCommit, AssignCommit, Open
<1>4. CASE UNCHANGED ticket
  BY <1>4
<1>5. QED BY <1>1, <1>2, <1>3, <1>4
          DEF Step, Start, Continue, DeadlockVictim, Abort, DecideLockRec,
              GenerateCheck, DraftLockResp, ResolveLockTicket,
              EscalateLockTicket, ReadOpenTicket, DecideLockTicket,
              DecideCommit, GenerateInsert, DraftLockTicket, EditCommit,
              ApproveCommit, RejectCommit, ResolveLockResp, ResolveLockRec,
              EscalateLockRec

---------------------------------------------------------------------------
(* The inductive invariant is kept *)

\* A handler finds the ticket open when it takes its lock, and no other
\* handler closes it before the lock is released.
LEMMA LockedTicketOpenStep == IInv /\ [Next]_vars => LockedTicketOpen'
<1> SUFFICES ASSUME IInv, [Next]_vars
             PROVE  LockedTicketOpen'
  OBVIOUS
<1> USE DEF IInv
<1>1. CASE UNCHANGED <<handler, ticket>>
  BY <1>1 DEF LockedTicketOpen, HoldsTicket, Open
<1>2. ASSUME NEW h \in Handlers, Step(h)
      PROVE  LockedTicketOpen'
  <2>1. HoldsTicket(h)' => Open /\ UNCHANGED ticket
    <3> USE DEF TypeOK, Progress, At, Goto, HoldsTicket
    <3>1. CASE Start(h)
      BY <3>1 DEF Start, DecideLockRec, GenerateCheck, DraftLockResp,
                  ResolveLockTicket, EscalateLockTicket, ReadOpenTicket
    <3>2. CASE DecideLockTicket(h) \/ DraftLockTicket(h)
      BY <3>2, FinishReleases DEF DecideLockTicket, DraftLockTicket
    <3>3. CASE ResolveLockResp(h) \/ ResolveLockRec(h) \/ EscalateLockRec(h)
      BY <3>3, FinishReleases
         DEF ResolveLockResp, ResolveLockRec, EscalateLockRec, LockedTicketOpen
    <3>4. CASE Finish(h)
      BY <3>4, FinishReleases
    <3>5. QED
      BY <1>2, <3>1, <3>2, <3>3, <3>4
         DEF Step, Continue, DecideCommit, GenerateInsert, EditCommit,
             ApproveCommit, RejectCommit, ResolveCommit, EscalateCommit,
             UpdateCommit, AssignCommit, DeadlockVictim, Abort
  <2>2. \A g \in Handlers \ {h} : HoldsTicket(g)' <=> HoldsTicket(g)
    BY <1>2, OthersStay DEF HoldsTicket
  <2>3. \A g \in Handlers \ {h} : HoldsTicket(g) => Open'
    <3>1. CASE ticket' = ticket \/ (TicketFree /\ (Open => Open'))
      BY <3>1 DEF LockedTicketOpen, TicketFree, Open
    <3>2. CASE HoldsTicket(h)
      BY <3>2 DEF LocksExclusive
    <3>3. ResolveCommit(h) \/ EscalateCommit(h) => HoldsTicket(h)
      BY DEF ResolveCommit, EscalateCommit, HoldsTicket, At
    <3>4. \/ ticket' = ticket
          \/ TicketFree /\ (Open => Open')
          \/ ResolveCommit(h) \/ EscalateCommit(h)
      BY <1>2, TicketChanges
    <3>5. QED BY <3>1, <3>2, <3>3, <3>4
  <2>4. QED BY <2>1, <2>2, <2>3 DEF LockedTicketOpen, Open
<1>3. QED BY <1>1, <1>2 DEF Next, Step, CompleteAssessment, vars

\* A recommendation a human accepted stays accepted or is completed, and no
\* row disappears.
LEMMA RowsKept ==
  ASSUME IInv, [Next]_vars
  PROVE  /\ \A r \in Recs :
              rec[r].status \in AcceptedStatus \cup {"completed"}
              => rec'[r].status \in AcceptedStatus \cup {"completed"}
         /\ PresentRecs \subseteq PresentRecs'
         /\ PresentResps \subseteq PresentResps'
<1> USE DEF IInv, TypeOK, RecRow, RespRow, AcceptedStatus, PresentRecs,
            PresentResps
<1>1. ASSUME NEW r \in Recs, NEW a \in Recs, NEW action \in Actions,
             CompleteAssessment(r, a, action)
      PROVE  \A q \in Recs : rec[q].status # "absent" => rec'[q] = rec[q]
  BY <1>1 DEF CompleteAssessment
<1>2. ASSUME NEW h \in Handlers, Step(h), NEW r \in Recs
      PROVE  /\ rec[r].status \in AcceptedStatus \cup {"completed"}
                  => rec'[r].status \in AcceptedStatus \cup {"completed"}
             /\ rec[r].status # "absent" => rec'[r].status # "absent"
  BY <1>2, RecChanges
<1>3. ASSUME NEW h \in Handlers, Step(h), NEW s \in Resps
      PROVE  resp[s].status # "absent" => resp'[s].status # "absent"
  <2>1. CASE Judged(h, s)
    BY <2>1 DEF Judged
  <2>2. CASE Inserted(h, s)
    BY <2>2 DEF Inserted
  <2>3. QED BY <1>3, <2>1, <2>2, RespChanges
<1>4. CASE UNCHANGED vars
  BY <1>4 DEF vars
<1>5. QED BY <1>1, <1>2, <1>3, <1>4 DEF Next, Step, CompleteAssessment

\* What another handler has checked under a lock is not changed by h, and what
\* it has checked without one changes only in ways that do not matter.
LEMMA OthersChecksHold ==
  ASSUME IInv, NEW h \in Handlers, Step(h), [Next]_vars,
         NEW g \in Handlers, g # h
  PROVE  /\ Deciding(g)' /\ Generating(g)' /\ Drafting(g)'
         /\ Resolving(g)' /\ Escalating(g)'
<1> USE DEF IInv, ChecksHold
<1>1. handler'[g] = handler[g]
  BY OthersStay
<1>2. \A r \in Recs : HoldsRec(g, r) => rec'[r] = rec[r]
  BY RecChanges DEF LocksExclusive
<1>3. \A s \in Resps : HoldsResp(g, s) /\ resp[s].status # "absent"
                         => resp'[s] = resp[s]
  BY RespChanges DEF LocksExclusive, Inserted, Judged
<1>4. Deciding(g)'
  BY <1>1, <1>2 DEF Deciding, HoldsRec
<1>5. Generating(g)'
  BY <1>1, RowsKept DEF Generating
<1>6. Drafting(g)'
  BY <1>1, <1>3 DEF Drafting, HoldsResp
<1>7. Resolving(g)'
  BY <1>1, <1>2, <1>3, RowsKept DEF Resolving, HoldsRec, HoldsResp
<1>8. Escalating(g)'
  BY <1>1, RowsKept DEF Escalating
<1>9. QED BY <1>4, <1>5, <1>6, <1>7, <1>8

\* What a handler checks in a step holds when the step is done.
LEMMA OwnChecksHold ==
  ASSUME IInv, NEW h \in Handlers, Step(h)
  PROVE  /\ Deciding(h)' /\ Generating(h)' /\ Drafting(h)'
         /\ Resolving(h)' /\ Escalating(h)'
<1> USE DEF IInv, ChecksHold, TypeOK, Progress, At, Goto
<1> DEFINE Own == /\ Deciding(h)' /\ Generating(h)' /\ Drafting(h)'
                  /\ Resolving(h)' /\ Escalating(h)'
<1>0. ASSUME handler'[h] = Idle
      PROVE  Own
  BY <1>0 DEF Idle, Deciding, Generating, Drafting, Resolving, Escalating
<1>1. ASSUME handler'[h].pc \in {"update", "assign"}
      PROVE  Own
  BY <1>1 DEF Deciding, Generating, Drafting, Resolving, Escalating
<1>2. ASSUME NEW r \in Recs, DecideLockRec(h, r)
      PROVE  Own
  BY <1>2 DEF DecideLockRec, Deciding, Generating, Drafting, Resolving, Escalating
<1>3. ASSUME NEW r \in Recs, GenerateCheck(h, r)
      PROVE  Own
  BY <1>3 DEF GenerateCheck, MayDraft, Deciding, Generating, Drafting,
              Resolving, Escalating
<1>4. ASSUME NEW s \in Resps, DraftLockResp(h, s)
      PROVE  Own
  BY <1>4 DEF DraftLockResp, Deciding, Generating, Drafting, Resolving, Escalating
<1>5. ASSUME NEW s \in Resps, ResolveLockTicket(h, s)
      PROVE  Own
  BY <1>5 DEF ResolveLockTicket, Deciding, Generating, Drafting, Resolving,
              Escalating
<1>6. CASE EscalateLockTicket(h)
  BY <1>6 DEF EscalateLockTicket, PresentRecs, Deciding, Generating, Drafting,
              Resolving, Escalating
<1>7. CASE DecideLockTicket(h)
  BY <1>7, <1>0 DEF DecideLockTicket, Finish, Deciding, Generating, Drafting,
              Resolving, Escalating
<1>8. CASE DraftLockTicket(h)
  BY <1>8, <1>0 DEF DraftLockTicket, Finish, Deciding, Generating, Drafting,
              Resolving, Escalating
<1>9. CASE ResolveLockResp(h)
  BY <1>9, <1>0 DEF ResolveLockResp, Finish, PresentResps, Deciding, Generating,
              Drafting, Resolving, Escalating
<1>10. CASE ResolveLockRec(h)
  <2>1. /\ handler[h].resp \in PresentResps
        /\ resp[handler[h].resp].recommendation \in Recs
    BY <1>10 DEF ResolveLockRec, Resolving, BasisDecided
  <2>2. QED
    BY <1>10, <1>0, <2>1 DEF ResolveLockRec, Finish, PresentResps, Deciding,
              Generating, Drafting, Resolving, Escalating
<1>11. CASE EscalateLockRec(h)
  <2>1. LatestOf(PresentRecs) \in PresentRecs
    BY <1>11, ResolutionAssumption, LatestRecPresent
       DEF EscalateLockRec, Escalating
  <2>2. QED
    BY <1>11, <2>1 DEF EscalateLockRec, PresentRecs, Deciding, Generating,
              Drafting, Resolving, Escalating
<1>12. CASE Finish(h)
  BY <1>12, <1>0 DEF Finish
<1>13. CASE ReadOpenTicket(h, "update") \/ ReadOpenTicket(h, "assign")
  BY <1>13, <1>1 DEF ReadOpenTicket
<1>14. QED
  BY <1>2, <1>3, <1>4, <1>5, <1>6, <1>7, <1>8, <1>9, <1>10, <1>11, <1>12, <1>13
     DEF Step, Start, Continue, DecideCommit, GenerateInsert, EditCommit,
         ApproveCommit, RejectCommit, ResolveCommit, EscalateCommit,
         UpdateCommit, AssignCommit, DeadlockVictim, Abort

\* The checks of every handler hold until it has used them.
LEMMA ChecksStep == IInv /\ [Next]_vars => ChecksHold'
<1> SUFFICES ASSUME IInv, [Next]_vars
             PROVE  ChecksHold'
  OBVIOUS
<1>1. ASSUME NEW h \in Handlers, Step(h)
      PROVE  ChecksHold'
  BY <1>1, OwnChecksHold, OthersChecksHold DEF ChecksHold
<1>2. ASSUME NEW r \in Recs, NEW a \in Recs, NEW action \in Actions,
             CompleteAssessment(r, a, action)
      PROVE  ChecksHold'
  <2>1. \A q \in Recs : rec[q].status # "absent" => rec'[q] = rec[q]
    BY <1>2 DEF CompleteAssessment, IInv, TypeOK
  <2>2. UNCHANGED <<handler, resp>>
    BY <1>2 DEF CompleteAssessment
  <2>3. QED
    BY <2>1, <2>2, RowsKept
       DEF IInv, ChecksHold, Deciding, Generating, Drafting, Resolving,
           Escalating, PresentResps, AcceptedStatus
<1>3. CASE UNCHANGED vars
  BY <1>3 DEF vars, IInv, ChecksHold, Deciding, Generating, Drafting,
              Resolving, Escalating, PresentRecs, PresentResps
<1>4. QED BY <1>1, <1>2, <1>3 DEF Next, Step

\* Every response keeps its basis, which stays accepted or is completed.
LEMMA BasisStep == IInv /\ [Next]_vars => BasisDecided'
<1> SUFFICES ASSUME IInv, [Next]_vars, NEW s \in Resps,
                    resp'[s].status # "absent"
             PROVE  /\ resp'[s].recommendation \in Recs
                    /\ rec'[resp'[s].recommendation].status
                         \in AcceptedStatus \cup {"completed"}
  BY DEF BasisDecided, PresentResps
<1>1. CASE UNCHANGED resp
  BY <1>1, RowsKept DEF IInv, BasisDecided, PresentResps
<1>2. ASSUME NEW h \in Handlers, Step(h),
             resp[s].status # "absent"
             /\ resp'[s].recommendation = resp[s].recommendation
      PROVE  /\ resp'[s].recommendation \in Recs
             /\ rec'[resp'[s].recommendation].status
                  \in AcceptedStatus \cup {"completed"}
  BY <1>2, RowsKept DEF IInv, BasisDecided, PresentResps
<1>3. ASSUME NEW h \in Handlers, Step(h), At(h, "generating"),
             resp'[s].recommendation = handler[h].rec
      PROVE  /\ resp'[s].recommendation \in Recs
             /\ rec'[resp'[s].recommendation].status
                  \in AcceptedStatus \cup {"completed"}
  BY <1>3, RowsKept DEF IInv, ChecksHold, Generating, At
<1>4. ASSUME NEW h \in Handlers, Step(h)
      PROVE  \/ resp[s].status # "absent"
                /\ resp'[s].recommendation = resp[s].recommendation
             \/ At(h, "generating") /\ resp'[s].recommendation = handler[h].rec
  <2>1. TypeOK /\ ChecksHold /\ resp[s] \in RespRow
    BY DEF IInv, TypeOK
  <2>2. CASE Inserted(h, s)
    BY <2>2 DEF Inserted
  <2>3. CASE Judged(h, s)
    BY <2>1, <2>3 DEF Judged, RespRow
  <2>4. QED BY <1>4, <2>1, <2>2, <2>3, RespChanges
<1>5. QED BY <1>1, <1>2, <1>3, <1>4 DEF Next, Step, CompleteAssessment, vars

\* The ticket never gets a second kind of outcome.
LEMMA OutcomeStep == IInv /\ [Next]_vars => SingleOutcome'
<1> SUFFICES ASSUME IInv, [Next]_vars
             PROVE  SingleOutcome'
  OBVIOUS
<1>1. ASSUME NEW h \in Handlers, Step(h)
      PROVE  SingleOutcome'
  BY <1>1, TicketChanges DEF IInv, SingleOutcome, TypeOK, TicketRow
<1>2. CASE UNCHANGED ticket
  BY <1>2 DEF IInv, SingleOutcome
<1>3. QED BY <1>1, <1>2 DEF Next, Step, CompleteAssessment, vars

\* IInv is an inductive invariant of the handlers.
THEOREM Invariance == Spec => []IInv
<1>1. Init => IInv
  <2>1. Init => TypeOK
    BY RowNumbers
       DEF Init, TypeOK, TicketRow, RecRow, RespRow, Progress, Body, Assignees,
           TicketStatus, TerminalStatus, RecommendationActionType, PCs, NoRec,
           NoResp, Idle, Unread
  <2>2. Init => /\ LocksExclusive /\ LockedTicketOpen /\ ChecksHold
                /\ BasisDecided /\ SingleOutcome
    BY DEF Init, LocksExclusive, LockedTicketOpen, HoldsTicket, HoldsRec,
           HoldsResp, ChecksHold, Deciding, Generating, Drafting, Resolving,
           Escalating, BasisDecided, PresentResps, SingleOutcome, Idle, NoResp
  <2>3. QED BY <2>1, <2>2 DEF IInv
<1>2. IInv /\ [Next]_vars => IInv'
  <2>1. IInv /\ [Next]_vars => TypeOK' /\ LocksExclusive'
    BY TypeStep, LocksStep DEF IInv
  <2>2. QED
    BY <2>1, LockedTicketOpenStep, ChecksStep, BasisStep, OutcomeStep DEF IInv
<1>3. QED BY <1>1, <1>2, PTL DEF Spec

\* The rows and the handlers keep the shape the code gives them.
THEOREM TypeCorrect == Spec => []TypeOK
<1>1. IInv => TypeOK
  BY DEF IInv
<1>2. QED BY <1>1, Invariance, PTL

---------------------------------------------------------------------------
(* What follows *)

\* While the ticket is terminal nobody decides a recommendation or edits,
\* approves or rejects a draft.
THEOREM TerminalTicketsDecideNothing == Spec => NoDecisionOnTerminal
<1> DEFINE A == ~ Open => /\ \A r \in PresentRecs : rec'[r] = rec[r]
                          /\ \A s \in PresentResps : resp'[s] = resp[s]
<1>1. IInv /\ [Next]_vars => [A]_vars
  <2> SUFFICES ASSUME IInv, [Next]_vars
               PROVE  [A]_vars
    OBVIOUS
  <2>1. ASSUME NEW h \in Handlers, Step(h)
        PROVE  A
    <3>1. HoldsTicket(h) => Open
      BY DEF IInv, LockedTicketOpen
    <3>2. QED BY <2>1, <3>1, RecChanges, RespChanges
              DEF IInv, PresentRecs, PresentResps, Inserted, Judged
  <2>2. ASSUME NEW r \in Recs, NEW a \in Recs, NEW action \in Actions,
               CompleteAssessment(r, a, action)
        PROVE  A
    BY <2>2 DEF CompleteAssessment, IInv, TypeOK, PresentRecs
  <2>3. QED BY <2>1, <2>2 DEF Next, Step
<1>2. QED BY <1>1, Invariance, PTL DEF Spec, NoDecisionOnTerminal

\* A decided recommendation keeps its decision until the outcome completes it.
THEOREM RecommendationsDecidedOnce == Spec => DecidedOnce
<1> DEFINE A == \A r \in Recs :
                  rec[r].status \notin {"absent", "proposed"} =>
                    \/ rec'[r] = rec[r]
                    \/ /\ rec[r].status \in AcceptedStatus
                       /\ rec'[r] = [rec[r] EXCEPT !.status = "completed"]
<1>1. IInv /\ [Next]_vars => [A]_vars
  <2> SUFFICES ASSUME IInv, [Next]_vars
               PROVE  [A]_vars
    OBVIOUS
  <2>1. ASSUME NEW h \in Handlers, Step(h)
        PROVE  A
    BY <2>1, RecChanges DEF IInv
  <2>2. ASSUME NEW r \in Recs, NEW a \in Recs, NEW action \in Actions,
               CompleteAssessment(r, a, action)
        PROVE  A
    BY <2>2 DEF CompleteAssessment, IInv, TypeOK
  <2>3. QED BY <2>1, <2>2 DEF Next, Step
<1>2. QED BY <1>1, Invariance, PTL DEF Spec, DecidedOnce

\* However the unlocked checks of generate() interleave, a ticket never has
\* two drafts at once.
THEOREM OneDraftAtATime == Spec => []OneDraft
<1>1. Init => OneDraft
  BY DEF Init, OneDraft, NoResp
<1>2. IInv /\ OneDraft /\ [Next]_vars => OneDraft'
  <2> SUFFICES ASSUME IInv, OneDraft, [Next]_vars
               PROVE  OneDraft'
    OBVIOUS
  <2> USE DEF IInv, TypeOK, OneDraft
  <2>1. CASE UNCHANGED resp
    BY <2>1
  <2>2. ASSUME NEW h \in Handlers, GenerateInsert(h)
        PROVE  OneDraft'
    BY <2>2 DEF GenerateInsert, ActiveDraft
  <2>3. ASSUME NEW h \in Handlers,
               EditCommit(h) \/ ApproveCommit(h) \/ RejectCommit(h)
        PROVE  OneDraft'
    <3>1. \A s \in Resps : resp'[s].status = "draft" => resp[s].status = "draft"
      BY <2>3, RespChanges
         DEF Step, Continue, Inserted, Judged, At, EditCommit, ApproveCommit,
             RejectCommit
    <3>2. QED BY <3>1
  <2>4. QED
    BY <2>1, <2>2, <2>3
       DEF Next, vars, CompleteAssessment, Start, Continue, DeadlockVictim,
           Abort, DecideLockRec, GenerateCheck, DraftLockResp,
           ResolveLockTicket, EscalateLockTicket, ReadOpenTicket,
           DecideLockTicket, DecideCommit, DraftLockTicket, ResolveLockResp,
           ResolveLockRec, ResolveCommit, EscalateLockRec, EscalateCommit,
           UpdateCommit, AssignCommit
<1>3. QED BY <1>1, <1>2, Invariance, PTL DEF Spec

\* The approved text is the draft as it stands.
THEOREM ApprovedTextStands == Spec => []ApprovedTextIsFinal
<1>1. Init => ApprovedTextIsFinal
  BY DEF Init, ApprovedTextIsFinal, NoResp
<1>2. IInv /\ ApprovedTextIsFinal /\ [Next]_vars => ApprovedTextIsFinal'
  <2> SUFFICES ASSUME IInv, ApprovedTextIsFinal, [Next]_vars,
                      NEW s \in Resps, resp'[s].status = "approved"
               PROVE  resp'[s].final_body = resp'[s].draft_body
    BY DEF ApprovedTextIsFinal
  <2> USE DEF ApprovedTextIsFinal
  <2>1. CASE resp'[s] = resp[s]
    BY <2>1
  <2>2. ASSUME NEW h \in Handlers, Inserted(h, s) \/ Judged(h, s)
        PROVE  resp'[s].final_body = resp'[s].draft_body
    <3>1. resp[s] \in RespRow
      BY DEF IInv, TypeOK
    <3>2. CASE Inserted(h, s)
      BY <3>2 DEF Inserted
    <3>3. CASE Judged(h, s)
      BY <3>1, <3>3 DEF Judged, RespRow
    <3>4. QED BY <2>2, <3>2, <3>3
  <2>3. QED
    BY <2>1, <2>2, RespChanges DEF IInv, Next, Step, CompleteAssessment, vars
<1>3. QED BY <1>1, <1>2, Invariance, PTL DEF Spec

\* A ticket that was ever resolved has an approved response with a final body,
\* whose recommendation is completed.
THEOREM ResolutionRestsOnApproval == Spec => []ResolvedOnApproval
<1> DEFINE Evidence(s) == /\ resp[s].status = "approved"
                          /\ resp[s].final_body # "none"
                          /\ resp[s].recommendation \in Recs
                          /\ rec[resp[s].recommendation].status = "completed"
<1>1. Init => ResolvedOnApproval
  BY DEF Init, ResolvedOnApproval
<1>2. IInv /\ ResolvedOnApproval /\ [Next]_vars => ResolvedOnApproval'
  <2> SUFFICES ASSUME IInv, ResolvedOnApproval, [Next]_vars,
                      ticket'.resolved_at
               PROVE  \E s \in Resps : Evidence(s)'
    BY DEF ResolvedOnApproval
  <2>1. ASSUME NEW h \in Handlers, Step(h), ticket.resolved_at
        PROVE  \E s \in Resps : Evidence(s)'
    <3>1. PICK s \in Resps : Evidence(s)
      BY <2>1 DEF ResolvedOnApproval
    <3>2. resp'[s] = resp[s]
      BY <2>1, <3>1, RespChanges DEF IInv, Inserted, Judged
    <3>3. rec'[resp[s].recommendation] = rec[resp[s].recommendation]
      BY <2>1, <3>1, RecChanges DEF IInv, AcceptedStatus
    <3>4. QED BY <3>1, <3>2, <3>3
  <2>2. ASSUME NEW h \in Handlers, ResolveCommit(h), ~ ticket.escalated_at
        PROVE  \E s \in Resps : Evidence(s)'
    <3>1. PICK s \in Resps :
            /\ resp[s].status = "approved"
            /\ resp[s].final_body # "none"
            /\ resp[s].recommendation = handler[h].rec
            /\ handler[h].rec \in Recs
      BY <2>2 DEF IInv, ChecksHold, Resolving, ResolveCommit, At
    <3>2. resp' = resp /\ rec'[handler[h].rec].status = "completed"
      BY <2>2, <3>1 DEF ResolveCommit, IInv, TypeOK, RecRow
    <3>3. Evidence(s)'
      BY <3>1, <3>2
    <3>4. QED BY <3>3
  <2>3. ASSUME NEW h \in Handlers, Step(h), ~ ticket.resolved_at
        PROVE  \E s \in Resps : Evidence(s)'
    <3>1. ResolveCommit(h) /\ ~ ticket.escalated_at
      BY <2>3, TicketChanges DEF IInv, TypeOK, TicketRow
    <3>2. QED BY <3>1, <2>2
  <2>4. ASSUME NEW r \in Recs, NEW a \in Recs, NEW action \in Actions,
               CompleteAssessment(r, a, action)
        PROVE  \E s \in Resps : Evidence(s)'
    <3>1. PICK s \in Resps : Evidence(s)
      BY <2>4 DEF ResolvedOnApproval, CompleteAssessment
    <3>2. rec'[resp[s].recommendation] = rec[resp[s].recommendation]
      BY <2>4, <3>1 DEF CompleteAssessment, IInv, TypeOK
    <3>3. QED BY <2>4, <3>1, <3>2 DEF CompleteAssessment
  <2>5. CASE UNCHANGED vars
    BY <2>5 DEF vars, ResolvedOnApproval
  <2>6. QED BY <2>1, <2>3, <2>4, <2>5 DEF Next, Step
<1>3. QED BY <1>1, <1>2, Invariance, PTL DEF Spec

\* The response or the routing that a completed recommendation rests on.
Backs(s, r) == resp[s].status = "approved" /\ resp[s].recommendation = r

Earned(r) ==
  \/ ticket.resolved_at /\ \E s \in Resps : Backs(s, r)
  \/ ticket.escalated_at /\ rec[r].action_type = "escalate"

AllEarned == \A r \in Recs : rec[r].status = "completed" => Earned(r)

\* A recommendation is completed only with the ticket's one outcome, on an
\* approved response drafted from it or by routing a proposal to escalate.
THEOREM CompletionNeedsOutcome == Spec => []CompletedByOutcome
<1>1. Init => AllEarned
  BY DEF Init, NoRec, AllEarned
<1>2. IInv /\ AllEarned /\ [Next]_vars => AllEarned'
  <2> SUFFICES ASSUME IInv, AllEarned, [Next]_vars,
                      NEW r \in Recs, rec'[r].status = "completed"
               PROVE  Earned(r)'
    BY DEF AllEarned
  <2>1. ASSUME rec'[r] = rec[r], ticket.resolved_at => ticket'.resolved_at,
               ticket.escalated_at => ticket'.escalated_at,
               \A s \in Resps : Backs(s, r) => Backs(s, r)'
        PROVE  Earned(r)'
    BY <2>1 DEF AllEarned, Earned
  <2>2. ASSUME NEW h \in Handlers, Step(h)
        PROVE  /\ ticket.resolved_at => ticket'.resolved_at
               /\ ticket.escalated_at => ticket'.escalated_at
    BY <2>2, TicketChanges DEF IInv, TypeOK, TicketRow
  <2>0. ASSUME NEW h \in Handlers, Step(h), NEW s \in Resps, Backs(s, r)
        PROVE  Backs(s, r)'
    BY <2>0, RespChanges DEF IInv, Inserted, Judged, Backs
  <2>3. ASSUME NEW h \in Handlers, DecideCommit(h)
        PROVE  rec'[r] = rec[r]
    <3>1. rec[r] \in RecRow
      BY DEF IInv, TypeOK
    <3>2. PICK decision \in {"approved", "rejected", "modified"} :
            \/ rec' = rec
            \/ \E role, action :
                 rec' = [rec EXCEPT ![handler[h].rec].status = decision,
                                    ![handler[h].rec].action_type = action,
                                    ![handler[h].rec].decided_by = role]
      BY <2>3 DEF DecideCommit
    <3>3. ASSUME NEW role, NEW action,
                 rec' = [rec EXCEPT ![handler[h].rec].status = decision,
                                    ![handler[h].rec].action_type = action,
                                    ![handler[h].rec].decided_by = role]
          PROVE  rec'[r] = rec[r]
      BY <3>1, <3>3 DEF IInv, TypeOK, RecRow
    <3>4. QED BY <3>2, <3>3
  <2>4. ASSUME NEW h \in Handlers, ResolveCommit(h)
        PROVE  Earned(r)' \/ rec'[r] = rec[r]
    <3>1. CASE rec' = rec
      BY <3>1
    <3>2. CASE ~ ticket.escalated_at /\ r = handler[h].rec
      <4>1. PICK s \in Resps : Backs(s, r)
        BY <2>4, <3>2
           DEF ResolveCommit, At, IInv, ChecksHold, Resolving, Backs
      <4>2. ticket'.resolved_at
        BY <2>4, <3>2 DEF ResolveCommit, IInv, TypeOK, TicketRow
      <4>3. Backs(s, r)'
        BY <2>4, <4>1 DEF ResolveCommit, Backs
      <4> QED BY <4>1, <4>2, <4>3 DEF Earned
    <3>3. CASE r # handler[h].rec
      BY <2>4, <3>3 DEF ResolveCommit, IInv, TypeOK
    <3> QED BY <2>4, <3>1, <3>2, <3>3 DEF ResolveCommit
  <2>5. ASSUME NEW h \in Handlers, EscalateCommit(h)
        PROVE  Earned(r)' \/ rec'[r] = rec[r]
    <3>1. \A row \in RecRow : \A role :
            \/ RoutedBy(row, role) = row
            \/ RoutedBy(row, role).action_type = "escalate"
      BY DEF RoutedBy, RecRow
    <3>2. CASE UNCHANGED rec
      BY <3>2
    <3>3. ASSUME NEW role,
                 rec' = [rec EXCEPT ![handler[h].rec] = RoutedBy(@, role)]
          PROVE  rec'[r] = rec[r] \/ rec'[r].action_type = "escalate"
      BY <3>1, <3>3 DEF IInv, TypeOK
    <3>4. rec' = rec \/ ticket'.escalated_at
      BY <2>5 DEF EscalateCommit, IInv, TypeOK, TicketRow
    <3>5. QED BY <2>5, <3>2, <3>3, <3>4 DEF EscalateCommit, Earned
  <2>6. ASSUME UNCHANGED rec
        PROVE  rec'[r] = rec[r]
    BY <2>6
  <2>7. ASSUME NEW q \in Recs, NEW a \in Recs, NEW action \in Actions,
               CompleteAssessment(q, a, action)
        PROVE  rec'[r] = rec[r] /\ UNCHANGED <<ticket, resp>>
    BY <2>7 DEF CompleteAssessment, IInv, TypeOK
  <2>8. CASE UNCHANGED vars
    BY <2>8, <2>1 DEF vars, Backs
  <2>9. ASSUME NEW h \in Handlers, Step(h)
        PROVE  Earned(r)' \/ rec'[r] = rec[r]
    BY <2>9, <2>3, <2>4, <2>5, <2>6
       DEF Step, Start, Continue, DeadlockVictim, Abort, DecideLockRec,
           GenerateCheck, DraftLockResp, ResolveLockTicket,
           EscalateLockTicket, ReadOpenTicket, DecideLockTicket,
           GenerateInsert, DraftLockTicket, EditCommit, ApproveCommit,
           RejectCommit, ResolveLockResp, ResolveLockRec, EscalateLockRec,
           UpdateCommit, AssignCommit
  <2>10. QED BY <2>0, <2>1, <2>2, <2>7, <2>8, <2>9
             DEF Next, Step, Backs
<1>3. IInv /\ AllEarned => CompletedByOutcome
  BY DEF IInv, SingleOutcome, CompletedByOutcome, AllEarned, Earned,
         Backs
<1>4. QED BY <1>1, <1>2, <1>3, Invariance, PTL DEF Spec

\* A high-impact instruction stands accepted only on the word of a manager or
\* administrator.
THEOREM HighImpactNeedsManager == Spec => []HighImpactByManager
<1> DEFINE Stands(row) == /\ row.action_type = "high_impact"
                            /\ row.status \in AcceptedStatus \cup {"completed"}
           Manager(who) == who # "none" /\ RoleAllows(who, "manager")
           Safe(row) == Stands(row) => Manager(row.decided_by)
<1>1. Init => HighImpactByManager
  BY DEF Init, HighImpactByManager, NoRec
<1>2. IInv /\ HighImpactByManager /\ [Next]_vars => HighImpactByManager'
  <2> SUFFICES ASSUME IInv, HighImpactByManager, [Next]_vars, NEW r \in Recs
               PROVE  Safe(rec'[r])
    BY DEF HighImpactByManager
  <2>1. rec[r] \in RecRow /\ Safe(rec[r])
    BY DEF IInv, TypeOK, HighImpactByManager
  <2>2. ASSUME NEW h \in Handlers, DecideCommit(h)
        PROVE  Safe(rec'[r])
    <3>1. handler[h].rec \in Recs /\ rec[handler[h].rec] \in RecRow
      BY <2>2 DEF DecideCommit, IInv, TypeOK, ChecksHold, Deciding, At
    <3>2. CASE rec'[r] = rec[r]
      BY <2>1, <3>2
    <3>3. ASSUME NEW decision \in {"approved", "rejected", "modified"},
                 NEW role \in Roles, NEW action,
                 ~ Forbidden(decision, action, role),
                 rec' = [rec EXCEPT ![handler[h].rec].status = decision,
                                    ![handler[h].rec].action_type = action,
                                    ![handler[h].rec].decided_by = role],
                 r = handler[h].rec
          PROVE  Safe(rec'[r])
      <4>1. /\ rec'[r].status = decision /\ rec'[r].action_type = action
            /\ rec'[r].decided_by = role
        BY <3>1, <3>3 DEF IInv, TypeOK, RecRow
      <4>2. role # "none"
        BY ResolutionAssumption DEF ResolutionAssumption, Role
      <4>3. QED BY <3>3, <4>1, <4>2 DEF Forbidden, AcceptedStatus
    <3>4. ASSUME NEW decision \in {"approved", "rejected", "modified"},
                 NEW role \in Roles, NEW action,
                 rec' = [rec EXCEPT ![handler[h].rec].status = decision,
                                    ![handler[h].rec].action_type = action,
                                    ![handler[h].rec].decided_by = role],
                 r # handler[h].rec
          PROVE  rec'[r] = rec[r]
      BY <3>4 DEF IInv, TypeOK
    <3>5. CASE rec' = rec
      BY <3>2, <3>5
    <3>6. \/ rec' = rec
          \/ \E decision \in {"approved", "rejected", "modified"},
                role \in Roles : \E action :
               /\ ~ Forbidden(decision, action, role)
               /\ rec' = [rec EXCEPT ![handler[h].rec].status = decision,
                                     ![handler[h].rec].action_type = action,
                                     ![handler[h].rec].decided_by = role]
      BY <2>2 DEF DecideCommit
    <3>7. QED BY <3>2, <3>3, <3>4, <3>5, <3>6
  <2>3. ASSUME NEW h \in Handlers, Step(h), ~ DecideCommit(h)
        PROVE  Safe(rec'[r])
    <3>1. CASE EscalateCommit(h)
      <4>1. ASSUME NEW role \in Roles
            PROVE  Safe(RoutedBy(rec[r], role))
        BY <2>1 DEF RoutedBy, RecRow
      <4>2. rec' = rec \/ \E role \in Roles :
                  rec' = [rec EXCEPT ![handler[h].rec] = RoutedBy(@, role)]
        BY <3>1 DEF EscalateCommit
      <4>3. rec'[r] = rec[r]
            \/ \E role \in Roles : rec'[r] = RoutedBy(rec[r], role)
        BY <4>2 DEF IInv, TypeOK
      <4>4. QED BY <2>1, <4>1, <4>3
    <3>2. CASE ResolveCommit(h)
      <4>1. \/ rec'[r] = rec[r]
            \/ /\ rec[r].status \in AcceptedStatus
               /\ rec'[r] = [rec[r] EXCEPT !.status = "completed"]
        BY <3>2 DEF ResolveCommit, IInv, TypeOK, ChecksHold, Resolving, At
      <4>2. QED BY <2>1, <4>1 DEF RecRow
    <3>3. CASE UNCHANGED rec
      BY <2>1, <3>3
    <3>4. QED
      BY <2>3, <3>1, <3>2, <3>3
         DEF Step, Start, Continue, DeadlockVictim, Abort, DecideLockRec,
             GenerateCheck, DraftLockResp, ResolveLockTicket,
             EscalateLockTicket, ReadOpenTicket, DecideLockTicket,
             GenerateInsert, DraftLockTicket, EditCommit, ApproveCommit,
             RejectCommit, ResolveLockResp, ResolveLockRec, EscalateLockRec,
             UpdateCommit, AssignCommit
  <2>4. ASSUME NEW q \in Recs, NEW a \in Recs, NEW action \in Actions,
               CompleteAssessment(q, a, action)
        PROVE  Safe(rec'[r])
    <3>1. rec'[r] = rec[r] \/ rec'[r].status = "proposed"
      BY <2>4 DEF CompleteAssessment, IInv, TypeOK
    <3>2. QED BY <2>1, <3>1 DEF AcceptedStatus
  <2>5. CASE UNCHANGED vars
    BY <2>1, <2>5 DEF vars
  <2>6. QED BY <2>2, <2>3, <2>4, <2>5 DEF Next, Step
<1>3. QED BY <1>1, <1>2, Invariance, PTL DEF Spec

---------------------------------------------------------------------------
(* Refinement *)

AbstractVars == <<Outcome, Decisions, Judgements, Bases>>

\* Every step of a handler is a step of the approval chain or changes nothing
\* of it.
LEMMA ApprovalStep ==
  ASSUME IInv, [Next]_vars
  PROVE  Approval!ApprovalNext \/ UNCHANGED AbstractVars
<1> USE DEF IInv, TypeOK
<1>1. ASSUME NEW r \in Recs, NEW a \in Recs, NEW action \in Actions,
             CompleteAssessment(r, a, action)
      PROVE  Approval!ApprovalNext
  <2>1. Decisions[r] = "absent" /\ Decisions' = [Decisions EXCEPT ![r] = "proposed"]
    BY <1>1 DEF CompleteAssessment, Decisions, Accepted, AcceptedStatus
  <2>2. UNCHANGED <<Outcome, Judgements, Bases>>
    BY <1>1 DEF CompleteAssessment, Outcome, Judgements, Bases
  <2>3. Approval!Propose(r)
    BY <2>1, <2>2 DEF Approval!Propose
  <2>4. QED BY <2>3 DEF Approval!ApprovalNext
<1>2. ASSUME NEW h \in Handlers, DecideCommit(h)
      PROVE  Approval!ApprovalNext \/ UNCHANGED AbstractVars
  <2> DEFINE r == handler[h].rec
  <2>1. r \in Recs /\ rec[r].status = "proposed"
    BY <1>2 DEF DecideCommit, ChecksHold, Deciding, At
  <2>2. UNCHANGED <<Outcome, Judgements, Bases>>
    BY <1>2 DEF DecideCommit, Outcome, Judgements, Bases
  <2>3. CASE rec' = rec
    BY <2>2, <2>3 DEF AbstractVars, Decisions
  <2>4. ASSUME NEW status \in {"approved", "rejected", "modified"},
               NEW role, NEW action,
               rec' = [rec EXCEPT ![r].status = status,
                                  ![r].action_type = action,
                                  ![r].decided_by = role]
        PROVE  Approval!ApprovalNext
    <3>1. rec'[r].status = status /\ \A q \in Recs \ {r} : rec'[q] = rec[q]
      BY <2>1, <2>4 DEF RecRow
    <3>2. Decisions[r] = "proposed"
          /\ Decisions' = [Decisions EXCEPT ![r] = Accepted(status)]
      BY <2>1, <3>1 DEF Decisions, Accepted, AcceptedStatus
    <3>3. Accepted(status) \in {"accepted", "rejected"}
      BY <2>4 DEF Accepted, AcceptedStatus
    <3>4. Approval!Decide(r)
      BY <2>2, <3>2, <3>3 DEF Approval!Decide
    <3>5. QED BY <2>1, <3>4 DEF Approval!ApprovalNext
  <2>5. QED BY <1>2, <2>3, <2>4 DEF DecideCommit
<1>3. ASSUME NEW h \in Handlers, GenerateInsert(h)
      PROVE  Approval!ApprovalNext \/ UNCHANGED AbstractVars
  <2> DEFINE r == handler[h].rec
  <2>1. r \in Recs /\ Decisions[r] \in {"accepted", "completed"}
    BY <1>3 DEF GenerateInsert, ChecksHold, Generating, At, Decisions, Accepted,
                AcceptedStatus
  <2>2. UNCHANGED <<Outcome, Decisions>>
    BY <1>3 DEF GenerateInsert, Outcome, Decisions
  <2>3. CASE resp' = resp
    BY <2>2, <2>3 DEF AbstractVars, Judgements, Bases
  <2>4. ASSUME NEW s \in Resps \ PresentResps,
               resp' = [resp EXCEPT ![s] =
                          [status |-> "draft", recommendation |-> r,
                           draft_body |-> "ai", final_body |-> "none"]]
        PROVE  Approval!ApprovalNext
    <3>1. Judgements[s] = "absent"
          /\ Judgements' = [Judgements EXCEPT ![s] = "draft"]
      BY <2>4 DEF Judgements, PresentResps
    <3>2. Bases' = [Bases EXCEPT ![s] = r]
      BY <2>4 DEF Bases
    <3>3. Approval!Draft(s, r)
      BY <2>1, <2>2, <3>1, <3>2 DEF Approval!Draft, Approval!Decided
    <3>4. QED BY <2>1, <3>3 DEF Approval!ApprovalNext
  <2>5. QED BY <1>3, <2>3, <2>4 DEF GenerateInsert
<1>4. ASSUME NEW h \in Handlers, EditCommit(h) \/ ApproveCommit(h) \/ RejectCommit(h)
      PROVE  Approval!ApprovalNext \/ UNCHANGED AbstractVars
  <2> DEFINE s == handler[h].resp
  <2>1. s \in Resps /\ resp[s].status = "draft"
    BY <1>4 DEF EditCommit, ApproveCommit, RejectCommit, ChecksHold, Drafting, At
  <2>2. UNCHANGED <<Outcome, Decisions>>
    BY <1>4 DEF EditCommit, ApproveCommit, RejectCommit, Outcome, Decisions
  <2>3. UNCHANGED Bases
    BY <1>4, <2>1 DEF EditCommit, ApproveCommit, RejectCommit, Bases, RespRow
  <2>4. CASE EditCommit(h)
    <3>1. UNCHANGED Judgements
      BY <2>1, <2>4 DEF EditCommit, Judgements, RespRow
    <3>2. QED BY <2>2, <2>3, <3>1 DEF AbstractVars
  <2>5. ASSUME NEW status \in {"approved", "rejected"},
               Judgements' = [Judgements EXCEPT ![s] = status]
        PROVE  Approval!ApprovalNext
    <3>1. Approval!Judge(s)
      BY <2>1, <2>2, <2>3, <2>5 DEF Approval!Judge, Judgements
    <3>2. QED BY <2>1, <3>1 DEF Approval!ApprovalNext
  <2>6. CASE ApproveCommit(h)
    <3>1. Judgements' = [Judgements EXCEPT ![s] = "approved"]
      BY <2>1, <2>6 DEF ApproveCommit, Judgements, RespRow
    <3>2. QED BY <2>5, <3>1
  <2>7. CASE RejectCommit(h)
    <3>1. Judgements' = [Judgements EXCEPT ![s] = "rejected"]
      BY <2>1, <2>7 DEF RejectCommit, Judgements, RespRow
    <3>2. QED BY <2>5, <3>1
  <2>8. QED BY <1>4, <2>4, <2>6, <2>7
<1>5. ASSUME NEW h \in Handlers, ResolveCommit(h)
      PROVE  Approval!ApprovalNext \/ UNCHANGED AbstractVars
  <2> DEFINE s == handler[h].resp
  <2>1. /\ s \in Resps /\ resp[s].status = "approved"
        /\ resp[s].recommendation = handler[h].rec
        /\ handler[h].rec \in Recs
        /\ rec[handler[h].rec].status \in AcceptedStatus
    BY <1>5 DEF ResolveCommit, ChecksHold, Resolving, At
  <2>2. UNCHANGED <<Judgements, Bases>>
    BY <1>5 DEF ResolveCommit, Judgements, Bases
  <2>3. CASE ticket.escalated_at
    BY <1>5, <2>2, <2>3 DEF ResolveCommit, AbstractVars, Outcome, Decisions
  <2>4. CASE ~ ticket.escalated_at
    <3>1. Outcome \in {"open", "resolved"} /\ Outcome' = "resolved"
      BY <1>5, <2>4 DEF ResolveCommit, Outcome, TicketRow
    <3>2. Bases[s] = handler[h].rec /\ Judgements[s] = "approved"
      BY <2>1 DEF Bases, Judgements
    <3>3. rec' = [rec EXCEPT ![handler[h].rec].status = "completed"]
      BY <1>5, <2>4 DEF ResolveCommit
    <3>4. Decisions[handler[h].rec] = "accepted"
          /\ Decisions' = [Decisions EXCEPT ![handler[h].rec] = "completed"]
      BY <2>1, <3>3 DEF Decisions, Accepted, AcceptedStatus, RecRow
    <3>5. Approval!Resolve(s)
      BY <2>1, <2>2, <3>1, <3>2, <3>4 DEF Approval!Resolve
    <3>6. QED BY <2>1, <3>5 DEF Approval!ApprovalNext
  <2>5. QED BY <2>3, <2>4
<1>6. ASSUME NEW h \in Handlers, EscalateCommit(h)
      PROVE  Approval!ApprovalNext \/ UNCHANGED AbstractVars
  <2> DEFINE r == handler[h].rec
  <2>1. r \in Recs
    BY <1>6 DEF EscalateCommit, ChecksHold, Escalating, PresentRecs, At
  <2>2. UNCHANGED <<Judgements, Bases>>
    BY <1>6 DEF EscalateCommit, Judgements, Bases
  <2>3. CASE ticket.resolved_at
    BY <1>6, <2>2, <2>3 DEF EscalateCommit, AbstractVars, Outcome, Decisions
  <2>4. CASE ~ ticket.resolved_at
    <3>1. Outcome \in {"open", "escalated"} /\ Outcome' = "escalated"
      BY <1>6, <2>4 DEF EscalateCommit, Outcome, TicketRow
    <3>2. PICK role : rec' = [rec EXCEPT ![r] = RoutedBy(rec[r], role)]
      BY <1>6, <2>4 DEF EscalateCommit
    <3>3. \/ RoutedBy(rec[r], role) = rec[r]
          \/ /\ Decisions[r] \in {"proposed", "accepted"}
             /\ RoutedBy(rec[r], role).status = "completed"
      BY <2>1 DEF RoutedBy, RecRow, Decisions, Accepted, AcceptedStatus
    <3>4. \/ UNCHANGED Decisions
          \/ /\ Decisions[r] \in {"proposed", "accepted"}
             /\ Decisions' = [Decisions EXCEPT ![r] = "completed"]
      BY <2>1, <3>2, <3>3 DEF Decisions, Accepted, AcceptedStatus
    <3>5. Approval!Escalate
      BY <2>1, <2>2, <3>1, <3>4 DEF Approval!Escalate
    <3>6. QED BY <3>5 DEF Approval!ApprovalNext
  <2>5. QED BY <2>3, <2>4
<1>7. ASSUME NEW h \in Handlers, UpdateCommit(h) \/ AssignCommit(h)
      PROVE  UNCHANGED AbstractVars
  BY <1>7 DEF UpdateCommit, AssignCommit, AbstractVars, Outcome, Decisions,
              Judgements, Bases, TicketRow
<1>8. CASE UNCHANGED <<ticket, rec, resp>>
  BY <1>8 DEF AbstractVars, Outcome, Decisions, Judgements, Bases
<1>9. QED
  BY <1>1, <1>2, <1>3, <1>4, <1>5, <1>6, <1>7, <1>8
     DEF Next, vars, Start, Continue, DeadlockVictim, Abort, DecideLockRec,
         GenerateCheck, DraftLockResp, ResolveLockTicket, EscalateLockTicket,
         ReadOpenTicket, DecideLockTicket, DraftLockTicket, ResolveLockResp,
         ResolveLockRec, EscalateLockRec

\* The handlers implement the approval chain.
THEOREM ApprovalChainImplemented == Spec => ApprovalChain
<1>1. Init => Approval!ApprovalInit
  BY DEF Init, Approval!ApprovalInit, Outcome, Decisions, Judgements, Bases,
         Accepted, AcceptedStatus, NoRec, NoResp
<1>2. IInv /\ [Next]_vars => [Approval!ApprovalNext]_(Approval!approvalVars)
  BY ApprovalStep DEF AbstractVars, Approval!approvalVars
<1>3. QED
  BY <1>1, <1>2, Invariance, PTL DEF Spec, ApprovalChain, Approval!ApprovalSpec

=============================================================================
