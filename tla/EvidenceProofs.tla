--------------------------- MODULE EvidenceProofs ----------------------------
(***************************************************************************)
(* Proofs about Planner and Evidence for every ticket, every result that   *)
(* the tools can give, and any knowledge, past tickets and incidents.      *)
(***************************************************************************)
EXTENDS Evidence, FiniteSetTheorems, SequenceTheorems, WellFoundedInduction,
        TLAPS

---------------------------------------------------------------------------
(* Plans *)

\* What makes a sequence the concatenation of two others.
LEMMA Joined ==
  ASSUME NEW S, NEW s \in Seq(S), NEW t \in Seq(S), NEW w \in Seq(S),
         Len(w) = Len(s) + Len(t),
         \A k \in 1..Len(s) : s[k] = w[k],
         \A k \in 1..Len(t) : t[k] = w[Len(s) + k]
  PROVE  s \o t = w
<1>1. \A k \in 1..Len(w) : (s \o t)[k] = w[k]
  <2> SUFFICES ASSUME NEW k \in 1..Len(w)
               PROVE  (s \o t)[k] = w[k]
    OBVIOUS
  <2>1. (s \o t)[k] = IF k <= Len(s) THEN s[k] ELSE t[k - Len(s)]
    BY ConcatProperties
  <2>2. CASE k <= Len(s)
    BY <2>1, <2>2
  <2>3. CASE ~(k <= Len(s))
    <3>1. k - Len(s) \in 1..Len(t) /\ Len(s) + (k - Len(s)) = k
      BY <2>3
    <3> QED BY <2>1, <2>3, <3>1
  <2> QED BY <2>2, <2>3
<1>2. s \o t \in Seq(S) /\ Len(s \o t) = Len(w)
  BY ConcatProperties
<1> QED BY <1>1, <1>2, SeqEqual

LEMMA JoinedEmpty ==
  ASSUME NEW a, NEW b, NEW c, NEW d, NEW e, NEW f
  PROVE  <<a, b, c, d, e, f>> \o <<>> = <<a, b, c, d, e, f>>
<1> DEFINE S == {a, b, c, d, e, f}
           s == <<a, b, c, d, e, f>>
<1>1. s \in Seq(S)
  OBVIOUS
<1> HIDE DEF S, s
<1>2. s \o <<>> = s
  BY <1>1, ConcatEmptySeq
<1> QED BY <1>2 DEF s

LEMMA ServicesFew ==
  ASSUME NEW t \in TicketType
  PROVE  \/ ServicesOf(t) = <<>>
         \/ \E service : ServicesOf(t) = <<service>>
         \/ ServicesOf(t) = <<"VPN", "DNS">>
BY DEF ServicesOf

\* The steps for one service, and for two.
OneService(service) ==
  << Step("search_knowledge_base", ""), Step("search_similar_tickets", ""),
     Step("get_ticket_history", ""), Step("get_system_status", service),
     Step("get_telemetry", service), Step("search_logs", service),
     Step("get_related_incident", service) >>

SixSteps(service) ==
  << Step("search_knowledge_base", ""), Step("search_similar_tickets", ""),
     Step("get_ticket_history", ""), Step("get_system_status", service),
     Step("get_telemetry", service), Step("search_logs", service) >>

NineSteps(one, two) ==
  << Step("search_knowledge_base", ""), Step("search_similar_tickets", ""),
     Step("get_ticket_history", ""), Step("get_system_status", one),
     Step("get_telemetry", one), Step("search_logs", one),
     Step("get_system_status", two), Step("get_telemetry", two),
     Step("search_logs", two) >>

TwoServices(one, two) ==
  << Step("search_knowledge_base", ""), Step("search_similar_tickets", ""),
     Step("get_ticket_history", ""), Step("get_system_status", one),
     Step("get_telemetry", one), Step("search_logs", one),
     Step("get_system_status", two), Step("get_telemetry", two),
     Step("search_logs", two), Step("get_related_incident", two) >>

LEMMA UpToThree == \A m \in 1..3 : m = 1 \/ m = 2 \/ m = 3
OBVIOUS

LEMMA UpToSix ==
  \A m \in 1..6 : m = 1 \/ m = 2 \/ m = 3 \/ m = 4 \/ m = 5 \/ m = 6
OBVIOUS

LEMMA UpToSeven ==
  \A m \in 1..7 : m = 1 \/ m = 2 \/ m = 3 \/ m = 4 \/ m = 5 \/ m = 6 \/ m = 7
OBVIOUS

LEMMA UpToNine ==
  \A m \in 1..9 : \/ m = 1 \/ m = 2 \/ m = 3 \/ m = 4 \/ m = 5
                  \/ m = 6 \/ m = 7 \/ m = 8 \/ m = 9
OBVIOUS

LEMMA UpToTen ==
  \A m \in 1..10 : \/ m = 1 \/ m = 2 \/ m = 3 \/ m = 4 \/ m = 5
                   \/ m = 6 \/ m = 7 \/ m = 8 \/ m = 9 \/ m = 10
OBVIOUS

\* The concatenations that a plan is made of.

LEMMA FirstSix ==
  ASSUME NEW service
  PROVE  BaseSteps \o ServiceSteps(service) = SixSteps(service)
<1> DEFINE S == {Step("search_knowledge_base", ""),
                 Step("search_similar_tickets", ""),
                 Step("get_ticket_history", ""),
                 Step("get_system_status", service),
                 Step("get_telemetry", service),
                 Step("search_logs", service)}
           s == BaseSteps
           t == ServiceSteps(service)
           w == SixSteps(service)
<1>1. s \in Seq(S) /\ t \in Seq(S) /\ w \in Seq(S)
  BY DEF BaseSteps, ServiceSteps, SixSteps
<1>2. Len(s) = 3 /\ Len(t) = 3 /\ Len(w) = 6
  BY DEF BaseSteps, ServiceSteps, SixSteps
<1>3. /\ s[1] = w[1] /\ s[2] = w[2] /\ s[3] = w[3]
  BY DEF BaseSteps, ServiceSteps, SixSteps
<1>4. /\ t[1] = w[4] /\ t[2] = w[5] /\ t[3] = w[6]
  BY DEF BaseSteps, ServiceSteps, SixSteps
<1> HIDE DEF S, s, t, w
<1>5. Len(w) = Len(s) + Len(t)
  BY <1>2
<1>6. \A k \in 1..Len(s) : s[k] = w[k]
  BY <1>2, <1>3, UpToThree
<1>7. \A k \in 1..Len(t) : t[k] = w[Len(s) + k]
  BY <1>2, <1>4, UpToThree
<1>8. s \o t = w
  BY <1>1, <1>5, <1>6, <1>7, Joined
<1> QED BY <1>8 DEF s, t, w

LEMMA AllSeven ==
  ASSUME NEW service
  PROVE  SixSteps(service) \o <<Step("get_related_incident", service)>> = OneService(service)
<1> DEFINE S == {Step("search_knowledge_base", ""),
                 Step("search_similar_tickets", ""),
                 Step("get_ticket_history", ""),
                 Step("get_system_status", service),
                 Step("get_telemetry", service),
                 Step("search_logs", service),
                 Step("get_related_incident", service)}
           s == SixSteps(service)
           t == <<Step("get_related_incident", service)>>
           w == OneService(service)
<1>1. s \in Seq(S) /\ t \in Seq(S) /\ w \in Seq(S)
  BY DEF SixSteps, OneService
<1>2. Len(s) = 6 /\ Len(t) = 1 /\ Len(w) = 7
  BY DEF SixSteps, OneService
<1>3. /\ s[1] = w[1] /\ s[2] = w[2] /\ s[3] = w[3] /\ s[4] = w[4]
      /\ s[5] = w[5] /\ s[6] = w[6]
  BY DEF SixSteps, OneService
<1>4. /\ t[1] = w[7]
  BY DEF SixSteps, OneService
<1> HIDE DEF S, s, t, w
<1>5. Len(w) = Len(s) + Len(t)
  BY <1>2
<1>6. \A k \in 1..Len(s) : s[k] = w[k]
  BY <1>2, <1>3, UpToSix
<1>7. \A k \in 1..Len(t) : t[k] = w[Len(s) + k]
  BY <1>2, <1>4
<1>8. s \o t = w
  BY <1>1, <1>5, <1>6, <1>7, Joined
<1> QED BY <1>8 DEF s, t, w

LEMMA FirstNine ==
  ASSUME NEW one, NEW two
  PROVE  SixSteps(one) \o ServiceSteps(two) = NineSteps(one, two)
<1> DEFINE S == {Step("search_knowledge_base", ""),
                 Step("search_similar_tickets", ""),
                 Step("get_ticket_history", ""),
                 Step("get_system_status", one),
                 Step("get_telemetry", one),
                 Step("search_logs", one),
                 Step("get_system_status", two),
                 Step("get_telemetry", two),
                 Step("search_logs", two)}
           s == SixSteps(one)
           t == ServiceSteps(two)
           w == NineSteps(one, two)
<1>1. s \in Seq(S) /\ t \in Seq(S) /\ w \in Seq(S)
  BY DEF SixSteps, ServiceSteps, NineSteps
<1>2. Len(s) = 6 /\ Len(t) = 3 /\ Len(w) = 9
  BY DEF SixSteps, ServiceSteps, NineSteps
<1>3. /\ s[1] = w[1] /\ s[2] = w[2] /\ s[3] = w[3] /\ s[4] = w[4]
      /\ s[5] = w[5] /\ s[6] = w[6]
  BY DEF SixSteps, ServiceSteps, NineSteps
<1>4. /\ t[1] = w[7] /\ t[2] = w[8] /\ t[3] = w[9]
  BY DEF SixSteps, ServiceSteps, NineSteps
<1> HIDE DEF S, s, t, w
<1>5. Len(w) = Len(s) + Len(t)
  BY <1>2
<1>6. \A k \in 1..Len(s) : s[k] = w[k]
  BY <1>2, <1>3, UpToSix
<1>7. \A k \in 1..Len(t) : t[k] = w[Len(s) + k]
  BY <1>2, <1>4, UpToThree
<1>8. s \o t = w
  BY <1>1, <1>5, <1>6, <1>7, Joined
<1> QED BY <1>8 DEF s, t, w

LEMMA AllTen ==
  ASSUME NEW one, NEW two
  PROVE  NineSteps(one, two) \o <<Step("get_related_incident", two)>> = TwoServices(one, two)
<1> DEFINE S == {Step("search_knowledge_base", ""),
                 Step("search_similar_tickets", ""),
                 Step("get_ticket_history", ""),
                 Step("get_system_status", one),
                 Step("get_telemetry", one),
                 Step("search_logs", one),
                 Step("get_system_status", two),
                 Step("get_telemetry", two),
                 Step("search_logs", two),
                 Step("get_related_incident", two)}
           s == NineSteps(one, two)
           t == <<Step("get_related_incident", two)>>
           w == TwoServices(one, two)
<1>1. s \in Seq(S) /\ t \in Seq(S) /\ w \in Seq(S)
  BY DEF NineSteps, TwoServices
<1>2. Len(s) = 9 /\ Len(t) = 1 /\ Len(w) = 10
  BY DEF NineSteps, TwoServices
<1>3. /\ s[1] = w[1] /\ s[2] = w[2] /\ s[3] = w[3] /\ s[4] = w[4]
      /\ s[5] = w[5] /\ s[6] = w[6] /\ s[7] = w[7] /\ s[8] = w[8]
      /\ s[9] = w[9]
  BY DEF NineSteps, TwoServices
<1>4. /\ t[1] = w[10]
  BY DEF NineSteps, TwoServices
<1> HIDE DEF S, s, t, w
<1>5. Len(w) = Len(s) + Len(t)
  BY <1>2
<1>6. \A k \in 1..Len(s) : s[k] = w[k]
  BY <1>2, <1>3, UpToNine
<1>7. \A k \in 1..Len(t) : t[k] = w[Len(s) + k]
  BY <1>2, <1>4
<1>8. s \o t = w
  BY <1>1, <1>5, <1>6, <1>7, Joined
<1> QED BY <1>8 DEF s, t, w

\* A plan is the three base steps, or theirs with one service's or with two.
LEMMA WantedSteps ==
  ASSUME NEW t \in TicketType
  PROVE  \/ Wanted(t) = BaseSteps
         \/ \E service : Wanted(t) = OneService(service)
         \/ /\ Wanted(t) = TwoServices("VPN", "DNS")
            /\ Len(ServicesOf(t)) = 2
<1>1. CASE ServicesOf(t) = <<>>
  BY <1>1 DEF Wanted
<1>2. CASE \E service : ServicesOf(t) = <<service>>
  <2>1. PICK service : ServicesOf(t) = <<service>>
    BY <1>2
  <2>2. /\ ServicesOf(t)[1] = service
        /\ Len(ServicesOf(t)) = 1
        /\ ServicesOf(t) # <<>>
    BY <2>1
  <2>3. IncidentStep(ServicesOf(t)) = <<Step("get_related_incident", service)>>
    BY <2>2 DEF IncidentStep
  <2>4. BaseSteps \o ServiceSteps(service) = SixSteps(service)
    BY FirstSix
  <2>5. SixSteps(service) \o <<>> = SixSteps(service)
    BY JoinedEmpty DEF SixSteps
  <2>6. SixSteps(service) \o <<Step("get_related_incident", service)>>
        = OneService(service)
    BY AllSeven
  <2>7. Wanted(t) = BaseSteps \/ Wanted(t) = OneService(service)
    BY <2>2, <2>3, <2>4, <2>5, <2>6 DEF Wanted
  <2> QED BY <2>7
<1>3. CASE ServicesOf(t) = <<"VPN", "DNS">>
  <2>1. /\ ServicesOf(t)[1] = "VPN"
        /\ ServicesOf(t)[2] = "DNS"
        /\ Len(ServicesOf(t)) = 2
        /\ ServicesOf(t) # <<>>
    BY <1>3
  <2>2. IncidentStep(ServicesOf(t)) = <<Step("get_related_incident", "DNS")>>
    BY <2>1 DEF IncidentStep
  <2>3. BaseSteps \o ServiceSteps("VPN") = SixSteps("VPN")
    BY FirstSix
  <2>4. SixSteps("VPN") \o ServiceSteps("DNS") = NineSteps("VPN", "DNS")
    BY FirstNine
  <2>5. NineSteps("VPN", "DNS") \o <<Step("get_related_incident", "DNS")>>
        = TwoServices("VPN", "DNS")
    BY AllTen
  <2> QED BY <2>1, <2>2, <2>3, <2>4, <2>5 DEF Wanted
<1> QED BY <1>1, <1>2, <1>3, ServicesFew

\* The cap takes nothing from the plan of any ticket.
THEOREM PlanNeverCut ==
  ASSUME NEW t \in TicketType, MaxTools >= 10
  PROVE  Plan(t) = Wanted(t)
<1>1. Len(BaseSteps) = 3
  BY DEF BaseSteps
<1>2. ASSUME NEW service
      PROVE  Len(OneService(service)) = 7
  BY DEF OneService
<1>3. Len(TwoServices("VPN", "DNS")) = 10
  BY DEF TwoServices
<1>4. Len(Wanted(t)) \in {3, 7, 10}
  <2>1. CASE Wanted(t) = BaseSteps
    BY <1>1, <2>1
  <2>2. CASE \E service : Wanted(t) = OneService(service)
    BY <1>2, <2>2
  <2>3. CASE Wanted(t) = TwoServices("VPN", "DNS")
    BY <1>3, <2>3
  <2> QED BY <2>1, <2>2, <2>3, WantedSteps
<1>5. Len(Wanted(t)) <= MaxTools
  <2>1. MaxTools \in Nat
    BY EvidenceAssumption
  <2>2. ASSUME NEW n \in {3, 7, 10}
        PROVE  n <= MaxTools
    BY <2>1
  <2> QED BY <1>4, <2>2
<1> QED BY <1>5 DEF Plan

LEMMA DomainThree ==
  ASSUME NEW a, NEW b, NEW c
  PROVE  DOMAIN <<a, b, c>> = 1..3
OBVIOUS

LEMMA DomainSeven ==
  ASSUME NEW a, NEW b, NEW c, NEW d, NEW e, NEW f, NEW g
  PROVE  DOMAIN <<a, b, c, d, e, f, g>> = 1..7
OBVIOUS

LEMMA DomainTen ==
  ASSUME NEW a, NEW b, NEW c, NEW d, NEW e,
         NEW f, NEW g, NEW h, NEW i, NEW j
  PROVE  DOMAIN <<a, b, c, d, e, f, g, h, i, j>> = 1..10
OBVIOUS

\* The steps of each kind of plan are told apart by their tools, and those
\* of the two services by the service.
LEMMA BaseDiffer ==
  ASSUME NEW m \in DOMAIN BaseSteps, NEW n \in DOMAIN BaseSteps,
         BaseSteps[m] = BaseSteps[n]
  PROVE  m = n
<1> DEFINE w == BaseSteps
<1>1. DOMAIN w = 1..3
  BY DomainThree DEF BaseSteps
<1>2. /\ w[1].tool = "search_knowledge_base"
      /\ w[2].tool = "search_similar_tickets"
      /\ w[3].tool = "get_ticket_history"
  BY DEF BaseSteps, Step
<1>3. w[m].tool = w[n].tool /\ m \in DOMAIN w /\ n \in DOMAIN w
  OBVIOUS
<1> HIDE DEF w
<1> QED BY <1>1, <1>2, <1>3, UpToThree

LEMMA OneDiffer ==
  ASSUME NEW service,
         NEW m \in DOMAIN OneService(service), NEW n \in DOMAIN OneService(service),
         OneService(service)[m] = OneService(service)[n]
  PROVE  m = n
<1> DEFINE w == OneService(service)
<1>1. DOMAIN w = 1..7
  BY DomainSeven DEF OneService
<1>2. /\ w[1].tool = "search_knowledge_base"
      /\ w[2].tool = "search_similar_tickets"
      /\ w[3].tool = "get_ticket_history"
      /\ w[4].tool = "get_system_status"
      /\ w[5].tool = "get_telemetry"
      /\ w[6].tool = "search_logs"
      /\ w[7].tool = "get_related_incident"
  BY DEF OneService, Step
<1>3. w[m].tool = w[n].tool /\ m \in DOMAIN w /\ n \in DOMAIN w
  OBVIOUS
<1> HIDE DEF w
<1> QED BY <1>1, <1>2, <1>3, UpToSeven

LEMMA TwoDiffer ==
  ASSUME NEW m \in DOMAIN TwoServices("VPN", "DNS"),
         NEW n \in DOMAIN TwoServices("VPN", "DNS"),
         TwoServices("VPN", "DNS")[m] = TwoServices("VPN", "DNS")[n]
  PROVE  m = n
<1> DEFINE w == TwoServices("VPN", "DNS")
<1>1. DOMAIN w = 1..10
  BY DomainTen DEF TwoServices
<1>2. /\ w[1].tool = "search_knowledge_base"
      /\ w[2].tool = "search_similar_tickets"
      /\ w[3].tool = "get_ticket_history"
      /\ w[4].tool = "get_system_status" /\ w[4].service = "VPN"
      /\ w[5].tool = "get_telemetry" /\ w[5].service = "VPN"
      /\ w[6].tool = "search_logs" /\ w[6].service = "VPN"
      /\ w[7].tool = "get_system_status" /\ w[7].service = "DNS"
      /\ w[8].tool = "get_telemetry" /\ w[8].service = "DNS"
      /\ w[9].tool = "search_logs" /\ w[9].service = "DNS"
      /\ w[10].tool = "get_related_incident"
  BY DEF TwoServices, Step
<1>3. /\ w[m].tool = w[n].tool /\ w[m].service = w[n].service
      /\ m \in DOMAIN w /\ n \in DOMAIN w
  OBVIOUS
<1> HIDE DEF w
<1> QED BY <1>1, <1>2, <1>3, UpToTen

LEMMA StepsDiffer ==
  ASSUME NEW t \in TicketType, NEW m \in DOMAIN Wanted(t),
         NEW n \in DOMAIN Wanted(t), Wanted(t)[m] = Wanted(t)[n]
  PROVE  m = n
<1>1. CASE Wanted(t) = BaseSteps
  BY <1>1, BaseDiffer
<1>2. CASE \E service : Wanted(t) = OneService(service)
  BY <1>2, OneDiffer
<1>3. CASE Wanted(t) = TwoServices("VPN", "DNS")
  BY <1>3, TwoDiffer
<1> QED BY <1>1, <1>2, <1>3, WantedSteps

---------------------------------------------------------------------------
(* Confidence *)

LEMMA ConfidenceAgrees ==
  ASSUME NEW e, NEW s, Score(e, s) >= 68
  PROVE  /\ Agreeing(e, s) >= 3
         /\ Healthy(e, s) # {} => Degraded(e, s) # {}
<1> DEFINE D == Degraded(e, s)
           A == Anomalies(e, s)
<1>1. D # {} => A # {}
  BY DEF Anomalies
<1> HIDE DEF D, A
<1> QED BY <1>1 DEF Score, Agreeing, Weight, D, A

LEMMA ScoreBounds ==
  ASSUME NEW e, NEW s
  PROVE  Score(e, s) \in 13..91
BY DEF Score, Agreeing, Weight
---------------------------------------------------------------------------
(* The ticket *)

TicketKept == ticket \in Tickets

LEMMA TicketStays == Spec => []TicketKept
<1>1. Init => TicketKept
  BY DEF Init, TicketKept
<1>2. TicketKept /\ [Next]_vars => TicketKept'
  BY DEF TicketKept, Next, vars, RequestInvestigation, StartInvestigation,
         CallTool, CompleteInvestigation, FailInvestigation,
         RequestAssessment, StartAssessment, Infer, InvalidAnswer,
         FailAssessment
<1> QED BY <1>1, <1>2, PTL DEF Spec

\* Whatever the ticket, with a cap of ten or more: its plan is never cut, no
\* step is wanted twice, and so the deduplication has nothing to do.
THEOREM PlansComplete ==
  ASSUME MaxTools >= 10
  PROVE  Spec => []PlanComplete
<1>1. TicketKept => PlanComplete
  <2> SUFFICES ASSUME TicketKept
               PROVE  PlanComplete
    OBVIOUS
  <2>1. ticket \in TicketType
    BY EvidenceAssumption DEF TicketKept
  <2>2. Plan(ticket) = Wanted(ticket)
    BY <2>1, PlanNeverCut
  <2>3. \A m, n \in DOMAIN Wanted(ticket) :
           Wanted(ticket)[m] = Wanted(ticket)[n] => m = n
    BY <2>1, StepsDiffer
  <2> QED BY <2>2, <2>3 DEF PlanComplete
<1> QED BY <1>1, TicketStays, PTL

---------------------------------------------------------------------------
(* Escalation *)

\* An assessment's fields, of whatever values.
Whole ==
  assessment =
    [status |-> assessment.status, hosted |-> assessment.hosted,
     repairing |-> assessment.repairing, evidence |-> assessment.evidence,
     limitations |-> assessment.limitations,
     candidate |-> assessment.candidate, score |-> assessment.score,
     escalates |-> assessment.escalates, action |-> assessment.action,
     code |-> assessment.code]

\* The inductive invariant: the flag is the comparison with the threshold.
Judgement ==
  /\ Whole
  /\ assessment.status # "completed" =>
       assessment.escalates = TRUE /\ assessment.action = "none"
  /\ assessment.status = "completed" =>
       /\ assessment.escalates \in BOOLEAN
       /\ ~assessment.escalates =>
            Score(assessment.evidence, assessment.candidate) >= Threshold
       /\ assessment.escalates =>
            assessment.action \in {"escalate", "high_impact"}

LEMMA Actions ==
  ASSUME NEW instructions \in Instructions
  PROVE  Action(instructions, TRUE) \in {"escalate", "high_impact"}
BY DEF Action, Instructions

LEMMA NoneJudged ==
  ASSUME assessment = NoAssessment
  PROVE  Judgement
BY DEF Judgement, Whole, NoAssessment

LEMMA StopJudged ==
  ASSUME NEW status, NEW code, Stop(status, code), status # "completed"
  PROVE  Judgement'
BY DEF Judgement, Whole, Stop, NoAssessment

LEMMA InferJudged ==
  ASSUME Judgement, Infer
  PROVE  Judgement'
<1>1. PICK service \in Candidates(Evidence), instructions \in Instructions :
        assessment' = [assessment EXCEPT
          !.status = "completed",
          !.repairing = FALSE,
          !.evidence = Evidence,
          !.limitations = Limitations(investigation.steps),
          !.candidate = service,
          !.score = Score(Evidence, service),
          !.escalates = (Score(Evidence, service) < Threshold),
          !.action = Action(instructions, Score(Evidence, service) < Threshold)]
  BY DEF Infer
<1> DEFINE low == Score(Evidence, service) < Threshold
<1>2. Score(Evidence, service) \in Int /\ Threshold \in Int
  BY ScoreBounds, EvidenceAssumption
<1>3. low => Action(instructions, low) \in {"escalate", "high_impact"}
  <2> SUFFICES ASSUME low
               PROVE  Action(instructions, low) \in {"escalate", "high_impact"}
    OBVIOUS
  <2>1. low = TRUE
    OBVIOUS
  <2> HIDE DEF low
  <2> QED BY <2>1, Actions
<1>4. ~low => Score(Evidence, service) >= Threshold
  BY <1>2
<1>5. low \in BOOLEAN
  OBVIOUS
<1>6. assessment' = [assessment EXCEPT
          !.status = "completed",
          !.repairing = FALSE,
          !.evidence = Evidence,
          !.limitations = Limitations(investigation.steps),
          !.candidate = service,
          !.score = Score(Evidence, service),
          !.escalates = low,
          !.action = Action(instructions, low)]
  BY <1>1
<1> HIDE DEF low
<1>7. /\ Whole'
      /\ assessment'.status = "completed"
      /\ assessment'.evidence = Evidence
      /\ assessment'.candidate = service
      /\ assessment'.escalates = low
      /\ assessment'.action = Action(instructions, low)
  BY <1>6 DEF Judgement, Whole
<1> QED BY <1>3, <1>4, <1>5, <1>7 DEF Judgement

LEMMA StepsJudged ==
  ASSUME Judgement, [Next]_vars
  PROVE  Judgement'
<1>1. ASSUME UNCHANGED assessment
      PROVE  Judgement'
  BY <1>1 DEF Judgement, Whole
<1>2. CASE UNCHANGED vars
  BY <1>1, <1>2 DEF vars
<1>3. CASE RequestInvestigation
  BY <1>3 DEF RequestInvestigation, Judgement, Whole, NoAssessment
<1>4. CASE \/ StartInvestigation \/ CallTool \/ CompleteInvestigation
           \/ FailInvestigation
  BY <1>1, <1>4 DEF StartInvestigation, CallTool, CompleteInvestigation,
                    FailInvestigation
<1>5. CASE RequestAssessment
  BY <1>5 DEF RequestAssessment, Judgement, Whole, NoAssessment
<1>6. CASE StartAssessment
  <2>1. CASE Stop("failed", "provider_configuration")
    BY <2>1, StopJudged
  <2>2. CASE /\ assessment.status = "queued"
             /\ assessment' = [assessment EXCEPT !.status = "running"]
    BY <2>2 DEF Judgement, Whole
  <2> QED BY <1>6, <2>1, <2>2 DEF StartAssessment
<1>7. CASE Infer
  BY <1>7, InferJudged
<1>8. CASE InvalidAnswer
  <2>1. CASE Stop("failed", "invalid_provider_response")
    BY <2>1, StopJudged
  <2>2. CASE /\ assessment.status = "running"
             /\ assessment' = [assessment EXCEPT !.repairing = TRUE]
    BY <2>2 DEF Judgement, Whole
  <2> QED BY <1>8, <2>1, <2>2 DEF InvalidAnswer
<1>9. CASE FailAssessment
  BY <1>9, StopJudged DEF FailAssessment
<1> QED BY <1>2, <1>3, <1>4, <1>5, <1>6, <1>7, <1>8, <1>9 DEF Next

LEMMA AlwaysJudged == Spec => []Judgement
<1>1. Init => Judgement
  BY NoneJudged DEF Init
<1>2. Judgement /\ [Next]_vars => Judgement'
  BY StepsJudged
<1> QED BY <1>1, <1>2, PTL DEF Spec

\* For any evidence that the tools give and any service that a provider
\* names: with a threshold of 68 or more, three kinds of operational evidence
\* must agree before a case is not escalated.
THEOREM AlwaysEscalatedUnlessAgreed ==
  ASSUME Threshold >= 68
  PROVE  Spec => []EscalatedUnlessAgreed
<1>1. Judgement => EscalatedUnlessAgreed
  <2> SUFFICES ASSUME Judgement
               PROVE  EscalatedUnlessAgreed
    OBVIOUS
  <2> DEFINE e == assessment.evidence
             s == assessment.candidate
  <2>1. ASSUME ~assessment.escalates
        PROVE  /\ assessment.status = "completed"
               /\ Agreeing(e, s) >= 3
               /\ Healthy(e, s) # {} => Degraded(e, s) # {}
    <3>1. /\ assessment.status = "completed"
          /\ Score(e, s) >= Threshold
      BY <2>1 DEF Judgement
    <3>2. Score(e, s) \in Int /\ Threshold \in Int
      BY ScoreBounds, EvidenceAssumption
    <3>3. Score(e, s) >= 68
      BY <3>1, <3>2
    <3> QED BY <3>1, <3>3, ConfidenceAgrees
  <2>2. assessment.status = "completed" /\ assessment.escalates =>
          assessment.action \in {"escalate", "high_impact"}
    BY DEF Judgement
  <2>3. assessment.status # "completed" => assessment.action = "none"
    BY DEF Judgement
  <2> QED BY <2>1, <2>2, <2>3 DEF EscalatedUnlessAgreed
<1> QED BY <1>1, AlwaysJudged, PTL
---------------------------------------------------------------------------
(* What the tools give *)

Tools == {"search_knowledge_base", "search_similar_tickets",
          "get_ticket_history", "get_system_status", "get_telemetry",
          "search_logs", "get_related_incident"}

Planned(x) == \E tool \in Tools : \E service : x = Step(tool, service)

LEMMA AnyPlanned ==
  ASSUME NEW tool \in Tools, NEW service
  PROVE  Planned(Step(tool, service))
BY DEF Planned

LEMMA PlannedSteps ==
  ASSUME NEW t \in TicketType, NEW n \in DOMAIN Wanted(t)
  PROVE  Planned(Wanted(t)[n])
<1>1. CASE Wanted(t) = BaseSteps
  <2> DEFINE w == BaseSteps
  <2>1. /\ Planned(w[1]) /\ Planned(w[2]) /\ Planned(w[3])
    BY AnyPlanned DEF BaseSteps, Tools
  <2>2. DOMAIN w = 1..3
    BY DomainThree DEF BaseSteps
  <2>3. w = Wanted(t)
    BY <1>1
  <2> HIDE DEF w
  <2> QED BY <2>1, <2>2, <2>3, UpToThree
<1>2. CASE \E service : Wanted(t) = OneService(service)
  <2> PICK service : Wanted(t) = OneService(service)
    BY <1>2
  <2> DEFINE w == OneService(service)
  <2>1. /\ Planned(w[1]) /\ Planned(w[2]) /\ Planned(w[3])
        /\ Planned(w[4]) /\ Planned(w[5]) /\ Planned(w[6])
        /\ Planned(w[7])
    BY AnyPlanned DEF OneService, Tools
  <2>2. DOMAIN w = 1..7
    BY DomainSeven DEF OneService
  <2>3. w = Wanted(t)
    OBVIOUS
  <2> HIDE DEF w
  <2> QED BY <2>1, <2>2, <2>3, UpToSeven
<1>3. CASE Wanted(t) = TwoServices("VPN", "DNS")
  <2> DEFINE w == TwoServices("VPN", "DNS")
  <2>1. /\ Planned(w[1]) /\ Planned(w[2]) /\ Planned(w[3])
        /\ Planned(w[4]) /\ Planned(w[5]) /\ Planned(w[6])
        /\ Planned(w[7]) /\ Planned(w[8]) /\ Planned(w[9])
        /\ Planned(w[10])
    BY AnyPlanned DEF TwoServices, Tools
  <2>2. DOMAIN w = 1..10
    BY DomainTen DEF TwoServices
  <2>3. w = Wanted(t)
    BY <1>3
  <2> HIDE DEF w
  <2> QED BY <2>1, <2>2, <2>3, UpToTen
<1> QED BY <1>1, <1>2, <1>3, WantedSteps

\* Items of one result: of some kind, no facts of the ticket, each with a
\* source of its own.
Separate(items) ==
  /\ \A e \in items : ItemType(e) /\ e.source[1] # "ticket_fact"
  /\ \A e, f \in items : e.source = f.source => e = f

\* Where the items of one kind stand when all are counted, each with the
\* room that its cap allows; one reading has one place.
Place(e) ==
  CASE e.kind = "ticket_fact"     -> 0
    [] e.kind = "knowledge_chunk" -> 1
    [] e.kind = "similar_ticket"  -> 6
    [] e.kind = "ticket_history"  -> 11
    [] e.kind = "system_status"   -> 21
    [] e.kind = "telemetry"       -> IF e.source[3] \in {"other", "rest"}
                                       THEN 22 ELSE 21
    [] e.kind = "log"             -> 30
    [] e.kind = "incident"        -> 38

\* The places that a tool fills.
Places(tool) ==
  CASE tool = "search_knowledge_base"  -> {1}
    [] tool = "search_similar_tickets" -> {6}
    [] tool = "get_ticket_history"     -> {11}
    [] tool = "get_system_status"      -> {21}
    [] tool = "get_telemetry"          -> {21, 22}
    [] tool = "search_logs"            -> {30}
    [] tool = "get_related_incident"   -> {38}

\* A result has one item for each of them; a nearest reading is the one of
\* the service.
Placed(items, step) ==
  /\ \A e \in items :
       /\ Place(e) \in Places(step.tool)
       /\ Place(e) = 21 => e.source = <<"reading", step.service, "nearest">>
  /\ \A e, f \in items : Place(e) = Place(f) => e = f

Proper(result, step) ==
  /\ result.tool = step.tool /\ result.service = step.service
  /\ Separate(result.items)
  /\ Placed(result.items, step)

LEMMA OneSeparate ==
  ASSUME NEW items, \A e \in items : ItemType(e) /\ e.source[1] # "ticket_fact",
         NEW found \in AtMostOne(items)
  PROVE  Separate(found)
BY DEF AtMostOne, Separate

LEMMA ItemsSeparate ==
  ASSUME NEW kind \in {"ticket_history", "log", "incident"}, NEW service
  PROVE  LET e == Item(kind, service, "", "")
         IN  ItemType(e) /\ e.source[1] # "ticket_fact"
BY DEF Item, ItemType

LEMMA ReadingsSeparate ==
  ASSUME NEW kind \in {"system_status", "telemetry"}, NEW service,
         NEW which, NEW note
  PROVE  LET e == Reading(kind, service, which, note)
         IN  /\ ItemType(e)
             /\ e.source = <<"reading", service, which>>
             /\ e.source[1] # "ticket_fact"
BY DEF Reading, Item, ItemType

LEMMA SearchesSeparate ==
  /\ \A found \in AtMostOne(Guides) : Separate(found)
  /\ \A found \in AtMostOne(Past) : Separate(found)
<1>1. /\ \A e \in Guides : ItemType(e) /\ e.source[1] # "ticket_fact"
      /\ \A e \in Past : ItemType(e) /\ e.source[1] # "ticket_fact"
  BY EvidenceAssumption DEF ItemType
<1> QED BY <1>1, OneSeparate

LEMMA ListingsSeparate ==
  ASSUME NEW s
  PROVE  /\ Separate({Item("ticket_history", "", "", "")})
         /\ \A found \in AtMostOne({Item("log", s, "", "")}) : Separate(found)
         /\ \A found \in AtMostOne({Item("incident", other, "", "") :
                                      other \in {s} \cup Others}) :
              Separate(found)
<1>1. Separate({Item("ticket_history", "", "", "")})
  BY ItemsSeparate DEF Separate
<1>2. \A e \in {Item("log", s, "", "")} :
        ItemType(e) /\ e.source[1] # "ticket_fact"
  BY ItemsSeparate
<1>3. \A e \in {Item("incident", other, "", "") : other \in {s} \cup Others} :
        ItemType(e) /\ e.source[1] # "ticket_fact"
  BY ItemsSeparate
<1> QED BY <1>1, <1>2, <1>3, OneSeparate

LEMMA ReadingSetsSeparate ==
  ASSUME NEW s
  PROVE  /\ \A found \in Statuses(s) : Separate(found)
         /\ \A found \in Telemetry(s) : Separate(found)
<1>1. ASSUME NEW found \in Statuses(s)
      PROVE  Separate(found)
  BY <1>1, ReadingsSeparate DEF Statuses, Separate
<1>2. ASSUME NEW found \in Telemetry(s)
      PROVE  Separate(found)
  <2> DEFINE near == Reading("telemetry", s, "nearest", "")
             far  == Reading("telemetry", s, "other", "")
             rest == Reading("telemetry", s, "rest", "")
  <2>1. found \in {{}, {near}, {near, rest}, {far}}
    BY DEF Telemetry
  <2>2. /\ ItemType(near) /\ near.source[1] # "ticket_fact"
        /\ ItemType(far) /\ far.source[1] # "ticket_fact"
        /\ near.source = <<"reading", s, "nearest">>
        /\ ItemType(rest) /\ rest.source[1] # "ticket_fact"
        /\ rest.source = <<"reading", s, "rest">>
    BY ReadingsSeparate
  <2>3. <<"reading", s, "nearest">> # <<"reading", s, "rest">>
    OBVIOUS
  <2>4. near.source # rest.source
    BY <2>2, <2>3, Zenon
  <2> HIDE DEF near, far, rest
  <2> QED BY <2>1, <2>2, <2>4 DEF Separate
<1> QED BY <1>1, <1>2

LEMMA OnePlaced ==
  ASSUME NEW items, NEW place \in Nat \ {21}, NEW step,
         Places(step.tool) = {place}, \A e \in items : Place(e) = place,
         NEW found \in AtMostOne(items)
  PROVE  Placed(found, step)
BY DEF AtMostOne, Placed

LEMMA ItemPlaces ==
  ASSUME NEW service
  PROVE  /\ Place(Item("ticket_history", service, "", "")) = 11
         /\ Place(Item("log", service, "", "")) = 30
         /\ Place(Item("incident", service, "", "")) = 38
<1>1. ASSUME NEW e, e.kind = "ticket_history"
      PROVE  Place(e) = 11
  BY <1>1 DEF Place
<1>2. ASSUME NEW e, e.kind = "log"
      PROVE  Place(e) = 30
  BY <1>2 DEF Place
<1>3. ASSUME NEW e, e.kind = "incident"
      PROVE  Place(e) = 38
  BY <1>3 DEF Place
<1>4. /\ Item("ticket_history", service, "", "").kind = "ticket_history"
      /\ Item("log", service, "", "").kind = "log"
      /\ Item("incident", service, "", "").kind = "incident"
  BY DEF Item
<1> QED BY <1>1, <1>2, <1>3, <1>4

LEMMA ReadingPlaces ==
  ASSUME NEW service, NEW note
  PROVE  /\ Place(Reading("system_status", service, "nearest", note)) = 21
         /\ Place(Reading("telemetry", service, "nearest", note)) = 21
         /\ Place(Reading("telemetry", service, "other", note)) = 22
         /\ Place(Reading("telemetry", service, "rest", note)) = 22
<1>1. ASSUME NEW e, e.kind = "system_status"
      PROVE  Place(e) = 21
  BY <1>1 DEF Place
<1>2. ASSUME NEW e, e.kind = "telemetry"
      PROVE  Place(e) = IF e.source[3] \in {"other", "rest"}
                                       THEN 22 ELSE 21
  BY <1>2 DEF Place
<1>3. ASSUME NEW kind, NEW which
      PROVE  LET e == Reading(kind, service, which, note)
             IN  e.kind = kind /\ e.source[3] = which
  BY DEF Reading, Item
<1> QED BY <1>1, <1>2, <1>3

LEMMA SearchesPlaced ==
  ASSUME NEW step
  PROVE  /\ step.tool = "search_knowledge_base" =>
              \A found \in AtMostOne(Guides) : Placed(found, step)
         /\ step.tool = "search_similar_tickets" =>
              \A found \in AtMostOne(Past) : Placed(found, step)
<1>1. ASSUME NEW e, e.kind = "knowledge_chunk"
      PROVE  Place(e) = 1
  BY <1>1 DEF Place
<1>2. ASSUME NEW e, e.kind = "similar_ticket"
      PROVE  Place(e) = 6
  BY <1>2 DEF Place
<1>3. /\ \A e \in Guides : Place(e) = 1
      /\ \A e \in Past : Place(e) = 6
  BY <1>1, <1>2, EvidenceAssumption
<1>4. /\ Places("search_knowledge_base") = {1}
      /\ Places("search_similar_tickets") = {6}
  BY DEF Places
<1>5. 1 \in Nat \ {21} /\ 6 \in Nat \ {21}
  OBVIOUS
<1> QED BY <1>3, <1>4, <1>5, OnePlaced

LEMMA ListingsPlaced ==
  ASSUME NEW step, NEW s
  PROVE  /\ step.tool = "get_ticket_history" =>
              Placed({Item("ticket_history", "", "", "")}, step)
         /\ step.tool = "search_logs" =>
              \A found \in AtMostOne({Item("log", s, "", "")}) :
                Placed(found, step)
         /\ step.tool = "get_related_incident" =>
              \A found \in AtMostOne({Item("incident", other, "", "") :
                                       other \in {s} \cup Others}) :
                Placed(found, step)
<1>1. /\ Places("get_ticket_history") = {11}
      /\ Places("search_logs") = {30}
      /\ Places("get_related_incident") = {38}
  BY DEF Places
<1>2. \A e \in {Item("ticket_history", "", "", "")} : Place(e) = 11
  BY ItemPlaces
<1>3. \A e \in {Item("log", s, "", "")} : Place(e) = 30
  BY ItemPlaces
<1>4. \A e \in {Item("incident", other, "", "") : other \in {s} \cup Others} :
        Place(e) = 38
  BY ItemPlaces
<1>5. 11 \in Nat \ {21} /\ 30 \in Nat \ {21} /\ 38 \in Nat \ {21}
  OBVIOUS
<1>6. {Item("ticket_history", "", "", "")} \in
        AtMostOne({Item("ticket_history", "", "", "")})
  BY DEF AtMostOne
<1>7. step.tool = "get_ticket_history" =>
        Placed({Item("ticket_history", "", "", "")}, step)
  BY <1>1, <1>2, <1>5, <1>6, OnePlaced
<1>8. step.tool = "search_logs" =>
        \A found \in AtMostOne({Item("log", s, "", "")}) : Placed(found, step)
  BY <1>1, <1>3, <1>5, OnePlaced
<1>9. step.tool = "get_related_incident" =>
        \A found \in AtMostOne({Item("incident", other, "", "") :
                                 other \in {s} \cup Others}) :
          Placed(found, step)
  <2> DEFINE items == {Item("incident", other, "", "") :
                         other \in {s} \cup Others}
  <2>1. \A e \in items : Place(e) = 38
    BY <1>4
  <2> HIDE DEF items
  <2>2. step.tool = "get_related_incident" =>
          \A found \in AtMostOne(items) : Placed(found, step)
    BY <1>1, <1>5, <2>1, OnePlaced
  <2> QED BY <2>2 DEF items
<1> QED BY <1>7, <1>8, <1>9

LEMMA ReadingSetsPlaced ==
  ASSUME NEW step
  PROVE  /\ step.tool = "get_system_status" =>
              \A found \in Statuses(step.service) : Placed(found, step)
         /\ step.tool = "get_telemetry" =>
              \A found \in Telemetry(step.service) : Placed(found, step)
<1> DEFINE s == step.service
<1>1. /\ Places("get_system_status") = {21}
      /\ Places("get_telemetry") = {21, 22}
  BY DEF Places
<1>2. ASSUME step.tool = "get_system_status", NEW found \in Statuses(s)
      PROVE  Placed(found, step)
  <2>1. PICK state : found = {Reading("system_status", s, "nearest", state)}
    BY <1>2 DEF Statuses
  <2> DEFINE e == Reading("system_status", s, "nearest", state)
  <2>2. Place(e) = 21 /\ e.source = <<"reading", s, "nearest">>
    BY ReadingPlaces, ReadingsSeparate
  <2> HIDE DEF e
  <2>3. found = {e}
    BY <2>1 DEF e
  <2> QED BY <1>1, <1>2, <2>2, <2>3 DEF Placed
<1>3. ASSUME step.tool = "get_telemetry", NEW found \in Telemetry(s)
      PROVE  Placed(found, step)
  <2> DEFINE near == Reading("telemetry", s, "nearest", "")
             far  == Reading("telemetry", s, "other", "")
             rest == Reading("telemetry", s, "rest", "")
  <2>1. found \in {{}, {near}, {near, rest}, {far}}
    BY <1>3 DEF Telemetry
  <2>2. /\ Place(near) = 21 /\ near.source = <<"reading", s, "nearest">>
        /\ Place(far) = 22 /\ Place(rest) = 22
    BY ReadingPlaces, ReadingsSeparate
  <2> HIDE DEF near, far, rest
  <2> QED BY <1>1, <1>3, <2>1, <2>2 DEF Placed
<1> QED BY <1>2, <1>3

LEMMA ProperOutcomes ==
  ASSUME NEW tool \in Tools, NEW service, NEW t,
         NEW result \in Outcomes(Step(tool, service), t)
  PROVE  Proper(result, Step(tool, service))
<1> DEFINE step == Step(tool, service)
           Good(items) == Separate(items) /\ Placed(items, step)
<1>1. step.tool = tool /\ step.service = service
  BY DEF Step
<1>2. Proper(Failure(step), step)
  BY DEF Proper, Failure, Result, Separate, Placed
<1>3. ASSUME NEW items, Separate(items), Placed(items, step)
      PROVE  Proper(Result(step, TRUE, items), step)
  BY <1>3 DEF Proper, Result
<1> HIDE DEF step
<1>5. result \in Outcomes(step, t)
  BY DEF step
<1>4. \/ result = Failure(step)
      \/ \E items : Good(items) /\ result = Result(step, TRUE, items)
  <2>1. CASE tool = "search_knowledge_base"
    <3>1. \A found \in AtMostOne(Guides) : Good(found)
      BY <1>1, <2>1, SearchesSeparate, SearchesPlaced
    <3> QED BY <1>1, <1>5, <2>1, <3>1 DEF Outcomes
  <2>2. CASE tool = "search_similar_tickets"
    <3>1. \A found \in AtMostOne(Past) : Good(found)
      BY <1>1, <2>2, SearchesSeparate, SearchesPlaced
    <3> QED BY <1>1, <1>5, <2>2, <3>1 DEF Outcomes
  <2>3. CASE tool = "get_ticket_history"
    <3>1. Good({Item("ticket_history", "", "", "")})
      BY <1>1, <2>3, ListingsSeparate, ListingsPlaced
    <3> QED BY <1>1, <1>5, <2>3, <3>1 DEF Outcomes
  <2>4. CASE tool = "get_system_status"
    <3>1. \A found \in Statuses(service) : Good(found)
      BY <1>1, <2>4, ReadingSetsSeparate, ReadingSetsPlaced
    <3> QED BY <1>1, <1>5, <2>4, <3>1 DEF Outcomes
  <2>5. CASE tool = "get_telemetry"
    <3>1. \A found \in Telemetry(service) : Good(found)
      BY <1>1, <2>5, ReadingSetsSeparate, ReadingSetsPlaced
    <3> QED BY <1>1, <1>5, <2>5, <3>1 DEF Outcomes
  <2>6. CASE tool = "search_logs"
    <3>1. \A found \in AtMostOne({Item("log", service, "", "")}) : Good(found)
      BY <1>1, <2>6, ListingsSeparate, ListingsPlaced
    <3> QED BY <1>1, <1>5, <2>6, <3>1 DEF Outcomes
  <2>7. CASE tool = "get_related_incident"
    <3>1. \A found \in AtMostOne({Item("incident", other, "", "") :
                                   other \in {service} \cup Others}) :
            Good(found)
      BY <1>1, <2>7, ListingsSeparate, ListingsPlaced
    <3> QED BY <1>1, <1>5, <2>7, <3>1 DEF Outcomes
  <2> QED BY <2>1, <2>2, <2>3, <2>4, <2>5, <2>6, <2>7 DEF Tools
<1> QED BY <1>2, <1>3, <1>4 DEF step
---------------------------------------------------------------------------
(* collect_evidence *)

LEMMA LeastNatural ==
  ASSUME NEW T, T \subseteq Nat, T # {}
  PROVE  \E m \in T : \A n \in T : m <= n
<1>1. PICK m \in T : \A n \in T : ~ (<<n, m>> \in OpToRel(<, Nat))
  BY NatLessThanWellFounded, WFMin
<1>2. ASSUME NEW n \in T
      PROVE  m <= n
  <2>1. m \in Nat /\ n \in Nat
    OBVIOUS
  <2>2. ~ (n < m)
    BY <1>1, <2>1 DEF OpToRel
  <2> QED BY <2>1, <2>2
<1> QED BY <1>2

\* An item that the handlers drop is evidence under its source all the same:
\* the first step with that source gives it.
LEMMA SourceKept ==
  ASSUME NEW S, NEW steps \in Seq(S), NEW t, NEW n \in DOMAIN steps,
         NEW e \in steps[n].items
  PROVE  \E f \in Collected(t, steps) : e.source = f.source
<1> DEFINE T == {m \in DOMAIN steps : \E f \in steps[m].items : f.source = e.source}
<1>1. DOMAIN steps = 1..Len(steps) /\ Len(steps) \in Nat
  OBVIOUS
<1>2. T \subseteq Nat /\ n \in T
  BY <1>1
<1> HIDE DEF T
<1>3. PICK m \in T : \A k \in T : m <= k
  BY <1>2, LeastNatural
<1>4. PICK f \in steps[m].items : f.source = e.source
  BY <1>3 DEF T
<1>5. m \in 1..Len(steps)
  BY <1>1, <1>3 DEF T
<1>6. ASSUME NEW k \in 1..(m - 1), NEW g \in steps[k].items
      PROVE  g.source # f.source
  <2>1. k \in DOMAIN steps /\ ~ (m <= k)
    BY <1>1, <1>5
  <2>2. k \notin T
    BY <1>3, <2>1
  <2> QED BY <1>4, <2>1, <2>2 DEF T
<1>7. f \in Collected(t, steps)
  BY <1>1, <1>4, <1>5, <1>6 DEF Collected
<1> QED BY <1>4, <1>7

\* What a sequence of results gives from its n-th step.
Fresh(steps, n) ==
  {e \in steps[n].items :
     \A m \in 1..(n - 1) : \A f \in steps[m].items : f.source # e.source}

LEMMA CollectedFresh ==
  ASSUME NEW t, NEW steps, NEW e \in Collected(t, steps)
  PROVE  e = TicketFact(t) \/ \E n \in DOMAIN steps : e \in Fresh(steps, n)
BY DEF Collected, Fresh

LEMMA SourceOnce ==
  ASSUME NEW S, NEW steps \in Seq(S), NEW t,
         \A n \in DOMAIN steps : Separate(steps[n].items),
         NEW e \in Collected(t, steps), NEW f \in Collected(t, steps),
         e.source = f.source
  PROVE  e = f
<1>1. TicketFact(t).source[1] = "ticket_fact"
  BY DEF TicketFact, Item
<1>2. ASSUME NEW x, NEW n \in DOMAIN steps, x \in Fresh(steps, n)
      PROVE  x.source[1] # "ticket_fact"
  BY <1>2 DEF Fresh, Separate
<1>3. ASSUME NEW m \in DOMAIN steps, NEW n \in DOMAIN steps,
             e \in Fresh(steps, m), f \in Fresh(steps, n)
      PROVE  e = f
  <2>1. m \in Nat /\ n \in Nat /\ m >= 1 /\ n >= 1
    OBVIOUS
  <2>2. CASE m < n
    <3>1. m \in 1..(n - 1)
      BY <2>1, <2>2
    <3> QED BY <1>3, <3>1 DEF Fresh
  <2>3. CASE n < m
    <3>1. n \in 1..(m - 1)
      BY <2>1, <2>3
    <3> QED BY <1>3, <3>1 DEF Fresh
  <2>4. CASE m = n
    BY <1>3, <2>4 DEF Fresh, Separate
  <2> QED BY <2>1, <2>2, <2>3, <2>4
<1>4. CASE e = TicketFact(t) \/ f = TicketFact(t)
  BY <1>1, <1>2, <1>4, CollectedFresh
<1>5. CASE e # TicketFact(t) /\ f # TicketFact(t)
  BY <1>3, <1>5, CollectedFresh
<1> QED BY <1>4, <1>5

LEMMA CollectedTypes ==
  ASSUME NEW t, NEW steps, \A n \in DOMAIN steps : Separate(steps[n].items)
  PROVE  /\ TicketFact(t) \in Collected(t, steps)
         /\ \A e \in Collected(t, steps) : ItemType(e)
<1>1. TicketFact(t) \in Collected(t, steps)
  BY DEF Collected
<1>2. ItemType(TicketFact(t))
  BY DEF ItemType, TicketFact, Item
<1>3. ASSUME NEW n \in DOMAIN steps, NEW e \in Fresh(steps, n)
      PROVE  ItemType(e)
  BY DEF Fresh, Separate
<1> QED BY <1>1, <1>2, <1>3, CollectedFresh

---------------------------------------------------------------------------
(* Runs *)

Results(t) == UNION {Outcomes(Wanted(t)[n], t) : n \in DOMAIN Wanted(t)}

\* The n-th result is one of the n-th step of the plan.
Answers(results) ==
  /\ results \in Seq(Results(ticket))
  /\ Len(results) <= Len(Wanted(ticket))
  /\ \A n \in DOMAIN results : Proper(results[n], Wanted(ticket)[n])

WholeRun ==
  investigation =
    [status |-> investigation.status, plan |-> investigation.plan,
     seen |-> investigation.seen, steps |-> investigation.steps,
     many |-> investigation.many]

\* The inductive invariant of an investigation.
RunInv ==
  /\ WholeRun
  /\ investigation.status \in JobStatus \cup {"absent"}
  /\ investigation.many \in BOOLEAN
  /\ investigation.status \in {"running", "completed"} =>
       investigation.plan = Wanted(ticket)
  /\ Answers(investigation.seen)
  /\ investigation.status # "running" => investigation.seen = <<>>
  /\ investigation.status # "completed" => investigation.steps = <<>>
  /\ investigation.status = "completed" =>
       /\ Answers(investigation.steps)
       /\ Len(investigation.steps) = Len(investigation.plan)

\* The inductive invariant of its assessment.
FoundInv ==
  /\ assessment.status \in JobStatus \cup {"absent"}
  /\ assessment.hosted \in BOOLEAN
  /\ assessment.score \in {0} \cup 13..91
  /\ assessment.action \in RecommendationActionType \cup {"none"}
  /\ assessment.status # "absent" => investigation.status = "completed"
  /\ assessment.status # "completed" => assessment.evidence = {}
  /\ assessment.status = "completed" =>
       /\ assessment.evidence = Evidence
       /\ assessment.limitations = Limitations(investigation.steps)

LEMMA WantedLength ==
  ASSUME NEW t \in TicketType
  PROVE  /\ Len(Wanted(t)) \in Nat
         /\ DOMAIN Wanted(t) = 1..Len(Wanted(t))
<1>1. CASE Wanted(t) = BaseSteps
  <2>1. Len(BaseSteps) = 3 /\ DOMAIN BaseSteps = 1..3
    BY DomainThree DEF BaseSteps
  <2> QED BY <1>1, <2>1
<1>2. CASE \E service : Wanted(t) = OneService(service)
  <2> PICK service : Wanted(t) = OneService(service)
    BY <1>2
  <2>1. /\ Len(OneService(service)) = 7
        /\ DOMAIN OneService(service) = 1..7
    BY DomainSeven DEF OneService
  <2> QED BY <2>1
<1>3. CASE Wanted(t) = TwoServices("VPN", "DNS")
  <2>1. /\ Len(TwoServices("VPN", "DNS")) = 10
        /\ DOMAIN TwoServices("VPN", "DNS") = 1..10
    BY DomainTen DEF TwoServices
  <2> QED BY <1>3, <2>1
<1> QED BY <1>1, <1>2, <1>3, WantedSteps

LEMMA NothingAnswered ==
  ASSUME TicketKept
  PROVE  Answers(<<>>)
<1>1. ticket \in TicketType
  BY EvidenceAssumption DEF TicketKept
<1>2. Len(Wanted(ticket)) \in Nat
  BY <1>1, WantedLength
<1> QED BY <1>2 DEF Answers

LEMMA NextAnswered ==
  ASSUME TicketKept, NEW seen, Answers(seen), Len(seen) + 1 <= Len(Wanted(ticket)),
         NEW result \in Outcomes(Wanted(ticket)[Len(seen) + 1], ticket)
  PROVE  Answers(Append(seen, result))
<1> DEFINE n == Len(seen) + 1
<1>1. ticket \in TicketType
  BY EvidenceAssumption DEF TicketKept
<1>2. seen \in Seq(Results(ticket)) /\ Len(seen) \in Nat
  BY DEF Answers
<1>3. n \in DOMAIN Wanted(ticket)
  BY <1>1, <1>2, WantedLength
<1>4. PICK tool \in Tools : \E service : Wanted(ticket)[n] = Step(tool, service)
  BY <1>1, <1>3, PlannedSteps DEF Planned
<1>5. PICK service : Wanted(ticket)[n] = Step(tool, service)
  BY <1>4
<1>6. Proper(result, Wanted(ticket)[n])
  BY <1>5, ProperOutcomes
<1>7. result \in Results(ticket)
  BY <1>3 DEF Results
<1>8. /\ Append(seen, result) \in Seq(Results(ticket))
      /\ Len(Append(seen, result)) = n
  BY <1>2, <1>7
<1>9. ASSUME NEW k \in DOMAIN Append(seen, result)
      PROVE  Proper(Append(seen, result)[k], Wanted(ticket)[k])
  <2>1. CASE k = n
    BY <1>2, <1>6, <2>1
  <2>2. CASE k # n
    <3>1. k \in 1..Len(seen) /\ Append(seen, result)[k] = seen[k]
      BY <1>2, <1>7, <1>8, <2>2
    <3> QED BY <1>2, <3>1 DEF Answers
  <2> QED BY <2>1, <2>2
<1> QED BY <1>8, <1>9 DEF Answers
\* The plan of a run is what the ticket calls for.
LEMMA StepsRun ==
  ASSUME MaxTools >= 10, TicketKept, RunInv, FoundInv, [Next]_vars
  PROVE  RunInv'
<1>1. ticket \in TicketType
  BY EvidenceAssumption DEF TicketKept
<1>2. Plan(ticket) = Wanted(ticket)
  BY <1>1, PlanNeverCut
<1>3. Answers(<<>>)
  BY NothingAnswered
<1>4. ASSUME UNCHANGED <<ticket, investigation>>
      PROVE  RunInv'
  BY <1>4 DEF RunInv, WholeRun, Answers
<1>6. CASE UNCHANGED vars
  BY <1>4, <1>6 DEF vars
<1>7. CASE \/ RequestAssessment \/ StartAssessment \/ Infer \/ InvalidAnswer
           \/ FailAssessment
  BY <1>4, <1>7 DEF RequestAssessment, StartAssessment, Infer, InvalidAnswer,
                    FailAssessment
<1>8. CASE RequestInvestigation
  <2>1. /\ ticket' = ticket
        /\ investigation' = [status |-> "queued", plan |-> <<>>, seen |-> <<>>,
                             steps |-> <<>>, many |-> FALSE]
    BY <1>8 DEF RequestInvestigation, NoInvestigation
  <2>2. Answers(investigation.seen)'
    BY <1>3, <2>1 DEF Answers
  <2> QED BY <2>1, <2>2 DEF RunInv, WholeRun, JobStatus
<1>9. CASE StartInvestigation
  <2>1. /\ ticket' = ticket
        /\ investigation.status = "queued"
        /\ investigation' = [investigation EXCEPT !.status = "running",
                                                  !.plan = Wanted(ticket)]
    BY <1>2, <1>9 DEF StartInvestigation
  <2>2. /\ WholeRun'
        /\ investigation'.status = "running"
        /\ investigation'.plan = Wanted(ticket)
        /\ investigation'.seen = investigation.seen
        /\ investigation'.steps = investigation.steps
        /\ investigation'.many = investigation.many
    BY <2>1 DEF RunInv, WholeRun
  <2>3. Answers(investigation.seen)'
    BY <2>1, <2>2 DEF RunInv, Answers
  <2> QED BY <2>1, <2>2, <2>3 DEF RunInv, JobStatus
<1>10. CASE CallTool
  <2> DEFINE n == Len(investigation.seen) + 1
  <2>1. PICK result \in Outcomes(investigation.plan[n], ticket) :
          investigation' = [investigation EXCEPT
            !.seen = Append(investigation.seen, result)]
    BY <1>10 DEF CallTool
  <2>2. /\ ticket' = ticket
        /\ investigation.status = "running"
        /\ n <= Len(investigation.plan)
        /\ investigation.plan = Wanted(ticket)
    BY <1>10 DEF CallTool, Investigating, RunInv
  <2>3. Answers(Append(investigation.seen, result))
    BY <2>1, <2>2, NextAnswered DEF RunInv
  <2>4. /\ WholeRun'
        /\ investigation'.status = investigation.status
        /\ investigation'.plan = investigation.plan
        /\ investigation'.seen = Append(investigation.seen, result)
        /\ investigation'.steps = investigation.steps
        /\ investigation'.many = investigation.many
    BY <2>1 DEF RunInv, WholeRun
  <2>5. Answers(investigation.seen)'
    BY <2>2, <2>3, <2>4 DEF Answers
  <2> QED BY <2>2, <2>4, <2>5 DEF RunInv
<1>11. CASE CompleteInvestigation
  <2>1. PICK many \in BOOLEAN :
          investigation' = [investigation EXCEPT
            !.status = "completed", !.steps = investigation.seen,
            !.seen = <<>>, !.many = many]
    BY <1>11 DEF CompleteInvestigation
  <2>2. /\ ticket' = ticket
        /\ investigation.status = "running"
        /\ Len(investigation.seen) = Len(investigation.plan)
        /\ investigation.plan = Wanted(ticket)
    BY <1>11 DEF CompleteInvestigation, Investigating, RunInv
  <2>3. /\ WholeRun'
        /\ investigation'.status = "completed"
        /\ investigation'.plan = investigation.plan
        /\ investigation'.seen = <<>>
        /\ investigation'.steps = investigation.seen
        /\ investigation'.many = many
    BY <2>1 DEF RunInv, WholeRun
  <2>4. Answers(investigation.seen)' /\ Answers(investigation.steps)'
    BY <1>3, <2>2, <2>3 DEF RunInv, Answers
  <2> QED BY <2>2, <2>3, <2>4 DEF RunInv, JobStatus
<1>12. CASE FailInvestigation
  <2>1. PICK status \in {"failed", "timed_out"} :
          investigation' = [investigation EXCEPT !.status = status, !.seen = <<>>]
    BY <1>12 DEF FailInvestigation, End
  <2>2. ticket' = ticket /\ investigation.status = "running"
    BY <1>12 DEF FailInvestigation, Investigating
  <2>3. /\ WholeRun'
        /\ investigation'.status = status
        /\ investigation'.seen = <<>>
        /\ investigation'.steps = investigation.steps
        /\ investigation'.many = investigation.many
    BY <2>1 DEF RunInv, WholeRun
  <2>4. Answers(investigation.seen)'
    BY <1>3, <2>2, <2>3 DEF Answers
  <2> QED BY <2>2, <2>3, <2>4 DEF RunInv, JobStatus
<1> QED BY <1>6, <1>7, <1>8, <1>9, <1>10, <1>11, <1>12 DEF Next

\* While no assessment is under way, or one is and investigation stays.
LEMMA StopFound ==
  ASSUME NEW status \in {"failed", "timed_out"}, NEW code, Stop(status, code),
         FoundInv, assessment.status # "absent", UNCHANGED investigation
  PROVE  FoundInv'
BY DEF FoundInv, Stop, NoAssessment, JobStatus

LEMMA InferFound ==
  ASSUME Judgement, FoundInv, Infer
  PROVE  FoundInv'
<1>1. PICK service \in Candidates(Evidence), instructions \in Instructions :
        assessment' = [assessment EXCEPT
          !.status = "completed",
          !.repairing = FALSE,
          !.evidence = Evidence,
          !.limitations = Limitations(investigation.steps),
          !.candidate = service,
          !.score = Score(Evidence, service),
          !.escalates = (Score(Evidence, service) < Threshold),
          !.action = Action(instructions, Score(Evidence, service) < Threshold)]
  BY DEF Infer
<1> DEFINE low == Score(Evidence, service) < Threshold
<1>2. /\ assessment'.status = "completed"
      /\ assessment'.hosted = assessment.hosted
      /\ assessment'.evidence = Evidence
      /\ assessment'.limitations = Limitations(investigation.steps)
      /\ assessment'.score = Score(Evidence, service)
      /\ assessment'.action = Action(instructions, low)
  BY <1>1 DEF Judgement, Whole
<1>3. Score(Evidence, service) \in 13..91
  BY ScoreBounds
<1>4. low \in BOOLEAN
  OBVIOUS
<1> HIDE DEF low
<1>5. Action(instructions, low) \in RecommendationActionType
  BY <1>4 DEF Action, Instructions, RecommendationActionType
<1>6. /\ UNCHANGED <<ticket, investigation>>
      /\ investigation.status = "completed"
  BY DEF Infer, FoundInv
<1>7. Evidence' = Evidence
  BY <1>6 DEF Evidence
<1> QED BY <1>2, <1>3, <1>5, <1>6, <1>7 DEF FoundInv, JobStatus

LEMMA StepsFound ==
  ASSUME Judgement, RunInv, FoundInv, [Next]_vars
  PROVE  FoundInv'
<1>1. CASE UNCHANGED vars
  <2>1. Evidence' = Evidence
    BY <1>1 DEF vars, Evidence, Collected, TicketFact
  <2> QED BY <1>1, <2>1 DEF vars, FoundInv
<1>2. CASE RequestInvestigation
  BY <1>2 DEF RequestInvestigation, FoundInv, NoAssessment, JobStatus
<1>3. CASE \/ StartInvestigation \/ CallTool \/ CompleteInvestigation
           \/ FailInvestigation
  <2>1. /\ investigation.status # "completed"
        /\ assessment' = assessment
    BY <1>3 DEF StartInvestigation, CallTool, CompleteInvestigation,
                FailInvestigation, Investigating
  <2>2. assessment.status = "absent"
    BY <2>1 DEF FoundInv
  <2> QED BY <2>1, <2>2 DEF FoundInv
<1>4. CASE RequestAssessment
  BY <1>4 DEF RequestAssessment, FoundInv, NoAssessment, JobStatus
<1>5. CASE StartAssessment
  <2>1. CASE Stop("failed", "provider_configuration")
    BY <1>5, <2>1, StopFound DEF StartAssessment
  <2>2. CASE /\ assessment.status = "queued"
             /\ assessment' = [assessment EXCEPT !.status = "running"]
    <3>1. /\ assessment'.status = "running"
          /\ assessment'.hosted = assessment.hosted
          /\ assessment'.evidence = assessment.evidence
          /\ assessment'.score = assessment.score
          /\ assessment'.action = assessment.action
      BY <2>2 DEF Judgement, Whole
    <3>2. investigation' = investigation
      BY <1>5 DEF StartAssessment
    <3> QED BY <2>2, <3>1, <3>2 DEF FoundInv, JobStatus
  <2> QED BY <1>5, <2>1, <2>2 DEF StartAssessment
<1>6. CASE Infer
  BY <1>6, InferFound
<1>7. CASE InvalidAnswer
  <2>1. CASE Stop("failed", "invalid_provider_response")
    BY <1>7, <2>1, StopFound DEF InvalidAnswer
  <2>2. CASE /\ assessment.status = "running"
             /\ assessment' = [assessment EXCEPT !.repairing = TRUE]
    <3>1. /\ assessment'.status = "running"
          /\ assessment'.hosted = assessment.hosted
          /\ assessment'.evidence = assessment.evidence
          /\ assessment'.score = assessment.score
          /\ assessment'.action = assessment.action
      BY <2>2 DEF Judgement, Whole
    <3>2. investigation' = investigation
      BY <1>7 DEF InvalidAnswer
    <3> QED BY <2>2, <3>1, <3>2 DEF FoundInv, JobStatus
  <2> QED BY <1>7, <2>1, <2>2 DEF InvalidAnswer
<1>8. CASE FailAssessment
  BY <1>8, StopFound DEF FailAssessment
<1> QED BY <1>1, <1>2, <1>3, <1>4, <1>5, <1>6, <1>7, <1>8 DEF Next

\* The inductive invariant of both, with what they have in common.
THEOREM Invariance ==
  ASSUME MaxTools >= 10
  PROVE  Spec => [](TicketKept /\ Judgement /\ RunInv /\ FoundInv)
<1>1. Init => RunInv /\ FoundInv
  <2> SUFFICES ASSUME Init
               PROVE  RunInv /\ FoundInv
    OBVIOUS
  <2>1. TicketKept
    BY DEF Init, TicketKept
  <2>2. Answers(<<>>)
    BY <2>1, NothingAnswered
  <2>3. RunInv
    BY <2>2 DEF Init, NoInvestigation, RunInv, WholeRun
  <2>4. FoundInv
    BY DEF Init, NoAssessment, FoundInv
  <2> QED BY <2>3, <2>4
<1>2. TicketKept /\ Judgement /\ RunInv /\ FoundInv /\ [Next]_vars
        => RunInv' /\ FoundInv'
  BY StepsRun, StepsFound
<1> QED BY <1>1, <1>2, TicketStays, AlwaysJudged, PTL DEF Spec

---------------------------------------------------------------------------
(* Types and accounts *)

LEMMA RunSeparate ==
  ASSUME RunInv, investigation.status = "completed"
  PROVE  /\ investigation.steps \in Seq(Results(ticket))
         /\ \A n \in DOMAIN investigation.steps :
              Separate(investigation.steps[n].items)
BY DEF RunInv, Answers, Proper

\* Observations and evidence have the types of the tools that gave them, and
\* neither is kept of a run that did not complete.
THEOREM EvidenceTypes ==
  ASSUME MaxTools >= 10
  PROVE  Spec => []EvidenceTypeOK
<1>1. TicketKept /\ Judgement /\ RunInv /\ FoundInv => EvidenceTypeOK
  <2> SUFFICES ASSUME TicketKept, Judgement, RunInv, FoundInv
               PROVE  EvidenceTypeOK
    OBVIOUS
  <2>1. assessment.status = "completed" =>
          /\ \A e \in assessment.evidence : ItemType(e)
          /\ assessment.evidence # {}
    BY RunSeparate, CollectedTypes DEF FoundInv, Evidence
  <2>2. assessment.status # "completed" => assessment.evidence = {}
    BY DEF FoundInv
  <2>3. /\ \A e \in assessment.evidence : ItemType(e)
        /\ assessment.status = "completed" <=> assessment.evidence # {}
    BY <2>1, <2>2
  <2> QED BY <2>3 DEF EvidenceTypeOK, TicketKept, RunInv, FoundInv
<1> QED BY <1>1, Invariance, PTL

\* Of every tool that was to be called a completed assessment has what it
\* found, once for each source, or names it as a limitation.
THEOREM AlwaysAccounted ==
  ASSUME MaxTools >= 10
  PROVE  Spec => []Accounted
<1>1. TicketKept /\ Judgement /\ RunInv /\ FoundInv => Accounted
  <2> SUFFICES ASSUME TicketKept, RunInv, FoundInv,
                      assessment.status = "completed"
               PROVE  /\ {investigation.plan[n] : n \in DOMAIN investigation.plan} =
                         {Step(s.tool, s.service) : s \in
                            {investigation.steps[n] :
                               n \in DOMAIN investigation.steps}}
                      /\ \A n \in DOMAIN investigation.steps :
                           LET s == investigation.steps[n] IN
                           IF s.ok
                           THEN \A e \in s.items :
                                  \E f \in assessment.evidence :
                                    e.source = f.source
                           ELSE s.tool \in assessment.limitations
                      /\ \A e, f \in assessment.evidence :
                           e.source = f.source => e = f
    BY DEF Accounted
  <2> DEFINE plan == investigation.plan
             steps == investigation.steps
  <2>1. /\ investigation.status = "completed"
        /\ assessment.evidence = Collected(ticket, steps)
        /\ assessment.limitations = Limitations(steps)
    BY DEF FoundInv, Evidence
  <2>2. /\ plan = Wanted(ticket)
        /\ Answers(steps)
        /\ Len(steps) = Len(plan)
        /\ steps \in Seq(Results(ticket))
        /\ \A n \in DOMAIN steps : Separate(steps[n].items)
    BY <2>1, RunSeparate DEF RunInv
  <2>3. ticket \in TicketType
    BY EvidenceAssumption DEF TicketKept
  <2>4. DOMAIN plan = DOMAIN steps
    BY <2>2, <2>3, WantedLength
  <2>5. ASSUME NEW n \in DOMAIN plan
        PROVE  plan[n] = Step(steps[n].tool, steps[n].service)
    <3>1. PICK tool \in Tools : \E service : plan[n] = Step(tool, service)
      BY <2>2, <2>3, <2>5, PlannedSteps DEF Planned
    <3>2. PICK service : plan[n] = Step(tool, service)
      BY <3>1
    <3>3. Proper(steps[n], plan[n])
      BY <2>2, <2>4, <2>5 DEF Answers
    <3>4. steps[n].tool = tool /\ steps[n].service = service
      BY <3>2, <3>3 DEF Proper, Step
    <3> QED BY <3>2, <3>4
  <2> HIDE DEF plan, steps
  <2>6. {plan[n] : n \in DOMAIN plan} =
        {Step(s.tool, s.service) : s \in {steps[n] : n \in DOMAIN steps}}
    BY <2>4, <2>5
  <2>7. ASSUME NEW n \in DOMAIN steps
        PROVE  IF steps[n].ok
               THEN \A e \in steps[n].items :
                      \E f \in assessment.evidence : e.source = f.source
               ELSE steps[n].tool \in assessment.limitations
    <3>1. CASE steps[n].ok
      BY <2>1, <2>2, <3>1, SourceKept
    <3>2. CASE ~ steps[n].ok
      BY <2>1, <3>2 DEF Limitations
    <3> QED BY <3>1, <3>2
  <2>8. \A e, f \in assessment.evidence : e.source = f.source => e = f
    BY <2>1, <2>2, SourceOnce
  <2> QED BY <2>6, <2>7, <2>8 DEF plan, steps
<1> QED BY <1>1, Invariance, PTL

---------------------------------------------------------------------------
(* Sizes *)

LEMMA ItemRoom ==
  ASSUME NEW e, ItemType(e)
  PROVE  <<Place(e), Cap(e)>> \in
           {<<0, 1>>, <<1, 5>>, <<6, 5>>, <<11, 10>>, <<21, 1>>,
            <<22, 7>>, <<22, 8>>, <<30, 8>>, <<38, 5>>}
<1>1. CASE e.kind = "ticket_fact"
  BY <1>1 DEF Place, Cap
<1>2. CASE e.kind = "knowledge_chunk"
  BY <1>2 DEF Place, Cap
<1>3. CASE e.kind = "similar_ticket"
  BY <1>3 DEF Place, Cap
<1>4. CASE e.kind = "ticket_history"
  BY <1>4 DEF Place, Cap
<1>5. CASE e.kind = "system_status"
  BY <1>5 DEF Place, Cap
<1>6. CASE e.kind = "telemetry"
  BY <1>6 DEF Place, Cap
<1>7. CASE e.kind = "log"
  BY <1>7 DEF Place, Cap
<1>8. CASE e.kind = "incident"
  BY <1>8 DEF Place, Cap
<1> QED BY <1>1, <1>2, <1>3, <1>4, <1>5, <1>6, <1>7, <1>8 DEF ItemType

\* The rooms do not overlap, and there are forty-three places.
LEMMA RoomsApart ==
  ASSUME NEW e, NEW f, ItemType(e), ItemType(f),
         NEW m \in 1..Cap(e), NEW n \in 1..Cap(f)
  PROVE  /\ Place(e) + m \in 1..43
         /\ Place(e) + m = Place(f) + n => Place(e) = Place(f) /\ m = n
<1> DEFINE Rooms == {<<0, 1>>, <<1, 5>>, <<6, 5>>, <<11, 10>>, <<21, 1>>,
                     <<22, 7>>, <<22, 8>>, <<30, 8>>, <<38, 5>>}
<1>1. ASSUME NEW a, NEW b, NEW c, NEW d, <<a, b>> \in Rooms,
             <<c, d>> \in Rooms, NEW i \in 1..b, NEW j \in 1..d
      PROVE  a + i \in 1..43 /\ (a + i = c + j => a = c /\ i = j)
  BY <1>1
<1> HIDE DEF Rooms
<1>2. /\ <<Place(e), Cap(e)>> \in Rooms
      /\ <<Place(f), Cap(f)>> \in Rooms
  BY ItemRoom DEF Rooms
<1> QED BY <1>1, <1>2

\* Evidence that has one item for each place is no more than there is room for.
LEMMA AmountBounded ==
  ASSUME NEW evidence, \A e \in evidence : ItemType(e),
         \A e, f \in evidence : Place(e) = Place(f) => e = f,
         NEW many \in BOOLEAN
  PROVE  Amount(evidence, many) \in 0..43
<1> DEFINE S == Slots(evidence, many)
           Room(e) == IF many THEN Cap(e) ELSE 1
           at == [x \in S |-> Place(x[1]) + x[2]]
<1>1. ASSUME NEW x \in S
      PROVE  /\ x = <<x[1], x[2]>>
             /\ x[1] \in evidence /\ ItemType(x[1])
             /\ x[2] \in 1..Cap(x[1])
  <2>1. PICK e \in evidence : x \in {e} \X (1..Room(e))
    BY DEF Slots
  <2>2. /\ x = <<x[1], x[2]>> /\ x[1] = e /\ x[2] \in 1..Room(e)
        /\ ItemType(e)
    BY <2>1
  <2>3. Cap(e) \in {1, 5, 7, 8, 10}
    BY <2>2, ItemRoom
  <2>4. x[2] \in 1..Cap(e)
    BY <2>2, <2>3
  <2> QED BY <2>2, <2>4
<1> HIDE DEF S, Room
<1>2. ASSUME NEW x \in S, NEW y \in S
      PROVE  at[x] \in 1..43 /\ (at[x] = at[y] => x = y)
  <2>1. at[x] = Place(x[1]) + x[2] /\ at[y] = Place(y[1]) + y[2]
    OBVIOUS
  <2>2. /\ Place(x[1]) + x[2] \in 1..43
        /\ Place(x[1]) + x[2] = Place(y[1]) + y[2] =>
             Place(x[1]) = Place(y[1]) /\ x[2] = y[2]
    BY <1>1, RoomsApart
  <2>3. Place(x[1]) = Place(y[1]) => x[1] = y[1]
    BY <1>1
  <2>4. x = <<x[1], x[2]>> /\ y = <<y[1], y[2]>>
    BY <1>1
  <2> HIDE DEF at
  <2> QED BY <2>1, <2>2, <2>3, <2>4
<1>3. at \in Injection(S, 1..43)
  <2>1. at \in [S -> 1..43]
    BY <1>2
  <2>2. \A x, y \in S : at[x] = at[y] => x = y
    BY <1>2
  <2>3. DOMAIN at = S
    OBVIOUS
  <2> HIDE DEF at
  <2> QED BY <2>1, <2>2, <2>3 DEF Injection, IsInjective
<1>4. IsFiniteSet(1..43) /\ Cardinality(1..43) = 43
  <2>1. 1 \in Int /\ 43 \in Int
    OBVIOUS
  <2>2. Cardinality(1..43) = IF 1 > 43 THEN 0 ELSE 43 - 1 + 1
    BY <2>1, FS_Interval, Zenon
  <2>3. IsFiniteSet(1..43)
    BY <2>1, FS_Interval, Zenon
  <2> QED BY <2>2, <2>3
<1>5. IsFiniteSet(S) /\ Cardinality(S) <= 43
  BY <1>3, <1>4, FS_Injection
<1>6. Cardinality(S) \in Nat
  BY <1>5, FS_CardinalityType
<1> QED BY <1>5, <1>6 DEF Amount, S

\* The tools of a plan for one service are called once each, and what has
\* the nearest reading is about that service.
OncePerTool(plan) ==
  /\ \A m, n \in DOMAIN plan : plan[m].tool = plan[n].tool => m = n
  /\ \A m, n \in DOMAIN plan :
       {plan[m].tool, plan[n].tool} \subseteq {"get_system_status", "get_telemetry"}
         => plan[m].service = plan[n].service

LEMMA PlanOfOne ==
  ASSUME NEW t \in TicketType, Len(ServicesOf(t)) # 2
  PROVE  OncePerTool(Wanted(t))
<1>1. CASE Wanted(t) = BaseSteps
  <2> DEFINE w == BaseSteps
  <2>1. DOMAIN w = 1..3
    BY DomainThree DEF BaseSteps
  <2>2. /\ w[1].tool = "search_knowledge_base"
        /\ w[2].tool = "search_similar_tickets"
        /\ w[3].tool = "get_ticket_history"
    BY DEF BaseSteps, Step
  <2>3. w = Wanted(t)
    BY <1>1
  <2> HIDE DEF w
  <2>4. \A m \in DOMAIN w :
          w[m].tool \notin {"get_system_status", "get_telemetry"}
    BY <2>1, <2>2, UpToThree
  <2>5. \A m, n \in DOMAIN w : w[m].tool = w[n].tool => m = n
    BY <2>1, <2>2, UpToThree
  <2>6. OncePerTool(w)
    BY <2>4, <2>5 DEF OncePerTool
  <2> QED BY <2>3, <2>6
<1>2. CASE \E service : Wanted(t) = OneService(service)
  <2> PICK service : Wanted(t) = OneService(service)
    BY <1>2
  <2> DEFINE w == OneService(service)
  <2>1. DOMAIN w = 1..7
    BY DomainSeven DEF OneService
  <2>2. /\ w[1].tool = "search_knowledge_base"
        /\ w[2].tool = "search_similar_tickets"
        /\ w[3].tool = "get_ticket_history"
        /\ w[4].tool = "get_system_status" /\ w[4].service = service
        /\ w[5].tool = "get_telemetry" /\ w[5].service = service
        /\ w[6].tool = "search_logs"
        /\ w[7].tool = "get_related_incident"
    BY DEF OneService, Step
  <2>3. w = Wanted(t)
    OBVIOUS
  <2> HIDE DEF w
  <2>4. \A m \in DOMAIN w :
          w[m].tool \in {"get_system_status", "get_telemetry"} =>
            w[m].service = service
    BY <2>1, <2>2, UpToSeven
  <2>5. \A m, n \in DOMAIN w : w[m].tool = w[n].tool => m = n
    BY <2>1, <2>2, UpToSeven
  <2>6. OncePerTool(w)
    BY <2>4, <2>5 DEF OncePerTool
  <2> QED BY <2>3, <2>6
<1> QED BY <1>1, <1>2, WantedSteps

\* The tools' places differ but for the nearest reading.
LEMMA PlacesApart ==
  ASSUME NEW one \in Tools, NEW two \in Tools,
         NEW place \in Places(one) \cap Places(two)
  PROVE  \/ one = two
         \/ /\ place = 21
            /\ {one, two} \subseteq {"get_system_status", "get_telemetry"}
<1>1. ASSUME NEW tool \in Tools
      PROVE  <<tool, Places(tool)>> \in
               {<<"search_knowledge_base", {1}>>,
                <<"search_similar_tickets", {6}>>,
                <<"get_ticket_history", {11}>>, <<"get_system_status", {21}>>,
                <<"get_telemetry", {21, 22}>>, <<"search_logs", {30}>>,
                <<"get_related_incident", {38}>>}
  BY DEF Tools, Places
<1>2. <<one, Places(one)>> \in
               {<<"search_knowledge_base", {1}>>,
                <<"search_similar_tickets", {6}>>,
                <<"get_ticket_history", {11}>>, <<"get_system_status", {21}>>,
                <<"get_telemetry", {21, 22}>>, <<"search_logs", {30}>>,
                <<"get_related_incident", {38}>>}
  BY <1>1
<1>3. <<two, Places(two)>> \in
               {<<"search_knowledge_base", {1}>>,
                <<"search_similar_tickets", {6}>>,
                <<"get_ticket_history", {11}>>, <<"get_system_status", {21}>>,
                <<"get_telemetry", {21, 22}>>, <<"search_logs", {30}>>,
                <<"get_related_incident", {38}>>}
  BY <1>1
<1> QED BY <1>2, <1>3

\* So the evidence of one service has one item for each place.
LEMMA PlacedOnce ==
  ASSUME NEW t \in TicketType, Len(ServicesOf(t)) # 2,
         NEW S, NEW steps \in Seq(S), DOMAIN steps \subseteq DOMAIN Wanted(t),
         \A n \in DOMAIN steps : Proper(steps[n], Wanted(t)[n]),
         NEW e \in Collected(t, steps), NEW f \in Collected(t, steps),
         Place(e) = Place(f)
  PROVE  e = f
<1>1. Place(TicketFact(t)) = 0
  <2>1. TicketFact(t).kind = "ticket_fact"
    BY DEF TicketFact, Item
  <2> QED BY <2>1 DEF Place
<1>2. ASSUME NEW n \in DOMAIN steps
      PROVE  /\ Wanted(t)[n].tool \in Tools
             /\ Separate(steps[n].items)
             /\ Placed(steps[n].items, Wanted(t)[n])
  <2>1. Planned(Wanted(t)[n])
    BY PlannedSteps
  <2> QED BY <2>1 DEF Proper, Planned, Step
<1>3. ASSUME NEW x, NEW n \in DOMAIN steps, x \in Fresh(steps, n)
      PROVE  /\ x \in steps[n].items
             /\ Place(x) \in Places(Wanted(t)[n].tool)
             /\ Place(x) = 21 =>
                  x.source = <<"reading", Wanted(t)[n].service, "nearest">>
             /\ Place(x) # 0
  <2>1. /\ x \in steps[n].items
        /\ Place(x) \in Places(Wanted(t)[n].tool)
        /\ Place(x) = 21 =>
             x.source = <<"reading", Wanted(t)[n].service, "nearest">>
    BY <1>2, <1>3 DEF Fresh, Placed
  <2>2. \A tool \in Tools : 0 \notin Places(tool)
    BY DEF Tools, Places
  <2> QED BY <1>2, <2>1, <2>2
<1>4. ASSUME NEW m \in DOMAIN steps, NEW n \in DOMAIN steps,
             e \in Fresh(steps, m), f \in Fresh(steps, n)
      PROVE  e = f
  <2> DEFINE one == Wanted(t)[m]
             two == Wanted(t)[n]
  <2>1. /\ one.tool \in Tools /\ two.tool \in Tools
        /\ Place(e) \in Places(one.tool) \cap Places(two.tool)
    BY <1>2, <1>3, <1>4
  <2>2. \/ one.tool = two.tool
        \/ /\ Place(e) = 21
           /\ {one.tool, two.tool} \subseteq {"get_system_status", "get_telemetry"}
    BY <2>1, PlacesApart
  <2>3. CASE one.tool = two.tool
    <3>1. m = n
      BY <2>3, PlanOfOne DEF OncePerTool
    <3> QED BY <1>2, <1>3, <1>4, <3>1 DEF Placed
  <2>4. CASE /\ Place(e) = 21
             /\ {one.tool, two.tool} \subseteq {"get_system_status", "get_telemetry"}
    <3>1. one.service = two.service
      BY <2>4, PlanOfOne DEF OncePerTool
    <3>2. e.source = f.source
      BY <1>3, <1>4, <2>4, <3>1
    <3> QED BY <1>2, <3>2, SourceOnce
  <2> QED BY <2>2, <2>3, <2>4
<1>5. CASE e = TicketFact(t) \/ f = TicketFact(t)
  BY <1>1, <1>3, <1>5, CollectedFresh
<1>6. CASE e # TicketFact(t) /\ f # TicketFact(t)
  BY <1>4, <1>6, CollectedFresh
<1> QED BY <1>5, <1>6

LEMMA OneServiceFits ==
  ASSUME MaxInput >= 43, TicketKept, RunInv, investigation.status = "completed",
         Len(ServicesOf(ticket)) # 2
  PROVE  Amount(Evidence, investigation.many) <= MaxInput
<1> DEFINE steps == investigation.steps
<1>1. ticket \in TicketType
  BY EvidenceAssumption DEF TicketKept
<1>2. /\ steps \in Seq(Results(ticket))
      /\ Len(steps) <= Len(Wanted(ticket))
      /\ \A n \in DOMAIN steps : Proper(steps[n], Wanted(ticket)[n])
      /\ \A n \in DOMAIN steps : Separate(steps[n].items)
      /\ investigation.many \in BOOLEAN
  BY DEF RunInv, Answers, Proper
<1>3. DOMAIN steps \subseteq DOMAIN Wanted(ticket)
  <2>1. DOMAIN steps = 1..Len(steps) /\ Len(steps) \in Nat
    BY <1>2
  <2> QED BY <1>1, <1>2, <2>1, WantedLength
<1> HIDE DEF steps
<1>4. \A e \in Collected(ticket, steps) : ItemType(e)
  BY <1>2, CollectedTypes
<1>5. \A e, f \in Collected(ticket, steps) : Place(e) = Place(f) => e = f
  BY <1>1, <1>2, <1>3, PlacedOnce
<1>6. Amount(Collected(ticket, steps), investigation.many) \in 0..43
  BY <1>2, <1>4, <1>5, AmountBounded
<1> QED BY <1>6, EvidenceAssumption DEF Evidence, steps

\* The refusal for a provider setting is never given with one service or none.
Unrefused ==
  Len(ServicesOf(ticket)) # 2 => assessment.code # "provider_configuration"

LEMMA StopFits ==
  ASSUME NEW status, NEW code, Stop(status, code),
         code = "provider_configuration" => Len(ServicesOf(ticket)) = 2,
         UNCHANGED ticket
  PROVE  Unrefused'
<1>1. assessment'.code = code
  BY DEF Stop, NoAssessment
<1> QED BY <1>1 DEF Unrefused

\* Only StartAssessment gives that refusal, and there the evidence fits.
LEMMA StepsFit ==
  ASSUME MaxInput >= 43, TicketKept, Judgement, RunInv, FoundInv, Unrefused,
         [Next]_vars
  PROVE  Unrefused'
<1>1. ASSUME UNCHANGED ticket, assessment'.code = assessment.code
      PROVE  Unrefused'
  BY <1>1 DEF Unrefused
<1>2. CASE UNCHANGED vars
  BY <1>1, <1>2 DEF vars
<1>3. CASE RequestInvestigation \/ RequestAssessment
  <2>1. NoAssessment.code = "none"
    BY DEF NoAssessment
  <2>2. CASE RequestInvestigation
    BY <2>1, <2>2 DEF RequestInvestigation, Unrefused
  <2>3. CASE RequestAssessment
    <3>1. PICK hosted \in BOOLEAN :
            assessment' = [NoAssessment EXCEPT !.status = "queued",
                                               !.hosted = hosted]
      BY <2>3 DEF RequestAssessment
    <3>2. assessment'.code = NoAssessment.code
      BY <3>1 DEF NoAssessment
    <3> QED BY <2>1, <3>2 DEF Unrefused
  <2> QED BY <1>3, <2>2, <2>3
<1>4. CASE \/ StartInvestigation \/ CallTool \/ CompleteInvestigation
           \/ FailInvestigation
  BY <1>1, <1>4 DEF StartInvestigation, CallTool, CompleteInvestigation,
                    FailInvestigation
<1>5. CASE StartAssessment
  <2>1. /\ investigation.status = "completed"
        /\ UNCHANGED <<ticket, investigation>>
    BY <1>5 DEF StartAssessment, FoundInv
  <2>2. CASE Amount(Evidence, investigation.many) <= MaxInput
    <3>1. assessment' = [assessment EXCEPT !.status = "running"]
      BY <1>5, <2>2 DEF StartAssessment
    <3>2. assessment'.code = assessment.code
      BY <3>1 DEF Judgement, Whole
    <3> QED BY <1>1, <2>1, <3>2
  <2>3. CASE ~ (Amount(Evidence, investigation.many) <= MaxInput)
    <3>1. Stop("failed", "provider_configuration")
      BY <1>5, <2>3 DEF StartAssessment
    <3>2. Len(ServicesOf(ticket)) = 2
      BY <2>1, <2>3, OneServiceFits
    <3> QED BY <2>1, <3>1, <3>2, StopFits
  <2> QED BY <2>2, <2>3
<1>6. CASE Infer
  <2>1. PICK service \in Candidates(Evidence), instructions \in Instructions :
          assessment' = [assessment EXCEPT
            !.status = "completed",
            !.repairing = FALSE,
            !.evidence = Evidence,
            !.limitations = Limitations(investigation.steps),
            !.candidate = service,
            !.score = Score(Evidence, service),
            !.escalates = (Score(Evidence, service) < Threshold),
            !.action = Action(instructions,
                              Score(Evidence, service) < Threshold)]
    BY <1>6 DEF Infer
  <2>2. assessment'.code = assessment.code
    BY <2>1 DEF Judgement, Whole
  <2> QED BY <1>1, <1>6, <2>2 DEF Infer
<1>7. CASE InvalidAnswer
  <2>1. UNCHANGED ticket
    BY <1>7 DEF InvalidAnswer
  <2>2. CASE Stop("failed", "invalid_provider_response")
    BY <2>1, <2>2, StopFits
  <2>3. CASE assessment' = [assessment EXCEPT !.repairing = TRUE]
    <3>1. assessment'.code = assessment.code
      BY <2>3 DEF Judgement, Whole
    <3> QED BY <1>1, <2>1, <3>1
  <2> QED BY <1>7, <2>2, <2>3 DEF InvalidAnswer
<1>8. CASE FailAssessment
  BY <1>8, StopFits DEF FailAssessment
<1> QED BY <1>2, <1>3, <1>4, <1>5, <1>6, <1>7, <1>8 DEF Next

\* Whatever the tools find, with room for forty-three items - the program has
\* room for fifty - the evidence of a completed investigation of one service,
\* or of none, can be given to a provider, and no assessment of it is refused
\* for its size.
THEOREM EvidenceAlwaysFits ==
  ASSUME MaxTools >= 10, MaxInput >= 43
  PROVE  Spec => []EvidenceFits
<1>1. Init => Unrefused
  <2>1. NoAssessment.code = "none"
    BY DEF NoAssessment
  <2> QED BY <2>1 DEF Init, Unrefused
<1>2. TicketKept /\ Judgement /\ RunInv /\ FoundInv /\ Unrefused /\ [Next]_vars
        => Unrefused'
  BY StepsFit
<1>3. TicketKept /\ RunInv /\ Unrefused => EvidenceFits
  BY OneServiceFits DEF EvidenceFits, Unrefused
<1> QED BY <1>1, <1>2, <1>3, Invariance, PTL DEF Spec
=============================================================================
