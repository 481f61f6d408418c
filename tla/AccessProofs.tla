---------------------------- MODULE AccessProofs ----------------------------
(***************************************************************************)
(* Proofs about Access for every number of clients, users, requests and    *)
(* table entries.  What the limiter does for its own users is proved in    *)
(* RateLimiterProofs; here Access is shown to be one of them.              *)
(***************************************************************************)
EXTENDS Access, RateLimiterProofs

\* The part of TypeOK that is not the limiter's.
RequestsOK ==
  /\ session \in [Sessions -> [state : {"absent", "active", "revoked"},
                               user : Users \cup {NoUser}, expires : Nat]]
  /\ request \in [Requests ->
       [pc : {"idle", "login", "authenticated", "working"},
        user : Users \cup {NoUser}, session : 0..MaxSessions]]
  /\ survivors \in [Sessions -> SUBSET Requests]

\* A session and a request that got past its lookup belong to a user, so a
\* check of a user's route is about a key of the table.
Named ==
  /\ \A s \in Sessions : session[s].state # "absent" => session[s].user \in Users
  /\ \A r \in Requests :
       /\ ~ At(r, "idle") => request[r].user \in Users
       /\ request[r].session \in Sessions =>
            session[request[r].session].state # "absent"

Inv        == now \in Nat /\ RequestsOK /\ Named /\ LogoutEndsSession
SessionInv == RequestsOK /\ Named /\ LogoutEndsSession

LEMMA NoSessionZero == 0 \notin Sessions
BY AccessAssumption DEF Sessions

LEMMA InitInv == Init => Inv
<1> SUFFICES ASSUME Init PROVE Inv
  OBVIOUS
<1>1. RequestsOK
  BY AccessAssumption DEF Init, RequestsOK, NoSession, Row, Idle
<1>2. Named /\ LogoutEndsSession
  BY NoSessionZero DEF Init, Named, LogoutEndsSession, NoSession, Row, Idle, At
<1>3. now \in Nat
  BY DEF Init, LimiterInit
<1> QED BY <1>1, <1>2, <1>3 DEF Inv

\* A request that ends under the limiter's steps or its own.
LEMMA FinishKeeps ==
  ASSUME Inv, NEW r \in Requests, Finish(r), session' = session
  PROVE  RequestsOK' /\ Named' /\ LogoutEndsSession'
<1>1. RequestsOK'
  BY AccessAssumption DEF Finish, Inv, RequestsOK, Idle
<1>2. Named'
  BY NoSessionZero DEF Finish, Inv, RequestsOK, Named, At, Idle
<1>3. ASSUME NEW s \in Sessions PROVE Under(s)' \subseteq Under(s) \ {r}
  BY AccessAssumption DEF Finish, Under, Inv, RequestsOK, Idle, Sessions
<1>4. LogoutEndsSession'
  BY <1>3 DEF LogoutEndsSession, Inv, Finish
<1> QED BY <1>1, <1>2, <1>4


\* Sessions and requests, whatever step is taken.
LEMMA SessionsKept == ASSUME Inv, [Next]_vars PROVE SessionInv'
<1>0. RequestsOK
  BY DEF Inv
<1>1. ASSUME NEW r \in Requests, NEW host \in Hosts, NEW user \in Users,
             Login(r, host, user)
      PROVE  SessionInv'
  <2>1. RequestsOK'
    BY <1>1, <1>0 DEF Login, RequestsOK
  <2>2. Named'
    BY <1>1, <1>0 DEF Login, RequestsOK, Inv, Named, At
  <2>3. LogoutEndsSession'
    BY <1>1, <1>0 DEF Login, RequestsOK, Inv, LogoutEndsSession, Under
  <2> QED BY <2>1, <2>3, <2>2 DEF SessionInv
<1>2. ASSUME NEW r \in Requests, NEW host \in Hosts, LoginRefused(r, host)
      PROVE  SessionInv'
  <2>1. RequestsOK' /\ Named' /\ LogoutEndsSession'
    BY <1>2, <1>0 DEF LoginRefused, RequestsOK, Inv, Named, At,
                      LogoutEndsSession, Under
  <2> QED BY <2>1 DEF SessionInv
<1>3. ASSUME NEW r \in Requests, LoginCommit(r)
      PROVE  SessionInv'
  <2>1. PICK s \in Sessions :
          session' = [session EXCEPT
            ![s] = Row("active", request[r].user, now + SessionTime)]
    BY <1>3 DEF LoginCommit
  <2>2. request[r].user \in Users /\ now + SessionTime \in Nat
    BY <1>3, AccessAssumption DEF LoginCommit, Inv, Named, At
  <2>3. RequestsOK'
    BY <1>3, <1>0, <2>1, <2>2, AccessAssumption
    DEF LoginCommit, Finish, RequestsOK, Idle, Row
  <2>4. Named'
    <3>1. ASSUME NEW x \in Sessions
          PROVE  /\ session'[x].state # "absent" => session'[x].user \in Users
                 /\ session[x].state # "absent" => session'[x].state # "absent"
      BY <1>0, <2>1, <2>2 DEF RequestsOK, Row, Inv, Named
    <3>2. ASSUME NEW q \in Requests
          PROVE  request'[q] = request[q] \/ request'[q] = Idle
      BY <1>3, <1>0 DEF LoginCommit, Finish, RequestsOK
    <3> QED BY <3>1, <3>2, NoSessionZero DEF Named, At, Idle, Inv
  <2>5. ASSUME NEW x \in Sessions PROVE Under(x)' \subseteq Under(x) \ {r}
    BY <1>3, <1>0, AccessAssumption
    DEF LoginCommit, Finish, Under, RequestsOK, Idle, Sessions
  <2>6. LogoutEndsSession'
    BY <1>3, <1>0, <2>1, <2>5
    DEF LogoutEndsSession, Inv, LoginCommit, Finish, Row, RequestsOK
  <2> QED BY <2>3, <2>4, <2>6 DEF SessionInv
<1>4. ASSUME NEW r \in Requests, LoginFails(r) \/ Act(r)
      PROVE  SessionInv'
  <2>1. RequestsOK' /\ Named' /\ LogoutEndsSession'
    BY <1>4, FinishKeeps DEF LoginFails, Act
  <2> QED BY <2>1 DEF SessionInv
<1>5. ASSUME NEW r \in Requests, NEW s \in Sessions, Authenticate(r, s)
      PROVE  SessionInv'
  <2>1. RequestsOK'
    <3>1. s \in 0..MaxSessions /\ session[s].user \in Users \cup {NoUser}
      BY <1>0, AccessAssumption DEF RequestsOK, Sessions
    <3>2. request' \in [Requests ->
            [pc : {"idle", "login", "authenticated", "working"},
             user : Users \cup {NoUser}, session : 0..MaxSessions]]
      <4> DEFINE new == [request[r] EXCEPT !.pc = "authenticated",
                           !.session = s, !.user = session[s].user]
      <4>1. request' = [request EXCEPT ![r] = new]
        BY <1>5, <1>0 DEF Authenticate, RequestsOK
      <4>2. new \in [pc : {"idle", "login", "authenticated", "working"},
              user : Users \cup {NoUser}, session : 0..MaxSessions]
        BY <1>0, <3>1 DEF RequestsOK
      <4> HIDE DEF new
      <4> QED BY <1>0, <4>1, <4>2 DEF RequestsOK
    <3> QED BY <3>2, <1>5, <1>0 DEF Authenticate, RequestsOK
  <2>2. Named'
    BY <1>5, <1>0 DEF Authenticate, RequestsOK, Inv, Named, At, Live
  <2>3. LogoutEndsSession'
    BY <1>5, <1>0 DEF Authenticate, RequestsOK, Inv, LogoutEndsSession,
                      Under, Live
  <2> QED BY <2>1, <2>3, <2>2 DEF SessionInv
<1>6. ASSUME NEW r \in Requests, NEW route \in Routes, Enter(r, route)
      PROVE  SessionInv'
  <2>1. RequestsOK' /\ Named'
    BY <1>6, <1>0 DEF Enter, RequestsOK, Inv, Named, At
  <2>2. LogoutEndsSession'
    BY <1>6, <1>0 DEF Enter, RequestsOK, Inv, LogoutEndsSession, Under
  <2> QED BY <2>1, <2>2 DEF SessionInv
<1>7. ASSUME NEW r \in Requests, NEW route \in Routes, EnterRefused(r, route)
      PROVE  SessionInv'
  <2>1. RequestsOK' /\ Named' /\ LogoutEndsSession'
    BY <1>7, FinishKeeps DEF EnterRefused
  <2> QED BY <2>1 DEF SessionInv
<1>8. ASSUME NEW r \in Requests, Logout(r)
      PROVE  SessionInv'
  <2>1. request[r].user \in Users
    BY <1>8 DEF Logout, Inv, Named, At
  <2>2. RequestsOK'
    <3>1. session' \in [Sessions -> [state : {"absent", "active", "revoked"},
                          user : Users \cup {NoUser}, expires : Nat]]
      BY <1>8, <1>0 DEF Logout, RequestsOK
    <3>2. request' \in [Requests ->
            [pc : {"idle", "login", "authenticated", "working"},
             user : Users \cup {NoUser}, session : 0..MaxSessions]]
      BY <1>8, <1>0, AccessAssumption DEF Logout, RequestsOK, Idle
    <3>3. survivors' \in [Sessions -> SUBSET Requests]
      BY <1>8, <1>0 DEF Logout, RequestsOK, Under
    <3> QED BY <3>1, <3>2, <3>3 DEF RequestsOK
  <2>3. Named'
    <3> DEFINE s == request[r].session
    <3>1. ASSUME NEW x \in Sessions
          PROVE  /\ session'[x].user = session[x].user
                 /\ session'[x].state = "absent" <=> session[x].state = "absent"
      <4>1. s \in Sessions => session[s].state # "absent"
        BY DEF Inv, Named
      <4> QED BY <4>1, <1>8, <1>0 DEF Logout, RequestsOK
    <3>2. ASSUME NEW q \in Requests
          PROVE  request'[q] = request[q] \/ request'[q] = Idle
      BY <1>8, <1>0 DEF Logout, RequestsOK
    <3> QED BY <3>1, <3>2, NoSessionZero DEF Named, At, Idle, Inv
  <2>4. ASSUME NEW x \in Sessions PROVE Under(x)' \subseteq Under(x) \ {r}
    BY <1>8, <1>0, AccessAssumption
    DEF Logout, Under, RequestsOK, Idle, Sessions
  <2>5. LogoutEndsSession'
    BY <1>8, <1>0, <2>4 DEF LogoutEndsSession, Inv, Logout, RequestsOK
  <2> QED BY <2>2, <2>3, <2>5 DEF SessionInv
<1>9. CASE Restart
  <2>1. RequestsOK' /\ Named'
    BY <1>9, <1>0, AccessAssumption, NoSessionZero
    DEF Restart, RequestsOK, Inv, Named, At, Idle
  <2>2. LogoutEndsSession'
    BY <1>9, AccessAssumption
    DEF Restart, LogoutEndsSession, Under, Idle, Sessions
  <2> QED BY <2>1, <2>2 DEF SessionInv
<1>10. CASE Passing
  BY <1>10, <1>0 DEF Passing, Tick, RequestsOK, Inv, SessionInv, Named, At,
     LogoutEndsSession, Under
<1>11. CASE UNCHANGED vars
  BY <1>11, <1>0 DEF vars, Inv, SessionInv, RequestsOK, Named, At,
     LogoutEndsSession, Under
<1> QED BY <1>1, <1>2, <1>3, <1>4, <1>5, <1>6, <1>7, <1>8, <1>9, <1>10, <1>11
        DEF Next, Anonymous, SignedIn

\* Every step is one of the limiter's, on one of its keys, or none of its
\* business: a route is only entered for a user that a live session named.
LEMMA LimiterStep == ASSUME Inv, [Next]_vars PROVE [LimiterNext]_limiter
<1>1. ASSUME NEW r \in Requests, NEW host \in Hosts, NEW user \in Users,
             Login(r, host, user)
      PROVE  LimiterNext
  BY <1>1 DEF Login, Keys, LimiterNext
<1>2. ASSUME NEW r \in Requests, NEW host \in Hosts, LoginRefused(r, host)
      PROVE  LimiterNext
  BY <1>2 DEF LoginRefused, Keys, LimiterNext
<1>3. ASSUME NEW r \in Requests, NEW route \in Routes,
             Enter(r, route) \/ EnterRefused(r, route)
      PROVE  LimiterNext
  <2>1. <<request[r].user, route>> \in Keys
    BY <1>3 DEF Enter, EnterRefused, Inv, Named, At, Keys
  <2> QED BY <1>3, <2>1 DEF Enter, EnterRefused, LimiterNext
<1>4. ASSUME NEW r \in Requests, NEW s \in Sessions, Authenticate(r, s)
      PROVE  UNCHANGED limiter
  BY <1>4 DEF Authenticate
<1>5. CASE Restart
  BY <1>5 DEF Restart, LimiterNext
<1>6. CASE Passing
  BY <1>6 DEF Passing, LimiterNext
<1>7. CASE UNCHANGED vars
  BY <1>7 DEF vars, limiter
<1>8. ASSUME NEW r \in Requests,
             LoginCommit(r) \/ LoginFails(r) \/ Act(r) \/ Logout(r)
      PROVE  UNCHANGED limiter
  BY <1>8 DEF LoginCommit, LoginFails, Act, Logout
<1> QED BY <1>1, <1>2, <1>3, <1>4, <1>5, <1>6, <1>7, <1>8
        DEF Next, Anonymous, SignedIn

LEMMA InvKept == ASSUME Inv, [Next]_vars PROVE Inv'
<1>1. now' \in {now, now + 1}
  BY LimiterStep DEF LimiterNext, limiter, Admit, Refuse, LimiterRestart, Tick
<1> QED BY <1>1, SessionsKept DEF Inv, SessionInv

LEMMA Invariance == Spec => []Inv
<1>1. Inv /\ [Next]_vars => Inv'
  BY InvKept
<1> QED BY InitInv, <1>1, PTL DEF Spec

---------------------------------------------------------------------------

\* Requests, restarts and time use the limiter as it is meant to be used: what
\* is proved of the limiter alone holds in the API process
\* (api/dependencies.py, enforce_workflow_rate_limit; routes/auth.py).
THEOREM UsesLimiter == Spec => LimiterSpec
<1>1. Init => LimiterInit
  BY DEF Init
<1>2. Inv /\ [Next]_vars => [LimiterNext]_limiter
  BY LimiterStep
<1> QED BY <1>1, <1>2, Invariance, PTL DEF Spec, LimiterSpec

\* The limiter, the rows and the requests keep their types (security.py,
\* services/auth.py).
THEOREM TypeCorrect == Spec => []TypeOK
<1>1. LimiterTypeOK /\ Inv => TypeOK
  BY DEF Inv, RequestsOK, TypeOK
<1> QED BY <1>1, Invariance, UsesLimiter, LimiterTypeCorrect, PTL

\* No client logs in, and no user is served, twice the limit in a stretch of
\* time as long as the window (security.py, check).
THEOREM RequestsThrottled == Spec => []Throttled
BY UsesLimiter, AdmissionsBounded, PTL

\* The table keeps to its bound whoever calls (security.py, check).
THEOREM TableIsBounded == Spec => []TableBounded
BY UsesLimiter, TableStaysBounded, PTL

\* Whoever waits as long as Retry-After said finds the window ended, and
\* waited less than a second too long (security.py, check).
THEOREM RetryAfterIsHonest == Spec => []RetryAfterHonest
BY UsesLimiter, LimiterHonest, PTL

\* After a logout commits only requests that had looked the session up before
\* still act under it (api/dependencies.py, services/auth.py).
THEOREM LogoutIsFinal == Spec => []LogoutEndsSession
<1>1. Inv => LogoutEndsSession
  BY DEF Inv
<1> QED BY <1>1, Invariance, PTL
=============================================================================
