------------------------------- MODULE Access -------------------------------
(***************************************************************************)
(* How a request reaches a service: services/auth.py, repositories/auth.py *)
(* and api/dependencies.py over the limiter of security.py.                *)
(*                                                                         *)
(* A request looks its session up once, when it begins; the handler then   *)
(* awaits the database, and what it does commits later.  Logging in is     *)
(* limited for each client address, the workflow routes for each user.     *)
(* Clock and database share one clock.  A restart of the API process       *)
(* empties the limiter and ends its requests; sessions are rows and stay.  *)
(*                                                                         *)
(* Left out: passwords and tokens (a login succeeds or fails), the CSRF    *)
(* token (a request without it ends at once), cookies, audit rows.         *)
(***************************************************************************)
EXTENDS RateLimiter

CONSTANTS
  Requests,       \* requests in flight at one time
  NoUser,         \* not a user
  SessionTime,    \* clock readings a session lives
  MaxSessions     \* bound: sessions ever created

ASSUME AccessAssumption ==
  SessionTime \in Nat \ {0} /\ MaxSessions \in Nat /\ NoUser \notin Users

Sessions == 1..MaxSessions

VARIABLES
  session,    \* the sessions rows: their user, expiry and revocation
  request,    \* what each request has done so far
  survivors   \* history: requests still under a session when it was revoked

vars == <<now, window, place, admitted, told, session, request, survivors>>

---------------------------------------------------------------------------
(* Rows and requests *)

Row(state, user, expires) ==
  [state |-> state, user |-> user, expires |-> expires]

NoSession == Row("absent", NoUser, 0)
Idle      == [pc |-> "idle", user |-> NoUser, session |-> 0]

At(r, pc) == request[r].pc = pc
Under(s)  == {r \in Requests : request[r].session = s}
Finish(r) ==
  /\ request' = [request EXCEPT ![r] = Idle]
  /\ survivors' = [s \in Sessions |-> survivors[s] \ {r}]

\* Mutant: a revoked session is found as well.
LiveOrRevoked(s) == session[s].state # "absent" /\ session[s].expires > now

\* get_active_session.
Live(s) == session[s].state = "active" /\ session[s].expires > now

---------------------------------------------------------------------------
(* /auth/login and /auth/demo *)

Login(r, host, user) ==
  /\ At(r, "idle")
  /\ Admit(host)
  /\ request' = [request EXCEPT ![r].pc = "login", ![r].user = user]
  /\ UNCHANGED <<session, survivors>>

LoginRefused(r, host) ==
  /\ At(r, "idle")
  /\ Refuse(host)
  /\ UNCHANGED <<session, request, survivors>>

\* Sessions are numbered in the order they are committed.
LoginCommit(r) ==
  /\ At(r, "login")
  /\ \E s \in Sessions :
       /\ session[s] = NoSession
       /\ \A other \in Sessions : other < s => session[other] # NoSession
       /\ session' = [session EXCEPT
            ![s] = Row("active", request[r].user, now + SessionTime)]
  /\ Finish(r)
  /\ UNCHANGED limiter

\* Unknown user, inactive user or wrong password.
LoginFails(r) ==
  /\ At(r, "login")
  /\ Finish(r)
  /\ UNCHANGED <<limiter, session>>

---------------------------------------------------------------------------
(* Requests under a session *)

\* get_current_auth; a session that is not live ends the request at once.
Authenticate(r, s) ==
  /\ At(r, "idle")
  /\ Live(s)
  /\ request' = [request EXCEPT ![r].pc = "authenticated",
       ![r].session = s, ![r].user = session[s].user]
  /\ UNCHANGED <<limiter, session, survivors>>

\* enforce_workflow_rate_limit, in a handler of a limited route.
Enter(r, route) ==
  /\ At(r, "authenticated")
  /\ Admit(<<request[r].user, route>>)
  /\ request' = [request EXCEPT ![r].pc = "working"]
  /\ UNCHANGED <<session, survivors>>

EnterRefused(r, route) ==
  /\ At(r, "authenticated")
  /\ Refuse(<<request[r].user, route>>)
  /\ Finish(r)
  /\ UNCHANGED session

\* The handler commits what it was asked to do, whatever became of the
\* session meanwhile; routes without a limit come here directly.
Act(r) ==
  /\ At(r, "authenticated") \/ At(r, "working")
  /\ Finish(r)
  /\ UNCHANGED <<limiter, session>>

\* AuthService.logout.
Logout(r) ==
  LET s == request[r].session IN
  /\ At(r, "authenticated")
  /\ session' = [session EXCEPT ![s].state = "revoked"]
  /\ request' = [request EXCEPT ![r] = Idle]
  /\ survivors' = [x \in Sessions |->
       IF x = s /\ session[s].state # "revoked" THEN Under(s) \ {r}
       ELSE survivors[x] \ {r}]
  /\ UNCHANGED limiter

\* The API process ends and another starts.
Restart ==
  /\ LimiterRestart
  /\ request' = [r \in Requests |-> Idle]
  /\ survivors' = [s \in Sessions |-> {}]
  /\ UNCHANGED session

---------------------------------------------------------------------------

Init ==
  /\ LimiterInit
  /\ session = [s \in Sessions |-> NoSession]
  /\ request = [r \in Requests |-> Idle]
  /\ survivors = [s \in Sessions |-> {}]

Anonymous(r) ==
  \/ \E host \in Hosts, user \in Users : Login(r, host, user)
  \/ \E host \in Hosts : LoginRefused(r, host)
  \/ LoginCommit(r)
  \/ LoginFails(r)

SignedIn(r) ==
  \/ \E s \in Sessions : Authenticate(r, s)
  \/ \E route \in Routes : Enter(r, route) \/ EnterRefused(r, route)
  \/ Act(r)
  \/ Logout(r)

Passing == Tick /\ UNCHANGED <<session, request, survivors>>

Next ==
  \/ \E r \in Requests : Anonymous(r) \/ SignedIn(r)
  \/ Restart
  \/ Passing

Spec == Init /\ [][Next]_vars

---------------------------------------------------------------------------
(* Properties *)

\* The limiter, the rows and the requests keep their types.
TypeOK ==
  /\ LimiterTypeOK
  /\ session \in [Sessions -> [state : {"absent", "active", "revoked"},
                               user : Users \cup {NoUser}, expires : Nat]]
  /\ request \in [Requests ->
       [pc : {"idle", "login", "authenticated", "working"},
        user : Users \cup {NoUser}, session : 0..MaxSessions]]
  /\ survivors \in [Sessions -> SUBSET Requests]

\* Once a logout has committed, the only requests of the session that can
\* still act are those that had looked it up before.
LogoutEndsSession ==
  \A s \in Sessions : session[s].state = "revoked" => Under(s) \subseteq survivors[s]

=============================================================================
