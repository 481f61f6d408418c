---------------------------- MODULE RateLimiter ----------------------------
(***************************************************************************)
(* FixedWindowRateLimiter of backend/app/security.py: one bounded table of *)
(* windows in the memory of the API process, shared by the keys of every   *)
(* limited route.  check() holds an asyncio lock and awaits nothing, so a  *)
(* check is one step.  Time counts clock readings, Rate of them a second,  *)
(* so that a check can fall inside a second.                               *)
(***************************************************************************)
EXTENDS Integers, FiniteSets

CONSTANTS
  Hosts,           \* client addresses: keys of the login routes
  Users,           \* signed-in users
  Routes,          \* the routes limited for each user
  AuthLimit, AuthWindow,           \* admissions, and seconds, of a login key
  WorkflowLimit, WorkflowWindow,   \* the same for a user's route
  MaxKeys,         \* windows the table holds
  CleanupBatch,    \* windows a check looks at for having ended
  Rate,            \* clock readings in a second
  MaxTime          \* bound: the last clock reading

ASSUME LimiterAssumption ==
  /\ {AuthLimit, WorkflowLimit, AuthWindow, WorkflowWindow} \subseteq Nat \ {0}
  /\ {MaxKeys, CleanupBatch, Rate} \subseteq Nat \ {0}
  /\ MaxTime \in Nat

Keys == Hosts \cup (Users \X Routes)

Limit(key) == IF key \in Hosts THEN AuthLimit ELSE WorkflowLimit
Width(key) == Rate * (IF key \in Hosts THEN AuthWindow ELSE WorkflowWindow)

VARIABLES
  now,        \* the monotonic clock
  window,     \* the table: when each key's window ends, and its count
  place,      \* each key's place in the table: 1 for the one inserted or renewed
              \* longest ago, 0 for a key without a window
  admitted,   \* history: each key's admissions in the last Width(key) readings,
              \* since its window was last forgotten early: when, and as which
              \* of its window
  told        \* history: when the key's last refusal said to retry, or 0

limiter == <<now, window, place, admitted, told>>

\* A key that is not in the table.
NoWindow == [expires |-> 0, count |-> 0]

---------------------------------------------------------------------------
(* check() *)

Ended(key) == now >= window[key].expires

Table == {key \in Keys : place[key] > 0}

\* _cleanup: of the first CleanupBatch keys, those whose window has ended.
Cleaned == {key \in Table : place[key] <= CleanupBatch /\ Ended(key)}
Kept    == Table \ Cleaned

Forget(keys) == [key \in Keys |-> IF key \in keys THEN NoWindow ELSE window[key]]

\* The keys that stay, in the order they were in.
Keep(keys) == [key \in Keys |->
  IF key \in keys THEN Cardinality({k \in keys : place[k] <= place[key]}) ELSE 0]

Known(key) == key \in Kept

\* The first of the keys that stay.
Oldest == {key \in Kept : \A other \in Kept : place[key] <= place[other]}

\* Mutant: the table may grow by one key.
EvictedLate(key) ==
  IF ~ Known(key) /\ Cardinality(Kept) > MaxKeys THEN Oldest ELSE {}

\* A new key in a full table takes the place of the oldest.
Evicted(key) ==
  IF ~ Known(key) /\ Cardinality(Kept) >= MaxKeys THEN Oldest ELSE {}

\* Mutant: a renewed window does not count the request that renewed it.
OpenUncounted(key) == [expires |-> now + Width(key), count |-> 0]

Opened(key) == [expires |-> now + Width(key), count |-> 1]

\* History: key is admitted, and the windows of other keys are dropped early.
Record(key, early) ==
  /\ admitted' = [k \in Keys |->
       IF k = key THEN admitted[k] \cup {<<now, window'[key].count>>}
       ELSE IF k \in early THEN {} ELSE admitted[k]]
  /\ told' = [k \in Keys |-> IF k \in early \cup {key} THEN 0 ELSE told[k]]

\* The key has no window, or one that has ended: it gets a new one.
AdmitFresh(key) ==
  LET gone == Cleaned \cup Evicted(key)
      left == Table \ (gone \cup {key})
  IN
  /\ ~ Known(key) \/ Ended(key)
  /\ window' = [Forget(gone) EXCEPT ![key] = Opened(key)]
  /\ place' = [Keep(left) EXCEPT ![key] = Cardinality(left) + 1]
  /\ Record(key, Evicted(key))

\* Mutant: a full window admits one more.
AdmitOneMore(key) ==
  /\ Known(key) /\ ~ Ended(key)
  /\ window[key].count <= Limit(key)
  /\ window' = [Forget(Cleaned) EXCEPT ![key].count = @ + 1]
  /\ place' = Keep(Kept)
  /\ Record(key, {})

\* The key's window is open and has room.
AdmitOpen(key) ==
  /\ Known(key) /\ ~ Ended(key)
  /\ window[key].count < Limit(key)
  /\ window' = [Forget(Cleaned) EXCEPT ![key].count = @ + 1]
  /\ place' = Keep(Kept)
  /\ Record(key, {})

Admit(key) == (AdmitFresh(key) \/ AdmitOpen(key)) /\ UNCHANGED now

CeilDiv(a, b)  == (a + b - 1) \div b

\* Mutant: the seconds left are rounded down.
RetryTooEarly(key) ==
  LET seconds == (window[key].expires - now) \div Rate IN
  IF seconds > 1 THEN seconds ELSE 1

\* Retry-After: the seconds left, rounded up, at least one.
RetryAfter(key) ==
  LET seconds == CeilDiv(window[key].expires - now, Rate) IN
  IF seconds > 1 THEN seconds ELSE 1

\* The window is open and full: 429 with Retry-After.
Refuse(key) ==
  /\ Known(key) /\ ~ Ended(key)
  /\ window[key].count >= Limit(key)
  /\ window' = Forget(Cleaned)
  /\ place' = Keep(Kept)
  /\ told' = [told EXCEPT ![key] = now + Rate * RetryAfter(key)]
  /\ UNCHANGED <<now, admitted>>

---------------------------------------------------------------------------

LimiterInit ==
  /\ now = 0
  /\ window = [key \in Keys |-> NoWindow]
  /\ place = [key \in Keys |-> 0]
  /\ admitted = [key \in Keys |-> {}]
  /\ told = [key \in Keys |-> 0]

\* A new process begins with an empty table.
LimiterRestart ==
  /\ window' = [key \in Keys |-> NoWindow]
  /\ place' = [key \in Keys |-> 0]
  /\ admitted' = [key \in Keys |-> {}]
  /\ told' = [key \in Keys |-> 0]
  /\ UNCHANGED now

Tick ==
  /\ now < MaxTime
  /\ now' = now + 1
  /\ admitted' = [key \in Keys |->
       {one \in admitted[key] : one[1] > now + 1 - Width(key)}]
  /\ UNCHANGED <<window, place, told>>

\* All that can happen to the limiter, whoever uses it.
LimiterNext ==
  \/ \E key \in Keys : Admit(key) \/ Refuse(key)
  \/ LimiterRestart
  \/ Tick

LimiterSpec == LimiterInit /\ [][LimiterNext]_limiter

---------------------------------------------------------------------------
(* Properties *)

\* Windows, places and the history keep their types; no window outlasts its
\* width or counts more than its limit.
LimiterTypeOK ==
  /\ now \in 0..MaxTime
  /\ window \in [Keys -> [expires : Nat, count : Nat]]
  /\ \A key \in Keys : /\ window[key].expires <= now + Width(key)
                       /\ window[key].count <= Limit(key)
  /\ place \in [Keys -> Nat]
  /\ admitted \in [Keys -> SUBSET (Nat \X Nat)]
  /\ told \in [Keys -> Nat]

\* In any stretch of time as long as its window a key is admitted less than
\* twice its limit: the rest of one window and the whole of the next.  Only
\* a window forgotten early (eviction, restart) breaks the bound.
Throttled ==
  \A key \in Keys : Cardinality(admitted[key]) < 2 * Limit(key)

\* The table has one place for each key with a window, leaves no gap in its
\* order and never outgrows its bound, although a check cleans up only part
\* of it.
TableBounded ==
  /\ Cardinality(Table) <= MaxKeys
  /\ {place[key] : key \in Table} = 1..Cardinality(Table)
  /\ {key \in Keys : window[key] # NoWindow} = Table

\* A client that waits as long as Retry-After said finds its window ended,
\* and was made to wait less than a second longer than necessary.
RetryAfterHonest ==
  \A key \in Keys : told[key] # 0 /\ window[key] # NoWindow =>
    /\ told[key] >= window[key].expires
    /\ told[key] - window[key].expires < Rate

=============================================================================
