-------------------------- MODULE RateLimiterProofs --------------------------
(***************************************************************************)
(* Proofs about the rate limiter alone, whoever uses it, for every set of  *)
(* keys (an infinite one too), every limit, width and table size.          *)
(***************************************************************************)
EXTENDS RateLimiter, FiniteSetTheorems, WellFoundedInduction, TLAPS

\* Rounding up: what CeilDiv(a, b) returns, times b, is a or at most b - 1 more.
LEMMA CeilDivBounds ==
  ASSUME NEW a \in Nat, NEW b \in Nat \ {0}
  PROVE  /\ CeilDiv(a, b) \in Nat
         /\ b * CeilDiv(a, b) >= a
         /\ b * CeilDiv(a, b) < a + b
<1> DEFINE c == (a + b - 1) \div b
<1>1. a + b - 1 \in Nat
  OBVIOUS
<1>2. /\ c \in Int
      /\ b * c <= a + b - 1
      /\ a + b - 1 < b * c + b
  BY <1>1, Z3
<1>3. c >= 0
  BY <1>1, Z3
<1> QED BY <1>2, <1>3 DEF CeilDiv

LEMMA WidthType ==
  ASSUME NEW key \in Keys
  PROVE  Width(key) \in Nat \ {0} /\ Limit(key) \in Nat \ {0}
<1>1. /\ Rate \in Nat \ {0} /\ AuthWindow \in Nat \ {0} /\ WorkflowWindow \in Nat \ {0}
      /\ AuthLimit \in Nat \ {0} /\ WorkflowLimit \in Nat \ {0}
  BY LimiterAssumption
<1>2. \A a, b \in Nat \ {0} : a * b \in Nat \ {0}
  OBVIOUS
<1> QED BY <1>1, <1>2 DEF Width, Limit

LEMMA NowType == ASSUME LimiterTypeOK PROVE now \in Nat /\ now <= MaxTime
BY LimiterAssumption DEF LimiterTypeOK

---------------------------------------------------------------------------
(* Type correctness *)

\* What a check leaves of the table: each key's window as it was, or none.
LEMMA Forgotten ==
  ASSUME LimiterTypeOK, NEW keys, NEW key \in Keys
  PROVE  /\ Forget(keys) \in [Keys -> [expires : Nat, count : Nat]]
         /\ Forget(keys)[key] \in {window[key], NoWindow}
         /\ key \notin keys => Forget(keys)[key] = window[key]
         /\ key \in keys => Forget(keys)[key] = NoWindow
BY DEF Forget, LimiterTypeOK, NoWindow

\* A fresh window keeps the bounds of LimiterTypeOK.
LEMMA FreshWindow ==
  ASSUME LimiterTypeOK, NEW key \in Keys
  PROVE  /\ Opened(key) \in [expires : Nat, count : Nat]
         /\ Opened(key).expires = now + Width(key)
         /\ Opened(key).count = 1
         /\ Opened(key).count <= Limit(key)
BY WidthType DEF LimiterTypeOK, Opened

\* Where the places are: only a key of the table has one.
LEMMA TableKeys == Table \subseteq Keys /\ Kept \subseteq Table
BY DEF Table, Kept

\* What an admission leaves in the table.
Left(key) == Table \ (Cleaned \cup Evicted(key) \cup {key})

\* The keys that stay take the places 1..n in the order they had.
LEMMA Ranked ==
  ASSUME LimiterTypeOK, NEW keys \in SUBSET Table, IsFiniteSet(keys),
         \A a, b \in Table : place[a] = place[b] => a = b
  PROVE  /\ Keep(keys) \in [Keys -> Nat]
         /\ \A a \in keys : Keep(keys)[a] \in 1..Cardinality(keys)
         /\ \A a \in Keys \ keys : Keep(keys)[a] = 0
         /\ \A a, b \in keys : Keep(keys)[a] = Keep(keys)[b] => a = b
<1> DEFINE under(a) == {k \in keys : place[k] <= place[a]}
<1>1. \A a \in Keys : place[a] \in Nat
  BY DEF LimiterTypeOK
<1>2. keys \subseteq Keys
  BY TableKeys
<1>3. ASSUME NEW a \in keys
      PROVE  /\ a \in under(a)
             /\ IsFiniteSet(under(a))
             /\ Cardinality(under(a)) \in 1..Cardinality(keys)
             /\ Cardinality(under(a)) \in Nat
  <2>1. a \in under(a)
    BY <1>1, <1>2
  <2>2. IsFiniteSet(under(a)) /\ Cardinality(under(a)) <= Cardinality(keys)
    BY FS_Subset
  <2>3. Cardinality(under(a)) \in Nat /\ Cardinality(keys) \in Nat
    BY <2>2, FS_CardinalityType
  <2>4. Cardinality(under(a)) # 0
    BY <2>1, <2>2, FS_EmptySet
  <2> QED BY <2>1, <2>2, <2>3, <2>4
<1>4. \A a \in keys : Keep(keys)[a] = Cardinality(under(a))
  BY <1>2 DEF Keep
<1>5. \A a \in Keys \ keys : Keep(keys)[a] = 0
  BY DEF Keep
<1>6. ASSUME NEW a \in keys, NEW b \in keys, place[a] <= place[b],
             Keep(keys)[a] = Keep(keys)[b]
      PROVE  a = b
  <2>1. under(a) \subseteq under(b)
    BY <1>1, <1>2, <1>6
  <2>2. under(a) = under(b)
    <3>1. Cardinality(under(b)) = Cardinality(under(a))
      BY <1>4, <1>6
    <3>2. IsFiniteSet(under(b))
      BY <1>3
    <3> HIDE DEF under
    <3> QED BY <2>1, <3>1, <3>2, FS_Subset
  <2>3. place[b] <= place[a]
    BY <2>2, <1>3
  <2> QED BY <2>3, <1>1, <1>2, <1>6
<1>7. ASSUME NEW a \in keys, NEW b \in keys, Keep(keys)[a] = Keep(keys)[b]
      PROVE  a = b
  <2>1. place[a] <= place[b] \/ place[b] <= place[a]
    BY <1>1, <1>2
  <2> QED BY <2>1, <1>6, <1>7
<1>8. Keep(keys) \in [Keys -> Nat]
  <2>1. \A a \in Keys : Keep(keys)[a] \in Nat
    <3> SUFFICES ASSUME NEW a \in Keys PROVE Keep(keys)[a] \in Nat
      OBVIOUS
    <3>1. CASE a \in keys
      BY <3>1, <1>3, <1>4
    <3>2. CASE a \notin keys
      BY <3>2, <1>5
    <3> QED BY <3>1, <3>2
  <2> QED BY <2>1 DEF Keep
<1> QED BY <1>3, <1>4, <1>5, <1>7, <1>8

---------------------------------------------------------------------------
(* The table *)

\* The table is finite and bounded, no two keys share a place, no place is
\* beyond the last, and the keys with a place are those with a window.
Listed ==
  /\ IsFiniteSet(Table)
  /\ Cardinality(Table) <= MaxKeys
  /\ \A a, b \in Table : place[a] = place[b] => a = b
  /\ \A a \in Table : place[a] <= Cardinality(Table)
  /\ \A key \in Keys : window[key] = NoWindow <=> place[key] = 0

\* Listed is what TableBounded needs: so many different places up to so many
\* leave no gap.
LEMMA ListedBounded == ASSUME LimiterTypeOK, Listed PROVE TableBounded
<1> DEFINE n == Cardinality(Table)
           f == [key \in Table |-> place[key]]
<1>1. n \in Nat
  BY FS_CardinalityType DEF Listed
<1>2. \A key \in Table : place[key] \in 1..n
  BY <1>1 DEF Listed, LimiterTypeOK, Table
<1>3. f \in Injection(Table, 1..n)
  <2>1. f \in [Table -> 1..n]
    BY <1>2
  <2>2. \A a, b \in Table : f[a] = f[b] => a = b
    BY DEF Listed
  <2> HIDE DEF f
  <2> QED BY <2>1, <2>2 DEF Injection, IsInjective
<1>4. IsFiniteSet(1..n) /\ Cardinality(1..n) = n
  BY <1>1, FS_Interval
<1>5. f \in Surjection(Table, 1..n)
  BY <1>3, <1>4, FS_Injection
<1>6. {place[key] : key \in Table} = 1..n
  <2>1. \A i \in 1..n : \E key \in Table : place[key] = i
    BY <1>5 DEF Surjection
  <2> QED BY <2>1, <1>2
<1>7. {key \in Keys : window[key] # NoWindow} = Table
  BY DEF Listed, Table, LimiterTypeOK
<1> QED BY <1>6, <1>7 DEF Listed, TableBounded

\* A check that only forgets windows.
LEMMA ForgetListed ==
  ASSUME LimiterTypeOK, Listed, NEW keys \in SUBSET Table,
         place' = Keep(keys),
         \A k \in Keys : window'[k] = NoWindow <=> k \notin keys
  PROVE  Listed'
<1>1. IsFiniteSet(keys) /\ Cardinality(keys) <= Cardinality(Table)
  BY FS_Subset DEF Listed
<1>2. /\ Cardinality(keys) \in Nat /\ Cardinality(Table) \in Nat
      /\ MaxKeys \in Nat
  BY <1>1, FS_CardinalityType, LimiterAssumption DEF Listed
<1>3. /\ \A a \in keys : place'[a] \in 1..Cardinality(keys)
      /\ \A a \in Keys \ keys : place'[a] = 0
      /\ \A a, b \in keys : place'[a] = place'[b] => a = b
  BY <1>1, Ranked DEF Listed
<1>4. Table' = keys
  <2>1. keys \subseteq Keys
    BY TableKeys
  <2> QED BY <1>2, <1>3, <2>1 DEF Table
<1> QED BY <1>1, <1>2, <1>3, <1>4 DEF Listed

\* A key that joins the others at the end.
LEMMA JoinListed ==
  ASSUME LimiterTypeOK, Listed, NEW keys \in SUBSET Table, NEW key \in Keys,
         key \notin keys, Cardinality(keys) < MaxKeys,
         place' = [Keep(keys) EXCEPT ![key] = Cardinality(keys) + 1],
         \A k \in Keys : window'[k] = NoWindow <=> k \notin keys \cup {key}
  PROVE  Listed'
<1> DEFINE n == Cardinality(keys)
           all == keys \cup {key}
<1>1. IsFiniteSet(keys)
  BY FS_Subset DEF Listed
<1>2. n \in Nat /\ MaxKeys \in Nat
  BY <1>1, FS_CardinalityType, LimiterAssumption
<1>3. /\ Keep(keys) \in [Keys -> Nat]
      /\ \A a \in keys : Keep(keys)[a] \in 1..n
      /\ \A a \in Keys \ keys : Keep(keys)[a] = 0
      /\ \A a, b \in keys : Keep(keys)[a] = Keep(keys)[b] => a = b
  BY <1>1, Ranked DEF Listed
<1>4. IsFiniteSet(all) /\ Cardinality(all) = n + 1
  BY <1>1, FS_AddElement
<1> HIDE DEF n
<1>5. /\ \A a \in keys : place'[a] \in 1..n /\ place'[a] = Keep(keys)[a]
      /\ place'[key] = n + 1
      /\ \A a \in Keys \ all : place'[a] = 0
  <2>1. keys \subseteq Keys
    BY TableKeys
  <2> QED BY <1>3, <2>1 DEF n
<1>6. Table' = all
  <2>1. all \subseteq Keys
    BY TableKeys
  <2> QED BY <1>2, <1>5, <2>1 DEF Table
<1>7. \A a, b \in all : place'[a] = place'[b] => a = b
  BY <1>2, <1>3, <1>5
<1>8. \A a \in all : place'[a] <= n + 1
  BY <1>2, <1>5
<1>9. n + 1 <= MaxKeys
  BY <1>2 DEF n
<1>10. \A k \in Keys : window'[k] = NoWindow <=> place'[k] = 0
  BY <1>2, <1>5
<1> QED BY <1>4, <1>6, <1>7, <1>8, <1>9, <1>10 DEF Listed

\* A table that is not empty has an oldest key.
LEMMA OldestExists ==
  ASSUME LimiterTypeOK, Kept # {}
  PROVE  Oldest # {}
<1> DEFINE T == {place[k] : k \in Kept}
<1>1. T \subseteq Nat /\ T # {}
  BY TableKeys DEF LimiterTypeOK
<1> HIDE DEF T
<1>2. PICK m \in T : \A n \in T : ~ (<<n, m>> \in OpToRel(<, Nat))
  BY <1>1, NatLessThanWellFounded, WFMin
<1>3. \A n \in T : m <= n
  <2> SUFFICES ASSUME NEW n \in T PROVE m <= n
    OBVIOUS
  <2>1. m \in Nat /\ n \in Nat
    BY <1>1
  <2>2. ~ (n < m)
    BY <1>2, <2>1 DEF OpToRel
  <2> QED BY <2>1, <2>2
<1>4. PICK key \in Kept : place[key] = m
  BY DEF T
<1>5. key \in Oldest
  BY <1>3, <1>4 DEF Oldest, T
<1> QED BY <1>5

\* What an admission of a key without an open window leaves has room for it.
LEMMA RoomLeft ==
  ASSUME LimiterTypeOK, Listed, NEW key \in Keys, ~ Known(key) \/ Ended(key)
  PROVE  /\ Left(key) \in SUBSET Table
         /\ key \notin Left(key)
         /\ Cardinality(Left(key)) < MaxKeys
<1>1. Left(key) \subseteq Kept \ {key} /\ Kept \subseteq Table
  BY DEF Left, Kept
<1>2. /\ IsFiniteSet(Kept) /\ IsFiniteSet(Left(key))
      /\ Cardinality(Kept) \in Nat /\ Cardinality(Left(key)) \in Nat
      /\ Cardinality(Kept) <= MaxKeys /\ MaxKeys \in Nat \ {0}
  <2>1. IsFiniteSet(Kept) /\ Cardinality(Kept) <= Cardinality(Table)
    BY <1>1, FS_Subset DEF Listed
  <2>2. IsFiniteSet(Left(key))
    BY <1>1, <2>1, FS_Subset
  <2> QED BY <2>1, <2>2, FS_CardinalityType, LimiterAssumption DEF Listed
<1>3. CASE Known(key)
  \* The key's own place is free for it.
  <2>1. key \in Kept
    BY <1>3 DEF Known
  <2>2. /\ IsFiniteSet(Kept \ {key})
        /\ Cardinality(Kept \ {key}) = Cardinality(Kept) - 1
    BY <2>1, <1>2, FS_RemoveElement
  <2>3. Cardinality(Left(key)) <= Cardinality(Kept \ {key})
    BY <1>1, <2>2, FS_Subset
  <2> QED BY <1>1, <1>2, <2>2, <2>3
<1>4. CASE ~ Known(key) /\ Cardinality(Kept) >= MaxKeys
  \* The oldest key is evicted.
  <2>1. Kept # {}
    BY <1>2, <1>4, FS_EmptySet
  <2>2. PICK old \in Oldest : TRUE
    BY <2>1, OldestExists
  <2>3. old \in Kept /\ old \in Evicted(key)
    BY <1>4, <2>2 DEF Evicted, Oldest
  <2>4. Left(key) \subseteq Kept \ {old}
    BY <1>1, <2>3 DEF Left
  <2>5. /\ IsFiniteSet(Kept \ {old})
        /\ Cardinality(Kept \ {old}) = Cardinality(Kept) - 1
    BY <2>3, <1>2, FS_RemoveElement
  <2>6. Cardinality(Left(key)) <= Cardinality(Kept \ {old})
    BY <2>4, <2>5, FS_Subset
  <2> QED BY <1>1, <1>2, <2>5, <2>6
<1>5. CASE ~ Known(key) /\ ~ (Cardinality(Kept) >= MaxKeys)
  <2>1. Cardinality(Left(key)) <= Cardinality(Kept)
    BY <1>1, <1>2, FS_Subset
  <2> QED BY <1>1, <1>2, <1>5, <2>1
<1> QED BY <1>3, <1>4, <1>5
---------------------------------------------------------------------------
(* The admissions *)

\* A key's admissions before its window began, and since.
Start(key)  == window[key].expires - Width(key)
Before(key) == {one \in admitted[key] : one[1] < Start(key)}
Within(key) == {one \in admitted[key] : one[1] >= Start(key)}

\* A window that ended saw the admission that opened it leave the history, so
\* less than the limit are left; the open one counted what it admitted.
CountedOf(key) ==
  /\ IsFiniteSet(admitted[key])
  /\ \A one \in admitted[key] : one[1] <= now /\ one[1] > now - Width(key)
  /\ Ended(key) =>
       /\ \A one \in admitted[key] : one[1] < now
       /\ Cardinality(admitted[key]) < Limit(key)
  /\ ~ Ended(key) =>
       /\ \E one \in Within(key) : one[1] = Start(key)
       /\ \A one \in Within(key) : one[2] <= window[key].count
       /\ Cardinality(Within(key)) <= window[key].count
       /\ Cardinality(Before(key)) < Limit(key)

Counted == \A key \in Keys : CountedOf(key)

\* The numbers that the arithmetic of one key is about.
LEMMA KeyTypes ==
  ASSUME LimiterTypeOK, NEW key \in Keys
  PROVE  /\ now \in Nat /\ Width(key) \in Nat \ {0} /\ Limit(key) \in Nat \ {0}
         /\ window[key].expires \in Nat /\ window[key].count \in Nat
         /\ Start(key) \in Int
         /\ window[key].count <= Limit(key)
         /\ \A one \in admitted[key] : one[1] \in Nat /\ one[2] \in Nat
BY NowType, WidthType DEF LimiterTypeOK, Start

\* Less than the limit from before, at most the limit since.
LEMMA CountedThrottled == ASSUME LimiterTypeOK, Counted PROVE Throttled
<1> SUFFICES ASSUME NEW key \in Keys
             PROVE  Cardinality(admitted[key]) < 2 * Limit(key)
  BY DEF Throttled
<1> DEFINE n == Limit(key)
<1>1. n \in Nat \ {0} /\ CountedOf(key)
  BY WidthType DEF Counted
<1>2. CASE Ended(key)
  <2>1. IsFiniteSet(admitted[key]) /\ Cardinality(admitted[key]) < n
    BY <1>1, <1>2 DEF CountedOf
  <2>2. Cardinality(admitted[key]) \in Nat
    BY <2>1, FS_CardinalityType
  <2> HIDE DEF n
  <2>3. Cardinality(admitted[key]) < 2 * n
    BY <1>1, <2>1, <2>2
  <2> QED BY <2>3 DEF n
<1>3. CASE ~ Ended(key)
  <2>1. admitted[key] = Before(key) \cup Within(key)
    BY KeyTypes DEF Before, Within
  <2>2. Before(key) \cap Within(key) = {}
    BY KeyTypes DEF Before, Within
  <2>3. IsFiniteSet(Before(key)) /\ IsFiniteSet(Within(key))
    BY <1>1, <2>1, FS_Subset DEF CountedOf
  <2>4. Cardinality(admitted[key]) = Cardinality(Before(key)) + Cardinality(Within(key))
    <3>1. Cardinality(Before(key) \cup Within(key)) =
            Cardinality(Before(key)) + Cardinality(Within(key)) - Cardinality({})
      BY <2>2, <2>3, FS_Union
    <3> QED BY <3>1, <2>1, <2>3, FS_EmptySet, FS_CardinalityType
  <2>5. /\ Cardinality(Before(key)) \in Nat /\ Cardinality(Within(key)) \in Nat
        /\ Cardinality(Before(key)) < n /\ Cardinality(Within(key)) <= n
    BY <1>1, <1>3, <2>3, KeyTypes, FS_CardinalityType DEF CountedOf
  <2> HIDE DEF n
  <2>6. Cardinality(admitted[key]) < 2 * n
    BY <1>1, <2>4, <2>5
  <2> QED BY <2>6 DEF n
<1> QED BY <1>2, <1>3

\* A key that the step does not touch, and one whose window it forgets.
LEMMA CountedSame ==
  ASSUME LimiterTypeOK, NEW key \in Keys, CountedOf(key),
         admitted'[key] = admitted[key], window'[key] = window[key], now' = now
  PROVE  CountedOf(key)'
<1>1. /\ Ended(key)' <=> Ended(key)
      /\ Within(key)' = Within(key) /\ Before(key)' = Before(key)
      /\ Start(key)' = Start(key) /\ Width(key)' = Width(key) /\ Limit(key)' = Limit(key)
  BY DEF Ended, Within, Before, Start, Width, Limit
<1> QED BY <1>1 DEF CountedOf

LEMMA CountedForgotten ==
  ASSUME LimiterTypeOK, NEW key \in Keys, CountedOf(key),
         window'[key] = NoWindow, now' = now,
         \/ admitted'[key] = {}
         \/ Ended(key) /\ admitted'[key] = admitted[key]
  PROVE  CountedOf(key)'
<1>1. /\ Width(key)' = Width(key) /\ Limit(key)' = Limit(key)
      /\ Ended(key)'
  BY KeyTypes DEF Ended, Width, Limit, NoWindow
<1>2. CASE admitted'[key] = {}
  BY <1>1, <1>2, KeyTypes, FS_EmptySet DEF CountedOf
<1>3. CASE Ended(key) /\ admitted'[key] = admitted[key]
  BY <1>1, <1>3 DEF CountedOf
<1> QED BY <1>2, <1>3

\* The admission that opens a window: the earlier ones were before it.
LEMMA CountedOpened ==
  ASSUME LimiterTypeOK, NEW key \in Keys, CountedOf(key), Ended(key),
         window'[key] = Opened(key), now' = now,
         admitted'[key] = admitted[key] \cup {<<now, 1>>}
  PROVE  CountedOf(key)'
<1>1. /\ Width(key)' = Width(key) /\ Limit(key)' = Limit(key)
      /\ Start(key)' = now /\ window'[key].count = 1
      /\ ~ Ended(key)'
  BY KeyTypes DEF Start, Width, Limit, Opened, Ended
<1>2. /\ IsFiniteSet(admitted[key]) /\ Cardinality(admitted[key]) < Limit(key)
      /\ \A one \in admitted[key] : one[1] < now /\ one[1] > now - Width(key)
  BY DEF CountedOf
<1>3. IsFiniteSet(admitted'[key])
  BY <1>2, FS_AddElement
<1>4. Before(key)' = admitted[key]
  <2>1. \A one \in admitted'[key] : one[1] < now <=> one \in admitted[key]
    BY <1>2, KeyTypes
  <2> QED BY <2>1, <1>1 DEF Before
<1>5. Within(key)' = {<<now, 1>>}
  <2>1. \A one \in admitted'[key] : one[1] >= now <=> one = <<now, 1>>
    BY <1>2, KeyTypes
  <2>2. <<now, 1>> \in admitted'[key]
    OBVIOUS
  <2> QED BY <2>1, <2>2, <1>1 DEF Within
<1>6. Cardinality({<<now, 1>>}) = 1
  BY FS_Singleton
<1>7. \A one \in admitted'[key] : one[1] <= now /\ one[1] > now - Width(key)
  BY <1>2, KeyTypes
<1> QED BY <1>1, <1>2, <1>3, <1>4, <1>5, <1>6, <1>7 DEF CountedOf

\* One more admission of an open window: its number is new.
LEMMA CountedMore ==
  ASSUME LimiterTypeOK, NEW key \in Keys, CountedOf(key), ~ Ended(key),
         window'[key] = [window[key] EXCEPT !.count = @ + 1], now' = now,
         admitted'[key] = admitted[key] \cup {<<now, window[key].count + 1>>}
  PROVE  CountedOf(key)'
<1> DEFINE new == <<now, window[key].count + 1>>
<1>1. /\ Width(key)' = Width(key) /\ Limit(key)' = Limit(key)
      /\ Start(key)' = Start(key) /\ window'[key].count = window[key].count + 1
      /\ ~ Ended(key)'
  BY KeyTypes DEF Start, Width, Limit, Ended, LimiterTypeOK
<1>2. /\ IsFiniteSet(admitted[key])
      /\ \A one \in admitted[key] : one[1] <= now /\ one[1] > now - Width(key)
      /\ \E one \in Within(key) : one[1] = Start(key)
      /\ \A one \in Within(key) : one[2] <= window[key].count
      /\ Cardinality(Within(key)) <= window[key].count
      /\ Cardinality(Before(key)) < Limit(key)
  BY DEF CountedOf
<1>3. Start(key) <= now
  BY <1>2, KeyTypes DEF Within
<1>4. IsFiniteSet(admitted'[key])
  BY <1>2, FS_AddElement
<1>5. Before(key)' = Before(key)
  BY <1>1, <1>3, KeyTypes DEF Before
<1>6. Within(key)' = Within(key) \cup {new} /\ new \notin Within(key)
  BY <1>1, <1>2, <1>3, KeyTypes DEF Within
<1>7. IsFiniteSet(Within(key))
  BY <1>2, FS_Subset DEF Within
<1>8. Cardinality(Within(key)') = Cardinality(Within(key)) + 1
  BY <1>6, <1>7, FS_AddElement
<1>9. Cardinality(Within(key)') <= window'[key].count
  BY <1>1, <1>2, <1>7, <1>8, KeyTypes, FS_CardinalityType
<1>10. \A one \in Within(key)' : one[2] <= window'[key].count
  BY <1>1, <1>2, <1>6, KeyTypes DEF Within
<1>11. \A one \in admitted'[key] : one[1] <= now /\ one[1] > now - Width(key)
  BY <1>2, KeyTypes
<1> QED BY <1>1, <1>2, <1>4, <1>5, <1>6, <1>9, <1>10, <1>11 DEF CountedOf

\* Time passes: old admissions leave the history; when a window ends, the one
\* that opened it does.
LEMMA CountedTick ==
  ASSUME LimiterTypeOK, NEW key \in Keys, CountedOf(key), Tick
  PROVE  CountedOf(key)'
<1>1. /\ Width(key)' = Width(key) /\ Limit(key)' = Limit(key)
      /\ Start(key)' = Start(key) /\ window' = window /\ now' = now + 1
      /\ admitted'[key] = {one \in admitted[key] : one[1] > now + 1 - Width(key)}
  BY DEF Tick, Start, Width, Limit
<1>2. /\ IsFiniteSet(admitted[key]) /\ IsFiniteSet(admitted'[key])
      /\ Cardinality(admitted'[key]) <= Cardinality(admitted[key])
      /\ Cardinality(admitted'[key]) \in Nat /\ Cardinality(admitted[key]) \in Nat
  <2>1. IsFiniteSet(admitted[key])
    BY DEF CountedOf
  <2>2. admitted'[key] \in SUBSET admitted[key]
    BY <1>1
  <2> QED BY <2>1, <2>2, FS_Subset, FS_CardinalityType
<1>3. \A one \in admitted'[key] : one[1] < now' /\ one[1] > now' - Width(key)
  BY <1>1, KeyTypes DEF CountedOf
<1>4. CASE Ended(key)
  <2>1. Ended(key)'
    BY <1>1, <1>4, KeyTypes DEF Ended
  <2>2. Cardinality(admitted'[key]) < Limit(key)
    BY <1>2, <1>4, KeyTypes DEF CountedOf
  <2> QED BY <1>1, <1>2, <1>3, <2>1, <2>2, KeyTypes DEF CountedOf
<1>5. CASE ~ Ended(key) /\ Ended(key)'
  <2>1. PICK first \in Within(key) : first[1] = Start(key)
    BY <1>5 DEF CountedOf
  <2>2. now + 1 - Width(key) >= Start(key)
    BY <1>1, <1>5, KeyTypes DEF Ended, Start
  <2>3. admitted'[key] \subseteq Within(key) \ {first}
    BY <1>1, <2>1, <2>2, KeyTypes DEF Within
  <2>4. IsFiniteSet(Within(key))
    BY <1>2, FS_Subset DEF Within
  <2>5. /\ IsFiniteSet(Within(key) \ {first})
        /\ Cardinality(Within(key) \ {first}) = Cardinality(Within(key)) - 1
    BY <2>1, <2>4, FS_RemoveElement
  <2>6. Cardinality(admitted'[key]) <= Cardinality(Within(key)) - 1
    BY <2>3, <2>5, FS_Subset
  <2>7. Cardinality(Within(key)) <= window[key].count
    BY <1>5 DEF CountedOf
  <2>8. Cardinality(admitted'[key]) < Limit(key)
    BY <1>2, <2>4, <2>6, <2>7, KeyTypes, FS_CardinalityType
  <2> QED BY <1>1, <1>2, <1>3, <1>5, <2>8, KeyTypes DEF CountedOf
<1>6. CASE ~ Ended(key) /\ ~ Ended(key)'
  <2>1. Start(key) > now + 1 - Width(key)
    BY <1>1, <1>6, KeyTypes DEF Ended, Start
  <2>2. Within(key)' = Within(key)
    BY <1>1, <2>1, KeyTypes DEF Within
  <2>3. Before(key)' \subseteq Before(key)
    BY <1>1 DEF Before
  <2>4. IsFiniteSet(Before(key))
    BY <1>2, FS_Subset DEF Before
  <2>5. /\ Cardinality(Before(key)') <= Cardinality(Before(key))
        /\ Cardinality(Before(key)') \in Nat /\ Cardinality(Before(key)) \in Nat
    BY <2>3, <2>4, FS_Subset, FS_CardinalityType
  <2>6. Cardinality(Before(key)') < Limit(key)
    BY <2>5, <1>6, KeyTypes DEF CountedOf
  <2> QED BY <1>1, <1>2, <1>3, <1>6, <2>2, <2>6, KeyTypes DEF CountedOf
<1> QED BY <1>4, <1>5, <1>6
---------------------------------------------------------------------------
(* The steps *)

LimiterInv == LimiterTypeOK /\ Listed /\ Counted /\ RetryAfterHonest

LEMMA LimiterInitInv == LimiterInit => LimiterInv
<1> SUFFICES ASSUME LimiterInit PROVE LimiterInv
  OBVIOUS
<1>1. LimiterTypeOK
  BY WidthType, LimiterAssumption DEF LimiterInit, LimiterTypeOK, NoWindow
<1>2. Listed
  <2>1. Table = {}
    BY DEF LimiterInit, Table
  <2>2. MaxKeys \in Nat
    BY LimiterAssumption
  <2> QED BY <2>1, <2>2, FS_EmptySet DEF Listed, LimiterInit
<1>3. Counted
  BY KeyTypes, <1>1, FS_EmptySet DEF Counted, CountedOf, LimiterInit, Ended, NoWindow
<1>4. RetryAfterHonest
  BY DEF LimiterInit, RetryAfterHonest
<1> QED BY <1>1, <1>2, <1>3, <1>4 DEF LimiterInv

\* What an admission does to the windows of the other keys.
LEMMA OthersAtAdmit ==
  ASSUME LimiterTypeOK, NEW key \in Keys, Admit(key), NEW k \in Keys, k # key
  PROVE  /\ window'[k] \in {window[k], NoWindow}
         /\ told'[k] \in {told[k], 0}
         /\ \/ window'[k] = window[k] /\ admitted'[k] = admitted[k]
            \/ window'[k] = NoWindow /\ admitted'[k] = {}
            \/ window'[k] = NoWindow /\ admitted'[k] = admitted[k] /\ Ended(k)
<1>1. told'[k] \in {told[k], 0}
  BY DEF Admit, AdmitFresh, AdmitOpen, Record
<1>2. CASE AdmitFresh(key)
  <2> DEFINE gone == Cleaned \cup Evicted(key)
  <2>1. window' = [Forget(gone) EXCEPT ![key] = Opened(key)]
    BY <1>2 DEF AdmitFresh
  <2>2. admitted'[k] = IF k \in Evicted(key) THEN {} ELSE admitted[k]
    BY <1>2 DEF AdmitFresh, Record
  <2>3. window'[k] = Forget(gone)[k]
    BY <2>1 DEF Forget
  <2>4. k \in Cleaned => Ended(k)
    BY DEF Cleaned
  <2> QED BY <1>1, <2>2, <2>3, <2>4, Forgotten
<1>3. CASE AdmitOpen(key)
  <2>1. window' = [Forget(Cleaned) EXCEPT ![key].count = @ + 1]
    BY <1>3 DEF AdmitOpen
  <2>2. admitted'[k] = admitted[k]
    BY <1>3 DEF AdmitOpen, Record
  <2>3. window'[k] = Forget(Cleaned)[k]
    BY <2>1 DEF Forget
  <2>4. k \in Cleaned => Ended(k)
    BY DEF Cleaned
  <2> QED BY <1>1, <2>2, <2>3, <2>4, Forgotten
<1> QED BY <1>2, <1>3 DEF Admit

\* What an admission does to its own key.
LEMMA OwnFresh ==
  ASSUME LimiterTypeOK, NEW key \in Keys, AdmitFresh(key)
  PROVE  /\ window' = [Forget(Cleaned \cup Evicted(key)) EXCEPT ![key] = Opened(key)]
         /\ window'[key] = Opened(key) /\ window'[key].count = 1
         /\ admitted'[key] = admitted[key] \cup {<<now, 1>>}
         /\ told'[key] = 0
<1>1. window' = [Forget(Cleaned \cup Evicted(key)) EXCEPT ![key] = Opened(key)]
  BY DEF AdmitFresh
<1>2. window'[key] = Opened(key)
  BY <1>1 DEF Forget
<1>3. admitted'[key] = admitted[key] \cup {<<now, window'[key].count>>}
  BY DEF AdmitFresh, Record
<1> QED BY <1>1, <1>2, <1>3, FreshWindow DEF AdmitFresh, Record

LEMMA OwnOpen ==
  ASSUME LimiterTypeOK, NEW key \in Keys, AdmitOpen(key)
  PROVE  /\ window' = [Forget(Cleaned) EXCEPT ![key].count = @ + 1]
         /\ window'[key] = [window[key] EXCEPT !.count = @ + 1]
         /\ window'[key].count = window[key].count + 1
         /\ window'[key].expires = window[key].expires
         /\ admitted'[key] = admitted[key] \cup {<<now, window[key].count + 1>>}
         /\ told'[key] = 0
         /\ ~ Ended(key) /\ window[key].count < Limit(key)
<1>1. window' = [Forget(Cleaned) EXCEPT ![key].count = @ + 1]
  BY DEF AdmitOpen
<1>2. key \notin Cleaned /\ Forget(Cleaned)[key] = window[key]
  BY Forgotten DEF AdmitOpen, Known, Kept
<1>3. window'[key] = [window[key] EXCEPT !.count = @ + 1]
  BY <1>1, <1>2 DEF Forget
<1>4. /\ window'[key].count = window[key].count + 1
      /\ window'[key].expires = window[key].expires
  BY <1>3 DEF LimiterTypeOK
<1>5. admitted'[key] = admitted[key] \cup {<<now, window'[key].count>>}
  BY DEF AdmitOpen, Record
<1> QED BY <1>1, <1>3, <1>4, <1>5 DEF AdmitOpen, Record

\* A key without a window, or with one that ended, is admitted afresh.
LEMMA FreshEnded ==
  ASSUME LimiterTypeOK, Listed, NEW key \in Keys, ~ Known(key) \/ Ended(key)
  PROVE  Ended(key)
<1>1. CASE key \notin Table
  <2>1. window[key] = NoWindow
    BY <1>1 DEF Table, Listed, LimiterTypeOK
  <2> QED BY <2>1, KeyTypes DEF Ended, NoWindow
<1>2. CASE key \in Cleaned
  BY <1>2 DEF Cleaned
<1> QED BY <1>1, <1>2 DEF Known, Kept

LEMMA AdmitTypes ==
  ASSUME LimiterTypeOK, Listed, NEW key \in Keys, Admit(key)
  PROVE  LimiterTypeOK'
<1>1. now' = now /\ now \in 0..MaxTime
  BY DEF Admit, LimiterTypeOK
<1>2. told' \in [Keys -> Nat]
  BY DEF Admit, AdmitFresh, AdmitOpen, Record, LimiterTypeOK
<1>3. ASSUME NEW k \in Keys, k # key
      PROVE  window'[k].expires <= now + Width(k) /\ window'[k].count <= Limit(k)
  BY <1>3, OthersAtAdmit, KeyTypes DEF LimiterTypeOK, NoWindow
<1>4. /\ window' \in [Keys -> [expires : Nat, count : Nat]]
      /\ window'[key].expires <= now + Width(key)
      /\ window'[key].count <= Limit(key)
      /\ place' \in [Keys -> Nat]
      /\ window'[key].count \in Nat
  <2>1. CASE AdmitFresh(key)
    <3> DEFINE left == Forget(Cleaned \cup Evicted(key))
    <3>1. left \in [Keys -> [expires : Nat, count : Nat]]
      BY Forgotten
    <3>2. window' = [left EXCEPT ![key] = Opened(key)]
      BY <2>1, OwnFresh
    <3> HIDE DEF left
    <3>3. window' \in [Keys -> [expires : Nat, count : Nat]]
      BY <3>1, <3>2, FreshWindow
    <3>4. place' \in [Keys -> Nat]
      <4>1. place' = [Keep(Left(key)) EXCEPT ![key] = Cardinality(Left(key)) + 1]
        BY <2>1 DEF AdmitFresh, Left
      <4>2. Left(key) \in SUBSET Table /\ IsFiniteSet(Left(key))
        BY <2>1, RoomLeft, FS_Subset DEF AdmitFresh, Listed
      <4>3. Keep(Left(key)) \in [Keys -> Nat]
        BY <4>2, Ranked DEF Listed
      <4>4. Cardinality(Left(key)) \in Nat
        BY <4>2, FS_CardinalityType
      <4> QED BY <4>1, <4>3, <4>4
    <3>5. window'[key] = Opened(key)
      BY <2>1, OwnFresh
    <3> QED BY <3>3, <3>4, <3>5, FreshWindow, KeyTypes
  <2>2. CASE AdmitOpen(key)
    <3> DEFINE left == Forget(Cleaned)
    <3>1. left \in [Keys -> [expires : Nat, count : Nat]]
      BY Forgotten
    <3>2. window' = [left EXCEPT ![key].count = @ + 1]
      BY <2>2, OwnOpen
    <3> HIDE DEF left
    <3>3. window' \in [Keys -> [expires : Nat, count : Nat]]
      BY <3>1, <3>2
    <3>4. place' \in [Keys -> Nat]
      <4>1. place' = Keep(Kept)
        BY <2>2 DEF AdmitOpen
      <4>2. Kept \in SUBSET Table /\ IsFiniteSet(Kept)
        BY TableKeys, FS_Subset DEF Listed
      <4> QED BY <4>1, <4>2, Ranked DEF Listed
    <3>5. /\ window'[key].expires = window[key].expires
          /\ window'[key].count = window[key].count + 1
          /\ window[key].count < Limit(key)
      BY <2>2, OwnOpen
    <3> QED BY <3>3, <3>4, <3>5, KeyTypes DEF LimiterTypeOK
  <2> QED BY <2>1, <2>2 DEF Admit
<1>5. admitted' \in [Keys -> SUBSET (Nat \X Nat)]
  <2>1. admitted' = [k \in Keys |->
          IF k = key THEN admitted[k] \cup {<<now, window'[key].count>>}
          ELSE admitted'[k]]
    BY DEF Admit, AdmitFresh, AdmitOpen, Record
  <2>2. \A k \in Keys : k # key => admitted'[k] \in {admitted[k], {}}
    BY OthersAtAdmit
  <2> QED BY <2>1, <2>2, <1>1, <1>4, NowType DEF LimiterTypeOK
<1> QED BY <1>1, <1>2, <1>3, <1>4, <1>5 DEF LimiterTypeOK, Width, Limit

LEMMA AdmitListed ==
  ASSUME LimiterTypeOK, Listed, NEW key \in Keys, Admit(key)
  PROVE  Listed'
<1>1. CASE AdmitFresh(key)
  <2> DEFINE gone == Cleaned \cup Evicted(key)
  <2>1. /\ Left(key) \in SUBSET Table /\ key \notin Left(key)
        /\ Cardinality(Left(key)) < MaxKeys
    BY <1>1, RoomLeft DEF AdmitFresh
  <2>2. place' = [Keep(Left(key)) EXCEPT ![key] = Cardinality(Left(key)) + 1]
    BY <1>1 DEF AdmitFresh, Left
  <2>3. ASSUME NEW k \in Keys
        PROVE  window'[k] = NoWindow <=> k \notin Left(key) \cup {key}
    <3>1. CASE k = key
      <4>1. window'[key].count = 1
        BY <1>1, OwnFresh
      <4> QED BY <4>1, <3>1 DEF NoWindow
    <3>2. CASE k # key
      <4>1. window'[k] = Forget(gone)[k]
        BY <1>1, <3>2, OwnFresh DEF Forget
      <4>2. k \in Table <=> window[k] # NoWindow
        BY DEF Table, Listed, LimiterTypeOK
      <4>3. k \in Left(key) <=> k \in Table /\ k \notin gone
        BY <3>2 DEF Left
      <4> QED BY <3>2, <4>1, <4>2, <4>3, Forgotten
    <3> QED BY <3>1, <3>2
  <2> QED BY <2>1, <2>2, <2>3, JoinListed
<1>2. CASE AdmitOpen(key)
  <2>1. Kept \in SUBSET Table /\ place' = Keep(Kept) /\ key \in Kept
    BY <1>2, TableKeys DEF AdmitOpen, Known
  <2>2. ASSUME NEW k \in Keys
        PROVE  window'[k] = NoWindow <=> k \notin Kept
    <3>1. CASE k = key
      <4>1. window'[key].count = window[key].count + 1
        BY <1>2, OwnOpen
      <4> QED BY <4>1, <3>1, <2>1, KeyTypes DEF NoWindow
    <3>2. CASE k # key
      <4>1. window'[k] = Forget(Cleaned)[k]
        BY <1>2, <3>2, OwnOpen DEF Forget
      <4>2. k \in Table <=> window[k] # NoWindow
        BY DEF Table, Listed, LimiterTypeOK
      <4> QED BY <4>1, <4>2, Forgotten DEF Kept
    <3> QED BY <3>1, <3>2
  <2> QED BY <2>1, <2>2, ForgetListed
<1> QED BY <1>1, <1>2 DEF Admit

LEMMA AdmitCounted ==
  ASSUME LimiterTypeOK, Listed, Counted, NEW key \in Keys, Admit(key)
  PROVE  Counted'
<1> SUFFICES ASSUME NEW k \in Keys PROVE CountedOf(k)'
  BY DEF Counted
<1>1. now' = now /\ CountedOf(k)
  BY DEF Admit, Counted
<1>2. CASE k # key
  BY <1>1, <1>2, OthersAtAdmit, CountedSame, CountedForgotten
<1>3. CASE k = key /\ AdmitFresh(key)
  <2>1. Ended(key)
    BY <1>3, FreshEnded DEF AdmitFresh
  <2> QED BY <1>1, <1>3, <2>1, OwnFresh, CountedOpened
<1>4. CASE k = key /\ AdmitOpen(key)
  BY <1>1, <1>4, OwnOpen, CountedMore
<1> QED BY <1>2, <1>3, <1>4 DEF Admit

\* An admitted key has been told nothing.
LEMMA AdmitHonest ==
  ASSUME LimiterTypeOK, RetryAfterHonest, NEW key \in Keys, Admit(key)
  PROVE  RetryAfterHonest'
<1> SUFFICES ASSUME NEW k \in Keys, told'[k] # 0, window'[k] # NoWindow
             PROVE  /\ told'[k] >= window'[k].expires
                    /\ told'[k] - window'[k].expires < Rate
  BY DEF RetryAfterHonest
<1>1. k # key
  BY OwnFresh, OwnOpen DEF Admit
<1>2. window'[k] = window[k] /\ told'[k] = told[k]
  BY <1>1, OthersAtAdmit
<1> QED BY <1>2 DEF RetryAfterHonest

LEMMA RefuseKeeps ==
  ASSUME LimiterTypeOK, Listed, Counted, RetryAfterHonest,
         NEW key \in Keys, Refuse(key)
  PROVE  LimiterInv'
<1> DEFINE left == window[key].expires - now
           seconds == CeilDiv(left, Rate)
           wait == Rate * seconds
<1>1. /\ now' = now /\ now \in 0..MaxTime /\ now \in Nat
      /\ window' = Forget(Cleaned) /\ place' = Keep(Kept) /\ admitted' = admitted
      /\ told' = [told EXCEPT ![key] = now + Rate * RetryAfter(key)]
      /\ key \notin Cleaned
  BY NowType DEF Refuse, Known, Kept, LimiterTypeOK
<1>2. /\ window' \in [Keys -> [expires : Nat, count : Nat]]
      /\ \A k \in Keys : window'[k] \in {window[k], NoWindow}
      /\ \A k \in Cleaned : window'[k] = NoWindow
      /\ \A k \in Keys \ Cleaned : window'[k] = window[k]
  BY <1>1, Forgotten, TableKeys DEF Cleaned
<1>3. /\ left \in Nat /\ left > 0
      /\ seconds \in Nat /\ Rate * seconds >= left /\ Rate * seconds < left + Rate
      /\ Rate \in Nat \ {0}
  <2>1. left \in Nat /\ left > 0
    BY KeyTypes DEF Refuse, Ended
  <2> QED BY <2>1, CeilDivBounds, LimiterAssumption
<1>4. RetryAfter(key) = seconds
  <2>1. seconds # 0
    BY <1>3
  <2> QED BY <2>1, <1>3 DEF RetryAfter
<1>5. /\ wait \in Nat /\ wait >= left /\ wait < left + Rate
      /\ told' = [told EXCEPT ![key] = now + wait]
  BY <1>1, <1>3, <1>4
<1> HIDE DEF seconds, wait
<1>6. LimiterTypeOK'
  <2>1. \A k \in Keys : /\ window'[k].expires <= now + Width(k)
                        /\ window'[k].count <= Limit(k)
    BY <1>2, KeyTypes DEF LimiterTypeOK, NoWindow
  <2>2. told' \in [Keys -> Nat]
    BY <1>1, <1>5 DEF LimiterTypeOK
  <2>3. place' \in [Keys -> Nat]
    <3>1. Kept \in SUBSET Table /\ IsFiniteSet(Kept)
      BY TableKeys, FS_Subset DEF Listed
    <3> QED BY <3>1, <1>1, Ranked DEF Listed
  <2> QED BY <1>1, <1>2, <2>1, <2>2, <2>3 DEF LimiterTypeOK, Width, Limit
<1>7. Listed'
  <2>1. Kept \in SUBSET Table
    BY TableKeys
  <2>2. ASSUME NEW k \in Keys PROVE window'[k] = NoWindow <=> k \notin Kept
    <3>1. k \in Table <=> window[k] # NoWindow
      BY DEF Table, Listed, LimiterTypeOK
    <3> QED BY <3>1, <1>2 DEF Kept
  <2> QED BY <1>1, <2>1, <2>2, ForgetListed
<1>8. Counted'
  <2> SUFFICES ASSUME NEW k \in Keys PROVE CountedOf(k)'
    BY DEF Counted
  <2>1. CASE k \in Cleaned
    BY <1>1, <1>2, <2>1, CountedForgotten DEF Cleaned, Counted
  <2>2. CASE k \notin Cleaned
    BY <1>1, <1>2, <2>2, CountedSame DEF Counted
  <2> QED BY <2>1, <2>2
<1>9. RetryAfterHonest'
  <2> SUFFICES ASSUME NEW k \in Keys, told'[k] # 0, window'[k] # NoWindow
               PROVE  /\ told'[k] >= window'[k].expires
                      /\ told'[k] - window'[k].expires < Rate
    BY DEF RetryAfterHonest
  <2>1. window'[k] = window[k]
    BY <1>2
  <2>2. CASE k # key
    BY <2>1, <2>2, <1>5 DEF RetryAfterHonest
  <2>3. CASE k = key
    BY <2>1, <2>3, <1>1, <1>3, <1>5, KeyTypes DEF LimiterTypeOK
  <2> QED BY <2>2, <2>3
<1> QED BY <1>6, <1>7, <1>8, <1>9 DEF LimiterInv

LEMMA TickKeeps == ASSUME LimiterInv, Tick PROVE LimiterInv'
<1>1. /\ now \in Nat /\ now' = now + 1 /\ now' \in 0..MaxTime
      /\ window' = window /\ place' = place /\ told' = told
  BY NowType, LimiterAssumption DEF Tick, LimiterInv
<1>2. LimiterTypeOK'
  <2>1. \A k \in Keys : /\ window'[k].expires <= now' + Width(k)
                        /\ window'[k].count <= Limit(k)
    BY <1>1, KeyTypes DEF LimiterInv, LimiterTypeOK
  <2>2. admitted' \in [Keys -> SUBSET (Nat \X Nat)]
    BY DEF Tick, LimiterInv, LimiterTypeOK
  <2> QED BY <1>1, <2>1, <2>2 DEF LimiterInv, LimiterTypeOK, Width, Limit
<1>3. Listed'
  BY <1>1 DEF LimiterInv, Listed, Table
<1>4. Counted'
  BY CountedTick DEF Counted, LimiterInv
<1>5. RetryAfterHonest'
  BY <1>1 DEF LimiterInv, RetryAfterHonest
<1> QED BY <1>2, <1>3, <1>4, <1>5 DEF LimiterInv

\* A restart is a beginning at a later time.
LEMMA RestartKeeps == ASSUME LimiterInv, LimiterRestart PROVE LimiterInv'
<1>1. LimiterTypeOK'
  BY KeyTypes DEF LimiterInv, LimiterTypeOK, LimiterRestart, NoWindow, Width, Limit
<1>2. Listed'
  <2>1. Table' = {}
    BY DEF LimiterRestart, Table
  <2>2. MaxKeys \in Nat
    BY LimiterAssumption
  <2> QED BY <2>1, <2>2, FS_EmptySet DEF Listed, LimiterRestart
<1>3. Counted'
  <2> SUFFICES ASSUME NEW k \in Keys PROVE CountedOf(k)'
    BY DEF Counted
  <2> QED BY CountedForgotten DEF LimiterRestart, LimiterInv, Counted
<1>4. RetryAfterHonest'
  BY DEF LimiterRestart, RetryAfterHonest
<1> QED BY <1>1, <1>2, <1>3, <1>4 DEF LimiterInv

LEMMA LimiterInvariance == LimiterSpec => []LimiterInv
<1>1. LimiterInv /\ [LimiterNext]_limiter => LimiterInv'
  <2> SUFFICES ASSUME LimiterInv, [LimiterNext]_limiter PROVE LimiterInv'
    OBVIOUS
  <2>1. ASSUME NEW key \in Keys, Admit(key) PROVE LimiterInv'
    BY <2>1, AdmitTypes, AdmitListed, AdmitCounted, AdmitHonest DEF LimiterInv
  <2>2. ASSUME NEW key \in Keys, Refuse(key) PROVE LimiterInv'
    BY <2>2, RefuseKeeps DEF LimiterInv
  <2>3. CASE UNCHANGED limiter
    <3>1. LimiterTypeOK' /\ RetryAfterHonest' /\ Listed'
      BY <2>3 DEF limiter, LimiterInv, LimiterTypeOK, RetryAfterHonest, Listed,
                  Table, Width, Limit
    <3>2. Counted'
      BY <2>3, CountedSame DEF limiter, LimiterInv, Counted
    <3> QED BY <3>1, <3>2 DEF LimiterInv
  <2> QED BY <2>1, <2>2, <2>3, TickKeeps, RestartKeeps DEF LimiterNext
<1> QED BY LimiterInitInv, <1>1, PTL DEF LimiterSpec

---------------------------------------------------------------------------

\* Windows never outlast their width or count more than their limit
\* (security.py, check).
THEOREM LimiterTypeCorrect == LimiterSpec => []LimiterTypeOK
<1>1. LimiterInv => LimiterTypeOK
  BY DEF LimiterInv
<1> QED BY <1>1, LimiterInvariance, PTL

\* No key is admitted twice its limit in a stretch of time as long as its
\* window, unless its window was forgotten early (security.py, check).
THEOREM AdmissionsBounded == LimiterSpec => []Throttled
<1>1. LimiterInv => Throttled
  BY CountedThrottled DEF LimiterInv
<1> QED BY <1>1, LimiterInvariance, PTL

\* The table keeps to its bound whatever the keys are, with no gap in its
\* order (security.py, _cleanup and the eviction in check).
THEOREM TableStaysBounded == LimiterSpec => []TableBounded
<1>1. LimiterInv => TableBounded
  BY ListedBounded DEF LimiterInv
<1> QED BY <1>1, LimiterInvariance, PTL

\* Whoever waits as long as Retry-After said finds the window ended, and
\* waited less than a second too long (security.py, check).
THEOREM LimiterHonest == LimiterSpec => []RetryAfterHonest
<1>1. LimiterInv => RetryAfterHonest
  BY DEF LimiterInv
<1> QED BY <1>1, LimiterInvariance, PTL

=============================================================================
