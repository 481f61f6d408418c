--------------------------- MODULE MigrationProofs ----------------------------
(***************************************************************************)
(* Proofs about the schema: what every revision of Migrations leaves, from *)
(* any rows that its database can have, and so what Deployment does with   *)
(* them.                                                                   *)
(***************************************************************************)
EXTENDS DeploymentProofs

---------------------------------------------------------------------------
(* Running statements                                                      *)

LEMMA LeastOf ==
  ASSUME NEW T, T \subseteq Nat, T # {}
  PROVE  \E m \in T : \A n \in T : m <= n
<1>1. PICK m \in T : \A n \in T : ~ (<<n, m>> \in OpToRel(<, Nat))
  BY NatLessThanWellFounded, WFMin
<1>2. ASSUME NEW n \in T
      PROVE  m <= n
  <2>1. m \in Nat /\ n \in Nat
    OBVIOUS
  <2>2. ~ (n < m)
    BY <1>1, <2>1 DEF OpToRel
  <2> QED BY <2>1, <2>2
<1> QED BY <1>2

\* The databases after each of the first k statements.
After(f, db, s, k) ==
  f = [n \in 0..k |->
         IF n = 0 THEN db
         ELSE CHOOSE result \in {Execute(before, s[n]) :
                                 before \in {f[n - 1]}} : TRUE]

LEMMA AfterSteps ==
  ASSUME NEW f, NEW db, NEW s, NEW k \in Nat, After(f, db, s, k)
  PROVE  /\ f[0] = db
         /\ \A n \in 1..k : f[n] = Execute(f[n - 1], s[n])
<1> DEFINE one(n) == CHOOSE result \in {Execute(before, s[n]) :
                                        before \in {f[n - 1]}} : TRUE
<1>1. ASSUME NEW n
      PROVE  one(n) = Execute(f[n - 1], s[n])
  <2>1. {Execute(before, s[n]) : before \in {f[n - 1]}}
        = {Execute(f[n - 1], s[n])}
    OBVIOUS
  <2> QED BY <2>1
<1>2. f = [n \in 0..k |-> IF n = 0 THEN db ELSE one(n)]
  BY DEF After
<1>3. 0 \in 0..k /\ \A n \in 1..k : n \in 0..k /\ n # 0
  OBVIOUS
<1> HIDE DEF one
<1>4. f[0] = db /\ \A n \in 1..k : f[n] = one(n)
  BY <1>2, <1>3
<1> QED BY <1>1, <1>4

LEMMA StepsAfter ==
  ASSUME NEW k \in Nat, NEW f, NEW db, NEW s,
         f = [n \in 0..k |-> f[n]],
         f[0] = db,
         \A n \in 1..k : f[n] = Execute(f[n - 1], s[n])
  PROVE  After(f, db, s, k)
<1> DEFINE one(n) == CHOOSE result \in {Execute(before, s[n]) :
                                        before \in {f[n - 1]}} : TRUE
<1>1. ASSUME NEW n
      PROVE  one(n) = Execute(f[n - 1], s[n])
  <2>1. {Execute(before, s[n]) : before \in {f[n - 1]}}
        = {Execute(f[n - 1], s[n])}
    OBVIOUS
  <2> QED BY <2>1
<1>2. SUFFICES f = [n \in 0..k |-> IF n = 0 THEN db ELSE one(n)]
  BY DEF After
<1>3. \A n \in 0..k : n = 0 \/ n \in 1..k
  OBVIOUS
<1> HIDE DEF one
<1>4. \A n \in 0..k : f[n] = IF n = 0 THEN db ELSE one(n)
  BY <1>1, <1>3
<1> QED BY <1>4

LEMMA AfterExists ==
  ASSUME NEW db, NEW s, NEW k \in Nat
  PROVE  \E f : After(f, db, s, k)
<1> DEFINE T == {m \in 0..k : ~ \E f : After(f, db, s, m)}
<1>1. SUFFICES ASSUME T # {}
               PROVE  FALSE
  <2>1. k \in 0..k
    OBVIOUS
  <2> QED BY <2>1
<1>2. PICK m \in T : \A n \in T : m <= n
  <2>1. T \subseteq Nat
    OBVIOUS
  <2> HIDE DEF T
  <2> QED BY <1>1, <2>1, LeastOf
<1>3. m \in Nat /\ m <= k
  OBVIOUS
<1>4. CASE m = 0
  <2> DEFINE g == [n \in 0..0 |-> db]
  <2>1. g[0] = db /\ g = [n \in 0..0 |-> g[n]] /\ 1..0 = {}
    OBVIOUS
  <2> HIDE DEF g
  <2>2. After(g, db, s, 0)
    BY <2>1, StepsAfter
  <2> QED BY <1>4, <2>2
<1>5. CASE m # 0
  <2>1. m - 1 \in 0..k /\ m - 1 \in Nat /\ m - 1 \notin T
    BY <1>2, <1>3, <1>5
  <2>2. PICK f : After(f, db, s, m - 1)
    BY <2>1
  <2> DEFINE g == [n \in 0..m |-> IF n = m THEN Execute(f[m - 1], s[m])
                                  ELSE f[n]]
  <2>3. /\ g = [n \in 0..m |-> g[n]]
        /\ g[m] = Execute(f[m - 1], s[m])
        /\ \A n \in 0..(m - 1) : g[n] = f[n]
    BY <1>3, <1>5
  <2> HIDE DEF g
  <2>4. f[0] = db /\ \A n \in 1..(m - 1) : f[n] = Execute(f[n - 1], s[n])
    BY <2>1, <2>2, AfterSteps
  <2>5. g[0] = db
    BY <1>3, <1>5, <2>3, <2>4
  <2>6. ASSUME NEW n \in 1..m
        PROVE  g[n] = Execute(g[n - 1], s[n])
    <3>1. CASE n = m
      <4>1. m - 1 \in 0..(m - 1)
        BY <1>3, <1>5
      <4> QED BY <2>3, <3>1, <4>1
    <3>2. CASE n # m
      <4>1. n \in 1..(m - 1) /\ n \in 0..(m - 1) /\ n - 1 \in 0..(m - 1)
        BY <1>3, <3>2
      <4> QED BY <2>3, <2>4, <4>1
    <3> QED BY <3>1, <3>2
  <2>7. After(g, db, s, m)
    <3>1. g = [n \in 0..m |-> g[n]]
      BY <2>3
    <3>2. m \in Nat
      BY <1>3
    <3>3. \A n \in 1..m : g[n] = Execute(g[n - 1], s[n])
      BY <2>6
    <3> HIDE DEF T
    <3> QED BY <2>5, <3>1, <3>2, <3>3, StepsAfter
  <2> QED BY <2>7
<1> QED BY <1>4, <1>5

LEMMA RunAfter ==
  ASSUME NEW db, NEW s, Len(s) \in Nat
  PROVE  \E f : After(f, db, s, Len(s)) /\ Run(db, s) = f[Len(s)]
<1> DEFINE f == CHOOSE f : After(f, db, s, Len(s))
<1>1. After(f, db, s, Len(s))
  BY AfterExists
<1>2. Run(db, s) = f[Len(s)]
  BY DEF Run, After
<1> QED BY <1>1, <1>2

\* Statements that lead from each of a series of sets into the next one.
LEMMA RunThrough ==
  ASSUME NEW db, NEW s, Len(s) \in Nat, NEW D, db \in D[0],
         \A n \in 1..Len(s) : \A d \in D[n - 1] : Execute(d, s[n]) \in D[n]
  PROVE  Run(db, s) \in D[Len(s)]
<1>1. PICK f : After(f, db, s, Len(s)) /\ Run(db, s) = f[Len(s)]
  BY RunAfter
<1>2. f[0] = db /\ \A n \in 1..Len(s) : f[n] = Execute(f[n - 1], s[n])
  BY <1>1, AfterSteps
<1> DEFINE T == {m \in 0..Len(s) : f[m] \notin D[m]}
<1>3. SUFFICES ASSUME T # {}
               PROVE  FALSE
  <2>1. Len(s) \in 0..Len(s)
    OBVIOUS
  <2> QED BY <1>1, <2>1
<1>4. PICK m \in T : \A n \in T : m <= n
  <2>1. T \subseteq Nat
    OBVIOUS
  <2> HIDE DEF T
  <2> QED BY <1>3, <2>1, LeastOf
<1>5. m # 0
  BY <1>2
<1>6. m \in 1..Len(s) /\ m - 1 \in 0..Len(s) /\ ~ (m <= m - 1)
  BY <1>5
<1>7. f[m - 1] \in D[m - 1]
  BY <1>4, <1>6
<1>8. f[m] \in D[m]
  BY <1>2, <1>6, <1>7
<1> QED BY <1>8

---------------------------------------------------------------------------
(* Databases with given objects and rows                                   *)

ObjectNames(O) == {o.name : o \in O}

\* What an object refers to.
NoTable == ""
References(o) == o.needs \cup ({o.of} \ {NoTable})

\* Objects that stand by themselves.
Closed(O) ==
  /\ \A o, p \in O : o.name = p.name => o = p
  /\ \A o \in O : References(o) \subseteq ObjectNames(O)
  /\ NoTable \notin ObjectNames(O)

\* The first k of the objects x, each after those that it refers to, are new.
Adding(O, x, k) ==
  /\ \A n \in 1..k : x[n].name \notin ObjectNames(O) /\ x[n].name # NoTable
  /\ \A m, n \in 1..k : x[m].name = x[n].name => m = n
  /\ \A n \in 1..k : \A name \in References(x[n]) :
       name \in ObjectNames(O) \/ \E m \in 1..(n - 1) : x[m].name = name

With(O, x, k) == O \cup {x[n] : n \in 1..k}

Databases(O, R) == [ok : {TRUE}, objects : {O}, rows : SUBSET R]

\* The rows there can be: outcomes, assessments and recommendations have
\* what holds them.
Possible(O) ==
  {row \in RowType :
     /\ "tickets" \in ObjectNames(O)
     /\ row.filled \subseteq ObjectNames(O)
     /\ "root_cause_assessments" \in ObjectNames(O) \/ row.assessment = "none"
     /\ "recommendations" \in ObjectNames(O) \/ row.proposal = "none"}

LEMMA HeldParts ==
  ASSUME NEW O, NEW R, NEW d \in Databases(O, R)
  PROVE  /\ d.ok = TRUE /\ d.objects = O /\ d.rows \subseteq R
         /\ Names(d) = ObjectNames(O)
<1>1. d.ok = TRUE /\ d.objects = O /\ d.rows \subseteq R
  BY DEF Databases
<1>2. Names(d) = ObjectNames(O)
  BY <1>1 DEF Names, ObjectNames
<1> QED BY <1>1, <1>2

LEMMA HeldChanged ==
  ASSUME NEW O, NEW R, NEW d \in Databases(O, R), NEW P, NEW S,
         NEW rows \in SUBSET S
  PROVE  /\ [d EXCEPT !.objects = P] \in Databases(P, R)
         /\ [d EXCEPT !.rows = rows] \in Databases(O, S)
         /\ [d EXCEPT !.objects = P, !.rows = rows] \in Databases(P, S)
BY DEF Databases

LEMMA HeldGrows ==
  ASSUME NEW O, NEW R, NEW S, R \subseteq S
  PROVE  Databases(O, R) \subseteq Databases(O, S)
BY DEF Databases

LEMMA NamesWith ==
  ASSUME NEW O, NEW x, NEW k
  PROVE  ObjectNames(With(O, x, k))
         = ObjectNames(O) \cup {x[n].name : n \in 1..k}
BY DEF ObjectNames, With

LEMMA PossibleGrows ==
  ASSUME NEW O, NEW x, NEW k
  PROVE  Possible(O) \subseteq Possible(With(O, x, k))
<1>1. ObjectNames(O) \subseteq ObjectNames(With(O, x, k))
  BY NamesWith
<1> QED BY <1>1 DEF Possible

LEMMA WithNone ==
  ASSUME NEW O, NEW x
  PROVE  With(O, x, 0) = O
BY DEF With

LEMMA WithNext ==
  ASSUME NEW O, NEW x, NEW n \in Nat \ {0}
  PROVE  With(O, x, n) = With(O, x, n - 1) \cup {x[n]}
<1>1. 1..n = (1..(n - 1)) \cup {n}
  OBVIOUS
<1> QED BY <1>1 DEF With

LEMMA AddedClosed ==
  ASSUME NEW O, NEW x, NEW k \in Nat, Closed(O), Adding(O, x, k)
  PROVE  Closed(With(O, x, k))
<1> DEFINE W == With(O, x, k)
<1>1. ObjectNames(W) = ObjectNames(O) \cup {x[n].name : n \in 1..k}
  BY NamesWith
<1>2. ASSUME NEW o \in W
      PROVE  o \in O \/ \E n \in 1..k : o = x[n]
  BY DEF With
<1>3. ASSUME NEW o \in W, NEW p \in W, o.name = p.name
      PROVE  o = p
  <2>1. CASE o \in O /\ p \in O
    BY <1>3, <2>1 DEF Closed
  <2>2. CASE o \in O /\ \E n \in 1..k : p = x[n]
    BY <1>3, <2>2 DEF Adding, ObjectNames
  <2>3. CASE p \in O /\ \E n \in 1..k : o = x[n]
    BY <1>3, <2>3 DEF Adding, ObjectNames
  <2>4. CASE (\E n \in 1..k : o = x[n]) /\ (\E n \in 1..k : p = x[n])
    BY <1>3, <2>4 DEF Adding
  <2> QED BY <1>2, <2>1, <2>2, <2>3, <2>4
<1>4. ASSUME NEW o \in W, NEW name \in References(o)
      PROVE  name \in ObjectNames(W)
  <2>1. CASE o \in O
    BY <1>1, <2>1 DEF Closed
  <2>2. CASE \E n \in 1..k : o = x[n]
    <3>1. PICK n \in 1..k : o = x[n]
      BY <2>2
    <3>2. name \in ObjectNames(O) \/ \E m \in 1..(n - 1) : x[m].name = name
      BY <3>1 DEF Adding
    <3>3. 1..(n - 1) \subseteq 1..k
      BY <3>1
    <3> QED BY <1>1, <3>2, <3>3
  <2> QED BY <1>2, <2>1, <2>2
<1>5. NoTable \notin ObjectNames(W)
  BY <1>1 DEF Closed, Adding
<1> QED BY <1>3, <1>4, <1>5 DEF Closed

LEMMA CreateHeld ==
  ASSUME NEW O, NEW o, NEW R, NEW d \in Databases(O, R),
         o.name \notin ObjectNames(O), References(o) \subseteq ObjectNames(O)
  PROVE  CreateObject(d, o) \in Databases(O \cup {o}, R)
<1> DEFINE more == [d EXCEPT !.objects = @ \cup {o}]
<1>1. d.objects = O /\ Names(d) = ObjectNames(O)
  BY HeldParts
<1>2. CreateObject(d, o) = IF \/ o.name \in Names(d)
                              \/ ~ (References(o) \subseteq Names(d))
                           THEN Refused(d)
                           ELSE more
  BY Zenon DEF CreateObject, References, NoTable
<1>3. more \in Databases(O \cup {o}, R)
  <2>1. more = [d EXCEPT !.objects = O \cup {o}]
    BY <1>1
  <2>2. [d EXCEPT !.objects = O \cup {o}] \in Databases(O \cup {o}, R)
    BY DEF Databases
  <2> QED BY <2>1, <2>2
<1> HIDE DEF more
<1> QED BY <1>1, <1>2, <1>3

LEMMA ExecuteCreate ==
  ASSUME NEW d, d.ok = TRUE, NEW o
  PROVE  /\ Execute(d, Create(o)) = CreateObject(d, o)
         /\ o.name \notin Names(d) =>
              Execute(d, Ensure(o)) = CreateObject(d, o)
<1>1. /\ Create(o).do = "create" /\ Create(o).object = o
      /\ Ensure(o).do = "ensure" /\ Ensure(o).object = o
  BY DEF Create, Ensure
<1>2. ASSUME NEW s, s.do = "create"
      PROVE  Execute(d, s) = CreateObject(d, s.object)
  BY <1>2 DEF Execute
<1>3. ASSUME NEW s, s.do = "ensure"
      PROVE  Execute(d, s) = IF s.object.name \in Names(d) THEN d
                             ELSE CreateObject(d, s.object)
  BY <1>3 DEF Execute
<1> QED BY <1>1, <1>2, <1>3

\* Statements that create objects in an order that they can be created in, with
\* rows of some kind there.
LEMMA CreatesBy ==
  ASSUME NEW O, NEW x, NEW s, Len(s) \in Nat, Adding(O, x, Len(s)), NEW R,
         \A n \in 1..Len(s) : \A d :
           d.ok = TRUE /\ d.rows \subseteq R /\ x[n].name \notin Names(d)
           => Execute(d, s[n]) = CreateObject(d, x[n]),
         NEW db \in Databases(O, R)
  PROVE  Run(db, s) \in Databases(With(O, x, Len(s)), R)
<1> DEFINE k == Len(s)
           D == [n \in 0..k |-> Databases(With(O, x, n), R)]
<1>1. \A n \in 0..k : D[n] = Databases(With(O, x, n), R)
  OBVIOUS
<1> HIDE DEF D
<1>2. db \in D[0]
  <2>1. With(O, x, 0) = O
    BY DEF With
  <2> QED BY <1>1, <2>1
<1>3. ASSUME NEW n \in 1..k, NEW d \in D[n - 1]
      PROVE  Execute(d, s[n]) \in D[n]
  <2> DEFINE P == With(O, x, n - 1)
  <2>1. d \in Databases(P, R) /\ D[n] = Databases(P \cup {x[n]}, R)
    <3>1. n \in 0..k /\ n - 1 \in 0..k /\ n \in Nat \ {0}
      OBVIOUS
    <3>2. /\ D[n - 1] = Databases(With(O, x, n - 1), R)
          /\ D[n] = Databases(With(O, x, n), R)
      BY <1>1, <3>1
    <3>3. With(O, x, n) = With(O, x, n - 1) \cup {x[n]}
      BY <3>1, WithNext
    <3> QED BY <3>2, <3>3
  <2>2. ObjectNames(P) = ObjectNames(O) \cup {x[m].name : m \in 1..(n - 1)}
    BY NamesWith
  <2> HIDE DEF P
  <2>3. x[n].name \notin ObjectNames(P)
    BY <2>2 DEF Adding
  <2>4. References(x[n]) \subseteq ObjectNames(P)
    BY <2>2 DEF Adding
  <2>5. CreateObject(d, x[n]) \in D[n]
    BY <2>1, <2>3, <2>4, CreateHeld
  <2>6. d.ok = TRUE /\ d.rows \subseteq R /\ x[n].name \notin Names(d)
    <3>1. d \in Databases(P, R)
      BY <2>1
    <3>2. d.ok = TRUE /\ d.rows \subseteq R /\ Names(d) = ObjectNames(P)
      BY <3>1, HeldParts
    <3> QED BY <2>3, <3>2
  <2>7. Execute(d, s[n]) = CreateObject(d, x[n])
    BY <2>6
  <2> QED BY <2>5, <2>7
<1>4. Run(db, s) \in D[Len(s)]
  BY <1>2, <1>3, RunThrough
<1> QED BY <1>1, <1>4

LEMMA Creates ==
  ASSUME NEW O, NEW x, NEW s, Len(s) \in Nat, Adding(O, x, Len(s)), NEW R,
         \A n \in 1..Len(s) : s[n] = Create(x[n]) \/ s[n] = Ensure(x[n]),
         NEW db \in Databases(O, R)
  PROVE  Run(db, s) \in Databases(With(O, x, Len(s)), R)
<1>1. ASSUME NEW n \in 1..Len(s), NEW d, d.ok = TRUE, x[n].name \notin Names(d)
      PROVE  Execute(d, s[n]) = CreateObject(d, x[n])
  BY <1>1, ExecuteCreate
<1> QED BY <1>1, CreatesBy

---------------------------------------------------------------------------
(* Dropping objects *)

\* What is left of these rows when only these objects are.
Remaining(R, names) ==
  {Surviving(row, names) : row \in {r \in R : "tickets" \in names}}

LEMMA RemainingGrows ==
  ASSUME NEW R, NEW S, R \subseteq S, NEW names
  PROVE  Remaining(R, names) \subseteq Remaining(S, names)
BY DEF Remaining

LEMMA RemainingPossible ==
  ASSUME NEW O, NEW P
  PROVE  Remaining(Possible(P), ObjectNames(O)) \subseteq Possible(O)
<1> DEFINE names == ObjectNames(O)
<1>1. SUFFICES ASSUME NEW row \in Possible(P), "tickets" \in names
               PROVE  Surviving(row, names) \in Possible(O)
  BY DEF Remaining
<1> HIDE DEF names
<1>2. row \in RowType
  BY DEF Possible
<1>3. Surviving(row, names) \in RowType
  BY <1>2 DEF Surviving, RowType, Assessments, Actions
<1>4. /\ Surviving(row, names).filled \subseteq names
      /\ "root_cause_assessments" \in names
         \/ Surviving(row, names).assessment = "none"
      /\ "recommendations" \in names
         \/ Surviving(row, names).proposal = "none"
  BY <1>2 DEF Surviving, RowType
<1> QED BY <1>1, <1>3, <1>4 DEF Possible, names

\* Of O with one more object that nothing refers to, and R its rows, dropping
\* that object leaves O.
LEMMA DropHeld ==
  ASSUME NEW O, Closed(O), NEW o, NEW R, NEW d \in Databases(O \cup {o}, R),
         o.name \notin ObjectNames(O), o.name # NoTable
  PROVE  /\ DropObject(d, o.name) \in
              Databases(O, Remaining(R, ObjectNames(O)))
         /\ o.name \in Names(d)
<1> DEFINE name == o.name
           gone == {p \in d.objects : name \in {p.name, p.of}}
           left == d.objects \ gone
           names == {p.name : p \in left}
           less == [d EXCEPT
                      !.objects = left,
                      !.rows = {Surviving(row, names) :
                                  row \in {r \in @ : "tickets" \in names}}]
<1>1. /\ d.objects = O \cup {o} /\ d.rows \subseteq R
      /\ Names(d) = ObjectNames(O \cup {o})
  BY HeldParts
<1>2. \A p \in O : /\ p.name \in ObjectNames(O)
                   /\ p.needs \subseteq ObjectNames(O)
                   /\ p.of = NoTable \/ p.of \in ObjectNames(O)
  BY Zenon DEF Closed, ObjectNames, References
<1>3. left = O
  <2>1. \A p \in O : name # p.name /\ name # p.of
    BY <1>2
  <2>2. o \in gone
    BY <1>1
  <2>3. \A p \in O : p \notin gone
    BY <2>1
  <2> HIDE DEF gone
  <2> QED BY <1>1, <2>2, <2>3
<1>4. names = ObjectNames(O)
  BY <1>3 DEF ObjectNames
<1>5. name \in Names(d)
  BY <1>1 DEF ObjectNames
<1>6. \A p \in left : name \notin p.needs
  BY <1>2, <1>3
<1>7. DropObject(d, name) = IF \/ name \notin Names(d)
                               \/ \E p \in left : name \in p.needs
                            THEN Refused(d)
                            ELSE less
  BY Zenon DEF DropObject
<1>8. less \in Databases(O, Remaining(R, ObjectNames(O)))
  <2> DEFINE rows == {Surviving(row, names) :
                        row \in {r \in d.rows : "tickets" \in names}}
  <2>1. rows = Remaining(d.rows, ObjectNames(O))
    BY <1>4 DEF Remaining
  <2>2. rows \in SUBSET Remaining(R, ObjectNames(O))
    BY <1>1, <2>1, RemainingGrows
  <2>3. less = [d EXCEPT !.objects = O, !.rows = rows]
    BY <1>3
  <2> HIDE DEF rows, less, names, left
  <2> QED BY <2>2, <2>3, HeldChanged
<1> HIDE DEF less, left, gone
<1> QED BY <1>5, <1>6, <1>7, <1>8

LEMMA ExecuteDrop ==
  ASSUME NEW d, d.ok = TRUE, NEW name, name \in Names(d)
  PROVE  /\ Execute(d, Drop(name)) = DropObject(d, name)
         /\ Execute(d, Discard(name)) = DropObject(d, name)
<1>1. /\ Drop(name).do = "drop" /\ Drop(name).name = name
      /\ Discard(name).do = "discard" /\ Discard(name).name = name
  BY DEF Drop, Discard
<1>2. ASSUME NEW s, s.do = "drop"
      PROVE  Execute(d, s) = DropObject(d, s.name)
  BY <1>2 DEF Execute
<1>3. ASSUME NEW s, s.do = "discard"
      PROVE  Execute(d, s) = IF s.name \in Names(d) THEN DropObject(d, s.name)
                             ELSE d
  BY <1>3 DEF Execute
<1> QED BY <1>1, <1>2, <1>3

LEMMA AddingFewer ==
  ASSUME NEW O, NEW x, NEW k \in Nat, Adding(O, x, k), NEW j \in 0..k
  PROVE  Adding(O, x, j)
<1>1. 1..j \subseteq 1..k
  OBVIOUS
<1> QED BY <1>1 DEF Adding

\* Dropping objects in the reverse of an order that they can be created in.
LEMMA Drops ==
  ASSUME NEW O, Closed(O), NEW x, NEW s, Len(s) \in Nat,
         Adding(O, x, Len(s)),
         \A n \in 1..Len(s) : LET name == x[Len(s) + 1 - n].name IN
           s[n] = Drop(name) \/ s[n] = Discard(name),
         NEW db \in Databases(With(O, x, Len(s)), Possible(With(O, x, Len(s))))
  PROVE  Run(db, s) \in Databases(O, Possible(O))
<1> DEFINE k == Len(s)
           W(j) == With(O, x, j)
           D == [n \in 0..k |-> Databases(W(k - n), Possible(W(k - n)))]
<1>1. \A n \in 0..k : D[n] = Databases(W(k - n), Possible(W(k - n)))
  OBVIOUS
<1> HIDE DEF D
<1>2. db \in D[0]
  <2>1. 0 \in 0..k /\ k - 0 = k
    OBVIOUS
  <2> QED BY <1>1, <2>1
<1>3. ASSUME NEW n \in 1..k, NEW d \in D[n - 1]
      PROVE  Execute(d, s[n]) \in D[n]
  <2> DEFINE j == k + 1 - n
             P == W(j - 1)
             o == x[j]
  <2>1. j \in 1..k /\ j \in Nat \ {0} /\ j \in 0..k /\ j - 1 \in 0..k
    OBVIOUS
  <2>2. d \in Databases(W(j), Possible(W(j))) /\ D[n] = Databases(P, Possible(P))
    <3>1. n - 1 \in 0..k /\ n \in 0..k /\ k - (n - 1) = j /\ k - n = j - 1
      OBVIOUS
    <3>2. /\ D[n - 1] = Databases(W(k - (n - 1)), Possible(W(k - (n - 1))))
          /\ D[n] = Databases(W(k - n), Possible(W(k - n)))
      BY <1>1, <3>1
    <3> HIDE DEF W
    <3> QED BY <3>1, <3>2
  <2>3. W(j) = P \cup {o}
    BY <2>1, WithNext
  <2>4. Closed(P)
    <3>1. Adding(O, x, j - 1)
      BY <2>1, AddingFewer
    <3> QED BY <2>1, <3>1, AddedClosed
  <2>5. o.name \notin ObjectNames(P) /\ o.name # NoTable
    <3>1. ObjectNames(P) = ObjectNames(O) \cup {x[m].name : m \in 1..(j - 1)}
      BY NamesWith
    <3>2. \A m \in 1..(j - 1) : m \in 1..k /\ m # j
      BY <2>1
    <3> HIDE DEF j, P
    <3> QED BY <2>1, <3>1, <3>2 DEF Adding
  <2>6. s[n] = Drop(o.name) \/ s[n] = Discard(o.name)
    OBVIOUS
  <2> HIDE DEF P, o, W
  <2>7. d \in Databases(P \cup {o}, Possible(W(j)))
    BY <2>2, <2>3
  <2>8. /\ DropObject(d, o.name) \in
              Databases(P, Remaining(Possible(W(j)), ObjectNames(P)))
        /\ o.name \in Names(d)
    BY <2>4, <2>5, <2>7, DropHeld
  <2>9. Remaining(Possible(W(j)), ObjectNames(P)) \subseteq Possible(P)
    BY RemainingPossible DEF W
  <2>10. DropObject(d, o.name) \in D[n]
    BY <2>2, <2>8, <2>9, HeldGrows
  <2>11. d.ok = TRUE
    BY <2>7 DEF Databases
  <2>12. Execute(d, s[n]) = DropObject(d, o.name)
    BY <2>6, <2>8, <2>11, ExecuteDrop
  <2> QED BY <2>10, <2>12
<1>4. Run(db, s) \in D[Len(s)]
  BY <1>2, <1>3, RunThrough
<1>5. D[Len(s)] = Databases(O, Possible(O))
  <2>1. k \in 0..k /\ k - k = 0
    OBVIOUS
  <2>2. W(0) = O
    BY WithNone
  <2> HIDE DEF W
  <2> QED BY <1>1, <2>1, <2>2
<1> QED BY <1>4, <1>5

---------------------------------------------------------------------------
(* The objects of each revision *)

LEMMA TypeFields ==
  ASSUME NEW name, NEW o, o = Type(name)
  PROVE  o.name = name /\ References(o) = {}
<1>1. o.name = name /\ o.needs = {} /\ o.of = NoTable
  BY DEF Type, Object, NoTable
<1> QED BY <1>1 DEF References

LEMMA TableFields ==
  ASSUME NEW name, NEW needs, NEW keys, NEW o, o = Table(name, needs, keys)
  PROVE  o.name = name /\ References(o) = needs
<1>1. o.name = name /\ o.needs = needs /\ o.of = NoTable
  BY DEF Table, Object, NoTable
<1> QED BY <1>1 DEF References

LEMMA PartFields ==
  ASSUME NEW name, NEW table, table # NoTable, NEW o, o = Part(name, table)
  PROVE  o.name = name /\ References(o) = {table}
<1>1. o.name = name /\ o.needs = {} /\ o.of = table
  BY DEF Part, Object
<1> QED BY <1>1 DEF References

Shape(o, name, references) == o.name = name /\ References(o) = references

LEMMA Shapes ==
  ASSUME NEW name, NEW needs, NEW keys
  PROVE  /\ Shape(Type(name), name, {})
         /\ Shape(Table(name, needs, keys), name, needs)
         /\ Shape(Part(name, "tickets"), name, {"tickets"})
<1>1. Shape(Type(name), name, {})
  BY TypeFields DEF Shape
<1>2. Shape(Table(name, needs, keys), name, needs)
  BY TableFields DEF Shape
<1>3. Shape(Part(name, "tickets"), name, {"tickets"})
  <2>1. "tickets" # NoTable
    BY DEF NoTable
  <2> QED BY <2>1, PartFields DEF Shape
<1> QED BY <1>1, <1>2, <1>3


VectorObjects ==
  << Type("vector") >>

VectorNames == {"vector"}

Schema1 == With({}, VectorObjects, 1)

LEMMA VectorShapes == Shape(VectorObjects[1], "vector", {})
BY Shapes DEF VectorObjects

LEMMA VectorNamed == {VectorObjects[n].name : n \in 1..1} = VectorNames
<1>1. 1..1 = {1}
  OBVIOUS
<1> QED BY <1>1, VectorShapes DEF Shape, VectorNames

LEMMA Schema1Names == ObjectNames(Schema1) = VectorNames
<1>1. ObjectNames({}) = {}
  BY DEF ObjectNames
<1>2. ObjectNames(Schema1) =
        ObjectNames({}) \cup {VectorObjects[n].name : n \in 1..1}
  BY NamesWith DEF Schema1
<1> QED BY <1>1, <1>2, VectorNamed

LEMMA VectorAdding == Adding({}, VectorObjects, 1)
<1>1. 1..1 = {1}
  OBVIOUS
<1>2. \A n \in 1..1 : VectorObjects[n].name \notin ObjectNames({})
  BY <1>1, VectorShapes
     DEF Shape, ObjectNames
<1>3. \A m, n \in 1..1 : VectorObjects[m].name = VectorObjects[n].name => m = n
  BY <1>1, VectorShapes DEF Shape
<1>4. \A n \in 1..1 : \A name \in References(VectorObjects[n]) :
        \/ name \in ObjectNames({})
        \/ \E m \in 1..(n - 1) : VectorObjects[m].name = name
  BY <1>1, VectorShapes
     DEF Shape
<1>5. \A n \in 1..1 : VectorObjects[n].name # NoTable
  BY <1>1, VectorShapes DEF Shape, NoTable
<1> QED BY <1>2, <1>3, <1>4, <1>5 DEF Adding

LEMMA Schema1Closed == Closed(Schema1)
BY VectorAdding, AddedClosed DEF Schema1, Closed, ObjectNames

CoreObjects ==
  << Type("user_role"), Type("ticket_status"), Type("ticket_priority"),
     Type("ticket_number_seq"), Table("users", {"user_role"}, {"email"}),
     Table("sessions", {"users"}, {"token"}),
     Table("tickets",
           {"ticket_number_seq", "ticket_priority", "ticket_status", "users"},
           {"number"}),
     Table("ticket_events", {"tickets", "users"}, {}),
     Table("audit_logs", {"users"}, {}) >>

CoreNames ==
  {"user_role", "ticket_status", "ticket_priority", "ticket_number_seq",
   "users", "sessions", "tickets", "ticket_events", "audit_logs"}

Schema2 == With(Schema1, CoreObjects, 9)

LEMMA CoreShapes ==
  /\ Shape(CoreObjects[1], "user_role", {})
  /\ Shape(CoreObjects[2], "ticket_status", {})
  /\ Shape(CoreObjects[3], "ticket_priority", {})
  /\ Shape(CoreObjects[4], "ticket_number_seq", {})
  /\ Shape(CoreObjects[5], "users", {"user_role"})
  /\ Shape(CoreObjects[6], "sessions", {"users"})
  /\ Shape(CoreObjects[7], "tickets", {"ticket_number_seq",
       "ticket_priority", "ticket_status", "users"})
  /\ Shape(CoreObjects[8], "ticket_events", {"tickets", "users"})
  /\ Shape(CoreObjects[9], "audit_logs", {"users"})
BY Shapes DEF CoreObjects

LEMMA CoreNamed == {CoreObjects[n].name : n \in 1..9} = CoreNames
<1>1. 1..9 = {1, 2, 3, 4, 5, 6, 7, 8, 9}
  OBVIOUS
<1> QED BY <1>1, CoreShapes DEF Shape, CoreNames

LEMMA Schema2Names ==
  ObjectNames(Schema2) =
    VectorNames \cup CoreNames
BY Schema1Names, CoreNamed, NamesWith DEF Schema2

LEMMA CoreAdding == Adding(Schema1, CoreObjects, 9)
<1>1. 1..9 = {1, 2, 3, 4, 5, 6, 7, 8, 9}
  OBVIOUS
<1>2. \A n \in 1..9 : CoreObjects[n].name \notin ObjectNames(Schema1)
  BY <1>1, CoreShapes, Schema1Names
     DEF Shape, VectorNames
<1>3. \A m, n \in 1..9 : CoreObjects[m].name = CoreObjects[n].name => m = n
  BY <1>1, CoreShapes DEF Shape
<1>4. \A n \in 1..9 : \A name \in References(CoreObjects[n]) :
        \/ name \in ObjectNames(Schema1)
        \/ \E m \in 1..(n - 1) : CoreObjects[m].name = name
  BY <1>1, CoreShapes, Schema1Names
     DEF Shape, VectorNames
<1>5. \A n \in 1..9 : CoreObjects[n].name # NoTable
  BY <1>1, CoreShapes DEF Shape, NoTable
<1> QED BY <1>2, <1>3, <1>4, <1>5 DEF Adding

LEMMA Schema2Closed == Closed(Schema2)
BY Schema1Closed, CoreAdding, AddedClosed DEF Schema2

TriageObjects ==
  << Type("analysis_status"), Part("priority_overridden", "tickets"),
     Part("priority_override_reason", "tickets"),
     Part("ck_tickets_priority_override_reason", "tickets"),
     Table("ai_analyses",
           {"tickets", "users", "analysis_status", "ticket_priority"},
           {"ticket while active"}) >>

TriageNames ==
  {"analysis_status", "priority_overridden", "priority_override_reason",
   "ck_tickets_priority_override_reason", "ai_analyses"}

Schema3 == With(Schema2, TriageObjects, 5)

LEMMA TriageShapes ==
  /\ Shape(TriageObjects[1], "analysis_status", {})
  /\ Shape(TriageObjects[2], "priority_overridden", {"tickets"})
  /\ Shape(TriageObjects[3], "priority_override_reason", {"tickets"})
  /\ Shape(TriageObjects[4], "ck_tickets_priority_override_reason",
       {"tickets"})
  /\ Shape(TriageObjects[5], "ai_analyses", {"tickets", "users",
       "analysis_status", "ticket_priority"})
BY Shapes DEF TriageObjects

LEMMA TriageNamed == {TriageObjects[n].name : n \in 1..5} = TriageNames
<1>1. 1..5 = {1, 2, 3, 4, 5}
  OBVIOUS
<1> QED BY <1>1, TriageShapes DEF Shape, TriageNames

LEMMA Schema3Names ==
  ObjectNames(Schema3) =
    VectorNames \cup CoreNames \cup TriageNames
BY Schema2Names, TriageNamed, NamesWith DEF Schema3

LEMMA TriageAdding == Adding(Schema2, TriageObjects, 5)
<1>1. 1..5 = {1, 2, 3, 4, 5}
  OBVIOUS
<1>2. \A n \in 1..5 : TriageObjects[n].name \notin ObjectNames(Schema2)
  BY <1>1, TriageShapes, Schema2Names
     DEF Shape, VectorNames, CoreNames
<1>3. \A m, n \in 1..5 : TriageObjects[m].name = TriageObjects[n].name => m = n
  BY <1>1, TriageShapes DEF Shape
<1>4. \A n \in 1..5 : \A name \in References(TriageObjects[n]) :
        \/ name \in ObjectNames(Schema2)
        \/ \E m \in 1..(n - 1) : TriageObjects[m].name = name
  BY <1>1, TriageShapes, Schema2Names
     DEF Shape, VectorNames, CoreNames
<1>5. \A n \in 1..5 : TriageObjects[n].name # NoTable
  BY <1>1, TriageShapes DEF Shape, NoTable
<1> QED BY <1>2, <1>3, <1>4, <1>5 DEF Adding

LEMMA Schema3Closed == Closed(Schema3)
BY Schema2Closed, TriageAdding, AddedClosed DEF Schema3

ArticleObjects ==
  << Table("knowledge_documents", {}, {"article", "slug", "path"}),
     Table("knowledge_chunks",
           {"knowledge_documents", "vector"},
           {"document and index"}) >>

ArticleNames ==
  {"knowledge_documents", "knowledge_chunks"}

Schema4 == With(Schema3, ArticleObjects, 2)

LEMMA ArticleShapes ==
  /\ Shape(ArticleObjects[1], "knowledge_documents", {})
  /\ Shape(ArticleObjects[2], "knowledge_chunks", {"knowledge_documents",
       "vector"})
BY Shapes DEF ArticleObjects

LEMMA ArticleNamed == {ArticleObjects[n].name : n \in 1..2} = ArticleNames
<1>1. 1..2 = {1, 2}
  OBVIOUS
<1> QED BY <1>1, ArticleShapes DEF Shape, ArticleNames

LEMMA Schema4Names ==
  ObjectNames(Schema4) =
    VectorNames \cup CoreNames \cup TriageNames \cup ArticleNames
BY Schema3Names, ArticleNamed, NamesWith DEF Schema4

LEMMA ArticleAdding == Adding(Schema3, ArticleObjects, 2)
<1>1. 1..2 = {1, 2}
  OBVIOUS
<1>2. \A n \in 1..2 : ArticleObjects[n].name \notin ObjectNames(Schema3)
  BY <1>1, ArticleShapes, Schema3Names
     DEF Shape, VectorNames, CoreNames, TriageNames
<1>3. \A m, n \in 1..2 :
       ArticleObjects[m].name = ArticleObjects[n].name => m = n
  BY <1>1, ArticleShapes DEF Shape
<1>4. \A n \in 1..2 : \A name \in References(ArticleObjects[n]) :
        \/ name \in ObjectNames(Schema3)
        \/ \E m \in 1..(n - 1) : ArticleObjects[m].name = name
  BY <1>1, ArticleShapes, Schema3Names
     DEF Shape, VectorNames, CoreNames, TriageNames
<1>5. \A n \in 1..2 : ArticleObjects[n].name # NoTable
  BY <1>1, ArticleShapes DEF Shape, NoTable
<1> QED BY <1>2, <1>3, <1>4, <1>5 DEF Adding

LEMMA Schema4Closed == Closed(Schema4)
BY Schema3Closed, ArticleAdding, AddedClosed DEF Schema4

DatasetObjects ==
  << Table("dataset_imports", {}, {"version"}),
     Table("synthetic_locations", {}, {"version and source"}),
     Table("synthetic_applications", {}, {"version and source"}),
     Table("historical_tickets", {"vector"}, {"version and source"}),
     Table("synthetic_incidents", {}, {"version and source"}) >>

DatasetNames ==
  {"dataset_imports", "synthetic_locations", "synthetic_applications",
   "historical_tickets", "synthetic_incidents"}

WithDatasets == With(Schema4, DatasetObjects, 5)

LEMMA DatasetShapes ==
  /\ Shape(DatasetObjects[1], "dataset_imports", {})
  /\ Shape(DatasetObjects[2], "synthetic_locations", {})
  /\ Shape(DatasetObjects[3], "synthetic_applications", {})
  /\ Shape(DatasetObjects[4], "historical_tickets", {"vector"})
  /\ Shape(DatasetObjects[5], "synthetic_incidents", {})
BY Shapes DEF DatasetObjects

LEMMA DatasetNamed == {DatasetObjects[n].name : n \in 1..5} = DatasetNames
<1>1. 1..5 = {1, 2, 3, 4, 5}
  OBVIOUS
<1> QED BY <1>1, DatasetShapes DEF Shape, DatasetNames

LEMMA WithDatasetsNames ==
  ObjectNames(WithDatasets) =
    VectorNames \cup CoreNames \cup TriageNames \cup ArticleNames \cup
    DatasetNames
BY Schema4Names, DatasetNamed, NamesWith DEF WithDatasets

LEMMA DatasetAdding == Adding(Schema4, DatasetObjects, 5)
<1>1. 1..5 = {1, 2, 3, 4, 5}
  OBVIOUS
<1>2. \A n \in 1..5 : DatasetObjects[n].name \notin ObjectNames(Schema4)
  BY <1>1, DatasetShapes, Schema4Names
     DEF Shape, VectorNames, CoreNames, TriageNames, ArticleNames
<1>3. \A m, n \in 1..5 :
       DatasetObjects[m].name = DatasetObjects[n].name => m = n
  BY <1>1, DatasetShapes DEF Shape
<1>4. \A n \in 1..5 : \A name \in References(DatasetObjects[n]) :
        \/ name \in ObjectNames(Schema4)
        \/ \E m \in 1..(n - 1) : DatasetObjects[m].name = name
  BY <1>1, DatasetShapes, Schema4Names
     DEF Shape, VectorNames, CoreNames, TriageNames, ArticleNames
<1>5. \A n \in 1..5 : DatasetObjects[n].name # NoTable
  BY <1>1, DatasetShapes DEF Shape, NoTable
<1> QED BY <1>2, <1>3, <1>4, <1>5 DEF Adding

LEMMA WithDatasetsClosed == Closed(WithDatasets)
BY Schema4Closed, DatasetAdding, AddedClosed DEF WithDatasets

RecordObjects ==
  << Table("telemetry_records", {}, {"reading"}),
     Table("synthetic_log_records", {}, {"line"}),
     Type("investigation_status"),
     Table("investigations",
           {"tickets", "ai_analyses", "users", "investigation_status"},
           {"ticket while active"}),
     Type("investigation_step_status"),
     Table("investigation_steps",
           {"investigations", "investigation_step_status"},
           {"investigation and key", "investigation and order"}) >>

RecordNames ==
  {"telemetry_records", "synthetic_log_records", "investigation_status",
   "investigations", "investigation_step_status", "investigation_steps"}

Schema5 == With(WithDatasets, RecordObjects, 6)

LEMMA RecordShapes ==
  /\ Shape(RecordObjects[1], "telemetry_records", {})
  /\ Shape(RecordObjects[2], "synthetic_log_records", {})
  /\ Shape(RecordObjects[3], "investigation_status", {})
  /\ Shape(RecordObjects[4], "investigations", {"tickets", "ai_analyses",
       "users", "investigation_status"})
  /\ Shape(RecordObjects[5], "investigation_step_status", {})
  /\ Shape(RecordObjects[6], "investigation_steps", {"investigations",
       "investigation_step_status"})
BY Shapes DEF RecordObjects

LEMMA RecordNamed == {RecordObjects[n].name : n \in 1..6} = RecordNames
<1>1. 1..6 = {1, 2, 3, 4, 5, 6}
  OBVIOUS
<1> QED BY <1>1, RecordShapes DEF Shape, RecordNames

LEMMA Schema5Names ==
  ObjectNames(Schema5) =
    VectorNames \cup CoreNames \cup TriageNames \cup ArticleNames \cup
    DatasetNames \cup RecordNames
BY WithDatasetsNames, RecordNamed, NamesWith DEF Schema5

LEMMA RecordAdding == Adding(WithDatasets, RecordObjects, 6)
<1>1. 1..6 = {1, 2, 3, 4, 5, 6}
  OBVIOUS
<1>2. \A n \in 1..6 : RecordObjects[n].name \notin ObjectNames(WithDatasets)
  BY <1>1, RecordShapes, WithDatasetsNames
     DEF Shape, VectorNames, CoreNames, TriageNames, ArticleNames,
         DatasetNames
<1>3. \A m, n \in 1..6 : RecordObjects[m].name = RecordObjects[n].name => m = n
  BY <1>1, RecordShapes DEF Shape
<1>4. \A n \in 1..6 : \A name \in References(RecordObjects[n]) :
        \/ name \in ObjectNames(WithDatasets)
        \/ \E m \in 1..(n - 1) : RecordObjects[m].name = name
  BY <1>1, RecordShapes, WithDatasetsNames
     DEF Shape, VectorNames, CoreNames, TriageNames, ArticleNames,
         DatasetNames
<1>5. \A n \in 1..6 : RecordObjects[n].name # NoTable
  BY <1>1, RecordShapes DEF Shape, NoTable
<1> QED BY <1>2, <1>3, <1>4, <1>5 DEF Adding

LEMMA Schema5Closed == Closed(Schema5)
BY WithDatasetsClosed, RecordAdding, AddedClosed DEF Schema5

RootCauseObjects ==
  << Type("root_cause_status"),
     Table("root_cause_assessments",
           {"tickets", "investigations", "ai_analyses", "users",
            "root_cause_status"},
           {"investigation", "ticket while active"}),
     Table("assessment_evidence",
           {"root_cause_assessments"},
           {"assessment and source"}) >>

RootCauseNames ==
  {"root_cause_status", "root_cause_assessments", "assessment_evidence"}

Schema6 == With(Schema5, RootCauseObjects, 3)

LEMMA RootCauseShapes ==
  /\ Shape(RootCauseObjects[1], "root_cause_status", {})
  /\ Shape(RootCauseObjects[2], "root_cause_assessments", {"tickets",
       "investigations", "ai_analyses", "users", "root_cause_status"})
  /\ Shape(RootCauseObjects[3], "assessment_evidence",
       {"root_cause_assessments"})
BY Shapes DEF RootCauseObjects

LEMMA RootCauseNamed ==
  {RootCauseObjects[n].name : n \in 1..3} = RootCauseNames
<1>1. 1..3 = {1, 2, 3}
  OBVIOUS
<1> QED BY <1>1, RootCauseShapes DEF Shape, RootCauseNames

LEMMA Schema6Names ==
  ObjectNames(Schema6) =
    VectorNames \cup CoreNames \cup TriageNames \cup ArticleNames \cup
    DatasetNames \cup RecordNames \cup RootCauseNames
BY Schema5Names, RootCauseNamed, NamesWith DEF Schema6

LEMMA RootCauseAdding == Adding(Schema5, RootCauseObjects, 3)
<1>1. 1..3 = {1, 2, 3}
  OBVIOUS
<1>2. \A n \in 1..3 : RootCauseObjects[n].name \notin ObjectNames(Schema5)
  BY <1>1, RootCauseShapes, Schema5Names
     DEF Shape, VectorNames, CoreNames, TriageNames, ArticleNames,
         DatasetNames, RecordNames
<1>3. \A m, n \in 1..3 :
       RootCauseObjects[m].name = RootCauseObjects[n].name => m = n
  BY <1>1, RootCauseShapes DEF Shape
<1>4. \A n \in 1..3 : \A name \in References(RootCauseObjects[n]) :
        \/ name \in ObjectNames(Schema5)
        \/ \E m \in 1..(n - 1) : RootCauseObjects[m].name = name
  BY <1>1, RootCauseShapes, Schema5Names
     DEF Shape, VectorNames, CoreNames, TriageNames, ArticleNames,
         DatasetNames, RecordNames
<1>5. \A n \in 1..3 : RootCauseObjects[n].name # NoTable
  BY <1>1, RootCauseShapes DEF Shape, NoTable
<1> QED BY <1>2, <1>3, <1>4, <1>5 DEF Adding

LEMMA Schema6Closed == Closed(Schema6)
BY Schema5Closed, RootCauseAdding, AddedClosed DEF Schema6

ColumnObjects ==
  << Part("resolved_at", "tickets"), Part("escalated_at", "tickets"),
     Part("escalation_destination", "tickets"),
     Part("escalation_reason", "tickets"),
     Part("resolution_summary", "tickets") >>

ColumnNames ==
  {"resolved_at", "escalated_at", "escalation_destination",
   "escalation_reason", "resolution_summary"}

WithColumns == With(Schema6, ColumnObjects, 5)

LEMMA ColumnShapes ==
  /\ Shape(ColumnObjects[1], "resolved_at", {"tickets"})
  /\ Shape(ColumnObjects[2], "escalated_at", {"tickets"})
  /\ Shape(ColumnObjects[3], "escalation_destination", {"tickets"})
  /\ Shape(ColumnObjects[4], "escalation_reason", {"tickets"})
  /\ Shape(ColumnObjects[5], "resolution_summary", {"tickets"})
BY Shapes DEF ColumnObjects

LEMMA ColumnNamed == {ColumnObjects[n].name : n \in 1..5} = ColumnNames
<1>1. 1..5 = {1, 2, 3, 4, 5}
  OBVIOUS
<1> QED BY <1>1, ColumnShapes DEF Shape, ColumnNames

LEMMA WithColumnsNames ==
  ObjectNames(WithColumns) =
    VectorNames \cup CoreNames \cup TriageNames \cup ArticleNames \cup
    DatasetNames \cup RecordNames \cup RootCauseNames \cup ColumnNames
BY Schema6Names, ColumnNamed, NamesWith DEF WithColumns

LEMMA ColumnAdding == Adding(Schema6, ColumnObjects, 5)
<1>1. 1..5 = {1, 2, 3, 4, 5}
  OBVIOUS
<1>2. \A n \in 1..5 : ColumnObjects[n].name \notin ObjectNames(Schema6)
  BY <1>1, ColumnShapes, Schema6Names
     DEF Shape, VectorNames, CoreNames, TriageNames, ArticleNames,
         DatasetNames, RecordNames, RootCauseNames
<1>3. \A m, n \in 1..5 : ColumnObjects[m].name = ColumnObjects[n].name => m = n
  BY <1>1, ColumnShapes DEF Shape
<1>4. \A n \in 1..5 : \A name \in References(ColumnObjects[n]) :
        \/ name \in ObjectNames(Schema6)
        \/ \E m \in 1..(n - 1) : ColumnObjects[m].name = name
  BY <1>1, ColumnShapes, Schema6Names
     DEF Shape, VectorNames, CoreNames, TriageNames, ArticleNames,
         DatasetNames, RecordNames, RootCauseNames
<1>5. \A n \in 1..5 : ColumnObjects[n].name # NoTable
  BY <1>1, ColumnShapes DEF Shape, NoTable
<1> QED BY <1>2, <1>3, <1>4, <1>5 DEF Adding

LEMMA WithColumnsClosed == Closed(WithColumns)
BY Schema6Closed, ColumnAdding, AddedClosed DEF WithColumns

CheckObjects ==
  << Part("ck_tickets_single_terminal_outcome", "tickets"),
     Part("ck_tickets_resolved_excludes_escalation", "tickets"),
     Part("ck_tickets_escalated_excludes_resolution", "tickets"),
     Part("ck_tickets_resolved_fields", "tickets"),
     Part("ck_tickets_escalated_fields", "tickets") >>

CheckNames ==
  {"ck_tickets_single_terminal_outcome",
   "ck_tickets_resolved_excludes_escalation",
   "ck_tickets_escalated_excludes_resolution", "ck_tickets_resolved_fields",
   "ck_tickets_escalated_fields"}

WithChecks == With(WithColumns, CheckObjects, 5)

LEMMA CheckShapes ==
  /\ Shape(CheckObjects[1], "ck_tickets_single_terminal_outcome", {"tickets"})
  /\ Shape(CheckObjects[2], "ck_tickets_resolved_excludes_escalation",
       {"tickets"})
  /\ Shape(CheckObjects[3], "ck_tickets_escalated_excludes_resolution",
       {"tickets"})
  /\ Shape(CheckObjects[4], "ck_tickets_resolved_fields", {"tickets"})
  /\ Shape(CheckObjects[5], "ck_tickets_escalated_fields", {"tickets"})
BY Shapes DEF CheckObjects

LEMMA CheckNamed == {CheckObjects[n].name : n \in 1..5} = CheckNames
<1>1. 1..5 = {1, 2, 3, 4, 5}
  OBVIOUS
<1> QED BY <1>1, CheckShapes DEF Shape, CheckNames

LEMMA WithChecksNames ==
  ObjectNames(WithChecks) =
    VectorNames \cup CoreNames \cup TriageNames \cup ArticleNames \cup
    DatasetNames \cup RecordNames \cup RootCauseNames \cup ColumnNames \cup
    CheckNames
BY WithColumnsNames, CheckNamed, NamesWith DEF WithChecks

LEMMA CheckAdding == Adding(WithColumns, CheckObjects, 5)
<1>1. 1..5 = {1, 2, 3, 4, 5}
  OBVIOUS
<1>2. \A n \in 1..5 : CheckObjects[n].name \notin ObjectNames(WithColumns)
  BY <1>1, CheckShapes, WithColumnsNames
     DEF Shape, VectorNames, CoreNames, TriageNames, ArticleNames,
         DatasetNames, RecordNames, RootCauseNames, ColumnNames
<1>3. \A m, n \in 1..5 : CheckObjects[m].name = CheckObjects[n].name => m = n
  BY <1>1, CheckShapes DEF Shape
<1>4. \A n \in 1..5 : \A name \in References(CheckObjects[n]) :
        \/ name \in ObjectNames(WithColumns)
        \/ \E m \in 1..(n - 1) : CheckObjects[m].name = name
  BY <1>1, CheckShapes, WithColumnsNames
     DEF Shape, VectorNames, CoreNames, TriageNames, ArticleNames,
         DatasetNames, RecordNames, RootCauseNames, ColumnNames
<1>5. \A n \in 1..5 : CheckObjects[n].name # NoTable
  BY <1>1, CheckShapes DEF Shape, NoTable
<1> QED BY <1>2, <1>3, <1>4, <1>5 DEF Adding

LEMMA WithChecksClosed == Closed(WithChecks)
BY WithColumnsClosed, CheckAdding, AddedClosed DEF WithChecks

AdviceObjects ==
  << Type("recommendation_action_type"), Type("recommendation_status"),
     Table("recommendations",
           {"tickets", "root_cause_assessments", "users",
            "recommendation_action_type", "recommendation_status"},
           {"assessment"}) >>

AdviceNames ==
  {"recommendation_action_type", "recommendation_status", "recommendations"}

WithAdvice == With(WithChecks, AdviceObjects, 3)

LEMMA AdviceShapes ==
  /\ Shape(AdviceObjects[1], "recommendation_action_type", {})
  /\ Shape(AdviceObjects[2], "recommendation_status", {})
  /\ Shape(AdviceObjects[3], "recommendations", {"tickets",
       "root_cause_assessments", "users", "recommendation_action_type",
       "recommendation_status"})
BY Shapes DEF AdviceObjects

LEMMA AdviceNamed == {AdviceObjects[n].name : n \in 1..3} = AdviceNames
<1>1. 1..3 = {1, 2, 3}
  OBVIOUS
<1> QED BY <1>1, AdviceShapes DEF Shape, AdviceNames

LEMMA WithAdviceNames ==
  ObjectNames(WithAdvice) =
    VectorNames \cup CoreNames \cup TriageNames \cup ArticleNames \cup
    DatasetNames \cup RecordNames \cup RootCauseNames \cup ColumnNames \cup
    CheckNames \cup AdviceNames
BY WithChecksNames, AdviceNamed, NamesWith DEF WithAdvice

LEMMA AdviceAdding == Adding(WithChecks, AdviceObjects, 3)
<1>1. 1..3 = {1, 2, 3}
  OBVIOUS
<1>2. \A n \in 1..3 : AdviceObjects[n].name \notin ObjectNames(WithChecks)
  BY <1>1, AdviceShapes, WithChecksNames
     DEF Shape, VectorNames, CoreNames, TriageNames, ArticleNames,
         DatasetNames, RecordNames, RootCauseNames, ColumnNames, CheckNames
<1>3. \A m, n \in 1..3 : AdviceObjects[m].name = AdviceObjects[n].name => m = n
  BY <1>1, AdviceShapes DEF Shape
<1>4. \A n \in 1..3 : \A name \in References(AdviceObjects[n]) :
        \/ name \in ObjectNames(WithChecks)
        \/ \E m \in 1..(n - 1) : AdviceObjects[m].name = name
  BY <1>1, AdviceShapes, WithChecksNames
     DEF Shape, VectorNames, CoreNames, TriageNames, ArticleNames,
         DatasetNames, RecordNames, RootCauseNames, ColumnNames, CheckNames
<1>5. \A n \in 1..3 : AdviceObjects[n].name # NoTable
  BY <1>1, AdviceShapes DEF Shape, NoTable
<1> QED BY <1>2, <1>3, <1>4, <1>5 DEF Adding

LEMMA WithAdviceClosed == Closed(WithAdvice)
BY WithChecksClosed, AdviceAdding, AddedClosed DEF WithAdvice

ResponseObjects ==
  << Type("response_generated_by"), Type("support_response_status"),
     Table("support_responses",
           {"tickets", "root_cause_assessments", "recommendations", "users",
            "response_generated_by", "support_response_status"},
           {"ticket while draft"}) >>

ResponseNames ==
  {"response_generated_by", "support_response_status", "support_responses"}

Schema7 == With(WithAdvice, ResponseObjects, 3)

LEMMA ResponseShapes ==
  /\ Shape(ResponseObjects[1], "response_generated_by", {})
  /\ Shape(ResponseObjects[2], "support_response_status", {})
  /\ Shape(ResponseObjects[3], "support_responses", {"tickets",
       "root_cause_assessments", "recommendations", "users",
       "response_generated_by", "support_response_status"})
BY Shapes DEF ResponseObjects

LEMMA ResponseNamed == {ResponseObjects[n].name : n \in 1..3} = ResponseNames
<1>1. 1..3 = {1, 2, 3}
  OBVIOUS
<1> QED BY <1>1, ResponseShapes DEF Shape, ResponseNames

LEMMA Schema7Names ==
  ObjectNames(Schema7) =
    VectorNames \cup CoreNames \cup TriageNames \cup ArticleNames \cup
    DatasetNames \cup RecordNames \cup RootCauseNames \cup ColumnNames \cup
    CheckNames \cup AdviceNames \cup ResponseNames
BY WithAdviceNames, ResponseNamed, NamesWith DEF Schema7

LEMMA ResponseAdding == Adding(WithAdvice, ResponseObjects, 3)
<1>1. 1..3 = {1, 2, 3}
  OBVIOUS
<1>2. \A n \in 1..3 : ResponseObjects[n].name \notin ObjectNames(WithAdvice)
  BY <1>1, ResponseShapes, WithAdviceNames
     DEF Shape, VectorNames, CoreNames, TriageNames, ArticleNames,
         DatasetNames, RecordNames, RootCauseNames, ColumnNames, CheckNames,
         AdviceNames
<1>3. \A m, n \in 1..3 :
       ResponseObjects[m].name = ResponseObjects[n].name => m = n
  BY <1>1, ResponseShapes DEF Shape
<1>4. \A n \in 1..3 : \A name \in References(ResponseObjects[n]) :
        \/ name \in ObjectNames(WithAdvice)
        \/ \E m \in 1..(n - 1) : ResponseObjects[m].name = name
  BY <1>1, ResponseShapes, WithAdviceNames
     DEF Shape, VectorNames, CoreNames, TriageNames, ArticleNames,
         DatasetNames, RecordNames, RootCauseNames, ColumnNames, CheckNames,
         AdviceNames
<1>5. \A n \in 1..3 : ResponseObjects[n].name # NoTable
  BY <1>1, ResponseShapes DEF Shape, NoTable
<1> QED BY <1>2, <1>3, <1>4, <1>5 DEF Adding

LEMMA Schema7Closed == Closed(Schema7)
BY WithAdviceClosed, ResponseAdding, AddedClosed DEF Schema7

EvaluationObjects ==
  << Table("evaluation_runs", {}, {}) >>

EvaluationNames ==
  {"evaluation_runs"}

Schema8 == With(Schema7, EvaluationObjects, 1)

LEMMA EvaluationShapes ==
  /\ Shape(EvaluationObjects[1], "evaluation_runs", {})
BY Shapes DEF EvaluationObjects

LEMMA EvaluationNamed ==
  {EvaluationObjects[n].name : n \in 1..1} = EvaluationNames
<1>1. 1..1 = {1}
  OBVIOUS
<1> QED BY <1>1, EvaluationShapes DEF Shape, EvaluationNames

LEMMA Schema8Names ==
  ObjectNames(Schema8) =
    VectorNames \cup CoreNames \cup TriageNames \cup ArticleNames \cup
    DatasetNames \cup RecordNames \cup RootCauseNames \cup ColumnNames \cup
    CheckNames \cup AdviceNames \cup ResponseNames \cup EvaluationNames
BY Schema7Names, EvaluationNamed, NamesWith DEF Schema8

LEMMA EvaluationAdding == Adding(Schema7, EvaluationObjects, 1)
<1>1. 1..1 = {1}
  OBVIOUS
<1>2. \A n \in 1..1 : EvaluationObjects[n].name \notin ObjectNames(Schema7)
  BY <1>1, EvaluationShapes, Schema7Names
     DEF Shape, VectorNames, CoreNames, TriageNames, ArticleNames,
         DatasetNames, RecordNames, RootCauseNames, ColumnNames, CheckNames,
         AdviceNames, ResponseNames
<1>3. \A m, n \in 1..1 :
       EvaluationObjects[m].name = EvaluationObjects[n].name => m = n
  BY <1>1, EvaluationShapes DEF Shape
<1>4. \A n \in 1..1 : \A name \in References(EvaluationObjects[n]) :
        \/ name \in ObjectNames(Schema7)
        \/ \E m \in 1..(n - 1) : EvaluationObjects[m].name = name
  BY <1>1, EvaluationShapes, Schema7Names
     DEF Shape, VectorNames, CoreNames, TriageNames, ArticleNames,
         DatasetNames, RecordNames, RootCauseNames, ColumnNames, CheckNames,
         AdviceNames, ResponseNames
<1>5. \A n \in 1..1 : EvaluationObjects[n].name # NoTable
  BY <1>1, EvaluationShapes DEF Shape, NoTable
<1> QED BY <1>2, <1>3, <1>4, <1>5 DEF Adding

LEMMA Schema8Closed == Closed(Schema8)
BY Schema7Closed, EvaluationAdding, AddedClosed DEF Schema8

---------------------------------------------------------------------------
(* What the statements of each revision create and drop                    *)

\* Each statement creates its object.
Creating(s, x) ==
  \A n \in 1..Len(s) : s[n] = Create(x[n]) \/ s[n] = Ensure(x[n])

\* Each statement drops one of the objects, the last one first.
Dropping(s, x) ==
  \A n \in 1..Len(s) : LET name == x[Len(s) + 1 - n].name IN
    s[n] = Drop(name) \/ s[n] = Discard(name)

LEMMA EnableVectorDoes ==
  Len(EnableVector) = 1 /\ Creating(EnableVector, VectorObjects)
<1>1. Len(EnableVector) = 1
  BY DEF EnableVector
<1>2. 1..1 = {1}
  OBVIOUS
<1>3. Creating(EnableVector, VectorObjects)
  BY <1>1, <1>2 DEF Creating, EnableVector, VectorObjects
<1> QED BY <1>1, <1>3

LEMMA EnableVectorDownDoes ==
  Len(EnableVectorDown) = 1 /\ Dropping(EnableVectorDown, VectorObjects)
<1>1. Len(EnableVectorDown) = 1
  BY DEF EnableVectorDown
<1>2. 1..1 = {1}
  OBVIOUS
<1>3. Dropping(EnableVectorDown, VectorObjects)
  BY <1>1, <1>2, VectorShapes DEF Dropping, Shape, EnableVectorDown
<1> QED BY <1>1, <1>3

LEMMA Phase2CoreDoes ==
  Len(Phase2Core) = 9 /\ Creating(Phase2Core, CoreObjects)
<1>1. Len(Phase2Core) = 9
  BY DEF Phase2Core
<1>2. 1..9 = {1, 2, 3, 4, 5, 6, 7, 8, 9}
  OBVIOUS
<1>3. /\ Phase2Core[1] = Ensure(CoreObjects[1])
      /\ Phase2Core[2] = Ensure(CoreObjects[2])
      /\ Phase2Core[3] = Ensure(CoreObjects[3])
      /\ Phase2Core[4] = Create(CoreObjects[4])
      /\ Phase2Core[5] = Create(CoreObjects[5])
      /\ Phase2Core[6] = Create(CoreObjects[6])
      /\ Phase2Core[7] = Create(CoreObjects[7])
      /\ Phase2Core[8] = Create(CoreObjects[8])
      /\ Phase2Core[9] = Create(CoreObjects[9])
  BY DEF Phase2Core, CoreObjects
<1>4. Creating(Phase2Core, CoreObjects)
  BY <1>1, <1>2, <1>3 DEF Creating
<1> QED BY <1>1, <1>4

LEMMA Phase2CoreDownDoes ==
  Len(Phase2CoreDown) = 9 /\ Dropping(Phase2CoreDown, CoreObjects)
<1>1. Len(Phase2CoreDown) = 9
  BY DEF Phase2CoreDown
<1>2. 1..9 = {1, 2, 3, 4, 5, 6, 7, 8, 9}
  OBVIOUS
<1>3. Dropping(Phase2CoreDown, CoreObjects)
  BY <1>1, <1>2, CoreShapes DEF Dropping, Shape, Phase2CoreDown
<1> QED BY <1>1, <1>3

LEMMA Phase4TriageDoes ==
  Len(Phase4Triage) = 5 /\ Creating(Phase4Triage, TriageObjects)
<1>1. Len(Phase4Triage) = 5
  BY DEF Phase4Triage
<1>2. 1..5 = {1, 2, 3, 4, 5}
  OBVIOUS
<1>3. /\ Phase4Triage[1] = Ensure(TriageObjects[1])
      /\ Phase4Triage[2] = Create(TriageObjects[2])
      /\ Phase4Triage[3] = Create(TriageObjects[3])
      /\ Phase4Triage[4] = Create(TriageObjects[4])
      /\ Phase4Triage[5] = Create(TriageObjects[5])
  BY DEF Phase4Triage, TriageObjects
<1>4. Creating(Phase4Triage, TriageObjects)
  BY <1>1, <1>2, <1>3 DEF Creating
<1> QED BY <1>1, <1>4

LEMMA Phase4TriageDownDoes ==
  Len(Phase4TriageDown) = 5 /\ Dropping(Phase4TriageDown, TriageObjects)
<1>1. Len(Phase4TriageDown) = 5
  BY DEF Phase4TriageDown
<1>2. 1..5 = {1, 2, 3, 4, 5}
  OBVIOUS
<1>3. Dropping(Phase4TriageDown, TriageObjects)
  BY <1>1, <1>2, TriageShapes DEF Dropping, Shape, Phase4TriageDown
<1> QED BY <1>1, <1>3

LEMMA Phase5KnowledgeDoes ==
  Len(Phase5Knowledge) = 2 /\ Creating(Phase5Knowledge, ArticleObjects)
<1>1. Len(Phase5Knowledge) = 2
  BY DEF Phase5Knowledge
<1>2. 1..2 = {1, 2}
  OBVIOUS
<1>3. /\ Phase5Knowledge[1] = Create(ArticleObjects[1])
      /\ Phase5Knowledge[2] = Create(ArticleObjects[2])
  BY DEF Phase5Knowledge, ArticleObjects
<1>4. Creating(Phase5Knowledge, ArticleObjects)
  BY <1>1, <1>2, <1>3 DEF Creating
<1> QED BY <1>1, <1>4

LEMMA Phase5KnowledgeDownDoes ==
  Len(Phase5KnowledgeDown) = 2 /\ Dropping(Phase5KnowledgeDown, ArticleObjects)
<1>1. Len(Phase5KnowledgeDown) = 2
  BY DEF Phase5KnowledgeDown
<1>2. 1..2 = {1, 2}
  OBVIOUS
<1>3. Dropping(Phase5KnowledgeDown, ArticleObjects)
  BY <1>1, <1>2, ArticleShapes DEF Dropping, Shape, Phase5KnowledgeDown
<1> QED BY <1>1, <1>3

LEMMA Phase6DatasetsDoes ==
  Len(Phase6Datasets) = 5 /\ Creating(Phase6Datasets, DatasetObjects)
<1>1. Len(Phase6Datasets) = 5
  BY DEF Phase6Datasets
<1>2. 1..5 = {1, 2, 3, 4, 5}
  OBVIOUS
<1>3. /\ Phase6Datasets[1] = Create(DatasetObjects[1])
      /\ Phase6Datasets[2] = Create(DatasetObjects[2])
      /\ Phase6Datasets[3] = Create(DatasetObjects[3])
      /\ Phase6Datasets[4] = Create(DatasetObjects[4])
      /\ Phase6Datasets[5] = Create(DatasetObjects[5])
  BY DEF Phase6Datasets, DatasetObjects
<1>4. Creating(Phase6Datasets, DatasetObjects)
  BY <1>1, <1>2, <1>3 DEF Creating
<1> QED BY <1>1, <1>4

LEMMA Phase6RecordsDoes ==
  Len(Phase6Records) = 6 /\ Creating(Phase6Records, RecordObjects)
<1>1. Len(Phase6Records) = 6
  BY DEF Phase6Records
<1>2. 1..6 = {1, 2, 3, 4, 5, 6}
  OBVIOUS
<1>3. /\ Phase6Records[1] = Create(RecordObjects[1])
      /\ Phase6Records[2] = Create(RecordObjects[2])
      /\ Phase6Records[3] = Create(RecordObjects[3])
      /\ Phase6Records[4] = Create(RecordObjects[4])
      /\ Phase6Records[5] = Create(RecordObjects[5])
      /\ Phase6Records[6] = Create(RecordObjects[6])
  BY DEF Phase6Records, RecordObjects
<1>4. Creating(Phase6Records, RecordObjects)
  BY <1>1, <1>2, <1>3 DEF Creating
<1> QED BY <1>1, <1>4

LEMMA Phase7RootCauseDoes ==
  Len(Phase7RootCause) = 3 /\ Creating(Phase7RootCause, RootCauseObjects)
<1>1. Len(Phase7RootCause) = 3
  BY DEF Phase7RootCause
<1>2. 1..3 = {1, 2, 3}
  OBVIOUS
<1>3. /\ Phase7RootCause[1] = Create(RootCauseObjects[1])
      /\ Phase7RootCause[2] = Create(RootCauseObjects[2])
      /\ Phase7RootCause[3] = Create(RootCauseObjects[3])
  BY DEF Phase7RootCause, RootCauseObjects
<1>4. Creating(Phase7RootCause, RootCauseObjects)
  BY <1>1, <1>2, <1>3 DEF Creating
<1> QED BY <1>1, <1>4

LEMMA Phase7RootCauseDownDoes ==
  /\ Len(Phase7RootCauseDown) = 3
  /\ Dropping(Phase7RootCauseDown, RootCauseObjects)
<1>1. Len(Phase7RootCauseDown) = 3
  BY DEF Phase7RootCauseDown
<1>2. 1..3 = {1, 2, 3}
  OBVIOUS
<1>3. Dropping(Phase7RootCauseDown, RootCauseObjects)
  BY <1>1, <1>2, RootCauseShapes DEF Dropping, Shape, Phase7RootCauseDown
<1> QED BY <1>1, <1>3

LEMMA Phase8ResponsesDoes ==
  Len(Phase8Responses) = 3 /\ Creating(Phase8Responses, ResponseObjects)
<1>1. Len(Phase8Responses) = 3
  BY DEF Phase8Responses
<1>2. 1..3 = {1, 2, 3}
  OBVIOUS
<1>3. /\ Phase8Responses[1] = Create(ResponseObjects[1])
      /\ Phase8Responses[2] = Create(ResponseObjects[2])
      /\ Phase8Responses[3] = Create(ResponseObjects[3])
  BY DEF Phase8Responses, ResponseObjects
<1>4. Creating(Phase8Responses, ResponseObjects)
  BY <1>1, <1>2, <1>3 DEF Creating
<1> QED BY <1>1, <1>4

LEMMA Phase9EvaluationDoes ==
  Len(Phase9Evaluation) = 1 /\ Creating(Phase9Evaluation, EvaluationObjects)
<1>1. Len(Phase9Evaluation) = 1
  BY DEF Phase9Evaluation
<1>2. 1..1 = {1}
  OBVIOUS
<1>3. Creating(Phase9Evaluation, EvaluationObjects)
  BY <1>1, <1>2 DEF Creating, Phase9Evaluation, EvaluationObjects
<1> QED BY <1>1, <1>3

LEMMA Phase9EvaluationDownDoes ==
  /\ Len(Phase9EvaluationDown) = 1
  /\ Dropping(Phase9EvaluationDown, EvaluationObjects)
<1>1. Len(Phase9EvaluationDown) = 1
  BY DEF Phase9EvaluationDown
<1>2. 1..1 = {1}
  OBVIOUS
<1>3. Dropping(Phase9EvaluationDown, EvaluationObjects)
  BY <1>1, <1>2, EvaluationShapes DEF Dropping, Shape, Phase9EvaluationDown
<1> QED BY <1>1, <1>3

---------------------------------------------------------------------------
(* One sequence of statements after another *)

LEMMA RunBoth ==
  ASSUME NEW db, NEW s, NEW t, NEW u, Len(s) \in Nat, Len(t) \in Nat,
         Len(u) = Len(s) + Len(t),
         \A n \in 1..Len(s) : u[n] = s[n],
         \A n \in 1..Len(t) : u[Len(s) + n] = t[n]
  PROVE  Run(db, u) = Run(Run(db, s), t)
<1> DEFINE k == Len(s)
           m == Len(t)
<1>1. PICK f : After(f, db, s, k) /\ Run(db, s) = f[k]
  BY RunAfter
<1>2. f[0] = db /\ \A n \in 1..k : f[n] = Execute(f[n - 1], s[n])
  BY <1>1, AfterSteps
<1>3. PICK g : After(g, f[k], t, m) /\ Run(f[k], t) = g[m]
  BY RunAfter
<1>4. g[0] = f[k] /\ \A n \in 1..m : g[n] = Execute(g[n - 1], t[n])
  BY <1>3, AfterSteps
<1> DEFINE D == [n \in 0..(k + m) |->
                   IF n <= k THEN {f[n]} ELSE {g[n - k]}]
<1>5. /\ \A n \in 0..k : D[n] = {f[n]}
      /\ \A n \in 0..m : D[k + n] = {g[n]}
  <2>1. ASSUME NEW n \in 0..m, n # 0
        PROVE  D[k + n] = {g[n]}
    <3>1. k + n \in 0..(k + m) /\ ~ (k + n <= k) /\ (k + n) - k = n
      BY <2>1
    <3> QED BY <3>1
  <2>2. \A n \in 0..k : D[n] = {f[n]}
    OBVIOUS
  <2>3. D[k + 0] = {g[0]}
    BY <1>4, <2>2
  <2> QED BY <2>1, <2>2, <2>3
<1> HIDE DEF D
<1>6. db \in D[0]
  BY <1>2, <1>5
<1>7. ASSUME NEW n \in 1..(k + m), NEW d \in D[n - 1]
      PROVE  Execute(d, u[n]) \in D[n]
  <2>1. CASE n <= k
    <3>1. n \in 1..k /\ n - 1 \in 0..k /\ n \in 0..k
      BY <2>1
    <3> QED BY <1>2, <1>5, <3>1
  <2>2. CASE ~ (n <= k)
    <3> DEFINE j == n - k
    <3>1. /\ j \in 1..m /\ j \in 0..m /\ j - 1 \in 0..m
          /\ k + j = n /\ k + (j - 1) = n - 1
      BY <2>2
    <3> HIDE DEF j
    <3>2. d = g[j - 1] /\ D[n] = {g[j]} /\ u[n] = t[j]
      BY <1>5, <3>1
    <3> QED BY <1>4, <3>1, <3>2
  <2> QED BY <2>1, <2>2
<1>8. Run(db, u) \in D[Len(u)]
  <2>1. Len(u) = k + m /\ Len(u) \in Nat
    OBVIOUS
  <2>2. \A n \in 1..Len(u) : \A d \in D[n - 1] : Execute(d, u[n]) \in D[n]
    BY <1>7, <2>1
  <2> QED BY <1>6, <2>1, <2>2, RunThrough
<1>9. D[k + m] = {g[m]}
  BY <1>5
<1> QED BY <1>1, <1>3, <1>8, <1>9

\* A sequence: it can be concatenated with others.
Listing(s) == \E S : s \in Seq(S)

LEMMA ListingLength ==
  ASSUME NEW s, Listing(s)
  PROVE  Len(s) \in Nat
BY DEF Listing

LEMMA Joined ==
  ASSUME NEW s, NEW t, Listing(s), Listing(t)
  PROVE  /\ Listing(s \o t)
         /\ \A db : Run(db, s \o t) = Run(Run(db, s), t)
<1>1. PICK S, T : s \in Seq(S) /\ t \in Seq(T)
  BY DEF Listing
<1>2. s \in Seq(S \cup T) /\ t \in Seq(S \cup T)
  BY <1>1
<1>3. s \o t \in Seq(S \cup T)
  BY <1>2
<1>4. /\ Len(s) \in Nat /\ Len(t) \in Nat
      /\ Len(s \o t) = Len(s) + Len(t)
      /\ \A n \in 1..Len(s) : (s \o t)[n] = s[n]
      /\ \A n \in 1..Len(t) : (s \o t)[Len(s) + n] = t[n]
  BY <1>2
<1>5. ASSUME NEW db
      PROVE  Run(db, s \o t) = Run(Run(db, s), t)
  <2> DEFINE u == s \o t
  <2>1. /\ Len(u) = Len(s) + Len(t)
        /\ \A n \in 1..Len(s) : u[n] = s[n]
        /\ \A n \in 1..Len(t) : u[Len(s) + n] = t[n]
    BY <1>4
  <2> HIDE DEF u
  <2>2. Run(db, u) = Run(Run(db, s), t)
    BY <1>4, <2>1, RunBoth
  <2> QED BY <2>2 DEF u
<1> QED BY <1>3, <1>5 DEF Listing

LEMMA Tuples ==
  ASSUME NEW s
  PROVE  /\ s = <<s[1], s[2], s[3]>> => Listing(s)
         /\ s = <<s[1], s[2], s[3], s[4]>> => Listing(s)
         /\ s = <<s[1], s[2], s[3], s[4], s[5]>> => Listing(s)
         /\ s = <<s[1], s[2], s[3], s[4], s[5], s[6]>> => Listing(s)
         /\ s = <<s[1], s[2], s[3], s[4], s[5], s[6], s[7]>> => Listing(s)
<1> DEFINE S == {s[1], s[2], s[3], s[4], s[5], s[6], s[7]}
<1>1. <<s[1], s[2], s[3]>> \in Seq(S)
  OBVIOUS
<1>2. <<s[1], s[2], s[3], s[4]>> \in Seq(S)
  OBVIOUS
<1>3. <<s[1], s[2], s[3], s[4], s[5]>> \in Seq(S)
  OBVIOUS
<1>4. <<s[1], s[2], s[3], s[4], s[5], s[6]>> \in Seq(S)
  OBVIOUS
<1>5. <<s[1], s[2], s[3], s[4], s[5], s[6], s[7]>> \in Seq(S)
  OBVIOUS
<1> HIDE DEF S
<1> QED BY <1>1, <1>2, <1>3, <1>4, <1>5 DEF Listing

LEMMA PhasesListed ==
  /\ Listing(Phase6Datasets) /\ Listing(Phase6Records)
  /\ Listing(Phase8Recommendations) /\ Listing(Phase8Responses)
  /\ Listing(TicketChecks)
<1>1. Phase6Datasets =
        << Phase6Datasets[1], Phase6Datasets[2], Phase6Datasets[3],
           Phase6Datasets[4], Phase6Datasets[5] >>
  BY DEF Phase6Datasets
<1>2. Phase6Records =
        << Phase6Records[1], Phase6Records[2], Phase6Records[3],
           Phase6Records[4], Phase6Records[5], Phase6Records[6] >>
  BY DEF Phase6Records
<1>3. Phase8Recommendations =
        << Phase8Recommendations[1], Phase8Recommendations[2],
           Phase8Recommendations[3], Phase8Recommendations[4] >>
  BY DEF Phase8Recommendations
<1>4. Phase8Responses =
        <<Phase8Responses[1], Phase8Responses[2], Phase8Responses[3]>>
  BY DEF Phase8Responses
<1>5. TicketChecks =
        << TicketChecks[1], TicketChecks[2], TicketChecks[3],
           TicketChecks[4], TicketChecks[5] >>
  BY DEF TicketChecks
<1>6. Listing(Phase6Datasets) /\ Listing(TicketChecks)
  BY Zenon, <1>1, <1>5, Tuples
<1>7. Listing(Phase6Records)
  BY Zenon, <1>2, Tuples
<1>8. Listing(Phase8Recommendations) /\ Listing(Phase8Responses)
  BY Zenon, <1>3, <1>4, Tuples
<1> QED BY <1>6, <1>7, <1>8

---------------------------------------------------------------------------
(* Revisions 0001 to 0006 and 0008                                         *)

LEMMA CreateWith ==
  ASSUME NEW O, NEW x, NEW k \in Nat, Adding(O, x, k), NEW s, Len(s) = k,
         Creating(s, x), NEW R, NEW db \in Databases(O, R)
  PROVE  Run(db, s) \in Databases(With(O, x, k), R)
BY Creates DEF Creating

LEMMA CreateAll ==
  ASSUME NEW O, NEW x, NEW k \in Nat, Adding(O, x, k), NEW s, Len(s) = k,
         Creating(s, x), NEW db \in Databases(O, Possible(O))
  PROVE  Run(db, s) \in Databases(With(O, x, k), Possible(With(O, x, k)))
<1>1. Run(db, s) \in Databases(With(O, x, k), Possible(O))
  BY CreateWith
<1> QED BY <1>1, PossibleGrows, HeldGrows

LEMMA DropAll ==
  ASSUME NEW O, Closed(O), NEW x, NEW k \in Nat, Adding(O, x, k), NEW s,
         Len(s) = k, Dropping(s, x),
         NEW db \in Databases(With(O, x, k), Possible(With(O, x, k)))
  PROVE  Run(db, s) \in Databases(O, Possible(O))
BY Drops DEF Dropping

LEMMA EmptyClosed == Closed({})
BY DEF Closed, ObjectNames

LEMMA Revision1 ==
  ASSUME NEW db
  PROVE  /\ db \in Databases({}, Possible({})) =>
              Run(db, EnableVector) \in Databases(Schema1, Possible(Schema1))
         /\ db \in Databases(Schema1, Possible(Schema1)) =>
              Run(db, EnableVectorDown) \in Databases({}, Possible({}))
BY VectorAdding, EmptyClosed, EnableVectorDoes, EnableVectorDownDoes,
   CreateAll, DropAll DEF Schema1

LEMMA Revision2 ==
  ASSUME NEW db
  PROVE  /\ db \in Databases(Schema1, Possible(Schema1)) =>
              Run(db, Phase2Core) \in Databases(Schema2, Possible(Schema2))
         /\ db \in Databases(Schema2, Possible(Schema2)) =>
              Run(db, Phase2CoreDown) \in Databases(Schema1, Possible(Schema1))
BY CoreAdding, Schema1Closed, Phase2CoreDoes, Phase2CoreDownDoes,
   CreateAll, DropAll DEF Schema2

LEMMA Revision3 ==
  ASSUME NEW db
  PROVE  /\ db \in Databases(Schema2, Possible(Schema2)) =>
              Run(db, Phase4Triage) \in Databases(Schema3, Possible(Schema3))
         /\ db \in Databases(Schema3, Possible(Schema3)) =>
              Run(db, Phase4TriageDown) \in Databases(Schema2, Possible(Schema2))
BY TriageAdding, Schema2Closed, Phase4TriageDoes, Phase4TriageDownDoes,
   CreateAll, DropAll DEF Schema3

LEMMA Revision4 ==
  ASSUME NEW db
  PROVE  /\ db \in Databases(Schema3, Possible(Schema3)) =>
              Run(db, Phase5Knowledge) \in
                Databases(Schema4, Possible(Schema4))
         /\ db \in Databases(Schema4, Possible(Schema4)) =>
              Run(db, Phase5KnowledgeDown) \in
                Databases(Schema3, Possible(Schema3))
BY ArticleAdding, Schema3Closed, Phase5KnowledgeDoes, Phase5KnowledgeDownDoes,
   CreateAll, DropAll DEF Schema4

\* The objects of 0005 in an order whose reverse its downgrade follows.
Phase6Order ==
  << RecordObjects[3], RecordObjects[5], DatasetObjects[1], DatasetObjects[2],
     DatasetObjects[3], DatasetObjects[4], DatasetObjects[5],
     RecordObjects[1], RecordObjects[2], RecordObjects[4], RecordObjects[6] >>

LEMMA Phase6Ordered ==
  /\ Adding(Schema4, Phase6Order, 11)
  /\ With(Schema4, Phase6Order, 11) = Schema5
  /\ Len(Phase6Down) = 11 /\ Dropping(Phase6Down, Phase6Order)
<1> DEFINE x == Phase6Order
<1>1. 1..11 = {1, 2, 3, 4, 5, 6, 7, 8, 9, 10, 11}
  OBVIOUS
<1>2. /\ x[1] = RecordObjects[3] /\ x[2] = RecordObjects[5]
      /\ x[3] = DatasetObjects[1] /\ x[4] = DatasetObjects[2]
      /\ x[5] = DatasetObjects[3] /\ x[6] = DatasetObjects[4]
      /\ x[7] = DatasetObjects[5] /\ x[8] = RecordObjects[1]
      /\ x[9] = RecordObjects[2] /\ x[10] = RecordObjects[4]
      /\ x[11] = RecordObjects[6]
  BY DEF Phase6Order
<1> HIDE DEF x
<1>3. Adding(Schema4, x, 11)
  <2>1. \A n \in 1..11 : x[n].name \notin ObjectNames(Schema4)
    BY <1>1, <1>2, DatasetShapes, RecordShapes, Schema4Names
       DEF Shape, VectorNames, CoreNames, TriageNames, ArticleNames
  <2>2. \A m, n \in 1..11 : x[m].name = x[n].name => m = n
    BY <1>1, <1>2, DatasetShapes, RecordShapes DEF Shape
  <2>3. \A n \in 1..11 : \A name \in References(x[n]) :
          \/ name \in ObjectNames(Schema4)
          \/ \E m \in 1..(n - 1) : x[m].name = name
    BY <1>1, <1>2, DatasetShapes, RecordShapes, Schema4Names
       DEF Shape, VectorNames, CoreNames, TriageNames, ArticleNames
  <2>4. \A n \in 1..11 : x[n].name # NoTable
    <3>1. /\ \A n \in 1..5 : DatasetObjects[n].name # NoTable
          /\ \A n \in 1..6 : RecordObjects[n].name # NoTable
      BY DatasetAdding, RecordAdding DEF Adding
    <3>2. /\ 1 \in 1..5 /\ 2 \in 1..5 /\ 3 \in 1..5 /\ 4 \in 1..5
          /\ 5 \in 1..5 /\ 1 \in 1..6 /\ 2 \in 1..6 /\ 3 \in 1..6
          /\ 4 \in 1..6 /\ 5 \in 1..6 /\ 6 \in 1..6
      OBVIOUS
    <3> QED BY <1>1, <1>2, <3>1, <3>2
  <2> QED BY <2>1, <2>2, <2>3, <2>4 DEF Adding
<1>4. With(Schema4, x, 11) = Schema5
  <2>1. 1..5 = {1, 2, 3, 4, 5} /\ 1..6 = {1, 2, 3, 4, 5, 6}
    OBVIOUS
  <2>2. {x[n] : n \in 1..11} =
          {DatasetObjects[n] : n \in 1..5} \cup {RecordObjects[n] : n \in 1..6}
    BY <1>1, <1>2, <2>1
  <2> QED BY <2>2 DEF With, WithDatasets, Schema5
<1>5. Len(Phase6Down) = 11
  BY DEF Phase6Down
<1>6. Dropping(Phase6Down, x)
  BY <1>1, <1>2, <1>5, DatasetShapes, RecordShapes
     DEF Dropping, Shape, Phase6Down
<1> QED BY <1>3, <1>4, <1>5, <1>6 DEF x

LEMMA Revision5 ==
  ASSUME NEW db
  PROVE  /\ db \in Databases(Schema4, Possible(Schema4)) =>
              Run(db, Phase6Datasets \o Phase6Records) \in
                Databases(Schema5, Possible(Schema5))
         /\ db \in Databases(Schema5, Possible(Schema5)) =>
              Run(db, Phase6Down) \in Databases(Schema4, Possible(Schema4))
<1>1. ASSUME db \in Databases(Schema4, Possible(Schema4))
      PROVE  Run(db, Phase6Datasets \o Phase6Records) \in
               Databases(Schema5, Possible(Schema5))
  <2>1. Run(db, Phase6Datasets) \in
          Databases(WithDatasets, Possible(WithDatasets))
    BY <1>1, DatasetAdding, Phase6DatasetsDoes, CreateAll DEF WithDatasets
  <2>2. Run(Run(db, Phase6Datasets), Phase6Records) \in
          Databases(Schema5, Possible(Schema5))
    BY <2>1, RecordAdding, Phase6RecordsDoes, CreateAll DEF Schema5
  <2> QED BY <2>2, PhasesListed, Joined
<1>2. ASSUME db \in Databases(Schema5, Possible(Schema5))
      PROVE  Run(db, Phase6Down) \in Databases(Schema4, Possible(Schema4))
  BY <1>2, Phase6Ordered, Schema4Closed, DropAll
<1> QED BY <1>1, <1>2

LEMMA Revision6 ==
  ASSUME NEW db
  PROVE  /\ db \in Databases(Schema5, Possible(Schema5)) =>
              Run(db, Phase7RootCause) \in
                Databases(Schema6, Possible(Schema6))
         /\ db \in Databases(Schema6, Possible(Schema6)) =>
              Run(db, Phase7RootCauseDown) \in
                Databases(Schema5, Possible(Schema5))
BY RootCauseAdding, Schema5Closed, Phase7RootCauseDoes, Phase7RootCauseDownDoes,
   CreateAll, DropAll DEF Schema6

\* The rows that 0007 leaves, and the program keeps to.
Backfilled ==
  {row \in RowType :
    /\ row.assessment \in {"completed", "escalating"} <=> row.proposal # "none"
    /\ row.assessment = "escalating" <=> row.proposal = "escalate"
    /\ row.filled = CASE row.status = "resolved"  -> ResolutionColumns
                      [] row.status = "escalated" -> EscalationColumns
                      [] OTHER -> {}}

LEMMA BackfilledPossible == Backfilled \subseteq Possible(Schema7)
<1>1. /\ "tickets" \in ObjectNames(Schema7)
      /\ "root_cause_assessments" \in ObjectNames(Schema7)
      /\ "recommendations" \in ObjectNames(Schema7)
  BY Schema7Names DEF CoreNames, RootCauseNames, AdviceNames
<1>2. OutcomeColumns \subseteq ObjectNames(Schema7)
  BY Schema7Names
     DEF ColumnNames, OutcomeColumns, ResolutionColumns, EscalationColumns
<1>3. \A row \in RowType : row.filled \subseteq OutcomeColumns
  BY DEF RowType
<1> QED BY <1>1, <1>2, <1>3 DEF Backfilled, Possible

\* Rows that only use objects that stay are left alone.
LEMMA RemainingSame ==
  ASSUME NEW names, OutcomeColumns \subseteq names,
         "root_cause_assessments" \in names, "recommendations" \in names,
         NEW R, R \subseteq RowType
  PROVE  Remaining(R, names) \subseteq R
<1>1. ASSUME NEW row \in R
      PROVE  Surviving(row, names) = row
  <2>1. row \in RowType /\ row.filled \cap names = row.filled
    BY DEF RowType
  <2>2. Surviving(row, names) =
          [row EXCEPT !.filled = row.filled, !.assessment = row.assessment,
                      !.proposal = row.proposal]
    BY <2>1 DEF Surviving
  <2> QED BY <2>1, <2>2 DEF RowType
<1> QED BY <1>1 DEF Remaining

LEMMA Revision8 ==
  ASSUME NEW db
  PROVE  /\ db \in Databases(Schema7, Backfilled) =>
              Run(db, Phase9Evaluation) \in Databases(Schema8, Backfilled)
         /\ db \in Databases(Schema8, Backfilled) =>
              Run(db, Phase9EvaluationDown) \in Databases(Schema7, Backfilled)
<1>1. ASSUME db \in Databases(Schema7, Backfilled)
      PROVE  Run(db, Phase9Evaluation) \in Databases(Schema8, Backfilled)
  BY <1>1, EvaluationAdding, Phase9EvaluationDoes, CreateWith DEF Schema8
<1>2. ASSUME db \in Databases(Schema8, Backfilled)
      PROVE  Run(db, Phase9EvaluationDown) \in Databases(Schema7, Backfilled)
  <2> DEFINE o == EvaluationObjects[1]
             s == Phase9EvaluationDown
             names == ObjectNames(Schema7)
             D == [n \in 0..1 |-> IF n = 0 THEN Databases(Schema8, Backfilled)
                                  ELSE Databases(Schema7, Backfilled)]
  <2>1. Schema8 = Schema7 \cup {o}
    <3>1. 1..1 = {1}
      OBVIOUS
    <3> QED BY <3>1 DEF Schema8, With
  <2>2. o.name \notin names /\ o.name # NoTable
    BY EvaluationAdding DEF Adding
  <2>3. Len(s) = 1 /\ (s[1] = Drop(o.name) \/ s[1] = Discard(o.name))
    BY Phase9EvaluationDownDoes DEF Dropping
  <2>4. Remaining(Backfilled, names) \subseteq Backfilled
    <3>1. /\ "root_cause_assessments" \in names /\ "recommendations" \in names
          /\ OutcomeColumns \subseteq names
      BY Schema7Names
         DEF RootCauseNames, AdviceNames, ColumnNames, OutcomeColumns,
             ResolutionColumns, EscalationColumns
    <3>2. Backfilled \subseteq RowType
      BY DEF Backfilled
    <3> HIDE DEF names
    <3> QED BY <3>1, <3>2, RemainingSame
  <2>5. /\ D[0] = Databases(Schema8, Backfilled)
        /\ D[1] = Databases(Schema7, Backfilled)
    OBVIOUS
  <2> HIDE DEF o, s, names, D
  <2>6. ASSUME NEW d \in D[0]
        PROVE  Execute(d, s[1]) \in D[1]
    <3>1. d \in Databases(Schema7 \cup {o}, Backfilled)
      BY <2>1, <2>5
    <3>2. /\ DropObject(d, o.name) \in
               Databases(Schema7, Remaining(Backfilled, ObjectNames(Schema7)))
          /\ o.name \in Names(d)
      BY <2>2, <3>1, Schema7Closed, DropHeld DEF names
    <3>3. DropObject(d, o.name) \in Databases(Schema7, Backfilled)
      BY <2>4, <3>2, HeldGrows DEF names
    <3>4. d.ok = TRUE
      BY <3>1 DEF Databases
    <3> QED BY <2>3, <2>5, <3>2, <3>3, <3>4, ExecuteDrop
  <2>7. \A n \in 1..Len(s) : \A d \in D[n - 1] : Execute(d, s[n]) \in D[n]
    <3>1. \A n \in 1..Len(s) : n = 1 /\ n - 1 = 0
      BY <2>3
    <3> QED BY <2>6, <3>1
  <2>8. Run(db, s) \in D[Len(s)]
    <3>1. db \in D[0] /\ Len(s) \in Nat
      BY <1>2, <2>3, <2>5
    <3> QED BY <2>7, <3>1, RunThrough
  <2> QED BY <2>3, <2>5, <2>8 DEF s
<1> QED BY <1>1, <1>2

---------------------------------------------------------------------------
(* Revision 0007: outcomes, recommendations and responses                  *)

\* Tickets without outcomes, without recommendations, and with the outcomes of
\* their status.
Unrecorded == {row \in RowType : row.filled = {} /\ row.proposal = "none"}
Recorded ==
  {row \in RowType :
    /\ row.proposal = "none"
    /\ row.filled = CASE row.status = "resolved"  -> ResolutionColumns
                      [] row.status = "escalated" -> EscalationColumns
                      [] OTHER -> {}}

LEMMA BeforeOutcomes == Possible(Schema6) \subseteq Unrecorded
<1>1. ASSUME NEW name \in OutcomeColumns \cup {"recommendations"}
      PROVE  name \notin ObjectNames(Schema6)
  BY Schema6Names
     DEF OutcomeColumns, ResolutionColumns, EscalationColumns, VectorNames,
         CoreNames, TriageNames, ArticleNames, DatasetNames, RecordNames,
         RootCauseNames
<1>2. \A row \in RowType : row.filled \subseteq OutcomeColumns
  BY DEF RowType
<1> QED BY <1>1, <1>2 DEF Possible, Unrecorded

AddColumns ==
  << Create(ColumnObjects[1]), Create(ColumnObjects[2]),
     Create(ColumnObjects[3]), Create(ColumnObjects[4]),
     Create(ColumnObjects[5]) >>

FillOutcomes ==
  <<Fill("resolved", ResolutionColumns), Fill("escalated", EscalationColumns)>>

AddOutcomes ==
  << Create(Part("resolved_at", "tickets")),
     Create(Part("escalated_at", "tickets")),
     Create(Part("escalation_destination", "tickets")),
     Create(Part("escalation_reason", "tickets")),
     Create(Part("resolution_summary", "tickets")),
     Fill("resolved", ResolutionColumns), Fill("escalated", EscalationColumns)
  >>

LEMMA AddOutcomesListed == Listing(AddOutcomes)
<1>1. AddOutcomes =
        << AddOutcomes[1], AddOutcomes[2], AddOutcomes[3], AddOutcomes[4],
           AddOutcomes[5], AddOutcomes[6], AddOutcomes[7] >>
  BY DEF AddOutcomes
<1> QED BY Zenon, <1>1, Tuples

LEMMA AddOutcomesParts ==
  ASSUME NEW db
  PROVE  Run(db, AddOutcomes) = Run(Run(db, AddColumns), FillOutcomes)
<1>1. Len(AddColumns) = 5 /\ Len(FillOutcomes) = 2 /\ Len(AddOutcomes) = 7
  BY DEF AddColumns, FillOutcomes, AddOutcomes
<1>2. 1..5 = {1, 2, 3, 4, 5} /\ 1..2 = {1, 2}
  OBVIOUS
<1>3. /\ AddOutcomes[1] = AddColumns[1] /\ AddOutcomes[2] = AddColumns[2]
      /\ AddOutcomes[3] = AddColumns[3] /\ AddOutcomes[4] = AddColumns[4]
      /\ AddOutcomes[5] = AddColumns[5]
  BY DEF AddColumns, AddOutcomes, ColumnObjects
<1>4. /\ AddOutcomes[6] = FillOutcomes[1]
      /\ AddOutcomes[7] = FillOutcomes[2]
  BY DEF FillOutcomes, AddOutcomes
<1>5. /\ \A n \in 1..5 : AddOutcomes[n] = AddColumns[n]
      /\ \A n \in 1..2 : AddOutcomes[5 + n] = FillOutcomes[n]
  BY <1>2, <1>3, <1>4
<1>6. /\ Len(AddOutcomes) = Len(AddColumns) + Len(FillOutcomes)
      /\ \A n \in 1..Len(AddColumns) : AddOutcomes[n] = AddColumns[n]
      /\ \A n \in 1..Len(FillOutcomes) :
           AddOutcomes[Len(AddColumns) + n] = FillOutcomes[n]
      /\ Len(AddColumns) \in Nat /\ Len(FillOutcomes) \in Nat
  BY <1>1, <1>5
<1> QED BY <1>6, RunBoth

LEMMA AddColumnsDoes ==
  Len(AddColumns) = 5 /\ Creating(AddColumns, ColumnObjects)
<1>1. Len(AddColumns) = 5
  BY DEF AddColumns
<1>2. 1..5 = {1, 2, 3, 4, 5}
  OBVIOUS
<1>3. /\ AddColumns[1] = Create(ColumnObjects[1])
      /\ AddColumns[2] = Create(ColumnObjects[2])
      /\ AddColumns[3] = Create(ColumnObjects[3])
      /\ AddColumns[4] = Create(ColumnObjects[4])
      /\ AddColumns[5] = Create(ColumnObjects[5])
  BY DEF AddColumns
<1> QED BY <1>1, <1>2, <1>3 DEF Creating

\* Filling the columns of the resolved leaves the escalated to fill.
FilledResolved ==
  {row \in RowType :
    /\ row.proposal = "none"
    /\ row.filled = CASE row.status = "resolved" -> ResolutionColumns
                      [] OTHER -> {}}

LEMMA RowTypeFill ==
  ASSUME NEW row \in RowType, NEW columns \in SUBSET OutcomeColumns
  PROVE  /\ [row EXCEPT !.filled = @ \cup columns] \in RowType
         /\ [row EXCEPT !.filled = @ \cup columns].filled
            = row.filled \cup columns
         /\ [row EXCEPT !.filled = @ \cup columns].status = row.status
         /\ [row EXCEPT !.filled = @ \cup columns].proposal = row.proposal
BY DEF RowType

LEMMA ColumnKinds ==
  /\ ResolutionColumns \in SUBSET OutcomeColumns
  /\ EscalationColumns \in SUBSET OutcomeColumns
BY DEF OutcomeColumns

LEMMA FillRows ==
  ASSUME NEW O, NEW R, NEW S, NEW status,
         NEW columns \in SUBSET OutcomeColumns,
         NEW d \in Databases(O, R),
         \A row \in R : row.status = status =>
           [row EXCEPT !.filled = @ \cup columns] \in S,
         \A row \in R : row.status # status => row \in S
  PROVE  Execute(d, Fill(status, columns)) \in Databases(O, S)
<1> DEFINE s == Fill(status, columns)
           Filled(row) == IF row.status = s.status
                          THEN [row EXCEPT !.filled = @ \cup s.columns]
                          ELSE row
           rows == {Filled(row) : row \in d.rows}
<1>1. s.do = "fill" /\ s.status = status /\ s.columns = columns
  BY DEF Fill
<1>2. d.ok = TRUE /\ d.rows \subseteq R
  BY DEF Databases
<1>3. rows \in SUBSET S
  <2>1. ASSUME NEW row \in R
        PROVE  Filled(row) \in S
    BY <1>1
  <2> QED BY <1>2, <2>1
<1>4. FillColumns(d, s) = [d EXCEPT !.rows = {Filled(row) : row \in @}]
  BY DEF FillColumns
<1>5. [d EXCEPT !.rows = {Filled(row) : row \in @}] = [d EXCEPT !.rows = rows]
  OBVIOUS
<1> HIDE DEF s, rows, Filled
<1>6. [d EXCEPT !.rows = rows] \in Databases(O, S)
  BY <1>3, HeldChanged
<1>7. Execute(d, s) = FillColumns(d, s)
  BY <1>1, <1>2 DEF Execute
<1> QED BY <1>4, <1>5, <1>6, <1>7 DEF s

LEMMA FillsOutcomes ==
  ASSUME NEW O, NEW db \in Databases(O, Unrecorded)
  PROVE  Run(db, FillOutcomes) \in Databases(O, Recorded)
<1> DEFINE D == [n \in 0..2 |-> CASE n = 0 -> Databases(O, Unrecorded)
                                  [] n = 1 -> Databases(O, FilledResolved)
                                  [] n = 2 -> Databases(O, Recorded)]
<1>1. /\ D[0] = Databases(O, Unrecorded)
      /\ D[1] = Databases(O, FilledResolved)
      /\ D[2] = Databases(O, Recorded)
  OBVIOUS
<1> HIDE DEF D
<1>2. /\ Len(FillOutcomes) = 2
      /\ FillOutcomes[1] = Fill("resolved", ResolutionColumns)
      /\ FillOutcomes[2] = Fill("escalated", EscalationColumns)
  BY DEF FillOutcomes
<1>3. ASSUME NEW d \in D[0]
      PROVE  Execute(d, FillOutcomes[1]) \in D[1]
  <2>1. ASSUME NEW row \in Unrecorded
        PROVE  /\ row.status = "resolved" =>
                    [row EXCEPT !.filled = @ \cup ResolutionColumns]
                      \in FilledResolved
               /\ row.status # "resolved" => row \in FilledResolved
    <3>1. row \in RowType /\ row.filled = {} /\ row.proposal = "none"
      BY DEF Unrecorded
    <3>2. ASSUME row.status = "resolved"
          PROVE  [row EXCEPT !.filled = @ \cup ResolutionColumns]
                   \in FilledResolved
      <4> DEFINE new == [row EXCEPT !.filled = @ \cup ResolutionColumns]
      <4>1. /\ new \in RowType /\ new.filled = {} \cup ResolutionColumns
            /\ new.status = "resolved" /\ new.proposal = "none"
        BY <3>1, <3>2, ColumnKinds, RowTypeFill
      <4> HIDE DEF new
      <4>2. new \in FilledResolved
        BY <4>1 DEF FilledResolved
      <4> QED BY <4>2 DEF new
    <3>3. row.status # "resolved" => row \in FilledResolved
      BY <3>1 DEF FilledResolved
    <3> QED BY <3>2, <3>3
  <2>2. d \in Databases(O, Unrecorded)
    BY <1>1
  <2>3. Execute(d, Fill("resolved", ResolutionColumns)) \in
          Databases(O, FilledResolved)
    BY <2>1, <2>2, ColumnKinds, FillRows
  <2> QED BY <1>1, <1>2, <2>3
<1>4. ASSUME NEW d \in D[1]
      PROVE  Execute(d, FillOutcomes[2]) \in D[2]
  <2>1. ASSUME NEW row \in FilledResolved
        PROVE  /\ row.status = "escalated" =>
                    [row EXCEPT !.filled = @ \cup EscalationColumns]
                      \in Recorded
               /\ row.status # "escalated" => row \in Recorded
    <3>1. row \in RowType /\ row.proposal = "none"
      BY DEF FilledResolved
    <3>2. ASSUME row.status = "escalated"
          PROVE  [row EXCEPT !.filled = @ \cup EscalationColumns] \in Recorded
      <4> DEFINE new == [row EXCEPT !.filled = @ \cup EscalationColumns]
      <4>1. row.filled = {}
        BY <3>2 DEF FilledResolved
      <4>2. /\ new \in RowType /\ new.filled = {} \cup EscalationColumns
            /\ new.status = "escalated" /\ new.proposal = "none"
        BY <3>1, <3>2, <4>1, ColumnKinds, RowTypeFill
      <4> HIDE DEF new
      <4>3. new \in Recorded
        BY <4>2 DEF Recorded
      <4> QED BY <4>3 DEF new
    <3>3. row.status = "resolved" => row \in Recorded
      BY <3>1 DEF FilledResolved, Recorded
    <3>4. row.status # "resolved" /\ row.status # "escalated"
          => row \in Recorded
      BY <3>1 DEF FilledResolved, Recorded
    <3> QED BY <3>2, <3>3, <3>4
  <2>2. d \in Databases(O, FilledResolved)
    BY <1>1
  <2>3. Execute(d, Fill("escalated", EscalationColumns)) \in
          Databases(O, Recorded)
    BY <2>1, <2>2, ColumnKinds, FillRows
  <2> QED BY <1>1, <1>2, <2>3
<1>5. \A n \in 1..Len(FillOutcomes) : \A d \in D[n - 1] :
        Execute(d, FillOutcomes[n]) \in D[n]
  <2>1. ASSUME NEW n \in 1..Len(FillOutcomes)
        PROVE  \/ n = 1 /\ n - 1 = 0
               \/ n = 2 /\ n - 1 = 1
    BY <1>2
  <2> QED BY <1>3, <1>4, <2>1
<1>6. Run(db, FillOutcomes) \in D[Len(FillOutcomes)]
  <2>1. db \in D[0] /\ Len(FillOutcomes) \in Nat
    BY <1>1, <1>2
  <2> QED BY <1>5, <2>1, RunThrough
<1> QED BY <1>1, <1>2, <1>6

LEMMA ChecksPass ==
  ASSUME NEW db \in Databases(WithColumns, Recorded)
  PROVE  Run(db, TicketChecks) \in Databases(WithChecks, Recorded)
<1> DEFINE s == TicketChecks
           x == CheckObjects
<1>1. Len(s) = 5 /\ 1..5 = {1, 2, 3, 4, 5}
  BY DEF TicketChecks
<1>2. ASSUME NEW row \in Recorded
      PROVE  /\ Outcome(row) \in Outcomes
             /\ Outcome(row).status = row.status
             /\ Outcome(row).filled = row.filled
             /\ row.filled = CASE row.status = "resolved"  -> ResolutionColumns
                               [] row.status = "escalated" -> EscalationColumns
                               [] OTHER -> {}
  BY DEF Recorded, RowType, Outcome, Outcomes
<1>3. ASSUME NEW row \in Recorded
      PROVE  /\ row.status = "resolved" => row.filled = ResolutionColumns
             /\ row.status = "escalated" => row.filled = EscalationColumns
             /\ row.status \notin {"resolved", "escalated"} => row.filled = {}
             /\ \/ row.filled = ResolutionColumns
                \/ row.filled = EscalationColumns
                \/ row.filled = {}
  BY <1>2
<1>4. /\ ResolutionColumns \cap EscalationColumns = {}
      /\ EscalationColumns \cap ResolutionColumns = {}
      /\ "resolved_at" \in ResolutionColumns
      /\ "escalated_at" \in EscalationColumns
      /\ "escalated_at" \notin ResolutionColumns
      /\ "resolved_at" \notin EscalationColumns
  BY DEF ResolutionColumns, EscalationColumns
<1>5. ASSUME NEW row \in Recorded
      PROVE  /\ Outcome(row) \in
                  {o \in Outcomes :
                     {"resolved_at", "escalated_at"} \ o.filled # {}}
             /\ Outcome(row) \in Only("resolved", {}, EscalationColumns)
             /\ Outcome(row) \in Only("escalated", {}, ResolutionColumns)
             /\ Outcome(row) \in Only("resolved", ResolutionColumns, {})
             /\ Outcome(row) \in Only("escalated", EscalationColumns, {})
  <2>1. {"resolved_at", "escalated_at"} \ row.filled # {}
    BY <1>3, <1>4
  <2>2. /\ Outcome(row) \in Only("resolved", {}, EscalationColumns)
        /\ Outcome(row) \in Only("resolved", ResolutionColumns, {})
    BY <1>2, <1>3, <1>4 DEF Only
  <2>3. /\ Outcome(row) \in Only("escalated", {}, ResolutionColumns)
        /\ Outcome(row) \in Only("escalated", EscalationColumns, {})
    BY <1>2, <1>3, <1>4 DEF Only
  <2> QED BY <1>2, <2>1, <2>2, <2>3
<1>6. /\ s[1].do = "check" /\ s[2].do = "check" /\ s[3].do = "check"
      /\ s[4].do = "check" /\ s[5].do = "check"
      /\ x[1] = Part(s[1].name, "tickets") /\ x[2] = Part(s[2].name, "tickets")
      /\ x[3] = Part(s[3].name, "tickets") /\ x[4] = Part(s[4].name, "tickets")
      /\ x[5] = Part(s[5].name, "tickets")
  BY DEF TicketChecks, CheckObjects, Check
<1>7. /\ s[1].permits = {o \in Outcomes :
                           {"resolved_at", "escalated_at"} \ o.filled # {}}
      /\ s[2].permits = Only("resolved", {}, EscalationColumns)
      /\ s[3].permits = Only("escalated", {}, ResolutionColumns)
      /\ s[4].permits = Only("resolved", ResolutionColumns, {})
      /\ s[5].permits = Only("escalated", EscalationColumns, {})
  BY DEF TicketChecks, Check
<1> HIDE DEF s, x
<1>8. ASSUME NEW n \in 1..5
      PROVE  /\ s[n].do = "check" /\ x[n] = Part(s[n].name, "tickets")
             /\ \A row \in Recorded : Outcome(row) \in s[n].permits
  BY <1>1, <1>5, <1>6, <1>7
<1>9. ASSUME NEW n \in 1..5, NEW d, d.ok = TRUE, d.rows \subseteq Recorded
      PROVE  Execute(d, s[n]) = CreateObject(d, x[n])
  <2>1. \A row \in d.rows : Outcome(row) \in s[n].permits
    BY <1>8, <1>9
  <2>2. AddCheck(d, s[n]) = CreateObject(d, x[n])
    BY <1>8, <2>1 DEF AddCheck
  <2>3. Execute(d, s[n]) = AddCheck(d, s[n])
    BY <1>8, <1>9 DEF Execute
  <2> QED BY <2>2, <2>3
<1>10. Adding(WithColumns, x, 5) /\ WithChecks = With(WithColumns, x, 5)
  BY CheckAdding DEF x, WithChecks
<1>11. Run(db, s) \in Databases(With(WithColumns, x, Len(s)), Recorded)
  <2>1. Len(s) \in Nat /\ Adding(WithColumns, x, Len(s))
    BY <1>1, <1>10
  <2>2. ASSUME NEW n \in 1..Len(s), NEW d, d.ok = TRUE,
               d.rows \subseteq Recorded
        PROVE  Execute(d, s[n]) = CreateObject(d, x[n])
    BY <1>1, <1>9, <2>2
  <2> QED BY <2>1, <2>2, CreatesBy
<1> QED BY <1>1, <1>10, <1>11 DEF s

AddAdvice ==
  << Create(AdviceObjects[1]), Create(AdviceObjects[2]),
     Create(AdviceObjects[3]) >>

LEMMA AddAdviceDoes == Len(AddAdvice) = 3 /\ Creating(AddAdvice, AdviceObjects)
<1>1. Len(AddAdvice) = 3 /\ 1..3 = {1, 2, 3}
  BY DEF AddAdvice
<1>2. /\ AddAdvice[1] = Create(AdviceObjects[1])
      /\ AddAdvice[2] = Create(AdviceObjects[2])
      /\ AddAdvice[3] = Create(AdviceObjects[3])
  BY DEF AddAdvice
<1> QED BY <1>1, <1>2 DEF Creating

LEMMA AdviceParts ==
  ASSUME NEW db
  PROVE  Run(db, Phase8Recommendations) = Run(Run(db, AddAdvice), <<Propose>>)
<1> DEFINE u == Phase8Recommendations
           t == <<Propose>>
<1>1. Len(AddAdvice) = 3 /\ Len(t) = 1 /\ Len(u) = 4
  BY DEF AddAdvice, Phase8Recommendations
<1>2. 1..3 = {1, 2, 3} /\ 1..1 = {1}
  OBVIOUS
<1>3. /\ u[1] = AddAdvice[1] /\ u[2] = AddAdvice[2] /\ u[3] = AddAdvice[3]
  BY DEF AddAdvice, Phase8Recommendations, AdviceObjects
<1>4. u[4] = t[1]
  BY DEF Phase8Recommendations
<1> HIDE DEF u, t
<1>5. /\ Len(u) = Len(AddAdvice) + Len(t)
      /\ \A n \in 1..Len(AddAdvice) : u[n] = AddAdvice[n]
      /\ \A n \in 1..Len(t) : u[Len(AddAdvice) + n] = t[n]
      /\ Len(AddAdvice) \in Nat /\ Len(t) \in Nat
  BY <1>1, <1>2, <1>3, <1>4
<1>6. Run(db, u) = Run(Run(db, AddAdvice), t)
  BY <1>5, RunBoth
<1> QED BY <1>6 DEF u, t

LEMMA ProposesAll ==
  ASSUME NEW O, NEW db \in Databases(O, Recorded)
  PROVE  Run(db, <<Propose>>) \in Databases(O, Backfilled)
<1> DEFINE t == <<Propose>>
           Proposal(row) == CASE row.assessment = "escalating" -> "escalate"
                              [] row.assessment = "completed"  -> "troubleshoot"
                              [] OTHER -> row.proposal
           New(row) == [row EXCEPT !.proposal = Proposal(row)]
           D == [n \in 0..1 |-> IF n = 0 THEN Databases(O, Recorded)
                                ELSE Databases(O, Backfilled)]
<1>1. Len(t) = 1 /\ t[1].do = "propose"
  BY DEF Propose
<1>2. D[0] = Databases(O, Recorded) /\ D[1] = Databases(O, Backfilled)
  OBVIOUS
<1> HIDE DEF t, D
<1>3. ASSUME NEW row \in Recorded
      PROVE  New(row) \in Backfilled
  <2>1. /\ row \in RowType /\ row.proposal = "none"
        /\ row.filled = CASE row.status = "resolved"  -> ResolutionColumns
                          [] row.status = "escalated" -> EscalationColumns
                          [] OTHER -> {}
    BY DEF Recorded
  <2>2. /\ Proposal(row) \in Actions
        /\ row.assessment \in {"completed", "escalating"}
           <=> Proposal(row) # "none"
        /\ row.assessment = "escalating" <=> Proposal(row) = "escalate"
    BY <2>1 DEF Actions, RowType, Assessments
  <2> DEFINE action == Proposal(row)
             new == [row EXCEPT !.proposal = action]
  <2> HIDE DEF action
  <2>3. /\ new \in RowType /\ new.proposal = action
        /\ new.status = row.status /\ new.filled = row.filled
        /\ new.assessment = row.assessment
    BY <2>1, <2>2 DEF RowType, action
  <2> HIDE DEF new
  <2>4. new \in Backfilled
    BY <2>1, <2>2, <2>3 DEF Backfilled, action
  <2> QED BY <2>4 DEF new, action
<1>4. ASSUME NEW d \in D[0]
      PROVE  Execute(d, t[1]) \in D[1]
  <2> DEFINE rows == {New(row) : row \in d.rows}
  <2>1. d \in Databases(O, Recorded) /\ d.ok = TRUE /\ d.rows \subseteq Recorded
    <3> HIDE DEF New, Proposal
    <3>1. d \in Databases(O, Recorded)
      BY <1>2
    <3> QED BY <3>1, HeldParts
  <2>2. rows \in SUBSET Backfilled
    <3> HIDE DEF New
    <3> QED BY <1>3, <2>1
  <2>3. ProposeAction(d) = [d EXCEPT !.rows = rows]
    BY Zenon DEF ProposeAction
  <2>4. [d EXCEPT !.rows = rows] \in Databases(O, Backfilled)
    <3> HIDE DEF rows
    <3> QED BY <2>1, <2>2, HeldChanged
  <2>5. Execute(d, t[1]) = ProposeAction(d)
    BY <1>1, <2>1 DEF Execute
  <2> QED BY <1>2, <2>3, <2>4, <2>5
<1>5. \A n \in 1..Len(t) : \A d \in D[n - 1] : Execute(d, t[n]) \in D[n]
  <2>1. \A n \in 1..Len(t) : n = 1 /\ n - 1 = 0
    BY <1>1
  <2> QED BY <1>4, <2>1
<1>6. db \in D[0] /\ Len(t) \in Nat
  BY <1>1, <1>2
<1>7. Run(db, t) \in D[Len(t)]
  BY <1>5, <1>6, RunThrough
<1> QED BY <1>1, <1>2, <1>7 DEF t

LEMMA Revision7Up ==
  ASSUME NEW db \in Databases(Schema6, Possible(Schema6))
  PROVE  Run(db, Phase8Outcomes \o Phase8Recommendations \o Phase8Responses)
           \in Databases(Schema7, Backfilled)
<1> DEFINE d1 == Run(db, AddColumns)
           d2 == Run(d1, FillOutcomes)
           d3 == Run(d2, TicketChecks)
           d4 == Run(d3, AddAdvice)
           d5 == Run(d4, <<Propose>>)
<1>1. db \in Databases(Schema6, Unrecorded)
  BY BeforeOutcomes, HeldGrows
<1>2. d1 \in Databases(WithColumns, Unrecorded)
  BY <1>1, ColumnAdding, AddColumnsDoes, CreateWith DEF WithColumns
<1> HIDE DEF d1
<1>3. d2 \in Databases(WithColumns, Recorded)
  BY <1>2, FillsOutcomes
<1> HIDE DEF d2
<1>4. d3 \in Databases(WithChecks, Recorded)
  BY <1>3, ChecksPass
<1> HIDE DEF d3
<1>5. d4 \in Databases(WithAdvice, Recorded)
  BY <1>4, AdviceAdding, AddAdviceDoes, CreateWith DEF WithAdvice
<1> HIDE DEF d4
<1>6. d5 \in Databases(WithAdvice, Backfilled)
  BY <1>5, ProposesAll
<1> HIDE DEF d5
<1>7. Run(d5, Phase8Responses) \in Databases(Schema7, Backfilled)
  BY <1>6, ResponseAdding, Phase8ResponsesDoes, CreateWith DEF Schema7
<1>8. Phase8Outcomes = AddOutcomes \o TicketChecks
  BY Zenon DEF Phase8Outcomes, AddOutcomes
<1>9. Run(db, Phase8Outcomes) = d3 /\ Listing(Phase8Outcomes)
  BY <1>8, AddOutcomesListed, PhasesListed, Joined, AddOutcomesParts
     DEF d1, d2, d3
<1>10. /\ Run(db, Phase8Outcomes \o Phase8Recommendations) = d5
       /\ Listing(Phase8Outcomes \o Phase8Recommendations)
  BY <1>9, PhasesListed, Joined, AdviceParts DEF d4, d5
<1>11. Run(db, Phase8Outcomes \o Phase8Recommendations \o Phase8Responses)
         = Run(d5, Phase8Responses)
  BY <1>10, PhasesListed, Joined
<1> QED BY <1>7, <1>11

\* The objects of 0007 in an order whose reverse its downgrade follows.
Phase8Order ==
  << ColumnObjects[1], ColumnObjects[2], ColumnObjects[3], ColumnObjects[4],
     ColumnObjects[5], CheckObjects[1], CheckObjects[2], CheckObjects[3],
     CheckObjects[4], CheckObjects[5], AdviceObjects[1], AdviceObjects[2],
     ResponseObjects[1], ResponseObjects[2], AdviceObjects[3],
     ResponseObjects[3] >>

LEMMA Phase8Ordered ==
  /\ Adding(Schema6, Phase8Order, 16)
  /\ With(Schema6, Phase8Order, 16) = Schema7
  /\ Len(Phase8Down) = 16 /\ Dropping(Phase8Down, Phase8Order)
<1> DEFINE x == Phase8Order
<1>1. 1..16 = {1, 2, 3, 4, 5, 6, 7, 8, 9, 10, 11, 12, 13, 14, 15, 16}
  OBVIOUS
<1>2. /\ x[1] = ColumnObjects[1] /\ x[2] = ColumnObjects[2]
      /\ x[3] = ColumnObjects[3] /\ x[4] = ColumnObjects[4]
      /\ x[5] = ColumnObjects[5] /\ x[6] = CheckObjects[1]
      /\ x[7] = CheckObjects[2] /\ x[8] = CheckObjects[3]
      /\ x[9] = CheckObjects[4] /\ x[10] = CheckObjects[5]
      /\ x[11] = AdviceObjects[1] /\ x[12] = AdviceObjects[2]
      /\ x[13] = ResponseObjects[1] /\ x[14] = ResponseObjects[2]
      /\ x[15] = AdviceObjects[3] /\ x[16] = ResponseObjects[3]
  BY DEF Phase8Order
<1> HIDE DEF x
<1>3. Adding(Schema6, x, 16)
  <2>1. \A n \in 1..16 : x[n].name \notin ObjectNames(Schema6)
    BY <1>1, <1>2, ColumnShapes, CheckShapes, AdviceShapes, ResponseShapes,
       Schema6Names
       DEF Shape, VectorNames, CoreNames, TriageNames, ArticleNames,
           DatasetNames, RecordNames, RootCauseNames
  <2>2. \A m, n \in 1..16 : x[m].name = x[n].name => m = n
    <3>1. /\ x[1].name = "resolved_at" /\ x[2].name = "escalated_at"
          /\ x[3].name = "escalation_destination"
          /\ x[4].name = "escalation_reason"
          /\ x[5].name = "resolution_summary"
          /\ x[6].name = "ck_tickets_single_terminal_outcome"
          /\ x[7].name = "ck_tickets_resolved_excludes_escalation"
          /\ x[8].name = "ck_tickets_escalated_excludes_resolution"
          /\ x[9].name = "ck_tickets_resolved_fields"
          /\ x[10].name = "ck_tickets_escalated_fields"
          /\ x[11].name = "recommendation_action_type"
          /\ x[12].name = "recommendation_status"
          /\ x[13].name = "response_generated_by"
          /\ x[14].name = "support_response_status"
          /\ x[15].name = "recommendations"
          /\ x[16].name = "support_responses"
      BY <1>2, ColumnShapes, CheckShapes, AdviceShapes, ResponseShapes DEF Shape
    <3> QED BY <1>1, <3>1, SMTT(60)
  <2>3. \A n \in 1..16 : \A name \in References(x[n]) :
          \/ name \in ObjectNames(Schema6)
          \/ \E m \in 1..(n - 1) : x[m].name = name
    BY <1>1, <1>2, ColumnShapes, CheckShapes, AdviceShapes, ResponseShapes,
       Schema6Names
       DEF Shape, VectorNames, CoreNames, TriageNames, ArticleNames,
           DatasetNames, RecordNames, RootCauseNames
  <2>4. \A n \in 1..16 : x[n].name # NoTable
    <3>1. /\ \A n \in 1..5 : ColumnObjects[n].name # NoTable
          /\ \A n \in 1..5 : CheckObjects[n].name # NoTable
          /\ \A n \in 1..3 : AdviceObjects[n].name # NoTable
          /\ \A n \in 1..3 : ResponseObjects[n].name # NoTable
      BY ColumnAdding, CheckAdding, AdviceAdding, ResponseAdding DEF Adding
    <3>2. /\ 1 \in 1..5 /\ 2 \in 1..5 /\ 3 \in 1..5 /\ 4 \in 1..5 /\ 5 \in 1..5
          /\ 1 \in 1..3 /\ 2 \in 1..3 /\ 3 \in 1..3
      OBVIOUS
    <3> QED BY <1>1, <1>2, <3>1, <3>2
  <2> QED BY <2>1, <2>2, <2>3, <2>4 DEF Adding
<1>4. With(Schema6, x, 16) = Schema7
  <2>1. 1..5 = {1, 2, 3, 4, 5} /\ 1..3 = {1, 2, 3}
    OBVIOUS
  <2>2. {x[n] : n \in 1..16} =
          {ColumnObjects[n] : n \in 1..5} \cup {CheckObjects[n] : n \in 1..5}
          \cup {AdviceObjects[n] : n \in 1..3}
          \cup {ResponseObjects[n] : n \in 1..3}
    BY <1>1, <1>2, <2>1
  <2> QED BY <2>2 DEF With, WithColumns, WithChecks, WithAdvice, Schema7
<1>5. Len(Phase8Down) = 16
  BY DEF Phase8Down
<1>6. Dropping(Phase8Down, x)
  BY <1>1, <1>2, <1>5, ColumnShapes, CheckShapes, AdviceShapes, ResponseShapes
     DEF Dropping, Shape, Phase8Down
<1> QED BY <1>3, <1>4, <1>5, <1>6 DEF x

LEMMA Revision7Down ==
  ASSUME NEW db \in Databases(Schema7, Backfilled)
  PROVE  Run(db, Phase8Down) \in Databases(Schema6, Possible(Schema6))
<1>1. db \in Databases(Schema7, Possible(Schema7))
  BY BackfilledPossible, HeldGrows
<1> QED BY <1>1, Phase8Ordered, Schema6Closed, DropAll

---------------------------------------------------------------------------
(* alembic upgrade and downgrade *)

SchemaOf(r) ==
  CASE r = 0 -> {} [] r = 1 -> Schema1 [] r = 2 -> Schema2 [] r = 3 -> Schema3
    [] r = 4 -> Schema4 [] r = 5 -> Schema5 [] r = 6 -> Schema6
    [] r = 7 -> Schema7 [] r = 8 -> Schema8

\* The databases that there can be at a revision.
AtRevision(r) ==
  Databases(SchemaOf(r), IF r < 7 THEN Possible(SchemaOf(r)) ELSE Backfilled)

LEMMA Revisions ==
  /\ AtRevision(0) = Databases({}, Possible({}))
  /\ AtRevision(1) = Databases(Schema1, Possible(Schema1))
  /\ AtRevision(2) = Databases(Schema2, Possible(Schema2))
  /\ AtRevision(3) = Databases(Schema3, Possible(Schema3))
  /\ AtRevision(4) = Databases(Schema4, Possible(Schema4))
  /\ AtRevision(5) = Databases(Schema5, Possible(Schema5))
  /\ AtRevision(6) = Databases(Schema6, Possible(Schema6))
  /\ AtRevision(7) = Databases(Schema7, Backfilled)
  /\ AtRevision(8) = Databases(Schema8, Backfilled)
<1>1. SchemaOf(0) = {} /\ SchemaOf(1) = Schema1 /\ SchemaOf(2) = Schema2
  BY DEF SchemaOf
<1>2. SchemaOf(3) = Schema3 /\ SchemaOf(4) = Schema4 /\ SchemaOf(5) = Schema5
  BY DEF SchemaOf
<1>3. SchemaOf(6) = Schema6 /\ SchemaOf(7) = Schema7 /\ SchemaOf(8) = Schema8
  BY DEF SchemaOf
<1> QED BY <1>1, <1>2, <1>3 DEF AtRevision

LEMMA StepsThere ==
  /\ Upgrades[1] = EnableVector /\ Upgrades[2] = Phase2Core
  /\ Upgrades[3] = Phase4Triage /\ Upgrades[4] = Phase5Knowledge
  /\ Upgrades[5] = Phase6Datasets \o Phase6Records
  /\ Upgrades[6] = Phase7RootCause
  /\ Upgrades[7] = Phase8Outcomes \o Phase8Recommendations \o Phase8Responses
  /\ Upgrades[8] = Phase9Evaluation
  /\ Downgrades[1] = EnableVectorDown /\ Downgrades[2] = Phase2CoreDown
  /\ Downgrades[3] = Phase4TriageDown /\ Downgrades[4] = Phase5KnowledgeDown
  /\ Downgrades[5] = Phase6Down /\ Downgrades[6] = Phase7RootCauseDown
  /\ Downgrades[7] = Phase8Down /\ Downgrades[8] = Phase9EvaluationDown
BY DEF Upgrades, Downgrades

LEMMA StepUp ==
  ASSUME NEW r \in 1..8, NEW db \in AtRevision(r - 1)
  PROVE  Run(db, Upgrades[r]) \in AtRevision(r)
<1>1. CASE r = 1
  BY <1>1, Revisions, StepsThere, Revision1
<1>2. CASE r = 2
  BY <1>2, Revisions, StepsThere, Revision2
<1>3. CASE r = 3
  BY <1>3, Revisions, StepsThere, Revision3
<1>4. CASE r = 4
  BY <1>4, Revisions, StepsThere, Revision4
<1>5. CASE r = 5
  BY <1>5, Revisions, StepsThere, Revision5
<1>6. CASE r = 6
  BY <1>6, Revisions, StepsThere, Revision6
<1>7. CASE r = 7
  BY <1>7, Revisions, StepsThere, Revision7Up
<1>8. CASE r = 8
  BY <1>8, Revisions, StepsThere, Revision8
<1> QED BY <1>1, <1>2, <1>3, <1>4, <1>5, <1>6, <1>7, <1>8

LEMMA StepDown ==
  ASSUME NEW r \in 1..8, NEW db \in AtRevision(r)
  PROVE  Run(db, Downgrades[r]) \in AtRevision(r - 1)
<1>1. CASE r = 1
  BY <1>1, Revisions, StepsThere, Revision1
<1>2. CASE r = 2
  BY <1>2, Revisions, StepsThere, Revision2
<1>3. CASE r = 3
  BY <1>3, Revisions, StepsThere, Revision3
<1>4. CASE r = 4
  BY <1>4, Revisions, StepsThere, Revision4
<1>5. CASE r = 5
  BY <1>5, Revisions, StepsThere, Revision5
<1>6. CASE r = 6
  BY <1>6, Revisions, StepsThere, Revision6
<1>7. CASE r = 7
  BY <1>7, Revisions, StepsThere, Revision7Down
<1>8. CASE r = 8
  BY <1>8, Revisions, StepsThere, Revision8
<1> QED BY <1>1, <1>2, <1>3, <1>4, <1>5, <1>6, <1>7, <1>8

\* The databases after each upgrade of a series.
Upgrading(f, db, from, to) ==
  f = [r \in from..to |-> IF r = from THEN db ELSE Run(f[r - 1], Upgrades[r])]

LEMMA UpgradingSteps ==
  ASSUME NEW from \in Nat, NEW to \in Nat, from <= to, NEW f, NEW db
  PROVE  Upgrading(f, db, from, to) <=>
           /\ f = [r \in from..to |-> f[r]]
           /\ f[from] = db
           /\ \A r \in (from + 1)..to : f[r] = Run(f[r - 1], Upgrades[r])
<1>1. from \in from..to
  OBVIOUS
<1>2. \A r \in from..to : r = from \/ r \in (from + 1)..to
  OBVIOUS
<1>3. \A r \in (from + 1)..to : r # from /\ r \in from..to
  OBVIOUS
<1>4. ASSUME Upgrading(f, db, from, to)
      PROVE  /\ f = [r \in from..to |-> f[r]]
             /\ f[from] = db
             /\ \A r \in (from + 1)..to : f[r] = Run(f[r - 1], Upgrades[r])
  BY <1>1, <1>3, <1>4 DEF Upgrading
<1>5. ASSUME /\ f = [r \in from..to |-> f[r]]
             /\ f[from] = db
             /\ \A r \in (from + 1)..to : f[r] = Run(f[r - 1], Upgrades[r])
      PROVE  Upgrading(f, db, from, to)
  <2>1. \A r \in from..to :
          f[r] = IF r = from THEN db ELSE Run(f[r - 1], Upgrades[r])
    BY <1>2, <1>5
  <2> QED BY <1>5, <2>1 DEF Upgrading
<1> QED BY <1>4, <1>5

LEMMA UpgradingExists ==
  ASSUME NEW db, NEW from \in Nat, NEW to \in Nat, from <= to
  PROVE  \E f : Upgrading(f, db, from, to)
<1> DEFINE T == {m \in from..to : ~ \E f : Upgrading(f, db, from, m)}
<1>1. SUFFICES ASSUME T # {}
               PROVE  FALSE
  <2>1. to \in from..to
    OBVIOUS
  <2> QED BY <2>1
<1>2. PICK m \in T : \A n \in T : m <= n
  <2>1. T \subseteq Nat
    OBVIOUS
  <2> HIDE DEF T
  <2> QED BY <1>1, <2>1, LeastOf
<1>3. m \in Nat /\ from <= m /\ m <= to
  OBVIOUS
<1>4. CASE m = from
  <2> DEFINE g == [r \in from..from |-> db]
  <2>1. /\ g[from] = db /\ g = [r \in from..from |-> g[r]]
        /\ (from + 1)..from = {}
    OBVIOUS
  <2> HIDE DEF g
  <2>2. Upgrading(g, db, from, from)
    <3>1. \A r \in (from + 1)..from : g[r] = Run(g[r - 1], Upgrades[r])
      BY <2>1
    <3>2. from <= from
      OBVIOUS
    <3> QED BY <2>1, <3>1, <3>2, UpgradingSteps
  <2> QED BY <1>4, <2>2
<1>5. CASE m # from
  <2>1. /\ m - 1 \in from..to /\ m - 1 \in Nat /\ from <= m - 1
        /\ ~ (m <= m - 1)
    BY <1>3, <1>5
  <2>2. m - 1 \notin T
    <3> HIDE DEF T
    <3> QED BY <1>2, <2>1
  <2>3. PICK f : Upgrading(f, db, from, m - 1)
    BY <2>1, <2>2
  <2> HIDE DEF T
  <2> DEFINE g == [r \in from..m |-> IF r = m THEN Run(f[m - 1], Upgrades[m])
                                     ELSE f[r]]
  <2>4. /\ g = [r \in from..m |-> g[r]]
        /\ g[m] = Run(f[m - 1], Upgrades[m])
        /\ \A r \in from..(m - 1) : g[r] = f[r]
    BY <1>3, <1>5
  <2> HIDE DEF g
  <2>5. /\ f[from] = db
        /\ \A r \in (from + 1)..(m - 1) : f[r] = Run(f[r - 1], Upgrades[r])
    BY <2>1, <2>3, UpgradingSteps
  <2>6. g[from] = db
    <3>1. from \in from..(m - 1)
      BY <2>1
    <3> QED BY <2>4, <2>5, <3>1
  <2>7. ASSUME NEW r \in (from + 1)..m
        PROVE  g[r] = Run(g[r - 1], Upgrades[r])
    <3>1. CASE r = m
      <4>1. m - 1 \in from..(m - 1)
        BY <2>1
      <4> QED BY <2>4, <3>1, <4>1
    <3>2. CASE r # m
      <4>1. /\ r \in (from + 1)..(m - 1) /\ r \in from..(m - 1)
            /\ r - 1 \in from..(m - 1)
        BY <1>3, <3>2
      <4> QED BY <2>4, <2>5, <4>1
    <3> QED BY <3>1, <3>2
  <2>8. Upgrading(g, db, from, m)
    <3>1. g = [r \in from..m |-> g[r]]
      BY <2>4
    <3>2. \A r \in (from + 1)..m : g[r] = Run(g[r - 1], Upgrades[r])
      BY <2>7
    <3> QED BY <1>3, <2>6, <3>1, <3>2, UpgradingSteps
  <2>9. ~ \E h : Upgrading(h, db, from, m)
    BY <1>2 DEF T
  <2> QED BY <2>8, <2>9
<1> QED BY <1>4, <1>5

\* Upgrades lead from the databases of one revision to those of the other.
LEMMA UpgradedAt ==
  ASSUME NEW from \in 0..8, NEW to \in 0..8, from <= to,
         NEW db \in AtRevision(from)
  PROVE  Upgraded(db, from, to) \in AtRevision(to)
<1> DEFINE f == CHOOSE f : Upgrading(f, db, from, to)
<1>1. from \in Nat /\ to \in Nat
  OBVIOUS
<1>2. Upgrading(f, db, from, to)
  BY <1>1, UpgradingExists
<1>3. Upgraded(db, from, to) = f[to]
  BY DEF Upgraded, Upgrading
<1> HIDE DEF f
<1>4. /\ f[from] = db
      /\ \A r \in (from + 1)..to : f[r] = Run(f[r - 1], Upgrades[r])
  BY <1>1, <1>2, UpgradingSteps
<1> DEFINE T == {m \in from..to : f[m] \notin AtRevision(m)}
<1>5. SUFFICES ASSUME T # {}
               PROVE  FALSE
  <2>1. to \in from..to
    OBVIOUS
  <2> QED BY <1>3, <2>1
<1>6. PICK m \in T : \A n \in T : m <= n
  <2>1. T \subseteq Nat
    OBVIOUS
  <2> HIDE DEF T
  <2> QED BY <1>5, <2>1, LeastOf
<1>7. m # from
  BY <1>4
<1>8. /\ m \in (from + 1)..to /\ m - 1 \in from..to /\ m \in 1..8
      /\ ~ (m <= m - 1)
  BY <1>7
<1>9. f[m - 1] \in AtRevision(m - 1)
  BY <1>6, <1>8
<1>10. f[m] \in AtRevision(m)
  BY <1>4, <1>8, <1>9, StepUp
<1> QED BY <1>10

Downgrading(f, db, from, to) ==
  f = [r \in to..from |->
         IF r = from THEN db ELSE Run(f[r + 1], Downgrades[r + 1])]

LEMMA DowngradedAt ==
  ASSUME NEW r \in 1..8, NEW db \in AtRevision(r)
  PROVE  Downgraded(db, r, r - 1) \in AtRevision(r - 1)
<1> DEFINE f == CHOOSE f : Downgrading(f, db, r, r - 1)
           one == Run(db, Downgrades[r])
           g == [q \in (r - 1)..r |-> IF q = r THEN db ELSE one]
<1>1. /\ (r - 1)..r = {r - 1, r} /\ r - 1 # r /\ (r - 1) + 1 = r
  OBVIOUS
<1>2. Downgrading(g, db, r, r - 1)
  <2> HIDE DEF one
  <2>1. g[r] = db
    BY <1>1
  <2>2. ASSUME NEW q \in (r - 1)..r, q # r
        PROVE  g[q + 1] = db /\ Downgrades[q + 1] = Downgrades[r]
    <3>1. q + 1 = r
      BY <1>1, <2>2
    <3> QED BY <2>1, <3>1
  <2>3. \A q \in (r - 1)..r :
          (IF q = r THEN db ELSE one) =
            IF q = r THEN db ELSE Run(g[q + 1], Downgrades[q + 1])
    BY <2>2 DEF one
  <2>4. g = [q \in (r - 1)..r |->
               IF q = r THEN db ELSE Run(g[q + 1], Downgrades[q + 1])]
    <3> DEFINE h == g
    <3>1. g = [q \in (r - 1)..r |-> IF q = r THEN db ELSE one]
      OBVIOUS
    <3> QED BY <2>3, <3>1
  <2> QED BY <2>4 DEF Downgrading
<1>3. Downgrading(f, db, r, r - 1)
  <2> HIDE DEF g
  <2> QED BY <1>2
<1>4. Downgraded(db, r, r - 1) = f[r - 1]
  BY DEF Downgraded, Downgrading
<1> HIDE DEF f, g, one
<1>5. f[r] = db /\ f[r - 1] = Run(f[(r - 1) + 1], Downgrades[(r - 1) + 1])
  BY <1>1, <1>3 DEF Downgrading
<1>6. f[r - 1] = Run(db, Downgrades[r])
  BY <1>1, <1>5
<1> QED BY <1>4, <1>6, StepDown

---------------------------------------------------------------------------
(* The last revision is what the models declare *)

LEMMA AccountsDeclared ==
  AccountModels =
    {CoreObjects[1], CoreObjects[5], CoreObjects[6], CoreObjects[9]}
BY DEF AccountModels, CoreObjects

LEMMA TicketsDeclared ==
  TicketModels =
    {CoreObjects[2], CoreObjects[3], CoreObjects[4], CoreObjects[7],
     CoreObjects[8], TriageObjects[2], TriageObjects[3], TriageObjects[4]}
    \cup {ColumnObjects[n] : n \in 1..5} \cup {CheckObjects[n] : n \in 1..5}
<1>1. 1..5 = {1, 2, 3, 4, 5}
  OBVIOUS
<1> DEFINE parts == {Part(name, "tickets") : name \in OutcomeColumns \cup
             {"priority_overridden", "priority_override_reason",
              "ck_tickets_priority_override_reason",
              "ck_tickets_single_terminal_outcome",
              "ck_tickets_resolved_excludes_escalation",
              "ck_tickets_escalated_excludes_resolution",
              "ck_tickets_resolved_fields", "ck_tickets_escalated_fields"}}
<1>2. parts = {TriageObjects[2], TriageObjects[3], TriageObjects[4]}
              \cup {ColumnObjects[n] : n \in 1..5}
              \cup {CheckObjects[n] : n \in 1..5}
  <2>1. /\ TriageObjects[2] = Part("priority_overridden", "tickets")
        /\ TriageObjects[3] = Part("priority_override_reason", "tickets")
        /\ TriageObjects[4] =
             Part("ck_tickets_priority_override_reason", "tickets")
    BY DEF TriageObjects
  <2>2. /\ ColumnObjects[1] = Part("resolved_at", "tickets")
        /\ ColumnObjects[2] = Part("escalated_at", "tickets")
        /\ ColumnObjects[3] = Part("escalation_destination", "tickets")
        /\ ColumnObjects[4] = Part("escalation_reason", "tickets")
        /\ ColumnObjects[5] = Part("resolution_summary", "tickets")
    BY DEF ColumnObjects
  <2>3. /\ CheckObjects[1] =
             Part("ck_tickets_single_terminal_outcome", "tickets")
        /\ CheckObjects[2] =
             Part("ck_tickets_resolved_excludes_escalation", "tickets")
        /\ CheckObjects[3] =
             Part("ck_tickets_escalated_excludes_resolution", "tickets")
        /\ CheckObjects[4] = Part("ck_tickets_resolved_fields", "tickets")
        /\ CheckObjects[5] = Part("ck_tickets_escalated_fields", "tickets")
    BY DEF CheckObjects
  <2>4. OutcomeColumns = {"resolved_at", "escalated_at",
          "escalation_destination", "escalation_reason", "resolution_summary"}
    BY DEF OutcomeColumns, ResolutionColumns, EscalationColumns
  <2> QED BY <1>1, <2>1, <2>2, <2>3, <2>4
<1>3. TicketModels =
        {CoreObjects[2], CoreObjects[3], CoreObjects[4], CoreObjects[7],
         CoreObjects[8]} \cup parts
  <2>1. TicketModels =
        { Type("ticket_status"), Type("ticket_priority"),
          Type("ticket_number_seq"),
          Table("tickets", {"ticket_number_seq", "ticket_priority",
                            "ticket_status", "users"}, {"number"}),
          Table("ticket_events", {"tickets", "users"}, {}) } \cup parts
    BY DEF TicketModels
  <2> HIDE DEF parts
  <2> QED BY <2>1 DEF CoreObjects
<1> HIDE DEF parts
<1> QED BY <1>2, <1>3

LEMMA OthersDeclared ==
  /\ AnalysisModels = {TriageObjects[1], TriageObjects[5]}
  /\ KnowledgeModels = {VectorObjects[1], ArticleObjects[1], ArticleObjects[2]}
  /\ InvestigationModels =
       {RecordObjects[3], RecordObjects[4], RecordObjects[5], RecordObjects[6]}
  /\ AssessmentModels =
       {RootCauseObjects[1], RootCauseObjects[2], RootCauseObjects[3]}
  /\ ResolutionModels =
       {AdviceObjects[1], AdviceObjects[2], AdviceObjects[3],
        ResponseObjects[1], ResponseObjects[2], ResponseObjects[3]}
  /\ EvaluationModels = {EvaluationObjects[1]}
<1>1. /\ AnalysisModels = {TriageObjects[1], TriageObjects[5]}
      /\ EvaluationModels = {EvaluationObjects[1]}
  BY DEF AnalysisModels, TriageObjects, EvaluationModels, EvaluationObjects
<1>2. KnowledgeModels =
        {VectorObjects[1], ArticleObjects[1], ArticleObjects[2]}
  BY DEF KnowledgeModels, VectorObjects, ArticleObjects
<1>3. InvestigationModels =
        {RecordObjects[3], RecordObjects[4], RecordObjects[5],
         RecordObjects[6]}
  BY DEF InvestigationModels, RecordObjects
<1>4. AssessmentModels =
        {RootCauseObjects[1], RootCauseObjects[2], RootCauseObjects[3]}
  BY DEF AssessmentModels, RootCauseObjects
<1>5. ResolutionModels =
        {AdviceObjects[1], AdviceObjects[2], AdviceObjects[3],
         ResponseObjects[1], ResponseObjects[2], ResponseObjects[3]}
  BY DEF ResolutionModels, AdviceObjects, ResponseObjects
<1> QED BY <1>1, <1>2, <1>3, <1>4, <1>5

LEMMA DatasetsDeclared ==
  DatasetModels =
    {DatasetObjects[1], DatasetObjects[2], DatasetObjects[3],
     DatasetObjects[4], DatasetObjects[5], RecordObjects[1], RecordObjects[2]}
<1> DEFINE versioned == {Table(name, {}, {"version and source"}) : name \in
             {"synthetic_locations", "synthetic_applications",
              "synthetic_incidents"}}
<1>1. versioned = {DatasetObjects[2], DatasetObjects[3], DatasetObjects[5]}
  BY DEF DatasetObjects
<1>2. DatasetModels =
        { Table("dataset_imports", {}, {"version"}),
          Table("historical_tickets", {"vector"}, {"version and source"}),
          Table("telemetry_records", {}, {"reading"}),
          Table("synthetic_log_records", {}, {"line"}) } \cup versioned
  BY DEF DatasetModels
<1> HIDE DEF versioned
<1>3. /\ DatasetObjects[1] = Table("dataset_imports", {}, {"version"})
      /\ DatasetObjects[4] =
           Table("historical_tickets", {"vector"}, {"version and source"})
      /\ RecordObjects[1] = Table("telemetry_records", {}, {"reading"})
      /\ RecordObjects[2] = Table("synthetic_log_records", {}, {"line"})
  BY DEF DatasetObjects, RecordObjects
<1> QED BY <1>1, <1>2, <1>3

LEMMA HeadDeclared == Schema8 = Declared
<1>1. Schema8 =
        UNION { {VectorObjects[n] : n \in 1..1}, {CoreObjects[n] : n \in 1..9},
                {TriageObjects[n] : n \in 1..5},
                {ArticleObjects[n] : n \in 1..2},
                {DatasetObjects[n] : n \in 1..5},
                {RecordObjects[n] : n \in 1..6},
                {RootCauseObjects[n] : n \in 1..3},
                {ColumnObjects[n] : n \in 1..5},
                {CheckObjects[n] : n \in 1..5},
                {AdviceObjects[n] : n \in 1..3},
                {ResponseObjects[n] : n \in 1..3},
                {EvaluationObjects[n] : n \in 1..1} }
  BY DEF Schema8, Schema7, WithAdvice, WithChecks, WithColumns, Schema6,
         Schema5, WithDatasets, Schema4, Schema3, Schema2, Schema1, With
<1>2. /\ 1..1 = {1} /\ 1..2 = {1, 2} /\ 1..3 = {1, 2, 3}
      /\ 1..6 = {1, 2, 3, 4, 5, 6} /\ 1..9 = {1, 2, 3, 4, 5, 6, 7, 8, 9}
  OBVIOUS
<1>3. 1..5 = {1, 2, 3, 4, 5}
  OBVIOUS
<1>4. /\ {VectorObjects[n] : n \in 1..1} \cup {ArticleObjects[n] : n \in 1..2}
         = KnowledgeModels
      /\ {RootCauseObjects[n] : n \in 1..3} = AssessmentModels
      /\ {AdviceObjects[n] : n \in 1..3} \cup {ResponseObjects[n] : n \in 1..3}
         = ResolutionModels
      /\ {EvaluationObjects[n] : n \in 1..1} = EvaluationModels
  BY <1>2, OthersDeclared
<1>5. {DatasetObjects[n] : n \in 1..5} \cup {RecordObjects[n] : n \in 1..6}
        = DatasetModels \cup InvestigationModels
  BY <1>2, <1>3, OthersDeclared, DatasetsDeclared
<1>6. {CoreObjects[n] : n \in 1..9} \cup {TriageObjects[n] : n \in 1..5}
      \cup {ColumnObjects[n] : n \in 1..5} \cup {CheckObjects[n] : n \in 1..5}
        = AccountModels \cup TicketModels \cup AnalysisModels
  <2> DEFINE later == {ColumnObjects[n] : n \in 1..5}
                      \cup {CheckObjects[n] : n \in 1..5}
  <2>1. TicketModels =
          {CoreObjects[2], CoreObjects[3], CoreObjects[4], CoreObjects[7],
           CoreObjects[8], TriageObjects[2], TriageObjects[3],
           TriageObjects[4]} \cup later
    BY TicketsDeclared
  <2> HIDE DEF later
  <2>2. {CoreObjects[n] : n \in 1..9} \cup {TriageObjects[n] : n \in 1..5}
        \cup later = AccountModels \cup TicketModels \cup AnalysisModels
    BY <1>2, <1>3, <2>1, AccountsDeclared, OthersDeclared
  <2> QED BY <2>2 DEF later
<1> QED BY <1>1, <1>4, <1>5, <1>6 DEF Declared

---------------------------------------------------------------------------
(* The database of the deployment                                          *)

LEMMA SchemaThere ==
  ASSUME NEW r \in 0..8, NEW db \in AtRevision(r)
  PROVE  db.ok = TRUE /\ db.objects = SchemaOf(r)
BY DEF AtRevision, Databases

LEMMA EmptyFirst == Empty \in AtRevision(0)
<1>1. Empty \in Databases({}, Possible({}))
  BY DEF Empty, Databases
<1> QED BY <1>1, Revisions

LEMMA FreshThere ==
  ASSUME NEW r \in 0..8
  PROVE  Fresh[r] \in AtRevision(r)
<1>1. Fresh[r] = Upgraded(Empty, 0, r)
  BY DEF Fresh, HeadRevision
<1> QED BY <1>1, EmptyFirst, UpgradedAt

LEMMA MovedThere ==
  ASSUME NEW r \in 0..8, NEW to \in {r - 1, r + 1} \cap 0..8,
         NEW db \in AtRevision(r)
  PROVE  Moved(db, r, to) \in AtRevision(to)
<1>1. CASE to = r + 1
  <2>1. to > r /\ r <= to /\ to \in 0..8
    BY <1>1
  <2>2. Moved(db, r, to) = Upgraded(db, r, to)
    BY <2>1 DEF Moved
  <2> QED BY <2>1, <2>2, UpgradedAt
<1>2. CASE to = r - 1
  <2>1. ~ (to > r) /\ r \in 1..8
    BY <1>2
  <2>2. Moved(db, r, to) = Downgraded(db, r, r - 1)
    BY <1>2, <2>1 DEF Moved
  <2> QED BY <1>2, <2>1, <2>2, DowngradedAt
<1> QED BY <1>1, <1>2

\* What a migration leaves, and that the next one can go on from it.
LEMMA RevisionIsSound ==
  ASSUME NEW r \in 0..8, NEW db \in AtRevision(r)
  PROVE  /\ db.objects = Fresh[r].objects
         /\ r = 8 => db.objects = Declared
         /\ \A to \in {r - 1, r + 1} \cap 0..8 : Moved(db, r, to).ok
<1>1. db.objects = SchemaOf(r) /\ Fresh[r].objects = SchemaOf(r)
  BY FreshThere, SchemaThere
<1>2. r = 8 => SchemaOf(r) = Declared
  BY HeadDeclared DEF SchemaOf
<1>3. ASSUME NEW to \in {r - 1, r + 1} \cap 0..8
      PROVE  Moved(db, r, to).ok
  <2>1. to \in 0..8 /\ Moved(db, r, to) \in AtRevision(to)
    BY MovedThere
  <2> QED BY <2>1, SchemaThere
<1> QED BY <1>1, <1>2, <1>3

LEMMA RowsTyped ==
  ASSUME NEW r \in 0..8, NEW db \in AtRevision(r)
  PROVE  db.ok /\ db.rows \subseteq RowType
<1>1. Possible(SchemaOf(r)) \subseteq RowType /\ Backfilled \subseteq RowType
  BY DEF Possible, Backfilled
<1> QED BY <1>1 DEF AtRevision, Databases

LEMMA RowsBackfilled ==
  ASSUME NEW r \in 7..8, NEW db \in AtRevision(r)
  PROVE  db.rows \subseteq Backfilled
BY DEF AtRevision, Databases

LEMMA LegacyPossible == Legacy \subseteq Possible(Schema6)
<1>1. ASSUME NEW status \in Statuses, NEW assessment \in Assessments
      PROVE  /\ Ticket(status, assessment) \in RowType
             /\ Ticket(status, assessment).filled = {}
             /\ Ticket(status, assessment).proposal = "none"
  BY DEF Ticket, RowType, Actions
<1>2. "tickets" \in ObjectNames(Schema6)
      /\ "root_cause_assessments" \in ObjectNames(Schema6)
  BY Schema6Names DEF CoreNames, RootCauseNames
<1>3. ASSUME NEW status \in Statuses, NEW assessment \in Assessments
      PROVE  Ticket(status, assessment) \in Possible(Schema6)
  BY <1>1, <1>2 DEF Possible
<1>4. /\ "resolved" \in Statuses /\ "escalated" \in Statuses
      /\ "open" \in Statuses /\ "completed" \in Assessments
      /\ "none" \in Assessments /\ "escalating" \in Assessments
      /\ "unfinished" \in Assessments
  BY DEF Statuses, Assessments
<1> QED BY <1>3, <1>4 DEF Legacy

\* The database is one of its revision.
DatabaseInv ==
  /\ revision \in 0..8
  /\ database \in AtRevision(revision)
  /\ compose \in {"down", "starting", "up", "failed"}
  /\ migration \in {"idle", "done", "failed"}
  /\ evaluation.pc \in {"idle", "running", "done", "failed"}

LEMMA DatabaseBegins ==
  ASSUME Init
  PROVE  DatabaseInv
<1> DEFINE rows == IF revision = 6 THEN Legacy ELSE {}
           db == Fresh[revision]
<1>1. revision \in 0..8 /\ database = [db EXCEPT !.rows = rows]
  BY DEF Init, HeadRevision
<1>2. db \in AtRevision(revision)
  BY <1>1, FreshThere
<1>3. [db EXCEPT !.rows = rows] \in AtRevision(revision)
  <2> DEFINE R == IF revision < 7 THEN Possible(SchemaOf(revision))
                  ELSE Backfilled
  <2>1. db \in Databases(SchemaOf(revision), R)
    BY <1>2 DEF AtRevision
  <2>2. rows \in SUBSET R
    <3>1. CASE revision = 6
      <4>1. R = Possible(Schema6)
        BY <3>1 DEF SchemaOf
      <4> HIDE DEF R
      <4> QED BY <3>1, <4>1, LegacyPossible
    <3>2. CASE revision # 6
      BY <3>2
    <3> QED BY <3>1, <3>2
  <2> HIDE DEF R, db, rows
  <2>3. [db EXCEPT !.rows = rows] \in Databases(SchemaOf(revision), R)
    BY <2>1, <2>2, HeldChanged
  <2> QED BY <2>3 DEF AtRevision, R
<1>4. /\ compose = "down" /\ migration = "idle" /\ evaluation.pc = "idle"
  BY DEF Init, NotEvaluating
<1> HIDE DEF db, rows
<1> QED BY <1>1, <1>3, <1>4 DEF DatabaseInv

LEMMA DatabaseKept ==
  ASSUME StartInv, DatabaseInv, [Next]_vars
  PROVE  DatabaseInv'
<1>1. CASE UNCHANGED vars
  BY <1>1 DEF vars, deployVars, DatabaseInv
<1>2. CASE Migrate
  <2> DEFINE after == Upgraded(database, revision, HeadRevision)
  <2>1. after \in AtRevision(8)
    BY UpgradedAt DEF DatabaseInv, HeadRevision
  <2>2. /\ IF after.ok
           THEN /\ database' = after /\ revision' = HeadRevision
                /\ migration' = "done"
           ELSE migration' = "failed" /\ UNCHANGED <<database, revision>>
        /\ UNCHANGED <<compose, evaluation>>
    BY <1>2 DEF Migrate
  <2> HIDE DEF after
  <2> QED BY <2>1, <2>2 DEF DatabaseInv, HeadRevision
<1>3. CASE MigrateFails
  BY <1>3 DEF MigrateFails, DatabaseInv
<1>4. CASE BackendStart \/ ComposeAbort
  BY <1>4 DEF BackendStart, ComposeAbort, DatabaseInv
<1>5. CASE ComposeUp \/ ComposeDown
  BY <1>5 DEF ComposeUp, ComposeDown, Containers, NotEvaluating, DatabaseInv
<1>6. CASE EvaluationStart \/ EvaluateCase \/ EvaluationComplete
           \/ EvaluationFails
  <2>1. UNCHANGED <<database, revision, compose, migration>>
    BY <1>6 DEF EvaluationStart, EvaluateCase, EvaluationComplete,
                EvaluationFails
  <2>2. evaluation'.pc \in {"idle", "running", "done", "failed"}
    <3>1. CASE EvaluationStart
      BY <3>1 DEF EvaluationStart
    <3>2. CASE EvaluateCase
      BY <3>2 DEF EvaluateCase, StartInv
    <3>3. CASE EvaluationComplete \/ EvaluationFails
      BY <3>3 DEF EvaluationComplete, EvaluationFails
    <3> QED BY <1>6, <3>1, <3>2, <3>3
  <2> QED BY <2>1, <2>2 DEF DatabaseInv
<1>7. CASE \/ \E i \in Importers : Ingest(i) \/ IngestStep(i) \/ IngestFails(i)
           \/ \E l \in Loaders : Load(l) \/ LoaderStep(l) \/ LoaderFails(l)
           \/ \E r \in Releases : NewRelease(r)
  <2>1. UNCHANGED <<database, revision, compose, migration, evaluation>>
    BY <1>7 DEF Ingest, IngestStep, IngestFails, Load, LoaderStep, LoaderFails,
                NewRelease, deployVars
  <2> QED BY <2>1 DEF DatabaseInv
<1>8. CASE \E to \in 0..HeadRevision : Alembic(to)
  <2>1. PICK to \in 0..8 : Alembic(to)
    BY <1>8 DEF HeadRevision
  <2>2. /\ to \in {revision - 1, revision + 1} \cap 0..8
        /\ database' = Moved(database, revision, to) /\ revision' = to
        /\ UNCHANGED <<compose, migration, evaluation>>
    BY <2>1 DEF Alembic, HeadRevision
  <2>3. database' \in AtRevision(to)
    BY <2>2, MovedThere DEF DatabaseInv
  <2> QED BY <2>2, <2>3 DEF DatabaseInv
<1> QED
  BY <1>1, <1>2, <1>3, <1>4, <1>5, <1>6, <1>7, <1>8, DeploymentAssumption
     DEF Next, Proceed, Fails, Chosen

---------------------------------------------------------------------------
(* Theorems *)

DeploymentInv == KInv /\ DatasetInv /\ StartInv /\ DatabaseInv

\* As Init, with any rows that the schema can hold; from 0007 on, with those
\* that it and the program leave.
InitAnyRows ==
  /\ KnowledgeInit
  /\ DatasetInit
  /\ revision \in 0..HeadRevision
  /\ database \in AtRevision(revision)
  /\ compose = "down"
  /\ migration = "idle"
  /\ evaluation = NotEvaluating
  /\ evaluated = {}

SpecAnyRows == InitAnyRows /\ [][Next]_vars

LEMMA DeploymentBegins == InitAnyRows => DeploymentInv
<1> SUFFICES ASSUME InitAnyRows
             PROVE  DeploymentInv
  OBVIOUS
<1>1. /\ compose = "down" /\ migration = "idle" /\ evaluation.pc = "idle"
      /\ DOMAIN evaluation = {"pc", "seen"}
  BY DEF InitAnyRows, NotEvaluating
<1>2. StartInv
  BY <1>1 DEF StartInv
<1>3. DatabaseInv
  BY <1>1 DEF InitAnyRows, DatabaseInv, HeadRevision
<1> QED
  BY <1>2, <1>3, KnowledgeBegins, DatasetBegins
     DEF InitAnyRows, DeploymentInv

LEMMA DeploymentKept == DeploymentInv /\ [Next]_vars => DeploymentInv'
BY KnowledgeEffect, KnowledgeKept, DatasetEffect, DatasetKept, StartKept,
   DatabaseKept DEF DeploymentInv

\* The inductive invariant of the whole deployment: the importers and loaders
\* keep to what they have read and locked, each service that ended well has
\* left what the next one needs, and the database has the schema of its
\* revision with rows that this schema can hold.
THEOREM InvarianceFromAnyRows == SpecAnyRows => []DeploymentInv
BY DeploymentBegins, DeploymentKept, PTL DEF SpecAnyRows

LEMMA RowsAreSome == Spec => SpecAnyRows
<1>1. Init => InitAnyRows
  BY DatabaseBegins DEF Init, InitAnyRows, DatabaseInv
<1> QED BY <1>1, PTL DEF Spec, SpecAnyRows

\* The stores, the services and the rows keep their types, and no migration
\* that was refused is ever the database.
THEOREM TypeCorrect == Spec => []DeploymentTypeOK
<1>1. DeploymentInv => DeploymentTypeOK
  <2> SUFFICES ASSUME DeploymentInv
               PROVE  DeploymentTypeOK
    OBVIOUS
  <2>1. KnowledgeTypeOK
    BY DEF DeploymentInv, KInv
  <2>2. DatasetTypeOK
    BY DatasetAssumption, DeploymentAssumption
       DEF DeploymentInv, KInv, KnowledgeTypeOK, DatasetInv, LoaderType,
           DatasetTypeOK
  <2>3. database.ok /\ database.rows \subseteq RowType
    BY RowsTyped DEF DeploymentInv, DatabaseInv
  <2> QED BY <2>1, <2>2, <2>3
             DEF DeploymentInv, DatabaseInv, DeploymentTypeOK, HeadRevision
<1> QED BY <1>1, InvarianceFromAnyRows, RowsAreSome, PTL

\* From 0007 on, whatever tickets and assessments the database had and
\* whatever upgrades and downgrades came before (0007's backfill, and the
\* statements that undo it): a ticket has the outcome columns of its status and
\* no others, and exactly the completed assessments have a recommendation,
\* which proposes to escalate where the assessment does.
THEOREM OutcomesBackfilledFromAnyRows ==
  SpecAnyRows => []OutcomesBackfilled
<1>1. DeploymentInv => OutcomesBackfilled
  <2> SUFFICES ASSUME DeploymentInv, revision >= 7, NEW row \in database.rows
               PROVE  /\ row.assessment \in {"completed", "escalating"}
                         <=> row.proposal # "none"
                      /\ row.assessment = "escalating"
                         <=> row.proposal = "escalate"
                      /\ row.filled =
                           CASE row.status = "resolved"  -> ResolutionColumns
                             [] row.status = "escalated" -> EscalationColumns
                             [] OTHER -> {}
    BY DEF OutcomesBackfilled
  <2>1. revision \in 7..8 /\ database \in AtRevision(revision)
    BY DEF DeploymentInv, DatabaseInv
  <2>2. row \in Backfilled
    BY <2>1, RowsBackfilled
  <2> QED BY <2>2 DEF Backfilled
<1> QED BY <1>1, InvarianceFromAnyRows, PTL

\* In particular from the tickets that a release with revision 0006 leaves.
THEOREM OutcomesAlwaysBackfilled == Spec => []OutcomesBackfilled
BY OutcomesBackfilledFromAnyRows, RowsAreSome, PTL

\* Every migration, whichever came before it and whatever rows there are,
\* leaves the schema of a new database at that revision, and at the last one
\* the schema that the models declare; and from there neither the next upgrade
\* nor the next downgrade is refused.
THEOREM SchemaFromAnyRows == SpecAnyRows => SchemaOfRevision
<1> DEFINE Step ==
             revision' # revision =>
               /\ database'.objects = Fresh[revision'].objects
               /\ revision' = HeadRevision => database'.objects = Declared
               /\ \A to \in {revision' - 1, revision' + 1}
                            \cap 0..HeadRevision :
                    Moved(database', revision', to).ok
<1>1. DeploymentInv' => Step
  BY RevisionIsSound DEF DeploymentInv, DatabaseInv, HeadRevision
<1>2. DeploymentInv /\ [Next]_vars => [Step]_vars
  BY <1>1, DeploymentKept
<1> HIDE DEF Step
<1>3. SpecAnyRows => [][Step]_vars
  BY <1>2, InvarianceFromAnyRows, PTL DEF SpecAnyRows
<1> QED BY <1>3 DEF SchemaOfRevision, Step

\* In particular from a database of an earlier release.
THEOREM SchemaAlwaysOfRevision == Spec => SchemaOfRevision
BY SchemaFromAnyRows, RowsAreSome, PTL
=============================================================================
