-------------------------- MODULE SqlClusterProofs --------------------------
(***************************************************************************)
(* Proofs about SqlCluster for any number of nodes and calls, any work and *)
(* any number of elections and crashes: what a call puts into the log,     *)
(* what the databases are made of, what a transaction leaves, and what a   *)
(* validated statement can fail of, over a log whose chosen prefix is      *)
(* stable (see SqlCluster).                                                *)
(*                                                                         *)
(* A batch is a fold of RunStatement over its statements, a validation one *)
(* over batches, and a database one over the log.  Each is first shown to  *)
(* be the last of the states it goes through (FoldRun, ValidatedRun,       *)
(* ReplayRun); what is said of them is then carried from one state to the  *)
(* next by Climb.                                                          *)
(***************************************************************************)
EXTENDS SqlCluster, FoldLemmas

(***************************************************************************)
(* The adapter: runs of statements, and what is heard of a batch.          *)
(***************************************************************************)

\* A connection to a database of items out of I.
Conn(I) == [ok : BOOLEAN, open : BOOLEAN, savepoint : BOOLEAN,
            items : SUBSET I, file : SUBSET I]

\* A statement leaves a connection, whatever SQLite picks for it.
LEMMA RunType ==
  ASSUME NEW I, Item \subseteq I, NEW c \in Conn(I), NEW s \in Statement, NEW r \in I
  PROVE  RunStatement(c, s, r) \in Conn(I)
<1>1. ItemsAfter(c, s, r) \in SUBSET I
  BY DEF ItemsAfter, Conn, Statement
<1> DEFINE open == s.op = "begin" \/ (c.open /\ s.op # "commit")
           items == ItemsAfter(c, s, r)
<1>2. [c EXCEPT !.ok = FALSE] \in Conn(I)
  BY DEF Conn
<1>3. [c EXCEPT !.items = items, !.file = IF open THEN @ ELSE items,
                !.open = open, !.savepoint = @ /\ s.op # "commit"] \in Conn(I)
  <2>1. open \in BOOLEAN /\ (c.savepoint /\ s.op # "commit") \in BOOLEAN
    BY DEF Conn
  <2>2. items \in SUBSET I /\ (IF open THEN c.file ELSE items) \in SUBSET I
    BY <1>1 DEF Conn
  <2> HIDE DEF items, open
  <2> QED
    BY <2>1, <2>2 DEF Conn
<1> QED
  BY <1>2, <1>3 DEF RunStatement

\* F[i] is the connection after i statements of b.
IsRun(F, conn, b, r) ==
    /\ F[0] = conn
    /\ \A i \in 1..Len(b) : F[i] = RunStatement(F[i - 1], b[i], r)

\* What execute_write and validate_sql make of a connection.
Fold(conn, b, r) == FoldLeft(LAMBDA c, s : RunStatement(c, s, r), conn, b)

\* A fold of statements is the end of a run.
LEMMA FoldRun ==
  ASSUME NEW I, Item \subseteq I, NEW conn \in Conn(I), NEW b \in Seq(Statement),
         NEW r \in I
  PROVE  \E F \in [0..Len(b) -> Conn(I)] :
            IsRun(F, conn, b, r) /\ Fold(conn, b, r) = F[Len(b)]
<1> DEFINE n == Len(b)
           Eq(it) == it = [S \in SUBSET (1..n) |->
                             IF S = {} THEN conn
                             ELSE RunStatement(it[S \ {Max(S)}], b[Max(S)], r)]
           chosenIt == CHOOSE it : Eq(it)
           G == [p \in Conn(I) \X (1..n) |-> RunStatement(p[1], b[p[2]], r)]
<1>1. n \in Nat /\ DOMAIN b = 1..n /\ conn \in Conn(I)
  OBVIOUS
<1>2. Fold(conn, b, r) = chosenIt[1..n]
  BY <1>1 DEF Fold, FoldLeft, MapThenFoldSet
<1>3. G \in [Conn(I) \X (1..n) -> Conn(I)]
  BY <1>1, RunType
<1>4. ASSUME NEW it, NEW S \in SUBSET (1..n), S # {}, it[S \ {Max(S)}] \in Conn(I)
      PROVE  G[<<it[S \ {Max(S)}], Max(S)>>] = RunStatement(it[S \ {Max(S)}], b[Max(S)], r)
  <2>1. Max(S) \in 1..n
    <3> HIDE DEF n
    <3> QED
      BY <1>1, <1>4, MaxIn
  <2> HIDE DEF n
  <2> QED
    BY <1>4, <2>1
<1> HIDE DEF G, n
<1>5. Eq(chosenIt)
  <2>1. PICK it \in [SUBSET (1..n) -> Conn(I)] : IsFold(it, conn, n, G)
    BY <1>1, <1>3, FoldExists
  <2>2. ASSUME NEW S \in SUBSET (1..n), S # {} PROVE it[S] = RunStatement(it[S \ {Max(S)}], b[Max(S)], r)
    <3>1. it[S \ {Max(S)}] \in Conn(I)
      BY <2>1
    <3> QED
      BY <1>4, <2>1, <2>2, <3>1 DEF IsFold
  <2>3. Eq(it)
    BY <2>1, <2>2 DEF IsFold
  <2> HIDE DEF Eq
  <2> QED
    BY <2>3
<1> HIDE DEF chosenIt
<1>6. FoldsIn(chosenIt, Conn(I), conn, n, G)
  BY <1>4, <1>5 DEF FoldsIn
<1> HIDE DEF Eq
<1>7. PICK F \in [0..n -> Conn(I)] : AreStates(F, chosenIt, conn, n, G)
  BY <1>1, <1>3, <1>6, FoldStates
<1>8. \A i \in 1..n : F[i] = RunStatement(F[i - 1], b[i], r)
  <2>1. \A i \in 1..n : i - 1 \in 0..n
    BY <1>1
  <2> QED
    BY <1>7, <2>1 DEF G, AreStates
<1> QED
  BY <1>2, <1>7, <1>8 DEF AreStates, IsRun, n

\* What is heard of a batch is all of it, or what stands before a comment.
LEMMA HeardType ==
  ASSUME NEW b \in Seq(Statement)
  PROVE  /\ Heard(b) \in Seq(Statement) /\ Len(Heard(b)) <= Len(b)
         /\ \A i \in 1..Len(Heard(b)) : Heard(b)[i] = b[i] /\ b[i].op # "comment"
         /\ \/ Len(Heard(b)) = Len(b)
            \/ b[Len(Heard(b)) + 1].op = "comment" /\ Len(Heard(b)) + 1 \in 1..Len(b)
<1> DEFINE n == Len(b)
           comments == {i \in DOMAIN b : b[i].op = "comment"}
<1>0. n \in Nat /\ DOMAIN b = 1..n
  OBVIOUS
<1>1. CASE comments = {}
  <2>1. Heard(b) = b
    BY <1>1 DEF Heard
  <2> QED
    BY <1>0, <1>1, <2>1
<1>2. CASE comments # {}
  <2> DEFINE m == Min(comments)
  <2>1. m \in comments /\ \A k \in comments : m <= k
    <3>1. comments \in SUBSET (1..n)
      BY <1>0
    <3> HIDE DEF comments, n
    <3> QED
      BY <1>0, <1>2, <3>1, MinIn
  <2>2. Heard(b) = SubSeq(b, 1, m - 1)
    BY <1>2 DEF Heard
  <2> HIDE DEF m
  <2>3. m \in 1..n /\ b[m].op = "comment" /\ \A i \in 1..(m - 1) : b[i].op # "comment"
    BY <1>0, <2>1
  <2> HIDE DEF comments
  <2>4. /\ SubSeq(b, 1, m - 1) \in Seq(Statement) /\ Len(SubSeq(b, 1, m - 1)) = m - 1
        /\ \A i \in 1..(m - 1) : SubSeq(b, 1, m - 1)[i] = b[i]
    BY <1>0, <2>3
  <2> QED
    BY <1>0, <2>2, <2>3, <2>4
<1> QED
  BY <1>1, <1>2

\* What SQLite picks does not matter to a batch that asks for nothing random.
LEMMA RunAlike ==
  ASSUME NEW I, Item \subseteq I, NEW conn \in Conn(I), NEW b \in Seq(Statement),
         NEW r \in I, NEW q \in I, \A i \in 1..Len(b) : b[i].op # "random"
  PROVE  Fold(conn, b, r) = Fold(conn, b, q)
<1>1. PICK F \in [0..Len(b) -> Conn(I)] :
         IsRun(F, conn, b, r) /\ Fold(conn, b, r) = F[Len(b)]
  BY FoldRun
<1>2. PICK H \in [0..Len(b) -> Conn(I)] :
         IsRun(H, conn, b, q) /\ Fold(conn, b, q) = H[Len(b)]
  BY FoldRun
<1> DEFINE P == {i \in 0..Len(b) : F[i] = H[i]}
<1>3. 0 \in P
  BY <1>1, <1>2 DEF IsRun
<1>4. ASSUME NEW i \in 1..Len(b), i - 1 \in P PROVE i \in P
  <2>1. RunStatement(F[i - 1], b[i], r) = RunStatement(F[i - 1], b[i], q)
    BY DEF RunStatement, ItemsAfter
  <2> QED
    BY <1>1, <1>2, <1>4, <2>1 DEF IsRun
<1>5. \A i \in 0..Len(b) : i \in P
  <2> HIDE DEF P
  <2> QED
    BY <1>3, <1>4, Climb
<1> QED
  BY <1>1, <1>2, <1>5

\* Until a COMMIT, the file stays as it was.
LEMMA OpenRun ==
  ASSUME NEW I, NEW conn \in Conn(I), conn.open, NEW b \in Seq(Statement), NEW r \in I,
         NEW F \in [0..Len(b) -> Conn(I)], IsRun(F, conn, b, r),
         NEW n \in 0..Len(b), \A i \in 1..n : b[i].op # "commit"
  PROVE  \A i \in 0..n : F[i].open /\ F[i].file = conn.file
<1> DEFINE P == {i \in 0..n : F[i].open /\ F[i].file = conn.file}
<1>1. 0 \in P
  BY DEF IsRun
<1>2. ASSUME NEW i \in 1..n, i - 1 \in P PROVE i \in P
  <2>1. /\ F[i] = RunStatement(F[i - 1], b[i], r) /\ F[i - 1] \in Conn(I)
        /\ F[i - 1].open /\ F[i - 1].file = conn.file /\ b[i].op # "commit"
    BY <1>2 DEF IsRun
  <2>2. RunStatement(F[i - 1], b[i], r).open /\ RunStatement(F[i - 1], b[i], r).file = conn.file
    BY <2>1 DEF RunStatement, Conn
  <2> QED
    BY <2>1, <2>2
<1> HIDE DEF P
<1>3. \A i \in 0..n : i \in P
  BY <1>1, <1>2, Climb, n \in Nat
<1> QED
  BY <1>3 DEF P

\* A run that ends well has gone well at every statement.
LEMMA OkRun ==
  ASSUME NEW I, NEW conn \in Conn(I), NEW b \in Seq(Statement), NEW r \in I,
         NEW F \in [0..Len(b) -> Conn(I)], IsRun(F, conn, b, r), F[Len(b)].ok
  PROVE  /\ \A i \in 0..Len(b) : F[i].ok
         /\ \A i \in 1..Len(b) : Succeeds(F[i - 1], b[i])
<1> DEFINE n == Len(b)
           P == {i \in 0..n : F[n - i].ok}
<1>0. n \in Nat
  OBVIOUS
<1>1. 0 \in P
  BY <1>0
<1>2. ASSUME NEW i \in 1..n, F[i].ok PROVE F[i - 1].ok /\ Succeeds(F[i - 1], b[i])
  <2>1. F[i] = RunStatement(F[i - 1], b[i], r) /\ F[i - 1] \in Conn(I)
    BY <1>0 DEF IsRun
  <2>2. [F[i - 1] EXCEPT !.ok = FALSE].ok = FALSE
    BY <2>1 DEF Conn
  <2> QED
    BY <1>2, <2>1, <2>2 DEF RunStatement
<1>3. ASSUME NEW i \in 1..n, i - 1 \in P PROVE i \in P
  <2>1. n - (i - 1) \in 1..n /\ F[n - (i - 1)].ok /\ (n - (i - 1)) - 1 = n - i /\ n - i \in 0..n
    BY <1>0, <1>3
  <2>2. F[n - i].ok
    BY <1>2, <2>1
  <2> QED
    BY <2>2
<1>4. \A i \in 0..n : i \in P
  <2> HIDE DEF P, n
  <2> QED
    BY <1>0, <1>1, <1>3, Climb
<1>5. ASSUME NEW i \in 0..n PROVE F[i].ok
  <2>1. n - i \in 0..n /\ n - (n - i) = i
    BY <1>0
  <2>2. n - i \in P
    BY <1>4, <2>1
  <2> QED
    BY <2>1, <2>2
<1> QED
  BY <1>2, <1>5

\* A savepoint that is there at the end has seen no COMMIT.
LEMMA SavepointRun ==
  ASSUME NEW I, NEW conn \in Conn(I), NEW b \in Seq(Statement), NEW r \in I,
         NEW F \in [0..Len(b) -> Conn(I)], IsRun(F, conn, b, r), F[Len(b)].ok,
         F[Len(b)].savepoint
  PROVE  \A i \in 1..Len(b) : b[i].op # "commit"
<1> DEFINE n == Len(b)
           P == {i \in 0..n : F[n - i].savepoint}
<1>0. n \in Nat
  OBVIOUS
<1>1. 0 \in P
  BY <1>0
<1>2. ASSUME NEW i \in 1..n, F[i].savepoint PROVE F[i - 1].savepoint /\ b[i].op # "commit"
  <2>1. F[i] = RunStatement(F[i - 1], b[i], r) /\ F[i - 1] \in Conn(I)
    BY <1>0 DEF IsRun
  <2>2. F[i - 1].ok /\ Succeeds(F[i - 1], b[i])
    BY OkRun, i - 1 \in 0..n
  <2> QED
    BY <1>2, <2>1, <2>2 DEF RunStatement, Conn
<1>3. ASSUME NEW i \in 1..n, i - 1 \in P PROVE i \in P
  <2>1. n - (i - 1) \in 1..n /\ F[n - (i - 1)].savepoint /\ (n - (i - 1)) - 1 = n - i /\ n - i \in 0..n
    BY <1>0, <1>3
  <2>2. F[n - i].savepoint
    BY <1>2, <2>1
  <2> QED
    BY <2>2
<1>4. \A i \in 0..n : i \in P
  <2> HIDE DEF P, n
  <2> QED
    BY <1>0, <1>1, <1>3, Climb
<1>5. ASSUME NEW i \in 1..n PROVE b[i].op # "commit"
  <2>1. n - i \in 0..n /\ n - (n - i) = i
    BY <1>0
  <2>2. F[i].savepoint
    BY <1>4, <2>1
  <2> QED
    BY <1>2, <2>2
<1> QED
  BY <1>5
(***************************************************************************)
(* The adapter: execute_write and validate_sql.                            *)
(***************************************************************************)

\* The databases with items out of I.
Databases(I) == SUBSET I

\* Both calls of the adapter begin with a connection.
LEMMA OpenedType ==
  ASSUME NEW I, NEW db \in Databases(I)
  PROVE  Opened(db) \in Conn(I) /\ InSavepoint(db) \in Conn(I)
BY DEF Opened, InSavepoint, Conn, Databases

\* A batch that is executed is a run of what is heard of it.
LEMMA BatchRun ==
  ASSUME NEW conn, NEW b, NEW r
  PROVE  execute_batch(conn, b, r) = Fold(conn, Heard(b), r)
BY DEF execute_batch, Fold

\* execute_write leaves a connection, and in it a database.
LEMMA WriteType ==
  ASSUME NEW I, Item \subseteq I, NEW db \in Databases(I), NEW b \in Seq(Statement),
         NEW r \in I
  PROVE  execute_write(db, b, r) \in Conn(I)
<1>0. Opened(db) \in Conn(I) /\ Heard(b) \in Seq(Statement)
  BY OpenedType, HeardType
<1>1. PICK F \in [0..Len(Heard(b)) -> Conn(I)] :
         /\ IsRun(F, Opened(db), Heard(b), r)
         /\ Fold(Opened(db), Heard(b), r) = F[Len(Heard(b))]
  BY <1>0, FoldRun
<1>2. Len(Heard(b)) \in 0..Len(Heard(b))
  BY HeardType
<1> QED
  BY <1>1, <1>2, BatchRun DEF execute_write

\* What SQLite picks matters only to a batch that asks it to.
LEMMA WriteAlike ==
  ASSUME NEW I, Item \subseteq I, NEW db \in Databases(I), NEW b \in Seq(Statement),
         NEW r \in I, NEW q \in I, \A i \in 1..Len(b) : b[i].op # "random"
  PROVE  execute_write(db, b, r) = execute_write(db, b, q)
<1>1. /\ Heard(b) \in Seq(Statement) /\ Opened(db) \in Conn(I)
      /\ \A i \in 1..Len(Heard(b)) : Heard(b)[i].op # "random"
  BY OpenedType, HeardType
<1>2. Fold(Opened(db), Heard(b), r) = Fold(Opened(db), Heard(b), q)
  BY <1>1, RunAlike
<1> QED
  BY <1>2, BatchRun DEF execute_write

\* What validate_sql returns after a run.
Outcome(b, conn) == [ok |-> b # <<>> /\ conn.ok /\ conn.savepoint, file |-> conn.file]

\* Validation is a run of what is heard in a savepoint.
LEMMA ValidateRun ==
  ASSUME NEW I, Item \subseteq I, NEW db \in Databases(I), NEW b \in Seq(Statement),
         NEW r \in I
  PROVE  /\ InSavepoint(db) \in Conn(I)
         /\ InSavepoint(db).open /\ InSavepoint(db).file = db
         /\ Heard(b) \in Seq(Statement) /\ Len(Heard(b)) \in 0..Len(Heard(b))
         /\ \A i \in 1..Len(Heard(b)) : Heard(b)[i] = b[i] /\ i \in 1..Len(b)
         /\ \E F \in [0..Len(Heard(b)) -> Conn(I)] :
               /\ IsRun(F, InSavepoint(db), Heard(b), r)
               /\ validate_sql(db, b, r) = Outcome(b, F[Len(Heard(b))])
<1>1. /\ InSavepoint(db) \in Conn(I)
      /\ InSavepoint(db).open /\ InSavepoint(db).file = db
  BY OpenedType DEF InSavepoint, Opened
<1>2. /\ Heard(b) \in Seq(Statement) /\ Len(Heard(b)) \in 0..Len(Heard(b))
      /\ \A i \in 1..Len(Heard(b)) : Heard(b)[i] = b[i] /\ i \in 1..Len(b)
  BY HeardType
<1>3. PICK F \in [0..Len(Heard(b)) -> Conn(I)] :
         /\ IsRun(F, InSavepoint(db), Heard(b), r)
         /\ Fold(InSavepoint(db), Heard(b), r) = F[Len(Heard(b))]
  BY <1>1, <1>2, FoldRun
<1>4. validate_sql(db, b, r) = Outcome(b, F[Len(Heard(b))])
  BY <1>3, BatchRun DEF validate_sql, Outcome
<1> QED
  BY <1>1, <1>2, <1>3, <1>4

\* A validation leaves a database.
LEMMA ValidateType ==
  ASSUME NEW I, Item \subseteq I, NEW db \in Databases(I), NEW b \in Seq(Statement),
         NEW r \in I
  PROVE  validate_sql(db, b, r) \in [ok : BOOLEAN, file : Databases(I)]
<1>1. PICK F \in [0..Len(Heard(b)) -> Conn(I)] :
         /\ IsRun(F, InSavepoint(db), Heard(b), r)
         /\ validate_sql(db, b, r) = Outcome(b, F[Len(Heard(b))])
  BY ValidateRun
<1>2. F[Len(Heard(b))] \in Conn(I)
  BY ValidateRun
<1> QED
  BY <1>1, <1>2 DEF Conn, Databases, Outcome

\* It leaves the one it found unless it hears a COMMIT.
LEMMA ValidateKeeps ==
  ASSUME NEW I, Item \subseteq I, NEW db \in Databases(I), NEW b \in Seq(Statement),
         NEW r \in I, \A i \in 1..Len(b) : b[i].op # "commit"
  PROVE  validate_sql(db, b, r).file = db
<1> DEFINE s == Heard(b)
           conn == InSavepoint(db)
           n == Len(s)
<1>1. /\ conn \in Conn(I) /\ conn.open /\ conn.file = db
      /\ s \in Seq(Statement) /\ n \in 0..n
      /\ \A i \in 1..n : s[i].op # "commit"
  BY ValidateRun
<1>2. PICK F \in [0..n -> Conn(I)] :
         IsRun(F, conn, s, r) /\ validate_sql(db, b, r) = Outcome(b, F[n])
  BY ValidateRun
<1>3. F[n].file = conn.file
  <2> HIDE DEF s, conn
  <2>1. conn.open /\ n \in 0..Len(s) /\ \A i \in 1..n : s[i].op # "commit"
    BY <1>1
  <2>2. \A i \in 0..n : F[i].open /\ F[i].file = conn.file
    BY <1>1, <1>2, <2>1, OpenRun
  <2> HIDE DEF n
  <2> QED
    BY <1>1, <2>2
<1> QED
  BY <1>1, <1>2, <1>3 DEF Outcome

\* What passes validation changed nothing; every statement that was heard is
\* plain and succeeded.
Plain == {"create", "drop", "random"}

\* A batch that passes has left the database alone, every statement of it that
\* was heard is plain, and each did what it asked for.
LEMMA ValidMeans ==
  ASSUME NEW I, Item \subseteq I, NEW db \in Databases(I), NEW b \in Seq(Statement),
         NEW r \in I, validate_sql(db, b, r).ok
  PROVE  /\ validate_sql(db, b, r).file = db
         /\ \A i \in 1..Len(Heard(b)) : b[i].op \in Plain
         /\ \E F \in [0..Len(Heard(b)) -> Conn(I)] :
               /\ IsRun(F, InSavepoint(db), Heard(b), r)
               /\ \A i \in 1..Len(Heard(b)) : Succeeds(F[i - 1], b[i])
<1> DEFINE s == Heard(b)
           conn == InSavepoint(db)
           n == Len(s)
<1>1. conn \in Conn(I) /\ conn.open /\ conn.file = db
  BY ValidateRun
<1>2. s \in Seq(Statement) /\ n \in Nat /\ \A i \in 1..n : s[i] = b[i]
  BY ValidateRun
<1>3. PICK F \in [0..n -> Conn(I)] :
         IsRun(F, conn, s, r) /\ validate_sql(db, b, r) = Outcome(b, F[n])
  BY ValidateRun
<1>4. F[n].ok /\ F[n].savepoint /\ validate_sql(db, b, r).file = F[n].file /\ n \in 0..n
  <2>1. n \in 0..n /\ F[n] \in Conn(I)
    BY <1>2
  <2>2. Outcome(b, F[n]).ok
    BY <1>3
  <2>3. F[n].ok /\ F[n].savepoint
    BY <2>1, <2>2 DEF Outcome, Conn
  <2> QED
    BY <1>3, <2>1, <2>3 DEF Outcome
<1> HIDE DEF s, conn
<1>5. \A i \in 1..n : s[i].op # "commit"
  BY <1>1, <1>2, <1>3, <1>4, SavepointRun
<1>6. \A i \in 0..n : F[i].open /\ F[i].file = conn.file
  <2>1. n \in 0..n /\ IsRun(F, conn, s, r)
    BY <1>2, <1>3
  <2>2. \A i \in 0..n : F[i].file = conn.file
    BY <1>1, <1>2, <1>5, <2>1, OpenRun
  <2>3. \A i \in 0..n : F[i].open
    BY <1>1, <1>2, <1>5, <2>1, OpenRun
  <2> QED
    BY <2>2, <2>3
<1>7. \A i \in 1..n : Succeeds(F[i - 1], s[i])
  BY <1>1, <1>2, <1>3, <1>4, OkRun
<1>8. \A i \in 1..n : s[i].op \in Plain
  <2> SUFFICES ASSUME NEW i \in 1..n PROVE s[i].op \in Plain
    OBVIOUS
  <2>1. Succeeds(F[i - 1], s[i]) /\ F[i - 1].open /\ s[i].op # "commit"
    BY <1>2, <1>5, <1>6, <1>7
  <2> QED
    BY <2>1 DEF Succeeds, Plain
<1>9. validate_sql(db, b, r).file = db
  BY <1>1, <1>4, <1>6
<1> QED
  BY <1>2, <1>3, <1>7, <1>8, <1>9 DEF s, conn

(***************************************************************************)
(* Several batches, one after another.                                     *)
(***************************************************************************)

\* Whether all batches have passed so far, and the database they left.
Verdict(I) == [ok : BOOLEAN, file : Databases(I)]

\* The next batch is only looked at if the ones before it passed.
ValidateNext(v, b, r) == IF v.ok THEN validate_sql(v.file, b, r) ELSE v

\* H[i] is the verdict after i batches.
IsValidation(H, db, batches, r) ==
    /\ H[0] = [ok |-> batches # <<>>, file |-> db]
    /\ \A i \in 1..Len(batches) : H[i] = ValidateNext(H[i - 1], batches[i], r)

\* It is well typed.
LEMMA NextVerdict ==
  ASSUME NEW I, Item \subseteq I, NEW v \in Verdict(I), NEW b \in Seq(Statement),
         NEW r \in I
  PROVE  ValidateNext(v, b, r) \in Verdict(I)
BY ValidateType DEF ValidateNext, Verdict

\* The validation of a statement is the end of one validation after another.
LEMMA ValidatedRun ==
  ASSUME NEW I, Item \subseteq I, NEW db \in Databases(I),
         NEW batches \in Seq(Seq(Statement)), NEW r \in I
  PROVE  \E H \in [0..Len(batches) -> Verdict(I)] :
            /\ IsValidation(H, db, batches, r)
            /\ Validated(db, batches, r) = H[Len(batches)]
<1> DEFINE n == Len(batches)
           start == [ok |-> batches # <<>>, file |-> db]
           Eq(it) == it = [S \in SUBSET (1..n) |->
                             IF S = {} THEN start
                             ELSE ValidateNext(it[S \ {Max(S)}], batches[Max(S)], r)]
           chosenIt == CHOOSE it : Eq(it)
           G == [p \in Verdict(I) \X (1..n) |-> ValidateNext(p[1], batches[p[2]], r)]
<1>1. n \in Nat /\ DOMAIN batches = 1..n /\ start \in Verdict(I)
  BY DEF Verdict
<1>2. Validated(db, batches, r) = chosenIt[1..n]
  BY <1>1 DEF Validated, ValidateNext, FoldLeft, MapThenFoldSet
<1>3. G \in [Verdict(I) \X (1..n) -> Verdict(I)]
  BY <1>1, NextVerdict
<1>4. ASSUME NEW it, NEW S \in SUBSET (1..n), S # {}, it[S \ {Max(S)}] \in Verdict(I)
      PROVE  G[<<it[S \ {Max(S)}], Max(S)>>] = ValidateNext(it[S \ {Max(S)}], batches[Max(S)], r)
  <2>1. Max(S) \in 1..n
    <3> HIDE DEF n
    <3> QED
      BY <1>1, <1>4, MaxIn
  <2> HIDE DEF n
  <2> QED
    BY <1>4, <2>1
<1> HIDE DEF G, n, start
<1>5. Eq(chosenIt)
  <2>1. PICK it \in [SUBSET (1..n) -> Verdict(I)] : IsFold(it, start, n, G)
    BY <1>1, <1>3, FoldExists
  <2>2. ASSUME NEW S \in SUBSET (1..n), S # {} PROVE it[S] = ValidateNext(it[S \ {Max(S)}], batches[Max(S)], r)
    <3>1. it[S \ {Max(S)}] \in Verdict(I)
      BY <2>1
    <3> QED
      BY <1>4, <2>1, <2>2, <3>1 DEF IsFold
  <2>3. Eq(it)
    BY <2>1, <2>2 DEF IsFold
  <2> HIDE DEF Eq
  <2> QED
    BY <2>3
<1> HIDE DEF chosenIt
<1>6. FoldsIn(chosenIt, Verdict(I), start, n, G)
  BY <1>4, <1>5 DEF FoldsIn
<1> HIDE DEF Eq
<1>7. PICK H \in [0..n -> Verdict(I)] : AreStates(H, chosenIt, start, n, G)
  BY <1>1, <1>3, <1>6, FoldStates
<1>8. \A i \in 1..n : H[i] = ValidateNext(H[i - 1], batches[i], r)
  <2>1. \A i \in 1..n : i - 1 \in 0..n
    BY <1>1
  <2> QED
    BY <1>7, <2>1 DEF G, AreStates
<1> QED
  BY <1>2, <1>7, <1>8 DEF AreStates, IsValidation, n, start

\* Validation leaves a database, and the one it found unless it hears a COMMIT.
LEMMA ValidatedType ==
  ASSUME NEW I, Item \subseteq I, NEW db \in Databases(I),
         NEW batches \in Seq(Seq(Statement)), NEW r \in I
  PROVE  /\ Validated(db, batches, r) \in Verdict(I)
         /\ ~Commits(batches) => Validated(db, batches, r).file = db
<1> DEFINE n == Len(batches)
<1>0. n \in Nat /\ n \in 0..n /\ DOMAIN batches = 1..n
  OBVIOUS
<1>1. PICK H \in [0..n -> Verdict(I)] :
         /\ IsValidation(H, db, batches, r)
         /\ Validated(db, batches, r) = H[n]
  BY ValidatedRun
<1>2. ASSUME ~Commits(batches) PROVE H[n].file = db
  <2> DEFINE P == {i \in 0..n : H[i].file = db}
  <2>1. 0 \in P
    BY <1>0, <1>1 DEF IsValidation
  <2>2. ASSUME NEW i \in 1..n, i - 1 \in P PROVE i \in P
    <3>1. /\ H[i] = ValidateNext(H[i - 1], batches[i], r) /\ H[i - 1].file = db
          /\ batches[i] \in Seq(Statement) /\ i \in 0..n
      BY <1>0, <1>1, <2>2 DEF IsValidation
    <3>2. \A j \in 1..Len(batches[i]) : batches[i][j].op # "commit"
      <4>1. DOMAIN batches[i] = 1..Len(batches[i])
        BY <3>1
      <4> QED
        BY <1>0, <1>2, <4>1 DEF Commits
    <3>3. validate_sql(db, batches[i], r).file = db
      <4> DEFINE b == batches[i]
      <4>1. b \in Seq(Statement) /\ \A j \in 1..Len(b) : b[j].op # "commit"
        BY <3>1, <3>2
      <4> HIDE DEF b
      <4>2. validate_sql(db, b, r).file = db
        BY <4>1, ValidateKeeps
      <4> QED
        BY <4>2 DEF b
    <3>4. H[i].file = db
      BY <3>1, <3>3 DEF ValidateNext
    <3> QED
      BY <3>1, <3>4
  <2> HIDE DEF P, n
  <2>3. \A i \in 0..n : i \in P
    BY <1>0, <2>1, <2>2, Climb
  <2> QED
    BY <1>0, <2>3 DEF P
<1> QED
  BY <1>0, <1>1, <1>2

\* What passes as a whole passes batch by batch, on the database it found.
LEMMA ValidatedMeans ==
  ASSUME NEW I, Item \subseteq I, NEW db \in Databases(I),
         NEW batches \in Seq(Seq(Statement)), NEW r \in I,
         Validated(db, batches, r).ok
  PROVE  /\ Len(batches) > 0
         /\ \A i \in 1..Len(batches) : validate_sql(db, batches[i], r).ok
<1> DEFINE n == Len(batches)
<1>0. n \in Nat /\ n \in 0..n
  OBVIOUS
<1>1. PICK H \in [0..n -> Verdict(I)] :
         /\ IsValidation(H, db, batches, r)
         /\ Validated(db, batches, r) = H[n]
  BY ValidatedRun
<1> DEFINE P == {i \in 0..n : H[i].ok =>
                   /\ batches # <<>> /\ H[i].file = db
                   /\ \A j \in 1..i : validate_sql(db, batches[j], r).ok}
<1>2. 0 \in P
  <2>1. H[0].ok = (batches # <<>>) /\ H[0].file = db
    BY <1>1 DEF IsValidation
  <2>2. 0 \in 0..n /\ 1..0 = {}
    BY <1>0
  <2> QED
    BY <2>1, <2>2
<1>3. ASSUME NEW i \in 1..n, i - 1 \in P PROVE i \in P
  <2> SUFFICES ASSUME H[i].ok
               PROVE  /\ batches # <<>> /\ H[i].file = db
                      /\ \A j \in 1..i : validate_sql(db, batches[j], r).ok
    BY <1>0
  <2>1. H[i] = ValidateNext(H[i - 1], batches[i], r) /\ batches[i] \in Seq(Statement)
    BY <1>0, <1>1 DEF IsValidation
  <2>2. H[i - 1].ok
    BY <2>1 DEF ValidateNext
  <2>3. /\ batches # <<>> /\ H[i - 1].file = db
        /\ \A j \in 1..(i - 1) : validate_sql(db, batches[j], r).ok
    BY <1>3, <2>2
  <2>4. H[i] = validate_sql(db, batches[i], r)
    BY <2>1, <2>2, <2>3 DEF ValidateNext
  <2>5. validate_sql(db, batches[i], r).ok
    BY <2>4
  <2>6. H[i].file = db
    <3>1. validate_sql(db, batches[i], r).file = db
      BY <2>1, <2>5, ValidMeans
    <3> QED
      BY <2>4, <3>1
  <2> QED
    BY <2>3, <2>5, <2>6
<1> HIDE DEF P, n
<1>4. \A i \in 0..n : i \in P
  BY <1>0, <1>2, <1>3, Climb
<1>5. batches # <<>> /\ \A j \in 1..n : validate_sql(db, batches[j], r).ok
  BY <1>0, <1>1, <1>4 DEF P
<1> QED
  BY <1>5 DEF n
(***************************************************************************)
(* The text that goes into the log.                                        *)
(***************************************************************************)

\* What goes into the log is SQL.
LEMMA PayloadType ==
  ASSUME NEW w \in Work
  PROVE  Payload(w) \in Seq(Statement)
<1>1. w.statements \in Seq(Seq(Statement))
  BY SqlAssumption
<1>2. FlattenSeq(w.statements) \in Seq(Statement)
  BY <1>1, FlattenType
<1>3. [op |-> "begin"] \in Statement /\ [op |-> "commit"] \in Statement
  BY DEF Statement
<1> QED
  BY <1>2, <1>3 DEF Payload

(***************************************************************************)
(* The log as a whole.                                                     *)
(***************************************************************************)
\* The items of Replay: Nil is what `random' would pick there.
AnyItem == Item \cup {Nil}

\* The database that entry e makes of d.
Rewrite(d, w, e) == execute_write(d, Payload(w[e[1]]), Nil).file

\* The database that the entries s make, calls asking for what w says.
After(w, s) == FoldLeft(LAMBDA d, e : Rewrite(d, w, e), {}, s)

\* D[i] is the database after i entries of s.
IsReplay(D, w, s) ==
    /\ D[0] = {}
    /\ \A i \in 1..Len(s) : D[i] = Rewrite(D[i - 1], w, s[i])

\* An entry makes a database of a database.
LEMMA RewriteType ==
  ASSUME NEW d \in Databases(AnyItem), NEW w \in [Call -> Work], NEW e \in Entry
  PROVE  Rewrite(d, w, e) \in Databases(AnyItem)
<1>1. Payload(w[e[1]]) \in Seq(Statement)
  BY PayloadType DEF Entry
<1>2. Item \subseteq AnyItem /\ Nil \in AnyItem
  BY DEF AnyItem
<1>3. execute_write(d, Payload(w[e[1]]), Nil) \in Conn(AnyItem)
  BY <1>1, <1>2, WriteType
<1> QED
  BY <1>3 DEF Rewrite, Conn, Databases

\* The replay of entries is the end of one entry after another.
LEMMA ReplayRun ==
  ASSUME NEW w \in [Call -> Work], NEW s \in Seq(Entry)
  PROVE  \E D \in [0..Len(s) -> Databases(AnyItem)] :
            IsReplay(D, w, s) /\ After(w, s) = D[Len(s)]
<1> DEFINE n == Len(s)
           V == Databases(AnyItem)
           Eq(it) == it = [S \in SUBSET (1..n) |->
                             IF S = {} THEN {}
                             ELSE Rewrite(it[S \ {Max(S)}], w, s[Max(S)])]
           chosenIt == CHOOSE it : Eq(it)
           G == [p \in V \X (1..n) |-> Rewrite(p[1], w, s[p[2]])]
<1>1. n \in Nat /\ DOMAIN s = 1..n /\ {} \in V
  BY DEF Databases
<1>2. After(w, s) = chosenIt[1..n]
  BY <1>1 DEF After, FoldLeft, MapThenFoldSet
<1>3. G \in [V \X (1..n) -> V]
  BY <1>1, RewriteType
<1>4. ASSUME NEW it, NEW S \in SUBSET (1..n), S # {}, it[S \ {Max(S)}] \in V
      PROVE  G[<<it[S \ {Max(S)}], Max(S)>>] = Rewrite(it[S \ {Max(S)}], w, s[Max(S)])
  <2>1. Max(S) \in 1..n
    <3> HIDE DEF n
    <3> QED
      BY <1>1, <1>4, MaxIn
  <2> HIDE DEF n
  <2> QED
    BY <1>4, <2>1
<1> HIDE DEF G, n, V
<1>5. Eq(chosenIt)
  <2>1. PICK it \in [SUBSET (1..n) -> V] : IsFold(it, {}, n, G)
    BY <1>1, <1>3, FoldExists
  <2>2. ASSUME NEW S \in SUBSET (1..n), S # {} PROVE it[S] = Rewrite(it[S \ {Max(S)}], w, s[Max(S)])
    <3>1. it[S \ {Max(S)}] \in V
      BY <2>1
    <3> QED
      BY <1>4, <2>1, <2>2, <3>1 DEF IsFold
  <2>3. Eq(it)
    BY <2>1, <2>2 DEF IsFold
  <2> HIDE DEF Eq
  <2> QED
    BY <2>3
<1> HIDE DEF chosenIt
<1>6. FoldsIn(chosenIt, V, {}, n, G)
  BY <1>4, <1>5 DEF FoldsIn
<1> HIDE DEF Eq
<1>7. PICK D \in [0..n -> V] : AreStates(D, chosenIt, {}, n, G)
  BY <1>1, <1>3, <1>6, FoldStates
<1>8. \A i \in 1..n : D[i] = Rewrite(D[i - 1], w, s[i])
  <2>1. \A i \in 1..n : i - 1 \in 0..n
    BY <1>1
  <2> QED
    BY <1>7, <2>1 DEF G, AreStates
<1> QED
  BY <1>2, <1>7, <1>8 DEF AreStates, IsReplay, n, V

\* One entry more.
LEMMA ReplayNext ==
  ASSUME NEW w \in [Call -> Work], NEW s \in Seq(Entry), NEW e \in Entry
  PROVE  After(w, Append(s, e)) = Rewrite(After(w, s), w, e)
<1> DEFINE n == Len(s)
           t == Append(s, e)
<1>0. n \in Nat /\ t \in Seq(Entry) /\ Len(t) = n + 1 /\ t[n + 1] = e
      /\ \A i \in 1..n : t[i] = s[i]
  OBVIOUS
<1>1. PICK D \in [0..n -> Databases(AnyItem)] : IsReplay(D, w, s) /\ After(w, s) = D[n]
  BY ReplayRun
<1>2. PICK C \in [0..(n + 1) -> Databases(AnyItem)] :
         IsReplay(C, w, t) /\ After(w, t) = C[n + 1]
  <2>1. \E C \in [0..Len(t) -> Databases(AnyItem)] :
           IsReplay(C, w, t) /\ After(w, t) = C[Len(t)]
    BY <1>0, ReplayRun
  <2> QED
    BY <1>0, <2>1
<1> HIDE DEF t
<1>3. \A i \in 0..n : C[i] = D[i]
  <2> DEFINE P == {i \in 0..n : C[i] = D[i]}
  <2>1. 0 \in P
    <3>1. 0 \in 0..n /\ C[0] = D[0]
      BY <1>0, <1>1, <1>2 DEF IsReplay
    <3> QED
      BY <3>1
  <2>2. ASSUME NEW i \in 1..n, i - 1 \in P PROVE i \in P
    <3>1. i \in 1..Len(t) /\ i \in 0..n /\ C[i - 1] = D[i - 1] /\ t[i] = s[i]
      BY <1>0, <2>2
    <3> QED
      BY <1>0, <1>1, <1>2, <3>1 DEF IsReplay
  <2> HIDE DEF P
  <2>3. \A i \in 0..n : i \in P
    BY <1>0, <2>1, <2>2, Climb
  <2> QED
    BY <2>3 DEF P
<1>4. C[n + 1] = Rewrite(C[n], w, e)
  <2>1. n + 1 \in 1..Len(t) /\ (n + 1) - 1 = n
    BY <1>0
  <2> QED
    BY <1>0, <1>2, <2>1 DEF IsReplay
<1> QED
  BY <1>0, <1>1, <1>2, <1>3, <1>4 DEF t

\* Has call c put an entry into the log?
Written(c) == slot[<<c, 1>>] # 0 \/ slot[<<c, 2>>] # 0

\* Before a call appends it has written nothing, and what it has written is of
\* its current attempt.  Only a call that is over has a result, but one that
\* its caller has given up; who was refused wrote nothing, who was told success
\* has an entry.
CallSound(c) ==
    /\ pc[c] = "find" => try[c] < 2 /\ told[c] = "nothing" /\ at[c] = Nil
    /\ pc[c] \in {"validate", "append"} => try[c] > 0 /\ at[c] \in Node
    /\ pc[c] = "waiting" => slot[This(c)] # 0
    /\ told[c] \in {"success", "refused"} => pc[c] = "over"
    /\ told[c] = "success" => slot[This(c)] # 0
    /\ Written(c) => pc[c] \in {"waiting", "over"} /\ told[c] # "refused"
    /\ try[c] = 2 => slot[<<c, 1>>] = 0
    /\ try[c] < 2 => slot[<<c, 2>>] = 0

Places == {"find", "validate", "append", "waiting", "over"}
Outcomes == {"nothing", "success", "refused", "failed"}

CallInv ==
    /\ slot \in [Entry -> Nat]
    /\ base \in [Node -> Nat] /\ mine \in [Node -> Seq(Entry)]
    /\ at \in [Call -> Node \cup {Nil}]
    /\ pc \in [Call -> Places]
    /\ told \in [Call -> Outcomes]
    /\ try \in [Call -> 0..2]
    /\ \A c \in Call : CallSound(c)

\* Every call starts with nothing written.
LEMMA CallStart == Init => CallInv
BY DEF Init, CallInv, CallSound, Places, Outcomes, Entry, Written, This

\* The attempts of a call are entries.
LEMMA AttemptIsEntry ==
  ASSUME NEW c \in Call
  PROVE  <<c, 1>> \in Entry /\ <<c, 2>> \in Entry
BY DEF Entry

\* What does not touch a call leaves it sound.
LEMMA UntouchedCall ==
  ASSUME NEW d \in Call, CallSound(d),
         pc'[d] = pc[d], told'[d] = told[d], try'[d] = try[d], at'[d] = at[d],
         slot'[<<d, 1>>] = slot[<<d, 1>>], slot'[<<d, 2>>] = slot[<<d, 2>>],
         try[d] \in 0..2, try[d] = 0 => slot'[This(d)] = slot[This(d)]
  PROVE  CallSound(d)'
<1>1. This(d)' = This(d)
  BY DEF This
<1>2. slot'[This(d)'] = slot[This(d)]
  <2>1. try[d] = 0 \/ try[d] = 1 \/ try[d] = 2
    OBVIOUS
  <2> QED
    BY <1>1, <2>1 DEF This
<1>3. Written(d)' <=> Written(d)
  BY DEF Written
<1> QED
  BY <1>1, <1>2, <1>3 DEF CallSound

\* A step that changes only one call, and writes nothing.
LEMMA OneCallStep ==
  ASSUME CallInv, NEW c \in Call, UNCHANGED <<slot, base, mine>>,
         NEW p \in Places, NEW o \in Outcomes, NEW t \in 0..2, NEW n \in Node \cup {Nil},
         pc' = [pc EXCEPT ![c] = p], told' = [told EXCEPT ![c] = o],
         try' = [try EXCEPT ![c] = t], at' = [at EXCEPT ![c] = n],
         CallSound(c)'
  PROVE  CallInv'
<1>1. /\ pc' \in [Call -> Places] /\ told' \in [Call -> Outcomes]
      /\ try' \in [Call -> 0..2] /\ at' \in [Call -> Node \cup {Nil}]
  BY DEF CallInv
<1>2. ASSUME NEW d \in Call PROVE CallSound(d)'
  <2>1. CASE d = c
    BY <2>1
  <2>2. CASE d # c
    <3>1. /\ pc'[d] = pc[d] /\ told'[d] = told[d] /\ try'[d] = try[d]
          /\ at'[d] = at[d] /\ try[d] \in 0..2 /\ CallSound(d)
      BY <2>2 DEF CallInv
    <3> QED
      BY <3>1, UntouchedCall
  <2> QED
    BY <2>1, <2>2
<1> QED
  BY <1>1, <1>2 DEF CallInv

\* Who leads and what it appends on its own does not touch the calls.
LEMMA ConsensusStep ==
  ASSUME CallInv, NEW n \in Node, BecomeLeader(n) \/ StepDown(n)
  PROVE  CallInv'
<1>1. /\ UNCHANGED <<slot, pc, told, try, at>>
      /\ base' \in [Node -> Nat] /\ mine' \in [Node -> Seq(Entry)]
  <2>1. CASE BecomeLeader(n)
    BY <2>1 DEF BecomeLeader, client, CallInv
  <2>2. CASE StepDown(n)
    BY <2>2 DEF StepDown, Deposed, client, CallInv
  <2> QED
    BY <2>1, <2>2
<1> QED
  BY <1>1 DEF CallInv, CallSound, Written, This

\* A crash ends the calls a node serves: if nothing else was said to their
\* callers, they have failed.  What they wrote stays written.
LEMMA CrashStep == ASSUME CallInv, NEW n \in Node, Crash(n) PROVE CallInv'
<1>1. UNCHANGED <<slot, try>>
  BY DEF Crash
<1>2. base' \in [Node -> Nat] /\ mine' \in [Node -> Seq(Entry)]
  BY DEF CallInv, Crash, Deposed
<1>3. /\ pc' \in [Call -> Places] /\ told' \in [Call -> Outcomes]
      /\ at' \in [Call -> Node \cup {Nil}]
  BY DEF CallInv, Crash, Places, Outcomes
<1>4. ASSUME NEW d \in Call PROVE CallSound(d)'
  <2>1. CallSound(d) /\ try[d] \in 0..2 /\ told[d] \in Outcomes
    BY DEF CallInv
  <2>2. CASE at[d] # n
    <3>1. pc'[d] = pc[d] /\ told'[d] = told[d] /\ at'[d] = at[d]
      BY <2>2 DEF Crash
    <3> QED
      BY <1>1, <2>1, <3>1, UntouchedCall
  <2>3. CASE at[d] = n
    <3>1. /\ pc'[d] = "over" /\ at'[d] = Nil
          /\ told'[d] = IF told[d] = "nothing" THEN "failed" ELSE told[d]
      BY <2>3 DEF Crash
    <3>2. This(d)' = This(d) /\ (Written(d)' <=> Written(d))
      BY <1>1 DEF This, Written
    <3> QED
      BY <1>1, <2>1, <3>1, <3>2 DEF CallSound
  <2> QED
    BY <2>2, <2>3
<1> QED
  BY <1>1, <1>2, <1>3, <1>4 DEF CallInv

\* What ends a call that wrote nothing, or that is told what it did.
LEMMA EndsStep ==
  ASSUME CallInv, NEW c \in Call, NEW o \in {"success", "refused", "failed"},
         Ends(c, o), UNCHANGED <<slot, base, mine, try>>,
         o = "success" => pc[c] = "waiting",
         o = "refused" => ~Written(c)
  PROVE  CallInv'
<1> DEFINE r == IF told[c] = "nothing" THEN o ELSE told[c]
<1>1. CallSound(c) /\ try[c] \in 0..2 /\ told[c] \in Outcomes
  BY DEF CallInv
<1>2. r \in Outcomes /\ "over" \in Places
  BY <1>1 DEF Outcomes, Places
<1>3. /\ pc' = [pc EXCEPT ![c] = "over"] /\ told' = [told EXCEPT ![c] = r]
      /\ try' = [try EXCEPT ![c] = try[c]] /\ at' = [at EXCEPT ![c] = Nil]
  BY DEF Ends, CallInv
<1>4. /\ pc'[c] = "over" /\ told'[c] = r /\ try'[c] = try[c]
      /\ This(c)' = This(c) /\ (Written(c)' <=> Written(c))
  BY <1>3 DEF This, Written, CallInv
<1>5. CallSound(c)'
  BY <1>1, <1>4 DEF CallSound
<1> HIDE DEF r
<1> QED
  BY <1>1, <1>2, <1>3, <1>5, OneCallStep

\* The search for a leader starts an attempt, or gives up.
LEMMA FindLeaderStep == ASSUME CallInv, NEW c \in Call, FindLeader(c) PROVE CallInv'
<1>1. /\ pc[c] = "find" /\ UNCHANGED <<slot, base, mine>>
      /\ CallSound(c) /\ try[c] \in 0..2 /\ told[c] \in Outcomes
  BY DEF CallInv, FindLeader, consensus
<1>2. ~Written(c) /\ try[c] < 2 /\ told[c] = "nothing"
  BY <1>1 DEF CallSound
<1>3. ASSUME NEW n \in Node,
             at' = [at EXCEPT ![c] = n], try' = [try EXCEPT ![c] = @ + 1],
             pc' = [pc EXCEPT ![c] = "validate"], UNCHANGED told
      PROVE  CallInv'
  <2>1. try[c] + 1 \in 0..2 /\ "validate" \in Places
    BY <1>1, <1>2 DEF Places
  <2>2. try' = [try EXCEPT ![c] = try[c] + 1] /\ told' = [told EXCEPT ![c] = told[c]]
    BY <1>3 DEF CallInv
  <2>3. /\ pc'[c] = "validate" /\ try'[c] = try[c] + 1 /\ at'[c] = n
        /\ told'[c] = "nothing"
    BY <1>2, <1>3 DEF CallInv
  <2>4. slot'[<<c, 1>>] = 0 /\ slot'[<<c, 2>>] = 0
    BY <1>1, <1>2 DEF Written
  <2>5. CallSound(c)'
    BY <1>1, <2>1, <2>3, <2>4 DEF CallSound, Written
  <2> QED
    BY <1>1, <1>3, <2>1, <2>2, <2>5, OneCallStep
<1>4. CASE Ends(c, "refused") /\ UNCHANGED try
  BY <1>1, <1>2, <1>4, EndsStep
<1> QED
  BY <1>3, <1>4 DEF FindLeader

\* A refusal comes before anything is written.
LEMMA RefusedStep ==
  ASSUME CallInv, NEW c \in Call, Refused(c), ~Written(c),
         UNCHANGED <<slot, base, mine, try>>
  PROVE  CallInv'
<1>1. CASE ~Retries(c)
  BY <1>1, EndsStep DEF Refused
<1>2. CASE Retries(c)
  <2>1. /\ pc' = [pc EXCEPT ![c] = "find"] /\ told' = [told EXCEPT ![c] = "nothing"]
        /\ try' = [try EXCEPT ![c] = 1] /\ at' = [at EXCEPT ![c] = Nil]
    BY <1>2 DEF Refused, TriesAgain, Retries, CallInv
  <2>2. "find" \in Places /\ "nothing" \in Outcomes /\ 1 \in 0..2
    BY DEF Places, Outcomes
  <2>3. /\ pc'[c] = "find" /\ told'[c] = "nothing" /\ try'[c] = 1 /\ at'[c] = Nil
        /\ slot'[<<c, 1>>] = 0 /\ slot'[<<c, 2>>] = 0
    BY <2>1 DEF CallInv, Written
  <2>4. CallSound(c)'
    BY <2>3 DEF CallSound, Written
  <2> QED
    BY <2>1, <2>2, <2>4, OneCallStep
<1> QED
  BY <1>1, <1>2

\* A connection breaks, with or without its handler.
LEMMA FailsStep == ASSUME CallInv, NEW c \in Call, Fails(c) PROVE CallInv'
<1>1. /\ at[c] # Nil /\ told[c] = "nothing" /\ UNCHANGED <<slot, base, mine, try>>
      /\ CallSound(c) /\ try[c] \in 0..2
  BY DEF CallInv, Fails, consensus
<1>2. CASE Ends(c, "failed")
  BY <1>1, <1>2, EndsStep
<1>3. CASE told' = [told EXCEPT ![c] = "failed"] /\ UNCHANGED <<pc, at>>
  <2>1. /\ pc' = [pc EXCEPT ![c] = pc[c]] /\ try' = [try EXCEPT ![c] = try[c]]
        /\ at' = [at EXCEPT ![c] = at[c]]
        /\ pc[c] \in Places /\ at[c] \in Node \cup {Nil} /\ "failed" \in Outcomes
    BY <1>1, <1>3 DEF CallInv, Outcomes
  <2>2. /\ told'[c] = "failed" /\ pc'[c] = pc[c] /\ at'[c] = at[c]
        /\ This(c)' = This(c) /\ (Written(c)' <=> Written(c))
    BY <1>1, <1>3 DEF CallInv, This, Written
  <2>3. CallSound(c)'
    BY <1>1, <2>2 DEF CallSound
  <2> QED
    BY <1>1, <1>3, <2>1, <2>3, OneCallStep
<1> QED
  BY <1>2, <1>3 DEF Fails

\* Validation refuses, or lets the call append.
LEMMA ValidateStep == ASSUME CallInv, NEW c \in Call, Validate(c) PROVE CallInv'
<1>1. /\ pc[c] = "validate" /\ UNCHANGED <<slot, base, mine, try>>
      /\ CallSound(c) /\ try[c] \in 0..2
  BY DEF CallInv, Validate, consensus
<1>2. ~Written(c) /\ at[c] \in Node /\ try[c] > 0
  BY <1>1 DEF CallSound
<1>3. Refused(c) \/ (pc' = [pc EXCEPT ![c] = "append"] /\ UNCHANGED <<told, at>>)
  BY DEF Validate
<1>4. CASE Refused(c)
  BY <1>1, <1>2, <1>4, RefusedStep
<1>5. CASE pc' = [pc EXCEPT ![c] = "append"] /\ UNCHANGED <<told, at>>
  <2>1. /\ told' = [told EXCEPT ![c] = told[c]] /\ try' = [try EXCEPT ![c] = try[c]]
        /\ at' = [at EXCEPT ![c] = at[c]] /\ "append" \in Places
        /\ told[c] \in Outcomes
    BY <1>1, <1>5 DEF CallInv, Places
  <2>2. pc'[c] = "append" /\ This(c)' = This(c) /\ (Written(c)' <=> Written(c))
    BY <1>1, <1>5 DEF CallInv, This, Written
  <2>3. CallSound(c)'
    BY <1>1, <1>2, <1>5, <2>2 DEF CallSound
  <2> QED
    BY <1>1, <1>2, <1>5, <2>1, <2>3, OneCallStep
<1> QED
  BY <1>3, <1>4, <1>5

\* The one step that writes: for the current attempt, and once.
LEMMA AppendEntryStep == ASSUME CallInv, NEW c \in Call, AppendEntry(c) PROVE CallInv'
<1>1. pc[c] = "append" /\ UNCHANGED <<base, try>> /\ CallSound(c)
  BY DEF CallInv, AppendEntry
<1>2. ~Written(c) /\ at[c] \in Node /\ try[c] > 0 /\ told[c] \notin {"success", "refused"}
  BY <1>1 DEF CallSound
<1>3. CASE Refused(c) /\ UNCHANGED <<slot, mine>>
  BY <1>1, <1>2, <1>3, RefusedStep
<1>4. CASE /\ slot' = [slot EXCEPT ![This(c)] = base[at[c]] + Len(mine[at[c]]) + 1]
           /\ mine' = [mine EXCEPT ![at[c]] = Append(@, This(c))]
           /\ pc' = [pc EXCEPT ![c] = "waiting"]
           /\ UNCHANGED <<told, at>>
  <2>1. try[c] \in {1, 2} /\ This(c) \in Entry
    <3>1. try[c] \in 0..2
      BY DEF CallInv
    <3>2. try[c] \in {1, 2}
      BY <1>2, <3>1
    <3> QED
      BY <3>2 DEF This, Entry
  <2>2. base[at[c]] \in Nat /\ mine[at[c]] \in Seq(Entry)
    BY <1>2 DEF CallInv
  <2>3. slot' \in [Entry -> Nat] /\ mine' \in [Node -> Seq(Entry)]
    BY <1>2, <1>4, <2>1, <2>2 DEF CallInv
  <2>4. pc' \in [Call -> Places]
    BY <1>4 DEF CallInv, Places
  <2>5. ASSUME NEW d \in Call PROVE CallSound(d)'
    <3>1. pc'[d] = IF d = c THEN "waiting" ELSE pc[d]
      BY <1>4 DEF CallInv
    <3>2. told'[d] = told[d] /\ at'[d] = at[d] /\ try'[d] = try[d]
      BY <1>1, <1>4
    <3>3. CASE d # c
      <4>1. /\ slot'[<<d, 1>>] = slot[<<d, 1>>] /\ slot'[<<d, 2>>] = slot[<<d, 2>>]
            /\ slot'[This(d)] = slot[This(d)]
        BY <1>4, <2>1, <3>3, AttemptIsEntry DEF CallInv, This
      <4>2. CallSound(d) /\ try[d] \in 0..2
        BY DEF CallInv
      <4> QED
        BY <3>1, <3>2, <3>3, <4>1, <4>2, UntouchedCall
    <3>4. CASE d = c
      <4>1. This(c)' = This(c)
        BY <1>1 DEF This
      <4>2. slot'[This(c)] = base[at[c]] + Len(mine[at[c]]) + 1
        BY <1>4, <2>1 DEF CallInv
      <4>3. slot'[This(c)] # 0
        <5>1. Len(mine[at[c]]) \in Nat
          BY <2>2
        <5> QED
          BY <2>2, <4>2, <5>1
      <4>4. /\ try[c] = 2 => slot'[<<c, 1>>] = slot[<<c, 1>>]
            /\ try[c] < 2 => slot'[<<c, 2>>] = slot[<<c, 2>>]
        BY <1>4, <2>1, AttemptIsEntry DEF CallInv, This
      <4> QED
        BY <1>1, <1>2, <3>1, <3>2, <3>4, <4>1, <4>3, <4>4 DEF CallSound, Written
    <3> QED
      BY <3>3, <3>4
  <2> QED
    BY <1>1, <1>4, <2>3, <2>4, <2>5 DEF CallInv
<1> QED
  BY <1>3, <1>4 DEF AppendEntry

\* An answer ends the call.
LEMMA AnswerStep == ASSUME CallInv, NEW c \in Call, Answer(c) PROVE CallInv'
BY EndsStep DEF Answer, consensus

\* Reads, executions and what is chosen leave calls alone.
LEMMA OtherStep ==
  ASSUME CallInv, UNCHANGED <<slot, base, mine, pc, told, try, at>> PROVE CallInv'
BY DEF CallInv, CallSound, Written, This

\* A step of a call, action by action.
LEMMA CallStep == CallInv /\ [Next]_vars => CallInv'
<1> SUFFICES ASSUME CallInv, [Next]_vars PROVE CallInv'
  OBVIOUS
<1>1. ASSUME NEW n \in Node, Execute(n) \/ Query(n) PROVE CallInv'
  BY <1>1, OtherStep DEF Execute, Query, consensus, client
<1>2. ASSUME NEW e \in Entry, Choose(e) PROVE CallInv'
  BY <1>2, OtherStep DEF Choose, client
<1>3. CASE UNCHANGED vars
  BY <1>3, OtherStep DEF vars, consensus, client
<1> QED
  BY <1>1, <1>2, <1>3, ConsensusStep, CrashStep, FindLeaderStep, FailsStep,
     ValidateStep, AppendEntryStep, AnswerStep DEF Next

\* Across retries, changes of leader, broken connections and crashes, a call
\* never puts two entries into the log: one if its caller was told success,
\* none if it was told why it was refused.  Of a call that failed, by its
\* connection or by a timeout, only the former is known.
THEOREM CallsWriteOnce == Spec => []CallWritesOnce
<1>1. CallInv => CallWritesOnce
  BY DEF CallInv, CallSound, CallWritesOnce, Written
<1> QED
  BY <1>1, CallStart, CallStep, PTL DEF Spec

(***************************************************************************)
(* Types, and the databases that follow the log.                           *)
(***************************************************************************)
\* What CallInv leaves out of the type invariant.
DataType ==
    /\ chosen \in Seq(Entry)
    /\ leads \in [Node -> BOOLEAN] /\ strayed \in [Node -> BOOLEAN]
    /\ executed \in [Node -> 0..Len(chosen)]
    /\ database \in [Node -> Databases(Item)]
    /\ work \in [Call -> Work]
    /\ seen \in [Entry -> Nat \cup {Nil}]
    /\ reigns \in 0..MaxReigns /\ crashes \in 0..MaxCrashes

\* What the first k entries make.
Made(k) == After(work, SubSeq(chosen, 1, k))

\* A node that nothing else has touched has executed the log.
Follows == \A n \in Node : ~strayed[n] => database[n] = Made(executed[n])

\* What every step keeps of calls, types and databases.
DataInv == CallInv /\ DataType /\ Follows

\* What is validated and what is put into the log is SQL.
LEMMA EntryText ==
  ASSUME work \in [Call -> Work], NEW e \in Entry
  PROVE  /\ PayloadOf(e) \in Seq(Statement) /\ DOMAIN PayloadOf(e) = 1..Len(PayloadOf(e))
         /\ work[e[1]].statements \in Seq(Seq(Statement))
<1>1. work[e[1]] \in Work
  BY DEF Entry
<1>2. PayloadOf(e) \in Seq(Statement)
  BY <1>1, PayloadType DEF PayloadOf
<1> QED
  BY <1>1, <1>2, SqlAssumption

\* One entry more.
LEMMA ReplayStep ==
  ASSUME work \in [Call -> Work], chosen \in Seq(Entry), NEW i \in 1..Len(chosen)
  PROVE  /\ Made(i) = execute_write(Made(i - 1), PayloadOf(chosen[i]), Nil).file
         /\ Made(i - 1) \in Databases(AnyItem)
<1> DEFINE s == SubSeq(chosen, 1, i - 1)
<1>1. s \in Seq(Entry) /\ chosen[i] \in Entry
  OBVIOUS
<1>2. SubSeq(chosen, 1, i) = Append(s, chosen[i])
  OBVIOUS
<1> HIDE DEF s
<1>3. After(work, Append(s, chosen[i])) = Rewrite(After(work, s), work, chosen[i])
  BY <1>1, ReplayNext
<1>4. Made(i) = After(work, Append(s, chosen[i])) /\ Made(i - 1) = After(work, s)
  BY <1>2 DEF s, Made
<1>5. After(work, s) \in Databases(AnyItem)
  <2>1. PICK D \in [0..Len(s) -> Databases(AnyItem)] :
           IsReplay(D, work, s) /\ After(work, s) = D[Len(s)]
    BY <1>1, ReplayRun
  <2>2. Len(s) \in 0..Len(s)
    BY <1>1
  <2> QED
    BY <2>1, <2>2
<1> QED
  BY <1>3, <1>4, <1>5 DEF Rewrite, PayloadOf

\* Nothing makes an empty database.
LEMMA ReplayNothing ==
  ASSUME work \in [Call -> Work], chosen = <<>>
  PROVE  Made(0) = {}
<1>1. SubSeq(chosen, 1, 0) = <<>> /\ <<>> \in Seq(Entry) /\ Len(<<>>) = 0
  OBVIOUS
<1>2. PICK D \in [0..0 -> Databases(AnyItem)] :
         IsReplay(D, work, <<>>) /\ After(work, <<>>) = D[0]
  BY <1>1, ReplayRun
<1> QED
  BY <1>1, <1>2 DEF IsReplay, Made

\* At the start every database is empty and nothing is chosen.
LEMMA DataStart == Init => DataInv
<1> SUFFICES ASSUME Init PROVE DataInv
  OBVIOUS
<1>1. DataType
  BY SqlAssumption DEF Init, DataType, Databases, Entry
<1>2. Follows
  BY <1>1, ReplayNothing DEF Init, Follows, DataType
<1> QED
  BY <1>1, <1>2, CallStart DEF DataInv

\* Elections, the log and the calls leave the databases to themselves.
LEMMA DataIdle ==
  ASSUME Follows, UNCHANGED <<chosen, work, data>>
  PROVE  Follows'
BY DEF Follows, Made, data

\* A longer log changes nothing for who has executed the beginning of it.
LEMMA ChooseKeepsData ==
  ASSUME DataInv, NEW e \in Entry, Choose(e)
  PROVE  DataType' /\ Follows'
<1>1. /\ chosen' = Append(chosen, e) /\ work' = work
      /\ UNCHANGED <<leads, strayed, executed, database, seen, reigns, crashes>>
  BY DEF Choose, client, data
<1>2. chosen \in Seq(Entry) /\ work \in [Call -> Work] /\ executed \in [Node -> 0..Len(chosen)]
  BY DEF DataInv, DataType
<1>3. chosen' \in Seq(Entry) /\ Len(chosen') = Len(chosen) + 1 /\ Len(chosen) \in Nat
  BY <1>1, <1>2
<1>4. executed' \in [Node -> 0..Len(chosen')]
  BY <1>1, <1>2, <1>3
<1>5. DataType'
  BY <1>1, <1>3, <1>4 DEF DataInv, DataType
<1>6. ASSUME NEW n \in Node, ~strayed'[n] PROVE (database[n] = Made(executed[n]))'
  <2> DEFINE k == executed[n]
  <2>1. database[n] = Made(k) /\ k \in 0..Len(chosen)
    BY <1>1, <1>2, <1>6 DEF DataInv, Follows
  <2>2. SubSeq(Append(chosen, e), 1, k) = SubSeq(chosen, 1, k)
    BY <1>2, <2>1
  <2> QED
    BY <1>1, <2>1, <2>2 DEF Made
<1> QED
  BY <1>5, <1>6 DEF Follows

\* An entry that says the same on every node does the same on every node.
LEMMA ExecuteKeepsData ==
  ASSUME DataInv, NEW n \in Node, Execute(n)
  PROVE  DataType' /\ Follows'
<1> DEFINE i == executed[n] + 1
           e == chosen[i]
<1>1. /\ chosen \in Seq(Entry) /\ work \in [Call -> Work] /\ executed[n] \in 0..Len(chosen)
      /\ executed \in [Node -> 0..Len(chosen)]
      /\ database \in [Node -> Databases(Item)] /\ strayed \in [Node -> BOOLEAN]
      /\ UNCHANGED <<chosen, work, leads, seen, reigns, crashes>>
  BY DEF DataInv, DataType, Execute, consensus, client
<1>2. i \in 1..Len(chosen) /\ i - 1 = executed[n] /\ e \in Entry
  BY <1>1 DEF Execute, Knows
<1> HIDE DEF i, e
<1>3. PICK r \in Item :
         database' = [database EXCEPT ![n] = execute_write(@, PayloadOf(e), r).file]
  BY DEF Execute, i, e
<1>4. executed' = [executed EXCEPT ![n] = i]
  BY DEF Execute, i
<1>5. strayed' = [strayed EXCEPT ![n] = @ \/ Guesses(e)]
  BY DEF Execute, i, e
<1>6. execute_write(database[n], PayloadOf(e), r) \in Conn(Item)
  BY <1>1, <1>2, EntryText, WriteType
<1>7. DataType'
  <2>1. database' \in [Node -> Databases(Item)]
    <3>1. execute_write(database[n], PayloadOf(e), r).file \in Databases(Item)
      BY <1>6 DEF Conn, Databases
    <3> QED
      BY <1>1, <1>3, <3>1
  <2>2. executed' \in [Node -> 0..Len(chosen')]
    BY <1>1, <1>2, <1>4
  <2>3. strayed' \in [Node -> BOOLEAN]
    BY <1>1, <1>5 DEF Guesses
  <2> QED
    BY <1>1, <2>1, <2>2, <2>3 DEF DataInv, DataType
<1>8. \A m \in Node : Made(executed[m])' = After(work, SubSeq(chosen, 1, executed'[m]))
  BY <1>1 DEF Made
<1>9. ASSUME NEW m \in Node, ~strayed'[m] PROVE database'[m] = Made(executed'[m])
  <2>1. CASE m # n
    BY <1>1, <1>3, <1>4, <1>5, <1>9, <2>1 DEF DataInv, Follows
  <2>2. CASE m = n
    <3>1. ~strayed[n] /\ ~Guesses(e)
      BY <1>1, <1>5, <1>9, <2>2
    <3>2. database[n] = Made(i - 1)
      BY <1>2, <3>1 DEF DataInv, Follows
    <3>3. Made(i) = execute_write(Made(i - 1), PayloadOf(e), Nil).file
      BY <1>1, <1>2, ReplayStep DEF e
    <3>4. \A j \in 1..Len(PayloadOf(e)) : PayloadOf(e)[j].op # "random"
      BY <1>1, <1>2, <3>1, EntryText DEF Guesses
    <3>5. /\ Item \subseteq AnyItem /\ r \in AnyItem /\ Nil \in AnyItem
          /\ database[n] \in Databases(AnyItem)
      BY <1>1 DEF AnyItem, Databases
    <3>6. execute_write(database[n], PayloadOf(e), r)
            = execute_write(database[n], PayloadOf(e), Nil)
      <4> DEFINE b == PayloadOf(e)
      <4>1. b \in Seq(Statement) /\ \A j \in 1..Len(b) : b[j].op # "random"
        BY <1>1, <1>2, <3>4, EntryText
      <4> HIDE DEF b
      <4>2. execute_write(database[n], b, r) = execute_write(database[n], b, Nil)
        BY <3>5, <4>1, WriteAlike
      <4> QED
        BY <4>2 DEF b
    <3> QED
      BY <1>1, <1>3, <1>4, <2>2, <3>2, <3>3, <3>6
  <2> QED
    BY <2>1, <2>2
<1>10. Follows'
  BY <1>8, <1>9 DEF Follows, Made
<1> QED
  BY <1>7, <1>10

\* A node that is written to past the log strays.
LEMMA QueryKeepsData ==
  ASSUME DataInv, NEW n \in Node, Query(n)
  PROVE  DataType' /\ Follows'
<1>1. /\ chosen \in Seq(Entry) /\ work \in [Call -> Work]
      /\ database \in [Node -> Databases(Item)] /\ strayed \in [Node -> BOOLEAN]
      /\ UNCHANGED <<chosen, work, executed, leads, seen, reigns, crashes>>
  BY DEF DataInv, DataType, Query, consensus, client
<1>2. PICK s \in Adhoc, r \in Item :
         database' = [database EXCEPT ![n] = execute_write(database[n], <<s>>, r).file]
  BY DEF Query
<1>3. strayed' = [strayed EXCEPT ![n] = TRUE]
  BY DEF Query
<1>4. <<s>> \in Seq(Statement)
  BY SqlAssumption
<1>5. execute_write(database[n], <<s>>, r) \in Conn(Item)
  BY <1>1, <1>4, WriteType
<1>6. DataType'
  <2>1. execute_write(database[n], <<s>>, r).file \in Databases(Item)
    BY <1>5 DEF Conn, Databases
  <2>2. database' \in [Node -> Databases(Item)]
    BY <1>1, <1>2, <2>1
  <2> QED
    BY <1>1, <1>3, <2>2 DEF DataInv, DataType
<1>7. \A m \in Node : Made(executed[m])' = After(work, SubSeq(chosen, 1, executed'[m]))
  BY <1>1 DEF Made
<1> QED
  BY <1>1, <1>2, <1>3, <1>6, <1>7 DEF DataInv, Follows, Made

\* A validation leaves what it found, or strays.
LEMMA ValidateKeepsData ==
  ASSUME DataInv, NEW c \in Call, Validate(c)
  PROVE  DataType' /\ Follows'
<1> DEFINE n == at[c]
           batches == work[c].statements
<1>1. /\ chosen \in Seq(Entry) /\ work \in [Call -> Work] /\ executed \in [Node -> 0..Len(chosen)]
      /\ database \in [Node -> Databases(Item)] /\ strayed \in [Node -> BOOLEAN]
      /\ seen \in [Entry -> Nat \cup {Nil}]
      /\ UNCHANGED <<chosen, work, executed, leads, reigns, crashes>>
  BY DEF DataInv, DataType, Validate, consensus
<1>2. n \in Node /\ batches \in Seq(Seq(Statement)) /\ executed[n] \in Nat
  <2>1. n \in Node
    BY DEF DataInv, CallInv, CallSound, Validate
  <2>2. work[c] \in Work
    BY <1>1
  <2>3. batches \in Seq(Seq(Statement))
    BY <2>2, SqlAssumption
  <2>4. executed[n] \in 0..Len(chosen)
    BY <1>1, <2>1
  <2> QED
    BY <1>1, <2>1, <2>3, <2>4
<1> HIDE DEF n, batches
<1>3. PICK r \in Item :
         LET v == Validated(database[n], batches, r)
         IN  /\ database' = [database EXCEPT ![n] = v.file]
             /\ strayed' = [strayed EXCEPT
                  ![n] = @ \/ (v.file # database[n] /\ Commits(batches))]
             /\ \/ UNCHANGED seen
                \/ seen' = [seen EXCEPT
                        ![This(c)] = IF strayed[n] THEN Nil ELSE executed[n]]
  BY DEF Validate, n, batches
<1> DEFINE v == Validated(database[n], batches, r)
<1>4. v \in Verdict(Item) /\ (~Commits(batches) => v.file = database[n])
  BY <1>1, <1>2, ValidatedType
<1> HIDE DEF v
<1>5. /\ database' = [database EXCEPT ![n] = v.file]
      /\ strayed' = [strayed EXCEPT ![n] = @ \/ (v.file # database[n] /\ Commits(batches))]
      /\ seen' \in [Entry -> Nat \cup {Nil}]
  BY <1>1, <1>2, <1>3 DEF v
<1>6. DataType'
  <2>1. v.file \in Databases(Item)
    BY <1>4 DEF Verdict
  <2>2. database' \in [Node -> Databases(Item)]
    BY <1>1, <1>5, <2>1
  <2>3. strayed' \in [Node -> BOOLEAN]
    BY <1>1, <1>5 DEF Commits
  <2> QED
    BY <1>1, <1>5, <2>2, <2>3 DEF DataInv, DataType
<1>7. \A m \in Node : Made(executed[m])' = After(work, SubSeq(chosen, 1, executed'[m]))
  BY <1>1 DEF Made
<1>8. ASSUME NEW m \in Node, ~strayed'[m] PROVE database'[m] = Made(executed[m])
  <2>1. CASE m # n
    BY <1>1, <1>5, <1>8, <2>1 DEF DataInv, Follows
  <2>2. CASE m = n
    <3>1. ~strayed[n] /\ v.file = database[n]
      BY <1>1, <1>2, <1>4, <1>5, <1>8, <2>2
    <3> QED
      BY <1>1, <1>2, <1>5, <2>2, <3>1 DEF DataInv, Follows
  <2> QED
    BY <2>1, <2>2
<1> QED
  BY <1>1, <1>6, <1>7, <1>8 DEF Follows, Made

\* A restart skips entries, and then strays, or changes nothing.
LEMMA CrashKeepsData ==
  ASSUME DataInv, NEW n \in Node, Crash(n)
  PROVE  DataType' /\ Follows'
<1>1. /\ chosen \in Seq(Entry) /\ executed \in [Node -> 0..Len(chosen)]
      /\ strayed \in [Node -> BOOLEAN] /\ leads \in [Node -> BOOLEAN]
      /\ UNCHANGED <<chosen, work, database, seen, reigns>>
      /\ leads' = [leads EXCEPT ![n] = FALSE]
  BY DEF DataInv, DataType, Crash, Deposed
<1>2. crashes' \in 0..MaxCrashes
  BY SqlAssumption DEF DataInv, DataType, Crash
<1>3. PICK i \in executed[n]..Len(chosen) :
         /\ executed' = [executed EXCEPT ![n] = i]
         /\ strayed' = [strayed EXCEPT ![n] = @ \/ i > executed[n]]
  BY DEF Crash
<1>4. executed[n] \in Nat /\ i \in 0..Len(chosen)
  BY <1>1
<1>5. DataType'
  BY <1>1, <1>2, <1>3, <1>4 DEF DataInv, DataType
<1>6. \A m \in Node : Made(executed[m])' = After(work, SubSeq(chosen, 1, executed'[m]))
  BY <1>1 DEF Made
<1>7. ASSUME NEW m \in Node, ~strayed'[m] PROVE ~strayed[m] /\ executed'[m] = executed[m]
  <2>1. CASE m # n
    BY <1>1, <1>3, <1>7, <2>1
  <2>2. CASE m = n
    <3>1. ~(strayed[n] \/ i > executed[n])
      BY <1>1, <1>3, <1>7, <2>2
    <3>2. i = executed[n]
      BY <1>4, <3>1
    <3> QED
      BY <1>1, <1>3, <2>2, <3>1, <3>2
  <2> QED
    BY <2>1, <2>2
<1> QED
  BY <1>1, <1>5, <1>6, <1>7 DEF DataInv, Follows, Made

\* Every step keeps types, and databases that follow the log.
LEMMA DataStep == DataInv /\ [Next]_vars => DataInv'
<1> SUFFICES ASSUME DataInv, [Next]_vars PROVE DataInv'
  OBVIOUS
<1>1. CallInv'
  BY CallStep DEF DataInv
<1> SUFFICES DataType' /\ Follows'
  BY <1>1 DEF DataInv
<1>2. ASSUME NEW n \in Node, BecomeLeader(n) PROVE DataType' /\ Follows'
  <2>1. UNCHANGED <<chosen, work, data, seen, crashes>>
    BY <1>2 DEF BecomeLeader, client
  <2>2. reigns' \in 0..MaxReigns
    BY <1>2, SqlAssumption DEF BecomeLeader, DataInv, DataType
  <2>3. leads' \in [Node -> BOOLEAN]
    BY <1>2 DEF BecomeLeader, DataInv, DataType
  <2> QED
    BY <2>1, <2>2, <2>3, DataIdle DEF DataInv, DataType, data
<1>3. ASSUME NEW n \in Node, StepDown(n) PROVE DataType' /\ Follows'
  <2>1. UNCHANGED <<chosen, work, data, seen, crashes, reigns>>
    BY <1>3 DEF StepDown, client
  <2>2. leads' \in [Node -> BOOLEAN]
    BY <1>3 DEF StepDown, Deposed, DataInv, DataType
  <2> QED
    BY <2>1, <2>2, DataIdle DEF DataInv, DataType, data
<1>4. ASSUME NEW c \in Call, FindLeader(c) \/ Fails(c) \/ AppendEntry(c) \/ Answer(c)
      PROVE  DataType' /\ Follows'
  <2>1. UNCHANGED <<chosen, leads, work, data, seen, crashes, reigns>>
    BY <1>4 DEF FindLeader, Fails, AppendEntry, Answer, consensus
  <2> QED
    BY <2>1, DataIdle DEF DataInv, DataType, data
<1>5. CASE UNCHANGED vars
  <2>1. UNCHANGED <<chosen, leads, work, data, seen, crashes, reigns>>
    BY <1>5 DEF vars, consensus, client
  <2> QED
    BY <2>1, DataIdle DEF DataInv, DataType, data
<1> QED
  BY <1>2, <1>3, <1>4, <1>5, ChooseKeepsData, ExecuteKeepsData, QueryKeepsData,
     ValidateKeepsData, CrashKeepsData DEF Next

\* Every variable keeps its shape, and no node is ahead of the log, also when
\* a restart skips entries.
THEOREM SqlTypeCorrect == Spec => []SqlTypeOK
<1>1. DataInv => SqlTypeOK
  BY DEF DataInv, CallInv, Places, Outcomes, DataType, SqlTypeOK, Databases
<1> QED
  BY <1>1, DataStart, DataStep, PTL DEF Spec

\* Replicas at the same index agree unless they strayed.
THEOREM DatabaseFollowsTheLog == Spec => []DatabaseFollowsLog
<1>1. DataInv => DatabaseFollowsLog
  BY DEF DataInv, Follows, Made, DatabaseFollowsLog, Replay, After, Rewrite, PayloadOf
<1> QED
  BY <1>1, DataStart, DataStep, PTL DEF Spec

(***************************************************************************)
(* A transaction takes effect as a whole or not at all.                    *)
(***************************************************************************)
\* What can be heard of b is plain.
Decent(b) == \A j \in 1..Len(b) : (\A k \in 1..j : b[k].op # "comment") => b[j].op \in Plain

\* What passes validation is decent.
LEMMA ValidIsDecent ==
  ASSUME NEW I, Item \subseteq I, NEW db \in Databases(I), NEW b \in Seq(Statement),
         NEW r \in I, validate_sql(db, b, r).ok
  PROVE  Decent(b)
<1>1. \A i \in 1..Len(Heard(b)) : b[i].op \in Plain
  BY ValidMeans
<1>2. ASSUME NEW j \in 1..Len(b), \A k \in 1..j : b[k].op # "comment"
      PROVE  j \in 1..Len(Heard(b))
  <2>1. Len(Heard(b)) \in Nat
    BY HeardType
  <2>2. CASE Len(Heard(b)) = Len(b)
    BY <2>2
  <2>3. CASE b[Len(Heard(b)) + 1].op = "comment" /\ Len(Heard(b)) + 1 \in 1..Len(b)
    <3>1. Len(Heard(b)) + 1 \notin 1..j
      BY <1>2, <2>3
    <3> QED
      BY <2>1, <3>1
  <2> QED
    BY <2>2, <2>3, HeardType
<1> QED
  BY <1>1, <1>2 DEF Decent

\* What is joined of decent batches is decent: a comment in the first hides the
\* rest.
LEMMA JoinIsDecent ==
  ASSUME NEW a \in Seq(Statement), NEW b \in Seq(Statement), Decent(a), Decent(b)
  PROVE  Decent(a \o b)
<1> DEFINE c == a \o b
<1>1. /\ Len(a) \in Nat /\ Len(b) \in Nat /\ Len(c) = Len(a) + Len(b)
      /\ \A i \in 1..Len(a) : c[i] = a[i]
      /\ \A i \in 1..Len(b) : c[Len(a) + i] = b[i]
  OBVIOUS
<1> SUFFICES ASSUME NEW j \in 1..Len(c), \A k \in 1..j : c[k].op # "comment"
             PROVE  c[j].op \in Plain
  BY DEF Decent
<1> HIDE DEF c
<1>2. CASE j <= Len(a)
  <2>1. j \in 1..Len(a) /\ \A k \in 1..j : k \in 1..Len(a) /\ c[k] = a[k]
    BY <1>1, <1>2
  <2> QED
    BY <2>1 DEF Decent
<1>3. CASE j > Len(a)
  <2> DEFINE i == j - Len(a)
  <2>1. i \in 1..Len(b) /\ j = Len(a) + i
    BY <1>1, <1>3
  <2> HIDE DEF i
  <2>2. ASSUME NEW k \in 1..i PROVE b[k].op # "comment"
    <3>1. k \in 1..Len(b) /\ Len(a) + k \in 1..j
      BY <1>1, <2>1
    <3> QED
      BY <1>1, <3>1
  <2>3. b[i].op \in Plain
    BY <2>1, <2>2 DEF Decent
  <2> QED
    BY <1>1, <2>1, <2>3
<1> QED
  BY <1>1, <1>2, <1>3

\* So is what is joined of any number of them.
LEMMA FlatIsDecent ==
  ASSUME NEW ss \in Seq(Seq(Statement)), Len(ss) > 0, \A i \in 1..Len(ss) : Decent(ss[i])
  PROVE  Decent(FlattenSeq(ss))
<1> DEFINE m == Len(ss)
<1>0. m \in Nat /\ m > 0 /\ m \in 0..m /\ \A i \in 1..m : ss[i] \in Seq(Statement)
  OBVIOUS
<1>1. PICK g \in [1..m -> Seq(Statement)] : IsJoined(g, ss) /\ FlattenSeq(ss) = g[m]
  BY FlattenRun
<1> DEFINE P == {i \in 0..m : i = 0 \/ Decent(g[i])}
<1>2. 0 \in P
  BY <1>0
<1>3. ASSUME NEW i \in 1..m, i - 1 \in P PROVE i \in P
  <2>1. i \in 0..m /\ ss[i] \in Seq(Statement) /\ Decent(ss[i])
    BY <1>0
  <2>2. g[i] = IF i = 1 THEN ss[i] ELSE g[i - 1] \o ss[i]
    BY <1>1 DEF IsJoined
  <2>3. CASE i = 1
    BY <2>1, <2>2, <2>3
  <2>4. CASE i # 1
    <3>1. i - 1 \in 1..m /\ i - 1 # 0
      BY <1>0, <2>4
    <3>2. Decent(g[i - 1]) /\ g[i - 1] \in Seq(Statement)
      BY <1>3, <3>1
    <3>3. Decent(g[i - 1] \o ss[i])
      BY <2>1, <3>2, JoinIsDecent
    <3> QED
      BY <2>1, <2>2, <2>4, <3>3
  <2> QED
    BY <2>3, <2>4
<1> HIDE DEF P, m
<1>4. \A i \in 0..m : i \in P
  BY <1>0, <1>2, <1>3, Climb
<1>5. m \in P
  BY <1>0, <1>4
<1>6. Decent(g[m])
  BY <1>0, <1>5 DEF P
<1> QED
  BY <1>1, <1>6

\* The text of a transaction.
Wrapped(b) == <<[op |-> "begin"]>> \o b \o <<[op |-> "commit"]>>

\* Where the statements of a transaction stand in its text.
LEMMA WrappedIs ==
  ASSUME NEW b \in Seq(Statement)
  PROVE  /\ Wrapped(b) \in Seq(Statement) /\ Len(Wrapped(b)) = Len(b) + 2
         /\ Wrapped(b)[1] = [op |-> "begin"]
         /\ Wrapped(b)[Len(b) + 2] = [op |-> "commit"]
         /\ \A i \in 1..Len(b) : Wrapped(b)[i + 1] = b[i]
<1> DEFINE s == [op |-> "begin"]
           t == [op |-> "commit"]
           a == <<s>> \o b
<1>1. s \in Statement /\ t \in Statement
  BY DEF Statement
<1> HIDE DEF s, t
<1>2. /\ a \in Seq(Statement) /\ Len(a) = Len(b) + 1 /\ Len(b) \in Nat
      /\ a[1] = s /\ \A i \in 1..Len(b) : a[i + 1] = b[i]
  BY <1>1
<1> HIDE DEF a
<1> DEFINE c == a \o <<t>>
<1>3. /\ c \in Seq(Statement) /\ Len(c) = Len(b) + 2
      /\ c[1] = s /\ c[Len(b) + 2] = t /\ \A i \in 1..Len(b) : c[i + 1] = b[i]
  BY <1>1, <1>2
<1> HIDE DEF c
<1>4. Wrapped(b) = c
  BY DEF Wrapped, c, a, s, t
<1> QED
  BY <1>3, <1>4 DEF s, t

\* After BEGIN, the file stays as it was until a COMMIT.
LEMMA BegunRun ==
  ASSUME NEW I, NEW db \in Databases(I), NEW b \in Seq(Statement), NEW r \in I,
         NEW F \in [0..Len(b) -> Conn(I)], IsRun(F, Opened(db), b, r),
         NEW n \in 0..Len(b), n > 0 => b[1].op = "begin",
         \A i \in 1..n : b[i].op # "commit"
  PROVE  \A i \in 0..n : F[i].file = db /\ (i > 0 => F[i].open)
<1> DEFINE P == {i \in 0..n : F[i].file = db /\ (i > 0 => F[i].open)}
<1>0. F[0] = Opened(db) /\ n \in Nat
  BY DEF IsRun
<1>1. 0 \in P
  <2>1. F[0].file = db /\ 0 \in 0..n
    BY <1>0 DEF Opened
  <2> QED
    BY <2>1
<1>2. ASSUME NEW i \in 1..n, i - 1 \in P PROVE i \in P
  <2>1. /\ F[i] = RunStatement(F[i - 1], b[i], r) /\ F[i - 1] \in Conn(I)
        /\ F[i - 1].file = db /\ b[i].op # "commit" /\ i \in 0..n
    BY <1>2 DEF IsRun
  <2>2. CASE i = 1
    <3>1. F[i - 1] = Opened(db) /\ b[i].op = "begin"
      BY <1>0, <2>2
    <3>2. RunStatement(Opened(db), b[i], r).open /\ RunStatement(Opened(db), b[i], r).file = db
      BY <3>1 DEF RunStatement, Succeeds, Opened
    <3> QED
      BY <2>1, <3>1, <3>2
  <2>3. CASE i # 1
    <3>1. F[i - 1].open
      BY <1>2, <2>3
    <3>2. /\ RunStatement(F[i - 1], b[i], r).open
          /\ RunStatement(F[i - 1], b[i], r).file = db
      BY <2>1, <3>1 DEF RunStatement, Conn
    <3> QED
      BY <2>1, <3>2
  <2> QED
    BY <2>2, <2>3
<1> HIDE DEF P
<1>3. \A i \in 0..n : i \in P
  BY <1>0, <1>1, <1>2, Climb
<1> QED
  BY <1>3 DEF P

\* Every statement of b succeeded, and the COMMIT stored what they made.
IsWholeRun(F, db, b, r) ==
    /\ IsRun(F, Opened(db), Wrapped(b), r)
    /\ \A i \in 1..(Len(b) + 2) : F[i - 1].ok /\ Succeeds(F[i - 1], Wrapped(b)[i])
    /\ execute_write(db, Wrapped(b), r).file = F[Len(b) + 1].items
    /\ \A i \in 1..Len(b) : b[i].op \in Plain

\* The whole of a decent transaction succeeded if it left anything.
LEMMA TransactionRun ==
  ASSUME NEW I, Item \subseteq I, NEW db \in Databases(I), NEW b \in Seq(Statement),
         NEW r \in I, Decent(b), execute_write(db, Wrapped(b), r).file # db
  PROVE  \E F \in [0..(Len(b) + 2) -> Conn(I)] : IsWholeRun(F, db, b, r)
<1> DEFINE p == Wrapped(b)
           h == Heard(p)
           n == Len(h)
<1>1. /\ Len(b) \in Nat /\ p \in Seq(Statement) /\ Len(p) = Len(b) + 2
      /\ p[1] = [op |-> "begin"] /\ p[Len(b) + 2] = [op |-> "commit"]
      /\ \A i \in 1..Len(b) : p[i + 1] = b[i]
  <2>1. Len(b) \in Nat
    OBVIOUS
  <2> QED
    BY <2>1, WrappedIs
<1> HIDE DEF p
<1>2. h \in Seq(Statement) /\ n \in Nat /\ n <= Len(p) /\ n \in 0..n
  BY <1>1, HeardType
<1>3. \A i \in 1..n : h[i] = p[i] /\ p[i].op # "comment"
  BY <1>1, HeardType
<1>4. n = Len(p) \/ (p[n + 1].op = "comment" /\ n + 1 \in 1..Len(p))
  BY <1>1, HeardType
<1> HIDE DEF h
<1>5. Opened(db) \in Conn(I)
  BY OpenedType
<1>6. PICK F \in [0..n -> Conn(I)] : IsRun(F, Opened(db), h, r) /\ Fold(Opened(db), h, r) = F[n]
  BY <1>2, <1>5, FoldRun
<1>7. execute_write(db, p, r) = F[n]
  BY <1>6, BatchRun DEF execute_write, h
<1>8. ASSUME NEW i \in 1..n, i # Len(p), i # 1 PROVE i - 1 \in 1..Len(b) /\ h[i].op \in Plain
  <2> DEFINE j == i - 1
  <2>1. j \in 1..Len(b) /\ j + 1 = i
    BY <1>1, <1>2, <1>8
  <2> HIDE DEF j
  <2>2. ASSUME NEW k \in 1..j PROVE b[k].op # "comment"
    <3>1. k \in 1..Len(b) /\ k + 1 \in 1..n
      BY <1>1, <1>2, <2>1
    <3> QED
      BY <1>1, <1>3, <3>1
  <2>3. b[j].op \in Plain
    BY <2>1, <2>2 DEF Decent
  <2> QED
    BY <1>1, <1>3, <2>1, <2>3 DEF j
<1>9. ASSUME NEW i \in 1..n, i # Len(p) PROVE h[i].op # "commit"
  <2>1. CASE i = 1
    BY <1>1, <1>3, <2>1
  <2>2. CASE i # 1
    BY <1>8, <1>9, <2>2 DEF Plain
  <2> QED
    BY <2>1, <2>2
<1>10. ASSUME NEW k \in 0..n, \A i \in 1..k : h[i].op # "commit"
       PROVE  \A i \in 0..k : F[i].file = db /\ (i > 0 => F[i].open)
  <2>1. k > 0 => h[1].op = "begin"
    BY <1>1, <1>2, <1>3
  <2> QED
    BY <1>2, <1>6, <1>10, <2>1, BegunRun
<1>11. n = Len(p)
  <2> SUFFICES ASSUME n # Len(p) PROVE FALSE
    OBVIOUS
  <2>1. \A i \in 1..n : h[i].op # "commit"
    BY <1>1, <1>2, <1>9
  <2>2. \A i \in 0..n : F[i].file = db /\ (i > 0 => F[i].open)
    BY <1>2, <1>10, <2>1
  <2>3. F[n].file = db
    BY <1>2, <2>2
  <2> QED
    BY <1>7, <2>3 DEF p
<1> DEFINE m == Len(b) + 1
<1>12. m \in 0..n /\ n = m + 1 /\ m > 0 /\ n \in 1..n /\ n - 1 = m
  BY <1>1, <1>11
<1>13. F[m].open /\ F[m].file = db
  <2>1. \A i \in 1..m : h[i].op # "commit"
    BY <1>9, <1>11, <1>12
  <2>2. \A i \in 0..m : F[i].file = db /\ (i > 0 => F[i].open)
    BY <1>10, <1>12, <2>1
  <2>3. m \in 0..m
    BY <1>12
  <2> QED
    BY <1>12, <2>2, <2>3
<1>14. F[n].ok /\ F[n].file = F[m].items
  <2>1. F[n] = RunStatement(F[m], h[n], r) /\ h[n].op = "commit" /\ F[m] \in Conn(I)
    BY <1>1, <1>3, <1>6, <1>11, <1>12 DEF IsRun
  <2>2. F[n].file # db
    BY <1>7 DEF p
  <2>3. F[m].ok /\ Succeeds(F[m], h[n])
    <3> SUFFICES ASSUME ~(F[m].ok /\ Succeeds(F[m], h[n])) PROVE FALSE
      OBVIOUS
    <3>1. F[n] = [F[m] EXCEPT !.ok = FALSE]
      BY <2>1 DEF RunStatement
    <3>2. F[n].file = F[m].file
      BY <2>1, <3>1 DEF Conn
    <3> QED
      BY <1>13, <2>2, <3>2
  <2>4. ItemsAfter(F[m], h[n], r) = F[m].items
    BY <2>1 DEF ItemsAfter
  <2> QED
    BY <2>1, <2>3, <2>4 DEF RunStatement, Conn
<1>15. /\ \A i \in 0..n : F[i].ok
       /\ \A i \in 1..n : Succeeds(F[i - 1], h[i])
  BY <1>2, <1>5, <1>6, <1>14, OkRun
<1>16. IsRun(F, Opened(db), p, r)
  BY <1>3, <1>6, <1>11 DEF IsRun
<1>17. \A i \in 1..n : F[i - 1].ok /\ Succeeds(F[i - 1], p[i])
  <2> SUFFICES ASSUME NEW i \in 1..n PROVE F[i - 1].ok /\ Succeeds(F[i - 1], p[i])
    OBVIOUS
  <2>1. i - 1 \in 0..n /\ h[i] = p[i]
    BY <1>2, <1>3
  <2> QED
    BY <1>15, <2>1
<1>18. ASSUME NEW i \in 1..Len(b) PROVE b[i].op \in Plain
  <2>1. i + 1 \in 1..n /\ i + 1 # Len(p) /\ i + 1 # 1
    BY <1>1, <1>11
  <2>2. h[i + 1].op \in Plain
    BY <1>8, <2>1
  <2> QED
    BY <1>1, <1>3, <2>1, <2>2
<1>19. IsWholeRun(F, db, b, r)
  BY <1>1, <1>7, <1>11, <1>12, <1>14, <1>16, <1>17, <1>18 DEF p, IsWholeRun
<1>20. F \in [0..(Len(b) + 2) -> Conn(I)]
  BY <1>1, <1>11
<1> QED
  BY <1>19, <1>20

\* The last word on an item stands.
LEMMA LastWordStands ==
  ASSUME NEW I, Item \subseteq I, NEW db \in Databases(I), NEW b \in Seq(Statement),
         NEW r \in I, Decent(b), execute_write(db, Wrapped(b), r).file # db,
         NEW i \in 1..Len(b), HasLastWord(b, i)
  PROVE  b[i].op = "create" <=> b[i].item \in execute_write(db, Wrapped(b), r).file
<1> DEFINE p == Wrapped(b)
           x == b[i].item
           m == Len(b) + 1
           d == m - (i + 1)
<1> HIDE DEF x, m, d
<1>1. /\ p \in Seq(Statement) /\ Len(p) = Len(b) + 2 /\ Len(b) \in Nat
      /\ \A j \in 1..Len(b) : p[j + 1] = b[j]
  <2>1. Len(b) \in Nat
    OBVIOUS
  <2> QED
    BY <2>1, WrappedIs
<1>2. PICK F \in [0..(Len(b) + 2) -> Conn(I)] : IsWholeRun(F, db, b, r)
  BY TransactionRun
<1>3. /\ IsRun(F, Opened(db), p, r)
      /\ \A j \in 1..(Len(b) + 2) : F[j - 1].ok /\ Succeeds(F[j - 1], p[j])
      /\ execute_write(db, p, r).file = F[Len(b) + 1].items
      /\ \A j \in 1..Len(b) : b[j].op \in Plain
  BY <1>2 DEF IsWholeRun
<1> HIDE DEF p
<1> USE DEF x, m, d
<1>4. d \in Nat /\ i \in Nat /\ (i + 1) + d = m
  BY <1>1
<1>5. b[i].op \in {"create", "drop"} /\ b[i] \in Statement
  BY DEF HasLastWord
<1>6. ASSUME NEW j \in 1..Len(b)
      PROVE  F[j + 1].items = ItemsAfter(F[j], b[j], r) /\ F[j] \in Conn(I)
  <2>1. j + 1 \in 1..Len(p) /\ (j + 1) - 1 = j /\ j \in 0..(Len(b) + 2) /\ p[j + 1] = b[j]
    BY <1>1
  <2>2. F[j + 1] = RunStatement(F[j], b[j], r) /\ F[j].ok /\ Succeeds(F[j], b[j])
    BY <1>1, <1>3, <2>1 DEF IsRun
  <2>3. F[j] \in Conn(I)
    BY <2>1
  <2>4. F[j + 1].items = ItemsAfter(F[j], b[j], r)
    <3> DEFINE items == ItemsAfter(F[j], b[j], r)
               open == b[j].op = "begin" \/ (F[j].open /\ b[j].op # "commit")
    <3>1. F[j + 1] = [F[j] EXCEPT !.items = items,
                          !.file = IF open THEN @ ELSE items,
                          !.open = open,
                          !.savepoint = @ /\ b[j].op # "commit"]
      BY <2>2 DEF RunStatement
    <3> HIDE DEF items, open
    <3>2. F[j + 1].items = items
      BY <2>3, <3>1 DEF Conn
    <3> QED
      BY <3>2 DEF items
  <2> QED
    BY <2>3, <2>4
<1> DEFINE P == {k \in 0..d : b[i].op = "create" <=> x \in F[(i + 1) + k].items}
<1>7. 0 \in P
  <2>1. F[i + 1].items = ItemsAfter(F[i], b[i], r) /\ F[i] \in Conn(I)
    BY <1>6
  <2>2. b[i].op = "create" <=> x \in F[i + 1].items
    BY <1>5, <2>1 DEF ItemsAfter
  <2>3. (i + 1) + 0 = i + 1 /\ 0 \in 0..d
    BY <1>4
  <2> HIDE DEF x
  <2> QED
    BY <2>2, <2>3
<1>8. ASSUME NEW k \in 1..d, k - 1 \in P PROVE k \in P
  <2> DEFINE j == i + k
  <2>1. /\ j \in 1..Len(b) /\ j > i /\ (i + 1) + k = j + 1
        /\ (i + 1) + (k - 1) = j /\ k \in 0..d /\ j \in DOMAIN b
    BY <1>1, <1>4
  <2>2. F[j + 1].items = ItemsAfter(F[j], b[j], r) /\ F[j] \in Conn(I)
    BY <1>6, <2>1
  <2> HIDE DEF j
  <2>3. b[j].op # "random" /\ (b[j].op \in {"create", "drop"} => b[j].item # x)
    BY <2>1 DEF HasLastWord
  <2>4. b[j].op \in Plain
    BY <1>3, <2>1
  <2>5. x \in F[j].items <=> x \in F[j + 1].items
    BY <2>2, <2>3, <2>4 DEF ItemsAfter, Plain
  <2>6. b[i].op = "create" <=> x \in F[j].items
    BY <1>8, <2>1
  <2> HIDE DEF x
  <2> QED
    BY <2>1, <2>5, <2>6
<1> HIDE DEF P
<1>9. \A k \in 0..d : k \in P
  BY <1>4, <1>7, <1>8, Climb
<1>10. b[i].op = "create" <=> x \in F[(i + 1) + d].items
  <2> HIDE DEF d
  <2>1. d \in P
    BY <1>4, <1>9
  <2> QED
    BY <2>1 DEF P
<1> QED
  BY <1>3, <1>4, <1>10 DEF p

(***************************************************************************)
(* What is known of an entry: it was validated, and what its node had      *)
(* executed then is behind it in the log.                                  *)
(***************************************************************************)

\* A statement that can have passed: its text is not empty, and decent.
Sound(w) ==
    /\ Len(w.statements) > 0
    /\ \A i \in 1..Len(w.statements) : Decent(w.statements[i])

\* w passes on db.
Tried(w, db) == \E r \in Item : Validated(db, w.statements, r).ok

\* Only what was validated is written.
EntriesSound ==
    /\ \A e \in Entry : slot[e] # 0 => Sound(work[e[1]])
    /\ \A c \in Call : pc[c] = "append" => Sound(work[c])

\* What is chosen stands where it was put.
EntriesPlaced == \A i \in 1..Len(chosen) : slot[chosen[i]] = i

\* An entry is known to have passed on the database it was validated with.
EntriesTried ==
    \A e \in Entry : seen[e] # Nil =>
       /\ seen[e] \in 0..Len(chosen)
       /\ Tried(work[e[1]], Made(seen[e]))

\* A leader has executed nothing that its log does not hold, so that what it
\* appends comes behind what it had executed.
LeadersAhead == \A n \in Node : leads[n] => executed[n] <= base[n] + Len(mine[n])

\* An entry stands behind what its node had executed when it was validated.
EntriesBehind ==
    /\ \A c \in Call : pc[c] = "append" /\ seen[This(c)] # Nil =>
                          seen[This(c)] <= executed[at[c]]
    /\ \A e \in Entry : slot[e] # 0 /\ seen[e] # Nil => seen[e] < slot[e]

\* What every step keeps of the entries.
RaceInv ==
    /\ DataInv
    /\ EntriesSound /\ EntriesPlaced /\ EntriesTried /\ LeadersAhead /\ EntriesBehind

\* At the start no entry is written or chosen, and nobody leads.
LEMMA RaceStart == Init => RaceInv
<1> SUFFICES ASSUME Init PROVE RaceInv
  OBVIOUS
<1>1. DataInv
  BY DataStart
<1>2. EntriesSound /\ EntriesPlaced /\ EntriesTried /\ LeadersAhead /\ EntriesBehind
  BY DEF Init, EntriesSound, EntriesPlaced, EntriesTried, LeadersAhead, EntriesBehind
<1> QED
  BY <1>1, <1>2 DEF RaceInv

\* The types these proofs use.
LEMMA RaceTypes ==
  ASSUME DataInv
  PROVE  /\ chosen \in Seq(Entry) /\ Len(chosen) \in Nat
         /\ slot \in [Entry -> Nat] /\ seen \in [Entry -> Nat \cup {Nil}] /\ Nil \notin Nat
         /\ work \in [Call -> Work]
         /\ \A n \in Node : /\ executed[n] \in 0..Len(chosen) /\ base[n] \in Nat
                            /\ mine[n] \in Seq(Entry) /\ Len(mine[n]) \in Nat
         /\ \A c \in Call : pc[c] \in {"validate", "append"} =>
               /\ at[c] \in Node /\ This(c) \in Entry /\ This(c)[1] = c
               /\ slot[This(c)] = 0
<1>1. /\ chosen \in Seq(Entry)
      /\ slot \in [Entry -> Nat] /\ seen \in [Entry -> Nat \cup {Nil}] /\ Nil \notin Nat
      /\ work \in [Call -> Work]
  BY SqlAssumption DEF DataInv, DataType, CallInv
<1>2. ASSUME NEW n \in Node
      PROVE  /\ executed[n] \in 0..Len(chosen) /\ base[n] \in Nat
             /\ mine[n] \in Seq(Entry) /\ Len(mine[n]) \in Nat
  <2>1. executed[n] \in 0..Len(chosen) /\ base[n] \in Nat /\ mine[n] \in Seq(Entry)
    BY DEF DataInv, DataType, CallInv
  <2> QED
    BY <2>1
<1>3. ASSUME NEW c \in Call, pc[c] \in {"validate", "append"}
      PROVE  /\ at[c] \in Node /\ This(c) \in Entry /\ This(c)[1] = c
             /\ slot[This(c)] = 0
  <2>1. /\ at[c] \in Node /\ try[c] > 0 /\ try[c] \in 0..2 /\ ~Written(c)
    BY <1>3 DEF DataInv, CallInv, CallSound
  <2>2. try[c] \in {1, 2}
    BY <2>1
  <2> QED
    BY <2>1, <2>2 DEF This, Entry, Written
<1> QED
  BY <1>1, <1>2, <1>3

\* Nothing is written, validated or chosen.
LEMMA RaceIdle ==
  ASSUME RaceInv, UNCHANGED <<slot, chosen, seen, work>>, LeadersAhead',
         \A n \in Node : executed'[n] \in Nat /\ executed[n] <= executed'[n],
         \A c \in Call : pc'[c] = "append" =>
            pc[c] = "append" /\ at'[c] = at[c] /\ try'[c] = try[c]
  PROVE  /\ EntriesSound' /\ EntriesPlaced' /\ EntriesTried' /\ LeadersAhead'
         /\ EntriesBehind'
<1>1. EntriesSound'
  BY DEF RaceInv, EntriesSound
<1>2. EntriesPlaced'
  BY DEF RaceInv, EntriesPlaced
<1>3. EntriesTried'
  BY DEF RaceInv, EntriesTried, Made
<1>4. EntriesBehind'
  <2>1. ASSUME NEW c \in Call, pc'[c] = "append", seen'[This(c)'] # Nil
        PROVE  seen'[This(c)'] <= executed'[at'[c]]
    <3>1. pc[c] = "append" /\ at'[c] = at[c] /\ This(c)' = This(c)
      BY <2>1 DEF This
    <3>2. at[c] \in Node /\ This(c) \in Entry
      BY <3>1, RaceTypes DEF RaceInv
    <3>3. seen[This(c)] # Nil /\ seen[This(c)] <= executed[at[c]]
      BY <2>1, <3>1 DEF RaceInv, EntriesBehind
    <3>4. seen[This(c)] \in Nat /\ executed[at[c]] \in Nat
      BY <3>2, <3>3, RaceTypes DEF RaceInv
    <3>5. executed'[at[c]] \in Nat /\ executed[at[c]] <= executed'[at[c]]
      BY <3>2
    <3> QED
      BY <3>1, <3>3, <3>4, <3>5
  <2>2. ASSUME NEW e \in Entry, slot'[e] # 0, seen'[e] # Nil PROVE seen'[e] < slot'[e]
    BY <2>2 DEF RaceInv, EntriesBehind
  <2> QED
    BY <2>1, <2>2 DEF EntriesBehind
<1> QED
  BY <1>1, <1>2, <1>3, <1>4

\* The entry that is chosen was written by the leader, at this place.
LEMMA RaceChoose ==
  ASSUME RaceInv, NEW e \in Entry, Choose(e)
  PROVE  /\ EntriesSound' /\ EntriesPlaced' /\ EntriesTried' /\ LeadersAhead'
         /\ EntriesBehind'
<1>1. /\ chosen' = Append(chosen, e) /\ slot[e] = Len(chosen) + 1
      /\ UNCHANGED <<slot, leads, base, mine, executed, work, pc, try, at, seen>>
  BY DEF Choose, data, client
<1>2. /\ chosen \in Seq(Entry) /\ Len(chosen) \in Nat /\ slot \in [Entry -> Nat]
      /\ Len(chosen') = Len(chosen) + 1
  BY <1>1, RaceTypes DEF RaceInv
<1>3. EntriesSound' /\ LeadersAhead' /\ EntriesBehind'
  BY <1>1 DEF RaceInv, EntriesSound, LeadersAhead, EntriesBehind, This
<1>4. EntriesPlaced'
  <2>1. ASSUME NEW i \in 1..Len(chosen') PROVE slot[chosen'[i]] = i
    <3>1. CASE i = Len(chosen) + 1
      BY <1>1, <1>2, <3>1
    <3>2. CASE i # Len(chosen) + 1
      <4>1. i \in 1..Len(chosen) /\ chosen'[i] = chosen[i]
        BY <1>1, <1>2, <3>2
      <4> QED
        BY <4>1 DEF RaceInv, EntriesPlaced
    <3> QED
      BY <3>1, <3>2
  <2> QED
    BY <1>1, <2>1 DEF EntriesPlaced
<1>5. EntriesTried'
  <2>1. ASSUME NEW d \in Entry, seen[d] # Nil
        PROVE  /\ seen[d] \in 0..Len(chosen')
               /\ Tried(work[d[1]], After(work, SubSeq(chosen', 1, seen[d])))
    <3> DEFINE k == seen[d]
    <3>1. k \in 0..Len(chosen) /\ Tried(work[d[1]], After(work, SubSeq(chosen, 1, k)))
      BY <2>1 DEF RaceInv, EntriesTried, Made
    <3> HIDE DEF k
    <3>2. SubSeq(chosen', 1, k) = SubSeq(chosen, 1, k) /\ k \in 0..Len(chosen')
      BY <1>1, <1>2, <3>1
    <3> QED
      BY <3>1, <3>2 DEF k
  <2> QED
    BY <1>1, <2>1 DEF EntriesTried, Made
<1> QED
  BY <1>3, <1>4, <1>5

\* A batch that passes validation is sound.
LEMMA TriedIsSound ==
  ASSUME NEW I, Item \subseteq I, NEW db \in Databases(I), NEW w \in Work, NEW r \in I,
         Validated(db, w.statements, r).ok
  PROVE  Sound(w)
<1> DEFINE ss == w.statements
<1>1. ss \in Seq(Seq(Statement))
  BY SqlAssumption
<1> HIDE DEF ss
<1>2. Len(ss) > 0 /\ \A i \in 1..Len(ss) : validate_sql(db, ss[i], r).ok
  <2>1. Validated(db, ss, r).ok
    BY DEF ss
  <2> QED
    BY <1>1, <2>1, ValidatedMeans
<1>3. ASSUME NEW i \in 1..Len(ss) PROVE Decent(ss[i])
  <2> DEFINE b == ss[i]
  <2>1. b \in Seq(Statement) /\ validate_sql(db, b, r).ok
    BY <1>1, <1>2
  <2> HIDE DEF b
  <2>2. Decent(b)
    BY <2>1, ValidIsDecent
  <2> QED
    BY <2>2 DEF b
<1> QED
  BY <1>2, <1>3 DEF Sound, ss

\* A validation notes what its node had executed.
LEMMA RaceValidate ==
  ASSUME RaceInv, NEW c \in Call, Validate(c)
  PROVE  /\ EntriesSound' /\ EntriesPlaced' /\ EntriesTried' /\ LeadersAhead'
         /\ EntriesBehind'
<1> DEFINE n == at[c]
<1>1. pc[c] = "validate" /\ UNCHANGED <<slot, chosen, leads, base, mine, executed, work, try>>
  BY DEF Validate, consensus
<1>2. n \in Node /\ This(c) \in Entry /\ This(c)[1] = c /\ slot[This(c)] = 0
  BY <1>1, RaceTypes DEF RaceInv
<1>3. LeadersAhead'
  BY <1>1 DEF RaceInv, LeadersAhead
<1>4. \A m \in Node : executed'[m] \in Nat /\ executed[m] <= executed'[m]
  BY <1>1, RaceTypes DEF RaceInv
<1>5. pc \in [Call -> Places]
      /\ at \in [Call -> Node \cup {Nil}]
  BY DEF RaceInv, DataInv, CallInv
<1>6. CASE Refused(c) /\ UNCHANGED seen
  <2>1. \A d \in Call : pc'[d] = "append" => pc[d] = "append" /\ at'[d] = at[d] /\ try'[d] = try[d]
    BY <1>1, <1>5, <1>6 DEF Refused, Ends, TriesAgain
  <2> QED
    BY <1>1, <1>3, <1>4, <1>6, <2>1, RaceIdle
<1>7. ASSUME NEW r \in Item, Validated(database[n], work[c].statements, r).ok,
             pc' = [pc EXCEPT ![c] = "append"], UNCHANGED <<told, at>>,
             seen' = [seen EXCEPT ![This(c)] = IF strayed[n] THEN Nil ELSE executed[n]]
      PROVE  /\ EntriesSound' /\ EntriesPlaced' /\ EntriesTried' /\ LeadersAhead'
             /\ EntriesBehind'
  <2>1. /\ executed[n] \in 0..Len(chosen) /\ executed[n] \in Nat
        /\ Item \subseteq Item /\ database[n] \in Databases(Item) /\ work[c] \in Work
        /\ seen \in [Entry -> Nat \cup {Nil}] /\ Nil \notin Nat
    BY <1>2, RaceTypes DEF RaceInv, DataInv, DataType
  <2>2. Sound(work[c])
    BY <1>7, <2>1, TriedIsSound
  <2>3. EntriesSound'
    BY <1>1, <1>5, <1>7, <2>2 DEF RaceInv, EntriesSound
  <2>4. EntriesPlaced'
    BY <1>1 DEF RaceInv, EntriesPlaced
  <2>5. ASSUME NEW e \in Entry, seen'[e] # Nil
        PROVE  /\ seen'[e] \in 0..Len(chosen)
               /\ Tried(work[e[1]], After(work, SubSeq(chosen, 1, seen'[e])))
    <3>1. CASE e = This(c)
      <4>1. ~strayed[n] /\ seen'[e] = executed[n]
        BY <1>2, <1>7, <2>1, <2>5, <3>1
      <4>2. database[n] = After(work, SubSeq(chosen, 1, executed[n]))
        BY <1>2, <4>1 DEF RaceInv, DataInv, Follows, Made
      <4>3. Tried(work[c], database[n])
        BY <1>7 DEF Tried
      <4> QED
        BY <1>2, <2>1, <3>1, <4>1, <4>2, <4>3
    <3>2. CASE e # This(c)
      <4>1. seen'[e] = seen[e]
        BY <1>7, <2>1, <3>2
      <4> QED
        BY <2>5, <4>1 DEF RaceInv, EntriesTried, Made
    <3> QED
      BY <3>1, <3>2
  <2>6. EntriesTried'
    BY <1>1, <2>5 DEF EntriesTried, Made
  <2>7. ASSUME NEW d \in Call, pc'[d] = "append", seen'[This(d)] # Nil
        PROVE  seen'[This(d)] <= executed[at[d]]
    <3>1. CASE d = c
      BY <1>2, <1>7, <2>1, <2>7, <3>1
    <3>2. CASE d # c
      <4>1. pc[d] = "append" /\ This(d) # This(c)
        BY <1>5, <1>7, <2>7, <3>2 DEF This
      <4>2. This(d) \in Entry
        BY <4>1, RaceTypes DEF RaceInv
      <4>3. seen'[This(d)] = seen[This(d)]
        BY <1>7, <2>1, <4>1, <4>2
      <4> QED
        BY <2>7, <4>1, <4>3 DEF RaceInv, EntriesBehind
    <3> QED
      BY <3>1, <3>2
  <2>8. ASSUME NEW e \in Entry, slot[e] # 0, seen'[e] # Nil PROVE seen'[e] < slot[e]
    <3>1. e # This(c) /\ seen'[e] = seen[e]
      BY <1>2, <1>7, <2>1, <2>8
    <3> QED
      BY <2>8, <3>1 DEF RaceInv, EntriesBehind
  <2>9. EntriesBehind'
    <3>1. \A d \in Call : This(d)' = This(d)
      BY <1>1 DEF This
    <3> QED
      BY <1>1, <1>7, <2>7, <2>8, <3>1 DEF EntriesBehind
  <2> QED
    BY <1>3, <2>3, <2>4, <2>6, <2>9
<1> QED
  BY <1>6, <1>7 DEF Validate

\* The entry comes after all that its node had executed when it was validated.
LEMMA RaceAppend ==
  ASSUME RaceInv, NEW c \in Call, AppendEntry(c)
  PROVE  /\ EntriesSound' /\ EntriesPlaced' /\ EntriesTried' /\ LeadersAhead'
         /\ EntriesBehind'
<1> DEFINE n == at[c]
<1>1. /\ pc[c] = "append"
      /\ UNCHANGED <<chosen, leads, base, executed, database, strayed, work, try, seen>>
  BY DEF AppendEntry, data
<1>2. n \in Node /\ This(c) \in Entry /\ This(c)[1] = c /\ slot[This(c)] = 0
  BY <1>1, RaceTypes DEF RaceInv
<1>3. \A m \in Node : executed'[m] \in Nat /\ executed[m] <= executed'[m]
  BY <1>1, RaceTypes DEF RaceInv
<1>4. /\ pc \in [Call -> Places]
      /\ at \in [Call -> Node \cup {Nil}] /\ mine \in [Node -> Seq(Entry)]
      /\ slot \in [Entry -> Nat]
  BY DEF RaceInv, DataInv, CallInv
<1>5. CASE Refused(c) /\ UNCHANGED <<slot, mine>>
  <2>1. \A d \in Call : pc'[d] = "append" => pc[d] = "append" /\ at'[d] = at[d] /\ try'[d] = try[d]
    BY <1>1, <1>4, <1>5 DEF Refused, Ends, TriesAgain
  <2>2. LeadersAhead'
    BY <1>1, <1>5 DEF RaceInv, LeadersAhead
  <2> QED
    BY <1>1, <1>3, <1>5, <2>1, <2>2, RaceIdle
<1>6. CASE /\ leads[n]
           /\ slot' = [slot EXCEPT ![This(c)] = base[n] + Len(mine[n]) + 1]
           /\ mine' = [mine EXCEPT ![n] = Append(@, This(c))]
           /\ pc' = [pc EXCEPT ![c] = "waiting"]
           /\ UNCHANGED <<told, at>>
  <2>1. /\ executed[n] \in Nat /\ base[n] \in Nat /\ mine[n] \in Seq(Entry)
        /\ Len(mine[n]) \in Nat /\ executed[n] <= base[n] + Len(mine[n])
    BY <1>2, <1>6, RaceTypes DEF RaceInv, LeadersAhead
  <2>2. EntriesSound'
    <3>1. ASSUME NEW e \in Entry, slot'[e] # 0 PROVE Sound(work[e[1]])
      <4>1. CASE e = This(c)
        BY <1>1, <1>2, <4>1 DEF RaceInv, EntriesSound
      <4>2. CASE e # This(c)
        <5>1. slot[e] # 0
          BY <1>4, <1>6, <3>1, <4>2
        <5> QED
          BY <5>1 DEF RaceInv, EntriesSound
      <4> QED
        BY <4>1, <4>2
    <3>2. ASSUME NEW d \in Call, pc'[d] = "append" PROVE Sound(work[d])
      <4>1. pc[d] = "append"
        BY <1>4, <1>6, <3>2
      <4> QED
        BY <4>1 DEF RaceInv, EntriesSound
    <3> QED
      BY <1>1, <3>1, <3>2 DEF EntriesSound
  <2>3. EntriesPlaced'
    <3>1. ASSUME NEW i \in 1..Len(chosen) PROVE slot'[chosen[i]] = i
      <4>1. slot[chosen[i]] = i /\ chosen[i] \in Entry /\ i # 0
        BY RaceTypes DEF RaceInv, EntriesPlaced
      <4>2. chosen[i] # This(c)
        BY <1>2, <4>1
      <4> QED
        BY <1>4, <1>6, <4>1, <4>2
    <3> QED
      BY <1>1, <3>1 DEF EntriesPlaced
  <2>4. EntriesTried'
    BY <1>1 DEF RaceInv, EntriesTried, Made
  <2>5. LeadersAhead'
    <3>1. ASSUME NEW m \in Node, leads[m] PROVE executed[m] <= base[m] + Len(mine'[m])
      <4>1. CASE m = n
        <5>1. Len(mine'[n]) = Len(mine[n]) + 1
          BY <1>2, <1>4, <1>6, <2>1
        <5> QED
          BY <2>1, <4>1, <5>1
      <4>2. CASE m # n
        <5>1. mine'[m] = mine[m]
          BY <1>4, <1>6, <4>2
        <5> QED
          BY <3>1, <5>1 DEF RaceInv, LeadersAhead
      <4> QED
        BY <4>1, <4>2
    <3> QED
      BY <1>1, <3>1 DEF LeadersAhead
  <2>6. EntriesBehind'
    <3>1. ASSUME NEW d \in Call, pc'[d] = "append", seen[This(d)] # Nil
          PROVE  seen[This(d)] <= executed[at[d]]
      <4>1. pc[d] = "append"
        BY <1>4, <1>6, <3>1
      <4> QED
        BY <3>1, <4>1 DEF RaceInv, EntriesBehind
    <3>2. ASSUME NEW e \in Entry, slot'[e] # 0, seen[e] # Nil PROVE seen[e] < slot'[e]
      <4>1. CASE e = This(c)
        <5>1. seen[e] <= executed[n] /\ seen[e] \in Nat
          BY <1>1, <1>2, <3>2, <4>1, RaceTypes DEF RaceInv, EntriesBehind
        <5>2. slot'[e] = base[n] + Len(mine[n]) + 1
          BY <1>2, <1>4, <1>6, <4>1
        <5> QED
          BY <2>1, <5>1, <5>2
      <4>2. CASE e # This(c)
        <5>1. slot'[e] = slot[e]
          BY <1>4, <1>6, <4>2
        <5> QED
          BY <3>2, <5>1 DEF RaceInv, EntriesBehind
      <4> QED
        BY <4>1, <4>2
    <3>3. \A d \in Call : This(d)' = This(d)
      BY <1>1 DEF This
    <3> QED
      BY <1>1, <1>6, <3>1, <3>2, <3>3 DEF EntriesBehind
  <2> QED
    BY <2>2, <2>3, <2>4, <2>5, <2>6
<1> QED
  BY <1>5, <1>6 DEF AppendEntry

\* Every step keeps what is known of the entries.
LEMMA RaceStep == RaceInv /\ [Next]_vars => RaceInv'
<1> SUFFICES ASSUME RaceInv, [Next]_vars PROVE RaceInv'
  OBVIOUS
<1>1. DataInv'
  BY DataStep DEF RaceInv
<1> DEFINE Rest == /\ EntriesSound /\ EntriesPlaced /\ EntriesTried /\ LeadersAhead
                   /\ EntriesBehind
<1> SUFFICES Rest'
  BY <1>1 DEF RaceInv
<1>2. /\ chosen \in Seq(Entry) /\ Len(chosen) \in Nat
      /\ \A n \in Node : /\ executed[n] \in Nat /\ executed[n] <= Len(chosen)
                         /\ base[n] \in Nat /\ Len(mine[n]) \in Nat
      /\ leads \in [Node -> BOOLEAN] /\ executed \in [Node -> 0..Len(chosen)]
      /\ base \in [Node -> Nat] /\ mine \in [Node -> Seq(Entry)]
      /\ pc \in [Call -> Places]
      /\ try \in [Call -> 0..2] /\ at \in [Call -> Node \cup {Nil}]
  <2>1. \A n \in Node : /\ executed[n] \in Nat /\ executed[n] <= Len(chosen)
                        /\ base[n] \in Nat /\ Len(mine[n]) \in Nat
    BY RaceTypes DEF RaceInv
  <2> QED
    BY <2>1, RaceTypes DEF RaceInv, DataInv, DataType, CallInv
<1>3. ASSUME NEW n \in Node, BecomeLeader(n) PROVE Rest'
  <2>1. PICK k \in Len(chosen)..LastSlot : base' = [base EXCEPT ![n] = k]
    BY <1>3 DEF BecomeLeader
  <2>2. /\ leads' = [leads EXCEPT ![n] = TRUE]
        /\ UNCHANGED <<slot, chosen, mine, executed, seen, work, pc, try, at>>
    BY <1>3 DEF BecomeLeader, data, client
  <2>3. LeadersAhead'
    <3>1. ASSUME NEW m \in Node, leads'[m] PROVE executed[m] <= base'[m] + Len(mine[m])
      <4>1. CASE m = n
        <5>1. base'[m] = k /\ Len(chosen) <= k
          BY <1>2, <2>1, <4>1
        <5> QED
          BY <1>2, <2>1, <4>1, <5>1
      <4>2. CASE m # n
        <5>1. base'[m] = base[m] /\ leads[m]
          BY <1>2, <2>1, <2>2, <3>1, <4>2
        <5> QED
          BY <5>1 DEF RaceInv, LeadersAhead
      <4> QED
        BY <4>1, <4>2
    <3> QED
      BY <2>2, <3>1 DEF LeadersAhead
  <2> QED
    BY <1>2, <2>2, <2>3, RaceIdle
<1>4. ASSUME NEW n \in Node, StepDown(n) PROVE Rest'
  <2>1. /\ leads' = [leads EXCEPT ![n] = FALSE] /\ base' = [base EXCEPT ![n] = 0]
        /\ mine' = [mine EXCEPT ![n] = <<>>]
        /\ UNCHANGED <<slot, chosen, executed, seen, work, pc, try, at>>
    BY <1>4 DEF StepDown, Deposed, data, client
  <2>2. LeadersAhead'
    BY <1>2, <2>1 DEF RaceInv, LeadersAhead
  <2> QED
    BY <1>2, <2>1, <2>2, RaceIdle
<1>5. ASSUME NEW n \in Node, Execute(n) PROVE Rest'
  <2>1. /\ Knows(n, executed[n] + 1) /\ executed' = [executed EXCEPT ![n] = executed[n] + 1]
        /\ UNCHANGED <<slot, chosen, leads, base, mine, seen, work, pc, try, at>>
    BY <1>5 DEF Execute, consensus, client
  <2>2. LeadersAhead'
    <3>1. ASSUME NEW m \in Node, leads[m] PROVE executed'[m] <= base[m] + Len(mine[m])
      <4>1. CASE m = n
        <5>1. executed'[m] = executed[n] + 1
          BY <1>2, <2>1, <4>1
        <5>2. executed[n] + 1 > base[n] => (executed[n] + 1) - base[n] <= Len(mine[n])
          BY <2>1, <3>1, <4>1 DEF Knows
        <5> QED
          BY <1>2, <4>1, <5>1, <5>2
      <4>2. CASE m # n
        <5>1. executed'[m] = executed[m]
          BY <1>2, <2>1, <4>2
        <5> QED
          BY <3>1, <5>1 DEF RaceInv, LeadersAhead
      <4> QED
        BY <4>1, <4>2
    <3> QED
      BY <2>1, <3>1 DEF LeadersAhead
  <2>3. \A m \in Node : executed'[m] \in Nat /\ executed[m] <= executed'[m]
    BY <1>2, <2>1
  <2> QED
    BY <1>2, <2>1, <2>2, <2>3, RaceIdle
<1>6. ASSUME NEW n \in Node, Crash(n) PROVE Rest'
  <2>1. /\ leads' = [leads EXCEPT ![n] = FALSE] /\ base' = [base EXCEPT ![n] = 0]
        /\ mine' = [mine EXCEPT ![n] = <<>>]
        /\ pc' = [c \in Call |-> IF at[c] = n THEN "over" ELSE pc[c]]
        /\ at' = [c \in Call |-> IF at[c] = n THEN Nil ELSE at[c]]
        /\ UNCHANGED <<slot, chosen, seen, work, try>>
    BY <1>6 DEF Crash, Deposed
  <2>2. PICK i \in executed[n]..Len(chosen) : executed' = [executed EXCEPT ![n] = i]
    BY <1>6 DEF Crash
  <2>3. \A m \in Node : executed'[m] \in Nat /\ executed[m] <= executed'[m]
    BY <1>2, <2>2
  <2>4. LeadersAhead'
    <3>1. ASSUME NEW m \in Node, leads'[m] PROVE executed'[m] <= base'[m] + Len(mine'[m])
      <4>1. m # n /\ leads[m] /\ executed'[m] = executed[m] /\ base'[m] = base[m]
            /\ mine'[m] = mine[m]
        BY <1>2, <2>1, <2>2, <3>1
      <4> QED
        BY <4>1 DEF RaceInv, LeadersAhead
    <3> QED
      BY <3>1 DEF LeadersAhead
  <2>5. \A c \in Call : pc'[c] = "append" => pc[c] = "append" /\ at'[c] = at[c]
    BY <2>1
  <2> QED
    BY <2>1, <2>3, <2>4, <2>5, RaceIdle
<1>7. ASSUME NEW n \in Node, Query(n) PROVE Rest'
  <2>1. UNCHANGED <<slot, chosen, leads, base, mine, executed, seen, work, pc, try, at>>
    BY <1>7 DEF Query, consensus, client
  <2>2. LeadersAhead'
    BY <2>1 DEF RaceInv, LeadersAhead
  <2> QED
    BY <1>2, <2>1, <2>2, RaceIdle
<1>8. ASSUME NEW c \in Call, FindLeader(c) \/ Fails(c) \/ Answer(c) PROVE Rest'
  <2>1. UNCHANGED <<slot, chosen, leads, base, mine, executed, seen, work>>
    BY <1>8 DEF FindLeader, Fails, Answer, consensus, data
  <2>2. LeadersAhead'
    BY <2>1 DEF RaceInv, LeadersAhead
  <2>3. \A d \in Call : pc'[d] = "append" => pc[d] = "append" /\ at'[d] = at[d] /\ try'[d] = try[d]
    BY <1>2, <1>8 DEF FindLeader, Fails, Answer, Ends
  <2> QED
    BY <1>2, <2>1, <2>2, <2>3, RaceIdle
<1>9. CASE UNCHANGED vars
  <2>1. UNCHANGED <<slot, chosen, leads, base, mine, executed, seen, work, pc, try, at>>
    BY <1>9 DEF vars, consensus, client, data
  <2>2. LeadersAhead'
    BY <2>1 DEF RaceInv, LeadersAhead
  <2> QED
    BY <1>2, <2>1, <2>2, RaceIdle
<1> HIDE DEF Rest
<1>10. ASSUME NEW e \in Entry, Choose(e) PROVE Rest'
  BY <1>10, RaceChoose DEF Rest
<1>11. ASSUME NEW c \in Call, Validate(c) PROVE Rest'
  BY <1>11, RaceValidate DEF Rest
<1>12. ASSUME NEW c \in Call, AppendEntry(c) PROVE Rest'
  BY <1>12, RaceAppend DEF Rest
<1> QED
  BY <1>3, <1>4, <1>5, <1>6, <1>7, <1>8, <1>9, <1>10, <1>11, <1>12 DEF Next

\* On every node a transaction takes effect as a whole or not at all: what it
\* leaves in the file agrees with its last word on each item.
THEOREM TransactionsAreAtomic == Spec => TransactionAllOrNothing
<1> DEFINE Whole ==
      \A n \in Node :
         executed'[n] > executed[n] /\ database'[n] # database[n] =>
            LET e == chosen[executed'[n]]
                b == FlattenSeq(work[e[1]].statements)
            IN  work[e[1]].type = "transaction" =>
                    \A i \in DOMAIN b : HasLastWord(b, i) =>
                        (b[i].op = "create" <=> b[i].item \in database'[n])
<1>1. RaceInv /\ [Next]_vars => [Whole]_vars
  <2> SUFFICES ASSUME RaceInv, Next,
                      NEW n \in Node, executed'[n] > executed[n], database'[n] # database[n]
               PROVE  LET e == chosen[executed'[n]]
                          b == FlattenSeq(work[e[1]].statements)
                      IN  work[e[1]].type = "transaction" =>
                              \A i \in DOMAIN b : HasLastWord(b, i) =>
                                  (b[i].op = "create" <=> b[i].item \in database'[n])
    BY DEF vars
  <2>1. /\ executed \in [Node -> 0..Len(chosen)] /\ executed[n] \in Nat
        /\ database \in [Node -> Databases(Item)] /\ chosen \in Seq(Entry)
        /\ work \in [Call -> Work]
    <3>1. executed[n] \in Nat
      BY RaceTypes DEF RaceInv
    <3> QED
      BY <3>1 DEF RaceInv, DataInv, DataType
  <2>2. Execute(n)
    <3>1. ~(executed' = executed \/ database' = database)
      BY <2>1
    <3>2. ASSUME NEW m \in Node, Execute(m) PROVE m = n
      <4>1. \E r \in Item : database' = [database EXCEPT
               ![m] = execute_write(@, PayloadOf(chosen[executed[m] + 1]), r).file]
        BY <3>2 DEF Execute
      <4> QED
        BY <2>1, <4>1
    <3> QED
      BY <3>1, <3>2 DEF Next, BecomeLeader, StepDown, Query, Crash, Choose, FindLeader,
         Fails, Validate, AppendEntry, Answer, data
  <2> DEFINE k == executed[n] + 1
             e == chosen[k]
             w == work[e[1]]
             b == FlattenSeq(w.statements)
  <2>3. k \in 1..Len(chosen) /\ executed'[n] = k /\ e \in Entry
    BY <2>1, <2>2 DEF Execute, Knows
  <2>4. PICK r \in Item : database'[n] = execute_write(database[n], PayloadOf(e), r).file
    BY <2>1, <2>2 DEF Execute
  <2> SUFFICES ASSUME w.type = "transaction", NEW i \in DOMAIN b, HasLastWord(b, i)
               PROVE  b[i].op = "create" <=> b[i].item \in database'[n]
    BY <2>3
  <2> HIDE DEF k, e
  <2>5. w \in Work /\ w.statements \in Seq(Seq(Statement))
    BY <2>1, <2>3, EntryText DEF Entry
  <2>6. Sound(w)
    <3>1. slot[e] # 0
      BY <2>3 DEF e, RaceInv, EntriesPlaced
    <3> QED
      BY <2>3, <3>1 DEF RaceInv, EntriesSound
  <2> HIDE DEF w
  <2>7. b \in Seq(Statement) /\ Decent(b)
    BY <2>5, <2>6, FlattenType, FlatIsDecent DEF Sound
  <2>8. PayloadOf(e) = Wrapped(b)
    BY DEF PayloadOf, Payload, Wrapped, w
  <2> HIDE DEF b
  <2>9. i \in 1..Len(b) /\ Item \subseteq Item /\ database[n] \in Databases(Item)
    BY <2>1, <2>7
  <2> QED
    BY <2>4, <2>7, <2>8, <2>9, LastWordStands
<1> QED
  BY <1>1, RaceStart, RaceStep, PTL DEF Spec, TransactionAllOrNothing

(***************************************************************************)
(* A statement that was validated only fails by a race.                    *)
(***************************************************************************)
\* Nothing in the first j statements of b decides about x.
Untouched(b, j, x) == \A i \in 1..j : b[i].op \in {"create", "drop"} => b[i].item # x

\* What a run does not touch stays as it was, on the connection and in the file.
LEMMA RunFrame ==
  ASSUME NEW I, NEW conn \in Conn(I), conn.file = conn.items, NEW b \in Seq(Statement),
         NEW r \in I, NEW F \in [0..Len(b) -> Conn(I)], IsRun(F, conn, b, r),
         \A i \in 1..Len(b) : b[i].op # "random", NEW x,
         NEW n \in 0..Len(b), Untouched(b, n, x)
  PROVE  (x \in F[n].items <=> x \in conn.items) /\ (x \in F[n].file <=> x \in conn.items)
<1> DEFINE P == {j \in 0..n : /\ x \in F[j].items <=> x \in conn.items
                              /\ x \in F[j].file <=> x \in conn.items}
<1>1. 0 \in P
  BY DEF IsRun
<1>2. ASSUME NEW j \in 1..n, j - 1 \in P PROVE j \in P
  <2>1. /\ F[j] = RunStatement(F[j - 1], b[j], r) /\ F[j - 1] \in Conn(I)
        /\ b[j].op # "random" /\ (b[j].op \in {"create", "drop"} => b[j].item # x)
        /\ j \in 0..n
    BY DEF IsRun, Untouched
  <2> DEFINE c == F[j - 1]
  <2>2. (x \in c.items <=> x \in conn.items) /\ (x \in c.file <=> x \in conn.items)
    BY <1>2
  <2> HIDE DEF c
  <2>3. x \in ItemsAfter(c, b[j], r) <=> x \in c.items
    BY <2>1 DEF ItemsAfter
  <2>4. /\ x \in RunStatement(c, b[j], r).items <=> x \in conn.items
        /\ x \in RunStatement(c, b[j], r).file <=> x \in conn.items
    <3>1. CASE ~c.ok \/ ~Succeeds(c, b[j])
      <4>1. RunStatement(c, b[j], r) = [c EXCEPT !.ok = FALSE]
        BY <3>1 DEF RunStatement
      <4>2. c \in Conn(I)
        BY <2>1 DEF c
      <4> QED
        BY <2>2, <4>1, <4>2 DEF Conn
    <3>2. CASE c.ok /\ Succeeds(c, b[j])
      <4> DEFINE items == ItemsAfter(c, b[j], r)
                 open == b[j].op = "begin" \/ (c.open /\ b[j].op # "commit")
      <4>1. RunStatement(c, b[j], r) =
              [c EXCEPT !.items = items, !.file = IF open THEN @ ELSE items,
                        !.open = open, !.savepoint = @ /\ b[j].op # "commit"]
        BY <3>2 DEF RunStatement
      <4> HIDE DEF items, open
      <4>2. c \in Conn(I)
        BY <2>1 DEF c
      <4>3. /\ RunStatement(c, b[j], r).items = items
            /\ RunStatement(c, b[j], r).file = IF open THEN c.file ELSE items
        BY <4>1, <4>2 DEF Conn
      <4> QED
        BY <2>2, <2>3, <4>3 DEF items
    <3> QED
      BY <3>1, <3>2
  <2> QED
    BY <2>1, <2>4 DEF c
<1>3. n \in P
  <2> HIDE DEF P
  <2>1. n \in Nat /\ n \in 0..n
    OBVIOUS
  <2>2. \A j \in 0..n : j \in P
    BY <1>1, <1>2, <2>1, Climb
  <2> QED
    BY <2>1, <2>2
<1> QED
  BY <1>3

\* What a batch does not touch stays as it was in the file.
LEMMA WriteFrame ==
  ASSUME NEW I, Item \subseteq I, NEW db \in Databases(I), NEW b \in Seq(Statement),
         NEW r \in I, \A i \in 1..Len(b) : b[i].op # "random",
         NEW x, Untouched(b, Len(b), x)
  PROVE  x \in execute_write(db, b, r).file <=> x \in db
<1> DEFINE h == Heard(b)
           n == Len(h)
<1>1. /\ Opened(db) \in Conn(I) /\ Opened(db).items = db /\ Opened(db).file = db
      /\ h \in Seq(Statement) /\ n \in 0..n
      /\ \A i \in 1..n : h[i] = b[i] /\ i \in 1..Len(b)
  BY OpenedType, HeardType DEF Opened
<1>2. PICK F \in [0..n -> Conn(I)] : IsRun(F, Opened(db), h, r) /\ Fold(Opened(db), h, r) = F[n]
  BY <1>1, FoldRun
<1>3. execute_write(db, b, r) = F[n]
  BY <1>2, BatchRun DEF execute_write
<1> HIDE DEF h
<1>4. Untouched(h, n, x) /\ \A i \in 1..n : h[i].op # "random"
  BY <1>1 DEF Untouched
<1>5. x \in F[n].file <=> x \in Opened(db).items
  BY <1>1, <1>2, <1>4, RunFrame
<1> QED
  BY <1>1, <1>3, <1>5

\* s finds in db what it needs.
Fits(s, db) ==
    (s.op = "create" => s.item \notin db) /\ (s.op = "drop" => s.item \in db)

\* No two statements of b are about the same item.
Apart(b) ==
    \A i, j \in 1..Len(b) :
       i # j /\ b[i].op \in {"create", "drop"} /\ b[j].op \in {"create", "drop"} =>
          b[i].item # b[j].item

\* In a batch of creations and deletions that is free of contradictions, what
\* passed fitted the database it was validated with.
LEMMA ValidFits ==
  ASSUME NEW I, Item \subseteq I, NEW db \in Databases(I), NEW b \in Seq(Statement),
         NEW r \in I, validate_sql(db, b, r).ok, Apart(b),
         \A i \in 1..Len(b) : b[i].op \notin {"comment", "random"}
  PROVE  \A i \in 1..Len(b) : Fits(b[i], db) /\ b[i].op \in {"create", "drop"}
<1> DEFINE h == Heard(b)
           n == Len(b)
<1>1. h \in Seq(Statement) /\ Len(h) = n /\ \A i \in 1..n : h[i] = b[i]
  BY HeardType
<1>2. PICK F \in [0..Len(h) -> Conn(I)] :
         /\ IsRun(F, InSavepoint(db), h, r)
         /\ \A i \in 1..Len(h) : Succeeds(F[i - 1], b[i])
  BY ValidMeans
<1>3. \A i \in 1..n : b[i].op \in Plain
  <2>1. \A i \in 1..Len(h) : b[i].op \in Plain
    BY ValidMeans
  <2> QED
    BY <1>1, <2>1
<1> HIDE DEF h
<1>4. /\ InSavepoint(db) \in Conn(I)
      /\ InSavepoint(db).items = db /\ InSavepoint(db).file = db
  BY OpenedType DEF InSavepoint, Opened
<1> SUFFICES ASSUME NEW i \in 1..n PROVE Fits(b[i], db) /\ b[i].op \in {"create", "drop"}
  OBVIOUS
<1>5. b[i].op \in {"create", "drop"}
  BY <1>3 DEF Plain
<1> DEFINE x == b[i].item
<1>6. Untouched(h, i - 1, x) /\ i - 1 \in 0..Len(h)
  <2>1. ASSUME NEW j \in 1..(i - 1), h[j].op \in {"create", "drop"} PROVE h[j].item # x
    <3>1. j \in 1..n /\ j # i /\ h[j] = b[j]
      BY <1>1
    <3> QED
      BY <1>5, <2>1, <3>1 DEF Apart
  <2>2. i - 1 \in 0..Len(h)
    BY <1>1
  <2> QED
    BY <2>1, <2>2 DEF Untouched
<1>7. \A j \in 1..Len(h) : h[j].op # "random"
  BY <1>1
<1>8. x \in F[i - 1].items <=> x \in db
  <2> DEFINE k == i - 1
  <2>1. Untouched(h, k, x) /\ k \in 0..Len(h)
    BY <1>6
  <2> DEFINE conn == InSavepoint(db)
  <2>2. conn \in Conn(I) /\ conn.file = conn.items /\ conn.items = db /\ IsRun(F, conn, h, r)
    BY <1>2, <1>4
  <2> HIDE DEF k, x, conn
  <2>3. x \in F[k].items <=> x \in conn.items
    BY <1>1, <1>7, <2>1, <2>2, RunFrame
  <2> QED
    BY <2>2, <2>3 DEF k
<1>9. Succeeds(F[i - 1], b[i])
  BY <1>1, <1>2
<1> QED
  BY <1>5, <1>8, <1>9 DEF Succeeds, Fits

\* p is what a call replicates: in BEGIN and COMMIT if it is a transaction.
IsText(p, wrapped) ==
    /\ \A i \in 1..Len(p) : p[i].op \in {"create", "drop", "begin", "commit"}
    /\ \A i \in 1..Len(p) : p[i].op = "begin" <=> wrapped /\ i = 1
    /\ \A i \in 1..Len(p) : p[i].op = "commit" <=> wrapped /\ i = Len(p)
    /\ wrapped => Len(p) > 1

\* What fits and is free of contradictions works, and is closed.
LEMMA FittingWorks ==
  ASSUME NEW I, Item \subseteq I, NEW db \in Databases(I), NEW p \in Seq(Statement),
         NEW r \in I, NEW wrapped \in BOOLEAN, IsText(p, wrapped), Apart(p),
         \A i \in 1..Len(p) : Fits(p[i], db)
  PROVE  execute_write(db, p, r).ok /\ ~execute_write(db, p, r).open
<1> DEFINE n == Len(p)
<1>1. Heard(p) = p /\ n \in Nat
  <2>1. {i \in DOMAIN p : p[i].op = "comment"} = {}
    BY DEF IsText
  <2> QED
    BY <2>1 DEF Heard
<1>2. /\ Opened(db) \in Conn(I) /\ Opened(db).items = db /\ Opened(db).file = db
      /\ Opened(db).ok /\ ~Opened(db).open
  BY OpenedType DEF Opened
<1>3. PICK F \in [0..n -> Conn(I)] : IsRun(F, Opened(db), p, r) /\ Fold(Opened(db), p, r) = F[n]
  BY <1>2, FoldRun
<1>4. execute_write(db, p, r) = F[n]
  BY <1>1, <1>3, BatchRun DEF execute_write
<1> DEFINE P == {j \in 0..n : F[j].ok /\ (F[j].open <=> (wrapped /\ j > 0 /\ j < n))}
<1>5. 0 \in P
  BY <1>1, <1>2, <1>3 DEF IsRun
<1>6. ASSUME NEW j \in 1..n, j - 1 \in P PROVE j \in P
  <2> DEFINE c == F[j - 1]
             s == p[j]
  <2>1. /\ F[j] = RunStatement(c, s, r) /\ c \in Conn(I) /\ c.ok /\ j \in 0..n
        /\ (c.open <=> (wrapped /\ j > 1)) /\ s \in Statement
    BY <1>1, <1>3, <1>6 DEF IsRun
  <2>2. /\ s.op \in {"create", "drop", "begin", "commit"}
        /\ s.op = "begin" <=> wrapped /\ j = 1
        /\ s.op = "commit" <=> wrapped /\ j = n
        /\ wrapped => n > 1
    BY DEF IsText
  <2>3. s.op \in {"create", "drop"} => (s.item \in c.items <=> s.item \in db)
    <3> SUFFICES ASSUME s.op \in {"create", "drop"}
                 PROVE  s.item \in c.items <=> s.item \in db
      OBVIOUS
    <3> DEFINE x == s.item
    <3>1. Untouched(p, j - 1, x)
      <4>1. ASSUME NEW i \in 1..(j - 1), p[i].op \in {"create", "drop"} PROVE p[i].item # x
        <5>1. i \in 1..n /\ i # j
          BY <1>1
        <5> QED
          BY <4>1, <5>1 DEF Apart
      <4> QED
        BY <4>1 DEF Untouched
    <3>2. j - 1 \in 0..n /\ \A i \in 1..n : p[i].op # "random"
      BY <1>1 DEF IsText
    <3> HIDE DEF x, s
    <3>3. x \in F[j - 1].items <=> x \in Opened(db).items
      BY <1>2, <1>3, <3>1, <3>2, RunFrame
    <3> QED
      BY <1>2, <3>3 DEF x
  <2>4. Fits(s, db)
    OBVIOUS
  <2> HIDE DEF c, s
  <2>5. Succeeds(c, s)
    BY <1>1, <2>1, <2>2, <2>3, <2>4 DEF Succeeds, Fits
  <2> DEFINE open == s.op = "begin" \/ (c.open /\ s.op # "commit")
             items == ItemsAfter(c, s, r)
  <2>6. F[j] = [c EXCEPT !.items = items, !.file = IF open THEN @ ELSE items,
                         !.open = open, !.savepoint = @ /\ s.op # "commit"]
    BY <2>1, <2>5 DEF RunStatement
  <2>7. open <=> (wrapped /\ j > 0 /\ j < n)
    BY <1>1, <2>1, <2>2
  <2> HIDE DEF open, items
  <2>8. F[j].ok /\ F[j].open = open
    BY <2>1, <2>6 DEF Conn
  <2> QED
    BY <2>1, <2>7, <2>8
<1>7. n \in P
  <2> HIDE DEF P
  <2>1. n \in 0..n
    BY <1>1
  <2>2. \A j \in 0..n : j \in P
    BY <1>1, <1>5, <1>6, Climb
  <2> QED
    BY <2>1, <2>2
<1>8. F[n].ok /\ ~F[n].open
  BY <1>1, <1>7
<1> QED
  BY <1>4, <1>8

\* a is a part of c.
IsPart(a, c) ==
    \E k \in Nat : k + Len(a) <= Len(c) /\ \A j \in 1..Len(a) : c[k + j] = a[j]

\* The parts of two batches joined.
LEMMA PartOfJoin ==
  ASSUME NEW a \in Seq(Statement), NEW b \in Seq(Statement)
  PROVE  /\ IsPart(b, a \o b)
         /\ \A c \in Seq(Statement) : IsPart(c, a) => IsPart(c, a \o b)
<1>1. /\ Len(a) \in Nat /\ Len(b) \in Nat /\ Len(a \o b) = Len(a) + Len(b)
      /\ \A i \in 1..Len(a) : (a \o b)[i] = a[i]
      /\ \A i \in 1..Len(b) : (a \o b)[Len(a) + i] = b[i]
  OBVIOUS
<1> DEFINE d == a \o b
<1> HIDE DEF d
<1>2. /\ Len(a) \in Nat /\ Len(b) \in Nat /\ Len(d) = Len(a) + Len(b)
      /\ \A i \in 1..Len(a) : d[i] = a[i]
      /\ \A i \in 1..Len(b) : d[Len(a) + i] = b[i]
  BY <1>1 DEF d
<1>3. IsPart(b, d)
  <2>1. Len(a) \in Nat /\ Len(a) + Len(b) <= Len(d)
    BY <1>2
  <2>2. \A j \in 1..Len(b) : d[Len(a) + j] = b[j]
    BY <1>2
  <2> QED
    BY <2>1, <2>2 DEF IsPart
<1>4. ASSUME NEW c \in Seq(Statement), IsPart(c, a) PROVE IsPart(c, d)
  <2>1. PICK k \in Nat : k + Len(c) <= Len(a) /\ \A j \in 1..Len(c) : a[k + j] = c[j]
    BY <1>4 DEF IsPart
  <2>2. Len(c) \in Nat /\ k + Len(c) <= Len(d)
    BY <1>2, <2>1
  <2>3. ASSUME NEW j \in 1..Len(c) PROVE d[k + j] = c[j]
    <3>1. k + j \in 1..Len(a)
      BY <1>2, <2>1, <2>2
    <3> QED
      BY <1>2, <2>1, <3>1
  <2> QED
    BY <2>1, <2>2, <2>3 DEF IsPart
<1> QED
  BY <1>3, <1>4 DEF d

\* Every batch is a part of the text, and all of the text is in a batch.
LEMMA FlatParts ==
  ASSUME NEW ss \in Seq(Seq(Statement)), Len(ss) > 0
  PROVE  /\ \A k \in 1..Len(ss) : IsPart(ss[k], FlattenSeq(ss))
         /\ \A j \in 1..Len(FlattenSeq(ss)) :
               \E k \in 1..Len(ss) : \E i \in 1..Len(ss[k]) : FlattenSeq(ss)[j] = ss[k][i]
<1> DEFINE m == Len(ss)
           Within(c, n) == \A j \in 1..Len(c) :
                              \E k \in 1..n : \E i \in 1..Len(ss[k]) : c[j] = ss[k][i]
<1>0. m \in Nat /\ m > 0 /\ m \in 0..m /\ \A i \in 1..m : ss[i] \in Seq(Statement)
  OBVIOUS
<1>1. PICK g \in [1..m -> Seq(Statement)] : IsJoined(g, ss) /\ FlattenSeq(ss) = g[m]
  BY FlattenRun
<1> DEFINE Good(n) == /\ \A k \in 1..n : IsPart(ss[k], g[n])
                      /\ Within(g[n], n)
           P == {n \in 0..m : n = 0 \/ Good(n)}
<1>2. 0 \in P
  BY <1>0
<1>3. ASSUME NEW n \in 1..m, n - 1 \in P PROVE n \in P
  <2>1. n \in 0..m /\ ss[n] \in Seq(Statement) /\ n \in 1..n
    BY <1>0
  <2>2. g[n] = IF n = 1 THEN ss[n] ELSE g[n - 1] \o ss[n]
    BY <1>1 DEF IsJoined
  <2>3. CASE n = 1
    <3>1. IsPart(ss[n], ss[n])
      <4>1. 0 + Len(ss[n]) <= Len(ss[n]) /\ \A j \in 1..Len(ss[n]) : ss[n][0 + j] = ss[n][j]
        BY <2>1
      <4> QED
        BY <4>1 DEF IsPart
    <3>2. Within(ss[n], n)
      BY <2>1
    <3>3. \A k \in 1..n : k = n
      BY <2>3
    <3>4. Good(n)
      BY <2>2, <2>3, <3>1, <3>2, <3>3
    <3> HIDE DEF Good
    <3> QED
      BY <2>1, <3>4
  <2>4. CASE n # 1
    <3> DEFINE a == g[n - 1]
               b == ss[n]
               c == a \o b
    <3>1. n - 1 \in 1..m /\ n - 1 # 0
      BY <1>0, <2>4
    <3>2. Good(n - 1) /\ a \in Seq(Statement) /\ b \in Seq(Statement) /\ g[n] = c
      BY <1>3, <2>1, <2>2, <2>4, <3>1
    <3> HIDE DEF a, b
    <3>3. /\ Len(a) \in Nat /\ Len(b) \in Nat /\ Len(c) = Len(a) + Len(b)
          /\ \A i \in 1..Len(a) : c[i] = a[i]
          /\ \A i \in 1..Len(b) : c[Len(a) + i] = b[i]
      BY <3>2
    <3>4. ASSUME NEW k \in 1..n PROVE IsPart(ss[k], c)
      <4>1. CASE k = n
        BY <3>2, <4>1, PartOfJoin DEF b
      <4>2. CASE k # n
        <5>1. k \in 1..(n - 1) /\ k \in 1..m
          BY <1>0, <4>2
        <5>2. IsPart(ss[k], a) /\ ss[k] \in Seq(Statement)
          BY <1>0, <3>2, <5>1 DEF a
        <5> QED
          BY <3>2, <5>2, PartOfJoin
      <4> QED
        BY <4>1, <4>2
    <3>5. Within(a, n - 1)
      BY <3>2 DEF a
    <3> HIDE DEF c, Good
    <3>6. ASSUME NEW j \in 1..Len(c)
          PROVE  \E k \in 1..n : \E i \in 1..Len(ss[k]) : c[j] = ss[k][i]
      <4>1. CASE j <= Len(a)
        <5>1. j \in 1..Len(a) /\ c[j] = a[j]
          BY <3>3, <4>1
        <5>2. PICK k \in 1..(n - 1) : \E i \in 1..Len(ss[k]) : a[j] = ss[k][i]
          BY <3>5, <5>1
        <5>3. k \in 1..n
          BY <1>0
        <5> QED
          BY <5>1, <5>2, <5>3
      <4>2. CASE j > Len(a)
        <5>1. j - Len(a) \in 1..Len(b) /\ c[j] = b[j - Len(a)]
          <6> DEFINE i == j - Len(a)
          <6>1. i \in 1..Len(b) /\ j = Len(a) + i
            BY <3>3, <4>2
          <6> HIDE DEF i
          <6>2. c[j] = b[i]
            BY <3>3, <6>1
          <6> QED
            BY <6>1, <6>2 DEF i
        <5> QED
          BY <2>1, <5>1 DEF b
      <4>3. j <= Len(a) \/ j > Len(a)
        BY <3>3
      <4> QED
        BY <4>1, <4>2, <4>3
    <3>7. Good(n)
      BY <3>2, <3>4, <3>6 DEF Good
    <3> QED
      BY <2>1, <3>7
  <2> QED
    BY <2>3, <2>4
<1>4. m \in P
  <2> HIDE DEF P, m
  <2>1. \A i \in 0..m : i \in P
    BY <1>0, <1>2, <1>3, Climb
  <2> QED
    BY <1>0, <2>1
<1>5. Good(m)
  BY <1>0, <1>4
<1> QED
  BY <1>1, <1>5

\* Parts of what is free of contradictions are, too.
LEMMA PartIsApart ==
  ASSUME NEW a \in Seq(Statement), NEW c \in Seq(Statement), IsPart(a, c), Apart(c)
  PROVE  Apart(a)
<1>1. PICK k \in Nat : k + Len(a) <= Len(c) /\ \A j \in 1..Len(a) : c[k + j] = a[j]
  BY DEF IsPart
<1>2. \A j \in 1..Len(a) : k + j \in 1..Len(c)
  BY <1>1
<1>3. \A i, j \in 1..Len(a) : i # j => k + i # k + j
  OBVIOUS
<1> QED
  <2> SUFFICES ASSUME NEW i \in 1..Len(a), NEW j \in 1..Len(a), i # j,
                      a[i].op \in {"create", "drop"}, a[j].op \in {"create", "drop"}
               PROVE  a[i].item # a[j].item
    BY DEF Apart
  <2>1. k + i \in 1..Len(c) /\ k + j \in 1..Len(c) /\ k + i # k + j
    BY <1>2, <1>3
  <2>2. c[k + i] = a[i] /\ c[k + j] = a[j]
    BY <1>1
  <2> QED
    BY <2>1, <2>2 DEF Apart

\* What the entries from m on do not touch is the same before and after them.
LEMMA MadeFrame ==
  ASSUME work \in [Call -> Work], chosen \in Seq(Entry), NEW m \in Nat, NEW k \in Nat,
         m <= k, k <= Len(chosen), NEW x,
         \A j \in (m + 1)..k : ~Guesses(chosen[j]) /\ x \notin Touches(chosen[j])
  PROVE  x \in Made(k) <=> x \in Made(m)
<1> DEFINE d == k - m
           P == {i \in 0..d : x \in Made(m + i) <=> x \in Made(m)}
<1>1. d \in Nat /\ d \in 0..d /\ m + d = k /\ Len(chosen) \in Nat
  OBVIOUS
<1>2. 0 \in P
  BY <1>1
<1>3. ASSUME NEW i \in 1..d, i - 1 \in P PROVE i \in P
  <2> DEFINE j == m + i
             b == PayloadOf(chosen[j])
             db == Made(j - 1)
  <2>1. /\ j \in (m + 1)..k /\ j \in 1..Len(chosen) /\ m + (i - 1) = j - 1 /\ i \in 0..d
        /\ chosen[j] \in Entry
    BY <1>1
  <2>2. Made(j) = execute_write(db, b, Nil).file /\ db \in Databases(AnyItem)
    BY <2>1, ReplayStep
  <2>3. b \in Seq(Statement) /\ DOMAIN b = 1..Len(b)
    BY <2>1, EntryText
  <2>4. \A l \in 1..Len(b) : b[l].op # "random"
    BY <2>1, <2>3 DEF Guesses
  <2>5. Untouched(b, Len(b), x)
    BY <2>1, <2>3 DEF Untouched, Touches, Creates, Drops
  <2> HIDE DEF b, db
  <2>6. x \in execute_write(db, b, Nil).file <=> x \in db
    <3>1. Item \subseteq AnyItem /\ Nil \in AnyItem
      BY DEF AnyItem
    <3> QED
      BY <2>2, <2>3, <2>4, <2>5, <3>1, WriteFrame
  <2>7. x \in Made(j - 1) <=> x \in Made(m)
    BY <1>3, <2>1
  <2> QED
    BY <2>1, <2>2, <2>6, <2>7 DEF db
<1>4. d \in P
  <2> HIDE DEF P, d
  <2>1. \A i \in 0..d : i \in P
    BY <1>1, <1>2, <1>3, Climb
  <2> QED
    BY <1>1, <2>1
<1> QED
  BY <1>1, <1>4

\* A validated entry without contradictions that raced with nothing works.
LEMMA WorksIfNoRace ==
  ASSUME RaceInv, NEW i \in 1..Len(chosen), seen[chosen[i]] # Nil,
         \A k \in 1..i : ~Guesses(chosen[k]), ~Misfits(chosen[i]),
         \A j \in (seen[chosen[i]] + 1)..(i - 1) :
            Touches(chosen[j]) \cap Touches(chosen[i]) = {}
  PROVE  LET conn == execute_write(Made(i - 1), PayloadOf(chosen[i]), Nil)
         IN  conn.ok /\ ~conn.open
<1> DEFINE e == chosen[i]
           w == work[e[1]]
           ss == w.statements
           flat == FlattenSeq(ss)
           p == PayloadOf(e)
           m == seen[e]
           wrapped == w.type = "transaction"
<1>1. /\ chosen \in Seq(Entry) /\ work \in [Call -> Work] /\ e \in Entry /\ i \in Nat
      /\ w \in Work /\ ss \in Seq(Seq(Statement)) /\ slot[e] = i /\ Len(chosen) \in Nat
      /\ i <= Len(chosen) /\ i > 0
  <2>1. chosen \in Seq(Entry) /\ work \in [Call -> Work] /\ Len(chosen) \in Nat
    BY RaceTypes DEF RaceInv
  <2>2. e \in Entry /\ slot[e] = i /\ i \in Nat /\ i <= Len(chosen) /\ i > 0
    BY <2>1 DEF RaceInv, EntriesPlaced
  <2> HIDE DEF e
  <2>3. w \in Work
    BY <2>1, <2>2 DEF Entry
  <2> QED
    BY <2>1, <2>2, <2>3, SqlAssumption
<1>2. m \in Nat /\ m < i /\ Tried(w, Made(m)) /\ Sound(w)
  <2>1. m \in 0..Len(chosen) /\ Tried(w, Made(m))
    BY <1>1 DEF RaceInv, EntriesTried
  <2>2. m < i
    BY <1>1 DEF RaceInv, EntriesBehind
  <2>3. Sound(w)
    <3>1. slot[e] # 0 /\ e \in Entry
      BY <1>1
    <3> HIDE DEF e
    <3> QED
      BY <3>1 DEF RaceInv, EntriesSound
  <2> QED
    BY <2>1, <2>2, <2>3
<1> DEFINE db == Made(m)
           now == Made(i - 1)
<1>3. db \in Databases(AnyItem) /\ now \in Databases(AnyItem)
  <2>1. m + 1 \in 1..Len(chosen) /\ (m + 1) - 1 = m
    BY <1>1, <1>2
  <2>2. Made((m + 1) - 1) \in Databases(AnyItem)
    BY <1>1, <2>1, ReplayStep
  <2>3. now \in Databases(AnyItem)
    BY <1>1, ReplayStep
  <2> QED
    BY <2>1, <2>2, <2>3
<1>4. Item \subseteq AnyItem /\ Nil \in AnyItem
  BY DEF AnyItem
<1>5. /\ p \in Seq(Statement) /\ DOMAIN p = 1..Len(p) /\ Apart(p)
      /\ \A j \in 1..Len(p) : p[j].op # "comment" /\ p[j].op # "random"
  <2>1. p \in Seq(Statement) /\ DOMAIN p = 1..Len(p)
    BY <1>1, EntryText
  <2>2. \A j \in 1..Len(p) : p[j].op # "comment"
    BY <2>1 DEF Misfits
  <2>3. Apart(p)
    BY <2>1 DEF Misfits, Apart
  <2>4. ~Guesses(e)
    BY <1>1
  <2>5. \A j \in 1..Len(p) : p[j].op # "random"
    BY <2>1, <2>4 DEF Guesses
  <2> QED
    BY <2>1, <2>2, <2>3, <2>5
<1>6. flat \in Seq(Statement)
  BY <1>1, FlattenType
<1>7. p = IF wrapped THEN Wrapped(flat) ELSE flat
  BY DEF PayloadOf, Payload, Wrapped
<1>8. ASSUME NEW j \in 1..Len(p), p[j].op \in {"create", "drop"} PROVE p[j].item \in Touches(e)
  BY <1>5, <1>8 DEF Touches, Creates, Drops
<1>9. \A x \in Touches(e) : x \in now <=> x \in db
  <2> SUFFICES ASSUME NEW x \in Touches(e) PROVE x \in now <=> x \in db
    OBVIOUS
  <2>1. i - 1 \in Nat /\ m <= i - 1 /\ i - 1 <= Len(chosen)
    BY <1>1, <1>2
  <2>2. ASSUME NEW j \in (m + 1)..(i - 1)
        PROVE  ~Guesses(chosen[j]) /\ x \notin Touches(chosen[j])
    <3>1. j \in 1..i
      BY <1>1, <1>2
    <3> QED
      BY <3>1
  <2> DEFINE k == i - 1
  <2>3. /\ k \in Nat /\ m <= k /\ k <= Len(chosen)
        /\ \A j \in (m + 1)..k : ~Guesses(chosen[j]) /\ x \notin Touches(chosen[j])
    BY <2>1, <2>2
  <2> HIDE DEF k, m, e
  <2>4. x \in Made(k) <=> x \in Made(m)
    BY <1>1, <1>2, <2>3, MadeFrame
  <2> QED
    BY <2>4 DEF k
<1> HIDE DEF db, now, p, w, flat, m
<1>10. PICK r \in Item : Validated(db, ss, r).ok
  BY <1>2 DEF Tried, db
<1>11. Len(ss) > 0 /\ \A k \in 1..Len(ss) : validate_sql(db, ss[k], r).ok
  <2>1. r \in AnyItem
    BY <1>4
  <2> HIDE DEF ss
  <2> QED
    BY <1>1, <1>3, <1>4, <1>10, <2>1, ValidatedMeans
<1>12. /\ \A k \in 1..Len(ss) : IsPart(ss[k], flat)
       /\ \A j \in 1..Len(flat) : \E k \in 1..Len(ss) : \E l \in 1..Len(ss[k]) : flat[j] = ss[k][l]
  BY <1>1, <1>11, FlatParts DEF flat
<1> HIDE DEF ss, wrapped
<1>13. /\ Apart(flat)
       /\ \A j \in 1..Len(flat) : flat[j].op # "comment" /\ flat[j].op # "random"
  <2>1. CASE ~wrapped
    BY <1>5, <1>7, <2>1
  <2>2. CASE wrapped
    <3>1. /\ p \in Seq(Statement) /\ Len(p) = Len(flat) + 2
          /\ \A j \in 1..Len(flat) : p[j + 1] = flat[j]
      BY <1>6, <1>7, <2>2, WrappedIs
    <3>2. Len(flat) \in Nat /\ 1 + Len(flat) <= Len(p)
      BY <1>6, <3>1
    <3>3. \A j \in 1..Len(flat) : p[1 + j] = flat[j] /\ j + 1 \in 1..Len(p)
      BY <3>1, <3>2
    <3>4. IsPart(flat, p)
      BY <3>2, <3>3 DEF IsPart
    <3>5. Apart(flat)
      BY <1>5, <1>6, <3>4, PartIsApart
    <3> QED
      BY <1>5, <3>1, <3>3, <3>5
  <2> QED
    BY <2>1, <2>2
<1>14. ASSUME NEW k \in 1..Len(ss)
       PROVE  \A l \in 1..Len(ss[k]) : Fits(ss[k][l], db) /\ ss[k][l].op \in {"create", "drop"}
  <2> DEFINE b == ss[k]
  <2>1. b \in Seq(Statement) /\ IsPart(b, flat) /\ validate_sql(db, b, r).ok
    BY <1>1, <1>11, <1>12
  <2> HIDE DEF b
  <2>2. Apart(b)
    BY <1>6, <1>13, <2>1, PartIsApart
  <2>3. \A l \in 1..Len(b) : b[l].op \notin {"comment", "random"}
    <3>1. PICK o \in Nat : o + Len(b) <= Len(flat) /\ \A l \in 1..Len(b) : flat[o + l] = b[l]
      BY <2>1 DEF IsPart
    <3>2. \A l \in 1..Len(b) : o + l \in 1..Len(flat)
      BY <1>6, <2>1, <3>1
    <3> QED
      BY <1>13, <3>1, <3>2
  <2>4. r \in AnyItem
    BY <1>4
  <2>5. \A l \in 1..Len(b) : Fits(b[l], db) /\ b[l].op \in {"create", "drop"}
    BY <1>3, <1>4, <2>1, <2>2, <2>3, <2>4, ValidFits
  <2> QED
    BY <2>5 DEF b
<1>15. \A j \in 1..Len(flat) : Fits(flat[j], db) /\ flat[j].op \in {"create", "drop"}
  <2> SUFFICES ASSUME NEW j \in 1..Len(flat)
               PROVE  Fits(flat[j], db) /\ flat[j].op \in {"create", "drop"}
    OBVIOUS
  <2>1. PICK k \in 1..Len(ss) : \E l \in 1..Len(ss[k]) : flat[j] = ss[k][l]
    BY <1>12
  <2> QED
    BY <1>14, <2>1
<1>16. IsText(p, wrapped) /\ \A j \in 1..Len(p) : Fits(p[j], db)
  <2>1. CASE ~wrapped
    <3>1. p = flat
      BY <1>7, <2>1
    <3>2. IsText(p, wrapped)
      BY <1>15, <2>1, <3>1 DEF IsText
    <3> QED
      BY <1>15, <3>1, <3>2
  <2>2. CASE wrapped
    <3> DEFINE n == Len(flat)
    <3>1. /\ n \in Nat /\ Len(p) = n + 2
          /\ p[1] = [op |-> "begin"] /\ p[n + 2] = [op |-> "commit"]
          /\ \A j \in 1..n : p[j + 1] = flat[j]
      BY <1>6, <1>7, <2>2, WrappedIs
    <3>2. ASSUME NEW j \in 1..Len(p)
          PROVE  /\ p[j].op \in {"create", "drop", "begin", "commit"}
                 /\ p[j].op = "begin" <=> j = 1
                 /\ p[j].op = "commit" <=> j = n + 2
                 /\ Fits(p[j], db)
      <4>1. CASE j = 1
        BY <3>1, <4>1 DEF Fits
      <4>2. CASE j = n + 2
        BY <3>1, <4>2 DEF Fits
      <4>3. CASE j # 1 /\ j # n + 2
        <5> DEFINE l == j - 1
        <5>1. l \in 1..n /\ l + 1 = j
          BY <3>1, <4>3
        <5> HIDE DEF l
        <5>2. p[j] = flat[l]
          BY <3>1, <5>1
        <5>3. Fits(flat[l], db) /\ flat[l].op \in {"create", "drop"}
          BY <1>15, <5>1
        <5> QED
          BY <4>3, <5>2, <5>3
      <4> QED
        BY <4>1, <4>2, <4>3
    <3>3. IsText(p, wrapped)
      BY <2>2, <3>1, <3>2 DEF IsText
    <3> QED
      BY <3>2, <3>3
  <2> QED
    BY <2>1, <2>2
<1>17. ASSUME NEW j \in 1..Len(p) PROVE Fits(p[j], now)
  <2>1. Fits(p[j], db)
    BY <1>16
  <2>2. p[j].op \in {"create", "drop"} => (p[j].item \in now <=> p[j].item \in db)
    BY <1>8, <1>9
  <2> QED
    BY <2>1, <2>2 DEF Fits
<1>18. wrapped \in BOOLEAN
  BY DEF wrapped
<1>19. execute_write(now, p, Nil).ok /\ ~execute_write(now, p, Nil).open
  BY <1>3, <1>4, <1>5, <1>16, <1>17, <1>18, FittingWorks
<1> QED
  BY <1>19 DEF now, p, e

\* A statement that passed on what the log made then, and fails when its turn
\* comes, contradicts itself or lost a race against an entry between.
THEOREM FailuresAreRaces == Spec => []FailsOnlyByRace
<1>1. RaceInv => FailsOnlyByRace
  <2> SUFFICES ASSUME RaceInv, NEW i \in DOMAIN chosen,
                      seen[chosen[i]] # Nil, ~(\E k \in 1..i : Guesses(chosen[k])),
                      ~Misfits(chosen[i]),
                      ~(\E j \in (seen[chosen[i]] + 1)..(i - 1) :
                           Touches(chosen[j]) \cap Touches(chosen[i]) # {})
               PROVE  LET conn == execute_write(Replay(i - 1), PayloadOf(chosen[i]), Nil)
                      IN  conn.ok /\ ~conn.open
    BY DEF FailsOnlyByRace
  <2>1. i \in 1..Len(chosen)
    BY RaceTypes DEF RaceInv
  <2>2. Made(i - 1) = Replay(i - 1)
    BY DEF Made, Replay, After, Rewrite, PayloadOf
  <2> QED
    BY <2>1, <2>2, WorksIfNoRace
<1> QED
  BY <1>1, RaceStart, RaceStep, PTL DEF Spec
====
