----------------------------- MODULE SqlCluster -----------------------------
(***************************************************************************)
(* What the replicated statements do to the data: the databases of several *)
(* titan-node processes over one log, the SQLite adapter through which     *)
(* they are written (crates/sqlite-adapter/src/lib.rs), the handlers of    *)
(* cmd/titan-node/src/main.rs and the calls of the Python client           *)
(* (clients/python/titan_db.py).                                           *)
(*                                                                         *)
(* Consensus is ReplicatedLog: `chosen' grows and every node executes a    *)
(* prefix of it.  TitanRaft keeps that promise under SpecQuorum only; the  *)
(* commit rule of the code may break it, and with it what is said here of  *)
(* databases.  Locks and confirmations are in TitanServer; here a          *)
(* critical section of a handler is one action.  All use of the database   *)
(* of a process is behind its db mutex, so SQLite never answers BUSY.      *)
(*                                                                         *)
(* A database is a set of items: tables, or rows under their primary key.  *)
(* SQL text is a batch, a sequence of statements: `create' fails on what   *)
(* is there and `drop' on what is not, `random' creates an item SQLite     *)
(* picks at that moment (random(), the clock), `begin' and `commit' are    *)
(* themselves, and `comment' opens a comment that nothing closes.          *)
(***************************************************************************)
EXTENDS Naturals, Sequences, FiniteSets, SequencesExt

CONSTANTS
    Node,
    Call,        \* calls of execute() and transaction(), one client each
    Item,
    Work,        \* what may be asked: [type, statements], a sequence of batches
    Adhoc,       \* statements other than SELECT that reach /query
    Nil,
    MaxReigns,   \* bound on the elections
    MaxCrashes   \* bound on the crashes

Statement == [op : {"create", "drop"}, item : Item]
               \cup [op : {"random", "begin", "commit", "comment"}]

ASSUME SqlAssumption ==
    /\ Nil \notin Node \cup Nat
    /\ MaxReigns \in Nat /\ MaxCrashes \in Nat
    /\ Work \subseteq [type : {"execute", "transaction"},
                        statements : Seq(Seq(Statement))]
    /\ \A w \in Work : w.type = "execute" => Len(w.statements) = 1
    /\ Adhoc \subseteq Statement

VARIABLES
    chosen,     \* the committed entries, in order
    slot,       \* where an entry was put in the log; 0 if it was not
    leads,      \* node: role = Leader
    base,       \* node: length of its log when it was elected
    mine,       \* node: what it has appended since
    executed,   \* node: last_applied
    database,   \* node: its SQLite file
    strayed,    \* node: has something but the log decided about its database?
    work,       \* call: what it is asked to do
    pc,         \* call: where it is, in the client or in a handler
    told,       \* call: what its caller has been told, see Ends
    try,        \* call: 1, or 2 in the retry
    at,         \* call: the node it was sent to; Nil if it is nowhere
    seen,       \* entry: executed[n] when node n validated it; Nil if n strayed
    reigns, crashes

consensus == <<chosen, slot, leads, base, mine, reigns>>
data == <<executed, database, strayed>>
client == <<work, pc, told, try, at>>
vars == <<consensus, data, client, seen, crashes>>

\* Each attempt of a call may put an entry into the log.
Entry == Call \X {1, 2}
This(c) == <<c, try[c]>>

(***************************************************************************)
(* SQLite, as far as the adapter depends on it: a connection runs a batch  *)
(* statement by statement up to the first that fails.  Inside a            *)
(* transaction the file keeps what it had; closing rolls back.             *)
(***************************************************************************)
Succeeds(conn, s) ==
    \/ s.op = "create" /\ s.item \notin conn.items
    \/ s.op = "drop" /\ s.item \in conn.items
    \/ s.op = "random"
    \/ s.op = "begin" /\ ~conn.open
    \/ s.op = "commit" /\ conn.open

ItemsAfter(conn, s, r) ==
    CASE s.op = "create" -> conn.items \cup {s.item}
      [] s.op = "drop"   -> conn.items \ {s.item}
      [] s.op = "random" -> conn.items \cup {r}
      [] OTHER           -> conn.items

\* r is what SQLite picks for `random'.  COMMIT ends savepoints, too.
RunStatement(conn, s, r) ==
    IF ~conn.ok \/ ~Succeeds(conn, s) THEN [conn EXCEPT !.ok = FALSE]
    ELSE LET open == s.op = "begin" \/ (conn.open /\ s.op # "commit")
             items == ItemsAfter(conn, s, r)
         IN  [conn EXCEPT !.items = items,
                          !.file = IF open THEN @ ELSE items,
                          !.open = open,
                          !.savepoint = @ /\ s.op # "commit"]

\* An open comment hides the rest of the batch.  SQLite accepts that.
Heard(batch) ==
    LET comments == {i \in DOMAIN batch : batch[i].op = "comment"}
    IN  IF comments = {} THEN batch ELSE SubSeq(batch, 1, Min(comments) - 1)

execute_batch(conn, batch, r) ==
    FoldLeft(LAMBDA c, s : RunStatement(c, s, r), conn, Heard(batch))

Opened(db) ==
    [ok |-> TRUE, open |-> FALSE, savepoint |-> FALSE, items |-> db, file |-> db]

InSavepoint(db) == [Opened(db) EXCEPT !.open = TRUE, !.savepoint = TRUE]

(***************************************************************************)
(* SqliteAdapter.                                                          *)
(***************************************************************************)
execute_write(db, batch, r) == execute_batch(Opened(db), batch, r)

\* Slip: the savepoint is released without having been rolled back.
ValidateKeeping(db, batch, r) ==
    LET conn == execute_batch(InSavepoint(db), batch, r)
    IN  [ok |-> batch # <<>> /\ conn.ok /\ conn.savepoint, file |-> conn.items]

\* Slip: whatever is not empty passes.
ValidateNothing(db, batch, r) == [ok |-> batch # <<>>, file |-> db]

\* SAVEPOINT, the batch, ROLLBACK TO and RELEASE.  After a batch that commits
\* there is nothing to roll back to: the statement is refused for that, and
\* what it committed stays.
validate_sql(db, batch, r) ==
    LET conn == execute_batch(InSavepoint(db), batch, r)
    IN  [ok |-> batch # <<>> /\ conn.ok /\ conn.savepoint, file |-> conn.file]

(***************************************************************************)
(* What is validated and what is put into the log (main.rs).               *)
(***************************************************************************)
\* handle_transaction stops at the first statement that is refused.
Validated(db, batches, r) ==
    FoldLeft(LAMBDA v, b : IF v.ok THEN validate_sql(v.file, b, r) ELSE v,
             [ok |-> batches # <<>>, file |-> db], batches)

\* Slip: statements are joined, but not wrapped.
Joined(w) == FlattenSeq(w.statements)

Payload(w) ==
    IF w.type = "transaction"
    THEN <<[op |-> "begin"]>> \o FlattenSeq(w.statements) \o <<[op |-> "commit"]>>
    ELSE FlattenSeq(w.statements)

Commits(batches) ==
    \E i \in DOMAIN batches : \E j \in DOMAIN batches[i] : batches[i][j].op = "commit"

PayloadOf(e) == Payload(work[e[1]])

\* Replicated as text, it may do something else on every node.
Guesses(e) == \E i \in DOMAIN PayloadOf(e) : PayloadOf(e)[i].op = "random"

Init ==
    /\ chosen = <<>> /\ slot = [e \in Entry |-> 0]
    /\ leads = [n \in Node |-> FALSE]
    /\ base = [n \in Node |-> 0] /\ mine = [n \in Node |-> <<>>]
    /\ executed = [n \in Node |-> 0]
    /\ database = [n \in Node |-> {}]
    /\ strayed = [n \in Node |-> FALSE]
    /\ work \in [Call -> Work]
    /\ pc = [c \in Call |-> "find"]
    /\ told = [c \in Call |-> "nothing"]
    /\ try = [c \in Call |-> 0]
    /\ at = [c \in Call |-> Nil]
    /\ seen = [e \in Entry |-> Nil]
    /\ reigns = 0 /\ crashes = 0

(***************************************************************************)
(* Consensus.  A new leader's log holds everything chosen, and maybe more. *)
(* An old leader that has not heard of it goes on appending; of the        *)
(* entries put at one index, one is chosen (here any: TitanRaft says       *)
(* which).                                                                 *)
(***************************************************************************)
LastSlot == CHOOSE i \in {slot[e] : e \in Entry} : \A e \in Entry : slot[e] <= i

BecomeLeader(n) ==
    /\ ~leads[n] /\ reigns < MaxReigns
    /\ reigns' = reigns + 1
    /\ leads' = [leads EXCEPT ![n] = TRUE]
    /\ \E k \in Len(chosen)..LastSlot : base' = [base EXCEPT ![n] = k]
    /\ UNCHANGED <<chosen, slot, mine, data, client, seen, crashes>>

Deposed(n) ==
    /\ leads' = [leads EXCEPT ![n] = FALSE]
    /\ base' = [base EXCEPT ![n] = 0]
    /\ mine' = [mine EXCEPT ![n] = <<>>]

StepDown(n) ==
    /\ leads[n]
    /\ Deposed(n)
    /\ UNCHANGED <<chosen, slot, reigns, data, client, seen, crashes>>

Choose(e) ==
    /\ slot[e] = Len(chosen) + 1
    /\ chosen' = Append(chosen, e)
    /\ UNCHANGED <<slot, leads, base, mine, reigns, data, client, seen, crashes>>

\* While n leads it cannot have learned that another leader's entry was
\* chosen where it has one of its own, or beyond its log.
Knows(n, i) ==
    /\ i <= Len(chosen)
    /\ leads[n] /\ i > base[n] =>
         /\ i - base[n] <= Len(mine[n])
         /\ mine[n][i - base[n]] = chosen[i]

\* The apply loop: a statement SQLite refuses is logged, and that is all.
Execute(n) ==
    LET i == executed[n] + 1
    IN  /\ Knows(n, i)
        /\ \E r \in Item :
             database' = [database EXCEPT
                            ![n] = execute_write(@, PayloadOf(chosen[i]), r).file]
        /\ executed' = [executed EXCEPT ![n] = i]
        /\ strayed' = [strayed EXCEPT ![n] = @ \/ Guesses(chosen[i])]
        /\ UNCHANGED <<consensus, client, seen, crashes>>

(***************************************************************************)
(* GET /query prepares and steps the first statement it is given, also one *)
(* that writes: on this node, past the log.  Reading changes nothing.      *)
(* Bound: one such write is enough to make a node stray.                   *)
(***************************************************************************)
Query(n) ==
    /\ ~strayed[n]
    /\ \E s \in Adhoc, r \in Item :
         LET conn == execute_write(database[n], <<s>>, r)
         IN  /\ conn.file # database[n]
             /\ database' = [database EXCEPT ![n] = conn.file]
    /\ strayed' = [strayed EXCEPT ![n] = TRUE]
    /\ UNCHANGED <<consensus, executed, client, seen, crashes>>

(***************************************************************************)
(* The Python client: it asks the nodes who leads, the one it remembers    *)
(* first, and posts.  Roles may change meanwhile, also so that it finds    *)
(* none.  The caller gets the answer ("success"), a TitanError that says   *)
(* why it was not done ("refused"), or "failed": the TitanError of a       *)
(* connection that could not be made or broke, or the Timeout of requests, *)
(* which the client lets through.                                          *)
(***************************************************************************)
Ends(c, outcome) ==
    /\ pc' = [pc EXCEPT ![c] = "over"]
    /\ at' = [at EXCEPT ![c] = Nil]
    /\ told' = [told EXCEPT ![c] = IF @ = "nothing" THEN outcome ELSE @]

FindLeader(c) ==
    /\ pc[c] = "find"
    /\ \/ \E n \in Node :
            /\ leads[n]
            /\ at' = [at EXCEPT ![c] = n]
            /\ try' = [try EXCEPT ![c] = @ + 1]
            /\ pc' = [pc EXCEPT ![c] = "validate"]
            /\ UNCHANGED told
       \/ Ends(c, "refused") /\ UNCHANGED try
    /\ UNCHANGED <<consensus, data, work, seen, crashes>>

\* Slip: execute() tries until it is not refused.
RetriesForEver(c) == work[c].type = "execute" /\ told[c] = "nothing"

\* execute() tries a second time when it is refused, and only then.
Retries(c) == work[c].type = "execute" /\ try[c] = 1 /\ told[c] = "nothing"

TriesAgain(c) ==
    /\ pc' = [pc EXCEPT ![c] = "find"]
    /\ at' = [at EXCEPT ![c] = Nil]
    /\ UNCHANGED told

Refused(c) == IF Retries(c) THEN TriesAgain(c) ELSE Ends(c, "refused")

\* Slip: execute() tries again when it failed, too.
FailsAndRetries(c) ==
    /\ at[c] # Nil /\ told[c] = "nothing"
    /\ IF Retries(c) THEN TriesAgain(c) ELSE Ends(c, "failed")
    /\ UNCHANGED <<consensus, data, work, try, seen, crashes>>

\* The connection breaks or the client's timeout passes: before the handler
\* has the request, while it runs, or when nothing but its answer is left.
\* The handler does not hear of it before it waits.
Fails(c) ==
    /\ at[c] # Nil /\ told[c] = "nothing"
    /\ \/ pc[c] # "append" /\ Ends(c, "failed")
       \/ /\ pc[c] # "waiting"
          /\ told' = [told EXCEPT ![c] = "failed"]
          /\ UNCHANGED <<pc, at>>
    /\ UNCHANGED <<consensus, data, work, try, seen, crashes>>

(***************************************************************************)
(* handle_execute and handle_transaction.                                  *)
(***************************************************************************)
Validate(c) ==
    /\ pc[c] = "validate"
    /\ \E r \in Item :
         LET n == at[c]
             v == Validated(database[n], work[c].statements, r)
         IN  /\ database' = [database EXCEPT ![n] = v.file]
             /\ strayed' = [strayed EXCEPT
                  ![n] = @ \/ (v.file # database[n] /\ Commits(work[c].statements))]
             /\ \/ /\ ~v.ok
                   /\ Refused(c)
                   /\ UNCHANGED seen
                \/ /\ v.ok
                   /\ pc' = [pc EXCEPT ![c] = "append"]
                   /\ seen' = [seen EXCEPT
                        ![This(c)] = IF strayed[n] THEN Nil ELSE executed[n]]
                   /\ UNCHANGED <<told, at>>
    /\ UNCHANGED <<consensus, executed, work, try, crashes>>

AppendEntry(c) ==
    /\ pc[c] = "append"
    /\ LET n == at[c]
       IN  \/ /\ ~leads[n]
              /\ Refused(c)
              /\ UNCHANGED <<slot, mine>>
           \/ /\ leads[n]
              /\ slot' = [slot EXCEPT ![This(c)] = base[n] + Len(mine[n]) + 1]
              /\ mine' = [mine EXCEPT ![n] = Append(@, This(c))]
              /\ pc' = [pc EXCEPT ![c] = "waiting"]
              /\ UNCHANGED <<told, at>>
    /\ UNCHANGED <<chosen, leads, base, reigns, data, work, try, seen, crashes>>

\* Committed, or accepted only: TitanServer tells these apart.
Answer(c) ==
    /\ pc[c] = "waiting"
    /\ Ends(c, "success")
    /\ UNCHANGED <<consensus, data, work, try, seen, crashes>>

(***************************************************************************)
(* A process dies and starts again.  Entries whose commit it had stored    *)
(* but not executed are skipped (see TitanServer).  The calls it served    *)
(* find their connection broken.                                           *)
(***************************************************************************)
Crash(n) ==
    /\ crashes < MaxCrashes
    /\ crashes' = crashes + 1
    /\ Deposed(n)
    /\ \E i \in executed[n]..Len(chosen) :
         /\ executed' = [executed EXCEPT ![n] = i]
         /\ strayed' = [strayed EXCEPT ![n] = @ \/ i > executed[n]]
    /\ pc' = [c \in Call |-> IF at[c] = n THEN "over" ELSE pc[c]]
    /\ told' = [c \in Call |-> IF at[c] = n /\ told[c] = "nothing" THEN "failed"
                               ELSE told[c]]
    /\ at' = [c \in Call |-> IF at[c] = n THEN Nil ELSE at[c]]
    /\ UNCHANGED <<chosen, slot, reigns, database, work, try, seen>>

Next ==
    \/ \E n \in Node :
         BecomeLeader(n) \/ StepDown(n) \/ Execute(n) \/ Query(n) \/ Crash(n)
    \/ \E e \in Entry : Choose(e)
    \/ \E c \in Call :
         \/ FindLeader(c) \/ Fails(c)
         \/ Validate(c) \/ AppendEntry(c) \/ Answer(c)

Spec == Init /\ [][Next]_vars

(***************************************************************************)
(* Properties                                                              *)
(***************************************************************************)

\* Every variable keeps its shape; no node is ahead of the log.
SqlTypeOK ==
    /\ chosen \in Seq(Entry)
    /\ slot \in [Entry -> Nat]
    /\ leads \in [Node -> BOOLEAN] /\ strayed \in [Node -> BOOLEAN]
    /\ base \in [Node -> Nat] /\ mine \in [Node -> Seq(Entry)]
    /\ executed \in [Node -> 0..Len(chosen)]
    /\ database \in [Node -> SUBSET Item]
    /\ work \in [Call -> Work]
    /\ pc \in [Call -> {"find", "validate", "append", "waiting", "over"}]
    /\ told \in [Call -> {"nothing", "success", "refused", "failed"}]
    /\ try \in [Call -> 0..2]
    /\ at \in [Call -> Node \cup {Nil}]
    /\ seen \in [Entry -> Nat \cup {Nil}]
    /\ reigns \in 0..MaxReigns /\ crashes \in 0..MaxCrashes

\* The database that the first k entries make, none of them `random'.
Replay(k) ==
    FoldLeft(LAMBDA db, e : execute_write(db, PayloadOf(e), Nil).file, {},
             SubSeq(chosen, 1, k))

\* A node's database is what the entries it has executed make of an empty
\* one, so that replicas at the same index agree and a stale read still shows
\* a state the cluster was in.  The exceptions are the nodes that strayed: by
\* a write through /query, a batch that commits during its validation, a
\* statement that is not deterministic, or entries skipped in a restart.
DatabaseFollowsLog ==
    \A n \in Node : ~strayed[n] => database[n] = Replay(executed[n])

\* What a batch may depend on and change.
Creates(b) == {b[i].item : i \in {j \in DOMAIN b : b[j].op = "create"}}
Drops(b) == {b[i].item : i \in {j \in DOMAIN b : b[j].op = "drop"}}

\* The statement at i decides about its item: none behind it touches that.
HasLastWord(b, i) ==
    /\ b[i].op \in {"create", "drop"}
    /\ \A j \in DOMAIN b : j > i =>
         /\ b[j].op # "random"
         /\ b[j].op \in {"create", "drop"} => b[j].item # b[i].item

\* README: "Multi-Table Transactions ... atomically across the cluster".  On
\* every node a transaction takes effect as a whole or not at all, whatever
\* its statements are, of those modelled here (SAVEPOINT and ROLLBACK are not),
\* and whichever of them SQLite refuses: if anything of it is in the file, then
\* so is the last word on each item.
TransactionAllOrNothing ==
    [][\A n \in Node :
         executed'[n] > executed[n] /\ database'[n] # database[n] =>
            LET e == chosen[executed'[n]]
                b == FlattenSeq(work[e[1]].statements)
            IN  work[e[1]].type = "transaction" =>
                    \A i \in DOMAIN b : HasLastWord(b, i) =>
                        (b[i].op = "create" <=> b[i].item \in database'[n])]_vars

\* One call puts one entry into the log at most: execute() posts a second
\* time only if the first attempt has written nothing, and never will.  There
\* is one if the caller was told success, and none, then and later, if it was
\* told why it was refused.  A caller whose call failed cannot know: the entry
\* may be there, its handler may still be about to write it, or never.
CallWritesOnce ==
    \A c \in Call :
        /\ try[c] = 2 => slot[<<c, 1>>] = 0
        /\ try[c] < 2 => slot[<<c, 2>>] = 0
        /\ told[c] = "success" => slot[This(c)] # 0
        /\ told[c] = "refused" => slot[<<c, 1>>] = 0 /\ slot[<<c, 2>>] = 0

\* What an entry may depend on and change.
Touches(e) == Creates(PayloadOf(e)) \cup Drops(PayloadOf(e))

\* Statements that pass one by one and do not work as one batch: two of them
\* collide, or one hides the COMMIT.
Misfits(e) ==
    LET b == PayloadOf(e)
    IN  \/ \E i \in DOMAIN b : b[i].op = "comment"
        \/ \E i, j \in DOMAIN b :
             /\ i # j /\ {b[i].op, b[j].op} \subseteq {"create", "drop"}
             /\ b[i].item = b[j].item

\* A statement was validated against a database that did not hold the entries
\* ahead of it in the log, and its client is told "committed" whatever SQLite
\* says when its turn comes.  It takes effect then, unless one of the entries
\* it had not seen touched what it touches, or it is a transaction of
\* statements that only work alone.
FailsOnlyByRace ==
    \A i \in DOMAIN chosen :
        LET e == chosen[i]
            conn == execute_write(Replay(i - 1), PayloadOf(e), Nil)
        IN  seen[e] # Nil /\ ~(\E k \in 1..i : Guesses(chosen[k])) =>
              \/ conn.ok /\ ~conn.open
              \/ Misfits(e)
              \/ \E j \in (seen[e] + 1)..(i - 1) :
                   Touches(chosen[j]) \cap Touches(e) # {}
=============================================================================
