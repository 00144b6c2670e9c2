------------------------------- MODULE MCSql -------------------------------
(***************************************************************************)
(* SqlCluster with two nodes, two calls and two items.                     *)
(***************************************************************************)
EXTENDS SqlCluster, TLC

CONSTANTS x, y

Symmetry == Permutations(Node) \cup Permutations(Call)

Create(i) == [op |-> "create", item |-> i]
Drop(i) == [op |-> "drop", item |-> i]
Commit == [op |-> "commit"]
Random == [op |-> "random"]
Comment == [op |-> "comment"]

Ask(type, statements) == [type |-> type, statements |-> statements]

\* The one call creates a table, the other is any of these: the same again;
\* transactions that may lose against that, one that contradicts itself and
\* one whose first statement hides the second and the COMMIT; a batch that
\* commits while it is validated, and one that is not deterministic.
MakesX == Ask("execute", << <<Create(x)>> >>)

Asked == {
    MakesX,
    Ask("transaction", << <<Create(y)>>, <<Create(x)>> >>),
    Ask("transaction", << <<Drop(x)>>, <<Create(y)>> >>),
    Ask("transaction", << <<Create(y)>>, <<Create(y)>> >>),
    Ask("transaction", << <<Create(y), Comment>>, <<Create(x)>> >>),
    Ask("execute", << <<Create(y), Commit>> >>),
    Ask("execute", << <<Random>> >>) }

SqlInit == Init /\ \E c \in Call : work[c] = MakesX

SqlSpec == SqlInit /\ [][Next]_vars

WriteByQuery == {Create(y)}

(***************************************************************************)
(* The view.  Of a call that is over, or that only has an answer to send   *)
(* which nobody waits for, no more is read than what it wrote and what its *)
(* caller may not be told of that; of one that wrote nothing, not even     *)
(* what it asked for.  What an attempt has seen that will never write is   *)
(* not read again either.                                                  *)
(***************************************************************************)
Over(c) == pc[c] = "over" \/ (pc[c] = "waiting" /\ told[c] # "nothing")

Wrote(c) == \E i \in {1, 2} : slot[<<c, i>>] # 0

CallView(c) ==
    IF ~Over(c) THEN <<work[c], pc[c], told[c], try[c], at[c]>>
    ELSE IF Wrote(c) THEN <<work[c], try[c], told[c] = "refused">>
    ELSE <<told[c] = "success">>

SqlView ==
    <<consensus, data, crashes, [c \in Call |-> CallView(c)],
      [e \in Entry |-> IF slot[e] = 0 /\ (Over(e[1]) \/ e[2] # try[e[1]])
                       THEN Nil ELSE seen[e]]>>
=============================================================================
