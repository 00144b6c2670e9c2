------------------------------ MODULE MCStore ------------------------------
(***************************************************************************)
(* RaftStore with two other leaders.  In term 1 one replicates two entries *)
(* here; this node may win term 2 and append behind any part of them; in   *)
(* term 3 another leader's log, diverging after one entry, overwrites.     *)
(***************************************************************************)
EXTENDS RaftStore, TLC

OthersSymmetry == Permutations(Others)

Made(terms) == [i \in 1..Len(terms) |-> [index |-> i, term |-> terms[i]]]

OneAndThree == [t \in {1, 3} |-> IF t = 1 THEN Made(<<1, 1>>) ELSE Made(<<1, 3>>)]

\* What was said in a term the file is past is never looked at again, `start'
\* only while a handler has not finished, and of a node whose mutex is poisoned
\* nothing but its file and what it has said.
StoreView ==
    <<IF poisoned THEN <<>> ELSE <<node, {m \in outbox : m.term >= LoadedTerm}>>,
      disk, writes, poisoned, crashes, {m \in sent : m.term >= LoadedTerm},
      IF Unfinished THEN start ELSE <<>>>>
=============================================================================
