----------------------------- MODULE MCCatchUp -----------------------------
(***************************************************************************)
(* CatchUp with a leader of term 3, one follower and one node down.        *)
(***************************************************************************)
EXTENDS CatchUp, TLC

\* Nobody else stands in the first three terms; one write in the third.
NobodyElse == <<{}, {}, {}>>
OneMore == <<0, 0, 3>>

Ones == <<1, 1>>

\* Behind, level, ahead with entries nobody else has, and in conflict with
\* the leader from the first or the second index on.
Laggards == {<<>>, <<1>>, <<1, 1, 1>>, <<2>>, <<1, 2, 2>>, <<2, 2, 2>>}
=============================================================================
