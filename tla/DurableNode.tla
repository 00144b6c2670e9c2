---------------------------- MODULE DurableNode ----------------------------
(***************************************************************************)
(* What TitanRaft takes for granted of one node's disk.  A handler happens *)
(* whole, or a crash inside it leaves something that is like another       *)
(* handler, except that the old vote may stand under the new term.         *)
(* RaftStore implements this write by write.                               *)
(***************************************************************************)
EXTENDS Naturals, Sequences

CONSTANTS Candidate, Nil

VARIABLES current_term, voted_for, log, commit_index

vars == <<current_term, voted_for, log, commit_index>>

Init == current_term = 0 /\ voted_for = Nil /\ log = <<>> /\ commit_index = 0

\* A higher term was heard of, and nothing else.
Hear ==
    /\ current_term' > current_term /\ voted_for' = Nil
    /\ UNCHANGED <<log, commit_index>>

\* The vote of a term is given, once, to the node itself or to another.
Vote ==
    /\ current_term' >= current_term
    /\ current_term' = current_term => voted_for \in {Nil, voted_for'}
    /\ voted_for' \in Candidate
    /\ UNCHANGED <<log, commit_index>>

\* Nothing committed is touched.
KeepsCommitted ==
    /\ Len(log') >= commit_index
    /\ SubSeq(log', 1, commit_index) = SubSeq(log, 1, commit_index)

\* Entries are truncated, appended, committed; TornAppend stops on the way.
Write ==
    /\ current_term' >= current_term
    /\ voted_for' = IF current_term' > current_term THEN Nil ELSE voted_for
    /\ KeepsCommitted
    /\ commit_index' \in commit_index..Len(log')

\* A crash leaves the vote it found, as TornCandidate and TornFollower do, or
\* brings one back whose deletion had failed; it may tear an append as well.
OldVote ==
    /\ current_term' >= current_term
    /\ voted_for \in {Nil, voted_for'} /\ voted_for' \in Candidate \cup {Nil}
    /\ KeepsCommitted
    /\ UNCHANGED commit_index

Next == Hear \/ Vote \/ Write \/ OldVote

Spec == Init /\ [][Next]_vars
=============================================================================
