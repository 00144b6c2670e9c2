------------------------------- MODULE MCRaft -------------------------------
(***************************************************************************)
(* TitanRaft on a cluster of three or four, with the schedules of elections *)
(* and client writes the runs choose between, and a view that keeps the    *)
(* history in `net' from multiplying states.                               *)
(***************************************************************************)
EXTENDS TitanRaft, TLC

CONSTANTS n1, n2, n3

NodeSymmetry == Permutations(Node)

(***************************************************************************)
(* Schedules.  AnyoneTwice: two terms, every node may stand in each.  Pair: *)
(* n1 may lead, then n2.  Seesaw: leadership goes back and forth between   *)
(* n1 and n2, so that an old leader resumes replicating its old entries.   *)
(***************************************************************************)
AnyoneOnce == <<Node>>
AnyoneTwice == <<Node, Node>>
Pair == <<{n1}, {n2}>>
Seesaw == <<{n1}, {n2}, {n1}, {n2}>>

NoWrites == <<0, 0>>
OneWrite == <<1>>
WriteInTwo == <<1, 2>>
WriteInTwoOfFour == <<1, 1, 0, 0>>

(***************************************************************************)
(* The view.  `net' never shrinks, so most states differ only in messages  *)
(* that no longer matter.  Terms never decrease and a node does not return *)
(* to a role it left within a term; hence                                  *)
(*   - a reply is spent when its receiver is past its term, or is not (and *)
(*     in that term will not again be) in the role that reads it;          *)
(*   - a request is overtaken when all it can still do is to have its      *)
(*     receiver tell the sender a higher term, so only the pair matters;   *)
(*   - a refusal from a higher term does nothing but convey that term;     *)
(*   - next_index, match_index are read in a leader only and set afresh    *)
(*     when one is elected, and so are a candidate's votes.                *)
(* States equal in the view allow the same steps, but for steps that leave *)
(* the view as it is, and stay equal in it.                                *)
(***************************************************************************)
IsRequest(m) == m.type \in {"RequestVote", "AppendEntries"}

IsRefusal(m) == \/ m.type = "RequestVoteReply" /\ ~m.vote_granted
                \/ m.type = "AppendEntriesReply" /\ ~m.success

Spent(m) ==
    \/ m.term < current_term[m.to]
    \/ /\ m.term = current_term[m.to]
       /\ \/ /\ m.type = "RequestVoteReply"
             /\ role[m.to] # "Candidate" \/ ~m.vote_granted
          \/ m.type = "AppendEntriesReply" /\ role[m.to] # "Leader"

Answered(m, yes) ==
    current_term[m.from] > m.term \/ yes \in net

Overtaken(m) ==
    \/ m.term < current_term[m.to]
    \/ /\ m.term = current_term[m.to]
       /\ m.type = "RequestVote"
       /\ voted_for[m.to] # Nil
       /\ voted_for[m.to] = m.from =>
            Answered(m, [type |-> "RequestVoteReply", from |-> m.to,
                         to |-> m.from, term |-> m.term, vote_granted |-> TRUE])
    \/ /\ m.term = current_term[m.to]
       /\ m.type = "AppendEntries"
       /\ role[m.to] = "Follower"
       /\ m.leader_commit <= commit_index[m.to]
       /\ PrevOk(log[m.to], m)
       /\ m.prev_log_index + Len(m.entries) <= Len(log[m.to])
       /\ m.entries = SubSeq(log[m.to], m.prev_log_index + 1,
                              m.prev_log_index + Len(m.entries))
       /\ Answered(m, [type |-> "AppendEntriesReply", from |-> m.to,
                       to |-> m.from, term |-> m.term, success |-> TRUE,
                       match_index |-> ReportedMatch(log[m.to], m)])

\* What is left of a message once its dead detail is dropped.
Residue(m) ==
    IF IsRequest(m)
    THEN IF Overtaken(m) THEN [type |-> "Overtaken", from |-> m.from, to |-> m.to]
                         ELSE m
    ELSE IF Spent(m) THEN [type |-> "Spent"]
    ELSE IF IsRefusal(m) /\ m.term > current_term[m.to]
    THEN [type |-> "News", to |-> m.to, term |-> m.term]
    ELSE m

LiveView ==
    <<durable, role, delivered,
      [n \in Node |-> IF role[n] = "Leader"
                      THEN <<next_index[n], match_index[n]>> ELSE <<>>],
      [n \in Node |-> IF role[n] = "Candidate" THEN votes_received[n] ELSE 0],
      {Residue(m) : m \in net} \ {[type |-> "Spent"]}>>

\* Properties about who voted and who led also need that much of the past.
ElectionView ==
    <<LiveView, {m \in net : IsVote(m)},
      {<<m.type, m.from, m.term>> : m \in {r \in net : IsRequest(r)}}>>
=============================================================================
