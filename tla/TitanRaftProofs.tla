-------------------------- MODULE TitanRaftProofs --------------------------
(***************************************************************************)
(* What TLAPS proves of the elections and the logs of TitanRaft, for every *)
(* cluster, payload set, schedule and set of crashing nodes, with and      *)
(* without duplicated datagrams.                                           *)
(***************************************************************************)
EXTENDS TitanRaft, SequenceTheorems, FiniteSetTheorems, TLAPS

(***************************************************************************)
(* Operators on logs and messages return what their names say.             *)
(***************************************************************************)

\* A log's last index and any term read from it are numbers.
LEMMA LogReadsType ==
    ASSUME NEW l \in Seq(Entry)
    PROVE  /\ LastIndex(l) \in Nat
           /\ LastTerm(l) \in Nat
           /\ \A i : TermAt(l, i) \in Nat
<1>1. l # <<>> => l[Len(l)] \in Entry
  BY Z3
<1>2. \A i \in 1..Len(l) : l[i] \in Entry
  OBVIOUS
<1> QED
  BY <1>1, <1>2 DEF LastIndex, LastTerm, TermAt, Entry

\* send_append_entries: the suffix from nidx on is a log, empty past the end.
LEMMA SuffixType ==
    ASSUME NEW l \in Seq(Entry), NEW k \in Nat \ {0}
    PROVE  SubSeq(l, k, Len(l)) \in Seq(Entry)
<1>1. \A i \in k..Len(l) : l[i] \in Entry
  OBVIOUS
<1> QED
  BY <1>1, SubSeqProperties

\* Cutting l before the first divergence and appending entries of es, all or
\* only up to i, gives a log.
LEMMA OverwriteType ==
    ASSUME NEW l \in Seq(Entry), NEW es \in Seq(Entry), NEW p \in Nat,
           p <= Len(l), NEW j \in FirstDiverging(l, p, es),
           NEW i \in (j - 1)..Len(es)
    PROVE  Overwrite(l, p, es, j, i) \in Seq(Entry)
<1>1. j \in 1..Len(es) /\ \A k \in 1..(j - 1) : p + k <= Len(l)
  <2>1. j \in 1..Len(es) /\ \A k \in 1..(j - 1) : ~(p + k > Len(l))
    BY DEF FirstDiverging, Diverges
  <2>2. ASSUME NEW k \in 1..(j - 1) PROVE p + k <= Len(l)
    <3>1. j \in Nat /\ k \in Nat /\ Len(l) \in Nat
      BY <2>1
    <3>2. ~(p + k > Len(l))
      BY <2>1
    <3> QED
      BY <3>1, <3>2
  <2> QED
    BY <2>1, <2>2
<1>2. p + j - 1 <= Len(l)
  <2>1. CASE j = 1
    BY <2>1
  <2>2. CASE j # 1
    <3>1. j - 1 \in 1..(j - 1)
      BY <1>1, <2>2
    <3> QED
      BY <1>1, <3>1
  <2> QED
    BY <2>1, <2>2
<1>3. SubSeq(l, 1, p + j - 1) \in Seq(Entry)
  <2>1. \A k \in 1..(p + j - 1) : l[k] \in Entry
    BY <1>1, <1>2
  <2> QED
    BY <1>1, <2>1, SubSeqProperties
<1>4. SubSeq(es, j, i) \in Seq(Entry)
  <2>1. \A k \in j..i : es[k] \in Entry
    BY <1>1
  <2> QED
    BY <1>1, <2>1, SubSeqProperties
<1> QED
  BY <1>3, <1>4, ConcatProperties DEF Overwrite

\* The merge of an accepted AppendEntries is a log.
LEMMA MergeType ==
    ASSUME NEW l \in Seq(Entry), NEW es \in Seq(Entry), NEW p \in Nat,
           p <= Len(l)
    PROVE  Merge(l, p, es) \in Seq(Entry)
<1>1. CASE FirstDiverging(l, p, es) = {}
  BY <1>1 DEF Merge
<1>2. CASE FirstDiverging(l, p, es) # {}
  <2> DEFINE j == CHOOSE x \in FirstDiverging(l, p, es) : TRUE
  <2>1. j \in FirstDiverging(l, p, es)
    BY <1>2
  <2>2. j \in 1..Len(es)
    BY <2>1 DEF FirstDiverging
  <2>3. Len(es) \in (j - 1)..Len(es)
    BY <2>2
  <2>4. Overwrite(l, p, es, j, Len(es)) \in Seq(Entry)
    BY <2>1, <2>3, OverwriteType
  <2> QED
    BY <1>2, <2>4 DEF Merge
<1> QED
  BY <1>1, <1>2
\* A message of a given type has that type's fields.
LEMMA MessageFields ==
    ASSUME NEW m \in Message
    PROVE  /\ m.from \in Node /\ m.to \in Node /\ m.term \in Nat
           /\ m.type = "RequestVote" => m \in RequestVote
           /\ m.type = "RequestVoteReply" => m \in RequestVoteReply
           /\ m.type = "AppendEntries" => m \in AppendEntries
           /\ m.type = "AppendEntriesReply" => m \in AppendEntriesReply
BY DEF Message, RequestVote, RequestVoteReply, AppendEntries,
       AppendEntriesReply

\* What send_append_entries builds from a log is an AppendEntries.
LEMMA AppendEntriesType ==
    ASSUME TypeOK, NEW n \in Node, NEW p \in Node, NEW l \in Seq(Entry),
           NEW k \in Nat \ {0}
    PROVE  AppendEntriesMsg(n, p, l, k) \in AppendEntries
<1>1. SubSeq(l, k, Len(l)) \in Seq(Entry)
  BY SuffixType
<1>2. TermAt(l, k - 1) \in Nat
  BY LogReadsType
<1>3. k - 1 \in Nat /\ current_term[n] \in Nat /\ commit_index[n] \in Nat
  BY DEF TypeOK
<1> QED
  BY <1>1, <1>2, <1>3 DEF AppendEntriesMsg, AppendEntries

\* broadcast_append_entries puts only AppendEntries on the network.
LEMMA BroadcastType ==
    ASSUME TypeOK, NEW n \in Node, NEW l \in Seq(Entry),
           NEW ni \in [Node -> Nat \ {0}]
    PROVE  Broadcast(n, l, ni) \subseteq Message
<1>1. ASSUME NEW p \in Peers(n)
      PROVE  AppendEntriesMsg(n, p, l, ni[p]) \in Message
  <2>1. p \in Node /\ ni[p] \in Nat \ {0}
    BY DEF Peers
  <2> QED
    BY <2>1, AppendEntriesType DEF Message
<1> QED
  BY <1>1 DEF Broadcast

\* The network keeps its type when well-formed messages are added.
LEMMA NetworkType ==
    ASSUME TypeOK, NEW ms, ms \subseteq Message
    PROVE  /\ Send(ms) => net' \subseteq Message /\ delivered' \subseteq net'
           /\ \A m \in net : Exchange(m, ms) =>
                net' \subseteq Message /\ delivered' \subseteq net'
<1>1. net \subseteq Message /\ delivered \subseteq net
  BY DEF TypeOK
<1>2. Send(ms) => net' \subseteq Message /\ delivered' \subseteq net'
  BY <1>1 DEF Send
<1>3. ASSUME NEW m \in net, Exchange(m, ms)
      PROVE  net' \subseteq Message /\ delivered' \subseteq net'
  BY <1>1, <1>3 DEF Exchange
<1> QED
  BY <1>2, <1>3

\* The term, vote and role a handler works with after step()'s first lines.
LEMMA AdoptedType ==
    ASSUME TypeOK, NEW n \in Node, NEW m \in Message
    PROVE  /\ TermAfter(n, m) \in Nat
           /\ VoteAfter(n, m) \in Node \cup {Nil}
           /\ RoleAfter(n, m) \in {"Follower", "Candidate", "Leader"}
BY MessageFields DEF TypeOK, TermAfter, VoteAfter, RoleAfter

\* A restart rebuilds the volatile state with its types.
LEMMA ForgetType ==
    ASSUME TypeOK, NEW n \in Node, Forget(n)
    PROVE  /\ role' \in [Node -> {"Follower", "Candidate", "Leader"}]
           /\ next_index' \in [Node -> [Node -> Nat \ {0}]]
           /\ match_index' \in [Node -> [Node -> Nat]]
           /\ votes_received' \in [Node -> Nat]
BY DEF TypeOK, Forget

(***************************************************************************)
(* Type correctness, one lemma per action or handler.                      *)
(***************************************************************************)
LEMMA BecomeCandidateType ==
    ASSUME TypeOK, NEW n \in Node, BecomeCandidate(n)
    PROVE  TypeOK'
<1> DEFINE ms == {RequestVoteMsg(n, p, current_term[n] + 1) : p \in Peers(n)}
<1>1. log[n] \in Seq(Entry) /\ current_term[n] \in Nat
  BY DEF TypeOK
<1>2. ms \subseteq Message
  <2>1. LastIndex(log[n]) \in Nat /\ LastTerm(log[n]) \in Nat
    BY <1>1, LogReadsType
  <2>2. \A p \in Peers(n) :
          RequestVoteMsg(n, p, current_term[n] + 1) \in RequestVote
    BY <1>1, <2>1 DEF RequestVoteMsg, RequestVote, Peers
  <2> QED
    BY <2>2 DEF Message
<1>3. net' \subseteq Message /\ delivered' \subseteq net'
  <2>1. Send(ms)
    BY DEF BecomeCandidate
  <2> QED
    BY <1>2, <2>1, NetworkType
<1> QED
  BY <1>3 DEF TypeOK, BecomeCandidate, leaderState

\* tick() of a leader preserves the types.
LEMMA HeartbeatType ==
    ASSUME TypeOK, NEW n \in Node, Heartbeat(n)
    PROVE  TypeOK'
<1>1. log[n] \in Seq(Entry) /\ next_index[n] \in [Node -> Nat \ {0}]
  BY DEF TypeOK
<1>2. Send(Broadcast(n, log[n], next_index[n]))
  BY DEF Heartbeat
<1>3. net' \subseteq Message /\ delivered' \subseteq net'
  BY <1>1, <1>2, BroadcastType, NetworkType
<1> QED
  BY <1>3 DEF TypeOK, Heartbeat, durable, leaderState

\* append_local_entry preserves the types: the new entry is well-formed.
LEMMA AppendLocalEntryType ==
    ASSUME TypeOK, NEW n \in Node, NEW v \in Value, AppendLocalEntry(n, v)
    PROVE  TypeOK'
<1> DEFINE e == [index |-> LastIndex(log[n]) + 1, term |-> current_term[n],
                 payload |-> v]
           l == Append(log[n], e)
<1>1. log[n] \in Seq(Entry) /\ next_index[n] \in [Node -> Nat \ {0}]
        /\ current_term[n] \in Nat
  BY DEF TypeOK
<1>2. l \in Seq(Entry)
  <2>1. LastIndex(log[n]) \in Nat
    BY <1>1, LogReadsType
  <2>2. e \in Entry
    BY <1>1, <2>1 DEF Entry
  <2> QED
    BY <1>1, <2>2, AppendProperties
<1>3. Send(Broadcast(n, l, next_index[n])) /\ log' = [log EXCEPT ![n] = l]
  BY DEF AppendLocalEntry
<1>4. net' \subseteq Message /\ delivered' \subseteq net'
  BY <1>1, <1>2, <1>3, BroadcastType, NetworkType
<1>5. log' \in [Node -> Seq(Entry)]
  BY <1>2, <1>3 DEF TypeOK
<1> QED
  BY <1>4, <1>5 DEF TypeOK, AppendLocalEntry, leaderState

\* step(), RequestVote, preserves the types.
LEMMA HandleRequestVoteType ==
    ASSUME TypeOK, NEW n \in Node, NEW m \in net, HandleRequestVote(n, m)
    PROVE  TypeOK'
<1> DEFINE r == [type |-> "RequestVoteReply", from |-> n, to |-> m.from,
                 term |-> TermAfter(n, m), vote_granted |-> Grants(n, m)]
<1>1. m \in Message /\ m.from \in Node
  BY MessageFields DEF TypeOK
<1>2. /\ TermAfter(n, m) \in Nat
      /\ VoteAfter(n, m) \in Node \cup {Nil}
      /\ RoleAfter(n, m) \in {"Follower", "Candidate", "Leader"}
  BY <1>1, AdoptedType
<1>3. {r} \subseteq Message
  <2>1. Grants(n, m) \in BOOLEAN
    BY DEF Grants, CanVote, LogOk
  <2>2. r \in RequestVoteReply
    BY <1>1, <1>2, <2>1 DEF RequestVoteReply
  <2> QED
    BY <2>2 DEF Message
<1>4. net' \subseteq Message /\ delivered' \subseteq net'
  <2>1. Exchange(m, {r})
    BY DEF HandleRequestVote
  <2> QED
    BY <1>3, <2>1, NetworkType
<1> QED
  BY <1>1, <1>2, <1>4 DEF TypeOK, HandleRequestVote, leaderState

\* step(), RequestVoteReply, preserves the types; a fresh next_index is not 0.
LEMMA HandleRequestVoteReplyType ==
    ASSUME TypeOK, NEW n \in Node, NEW m \in net, HandleRequestVoteReply(n, m)
    PROVE  TypeOK'
<1>1. m \in Message
  BY DEF TypeOK
<1>2. /\ TermAfter(n, m) \in Nat
      /\ VoteAfter(n, m) \in Node \cup {Nil}
      /\ RoleAfter(n, m) \in {"Follower", "Candidate", "Leader"}
  BY <1>1, AdoptedType
<1>3. log[n] \in Seq(Entry) /\ FreshNext(n) \in [Node -> Nat \ {0}]
  <2>1. log[n] \in Seq(Entry)
    BY DEF TypeOK
  <2>2. LastIndex(log[n]) \in Nat
    BY <2>1, LogReadsType
  <2> QED
    BY <2>1, <2>2 DEF FreshNext
<1>4. net' \subseteq Message /\ delivered' \subseteq net'
  <2>1. CASE Exchange(m, {})
    BY <2>1, NetworkType
  <2>2. CASE Exchange(m, Broadcast(n, log[n], FreshNext(n)))
    BY <1>3, <2>2, BroadcastType, NetworkType
  <2> QED
    BY <2>1, <2>2 DEF HandleRequestVoteReply
<1>5. role' \in [Node -> {"Follower", "Candidate", "Leader"}]
  BY <1>2 DEF TypeOK, HandleRequestVoteReply
<1>6. /\ next_index' \in [Node -> [Node -> Nat \ {0}]]
      /\ match_index' \in [Node -> [Node -> Nat]]
  <2>1. CASE UNCHANGED leaderState
    BY <2>1 DEF TypeOK, leaderState
  <2>2. CASE /\ next_index' = [next_index EXCEPT ![n] = FreshNext(n)]
             /\ match_index' = [match_index EXCEPT ![n] = [p \in Node |-> 0]]
    BY <1>3, <2>2 DEF TypeOK
  <2> QED
    BY <2>1, <2>2 DEF HandleRequestVoteReply
<1>7. votes_received' \in [Node -> Nat]
  <2>1. \/ votes_received' = votes_received
        \/ votes_received' = [votes_received EXCEPT ![n] = votes_received[n] + 1]
    BY DEF HandleRequestVoteReply
  <2>2. votes_received \in [Node -> Nat]
    BY DEF TypeOK
  <2> QED
    BY ONLY <2>1, <2>2
<1> QED
  BY <1>2, <1>4, <1>5, <1>6, <1>7 DEF TypeOK, HandleRequestVoteReply

\* step(), AppendEntries, preserves the types: merged log, commit and reply.
LEMMA HandleAppendEntriesType ==
    ASSUME TypeOK, NEW n \in Node, NEW m \in net, HandleAppendEntries(n, m)
    PROVE  TypeOK'
<1> DEFINE l == IF Accepts(n, m)
                THEN Merge(log[n], m.prev_log_index, m.entries) ELSE log[n]
           r == [type |-> "AppendEntriesReply", from |-> n, to |-> m.from,
                 term |-> TermAfter(n, m), success |-> Accepts(n, m),
                 match_index |-> IF Accepts(n, m) THEN ReportedMatch(l, m)
                                                  ELSE 0]
<1>1. m \in AppendEntries /\ m \in Message
  BY MessageFields DEF TypeOK, HandleAppendEntries
<1>2. /\ m.from \in Node /\ m.prev_log_index \in Nat
      /\ m.entries \in Seq(Entry) /\ m.leader_commit \in Nat
  BY <1>1 DEF AppendEntries
<1>3. /\ TermAfter(n, m) \in Nat
      /\ VoteAfter(n, m) \in Node \cup {Nil}
  BY <1>1, AdoptedType
<1>4. log[n] \in Seq(Entry) /\ commit_index[n] \in Nat
  BY DEF TypeOK
<1>5. l \in Seq(Entry)
  <2>1. CASE Accepts(n, m)
    <3>1. m.prev_log_index <= Len(log[n])
      BY <1>2, <1>4, <2>1 DEF Accepts, PrevOk
    <3> QED
      BY <1>2, <1>4, <2>1, <3>1, MergeType
  <2>2. CASE ~Accepts(n, m)
    BY <1>4, <2>2
  <2> QED
    BY <2>1, <2>2
<1>6. FollowedCommit(n, m, l) \in Nat
  <2>1. LastIndex(l) \in Nat
    BY <1>5, LogReadsType
  <2> QED
    BY <1>2, <1>4, <2>1 DEF FollowedCommit
<1>7. r \in Message
  <2>1. ReportedMatch(l, m) \in Nat
    BY <1>2 DEF ReportedMatch
  <2>2. Accepts(n, m) \in BOOLEAN
    BY DEF Accepts, PrevOk
  <2>3. r \in AppendEntriesReply
    BY <1>2, <1>3, <2>1, <2>2 DEF AppendEntriesReply
  <2> QED
    BY <2>3 DEF Message
<1>8. /\ Exchange(m, {r})
      /\ log' = [log EXCEPT ![n] = l]
      /\ commit_index' = [commit_index EXCEPT
            ![n] = IF Accepts(n, m) THEN FollowedCommit(n, m, l) ELSE @]
  BY DEF HandleAppendEntries
<1>9. net' \subseteq Message /\ delivered' \subseteq net'
  BY <1>7, <1>8, NetworkType
<1>10. log' \in [Node -> Seq(Entry)] /\ commit_index' \in [Node -> Nat]
  BY <1>5, <1>6, <1>8 DEF TypeOK
<1>11. /\ current_term' \in [Node -> Nat]
       /\ voted_for' \in [Node -> Node \cup {Nil}]
       /\ role' \in [Node -> {"Follower", "Candidate", "Leader"}]
  BY <1>3 DEF TypeOK, HandleAppendEntries
<1> QED
  BY <1>9, <1>10, <1>11 DEF TypeOK, HandleAppendEntries, leaderState

\* The leader's rule picks an index of its own log, or leaves things alone.
LEMMA NewCommitType ==
    ASSUME TypeOK, NEW n \in Node, NEW mi
    PROVE  NewCommit(n, mi) \in Nat
<1>1. Committable(n, mi) \subseteq Nat
  BY DEF Committable
<1> QED
  BY <1>1 DEF NewCommit, TypeOK

\* next_index never reaches 0 by stepping back.
LEMMA StepBackType ==
    ASSUME TypeOK, NEW n \in Node, NEW p \in Node, CanStepBack(n, p)
    PROVE  next_index[n][p] - 1 \in Nat \ {0}
<1>1. next_index[n][p] \in Nat
  BY DEF TypeOK
<1> QED
  BY <1>1 DEF CanStepBack

\* step(), AppendEntriesReply, preserves the types: indices of either outcome.
LEMMA HandleAppendEntriesReplyType ==
    ASSUME TypeOK, NEW n \in Node, NEW m \in net, HandleAppendEntriesReply(n, m)
    PROVE  TypeOK'
<1>1. m \in AppendEntriesReply /\ m \in Message
  BY MessageFields DEF TypeOK, HandleAppendEntriesReply
<1>2. m.from \in Node /\ m.match_index \in Nat
  BY <1>1 DEF AppendEntriesReply
<1>3. /\ TermAfter(n, m) \in Nat
      /\ VoteAfter(n, m) \in Node \cup {Nil}
      /\ RoleAfter(n, m) \in {"Follower", "Candidate", "Leader"}
  BY <1>1, AdoptedType
<1>4. /\ current_term' \in [Node -> Nat]
      /\ voted_for' \in [Node -> Node \cup {Nil}]
      /\ role' \in [Node -> {"Follower", "Candidate", "Leader"}]
      /\ log' \in [Node -> Seq(Entry)]
      /\ votes_received' \in [Node -> Nat]
  BY <1>3 DEF TypeOK, HandleAppendEntriesReply
<1>5. /\ commit_index' \in [Node -> Nat]
      /\ match_index' \in [Node -> [Node -> Nat]]
  <2> DEFINE mi == [match_index[n] EXCEPT ![m.from] = m.match_index]
  <2>1. CASE UNCHANGED <<commit_index, match_index>>
    BY <2>1 DEF TypeOK
  <2>2. CASE /\ match_index' = [match_index EXCEPT ![n] = mi]
             /\ commit_index' = [commit_index EXCEPT ![n] = NewCommit(n, mi)]
    <3>1. mi \in [Node -> Nat]
      BY <1>2 DEF TypeOK
    <3>2. NewCommit(n, mi) \in Nat
      BY NewCommitType
    <3> HIDE DEF mi
    <3> QED
      BY <2>2, <3>1, <3>2 DEF TypeOK
  <2> QED
    BY <2>1, <2>2 DEF HandleAppendEntriesReply, leaderState
<1>6. next_index' \in [Node -> [Node -> Nat \ {0}]]
  <2>1. CASE UNCHANGED next_index
    BY <2>1 DEF TypeOK
  <2>2. ASSUME NEW k \in Nat \ {0}
        PROVE  [next_index EXCEPT ![n][m.from] = k]
                 \in [Node -> [Node -> Nat \ {0}]]
    <3> DEFINE ni == [next_index[n] EXCEPT ![m.from] = k]
    <3>1. ni \in [Node -> Nat \ {0}]
      BY <1>2 DEF TypeOK
    <3> HIDE DEF ni
    <3>2. [next_index EXCEPT ![n] = ni] \in [Node -> [Node -> Nat \ {0}]]
      BY <3>1 DEF TypeOK
    <3> QED
      BY <3>2 DEF ni
  <2>3. CASE next_index' = [next_index EXCEPT ![n][m.from] = m.match_index + 1]
    <3>1. m.match_index + 1 \in Nat \ {0}
      BY <1>2
    <3> QED
      BY <2>2, <2>3, <3>1
  <2>4. CASE /\ CanStepBack(n, m.from)
             /\ next_index' = [next_index EXCEPT ![n][m.from] = @ - 1]
    <3>1. next_index[n][m.from] - 1 \in Nat \ {0}
      BY <1>2, <2>4, StepBackType
    <3> QED
      BY <2>2, <2>4, <3>1
  <2> QED
    BY <2>1, <2>3, <2>4 DEF HandleAppendEntriesReply, leaderState
<1>7. net' \subseteq Message /\ delivered' \subseteq net'
  <2> DEFINE r == AppendEntriesMsg(n, m.from, log[n], next_index[n][m.from] - 1)
  <2>1. CASE Exchange(m, {})
    BY <2>1, NetworkType
  <2>2. CASE Exchange(m, {r}) /\ CanStepBack(n, m.from)
    <3>1. next_index[n][m.from] - 1 \in Nat \ {0}
      BY <1>2, <2>2, StepBackType
    <3>2. log[n] \in Seq(Entry)
      BY DEF TypeOK
    <3>3. r \in Message
      BY <1>2, <3>1, <3>2, AppendEntriesType DEF Message
    <3> QED
      BY <2>2, <3>3, NetworkType
  <2> QED
    BY <2>1, <2>2 DEF HandleAppendEntriesReply
<1> QED
  BY <1>4, <1>5, <1>6, <1>7 DEF TypeOK

\* A crash, between or inside handlers, leaves well-formed state on disk.
LEMMA CrashType ==
    ASSUME TypeOK, NEW n \in Node, Crash(n)
    PROVE  TypeOK'
<1>1. CASE Restart(n)
  BY <1>1, ForgetType DEF TypeOK, Restart, durable, network
<1>2. CASE TornCandidate(n)
  <2>1. /\ Forget(n) /\ UNCHANGED <<voted_for, log, commit_index, net, delivered>>
        /\ current_term' = [current_term EXCEPT ![n] = current_term[n] + 1]
    BY <1>2 DEF TornCandidate, network
  <2>2. current_term' \in [Node -> Nat]
    BY <2>1 DEF TypeOK
  <2> QED
    BY <2>1, <2>2, ForgetType DEF TypeOK
<1>3. ASSUME NEW m \in net, TornFollower(n, m)
      PROVE  TypeOK'
  <2>1. m.term \in Nat
    BY MessageFields DEF TypeOK
  <2>2. Forget(n) /\ Exchange(m, {})
    BY <1>3 DEF TornFollower
  <2>3. net' \subseteq Message /\ delivered' \subseteq net'
    BY <2>2, NetworkType
  <2> QED
    BY <1>3, <2>1, <2>2, <2>3, ForgetType DEF TypeOK, TornFollower
<1>4. ASSUME NEW m \in net, TornAppend(n, m)
      PROVE  TypeOK'
  <2>1. m \in AppendEntries /\ m \in Message
    BY <1>4, MessageFields DEF TypeOK, TornAppend
  <2>2. m.prev_log_index \in Nat /\ m.entries \in Seq(Entry)
    BY <2>1 DEF AppendEntries
  <2>3. TermAfter(n, m) \in Nat /\ VoteAfter(n, m) \in Node \cup {Nil}
    BY <2>1, AdoptedType
  <2>4. log[n] \in Seq(Entry)
    BY DEF TypeOK
  <2>5. m.prev_log_index <= Len(log[n])
    BY <1>4, <2>2, <2>4 DEF TornAppend, Accepts, PrevOk
  <2>6. log' \in [Node -> Seq(Entry)]
    <3>1. PICK j \in FirstDiverging(log[n], m.prev_log_index, m.entries) :
            \E i \in (j - 1)..Len(m.entries) :
              log' = [log EXCEPT ![n] =
                        Overwrite(@, m.prev_log_index, m.entries, j, i)]
      BY <1>4 DEF TornAppend
    <3>2. PICK i \in (j - 1)..Len(m.entries) :
            log' = [log EXCEPT ![n] =
                      Overwrite(log[n], m.prev_log_index, m.entries, j, i)]
      BY <3>1
    <3>3. Overwrite(log[n], m.prev_log_index, m.entries, j, i) \in Seq(Entry)
      BY <2>2, <2>4, <2>5, OverwriteType
    <3> QED
      BY <3>2, <3>3 DEF TypeOK
  <2>7. Forget(n) /\ Exchange(m, {})
    BY <1>4 DEF TornAppend
  <2>8. net' \subseteq Message /\ delivered' \subseteq net'
    BY <2>7, NetworkType
  <2>9. current_term' \in [Node -> Nat] /\ voted_for' \in [Node -> Node \cup {Nil}]
    BY <1>4, <2>3 DEF TypeOK, TornAppend
  <2>10. commit_index' \in [Node -> Nat]
    BY <1>4 DEF TypeOK, TornAppend
  <2> QED
    BY <2>6, <2>7, <2>8, <2>9, <2>10, ForgetType DEF TypeOK
<1> QED
  BY <1>1, <1>2, <1>3, <1>4 DEF Crash

\* Every step of the node code preserves the types.
LEMMA TypeStep == TypeOK /\ [Next]_vars => TypeOK'
<1> SUFFICES ASSUME TypeOK, [Next]_vars PROVE TypeOK'
  OBVIOUS
<1>1. CASE UNCHANGED vars
  BY <1>1 DEF TypeOK, vars, durable, leaderState, network
<1>2. ASSUME NEW n \in Node, BecomeCandidate(n) PROVE TypeOK'
  BY <1>2, BecomeCandidateType
<1>3. ASSUME NEW n \in Node, Heartbeat(n) PROVE TypeOK'
  BY <1>3, HeartbeatType
<1>4. ASSUME NEW n \in Node, NEW v \in Value, AppendLocalEntry(n, v)
      PROVE  TypeOK'
  BY <1>4, AppendLocalEntryType
<1>5. ASSUME NEW n \in Node, NEW m \in net, Step(n, m) PROVE TypeOK'
  BY <1>5, HandleRequestVoteType, HandleRequestVoteReplyType,
     HandleAppendEntriesType, HandleAppendEntriesReplyType DEF Step
<1>6. ASSUME NEW n \in Node, Crash(n) PROVE TypeOK'
  BY <1>6, CrashType
<1> QED
  BY <1>1, <1>2, <1>3, <1>4, <1>5, <1>6 DEF Next

\* A node started on an empty store (RaftNode::new) has the types.
LEMMA TypeInit == Init => TypeOK
<1>1. <<>> \in Seq(Entry)
  OBVIOUS
<1> QED
  BY <1>1 DEF Init, TypeOK

\* Every variable keeps its type, next_index and match_index of a leader
\* included: an index the code subtracts from is never 0.
THEOREM TypeCorrect == Spec => []TypeOK
BY TypeInit, TypeStep, PTL DEF Spec

(***************************************************************************)
(* Elections.  Most steps are quiet: terms only rise, a node keeps its vote *)
(* within a term, nobody gains a role, and what is sent is neither a vote   *)
(* nor a request for one.  Three handlers are not, and have lemmas of their *)
(* own: standing for election, voting, and counting a vote.                *)
(***************************************************************************)
KeepsVotes ==
    \A n \in Node :
        \/ current_term'[n] > current_term[n]
        \/ current_term'[n] = current_term[n] /\ voted_for'[n] = voted_for[n]

GainsNoRole ==
    \A n \in Node :
        role'[n] # "Follower" =>
            role'[n] = role[n] /\ current_term'[n] = current_term[n]

SendsNoVotes ==
    /\ net \subseteq net'
    /\ \A m \in net' \ net :
         /\ m.from # m.to /\ m.term <= current_term'[m.from]
         /\ ~IsVote(m) /\ m.type # "RequestVote"
         /\ m.type = "AppendEntries" => Elected(m.from, m.term)

Quiet == KeepsVotes /\ GainsNoRole /\ SendsNoVotes

\* What a message shows of the past stays shown.
LEMMA ShownStays ==
    ASSUME net \subseteq net', NEW c, NEW t
    PROVE  /\ Elected(c, t) => Elected(c, t)'
           /\ Requested(c, t) => Requested(c, t)'
BY DEF Elected, Requested

\* In a step that keeps votes and sends none, no old message by a node is of
\* a term the node enters in that step.
LEMMA QuietStep ==
    ASSUME TypeOK, TypeOK', ElectionInv, Quiet
    PROVE  ElectionInv'
<1>1. \A m \in net' : m.from \in Node /\ m.to \in Node /\ m.term \in Nat
  BY MessageFields DEF TypeOK
<1>2. \A n \in Node : current_term[n] \in Nat /\ current_term'[n] \in Nat
  BY DEF TypeOK
<1>3. net \subseteq net'
  BY DEF Quiet, SendsNoVotes
<1>4. \A m \in net' : m.from # m.to /\ m.term <= current_term'[m.from]
  <2> TAKE m \in net'
  <2>1. CASE m \in net
    <3>1. m.from # m.to /\ m.term <= current_term[m.from]
      BY <2>1 DEF ElectionInv
    <3>2. current_term'[m.from] >= current_term[m.from]
      BY <1>1, <1>2 DEF Quiet, KeepsVotes
    <3> QED
      BY <1>1, <1>2, <3>1, <3>2
  <2>2. CASE m \notin net
    BY <2>2 DEF Quiet, SendsNoVotes
  <2> QED
    BY <2>1, <2>2
<1>5. \A m \in net' : m.term = current_term'[m.from] =>
         /\ IsVote(m) => voted_for'[m.from] = m.to
         /\ m.type = "RequestVote" => voted_for'[m.from] = m.from
  <2> SUFFICES ASSUME NEW m \in net, m.term = current_term'[m.from]
               PROVE  /\ IsVote(m) => voted_for'[m.from] = m.to
                      /\ m.type = "RequestVote" => voted_for'[m.from] = m.from
    BY DEF Quiet, SendsNoVotes
  <2>1. m.from \in Node /\ m.term <= current_term[m.from]
    BY <1>1, <1>3 DEF ElectionInv
  <2>2. /\ current_term'[m.from] = current_term[m.from]
        /\ voted_for'[m.from] = voted_for[m.from]
    BY <1>1, <1>2, <1>3, <2>1 DEF Quiet, KeepsVotes
  <2> QED
    BY <2>2 DEF ElectionInv
<1>6. \A m \in net' : IsVote(m) => Requested(m.to, m.term)'
  <2> SUFFICES ASSUME NEW m \in net, IsVote(m) PROVE Requested(m.to, m.term)'
    BY DEF Quiet, SendsNoVotes
  <2> QED
    BY <1>3, ShownStays DEF ElectionInv
<1>7. \A m \in net' : m.type = "AppendEntries" => Elected(m.from, m.term)'
  BY <1>3, ShownStays DEF ElectionInv, Quiet, SendsNoVotes
<1>8. \A n \in Node : role'[n] # "Follower" => voted_for'[n] = n
  <2> TAKE n \in Node
  <2> HAVE role'[n] # "Follower"
  <2>1. role'[n] = role[n] /\ current_term'[n] = current_term[n]
    BY DEF Quiet, GainsNoRole
  <2>2. voted_for'[n] = voted_for[n]
    BY <1>2, <2>1 DEF Quiet, KeepsVotes
  <2> QED
    BY <2>1, <2>2 DEF ElectionInv
<1>9. \A n \in Node : role'[n] = "Leader" => Elected(n, current_term[n])'
  <2> TAKE n \in Node
  <2> HAVE role'[n] = "Leader"
  <2>1. role[n] = "Leader" /\ current_term'[n] = current_term[n]
    BY DEF Quiet, GainsNoRole
  <2>2. Elected(n, current_term[n])
    BY <2>1 DEF ElectionInv
  <2> QED
    BY <1>3, <2>1, <2>2 DEF Elected
<1>10. OneVotePerTerm'
  <2> SUFFICES ASSUME NEW v \in net, IsVote(v), NEW m \in net
               PROVE  /\ IsVote(m) /\ m.from = v.from /\ m.term = v.term
                           => m.to = v.to
                      /\ m.type = "RequestVote" /\ m.from = v.from
                           => m.term # v.term
    BY DEF OneVotePerTerm, Quiet, SendsNoVotes
  <2> QED
    BY DEF ElectionInv, OneVotePerTerm
<1> QED
  BY <1>4, <1>5, <1>6, <1>7, <1>8, <1>9, <1>10 DEF ElectionInv

\* A leader's broadcast: AppendEntries in its own term, to others.
LEMMA BroadcastFields ==
    ASSUME NEW n \in Node, NEW l, NEW ni, NEW m \in Broadcast(n, l, ni)
    PROVE  /\ m.type = "AppendEntries" /\ m.from = n /\ m.from # m.to
           /\ m.term = current_term[n]
BY DEF Broadcast, AppendEntriesMsg, Peers

\* Sending such a broadcast, or nothing, sends no votes.
LEMMA LeaderSendsNoVotes ==
    ASSUME TypeOK, ElectionInv, NEW n \in Node, role[n] = "Leader",
           NEW ms, net' = net \cup ms, current_term' = current_term,
           \A m \in ms : /\ m.type = "AppendEntries" /\ m.from = n
                         /\ m.from # m.to /\ m.term = current_term[n]
    PROVE  SendsNoVotes
<1>1. Elected(n, current_term[n]) /\ current_term[n] \in Nat
  BY DEF ElectionInv, TypeOK
<1> QED
  BY <1>1 DEF SendsNoVotes, IsVote

\* A handler that leaves the outbox empty sends no votes.
LEMMA SilentSendsNoVotes ==
    ASSUME net' = net
    PROVE  SendsNoVotes
BY DEF SendsNoVotes

\* tick() of a leader neither elects nor votes.
LEMMA HeartbeatQuiet ==
    ASSUME TypeOK, ElectionInv, NEW n \in Node, Heartbeat(n)
    PROVE  Quiet
<1>1. /\ role[n] = "Leader" /\ current_term' = current_term
      /\ net' = net \cup Broadcast(n, log[n], next_index[n])
  BY DEF Heartbeat, Send, durable
<1>2. SendsNoVotes
  BY <1>1, BroadcastFields, LeaderSendsNoVotes
<1> QED
  BY <1>2 DEF Quiet, KeepsVotes, GainsNoRole, Heartbeat, durable

\* append_local_entry neither elects nor votes.
LEMMA AppendLocalEntryQuiet ==
    ASSUME TypeOK, ElectionInv, NEW n \in Node, NEW v \in Value,
           AppendLocalEntry(n, v)
    PROVE  Quiet
<1>1. /\ role[n] = "Leader" /\ current_term' = current_term
      /\ \E l : net' = net \cup Broadcast(n, l, next_index[n])
  BY DEF AppendLocalEntry, Send
<1>2. SendsNoVotes
  BY <1>1, BroadcastFields, LeaderSendsNoVotes
<1> QED
  BY <1>2 DEF Quiet, KeepsVotes, GainsNoRole, AppendLocalEntry

\* Adopting a higher term gives up the vote and the role of the old one, and
\* only then.
LEMMA AdoptQuiet ==
    ASSUME TypeOK, NEW n \in Node, NEW m \in net,
           current_term' = [current_term EXCEPT ![n] = TermAfter(n, m)]
    PROVE  /\ voted_for' = [voted_for EXCEPT ![n] = VoteAfter(n, m)]
                => KeepsVotes
           /\ role' = [role EXCEPT ![n] = RoleAfter(n, m)] => GainsNoRole
           /\ TermAfter(n, m) \in Nat /\ current_term'[n] = TermAfter(n, m)
           /\ m.from \in Node /\ m.to \in Node /\ m.term \in Nat
           /\ m.term <= TermAfter(n, m) /\ current_term[n] <= TermAfter(n, m)
<1>1. /\ m.term \in Nat /\ current_term[n] \in Nat
      /\ m.from \in Node /\ m.to \in Node
  BY MessageFields DEF TypeOK
<1>2. n \in DOMAIN current_term /\ n \in DOMAIN voted_for /\ n \in DOMAIN role
  BY DEF TypeOK
<1>3. /\ TermAfter(n, m) \in Nat /\ current_term'[n] = TermAfter(n, m)
      /\ m.term <= TermAfter(n, m) /\ current_term[n] <= TermAfter(n, m)
  BY <1>1, <1>2 DEF TermAfter
<1>4. \A k \in Node \ {n} : current_term'[k] = current_term[k]
  BY DEF TypeOK
<1>5. ASSUME voted_for' = [voted_for EXCEPT ![n] = VoteAfter(n, m)]
      PROVE  KeepsVotes
  <2>1. \A k \in Node \ {n} : voted_for'[k] = voted_for[k]
    BY <1>5 DEF TypeOK
  <2>2. voted_for'[n] = VoteAfter(n, m)
    BY <1>2, <1>5
  <2> QED
    BY <1>1, <1>3, <1>4, <2>1, <2>2 DEF KeepsVotes, TermAfter, VoteAfter
<1>6. ASSUME role' = [role EXCEPT ![n] = RoleAfter(n, m)]
      PROVE  GainsNoRole
  <2>1. \A k \in Node \ {n} : role'[k] = role[k]
    BY <1>6 DEF TypeOK
  <2>2. role'[n] = RoleAfter(n, m)
    BY <1>2, <1>6
  <2> QED
    BY <1>1, <1>3, <1>4, <2>1, <2>2 DEF GainsNoRole, TermAfter, RoleAfter
<1> QED
  BY <1>1, <1>3, <1>5, <1>6

\* step(), AppendEntries: at most a follower again, and no vote is sent.
LEMMA HandleAppendEntriesQuiet ==
    ASSUME TypeOK, ElectionInv, NEW n \in Node, NEW m \in net,
           HandleAppendEntries(n, m)
    PROVE  Quiet
<1>1. /\ current_term' = [current_term EXCEPT ![n] = TermAfter(n, m)]
      /\ voted_for' = [voted_for EXCEPT ![n] = VoteAfter(n, m)]
      /\ role' = [role EXCEPT ![n] = IF m.term = TermAfter(n, m)
                                     THEN "Follower" ELSE @]
      /\ m.to = n
  BY DEF HandleAppendEntries
<1>2. KeepsVotes
  BY <1>1, AdoptQuiet
<1>3. GainsNoRole
  <2>1. m.term # TermAfter(n, m) => TermAfter(n, m) = current_term[n]
    BY DEF TermAfter
  <2>2. n \in DOMAIN role /\ n \in DOMAIN current_term
    BY DEF TypeOK
  <2>3. /\ \A k \in Node \ {n} : role'[k] = role[k]
        /\ \A k \in Node \ {n} : current_term'[k] = current_term[k]
    BY <1>1 DEF TypeOK
  <2>4. role'[n] = IF m.term = TermAfter(n, m) THEN "Follower" ELSE role[n]
    BY <1>1, <2>2
  <2>5. current_term'[n] = TermAfter(n, m)
    BY <1>1, <2>2
  <2> QED
    BY <2>1, <2>3, <2>4, <2>5 DEF GainsNoRole
<1>4. SendsNoVotes
  <2> DEFINE l == IF Accepts(n, m)
                  THEN Merge(log[n], m.prev_log_index, m.entries) ELSE log[n]
             r == [type |-> "AppendEntriesReply", from |-> n, to |-> m.from,
                   term |-> TermAfter(n, m), success |-> Accepts(n, m),
                   match_index |-> IF Accepts(n, m) THEN ReportedMatch(l, m)
                                                    ELSE 0]
  <2>1. net' = net \cup {r}
    BY DEF HandleAppendEntries, Exchange
  <2>2. /\ r.type = "AppendEntriesReply" /\ r.from = n
        /\ r.to = m.from /\ r.term = TermAfter(n, m)
    OBVIOUS
  <2> HIDE DEF r
  <2>3. m.from # n
    BY <1>1 DEF ElectionInv
  <2>4. TermAfter(n, m) \in Nat /\ current_term'[n] = TermAfter(n, m)
    BY <1>1, AdoptQuiet
  <2> QED
    BY <2>1, <2>2, <2>3, <2>4 DEF SendsNoVotes, IsVote
<1> QED
  BY <1>2, <1>3, <1>4 DEF Quiet

\* step(), AppendEntriesReply: nobody is elected and no vote is sent.
LEMMA HandleAppendEntriesReplyQuiet ==
    ASSUME TypeOK, ElectionInv, NEW n \in Node, NEW m \in net,
           HandleAppendEntriesReply(n, m)
    PROVE  Quiet
<1>1. /\ current_term' = [current_term EXCEPT ![n] = TermAfter(n, m)]
      /\ voted_for' = [voted_for EXCEPT ![n] = VoteAfter(n, m)]
      /\ role' = [role EXCEPT ![n] = RoleAfter(n, m)]
      /\ m.to = n
  BY DEF HandleAppendEntriesReply
<1>2. KeepsVotes /\ GainsNoRole
  BY <1>1, AdoptQuiet
<1>3. SendsNoVotes
  <2> DEFINE r == AppendEntriesMsg(n, m.from, log[n], next_index[n][m.from] - 1)
  <2>1. CASE Exchange(m, {})
    BY <2>1, SilentSendsNoVotes DEF Exchange
  <2>2. CASE Exchange(m, {r}) /\ RoleAfter(n, m) = "Leader"
    <3>1. role[n] = "Leader" /\ current_term' = current_term
      <4>1. ~(m.term > current_term[n]) /\ role[n] = "Leader"
        BY <2>2 DEF RoleAfter
      <4> QED
        BY <1>1, <4>1 DEF TermAfter, TypeOK
    <3>2. /\ r.type = "AppendEntries" /\ r.from = n /\ r.to = m.from
          /\ r.term = current_term[n]
      BY DEF AppendEntriesMsg
    <3>3. m.from # n
      BY <1>1 DEF ElectionInv
    <3> DEFINE ms == {r}
    <3>4. net' = net \cup ms
      BY <2>2 DEF Exchange
    <3> HIDE DEF r
    <3>5. \A x \in ms : /\ x.type = "AppendEntries" /\ x.from = n
                        /\ x.from # x.to /\ x.term = current_term[n]
      BY <3>2, <3>3
    <3> HIDE DEF ms
    <3> QED
      BY <3>1, <3>4, <3>5, LeaderSendsNoVotes
  <2> QED
    BY <2>1, <2>2 DEF HandleAppendEntriesReply
<1> QED
  BY <1>2, <1>3 DEF Quiet

\* Whatever a crash leaves on disk, a term is not left without leaving its
\* vote behind it, and the restarted node is a follower that sent nothing.
LEMMA CrashQuiet ==
    ASSUME TypeOK, ElectionInv, NEW n \in Node, Crash(n)
    PROVE  Quiet
<1>1. CASE Restart(n)
  <2>1. GainsNoRole
    BY <1>1 DEF GainsNoRole, Restart, Forget, durable, TypeOK
  <2> QED
    BY <1>1, <2>1, SilentSendsNoVotes
       DEF Quiet, KeepsVotes, Restart, durable, network
<1>2. CASE TornCandidate(n)
  <2>1. \A k \in Node \ {n} : current_term'[k] = current_term[k]
    BY <1>2 DEF TornCandidate, TypeOK
  <2>2. current_term'[n] > current_term[n]
    BY <1>2 DEF TornCandidate, TypeOK
  <2>3. \A k \in Node \ {n} : voted_for'[k] = voted_for[k]
    BY <1>2 DEF TornCandidate
  <2>4. KeepsVotes
    BY <2>1, <2>2, <2>3 DEF KeepsVotes
  <2>5. GainsNoRole
    BY <1>2, <2>1 DEF GainsNoRole, TornCandidate, Forget, TypeOK
  <2> QED
    BY <1>2, <2>4, <2>5, SilentSendsNoVotes DEF Quiet, TornCandidate, network
<1>3. ASSUME NEW m \in net, TornFollower(n, m)
      PROVE  Quiet
  <2>1. \A k \in Node \ {n} : /\ current_term'[k] = current_term[k]
                              /\ voted_for'[k] = voted_for[k]
    BY <1>3 DEF TornFollower, TypeOK
  <2>2. current_term'[n] > current_term[n]
    BY <1>3 DEF TornFollower, TypeOK
  <2>3. KeepsVotes
    BY <2>1, <2>2 DEF KeepsVotes
  <2>4. GainsNoRole
    BY <1>3, <2>1 DEF GainsNoRole, TornFollower, Forget, TypeOK
  <2>5. net' = net
    BY <1>3 DEF TornFollower, Exchange
  <2> QED
    BY <2>3, <2>4, <2>5, SilentSendsNoVotes DEF Quiet
<1>4. ASSUME NEW m \in net, TornAppend(n, m)
      PROVE  Quiet
  <2>1. /\ current_term' = [current_term EXCEPT ![n] = TermAfter(n, m)]
        /\ voted_for' = [voted_for EXCEPT ![n] = VoteAfter(n, m)]
        /\ Forget(n) /\ net' = net
    BY <1>4 DEF TornAppend, Exchange
  <2>2. KeepsVotes
    BY <2>1, AdoptQuiet
  <2>3. GainsNoRole
    BY <2>1 DEF GainsNoRole, Forget, TypeOK
  <2> QED
    BY <2>1, <2>2, <2>3, SilentSendsNoVotes DEF Quiet
<1> QED
  BY <1>1, <1>2, <1>3, <1>4 DEF Crash

\* Standing for election: the new term holds the node's vote for itself, and
\* no older message of the node is of that term.
LEMMA BecomeCandidateElects ==
    ASSUME TypeOK, TypeOK', ElectionInv, NEW n \in Node, BecomeCandidate(n)
    PROVE  ElectionInv'
<1> DEFINE t == current_term[n] + 1
<1>1. /\ current_term[n] \in Nat /\ current_term'[n] = t
      /\ voted_for'[n] = n /\ role'[n] = "Candidate"
  BY DEF BecomeCandidate, TypeOK
<1>2. \A k \in Node \ {n} : /\ current_term'[k] = current_term[k]
                            /\ voted_for'[k] = voted_for[k]
                            /\ role'[k] = role[k]
  BY DEF BecomeCandidate, TypeOK
<1>3. net \subseteq net'
  BY DEF BecomeCandidate, Send
<1>4. \A m \in net' \ net : /\ m.type = "RequestVote" /\ m.from = n
                            /\ m.from # m.to /\ m.term = t
  BY DEF BecomeCandidate, Send, RequestVoteMsg, Peers
<1>5. \A m \in net' : m.from \in Node /\ m.to \in Node /\ m.term \in Nat
  BY MessageFields DEF TypeOK
<1>6. \A m \in net : m.from # m.to /\ m.term <= current_term[m.from]
  BY DEF ElectionInv
<1>7. \A m \in net : m.from = n => m.term # t
  <2> TAKE m \in net
  <2> HAVE m.from = n
  <2>1. m.term \in Nat /\ m.term <= current_term[n]
    BY <1>3, <1>5, <1>6
  <2> QED
    BY <1>1, <2>1
<1>8. \A m \in net' : m.from # m.to /\ m.term <= current_term'[m.from]
  <2>1. ASSUME NEW m \in net, m.from = n
        PROVE  m.from # m.to /\ m.term <= current_term'[m.from]
    <3>1. m.term \in Nat /\ m.from # m.to /\ m.term <= current_term[n]
      BY <1>3, <1>5, <1>6, <2>1
    <3> QED
      BY <1>1, <2>1, <3>1
  <2>2. ASSUME NEW m \in net, m.from # n
        PROVE  m.from # m.to /\ m.term <= current_term'[m.from]
    BY <1>2, <1>3, <1>5, <1>6, <2>2
  <2>3. ASSUME NEW m \in net' \ net
        PROVE  m.from # m.to /\ m.term <= current_term'[m.from]
    BY <1>1, <1>4, <2>3
  <2> QED
    BY <2>1, <2>2, <2>3
<1>9. \A m \in net' : m.term = current_term'[m.from] =>
         /\ IsVote(m) => voted_for'[m.from] = m.to
         /\ m.type = "RequestVote" => voted_for'[m.from] = m.from
  <2>1. ASSUME NEW m \in net, m.term = current_term'[m.from]
        PROVE  /\ IsVote(m) => voted_for'[m.from] = m.to
               /\ m.type = "RequestVote" => voted_for'[m.from] = m.from
    <3>1. m.from # n /\ m.from \in Node
      BY <1>1, <1>3, <1>5, <1>7, <2>1
    <3> QED
      BY <1>2, <2>1, <3>1 DEF ElectionInv
  <2>2. ASSUME NEW m \in net' \ net
        PROVE  /\ IsVote(m) => voted_for'[m.from] = m.to
               /\ m.type = "RequestVote" => voted_for'[m.from] = m.from
    BY <1>1, <1>4, <2>2 DEF IsVote
  <2> QED
    BY <2>1, <2>2
<1>10. \A m \in net' : IsVote(m) => Requested(m.to, m.term)'
  BY <1>3, <1>4, ShownStays DEF ElectionInv, IsVote
<1>11. \A m \in net' : m.type = "AppendEntries" => Elected(m.from, m.term)'
  BY <1>3, <1>4, ShownStays DEF ElectionInv
<1>12. ASSUME NEW k \in Node
       PROVE  /\ role'[k] # "Follower" => voted_for'[k] = k
              /\ role'[k] = "Leader" => Elected(k, current_term[k])'
  <2>1. CASE k = n
    BY <1>1, <2>1
  <2>2. CASE k # n
    <3>1. role[k] = "Leader" => Elected(k, current_term[k])
      BY DEF ElectionInv
    <3> QED
      BY <1>2, <1>3, <2>2, <3>1 DEF ElectionInv, Elected
  <2> QED
    BY <2>1, <2>2
<1>13. OneVotePerTerm'
  <2> SUFFICES ASSUME NEW v \in net, IsVote(v), NEW m \in net'
               PROVE  /\ IsVote(m) /\ m.from = v.from /\ m.term = v.term
                           => m.to = v.to
                      /\ m.type = "RequestVote" /\ m.from = v.from
                           => m.term # v.term
    BY <1>4 DEF OneVotePerTerm, IsVote
  <2>1. CASE m \in net
    BY <2>1 DEF ElectionInv, OneVotePerTerm
  <2>2. CASE m \notin net
    BY <1>4, <1>7, <2>2 DEF IsVote
  <2> QED
    BY <2>1, <2>2
<1> QED
  BY <1>8, <1>9, <1>10, <1>11, <1>12, <1>13 DEF ElectionInv

\* Voting: the vote is on disk before the reply leaves, so the reply agrees
\* with every vote and candidacy of the node in that term.
LEMMA HandleRequestVoteElects ==
    ASSUME TypeOK, TypeOK', ElectionInv, NEW n \in Node, NEW m \in net,
           HandleRequestVote(n, m)
    PROVE  ElectionInv'
<1> DEFINE t == TermAfter(n, m)
           r == [type |-> "RequestVoteReply", from |-> n, to |-> m.from,
                 term |-> t, vote_granted |-> Grants(n, m)]
<1>1. /\ current_term' = [current_term EXCEPT ![n] = t]
      /\ role' = [role EXCEPT ![n] = RoleAfter(n, m)]
      /\ voted_for' = [voted_for EXCEPT
                         ![n] = IF Grants(n, m) THEN m.from
                                                ELSE VoteAfter(n, m)]
      /\ net' = net \cup {r} /\ m.to = n /\ m.type = "RequestVote"
  BY DEF HandleRequestVote, Exchange
<1>2. /\ r.type = "RequestVoteReply" /\ r.from = n /\ r.to = m.from
      /\ r.term = t /\ r.vote_granted = Grants(n, m)
  OBVIOUS
<1>3. /\ GainsNoRole /\ t \in Nat /\ current_term'[n] = t
      /\ m.from \in Node /\ m.term \in Nat /\ m.term <= t
      /\ current_term[n] <= t /\ current_term[n] \in Nat
  <2>1. GainsNoRole
    BY <1>1, AdoptQuiet
  <2>2. /\ t \in Nat /\ current_term'[n] = t
        /\ m.from \in Node /\ m.term \in Nat /\ m.term <= t
        /\ current_term[n] <= t /\ current_term[n] \in Nat
    <3>1. /\ t \in Nat /\ current_term'[n] = t /\ m.from \in Node /\ m.term \in Nat
          /\ m.term <= t /\ current_term[n] <= t
      BY ONLY TypeOK, <1>1, AdoptQuiet
    <3>2. current_term[n] \in Nat
      BY DEF TypeOK
    <3> QED
      BY <3>1, <3>2
  <2> QED
    BY <2>1, <2>2
<1>4. m.from # n
  BY <1>1 DEF ElectionInv
<1> HIDE DEF r
<1>5. CASE ~Grants(n, m)
  <2>1. KeepsVotes
    BY <1>1, <1>5, AdoptQuiet
  <2>2. SendsNoVotes
    BY <1>1, <1>2, <1>3, <1>4, <1>5 DEF SendsNoVotes, IsVote
  <2> QED
    BY <1>3, <2>1, <2>2, QuietStep DEF Quiet
<1>6. CASE Grants(n, m)
  <2>1. m.term = t /\ VoteAfter(n, m) \in {Nil, m.from} /\ IsVote(r)
    BY <1>2, <1>6 DEF Grants, CanVote, IsVote
  <2>2. voted_for'[n] = m.from
    BY <1>1, <1>6 DEF TypeOK
  <2>3. \A k \in Node \ {n} : /\ current_term'[k] = current_term[k]
                              /\ voted_for'[k] = voted_for[k]
                              /\ role'[k] = role[k]
    BY <1>1 DEF TypeOK
  <2>4. \A x \in net : /\ x.from \in Node /\ x.to \in Node /\ x.term \in Nat
                       /\ x.from # x.to /\ x.term <= current_term[x.from]
    BY MessageFields DEF TypeOK, ElectionInv
  <2>5. t = current_term[n] => voted_for[n] \in {Nil, m.from}
    BY <1>3, <2>1 DEF VoteAfter, TermAfter
  <2>6. ASSUME NEW x \in net, x.from = n, x.term = t
        PROVE  /\ IsVote(x) => x.to = m.from
               /\ x.type # "RequestVote"
    <3>1. t = current_term[n]
      BY <1>3, <2>4, <2>6
    <3>2. /\ IsVote(x) => voted_for[n] = x.to
          /\ x.type = "RequestVote" => voted_for[n] = n
      BY <2>6, <3>1 DEF ElectionInv
    <3> QED
      BY <1>4, <2>4, <2>5, <3>1, <3>2, NodeAssumption
  <2>7. \A x \in net' : x.from # x.to /\ x.term <= current_term'[x.from]
    <3>1. ASSUME NEW x \in net
          PROVE  x.from # x.to /\ x.term <= current_term'[x.from]
      <4>1. CASE x.from = n
        BY <1>3, <2>4, <4>1
      <4>2. CASE x.from # n
        BY <2>3, <2>4, <4>2
      <4> QED
        BY <4>1, <4>2
    <3>2. r.from # r.to /\ r.term <= current_term'[r.from]
      BY <1>2, <1>3, <1>4
    <3> QED
      BY <1>1, <3>1, <3>2
  <2>8. \A x \in net' : x.term = current_term'[x.from] =>
           /\ IsVote(x) => voted_for'[x.from] = x.to
           /\ x.type = "RequestVote" => voted_for'[x.from] = x.from
    <3>1. ASSUME NEW x \in net, x.term = current_term'[x.from]
          PROVE  /\ IsVote(x) => voted_for'[x.from] = x.to
                 /\ x.type = "RequestVote" => voted_for'[x.from] = x.from
      <4>1. CASE x.from = n
        BY <1>3, <2>2, <2>6, <3>1, <4>1
      <4>2. CASE x.from # n
        <5>1. /\ current_term'[x.from] = current_term[x.from]
              /\ voted_for'[x.from] = voted_for[x.from]
          BY <2>3, <2>4, <4>2
        <5> QED
          BY <3>1, <5>1 DEF ElectionInv
      <4> QED
        BY <4>1, <4>2
    <3>2. voted_for'[r.from] = r.to /\ r.type # "RequestVote"
      BY <1>2, <2>2
    <3> QED
      BY <1>1, <3>1, <3>2
  <2>9. \A x \in net' : IsVote(x) => Requested(x.to, x.term)'
    <3>1. m \in net' /\ m.from = r.to /\ m.term = r.term
      BY <1>1, <1>2, <2>1
    <3>2. ASSUME NEW x \in net', x = r
          PROVE  Requested(x.to, x.term)'
      BY <1>1, <3>1, <3>2 DEF Requested
    <3>3. \A x \in net : IsVote(x) => Requested(x.to, x.term)'
      BY <1>1, ShownStays DEF ElectionInv
    <3> QED
      BY <1>1, <3>2, <3>3
  <2>10. \A x \in net' : x.type = "AppendEntries" => Elected(x.from, x.term)'
    BY <1>1, <1>2, ShownStays DEF ElectionInv
  <2>11. ASSUME NEW k \in Node
         PROVE  /\ role'[k] # "Follower" => voted_for'[k] = k
                /\ role'[k] = "Leader" => Elected(k, current_term[k])'
    <3>1. CASE k = n
      <4>1. role'[n] = "Follower"
        <5> SUFFICES ASSUME role'[n] # "Follower" PROVE FALSE
          OBVIOUS
        <5>1. role[n] # "Follower" /\ t = current_term[n]
          BY <1>3 DEF GainsNoRole
        <5>2. voted_for[n] = n
          BY <5>1 DEF ElectionInv
        <5> QED
          BY <1>4, <2>5, <5>1, <5>2, NodeAssumption
      <4> QED
        BY <3>1, <4>1
    <3>2. CASE k # n
      <4>1. role[k] = "Leader" => Elected(k, current_term[k])
        BY DEF ElectionInv
      <4> QED
        BY <1>1, <2>3, <3>2, <4>1 DEF ElectionInv, Elected
    <3> QED
      BY <3>1, <3>2
  <2>12. OneVotePerTerm'
    <3>1. ASSUME NEW x \in net, IsVote(x), NEW y \in net
          PROVE  /\ IsVote(y) /\ y.from = x.from /\ y.term = x.term
                      => y.to = x.to
                 /\ y.type = "RequestVote" /\ y.from = x.from
                      => y.term # x.term
      BY <3>1 DEF ElectionInv, OneVotePerTerm
    <3>2. ASSUME NEW x \in net, IsVote(x), r.from = x.from, r.term = x.term
          PROVE  r.to = x.to
      BY <1>2, <2>6, <3>2
    <3>3. ASSUME NEW y \in net, y.type = "RequestVote", y.from = r.from
          PROVE  y.term # r.term
      BY <1>2, <2>6, <3>3
    <3>4. r.type # "RequestVote"
      BY <1>2
    <3> QED
      BY <1>1, <3>1, <3>2, <3>3, <3>4 DEF OneVotePerTerm
  <2> QED
    BY <2>7, <2>8, <2>9, <2>10, <2>11, <2>12 DEF ElectionInv
<1> QED
  BY <1>5, <1>6

\* Counting a vote: the vote that makes a leader is itself the proof that
\* another node voted for it in this term.
LEMMA HandleRequestVoteReplyElects ==
    ASSUME TypeOK, TypeOK', ElectionInv, NEW n \in Node, NEW m \in net,
           HandleRequestVoteReply(n, m)
    PROVE  ElectionInv'
<1>1. /\ current_term' = [current_term EXCEPT ![n] = TermAfter(n, m)]
      /\ voted_for' = [voted_for EXCEPT ![n] = VoteAfter(n, m)]
      /\ m.to = n /\ m.type = "RequestVoteReply"
  BY DEF HandleRequestVoteReply
<1>2. KeepsVotes
  BY <1>1, AdoptQuiet
<1>3. CASE role' = [role EXCEPT ![n] = RoleAfter(n, m)] /\ Exchange(m, {})
  <2>1. GainsNoRole
    BY <1>1, <1>3, AdoptQuiet
  <2>2. SendsNoVotes
    BY <1>3, SilentSendsNoVotes DEF Exchange
  <2> QED
    BY <1>2, <2>1, <2>2, QuietStep DEF Quiet
<1>4. ASSUME Counts(n, m)
      PROVE  /\ current_term' = current_term /\ voted_for' = voted_for
             /\ role[n] = "Candidate" /\ m.term = current_term[n]
             /\ IsVote(m)
  <2>1. role[n] = "Candidate" /\ ~(m.term > current_term[n])
    BY <1>4 DEF Counts, RoleAfter
  <2> QED
    BY <1>1, <1>4, <2>1 DEF Counts, TermAfter, VoteAfter, IsVote, TypeOK
<1>5. CASE Counts(n, m) /\ Exchange(m, {}) /\ UNCHANGED role
  <2>1. GainsNoRole
    BY <1>4, <1>5 DEF GainsNoRole
  <2>2. SendsNoVotes
    BY <1>5, SilentSendsNoVotes DEF Exchange
  <2> QED
    BY <1>2, <2>1, <2>2, QuietStep DEF Quiet
<1>6. CASE /\ Counts(n, m)
           /\ role' = [role EXCEPT ![n] = "Leader"]
           /\ Exchange(m, Broadcast(n, log[n], FreshNext(n)))
  <2>1. Elected(n, current_term[n])
    BY <1>1, <1>4, <1>6 DEF Elected
  <2>2. net' = net \cup Broadcast(n, log[n], FreshNext(n))
    BY <1>6 DEF Exchange
  <2>3. \A x \in net' \ net : /\ x.type = "AppendEntries" /\ x.from = n
                              /\ x.from # x.to /\ x.term = current_term[n]
    BY <2>2, BroadcastFields
  <2>4. current_term' = current_term /\ voted_for' = voted_for
    BY <1>4, <1>6
  <2>5. current_term[n] \in Nat
    BY DEF TypeOK
  <2>6. \A x \in net' : x.from # x.to /\ x.term <= current_term'[x.from]
    BY <2>3, <2>4, <2>5 DEF ElectionInv
  <2>7. \A x \in net' : x.term = current_term'[x.from] =>
           /\ IsVote(x) => voted_for'[x.from] = x.to
           /\ x.type = "RequestVote" => voted_for'[x.from] = x.from
    BY <2>3, <2>4 DEF ElectionInv, IsVote
  <2>8. \A x \in net' : IsVote(x) => Requested(x.to, x.term)'
    BY <2>2, <2>3, ShownStays DEF ElectionInv, IsVote
  <2>9. \A x \in net' : x.type = "AppendEntries" => Elected(x.from, x.term)'
    BY <2>1, <2>2, <2>3, ShownStays DEF ElectionInv
  <2>10. ASSUME NEW k \in Node
         PROVE  /\ role'[k] # "Follower" => voted_for'[k] = k
                /\ role'[k] = "Leader" => Elected(k, current_term[k])'
    <3>1. role[k] # "Follower" => voted_for[k] = k
      BY DEF ElectionInv
    <3>2. role[k] = "Leader" => Elected(k, current_term[k])
      BY DEF ElectionInv
    <3>3. CASE k = n
      BY <1>4, <1>6, <2>1, <2>2, <2>4, <3>1, <3>3 DEF Elected
    <3>4. CASE k # n
      <4>1. role'[k] = role[k]
        BY <1>6, <3>4 DEF TypeOK
      <4> QED
        BY <2>2, <2>4, <3>1, <3>2, <4>1 DEF Elected
    <3> QED
      BY <3>3, <3>4
  <2>11. OneVotePerTerm'
    BY <2>3 DEF ElectionInv, OneVotePerTerm, IsVote
  <2> QED
    BY <2>6, <2>7, <2>8, <2>9, <2>10, <2>11 DEF ElectionInv
<1> QED
  BY <1>3, <1>5, <1>6 DEF HandleRequestVoteReply

\* Initially nobody stands, leads or has voted.
LEMMA ElectionInit == Init => ElectionInv
BY DEF Init, ElectionInv, OneVotePerTerm

\* Every step of the node code preserves the election invariant.
LEMMA ElectionStep ==
    TypeOK /\ TypeOK' /\ ElectionInv /\ [Next]_vars => ElectionInv'
<1> SUFFICES ASSUME TypeOK, TypeOK', ElectionInv, [Next]_vars
             PROVE  ElectionInv'
  OBVIOUS
<1>1. CASE UNCHANGED vars
  <2>1. Quiet
    BY <1>1 DEF Quiet, KeepsVotes, GainsNoRole, SendsNoVotes, vars, durable,
                network
  <2> QED
    BY <2>1, QuietStep
<1>2. ASSUME NEW n \in Node, BecomeCandidate(n) PROVE ElectionInv'
  BY <1>2, BecomeCandidateElects
<1>3. ASSUME NEW n \in Node, Heartbeat(n) PROVE ElectionInv'
  BY <1>3, HeartbeatQuiet, QuietStep
<1>4. ASSUME NEW n \in Node, NEW v \in Value, AppendLocalEntry(n, v)
      PROVE  ElectionInv'
  BY <1>4, AppendLocalEntryQuiet, QuietStep
<1>5. ASSUME NEW n \in Node, NEW m \in net, HandleRequestVote(n, m)
      PROVE  ElectionInv'
  BY <1>5, HandleRequestVoteElects
<1>6. ASSUME NEW n \in Node, NEW m \in net, HandleRequestVoteReply(n, m)
      PROVE  ElectionInv'
  BY <1>6, HandleRequestVoteReplyElects
<1>7. ASSUME NEW n \in Node, NEW m \in net, HandleAppendEntries(n, m)
      PROVE  ElectionInv'
  BY <1>7, HandleAppendEntriesQuiet, QuietStep
<1>8. ASSUME NEW n \in Node, NEW m \in net, HandleAppendEntriesReply(n, m)
      PROVE  ElectionInv'
  BY <1>8, HandleAppendEntriesReplyQuiet, QuietStep
<1>9. ASSUME NEW n \in Node, Crash(n) PROVE ElectionInv'
  BY <1>9, CrashQuiet, QuietStep
<1> QED
  BY <1>1, <1>2, <1>3, <1>4, <1>5, <1>6, <1>7, <1>8, <1>9 DEF Next, Step

\* Votes, candidacies and reigns agree with what is on disk, always: the
\* inductive invariant behind the two results below (lib.rs, become_candidate,
\* become_follower and the RequestVote arms of step).
THEOREM ElectionInvariant == Spec => [](TypeOK /\ ElectionInv)
<1>1. Init => TypeOK /\ ElectionInv
  BY TypeInit, ElectionInit
<1>2. TypeOK /\ ElectionInv /\ [Next]_vars => (TypeOK /\ ElectionInv)'
  BY TypeStep, ElectionStep
<1> QED
  BY <1>1, <1>2, PTL DEF Spec

\* A node never votes for two candidates in a term, for any cluster size and
\* wherever crashes fall: the vote on disk is what the reply says.
THEOREM VotesAreUnique == Spec => []OneVotePerTerm
<1>1. ElectionInv => OneVotePerTerm
  BY DEF ElectionInv
<1> QED
  BY <1>1, ElectionInvariant, PTL

\* At most three nodes, ARCHITECTURE.md's default cluster.
AtMostThree == \E a, b, c \in Node : Node = {a, b, c}

\* Two nodes elected in one term had a common voter, or one voted for the
\* other: with three nodes there is no room for anything else.
LEMMA ElectedOnce ==
    ASSUME TypeOK, ElectionInv, AtMostThree, NEW a \in Node, NEW b \in Node,
           NEW t, Elected(a, t), Elected(b, t)
    PROVE  a = b
<1>1. PICK v \in net : IsVote(v) /\ v.to = a /\ v.term = t
  BY DEF Elected
<1>2. PICK w \in net : IsVote(w) /\ w.to = b /\ w.term = t
  BY DEF Elected
<1>3. v.from \in Node /\ w.from \in Node /\ v.from # a /\ w.from # b
  BY <1>1, <1>2, MessageFields DEF TypeOK, ElectionInv
<1>4. v.from # b
  <2>1. PICK r \in net : r.type = "RequestVote" /\ r.from = b /\ r.term = t
    BY <1>2 DEF ElectionInv, Requested
  <2> QED
    BY <1>1, <2>1 DEF ElectionInv, OneVotePerTerm
<1>5. w.from # a
  <2>1. PICK r \in net : r.type = "RequestVote" /\ r.from = a /\ r.term = t
    BY <1>1 DEF ElectionInv, Requested
  <2> QED
    BY <1>2, <2>1 DEF ElectionInv, OneVotePerTerm
<1>6. v.from = w.from => a = b
  BY <1>1, <1>2 DEF ElectionInv, OneVotePerTerm
<1> QED
  BY <1>3, <1>4, <1>5, <1>6 DEF AtMostThree

\* No term of a three-node cluster has two leaders, even though votes are
\* counted per message and the network may repeat them.
THEOREM ElectionIsSafe ==
    ASSUME AtMostThree
    PROVE  Spec => []ElectionSafety
<1>1. TypeOK /\ ElectionInv => ElectionSafety
  <2> SUFFICES ASSUME TypeOK, ElectionInv PROVE ElectionSafety
    OBVIOUS
  <2>1. ASSUME NEW a \in Node, NEW b \in Node, role[a] = "Leader",
               role[b] = "Leader", current_term[a] = current_term[b]
        PROVE  a = b
    <3>1. Elected(a, current_term[a]) /\ Elected(b, current_term[a])
      BY <2>1 DEF ElectionInv
    <3> QED
      BY <3>1, ElectedOnce
  <2>2. ASSUME NEW m \in net, NEW n \in Node, m.type = "AppendEntries",
               role[n] = "Leader", m.term = current_term[n]
        PROVE  m.from = n
    <3>1. m.from \in Node /\ Elected(m.from, m.term) /\ Elected(n, m.term)
      BY <2>2, MessageFields DEF TypeOK, ElectionInv
    <3> QED
      BY <3>1, ElectedOnce
  <2> QED
    BY <2>1, <2>2 DEF ElectionSafety
<1> QED
  BY <1>1, ElectionInvariant, PTL

(***************************************************************************)
(* The logs: they match, and a leader holds its term.                      *)
(*                                                                         *)
(* The argument looks at links.  An entry, where it stands in a log or in  *)
(* an AppendEntries, is linked to what stands before it: its position, the *)
(* entry and the term of the entry before.  Every handler but one only     *)
(* rearranges links that exist; append_local_entry alone makes a new one,  *)
(* of a leader's term and one past the end of the leader's log.            *)
(***************************************************************************)

LinkAt(p, pt, es, j) ==
    [index |-> p + j, entry |-> es[j],
     before |-> IF j = 1 THEN pt ELSE es[j - 1].term]

\* the links of entries es placed after position p, which has term pt
LinksOf(p, pt, es) == {LinkAt(p, pt, es, j) : j \in 1..Len(es)}

LogLinks(l) == LinksOf(0, 0, l)

MessageLinks(m) == LinksOf(m.prev_log_index, m.prev_log_term, m.entries)

Appends == {m \in net : m.type = "AppendEntries"}

Links == (UNION {LogLinks(log[n]) : n \in Node})
           \cup (UNION {MessageLinks(m) : m \in Appends})

\* c has led in term t: it then sent an AppendEntries at once.
Led(c, t) == \E m \in Appends : m.from = c /\ m.term = t

\* The invariant: an entry's index is its position, terms only rise along a
\* log, and a link was made by a leader; position and term determine a link;
\* a leader holds all links of its term; a candidate has not led yet; nothing
\* stands before position 1; no log and no message is ahead of its term.
LogInv ==
    /\ \A x \in Links : /\ x.entry.index = x.index /\ x.before <= x.entry.term
                        /\ \E c \in Node : Led(c, x.entry.term)
    /\ \A x, y \in Links :
         x.index = y.index /\ x.entry.term = y.entry.term => x = y
    /\ \A n \in Node : role[n] = "Leader" =>
         /\ Led(n, current_term[n])
         /\ \A x \in Links : x.entry.term = current_term[n]
                                => x \in LogLinks(log[n])
    /\ \A n \in Node : role[n] = "Candidate" => ~Led(n, current_term[n])
    /\ \A m \in Appends :
         /\ m.prev_log_index = 0 => m.prev_log_term = 0
         /\ \A x \in MessageLinks(m) : x.entry.term <= m.term
    /\ \A n \in Node : \A x \in LogLinks(log[n]) :
         x.entry.term <= current_term[n]

(***************************************************************************)
(* Induction up to a bound, from what is known of finite sets: a set that  *)
(* holds 0 and with every number the next holds them all.                  *)
(***************************************************************************)
LEMMA Climb ==
    ASSUME NEW S, NEW n \in Nat, 0 \in S,
           \A k \in 1..n : k - 1 \in S => k \in S
    PROVE  \A k \in 0..n : k \in S
<1> DEFINE T == {k \in 0..n : \A j \in 0..k : j \in S}
           c == Cardinality(T)
<1>1. /\ IsFiniteSet(0..n) /\ T \subseteq 0..n
      /\ IsFiniteSet(T) /\ c \in Nat
  <2>1. IsFiniteSet(0..n)
    BY FS_Interval
  <2>2. T \subseteq 0..n
    OBVIOUS
  <2> HIDE DEF T
  <2>3. IsFiniteSet(T)
    BY <2>1, <2>2, FS_Subset
  <2> QED
    BY <2>1, <2>2, <2>3, FS_CardinalityType
<1>2. T \subseteq 0..(c - 1)
  <2> SUFFICES ASSUME NEW k \in T PROVE k < c
    <3> HIDE DEF c, T
    <3> QED
      BY <1>1
  <2>1. 0..k \subseteq T
    OBVIOUS
  <2>2. Cardinality(0..k) = k + 1
    BY FS_Interval
  <2>3. Cardinality(0..k) <= c
    BY <1>1, <2>1, FS_Subset
  <2> HIDE DEF c, T
  <2> QED
    BY <1>1, <2>2, <2>3
<1>3. T = 0..(c - 1)
  <2>1. IsFiniteSet(0..(c - 1)) /\ Cardinality(0..(c - 1)) = c
    <3> HIDE DEF c, T
    <3>1. 0 \in Int /\ c - 1 \in Int
      BY <1>1
    <3>2. 0 > c - 1 <=> c = 0
      BY <1>1
    <3> QED
      BY <1>1, <3>1, <3>2, FS_Interval
  <2> QED
    BY <1>2, <2>1, FS_Subset
<1>4. c > n
  <2> SUFFICES ASSUME c <= n PROVE FALSE
    BY <1>1
  <2>1. \A j \in 0..(c - 1) : j \in S
    BY <1>3
  <2> HIDE DEF c, T
  <2>2. c \in S
    <3>1. CASE c = 0
      BY <3>1
    <3>2. CASE c # 0
      <4>1. c \in 1..n /\ c - 1 \in 0..(c - 1)
        BY <1>1, <3>2
      <4> QED
        BY <2>1, <4>1
    <3> QED
      BY <3>1, <3>2
  <2>3. c \in 0..n /\ \A j \in 0..c : j \in S
    BY <1>1, <2>1, <2>2
  <2>4. c \in T
    BY <2>3 DEF T
  <2> QED
    BY <1>1, <1>3, <2>4
<1> QED
  <2>1. 0..n \subseteq T
    <3> HIDE DEF c, T
    <3> QED
      BY <1>1, <1>3, <1>4
  <2> QED
    BY <2>1

(***************************************************************************)
(* Links of the logs and messages the handlers build.                      *)
(***************************************************************************)

\* append_local_entry adds one link, one past the end of the log.
LEMMA AppendLinks ==
    ASSUME NEW l \in Seq(Entry), NEW e \in Entry
    PROVE  /\ LogLinks(l) \subseteq LogLinks(Append(l, e))
           /\ LogLinks(Append(l, e)) \subseteq LogLinks(l) \cup
                {[index |-> Len(l) + 1, entry |-> e, before |-> LastTerm(l)]}
<1> DEFINE a == Append(l, e)
<1>1. /\ Len(l) \in Nat /\ Len(a) = Len(l) + 1 /\ a[Len(l) + 1] = e
      /\ \A j \in 1..Len(l) : a[j] = l[j]
  BY AppendProperties
<1>2. l = <<>> <=> Len(l) = 0
  BY EmptySeq
<1> HIDE DEF a
<1>3. \A j \in 1..Len(l) : LinkAt(0, 0, a, j) = LinkAt(0, 0, l, j)
  BY <1>1 DEF LinkAt
<1>4. LinkAt(0, 0, a, Len(l) + 1)
        = [index |-> Len(l) + 1, entry |-> e, before |-> LastTerm(l)]
  <2>1. CASE Len(l) = 0
    BY <1>1, <1>2, <2>1 DEF LinkAt, LastTerm
  <2>2. CASE Len(l) # 0
    BY <1>1, <1>2, <2>2 DEF LinkAt, LastTerm
  <2> QED
    BY <2>1, <2>2
<1>5. \A j \in 1..Len(a) : j \in 1..Len(l) \/ j = Len(l) + 1
  BY <1>1
<1>6. \A j \in 1..Len(l) : j \in 1..Len(a)
  BY <1>1
<1>7. LogLinks(l) \subseteq LogLinks(a)
  BY <1>3, <1>6 DEF LogLinks, LinksOf
<1>8. LogLinks(a) \subseteq LogLinks(l) \cup
        {[index |-> Len(l) + 1, entry |-> e, before |-> LastTerm(l)]}
  BY <1>3, <1>4, <1>5 DEF LogLinks, LinksOf
<1> QED
  BY <1>7, <1>8 DEF a

\* send_append_entries copies links of the log it sends.
LEMMA SuffixLinks ==
    ASSUME NEW l \in Seq(Entry), NEW k \in Nat \ {0}
    PROVE  LinksOf(k - 1, TermAt(l, k - 1), SubSeq(l, k, Len(l)))
             \subseteq LogLinks(l)
<1> DEFINE es == SubSeq(l, k, Len(l))
<1>1. \A i \in k..Len(l) : l[i] \in Entry
  OBVIOUS
<1>2. /\ Len(l) \in Nat
      /\ Len(es) = IF k <= Len(l) THEN Len(l) - k + 1 ELSE 0
      /\ \A j \in 1..Len(es) : es[j] = l[k + j - 1]
  BY <1>1, SubSeqProperties
<1> HIDE DEF es
<1>3. ASSUME NEW j \in 1..Len(es)
      PROVE  /\ k + j - 1 \in 1..Len(l)
             /\ LinkAt(k - 1, TermAt(l, k - 1), es, j)
                  = LinkAt(0, 0, l, k + j - 1)
  <2>1. k + j - 1 \in 1..Len(l) /\ es[j] = l[k + j - 1]
    BY <1>2
  <2>2. CASE j = 1
    <3>1. TermAt(l, k - 1) = IF k = 1 THEN 0 ELSE l[k - 1].term
      BY <1>2, <2>1, <2>2 DEF TermAt
    <3> QED
      BY <2>1, <2>2, <3>1 DEF LinkAt
  <2>3. CASE j # 1
    <3>1. es[j - 1] = l[k + j - 2] /\ k + j - 1 # 1
      <4>1. j - 1 \in 1..Len(es) /\ k + (j - 1) - 1 = k + j - 2
        BY <1>2, <2>3
      <4> QED
        BY <1>2, <4>1, <2>3
    <3>2. (k + j - 1) - 1 = k + j - 2 /\ (k - 1) + j = 0 + (k + j - 1)
      OBVIOUS
    <3> QED
      BY <2>1, <2>3, <3>1, <3>2 DEF LinkAt
  <2> QED
    BY <2>2, <2>3
<1>4. LinksOf(k - 1, TermAt(l, k - 1), es) \subseteq LogLinks(l)
  BY <1>3 DEF LogLinks, LinksOf
<1> QED
  BY <1>4 DEF es

\* Where the merge of AppendEntries takes its entries from, position by
\* position.
LEMMA OverwriteParts ==
    ASSUME NEW l \in Seq(Entry), NEW es \in Seq(Entry), NEW p \in Nat,
           p <= Len(l), NEW j \in FirstDiverging(l, p, es),
           NEW i \in (j - 1)..Len(es)
    PROVE  /\ j \in 1..Len(es) /\ p + j - 1 <= Len(l)
           /\ Len(Overwrite(l, p, es, j, i)) = p + i
           /\ \A q \in 1..(p + j - 1) : Overwrite(l, p, es, j, i)[q] = l[q]
           /\ \A q \in (p + j)..(p + i) :
                Overwrite(l, p, es, j, i)[q] = es[q - p]
           /\ \A k \in 1..(j - 1) : l[p + k].term = es[k].term
           /\ p + j > Len(l) \/ l[p + j].term # es[j].term
<1>1. /\ j \in 1..Len(es)
      /\ p + j > Len(l) \/ l[p + j].term # es[j].term
      /\ \A k \in 1..(j - 1) : ~(p + k > Len(l)) /\ l[p + k].term = es[k].term
  BY DEF FirstDiverging, Diverges
<1>2. p + j - 1 <= Len(l)
  <2>1. CASE j = 1
    BY <2>1
  <2>2. CASE j # 1
    <3>1. j - 1 \in 1..(j - 1) /\ Len(l) \in Nat
      BY <1>1, <2>2
    <3>2. ~(p + (j - 1) > Len(l))
      BY <1>1, <3>1
    <3> QED
      BY <1>1, <3>1, <3>2
  <2> QED
    BY <2>1, <2>2
<1> DEFINE a == SubSeq(l, 1, p + j - 1)
           b == SubSeq(es, j, i)
<1>3. /\ a \in Seq(Entry) /\ Len(a) = p + j - 1
      /\ \A q \in 1..(p + j - 1) : a[q] = l[q]
  <2>1. \A q \in 1..(p + j - 1) : l[q] \in Entry
    BY <1>1, <1>2
  <2>2. 1 \in Int /\ p + j - 1 \in Nat
    BY <1>1
  <2>3. a \in Seq(Entry) /\ Len(a) = p + j - 1
    <3>1. p + j - 1 < 1 => p + j - 1 = 0
      BY <2>2
    <3> QED
      BY <2>1, <2>2, <3>1, SubSeqProperties
  <2>4. ASSUME NEW q \in 1..(p + j - 1) PROVE a[q] = l[q]
    <3>1. a[q] = l[1 + q - 1] /\ 1 + q - 1 = q
      BY <2>1, <2>2, SubSeqProperties
    <3> QED
      BY <3>1
  <2> QED
    BY <2>3, <2>4
<1>4. /\ b \in Seq(Entry) /\ Len(b) = i - j + 1
      /\ \A q \in 1..(i - j + 1) : b[q] = es[j + q - 1]
  <2>1. \A q \in j..i : es[q] \in Entry
    BY <1>1
  <2>2. i \in Int /\ j \in Int /\ (j > i => i - j + 1 = 0)
    BY <1>1
  <2> QED
    BY <2>1, <2>2, SubSeqProperties
<1> HIDE DEF a, b
<1>5. /\ Len(a \o b) = p + i
      /\ \A q \in 1..(p + i) :
           (a \o b)[q] = IF q <= p + j - 1 THEN a[q] ELSE b[q - (p + j - 1)]
  <2>1. /\ Len(a \o b) = Len(a) + Len(b)
        /\ \A q \in 1..(Len(a) + Len(b)) :
             (a \o b)[q] = IF q <= Len(a) THEN a[q] ELSE b[q - Len(a)]
    BY <1>3, <1>4, ConcatProperties
  <2>2. Len(a) + Len(b) = p + i
    BY <1>1, <1>3, <1>4
  <2> QED
    BY <1>3, <2>1, <2>2
<1>6. ASSUME NEW q \in 1..(p + j - 1) PROVE (a \o b)[q] = l[q]
  BY <1>1, <1>3, <1>5
<1>7. ASSUME NEW q \in (p + j)..(p + i) PROVE (a \o b)[q] = es[q - p]
  <2>1. /\ q \in 1..(p + i) /\ ~(q <= p + j - 1)
        /\ q - (p + j - 1) \in 1..(i - j + 1)
        /\ j + (q - (p + j - 1)) - 1 = q - p
    BY <1>1
  <2> QED
    BY <1>4, <1>5, <2>1
<1>8. Overwrite(l, p, es, j, i) = a \o b
  BY DEF Overwrite, a, b
<1> QED
  BY <1>1, <1>2, <1>5, <1>6, <1>7, <1>8

\* Cutting a log at the first divergence from a message that fits on it, and
\* appending some or all of the message's entries, makes no new link.
LEMMA OverwriteLinks ==
    ASSUME NEW l \in Seq(Entry), NEW es \in Seq(Entry), NEW p \in Nat, NEW pt,
           p <= Len(l), pt = TermAt(l, p),
           NEW j \in FirstDiverging(l, p, es), NEW i \in (j - 1)..Len(es)
    PROVE  LogLinks(Overwrite(l, p, es, j, i))
             \subseteq LogLinks(l) \cup LinksOf(p, pt, es)
<1> DEFINE o == Overwrite(l, p, es, j, i)
<1>1. /\ j \in 1..Len(es) /\ p + j - 1 <= Len(l)
      /\ Len(o) = p + i
      /\ \A q \in 1..(p + j - 1) : o[q] = l[q]
      /\ \A q \in (p + j)..(p + i) : o[q] = es[q - p]
      /\ \A k \in 1..(j - 1) : l[p + k].term = es[k].term
  BY OverwriteParts
<1>2. Len(l) \in Nat /\ Len(es) \in Nat
  OBVIOUS
<1> HIDE DEF o
<1>3. ASSUME NEW q \in 1..(p + j - 1)
      PROVE  q \in 1..Len(l) /\ LinkAt(0, 0, o, q) = LinkAt(0, 0, l, q)
  BY <1>1, <1>2 DEF LinkAt
<1>4. ASSUME NEW q \in (p + j)..(p + i)
      PROVE  q - p \in 1..Len(es) /\ LinkAt(0, 0, o, q) = LinkAt(p, pt, es, q - p)
  <2>1. /\ q - p \in 1..Len(es) /\ o[q] = es[q - p] /\ p + (q - p) = 0 + q
        /\ q \in 1..(p + i)
    <3>1. o[q] = es[q - p]
      BY <1>1
    <3>2. i \in Int /\ i <= Len(es) /\ j \in 1..Len(es)
      BY <1>1, <1>2
    <3>3. q - p \in 1..Len(es) /\ p + (q - p) = 0 + q /\ q \in 1..(p + i)
      BY <1>2, <3>2
    <3> QED
      BY <3>1, <3>3
  <2>2. (IF q = 1 THEN 0 ELSE o[q - 1].term)
          = (IF q - p = 1 THEN pt ELSE es[q - p - 1].term)
    <3>1. CASE q = 1
      <4>1. p = 0 /\ q - p = 1 /\ pt = 0
        BY <1>1, <2>1, <3>1 DEF TermAt
      <4> QED
        BY <3>1, <4>1
    <3>2. CASE q # 1 /\ q - p = 1
      <4>1. j = 1 /\ q - 1 = p /\ p \in 1..Len(l) /\ q - 1 \in 1..(p + j - 1)
        BY <1>1, <1>2, <2>1, <3>2
      <4>2. pt = l[p].term
        BY <4>1 DEF TermAt
      <4>3. o[q - 1] = l[p]
        BY <1>1, <4>1
      <4> QED
        BY <3>2, <4>2, <4>3
    <3>3. CASE q - p # 1 /\ q = p + j
      <4>1. /\ q # 1 /\ j - 1 \in 1..(j - 1) /\ q - 1 \in 1..(p + j - 1)
            /\ p + (j - 1) = q - 1 /\ q - p - 1 = j - 1
        BY <1>1, <1>2, <3>3
      <4>2. o[q - 1] = l[q - 1] /\ l[q - 1].term = es[j - 1].term
        BY <1>1, <4>1
      <4> QED
        BY <3>3, <4>1, <4>2
    <3>4. CASE q - p # 1 /\ q # p + j
      <4>1. q - 1 \in (p + j)..(p + i) /\ q # 1 /\ q - 1 - p = q - p - 1
        BY <1>1, <1>2, <3>4
      <4>2. o[q - 1] = es[q - p - 1]
        BY <1>1, <4>1
      <4> QED
        BY <3>4, <4>1, <4>2
    <3> QED
      BY <3>1, <3>2, <3>3, <3>4
  <2> QED
    BY <2>1, <2>2 DEF LinkAt
<1>5. \A q \in 1..Len(o) : q \in 1..(p + j - 1) \/ q \in (p + j)..(p + i)
  BY <1>1, <1>2
<1>6. LogLinks(o) \subseteq LogLinks(l) \cup LinksOf(p, pt, es)
  BY <1>3, <1>4, <1>5 DEF LogLinks, LinksOf
<1> QED
  BY <1>6 DEF o

\* Nor does the merge of a message that fits on the log.
LEMMA MergeLinks ==
    ASSUME NEW l \in Seq(Entry), NEW es \in Seq(Entry), NEW p \in Nat, NEW pt,
           p <= Len(l), pt = TermAt(l, p)
    PROVE  LogLinks(Merge(l, p, es)) \subseteq LogLinks(l) \cup LinksOf(p, pt, es)
<1>1. CASE FirstDiverging(l, p, es) = {}
  BY <1>1 DEF Merge
<1>2. CASE FirstDiverging(l, p, es) # {}
  <2> DEFINE j == CHOOSE x \in FirstDiverging(l, p, es) : TRUE
  <2>1. j \in FirstDiverging(l, p, es)
    BY <1>2
  <2>2. j \in 1..Len(es)
    BY <2>1 DEF FirstDiverging
  <2>3. Len(es) \in (j - 1)..Len(es)
    BY <2>2
  <2>4. LogLinks(Overwrite(l, p, es, j, Len(es)))
          \subseteq LogLinks(l) \cup LinksOf(p, pt, es)
    BY <2>1, <2>3, OverwriteLinks
  <2> QED
    BY <1>2, <2>4 DEF Merge
<1> QED
  BY <1>1, <1>2

\* A link's parts are numbers and an entry.
LEMMA LinkType ==
    ASSUME NEW p \in Nat, NEW pt \in Nat, NEW es \in Seq(Entry),
           NEW x \in LinksOf(p, pt, es)
    PROVE  /\ x.index \in Nat /\ x.index > p /\ x.index <= p + Len(es)
           /\ x.entry \in Entry /\ x.entry.term \in Nat /\ x.before \in Nat
           /\ x.entry = es[x.index - p]
<1>1. PICK j \in 1..Len(es) : x = LinkAt(p, pt, es, j)
  BY DEF LinksOf
<1>2. \A k \in 1..Len(es) : es[k] \in Entry /\ es[k].term \in Nat
  <2>1. \A k \in 1..Len(es) : es[k] \in Entry
    OBVIOUS
  <2> QED
    BY <2>1 DEF Entry
<1>3. x.before \in Nat
  <2>1. j # 1 => j - 1 \in 1..Len(es)
    OBVIOUS
  <2> QED
    BY <1>1, <1>2, <2>1 DEF LinkAt
<1>4. x.index = p + j /\ x.entry = es[j]
  BY <1>1 DEF LinkAt
<1>5. x.index - p = j /\ j \in Nat /\ Len(es) \in Nat
  BY <1>4
<1> QED
  BY <1>2, <1>3, <1>4, <1>5

\* So are the parts of every link of the system.
LEMMA LinksType ==
    ASSUME TypeOK, NEW x \in Links
    PROVE  /\ x.index \in Nat \ {0} /\ x.entry \in Entry
           /\ x.entry.term \in Nat /\ x.before \in Nat
<1>1. ASSUME NEW n \in Node, x \in LogLinks(log[n])
      PROVE  /\ x.index \in Nat \ {0} /\ x.entry \in Entry
             /\ x.entry.term \in Nat /\ x.before \in Nat
  <2>1. log[n] \in Seq(Entry)
    BY DEF TypeOK
  <2>2. x \in LinksOf(0, 0, log[n])
    BY <1>1 DEF LogLinks
  <2> QED
    BY <2>1, <2>2, LinkType
<1>2. ASSUME NEW m \in Appends, x \in MessageLinks(m)
      PROVE  /\ x.index \in Nat \ {0} /\ x.entry \in Entry
             /\ x.entry.term \in Nat /\ x.before \in Nat
  <2>1. m \in AppendEntries
    BY MessageFields DEF TypeOK, Appends
  <2>2. /\ m.prev_log_index \in Nat /\ m.prev_log_term \in Nat
        /\ m.entries \in Seq(Entry)
    BY <2>1 DEF AppendEntries
  <2>3. x \in LinksOf(m.prev_log_index, m.prev_log_term, m.entries)
    BY <1>2 DEF MessageLinks
  <2> QED
    BY <2>2, <2>3, LinkType
<1> QED
  BY <1>1, <1>2 DEF Links

\* The links of a log or message are links; and all links are of these.
LEMMA LinkSources ==
    /\ \A n \in Node : LogLinks(log[n]) \subseteq Links
    /\ \A m \in Appends : MessageLinks(m) \subseteq Links
    /\ \A S : (\A n \in Node : LogLinks(log[n]) \subseteq S)
                /\ (\A m \in Appends : MessageLinks(m) \subseteq S)
              => Links \subseteq S
BY DEF Links

\* What a leader sends: copies of links of its log, in its term.
LEMMA AppendMsgLinks ==
    ASSUME TypeOK, NEW n \in Node, NEW p \in Node, NEW l \in Seq(Entry),
           NEW k \in Nat \ {0}, NEW m, m = AppendEntriesMsg(n, p, l, k)
    PROVE  /\ m.type = "AppendEntries" /\ m.from = n /\ m.term = current_term[n]
           /\ MessageLinks(m) \subseteq LogLinks(l)
           /\ m.prev_log_index = 0 => m.prev_log_term = 0
<1>1. /\ m.type = "AppendEntries" /\ m.from = n /\ m.term = current_term[n]
      /\ m.prev_log_index = k - 1 /\ m.prev_log_term = TermAt(l, k - 1)
      /\ m.entries = SubSeq(l, k, Len(l))
  BY DEF AppendEntriesMsg
<1>2. MessageLinks(m) \subseteq LogLinks(l)
  BY <1>1, SuffixLinks DEF MessageLinks
<1>3. TermAt(l, 0) = 0
  BY DEF TermAt
<1> QED
  BY <1>1, <1>2, <1>3

\* The same of each message of a broadcast.
LEMMA BroadcastLinks ==
    ASSUME TypeOK, NEW n \in Node, NEW l \in Seq(Entry),
           NEW ni \in [Node -> Nat \ {0}], NEW m \in Broadcast(n, l, ni)
    PROVE  /\ m.type = "AppendEntries" /\ m.from = n /\ m.term = current_term[n]
           /\ MessageLinks(m) \subseteq LogLinks(l)
           /\ m.prev_log_index = 0 => m.prev_log_term = 0
<1>1. PICK p \in Peers(n) : m = AppendEntriesMsg(n, p, l, ni[p])
  BY DEF Broadcast
<1>2. p \in Node /\ ni[p] \in Nat \ {0}
  BY DEF Peers
<1> QED
  BY <1>1, <1>2, AppendMsgLinks

(***************************************************************************)
(* Most steps are quiet also for the logs: no link is new, no role gained, *)
(* a leader's log untouched, and only a leader sends AppendEntries.        *)
(***************************************************************************)
LeadersKeepLogs ==
    \A n \in Node : role'[n] = "Leader" => log'[n] = log[n]

SentByLeaders ==
    /\ net \subseteq net'
    /\ \A m \in net' \ net : m.type = "AppendEntries" =>
         /\ m.from \in Node /\ role[m.from] = "Leader"
         /\ m.term = current_term[m.from]
         /\ MessageLinks(m) \subseteq LogLinks(log[m.from])
         /\ m.prev_log_index = 0 => m.prev_log_term = 0

LogsRelinked ==
    \A n \in Node : \A x \in LogLinks(log'[n]) :
        x \in Links /\ x.entry.term <= current_term'[n]

LogQuiet == GainsNoRole /\ LeadersKeepLogs /\ SentByLeaders /\ LogsRelinked

\* A quiet step makes no link.
LEMMA LogQuietLinks ==
    ASSUME SentByLeaders, LogsRelinked
    PROVE  Links' \subseteq Links
<1>1. \A n \in Node : LogLinks(log'[n]) \subseteq Links
  BY DEF LogsRelinked
<1>2. ASSUME NEW m \in Appends' PROVE MessageLinks(m) \subseteq Links
  <2>1. CASE m \in net
    <3>1. m \in Appends
      BY <2>1 DEF Appends
    <3> QED
      BY <3>1, LinkSources
  <2>2. CASE m \notin net
    <3>1. m.from \in Node /\ MessageLinks(m) \subseteq LogLinks(log[m.from])
      BY <2>2 DEF SentByLeaders, Appends
    <3> QED
      BY <3>1, LinkSources
  <2> QED
    BY <2>1, <2>2
<1> QED
  BY <1>1, <1>2 DEF Links

\* Messages are not forgotten, so neither is who led.
LEMMA LedStays ==
    ASSUME net \subseteq net', NEW c, NEW t, Led(c, t)
    PROVE  Led(c, t)'
BY DEF Led, Appends

\* A quiet step preserves the invariant of the logs.
LEMMA LogQuietStep ==
    ASSUME TypeOK, TypeOK', ElectionInv, LogInv, LogQuiet
    PROVE  LogInv'
<1>1. Links' \subseteq Links
  BY LogQuietLinks DEF LogQuiet
<1>2. net \subseteq net'
  BY DEF LogQuiet, SentByLeaders
<1>3. ASSUME NEW x \in Links'
      PROVE  /\ x.entry.index = x.index /\ x.before <= x.entry.term
             /\ \E c \in Node : Led(c, x.entry.term)'
  <2>1. x \in Links
    BY <1>1
  <2> QED
    BY <1>2, <2>1, LedStays DEF LogInv
<1>4. \A x, y \in Links' :
        x.index = y.index /\ x.entry.term = y.entry.term => x = y
  BY <1>1 DEF LogInv
<1>5. ASSUME NEW n \in Node, role'[n] = "Leader"
      PROVE  /\ Led(n, current_term[n])'
             /\ \A x \in Links' : x.entry.term = current_term'[n]
                                    => x \in LogLinks(log'[n])
  <2>1. /\ role[n] = "Leader" /\ current_term'[n] = current_term[n]
        /\ log'[n] = log[n]
    BY <1>5 DEF LogQuiet, GainsNoRole, LeadersKeepLogs
  <2>2. Led(n, current_term[n])
    BY <2>1 DEF LogInv
  <2>3. Led(n, current_term[n])'
    BY <1>2, <2>1, <2>2 DEF Led, Appends
  <2>4. \A x \in Links : x.entry.term = current_term[n] => x \in LogLinks(log[n])
    BY <2>1 DEF LogInv
  <2> QED
    BY <1>1, <2>1, <2>3, <2>4
<1>6. ASSUME NEW n \in Node, role'[n] = "Candidate"
      PROVE  ~Led(n, current_term[n])'
  <2> SUFFICES ASSUME NEW m \in Appends', m.from = n, m.term = current_term'[n]
               PROVE  FALSE
    BY DEF Led
  <2>1. role[n] = "Candidate" /\ current_term'[n] = current_term[n]
    BY <1>6 DEF LogQuiet, GainsNoRole
  <2>2. m \in net
    BY <2>1 DEF LogQuiet, SentByLeaders, Appends
  <2>3. m \in Appends
    BY <2>2 DEF Appends
  <2> QED
    BY <2>1, <2>3 DEF LogInv, Led
<1>7. ASSUME NEW m \in Appends'
      PROVE  /\ m.prev_log_index = 0 => m.prev_log_term = 0
             /\ \A x \in MessageLinks(m) : x.entry.term <= m.term
  <2>1. CASE m \in net
    <3>1. m \in Appends
      BY <2>1 DEF Appends
    <3> QED
      BY <3>1 DEF LogInv
  <2>2. CASE m \notin net
    <3>1. /\ m.from \in Node /\ m.term = current_term[m.from]
          /\ MessageLinks(m) \subseteq LogLinks(log[m.from])
          /\ m.prev_log_index = 0 => m.prev_log_term = 0
      BY <2>2 DEF LogQuiet, SentByLeaders, Appends
    <3> QED
      BY <3>1 DEF LogInv
  <2> QED
    BY <2>1, <2>2
<1>8. \A n \in Node : \A x \in LogLinks(log'[n]) :
        x.entry.term <= current_term'[n]
  BY DEF LogQuiet, LogsRelinked
<1> QED
  BY <1>3, <1>4, <1>5, <1>6, <1>7, <1>8 DEF LogInv

\* Adopting a message's term lowers no term.
LEMMA TermsRise ==
    ASSUME TypeOK, NEW n \in Node, NEW m \in net,
           current_term' = [current_term EXCEPT ![n] = TermAfter(n, m)]
    PROVE  \A k \in Node : current_term'[k] \in Nat
                             /\ current_term'[k] >= current_term[k]
<1>1. /\ TermAfter(n, m) \in Nat /\ current_term'[n] = TermAfter(n, m)
      /\ current_term[n] <= TermAfter(n, m)
  BY AdoptQuiet
<1>2. \A k \in Node : k # n => current_term'[k] = current_term[k]
  BY DEF TypeOK
<1>3. \A k \in Node : current_term[k] \in Nat
  BY DEF TypeOK
<1> QED
  BY <1>1, <1>2, <1>3

\* A handler that leaves the log alone and sends no AppendEntries.
LEMMA UntouchedLogs ==
    ASSUME TypeOK, LogInv, log' = log, net \subseteq net',
           \A m \in net' \ net : m.type # "AppendEntries",
           \A n \in Node : current_term'[n] \in Nat
                             /\ current_term'[n] >= current_term[n]
    PROVE  LeadersKeepLogs /\ SentByLeaders /\ LogsRelinked
<1>1. ASSUME NEW n \in Node, NEW x \in LogLinks(log'[n])
      PROVE  x \in Links /\ x.entry.term <= current_term'[n]
  <2>1. x \in LogLinks(log[n]) /\ x \in Links
    BY <1>1, LinkSources
  <2>2. x.entry.term <= current_term[n]
    BY <2>1 DEF LogInv
  <2>3. x.entry.term \in Nat /\ current_term[n] \in Nat
    BY <2>1, LinksType DEF TypeOK
  <2> QED
    BY <2>1, <2>2, <2>3
<1> QED
  BY <1>1 DEF LeadersKeepLogs, SentByLeaders, LogsRelinked

\* A leader that sends parts of its log.
LEMMA LeaderSends ==
    ASSUME TypeOK, LogInv, NEW n \in Node, role[n] = "Leader",
           log' = log, current_term' = current_term,
           NEW ms, net' = net \cup ms,
           \A m \in ms :
              /\ m.type = "AppendEntries" /\ m.from = n
              /\ m.term = current_term[n]
              /\ MessageLinks(m) \subseteq LogLinks(log[n])
              /\ m.prev_log_index = 0 => m.prev_log_term = 0
    PROVE  LeadersKeepLogs /\ SentByLeaders /\ LogsRelinked
<1>1. SentByLeaders
  BY DEF SentByLeaders
<1>2. LogsRelinked
  BY LinkSources DEF LogsRelinked, LogInv
<1> QED
  BY <1>1, <1>2 DEF LeadersKeepLogs

\* tick() of a leader.
LEMMA HeartbeatLogQuiet ==
    ASSUME TypeOK, ElectionInv, LogInv, NEW n \in Node, Heartbeat(n)
    PROVE  LogQuiet
<1>1. GainsNoRole
  BY HeartbeatQuiet DEF Quiet
<1>2. /\ role[n] = "Leader" /\ current_term' = current_term /\ log' = log
      /\ net' = net \cup Broadcast(n, log[n], next_index[n])
  BY DEF Heartbeat, Send, durable
<1>3. log[n] \in Seq(Entry) /\ next_index[n] \in [Node -> Nat \ {0}]
  BY DEF TypeOK
<1>4. \A m \in Broadcast(n, log[n], next_index[n]) :
              /\ m.type = "AppendEntries" /\ m.from = n
              /\ m.term = current_term[n]
              /\ MessageLinks(m) \subseteq LogLinks(log[n])
              /\ m.prev_log_index = 0 => m.prev_log_term = 0
  BY <1>3, BroadcastLinks
<1>5. LeadersKeepLogs /\ SentByLeaders /\ LogsRelinked
  BY <1>2, <1>4, LeaderSends
<1> QED
  BY <1>1, <1>5 DEF LogQuiet

\* step(), RequestVote.
LEMMA HandleRequestVoteLogQuiet ==
    ASSUME TypeOK, LogInv, NEW n \in Node, NEW m \in net,
           HandleRequestVote(n, m)
    PROVE  LogQuiet
<1>1. /\ current_term' = [current_term EXCEPT ![n] = TermAfter(n, m)]
      /\ role' = [role EXCEPT ![n] = RoleAfter(n, m)]
      /\ log' = log /\ net \subseteq net'
      /\ \A r \in net' \ net : r.type # "AppendEntries"
  BY DEF HandleRequestVote, Exchange
<1>2. GainsNoRole
  BY <1>1, AdoptQuiet
<1>3. \A k \in Node : current_term'[k] \in Nat
                        /\ current_term'[k] >= current_term[k]
  BY <1>1, TermsRise
<1> QED
  BY <1>1, <1>2, <1>3, UntouchedLogs DEF LogQuiet

\* step(), AppendEntriesReply: the one message sent is a part of the log.
LEMMA HandleAppendEntriesReplyLogQuiet ==
    ASSUME TypeOK, ElectionInv, LogInv, NEW n \in Node, NEW m \in net,
           HandleAppendEntriesReply(n, m)
    PROVE  LogQuiet
<1>1. GainsNoRole
  BY HandleAppendEntriesReplyQuiet DEF Quiet
<1>2. /\ current_term' = [current_term EXCEPT ![n] = TermAfter(n, m)]
      /\ log' = log
  BY DEF HandleAppendEntriesReply
<1>3. CASE Exchange(m, {})
  <2>1. \A k \in Node : current_term'[k] \in Nat
                          /\ current_term'[k] >= current_term[k]
    BY <1>2, TermsRise
  <2>2. net' = net
    BY <1>3 DEF Exchange
  <2> QED
    BY <1>1, <1>2, <2>1, <2>2, UntouchedLogs DEF LogQuiet
<1> DEFINE r == AppendEntriesMsg(n, m.from, log[n], next_index[n][m.from] - 1)
<1>4. CASE /\ RoleAfter(n, m) = "Leader" /\ CanStepBack(n, m.from)
           /\ Exchange(m, {r})
  <2>1. role[n] = "Leader" /\ current_term' = current_term
    <3>1. ~(m.term > current_term[n]) /\ role[n] = "Leader"
      BY <1>4 DEF RoleAfter
    <3> QED
      BY <1>2, <3>1 DEF TermAfter, TypeOK
  <2>2. /\ m.from \in Node /\ log[n] \in Seq(Entry)
        /\ next_index[n][m.from] - 1 \in Nat \ {0}
    BY <1>4, MessageFields, StepBackType DEF TypeOK
  <2> HIDE DEF r
  <2>3. /\ r.type = "AppendEntries" /\ r.from = n /\ r.term = current_term[n]
        /\ MessageLinks(r) \subseteq LogLinks(log[n])
        /\ r.prev_log_index = 0 => r.prev_log_term = 0
    <3> DEFINE k == next_index[n][m.from] - 1
    <3>1. k \in Nat \ {0} /\ r = AppendEntriesMsg(n, m.from, log[n], k)
      BY <2>2 DEF r
    <3> HIDE DEF k
    <3> QED
      BY <2>2, <3>1, AppendMsgLinks
  <2>4. net' = net \cup {r}
    BY <1>4 DEF Exchange
  <2>5. LeadersKeepLogs /\ SentByLeaders /\ LogsRelinked
    <3> DEFINE ms == {r}
    <3>1. \A x \in ms :
              /\ x.type = "AppendEntries" /\ x.from = n
              /\ x.term = current_term[n]
              /\ MessageLinks(x) \subseteq LogLinks(log[n])
              /\ x.prev_log_index = 0 => x.prev_log_term = 0
      BY <2>3
    <3>2. net' = net \cup ms
      BY <2>4
    <3> HIDE DEF ms
    <3> QED
      BY <1>2, <2>1, <3>1, <3>2, LeaderSends
  <2> QED
    BY <1>1, <2>5 DEF LogQuiet
<1> QED
  BY <1>3, <1>4 DEF HandleAppendEntriesReply

\* An AppendEntries that is accepted fits on the log: what its prev_log_index
\* and prev_log_term say of the log is so.
LEMMA AcceptedFits ==
    ASSUME TypeOK, LogInv, NEW n \in Node, NEW m \in net,
           m.type = "AppendEntries", Accepts(n, m)
    PROVE  /\ m \in Appends /\ m.entries \in Seq(Entry)
           /\ m.prev_log_index \in Nat /\ m.prev_log_term \in Nat
           /\ m.prev_log_index <= Len(log[n])
           /\ m.prev_log_term = TermAt(log[n], m.prev_log_index)
           /\ m.term = TermAfter(n, m) /\ log[n] \in Seq(Entry)
           /\ m.term \in Nat /\ current_term[n] <= m.term
<1>1. m \in Appends /\ m \in AppendEntries
  BY MessageFields DEF TypeOK, Appends
<1>2. /\ m.entries \in Seq(Entry) /\ m.term \in Nat
      /\ m.prev_log_index \in Nat /\ m.prev_log_term \in Nat
  BY <1>1 DEF AppendEntries
<1>3. log[n] \in Seq(Entry) /\ current_term[n] \in Nat
  BY DEF TypeOK
<1>4. m.term = TermAfter(n, m) /\ current_term[n] <= m.term
  BY <1>2, <1>3 DEF Accepts, TermAfter
<1>5. CASE m.prev_log_index = 0
  <2>1. m.prev_log_term = 0
    BY <1>1, <1>5 DEF LogInv
  <2>2. TermAt(log[n], 0) = 0 /\ 0 <= Len(log[n])
    BY <1>3 DEF TermAt
  <2> QED
    BY <1>1, <1>2, <1>3, <1>4, <1>5, <2>1, <2>2
<1>6. CASE m.prev_log_index # 0
  <2>1. /\ m.prev_log_index <= Len(log[n])
        /\ log[n][m.prev_log_index].term = m.prev_log_term
    BY <1>2, <1>6 DEF Accepts, PrevOk
  <2>2. m.prev_log_index \in 1..Len(log[n])
    BY <1>2, <1>3, <1>6, <2>1
  <2> QED
    BY <1>1, <1>2, <1>3, <1>4, <2>1, <2>2 DEF TermAt
<1> QED
  BY <1>5, <1>6

\* A log whose links are the follower's and an accepted message's.
LEMMA FollowerRelinks ==
    ASSUME TypeOK, LogInv, NEW n \in Node, NEW m \in Appends, NEW l,
           LogLinks(l) \subseteq LogLinks(log[n]) \cup MessageLinks(m),
           m.term \in Nat, current_term[n] <= m.term,
           current_term' = [current_term EXCEPT ![n] = m.term],
           log' = [log EXCEPT ![n] = l]
    PROVE  LogsRelinked
<1> SUFFICES ASSUME NEW k \in Node, NEW x \in LogLinks(log'[k])
             PROVE  x \in Links /\ x.entry.term <= current_term'[k]
  BY DEF LogsRelinked
<1>1. current_term \in [Node -> Nat] /\ log \in [Node -> Seq(Entry)]
  BY DEF TypeOK
<1>2. CASE k # n
  <2>1. log'[k] = log[k] /\ current_term'[k] = current_term[k]
    BY <1>1, <1>2
  <2> QED
    BY <2>1, LinkSources DEF LogInv
<1>3. CASE k = n
  <2>1. log'[n] = l /\ current_term'[n] = m.term
    BY <1>1
  <2>2. x \in LogLinks(log[n]) \/ x \in MessageLinks(m)
    BY <1>3, <2>1
  <2>3. x \in Links
    BY <2>2, LinkSources
  <2>4. x.entry.term <= current_term[n] \/ x.entry.term <= m.term
    BY <2>2 DEF LogInv
  <2>5. x.entry.term \in Nat /\ current_term[n] \in Nat
    BY <1>1, <2>3, LinksType
  <2> QED
    BY <1>3, <2>1, <2>3, <2>4, <2>5
<1> QED
  BY <1>2, <1>3

\* step(), AppendEntries: a node that takes entries is a follower afterwards.
LEMMA HandleAppendEntriesLogQuiet ==
    ASSUME TypeOK, ElectionInv, LogInv, NEW n \in Node, NEW m \in net,
           HandleAppendEntries(n, m)
    PROVE  LogQuiet
<1>1. GainsNoRole
  BY HandleAppendEntriesQuiet DEF Quiet
<1>2. /\ current_term' = [current_term EXCEPT ![n] = TermAfter(n, m)]
      /\ role' = [role EXCEPT ![n] = IF m.term = TermAfter(n, m)
                                     THEN "Follower" ELSE @]
      /\ log' = [log EXCEPT ![n] =
                   IF Accepts(n, m)
                   THEN Merge(log[n], m.prev_log_index, m.entries) ELSE log[n]]
      /\ m.type = "AppendEntries"
      /\ net \subseteq net'
      /\ \A r \in net' \ net : r.type # "AppendEntries"
  BY DEF HandleAppendEntries, Exchange
<1>3. CASE ~Accepts(n, m)
  <2>1. log' = log
    BY <1>2, <1>3 DEF TypeOK
  <2>2. \A k \in Node : current_term'[k] \in Nat
                          /\ current_term'[k] >= current_term[k]
    BY <1>2, TermsRise
  <2> QED
    BY <1>1, <1>2, <2>1, <2>2, UntouchedLogs DEF LogQuiet
<1>4. CASE Accepts(n, m)
  <2> DEFINE l == Merge(log[n], m.prev_log_index, m.entries)
  <2>1. /\ m \in Appends /\ m.entries \in Seq(Entry)
        /\ m.prev_log_index \in Nat
        /\ m.prev_log_index <= Len(log[n])
        /\ m.prev_log_term = TermAt(log[n], m.prev_log_index)
        /\ m.term = TermAfter(n, m) /\ log[n] \in Seq(Entry)
        /\ m.term \in Nat /\ current_term[n] <= m.term
    BY <1>2, <1>4, AcceptedFits
  <2>2. LogLinks(l) \subseteq LogLinks(log[n]) \cup MessageLinks(m)
    BY <2>1, MergeLinks DEF MessageLinks
  <2>3. log' = [log EXCEPT ![n] = l]
    BY <1>2, <1>4
  <2> HIDE DEF l
  <2>4. LogsRelinked
    BY <1>2, <2>1, <2>2, <2>3, FollowerRelinks
  <2>5. LeadersKeepLogs
    BY <1>2, <2>1, <2>3 DEF LeadersKeepLogs, TypeOK
  <2>6. SentByLeaders
    BY <1>2 DEF SentByLeaders
  <2> QED
    BY <1>1, <2>4, <2>5, <2>6 DEF LogQuiet
<1> QED
  BY <1>3, <1>4

\* A crash, wherever it falls, leaves links that were there.
LEMMA CrashLogQuiet ==
    ASSUME TypeOK, ElectionInv, LogInv, NEW n \in Node, Crash(n)
    PROVE  LogQuiet
<1>1. GainsNoRole
  BY CrashQuiet DEF Quiet
<1>2. CASE Restart(n)
  <2>1. log' = log /\ net' = net /\ current_term' = current_term
    BY <1>2 DEF Restart, durable, network
  <2> QED
    BY <1>1, <2>1, UntouchedLogs DEF LogQuiet, TypeOK
<1>3. CASE TornCandidate(n)
  <2>1. /\ log' = log /\ net' = net
        /\ current_term' = [current_term EXCEPT ![n] = @ + 1]
    BY <1>3 DEF TornCandidate, network
  <2>2. \A k \in Node : current_term'[k] \in Nat
                          /\ current_term'[k] >= current_term[k]
    <3>1. current_term \in [Node -> Nat]
      BY DEF TypeOK
    <3> QED
      BY ONLY <2>1, <3>1
  <2> QED
    BY <1>1, <2>1, <2>2, UntouchedLogs DEF LogQuiet
<1>4. ASSUME NEW m \in net, TornFollower(n, m)
      PROVE  LogQuiet
  <2>1. /\ log' = log /\ net' = net
        /\ current_term' = [current_term EXCEPT ![n] = m.term]
        /\ m.term > current_term[n]
    BY <1>4 DEF TornFollower, Exchange
  <2>2. m.term \in Nat
    BY MessageFields DEF TypeOK
  <2>3. \A k \in Node : current_term'[k] \in Nat
                          /\ current_term'[k] >= current_term[k]
    <3>1. current_term \in [Node -> Nat]
      BY DEF TypeOK
    <3> QED
      BY ONLY <2>1, <2>2, <3>1
  <2> QED
    BY <1>1, <2>1, <2>3, UntouchedLogs DEF LogQuiet
<1>5. ASSUME NEW m \in net, TornAppend(n, m)
      PROVE  LogQuiet
  <2>1. /\ m.type = "AppendEntries" /\ Accepts(n, m) /\ net' = net
        /\ current_term' = [current_term EXCEPT ![n] = TermAfter(n, m)]
    BY <1>5 DEF TornAppend, Exchange
  <2>2. /\ m \in Appends /\ m.entries \in Seq(Entry)
        /\ m.prev_log_index \in Nat
        /\ m.prev_log_index <= Len(log[n])
        /\ m.prev_log_term = TermAt(log[n], m.prev_log_index)
        /\ m.term = TermAfter(n, m) /\ log[n] \in Seq(Entry)
        /\ m.term \in Nat /\ current_term[n] <= m.term
    BY <2>1, AcceptedFits
  <2>3. PICK j \in FirstDiverging(log[n], m.prev_log_index, m.entries) :
          \E i \in (j - 1)..Len(m.entries) :
            log' = [log EXCEPT ![n] =
                      Overwrite(@, m.prev_log_index, m.entries, j, i)]
    BY <1>5 DEF TornAppend
  <2>4. PICK i \in (j - 1)..Len(m.entries) :
            log' = [log EXCEPT ![n] =
                      Overwrite(log[n], m.prev_log_index, m.entries, j, i)]
    BY <2>3
  <2> DEFINE l == Overwrite(log[n], m.prev_log_index, m.entries, j, i)
  <2>5. LogLinks(l) \subseteq LogLinks(log[n]) \cup MessageLinks(m)
    BY <2>2, OverwriteLinks DEF MessageLinks
  <2>6. log' = [log EXCEPT ![n] = l]
    BY <2>4
  <2> HIDE DEF l
  <2>7. LogsRelinked
    BY <2>1, <2>2, <2>5, <2>6, FollowerRelinks
  <2>8. role'[n] = "Follower"
    BY <1>5 DEF TornAppend, Forget, TypeOK
  <2>9. LeadersKeepLogs
    BY <2>6, <2>8 DEF LeadersKeepLogs, TypeOK
  <2>10. SentByLeaders
    BY <2>1 DEF SentByLeaders
  <2> QED
    BY <1>1, <2>7, <2>9, <2>10 DEF LogQuiet
<1> QED
  BY <1>2, <1>3, <1>4, <1>5 DEF Crash

(***************************************************************************)
(* Three steps are not quiet: standing for election, winning it, and the   *)
(* leader's append.                                                        *)
(***************************************************************************)

\* become_candidate: nothing of the new term can be the candidate's yet.
LEMMA BecomeCandidateLogs ==
    ASSUME TypeOK, TypeOK', ElectionInv, LogInv, NEW n \in Node,
           BecomeCandidate(n)
    PROVE  LogInv'
<1>1. /\ current_term' = [current_term EXCEPT ![n] = @ + 1]
      /\ role' = [role EXCEPT ![n] = "Candidate"]
      /\ log' = log /\ net \subseteq net'
      /\ \A m \in net' \ net : m.type # "AppendEntries"
  BY DEF BecomeCandidate, Send, RequestVoteMsg
<1>2. Appends' = Appends
  BY <1>1 DEF Appends
<1>3. Links' = Links
  BY <1>1, <1>2 DEF Links
<1>4. \A k \in Node \ {n} : role'[k] = role[k]
                              /\ current_term'[k] = current_term[k]
  BY <1>1 DEF TypeOK
<1>5. /\ role'[n] = "Candidate" /\ current_term'[n] = current_term[n] + 1
      /\ current_term[n] \in Nat
  BY <1>1 DEF TypeOK
<1>6. \A c, t : Led(c, t)' <=> Led(c, t)
  BY <1>2 DEF Led
<1>7. ~Led(n, current_term[n] + 1)
  <2> SUFFICES ASSUME NEW m \in Appends, m.from = n,
                      m.term = current_term[n] + 1
               PROVE  FALSE
    BY DEF Led
  <2>1. m.term <= current_term[n]
    BY DEF Appends, ElectionInv
  <2> QED
    BY <1>5, <2>1
<1>8. ASSUME NEW k \in Node, role'[k] = "Leader"
      PROVE  /\ Led(k, current_term[k])'
             /\ \A x \in Links' : x.entry.term = current_term'[k]
                                    => x \in LogLinks(log'[k])
  <2>1. k # n /\ role[k] = "Leader" /\ current_term'[k] = current_term[k]
    BY <1>4, <1>5, <1>8
  <2>2. Led(k, current_term[k])
    BY <2>1 DEF LogInv
  <2>3. Led(k, current_term[k])'
    BY <1>2, <2>1, <2>2 DEF Led
  <2> QED
    BY <1>1, <1>3, <2>1, <2>3 DEF LogInv
<1>9. ASSUME NEW k \in Node, role'[k] = "Candidate"
      PROVE  ~Led(k, current_term[k])'
  <2>1. ~Led(k, current_term'[k])
    BY <1>4, <1>5, <1>7, <1>9 DEF LogInv
  <2> QED
    BY <1>2, <2>1 DEF Led
<1>10. ASSUME NEW k \in Node, NEW x \in LogLinks(log'[k])
       PROVE  x.entry.term <= current_term'[k]
  <2>1. x \in Links /\ x.entry.term <= current_term[k]
    BY <1>1, <1>10, LinkSources DEF LogInv
  <2>2. x.entry.term \in Nat /\ current_term[k] \in Nat
    BY <2>1, LinksType DEF TypeOK
  <2>3. current_term'[k] >= current_term[k]
    BY <1>4, <1>5, <2>2
  <2>4. current_term'[k] \in Nat
    BY DEF TypeOK
  <2> QED
    BY <2>1, <2>2, <2>3, <2>4
<1> QED
  BY <1>2, <1>3, <1>6, <1>8, <1>9, <1>10 DEF LogInv

\* Counting the winning vote: whoever led in this term before was elected in
\* it, hence is this node, and this node has not led yet.
LEMMA HandleRequestVoteReplyLogs ==
    ASSUME AtMostThree, TypeOK, TypeOK', ElectionInv, LogInv,
           NEW n \in Node, NEW m \in net, HandleRequestVoteReply(n, m)
    PROVE  LogInv'
<1>1. /\ current_term' = [current_term EXCEPT ![n] = TermAfter(n, m)]
      /\ log' = log /\ m.to = n
  BY DEF HandleRequestVoteReply
<1>2. ASSUME GainsNoRole, net' = net
      PROVE  LogInv'
  <2>1. \A k \in Node : current_term'[k] \in Nat
                          /\ current_term'[k] >= current_term[k]
    BY <1>1, TermsRise
  <2>2. LogQuiet
    BY <1>1, <1>2, <2>1, UntouchedLogs DEF LogQuiet
  <2> QED
    BY <2>2, LogQuietStep
<1>3. CASE role' = [role EXCEPT ![n] = RoleAfter(n, m)] /\ Exchange(m, {})
  <2>1. GainsNoRole
    BY <1>1, <1>3, AdoptQuiet
  <2> QED
    BY <1>2, <1>3, <2>1 DEF Exchange
<1>4. ASSUME Counts(n, m)
      PROVE  /\ current_term' = current_term
             /\ role[n] = "Candidate" /\ m.term = current_term[n]
             /\ IsVote(m) \/ m.type # "RequestVoteReply"
  <2>1. role[n] = "Candidate" /\ ~(m.term > current_term[n])
    BY <1>4 DEF Counts, RoleAfter
  <2> QED
    BY <1>1, <1>4, <2>1 DEF Counts, TermAfter, IsVote, TypeOK
<1>5. CASE Counts(n, m) /\ Exchange(m, {}) /\ UNCHANGED role
  <2>1. GainsNoRole
    BY <1>4, <1>5 DEF GainsNoRole
  <2> QED
    BY <1>2, <1>5, <2>1 DEF Exchange
<1>6. CASE /\ Counts(n, m)
           /\ role' = [role EXCEPT ![n] = "Leader"]
           /\ Exchange(m, Broadcast(n, log[n], FreshNext(n)))
  <2> DEFINE t == current_term[n]
             bs == Broadcast(n, log[n], FreshNext(n))
  <2>1. /\ role[n] = "Candidate" /\ m.term = t /\ current_term' = current_term
        /\ IsVote(m) /\ m.from \in Node /\ m.from # n
    BY <1>1, <1>4, <1>6, MessageFields
       DEF HandleRequestVoteReply, TypeOK, ElectionInv
  <2>2. \A c \in Node : Led(c, t) => FALSE
    <3> SUFFICES ASSUME NEW c \in Node, Led(c, t) PROVE FALSE
      OBVIOUS
    <3>1. Elected(c, t)
      BY DEF Led, Appends, ElectionInv
    <3>2. Elected(n, t)
      BY <1>1, <2>1 DEF Elected
    <3>3. c = n
      BY <3>1, <3>2, ElectedOnce
    <3> QED
      BY <2>1, <3>3 DEF LogInv
  <2>3. \A b \in bs :
              /\ b.type = "AppendEntries" /\ b.from = n /\ b.term = t
              /\ MessageLinks(b) \subseteq LogLinks(log[n])
              /\ b.prev_log_index = 0 => b.prev_log_term = 0
    <3>1. log[n] \in Seq(Entry) /\ FreshNext(n) \in [Node -> Nat \ {0}]
      <4>1. log[n] \in Seq(Entry)
        BY DEF TypeOK
      <4>2. LastIndex(log[n]) \in Nat
        BY <4>1, LogReadsType
      <4> QED
        BY <4>1, <4>2 DEF FreshNext
    <3> QED
      BY <3>1, BroadcastLinks
  <2>4. bs # {}
    <3>1. m.from \in Peers(n)
      BY <2>1 DEF Peers
    <3> QED
      BY <3>1 DEF Broadcast
  <2>5. net' = net \cup bs
    BY <1>6 DEF Exchange
  <2> HIDE DEF bs
  <2>6. Appends' = Appends \cup bs
    BY <2>3, <2>5 DEF Appends
  <2>7. Links' = Links
    <3>1. \A k \in Node : log'[k] = log[k]
      BY <1>1
    <3>2. \A b \in bs : MessageLinks(b) \subseteq Links
      BY <2>3, LinkSources
    <3> QED
      BY <2>6, <3>1, <3>2 DEF Links
  <2>8. \A k \in Node \ {n} : role'[k] = role[k]
    BY <1>6 DEF TypeOK
  <2>9. role'[n] = "Leader"
    BY <1>6 DEF TypeOK
  <2>10. \A c : \A u : Led(c, u) => Led(c, u)'
    BY <2>6 DEF Led
  <2>11. ASSUME NEW k \in Node, role'[k] = "Leader"
         PROVE  /\ Led(k, current_term[k])'
                /\ \A x \in Links' : x.entry.term = current_term'[k]
                                       => x \in LogLinks(log'[k])
    <3>1. CASE k = n
      <4>1. Led(n, t)'
        BY <2>1, <2>3, <2>4, <2>6 DEF Led
      <4>2. \A x \in Links : x.entry.term # t
        BY <2>2 DEF LogInv
      <4> QED
        BY <2>1, <2>7, <3>1, <4>1, <4>2 DEF Led
    <3>2. CASE k # n
      <4>1. Led(k, current_term[k]) /\ role[k] = "Leader"
        BY <2>8, <2>11, <3>2 DEF LogInv
      <4>2. Led(k, current_term[k])'
        BY <2>1, <2>6, <4>1 DEF Led
      <4> QED
        BY <1>1, <2>1, <2>7, <4>1, <4>2 DEF LogInv
    <3> QED
      BY <3>1, <3>2
  <2>12. ASSUME NEW k \in Node, role'[k] = "Candidate"
         PROVE  ~Led(k, current_term[k])'
    <3>1. k # n /\ role[k] = "Candidate"
      BY <2>8, <2>9, <2>12
    <3>2. ~Led(k, current_term[k])
      BY <3>1 DEF LogInv
    <3> QED
      BY <2>1, <2>3, <2>6, <3>1, <3>2 DEF Led
  <2>13. ASSUME NEW a \in Appends'
         PROVE  /\ a.prev_log_index = 0 => a.prev_log_term = 0
                /\ \A x \in MessageLinks(a) : x.entry.term <= a.term
    BY <2>3, <2>6 DEF LogInv
  <2>14. \A x \in Links' : /\ x.entry.index = x.index
                           /\ x.before <= x.entry.term
                           /\ \E c \in Node : Led(c, x.entry.term)'
    BY <2>7, <2>10 DEF LogInv
  <2> QED
    BY <1>1, <2>1, <2>7, <2>11, <2>12, <2>13, <2>14 DEF LogInv
<1> QED
  BY <1>3, <1>5, <1>6 DEF HandleRequestVoteReply

\* In a log of links an entry's index is its position, the last included.
LEMMA LastOfLog ==
    ASSUME TypeOK, LogInv, NEW n \in Node
    PROVE  /\ LastIndex(log[n]) = Len(log[n]) /\ Len(log[n]) \in Nat
           /\ LastTerm(log[n]) \in Nat /\ LastTerm(log[n]) <= current_term[n]
           /\ \A i \in 1..Len(log[n]) :
                /\ log[n][i].index = i /\ log[n][i].term \in Nat
                /\ log[n][i].term <= current_term[n]
                /\ LinkAt(0, 0, log[n], i) \in LogLinks(log[n])
<1>1. log[n] \in Seq(Entry) /\ Len(log[n]) \in Nat /\ current_term[n] \in Nat
  BY DEF TypeOK
<1>2. ASSUME NEW i \in 1..Len(log[n])
      PROVE  /\ log[n][i].index = i /\ log[n][i].term \in Nat
             /\ log[n][i].term <= current_term[n]
             /\ LinkAt(0, 0, log[n], i) \in LogLinks(log[n])
  <2> DEFINE x == LinkAt(0, 0, log[n], i)
  <2>1. x.index = i /\ x.entry = log[n][i]
    BY DEF LinkAt
  <2>2. x \in LogLinks(log[n])
    BY DEF LogLinks, LinksOf
  <2>3. x \in Links
    BY <2>2, LinkSources
  <2> HIDE DEF x
  <2>4. /\ x.entry.index = x.index /\ x.entry.term \in Nat
        /\ x.entry.term <= current_term[n]
    BY <2>2, <2>3, LinksType DEF LogInv
  <2> QED
    BY <2>1, <2>2, <2>4 DEF x
<1>3. CASE log[n] = <<>>
  BY <1>1, <1>2, <1>3 DEF LastIndex, LastTerm
<1>4. CASE log[n] # <<>>
  <2>1. Len(log[n]) \in 1..Len(log[n])
    BY <1>1, <1>4, EmptySeq
  <2> QED
    BY <1>1, <1>2, <1>4, <2>1 DEF LastIndex, LastTerm
<1> QED
  BY <1>2, <1>3, <1>4

\* append_local_entry: the new link is of the leader's term and past the end
\* of its log, where no link of that term is; and nobody else leads the term.
LEMMA AppendLocalEntryLogs ==
    ASSUME AtMostThree, TypeOK, TypeOK', ElectionInv, LogInv,
           NEW n \in Node, NEW v \in Value, AppendLocalEntry(n, v)
    PROVE  LogInv'
<1> DEFINE t == current_term[n]
           e == [index |-> LastIndex(log[n]) + 1, term |-> t, payload |-> v]
           l == Append(log[n], e)
           bs == Broadcast(n, l, next_index[n])
           y == [index |-> Len(log[n]) + 1, entry |-> e,
                 before |-> LastTerm(log[n])]
<1>1. /\ role[n] = "Leader" /\ log' = [log EXCEPT ![n] = l]
      /\ net' = net \cup bs
      /\ current_term' = current_term /\ role' = role
  BY DEF AppendLocalEntry, Send
<1>2. /\ LastIndex(log[n]) = Len(log[n]) /\ Len(log[n]) \in Nat
      /\ LastTerm(log[n]) \in Nat /\ LastTerm(log[n]) <= t
      /\ t \in Nat /\ log[n] \in Seq(Entry)
  BY LastOfLog DEF TypeOK
<1>3. e \in Entry /\ e.index = Len(log[n]) + 1 /\ e.term = t
  BY <1>2 DEF Entry
<1> HIDE DEF e
<1>4. l \in Seq(Entry) /\ LogLinks(log[n]) \subseteq LogLinks(l)
      /\ LogLinks(l) \subseteq LogLinks(log[n]) \cup {y}
  BY <1>2, <1>3, AppendLinks, AppendProperties
<1>5. y.index = Len(log[n]) + 1 /\ y.entry = e /\ y.before = LastTerm(log[n])
  OBVIOUS
<1>6. y \in LogLinks(l)
  <2>1. Len(l) = Len(log[n]) + 1 /\ l[Len(log[n]) + 1] = e
        /\ \A i \in 1..Len(log[n]) : l[i] = log[n][i]
    BY <1>2, <1>3, AppendProperties
  <2>2. LinkAt(0, 0, l, Len(log[n]) + 1) = y
    <3> HIDE DEF l
    <3>1. CASE Len(log[n]) = 0
      <4>1. LastTerm(log[n]) = 0
        BY <1>2, <3>1, EmptySeq DEF LastTerm
      <4> QED
        BY <1>2, <2>1, <3>1, <4>1 DEF LinkAt
    <3>2. CASE Len(log[n]) # 0
      <4>1. LastTerm(log[n]) = log[n][Len(log[n])].term
        BY <1>2, <3>2, EmptySeq DEF LastTerm
      <4> QED
        BY <1>2, <2>1, <3>2, <4>1 DEF LinkAt
    <3> QED
      BY <3>1, <3>2
  <2>3. Len(log[n]) + 1 \in 1..Len(l)
    BY <1>2, <2>1
  <2> HIDE DEF l, y
  <2> QED
    BY <2>2, <2>3 DEF LogLinks, LinksOf
<1> HIDE DEF l, y
<1>7. \A b \in bs : /\ b.type = "AppendEntries" /\ b.from = n /\ b.term = t
                    /\ MessageLinks(b) \subseteq LogLinks(l)
                    /\ b.prev_log_index = 0 => b.prev_log_term = 0
  <2>1. next_index[n] \in [Node -> Nat \ {0}]
    BY DEF TypeOK
  <2> QED
    BY <1>4, <2>1, BroadcastLinks
<1> HIDE DEF bs
<1>8. Appends' = Appends \cup bs
  BY <1>1, <1>7 DEF Appends
<1>9. log'[n] = l /\ \A k \in Node \ {n} : log'[k] = log[k]
  BY <1>1 DEF TypeOK
<1>10. Links' \subseteq Links \cup {y}
  <2>1. \A k \in Node : LogLinks(log'[k]) \subseteq Links \cup {y}
    BY <1>4, <1>9, LinkSources
  <2>2. \A a \in Appends' : MessageLinks(a) \subseteq Links \cup {y}
    BY <1>4, <1>7, <1>8, LinkSources
  <2> QED
    BY <2>1, <2>2 DEF Links
<1>11. \A x \in Links : x.entry.term = t => x.index # y.index
  <2> SUFFICES ASSUME NEW x \in Links, x.entry.term = t
               PROVE  x.index # y.index
    OBVIOUS
  <2>1. x \in LinksOf(0, 0, log[n])
    BY <1>1 DEF LogInv, LogLinks
  <2>2. x.index \in Nat /\ x.index <= 0 + Len(log[n])
    BY <1>2, <2>1, LinkType
  <2> QED
    BY <1>2, <1>5, <2>2
<1>12. \A c : \A u : Led(c, u) => Led(c, u)'
  BY <1>8 DEF Led
<1>13. Led(n, t)
  BY <1>1 DEF LogInv
<1>14. ASSUME NEW x \in Links'
       PROVE  /\ x.entry.index = x.index /\ x.before <= x.entry.term
              /\ \E c \in Node : Led(c, x.entry.term)'
  <2>1. CASE x \in Links
    BY <1>12, <2>1 DEF LogInv
  <2>2. CASE x = y
    BY <1>2, <1>3, <1>5, <1>12, <1>13, <2>2
  <2> QED
    BY <1>10, <2>1, <2>2
<1>15. ASSUME NEW x \in Links', NEW z \in Links',
              x.index = z.index, x.entry.term = z.entry.term
       PROVE  x = z
  <2>1. CASE x \in Links /\ z \in Links
    BY <1>15, <2>1 DEF LogInv
  <2>2. CASE x = y \/ z = y
    BY <1>3, <1>5, <1>10, <1>11, <1>15, <2>2
  <2> QED
    BY <1>10, <2>1, <2>2
<1>16. ASSUME NEW k \in Node, role'[k] = "Leader"
       PROVE  /\ Led(k, current_term[k])'
              /\ \A x \in Links' : x.entry.term = current_term'[k]
                                     => x \in LogLinks(log'[k])
  <2>1. role[k] = "Leader" /\ Led(k, current_term[k])
        /\ \A x \in Links : x.entry.term = current_term[k]
                              => x \in LogLinks(log[k])
    BY <1>1, <1>16 DEF LogInv
  <2>2. Led(k, current_term[k])'
    BY <1>1, <1>8, <2>1 DEF Led
  <2>3. CASE k = n
    BY <1>1, <1>4, <1>6, <1>9, <1>10, <2>1, <2>2, <2>3
  <2>4. CASE k # n
    <3>1. current_term[k] # t
      <4> SUFFICES ASSUME current_term[k] = t PROVE FALSE
        OBVIOUS
      <4>1. Elected(k, t) /\ Elected(n, t)
        BY <1>1, <2>1 DEF ElectionInv
      <4> QED
        BY <2>4, <4>1, ElectedOnce
    <3>2. y.entry.term # current_term[k]
      BY <1>3, <1>5, <3>1
    <3> QED
      BY <1>1, <1>9, <1>10, <2>1, <2>2, <2>4, <3>2
  <2> QED
    BY <2>3, <2>4
<1>17. ASSUME NEW k \in Node, role'[k] = "Candidate"
       PROVE  ~Led(k, current_term[k])'
  <2>1. role[k] = "Candidate" /\ k # n /\ ~Led(k, current_term[k])
    BY <1>1, <1>17 DEF LogInv
  <2> QED
    BY <1>1, <1>7, <1>8, <2>1 DEF Led
<1>18. ASSUME NEW a \in Appends'
       PROVE  /\ a.prev_log_index = 0 => a.prev_log_term = 0
              /\ \A x \in MessageLinks(a) : x.entry.term <= a.term
  <2>1. CASE a \in Appends
    BY <2>1 DEF LogInv
  <2>2. CASE a \in bs
    <3>1. \A x \in LogLinks(l) : x.entry.term <= t
      BY <1>2, <1>3, <1>4, <1>5 DEF LogInv
    <3> QED
      BY <1>7, <2>2, <3>1
  <2> QED
    BY <1>8, <2>1, <2>2
<1>19. ASSUME NEW k \in Node, NEW x \in LogLinks(log'[k])
       PROVE  x.entry.term <= current_term'[k]
  <2>1. CASE k = n
    BY <1>1, <1>2, <1>3, <1>4, <1>5, <1>9, <2>1 DEF LogInv
  <2>2. CASE k # n
    BY <1>1, <1>9, <2>2 DEF LogInv
  <2> QED
    BY <2>1, <2>2
<1> QED
  BY <1>14, <1>15, <1>16, <1>17, <1>18, <1>19 DEF LogInv

(***************************************************************************)
(* The invariant holds, and what follows from it.                          *)
(***************************************************************************)

\* A cluster started on empty stores has no links.
LEMMA LogInit == Init => LogInv
<1> SUFFICES ASSUME Init PROVE LogInv
  OBVIOUS
<1>1. Appends = {} /\ \A n \in Node : role[n] = "Follower"
  BY DEF Init, Appends
<1>2. \A n \in Node : LogLinks(log[n]) = {}
  BY DEF Init, LogLinks, LinksOf
<1>3. Links = {}
  BY <1>1, <1>2 DEF Links
<1> QED
  BY <1>1, <1>2, <1>3 DEF LogInv

\* Every step of the node code preserves the invariant of the logs.
LEMMA LogStep ==
    ASSUME AtMostThree
    PROVE  TypeOK /\ TypeOK' /\ ElectionInv /\ LogInv /\ [Next]_vars => LogInv'
<1> SUFFICES ASSUME TypeOK, TypeOK', ElectionInv, LogInv, [Next]_vars
             PROVE  LogInv'
  OBVIOUS
<1>1. CASE UNCHANGED vars
  <2>1. LogQuiet
    <3>1. /\ log' = log /\ net' = net /\ current_term' = current_term
          /\ role' = role
      BY <1>1 DEF vars, durable, network
    <3>2. GainsNoRole
      BY <3>1 DEF GainsNoRole
    <3>3. \A n \in Node : current_term'[n] \in Nat
                            /\ current_term'[n] >= current_term[n]
      BY <3>1 DEF TypeOK
    <3> QED
      BY <3>1, <3>2, <3>3, UntouchedLogs DEF LogQuiet
  <2> QED
    BY <2>1, LogQuietStep
<1>2. ASSUME NEW n \in Node, BecomeCandidate(n) PROVE LogInv'
  BY <1>2, BecomeCandidateLogs
<1>3. ASSUME NEW n \in Node, Heartbeat(n) PROVE LogInv'
  BY <1>3, HeartbeatLogQuiet, LogQuietStep
<1>4. ASSUME NEW n \in Node, NEW v \in Value, AppendLocalEntry(n, v)
      PROVE  LogInv'
  BY <1>4, AppendLocalEntryLogs
<1>5. ASSUME NEW n \in Node, NEW m \in net, HandleRequestVote(n, m)
      PROVE  LogInv'
  BY <1>5, HandleRequestVoteLogQuiet, LogQuietStep
<1>6. ASSUME NEW n \in Node, NEW m \in net, HandleRequestVoteReply(n, m)
      PROVE  LogInv'
  BY <1>6, HandleRequestVoteReplyLogs
<1>7. ASSUME NEW n \in Node, NEW m \in net, HandleAppendEntries(n, m)
      PROVE  LogInv'
  BY <1>7, HandleAppendEntriesLogQuiet, LogQuietStep
<1>8. ASSUME NEW n \in Node, NEW m \in net, HandleAppendEntriesReply(n, m)
      PROVE  LogInv'
  BY <1>8, HandleAppendEntriesReplyLogQuiet, LogQuietStep
<1>9. ASSUME NEW n \in Node, Crash(n) PROVE LogInv'
  BY <1>9, CrashLogQuiet, LogQuietStep
<1> QED
  BY <1>1, <1>2, <1>3, <1>4, <1>5, <1>6, <1>7, <1>8, <1>9 DEF Next, Step

\* The inductive invariant of the logs holds of every reachable state.
THEOREM LogInvariant ==
    ASSUME AtMostThree
    PROVE  Spec => [](TypeOK /\ ElectionInv /\ LogInv)
<1>1. Init => TypeOK /\ ElectionInv /\ LogInv
  BY TypeInit, ElectionInit, LogInit
<1>2. TypeOK /\ ElectionInv /\ LogInv /\ [Next]_vars
        => (TypeOK /\ ElectionInv /\ LogInv)'
  BY TypeStep, ElectionStep, LogStep
<1> QED
  BY <1>1, <1>2, PTL DEF Spec

\* Position and term determine a link of S.
Determined(S) ==
    \A x, y \in S : x.index = y.index /\ x.entry.term = y.entry.term => x = y

\* What it means that a link stands in a log.
LEMMA LinkInLog ==
    ASSUME NEW l \in Seq(Entry)
    PROVE  /\ \A i \in 1..Len(l) :
                /\ LinkAt(0, 0, l, i) \in LogLinks(l)
                /\ LinkAt(0, 0, l, i).index = i
                /\ LinkAt(0, 0, l, i).entry = l[i]
           /\ \A x \in LogLinks(l) : /\ x.index \in 1..Len(l)
                                     /\ x = LinkAt(0, 0, l, x.index)
                                     /\ x.entry = l[x.index]
<1>1. \A i \in 1..Len(l) : /\ LinkAt(0, 0, l, i) \in LogLinks(l)
                           /\ LinkAt(0, 0, l, i).index = i
                           /\ LinkAt(0, 0, l, i).entry = l[i]
  BY DEF LogLinks, LinksOf, LinkAt
<1>2. ASSUME NEW x \in LogLinks(l)
      PROVE  /\ x.index \in 1..Len(l) /\ x = LinkAt(0, 0, l, x.index)
             /\ x.entry = l[x.index]
  <2>1. PICK i \in 1..Len(l) : x = LinkAt(0, 0, l, i)
    BY DEF LogLinks, LinksOf
  <2>2. x.index = i /\ x.entry = l[i]
    BY <1>1, <2>1
  <2> QED
    BY <2>1, <2>2
<1> QED
  BY <1>1, <1>2

\* Two logs with the same term at a position are equal up to there: going
\* down from it, equal links have equal terms before them.
LEMMA EqualBelow ==
    ASSUME NEW S, Determined(S), NEW a \in Seq(Entry), NEW b \in Seq(Entry),
           LogLinks(a) \subseteq S, LogLinks(b) \subseteq S,
           NEW i \in 1..Len(a), i <= Len(b), a[i].term = b[i].term
    PROVE  \A q \in 1..i : a[q] = b[q]
<1>1. Len(a) \in Nat /\ Len(b) \in Nat
  OBVIOUS
<1>2. ASSUME NEW q \in 1..i, a[q].term = b[q].term
      PROVE  LinkAt(0, 0, a, q) = LinkAt(0, 0, b, q)
  <2>1. q \in 1..Len(a) /\ q \in 1..Len(b)
    BY <1>1
  <2>2. /\ LinkAt(0, 0, a, q) \in S /\ LinkAt(0, 0, b, q) \in S
        /\ LinkAt(0, 0, a, q).index = LinkAt(0, 0, b, q).index
        /\ LinkAt(0, 0, a, q).entry = a[q] /\ LinkAt(0, 0, b, q).entry = b[q]
    BY <2>1, LinkInLog
  <2> QED
    BY <1>2, <2>2 DEF Determined
<1> DEFINE D == {d \in 0..(i - 1) : a[i - d].term = b[i - d].term}
<1>3. 0 \in D
  OBVIOUS
<1>4. ASSUME NEW d \in 1..(i - 1), d - 1 \in D
      PROVE  d \in D
  <2> DEFINE q == i - (d - 1)
  <2>1. q \in 1..i /\ q # 1 /\ q - 1 = i - d
    BY <1>1
  <2>2. a[q].term = b[q].term
    BY <1>4
  <2> HIDE DEF q
  <2>3. LinkAt(0, 0, a, q) = LinkAt(0, 0, b, q)
    BY <1>2, <2>1, <2>2
  <2>4. a[q - 1].term = b[q - 1].term
    BY <2>1, <2>3 DEF LinkAt
  <2> QED
    BY <2>1, <2>4
<1>5. \A d \in 0..(i - 1) : d \in D
  <2>1. i - 1 \in Nat
    OBVIOUS
  <2> HIDE DEF D
  <2> QED
    BY <1>3, <1>4, <2>1, Climb
<1> SUFFICES ASSUME NEW q \in 1..i PROVE a[q] = b[q]
  OBVIOUS
<1>6. a[q].term = b[q].term
  <2>1. i - q \in 0..(i - 1) /\ i - (i - q) = q
    OBVIOUS
  <2> QED
    BY <1>5, <2>1
<1>7. LinkAt(0, 0, a, q).entry = LinkAt(0, 0, b, q).entry
  BY <1>2, <1>6
<1> QED
  BY <1>7 DEF LinkAt

\* The same of the logs of two nodes.
LEMMA SameBelow ==
    ASSUME TypeOK, LogInv, NEW a \in Node, NEW b \in Node,
           NEW i \in 1..Len(log[a]), i <= Len(log[b]),
           log[a][i].term = log[b][i].term
    PROVE  \A q \in 1..i : log[a][q] = log[b][q]
<1>1. log[a] \in Seq(Entry) /\ log[b] \in Seq(Entry)
  BY DEF TypeOK
<1>2. Determined(Links)
  BY DEF LogInv, Determined
<1>3. LogLinks(log[a]) \subseteq Links /\ LogLinks(log[b]) \subseteq Links
  BY LinkSources
<1> QED
  BY <1>1, <1>2, <1>3, EqualBelow

\* Entries that agree one by one are the same prefix.
LEMMA SamePrefix ==
    ASSUME NEW k \in Seq(Entry), NEW l \in Seq(Entry), NEW i \in Nat,
           i <= Len(k), i <= Len(l), \A q \in 1..i : k[q] = l[q]
    PROVE  SubSeq(k, 1, i) = SubSeq(l, 1, i)
<1>1. \A q \in 1..i : k[q] \in Entry /\ l[q] \in Entry
  OBVIOUS
<1>2. /\ SubSeq(k, 1, i) \in Seq(Entry) /\ SubSeq(l, 1, i) \in Seq(Entry)
      /\ Len(SubSeq(k, 1, i)) = i /\ Len(SubSeq(l, 1, i)) = i
  <2>1. 1 \in Int /\ i \in Int /\ (i < 1 => i = 0)
    OBVIOUS
  <2> QED
    BY <1>1, <2>1, SubSeqProperties
<1>3. ASSUME NEW q \in 1..i
      PROVE  SubSeq(k, 1, i)[q] = k[q] /\ SubSeq(l, 1, i)[q] = l[q]
  <2>1. 1 + q - 1 = q
    OBVIOUS
  <2> QED
    BY <1>1, <2>1, SubSeqProperties
<1> QED
  BY <1>2, <1>3, SeqEqual

\* Logs that share an entry's position and term are equal up to it, and an
\* entry's index is its position, for every schedule, loss, repetition and
\* crash: the log matching property of AppendEntries' consistency check.
THEOREM LogsMatch ==
    ASSUME AtMostThree
    PROVE  Spec => []LogMatching
<1>1. TypeOK /\ LogInv => LogMatching
  <2> SUFFICES ASSUME TypeOK, LogInv, NEW a \in Node, NEW b \in Node,
                      NEW i \in 1..Len(log[a])
               PROVE  /\ log[a][i].index = i
                      /\ i <= Len(log[b]) /\ log[a][i].term = log[b][i].term
                           => SubSeq(log[a], 1, i) = SubSeq(log[b], 1, i)
    BY DEF LogMatching
  <2>1. log[a][i].index = i
    BY LastOfLog
  <2>2. ASSUME i <= Len(log[b]), log[a][i].term = log[b][i].term
        PROVE  SubSeq(log[a], 1, i) = SubSeq(log[b], 1, i)
    <3>1. \A q \in 1..i : log[a][q] = log[b][q]
      BY <2>2, SameBelow
    <3>2. log[a] \in Seq(Entry) /\ log[b] \in Seq(Entry) /\ i \in Nat
      BY DEF TypeOK
    <3>3. i <= Len(log[a])
      BY <3>2
    <3> QED
      BY <2>2, <3>1, <3>2, <3>3, SamePrefix
  <2> QED
    BY <2>1, <2>2
<1> QED
  BY <1>1, LogInvariant, PTL

\* While a node leads, no log holds an entry of its term that it lacks.
THEOREM LeadersHoldTheirTerms ==
    ASSUME AtMostThree
    PROVE  Spec => []LeaderHoldsItsTerm
<1>1. TypeOK /\ LogInv => LeaderHoldsItsTerm
  <2> SUFFICES ASSUME TypeOK, LogInv, NEW l \in Node, NEW n \in Node,
                      role[l] = "Leader", NEW i \in 1..Len(log[n]),
                      log[n][i].term = current_term[l]
               PROVE  i <= Len(log[l]) /\ log[l][i] = log[n][i]
    BY DEF LeaderHoldsItsTerm
  <2> DEFINE x == LinkAt(0, 0, log[n], i)
  <2>1. x.index = i /\ x.entry = log[n][i]
    BY DEF LinkAt
  <2>2. x \in Links
    BY LastOfLog, LinkSources
  <2> HIDE DEF x
  <2>3. x \in LinksOf(0, 0, log[l])
    BY <2>1, <2>2 DEF LogInv, LogLinks
  <2>4. x.index <= 0 + Len(log[l]) /\ x.entry = log[l][x.index - 0]
    <3>1. log[l] \in Seq(Entry)
      BY DEF TypeOK
    <3> QED
      BY <2>3, <3>1, LinkType
  <2>5. Len(log[l]) \in Nat /\ i \in Nat
    BY LastOfLog
  <2> QED
    BY <2>1, <2>4, <2>5
<1> QED
  BY <1>1, LogInvariant, PTL
=============================================================================
