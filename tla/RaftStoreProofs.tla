-------------------------- MODULE RaftStoreProofs --------------------------
(***************************************************************************)
(* Proofs about RaftStore for any candidates, leaders' logs and numbers of *)
(* crashes: wherever between two writes the process dies, or a write       *)
(* fails, what is left on disk is what TitanRaft takes for granted.        *)
(*                                                                         *)
(* The inductive invariant describes the calls still to be made by their   *)
(* order alone (what may follow what), so that it is as good for the rest  *)
(* of the queue as for the whole; and the disk by what is still to come.   *)
(***************************************************************************)
EXTENDS RaftStore, Integers, SequenceTheorems, FiniteSetTheorems,
        WellFoundedInduction, TLAPS

(***************************************************************************)
(* The inductive invariant: the node, the disk and what was said.          *)
(***************************************************************************)
Indexed(l) == \A i \in 1..Len(l) : l[i].index = i

NodeInv ==
    /\ current_term \in 0..MaxTerm
    /\ voted_for \in Candidate \cup {Nil}
    /\ log \in Seq(Entry) /\ Indexed(log)
    /\ commit_index \in 0..Len(log)
    /\ role \in {"Follower", "Candidate", "Leader"}
    /\ poisoned \in BOOLEAN

\* The rows from 1 to n are there.
RowsTo(n) == n \in Nat /\ DOMAIN raft_log = 1..n

\* The first n rows are entries of l.
RowsAgree(l, n) == \A i \in 1..n : raft_log[i] = l[i].term

RowsAre(l) == RowsTo(Len(l)) /\ RowsAgree(l, Len(l))

DiskInv ==
    /\ DOMAIN raft_meta \subseteq {"current_term", "voted_for", "commit_index"}
    /\ LoadedTerm \in 0..MaxTerm
    /\ LoadedVote \in Candidate \cup {Nil}
    /\ raft_log \in [DOMAIN raft_log -> Nat]
    /\ \E n \in Nat : RowsTo(n) /\ LoadedCommit \in 0..n

\* What the loop can take or has taken from the outbox.
Vote(m) == m.type = "vote" /\ m.term \in Nat /\ m.to \in Candidate

Ack(m) ==
    /\ m.type = "ack" /\ m.term \in DOMAIN LeaderLog
    /\ m.log \in Seq(Entry) /\ Len(m.log) <= Len(LeaderLog[m.term])
    /\ \A i \in 1..Len(m.log) : m.log[i] = LeaderLog[m.term][i]

Held(m) == \A i \in 1..Len(m.log) : i <= Len(log) /\ log[i] = m.log[i]

Stored(m) ==
    \A i \in 1..Len(m.log) : i \in DOMAIN raft_log /\ raft_log[i] = m.log[i].term

NodeKeepsWord ==
    \A m \in outbox \cup sent :
        /\ Vote(m) \/ Ack(m)
        /\ m.term <= current_term
        /\ m.term = current_term =>
             IF m.type = "vote" THEN voted_for = m.to ELSE Held(m)

DiskKeepsWord ==
    \A m \in sent :
        /\ m.term <= LoadedTerm
        /\ m.term = LoadedTerm =>
             IF m.type = "vote" THEN LoadedVote = m.to ELSE Stored(m)

(***************************************************************************)
(* The inductive invariant: the calls to come.                             *)
(***************************************************************************)
Calls ==
    UNION {{SetTerm(t) : t \in Nat}, {SetVote(c) : c \in Candidate}, {DeleteVote},
           {AppendRow(e) : e \in Entry}, {TruncateFrom(i) : i \in Nat},
           {SetCommit(k) : k \in Nat}}

LogCalls == {"truncate_from", "append_entry"}

MayFollow(a, b) ==
    \/ a = "set_current_term" /\ b \in {"delete_voted_for", "set_voted_for"}
    \/ a = "delete_voted_for"
         /\ b \in LogCalls \cup {"set_voted_for", "set_commit_index"}
    \/ a = "truncate_from" /\ b = "append_entry"
    \/ a = "append_entry" /\ b \in {"append_entry", "set_commit_index"}

InOrder(q) ==
    /\ q \in Seq(Calls)
    /\ \A k \in 1..(Len(q) - 1) : MayFollow(q[k].op, q[k + 1].op)

\* The calls write what the node holds: entries of the log in order, up to
\* its end, a truncation only in front of them.
LeadsTo(q, t, v, l, c) ==
    \A k \in 1..Len(q) :
        /\ q[k].op = "set_current_term" => q[k].arg = t
        /\ q[k].op = "set_voted_for" => q[k].arg = v
        /\ q[k].op = "set_commit_index" => q[k].arg = c
        /\ q[k].op = "truncate_from" => k < Len(q) /\ q[k + 1].arg.index = q[k].arg
        /\ q[k].op = "append_entry" =>
             /\ q[k].arg.index \in 1..Len(l) /\ q[k].arg = l[q[k].arg.index]
             /\ IF k < Len(q) /\ q[k + 1].op = "append_entry"
                THEN q[k + 1].arg.index = q[k].arg.index + 1
                ELSE q[k].arg.index = Len(l)

Pending(op) == \E k \in 1..Len(writes) : writes[k].op = op

\* Where the log calls start: behind rows that agree with the log, or by
\* cutting off rows that do not, none of them committed.
LogCallsFit ==
    \A k \in 1..Len(writes) :
        /\ writes[k].op = "append_entry" /\ (k > 1 => writes[k - 1].op \notin LogCalls) =>
             RowsTo(writes[k].arg.index - 1) /\ RowsAgree(log, writes[k].arg.index - 1)
        /\ writes[k].op = "truncate_from" =>
             /\ writes[k].arg \in DOMAIN raft_log
             /\ raft_log[writes[k].arg] # log[writes[k].arg].term
             /\ RowsAgree(log, writes[k].arg - 1)
             /\ writes[k].arg > start[4]

\* What no pending call will write is on disk already.
DiskHoldsRest ==
    /\ ~Pending("set_current_term") => LoadedTerm = current_term
    /\ ~Pending("set_voted_for") /\ voted_for # Nil => LoadedVote = voted_for
    /\ ~Pending("set_commit_index") => LoadedCommit = commit_index
    /\ ~Pending("truncate_from") /\ ~Pending("append_entry") => RowsAre(log)

\* A vote is deleted for a term in which this node has said nothing, and
\* only for a new one if it has one.
NewTermIsSilent ==
    /\ Pending("set_current_term") \/ Pending("delete_voted_for") =>
         current_term > start[1] /\ \A m \in sent : m.term < current_term
    /\ Pending("delete_voted_for") => Pending("set_voted_for") \/ voted_for = Nil

(***************************************************************************)
(* The inductive invariant: what an unfinished handler found, start, and   *)
(* what is on disk or in the node instead.                                 *)
(***************************************************************************)
SameTo(a, b, n) == n <= Len(a) /\ n <= Len(b) /\ \A i \in 1..n : a[i] = b[i]

FoundType ==
    /\ start[1] \in Nat /\ start[2] \in Candidate \cup {Nil}
    /\ start[3] \in Seq(Entry) /\ Indexed(start[3])
    /\ start[4] \in 0..Len(start[3])

DiskIsBetween ==
    /\ LoadedTerm >= start[1]
    /\ \/ start[2] \in {Nil, LoadedVote}
       \/ LoadedVote = Nil /\ LoadedTerm > start[1]
    /\ LoadedCommit = start[4]
    /\ RowsAgree(start[3], start[4])

HandlerIsOneStep ==
    LET t == start[1]
        v == start[2]
    IN  /\ current_term >= t
        /\ SameTo(log, start[3], start[4])
        /\ commit_index >= start[4]
        /\ \/ /\ voted_for = IF current_term > t THEN Nil ELSE v
           \/ /\ current_term = t => v \in {Nil, voted_for}
              /\ voted_for \in Candidate
              /\ log = start[3] /\ commit_index = start[4]

UnfinishedInv ==
    /\ Unfinished => FoundType /\ DiskIsBetween
    /\ writes # <<>> => HandlerIsOneStep

QueueInv ==
    /\ InOrder(writes) /\ LeadsTo(writes, current_term, voted_for, log, commit_index)
    /\ LogCallsFit
    /\ ~poisoned => DiskHoldsRest
    /\ NewTermIsSilent
    /\ poisoned => writes = <<>>

StoreInv ==
    NodeInv /\ DiskInv /\ NodeKeepsWord /\ DiskKeepsWord /\ QueueInv /\ UnfinishedInv

(***************************************************************************)
(* Loading.                                                                *)
(***************************************************************************)
\* In rows without a gap the k-th is row k.
LEMMA NthOfInterval ==
  ASSUME NEW n \in Nat, NEW k \in 1..n
  PROVE  Nth(1..n, k) = k
<1>1. ASSUME NEW i \in 1..n
      PROVE  Cardinality({j \in 1..n : j <= i}) = i
  <2>1. {j \in 1..n : j <= i} = 1..i
    OBVIOUS
  <2>2. Cardinality(1..i) = i
    BY FS_Interval
  <2> QED
    BY <2>1, <2>2
<1> QED
  BY <1>1 DEF Nth

\* Such rows are loaded as a log whose indices are positions.
LEMMA LoadedRows ==
  ASSUME NEW n, RowsTo(n), raft_log \in [DOMAIN raft_log -> Nat]
  PROVE  /\ Cardinality(DOMAIN raft_log) = n
         /\ LoadedLog \in Seq(Entry) /\ Len(LoadedLog) = n
         /\ \A k \in 1..n : LoadedLog[k] = [index |-> k, term |-> raft_log[k]]
<1>1. n \in Nat /\ DOMAIN raft_log = 1..n
  BY DEF RowsTo
<1>2. Cardinality(DOMAIN raft_log) = n
  BY <1>1, FS_Interval
<1>3. LoadedLog = [k \in 1..n |-> [index |-> k, term |-> raft_log[k]]]
  BY <1>1, <1>2, NthOfInterval DEF LoadedLog
<1>4. \A k \in 1..n : [index |-> k, term |-> raft_log[k]] \in Entry
  BY <1>1 DEF Entry
<1>5. LoadedLog \in Seq(Entry) /\ Len(LoadedLog) = n
  BY <1>1, <1>3, <1>4
<1> QED
  BY <1>2, <1>3, <1>5

\* If they agree with a log they are loaded as that log.
LEMMA LoadedIs ==
  ASSUME NEW l \in Seq(Entry), Indexed(l), RowsAre(l),
         raft_log \in [DOMAIN raft_log -> Nat]
  PROVE  LoadedLog = l
<1>1. RowsTo(Len(l)) /\ RowsAgree(l, Len(l))
  BY DEF RowsAre
<1>2. /\ LoadedLog \in Seq(Entry) /\ Len(LoadedLog) = Len(l)
      /\ \A k \in 1..Len(l) : LoadedLog[k] = [index |-> k, term |-> raft_log[k]]
  BY <1>1, LoadedRows
<1>3. ASSUME NEW k \in 1..Len(l)
      PROVE  l[k] = [index |-> k, term |-> raft_log[k]]
  <2>1. l[k] \in Entry /\ l[k].index = k /\ l[k].term = raft_log[k]
    BY <1>1 DEF Indexed, RowsAgree
  <2> QED
    BY <2>1 DEF Entry
<1> QED
  BY <1>2, <1>3, SeqEqual

\* A key's row is what the other keys do not notice.
LEMMA MetaPut ==
  ASSUME NEW key \in {"current_term", "voted_for", "commit_index"}, NEW v,
         PutMeta(key, v),
         DOMAIN raft_meta \subseteq {"current_term", "voted_for", "commit_index"}
  PROVE  /\ DOMAIN raft_meta' \subseteq {"current_term", "voted_for", "commit_index"}
         /\ LoadedTerm' = IF key = "current_term" THEN v ELSE LoadedTerm
         /\ LoadedVote' = IF key = "voted_for" THEN v ELSE LoadedVote
         /\ LoadedCommit' = IF key = "commit_index" THEN v ELSE LoadedCommit
BY DEF PutMeta, LoadMeta, LoadedTerm, LoadedVote, LoadedCommit

(***************************************************************************)
(* The queue of calls.                                                     *)
(***************************************************************************)
\* What is left when the first call has been made is in order, and leads to
\* the same node.
LEMMA RestOfQueue ==
  ASSUME NEW q, InOrder(q), q # <<>>, NEW t, NEW v, NEW l, NEW c,
         LeadsTo(q, t, v, l, c)
  PROVE  /\ Head(q) = q[1] /\ Len(q) >= 1
         /\ Len(Tail(q)) = Len(q) - 1
         /\ \A k \in 1..(Len(q) - 1) : Tail(q)[k] = q[k + 1]
         /\ InOrder(Tail(q)) /\ LeadsTo(Tail(q), t, v, l, c)
<1>1. q \in Seq(Calls)
  BY DEF InOrder
<1>2. Len(q) \in Nat /\ Len(q) >= 1 /\ Head(q) = q[1]
  BY <1>1
<1>3. /\ Tail(q) \in Seq(Calls) /\ Len(Tail(q)) = Len(q) - 1
      /\ \A k \in 1..(Len(q) - 1) : Tail(q)[k] = q[k + 1]
  BY <1>1
<1>4. InOrder(Tail(q))
  <2>1. ASSUME NEW k \in 1..(Len(q) - 2)
        PROVE  MayFollow(q[k + 1].op, q[(k + 1) + 1].op)
    BY <1>2 DEF InOrder
  <2> QED
    BY <1>2, <1>3, <2>1 DEF InOrder
<1>5. LeadsTo(Tail(q), t, v, l, c)
  BY <1>2, <1>3 DEF LeadsTo
<1> QED
  BY <1>2, <1>3, <1>4, <1>5

\* The kinds of call that occur, and which of them stand only in one place.
LEMMA PlaceInQueue ==
  ASSUME NEW q, InOrder(q), NEW k \in 1..Len(q)
  PROVE  /\ q[k].op \in {"set_current_term", "delete_voted_for", "set_voted_for",
                         "truncate_from", "append_entry", "set_commit_index"}
         /\ q[k].op = "set_current_term" => k = 1
         /\ q[k].op = "delete_voted_for" => k = 1 \/ q[1].op = "set_current_term"
         /\ q[k].op \in {"set_voted_for", "set_commit_index"} => k = Len(q)
<1>1. q \in Seq(Calls) /\ Len(q) \in Nat
  BY DEF InOrder
<1>2. q[k] \in Calls
  BY <1>1
<1>3. q[k].op \in {"set_current_term", "delete_voted_for", "set_voted_for",
                   "truncate_from", "append_entry", "set_commit_index"}
  BY <1>2 DEF Calls, SetTerm, SetVote, DeleteVote, AppendRow, TruncateFrom, SetCommit
<1>4. k > 1 => MayFollow(q[k - 1].op, q[k].op)
  <2>1. k > 1 => k - 1 \in 1..(Len(q) - 1) /\ (k - 1) + 1 = k
    BY <1>1
  <2> QED
    BY <2>1 DEF InOrder
<1>5. k < Len(q) => MayFollow(q[k].op, q[k + 1].op)
  BY <1>1 DEF InOrder
<1>6. q[k].op = "set_current_term" => k = 1
  BY <1>4 DEF MayFollow, LogCalls
<1>7. q[k].op = "delete_voted_for" => k = 1 \/ q[1].op = "set_current_term"
  <2> SUFFICES ASSUME q[k].op = "delete_voted_for", k > 1
               PROVE  q[1].op = "set_current_term"
    OBVIOUS
  <2>1. q[k - 1].op = "set_current_term"
    BY <1>4 DEF MayFollow, LogCalls
  <2>2. k > 2 => MayFollow(q[k - 2].op, q[k - 1].op)
    <3>1. k > 2 => k - 2 \in 1..(Len(q) - 1) /\ (k - 2) + 1 = k - 1
      BY <1>1
    <3> QED
      BY <3>1 DEF InOrder
  <2>3. ~(k > 2)
    BY <2>1, <2>2 DEF MayFollow, LogCalls
  <2> QED
    BY <2>1, <2>3
<1>8. q[k].op \in {"set_voted_for", "set_commit_index"} => k = Len(q)
  BY <1>1, <1>5 DEF MayFollow
<1> QED
  BY <1>3, <1>6, <1>7, <1>8

(***************************************************************************)
(* A call on the store returns.                                            *)
(***************************************************************************)
\* What is still pending tells what is not, by the order of the calls.
LEMMA HeadOfQueue ==
  ASSUME QueueInv, writes # <<>>
  PROVE  /\ Head(writes) = writes[1] /\ Len(writes) \in Nat /\ Len(writes) >= 1
         /\ writes[1].op # "set_current_term" => ~Pending("set_current_term")
         /\ writes[1].op \notin {"set_current_term", "delete_voted_for"} =>
              ~Pending("delete_voted_for")
         /\ writes[1].op \in {"set_voted_for", "set_commit_index"} => Len(writes) = 1
         /\ writes[1].op \in LogCalls =>
              \A k \in 2..Len(writes) :
                /\ writes[k].op # "truncate_from"
                /\ writes[k].op = "append_entry" => writes[k - 1].op \in LogCalls
<1>1. InOrder(writes)
  BY DEF QueueInv
<1>2. Head(writes) = writes[1] /\ Len(writes) \in Nat /\ Len(writes) >= 1
  BY <1>1, RestOfQueue DEF InOrder, QueueInv
<1>3. writes[1].op # "set_current_term" => ~Pending("set_current_term")
  BY <1>1, <1>2, PlaceInQueue DEF Pending
<1>4. writes[1].op \notin {"set_current_term", "delete_voted_for"} =>
        ~Pending("delete_voted_for")
  BY <1>1, <1>2, PlaceInQueue DEF Pending
<1>5. writes[1].op \in {"set_voted_for", "set_commit_index"} => Len(writes) = 1
  <2>1. 1 \in 1..Len(writes)
    BY <1>2
  <2>2. writes[1].op \in {"set_voted_for", "set_commit_index"} => 1 = Len(writes)
    BY ONLY <1>1, <2>1, PlaceInQueue
  <2> QED
    BY <2>2
<1>6. ASSUME writes[1].op \in LogCalls, NEW k \in 2..Len(writes)
      PROVE  /\ writes[k].op # "truncate_from"
             /\ writes[k].op = "append_entry" => writes[k - 1].op \in LogCalls
  <2>1. k - 1 \in 1..(Len(writes) - 1) /\ (k - 1) + 1 = k /\ k - 1 \in 1..Len(writes)
    BY <1>2
  <2>2. MayFollow(writes[k - 1].op, writes[k].op)
    BY <1>1, <2>1 DEF InOrder
  <2>3. writes[k - 1].op # "delete_voted_for"
    BY <1>1, <1>6, <2>1, PlaceInQueue DEF LogCalls
  <2> QED
    BY <2>2, <2>3 DEF MayFollow, LogCalls
<1> QED
  BY <1>2, <1>3, <1>4, <1>5, <1>6

\* What a call that returns leaves as it was.
LEMMA Returns ==
  ASSUME StoreInv, writes # <<>>, Returned
  PROVE  /\ NodeInv' /\ NodeKeepsWord' /\ NewTermIsSilent'
         /\ InOrder(writes)'
         /\ LeadsTo(writes, current_term, voted_for, log, commit_index)'
         /\ ~poisoned /\ ~poisoned' /\ Unfinished
         /\ Unfinished' => writes' # <<>> /\ Len(writes) > 1
         /\ FoundType /\ FoundType' /\ HandlerIsOneStep /\ HandlerIsOneStep'
         /\ Len(writes)' = Len(writes) - 1
         /\ \A k \in 1..(Len(writes) - 1) : writes'[k] = writes[k + 1]
         /\ \A op : Pending(op)' => Pending(op)
         /\ \A op : Pending(op) /\ writes[1].op # op => Pending(op)'
<1>1. /\ writes' = Tail(writes)
      /\ UNCHANGED <<node, outbox, poisoned, sent, start, crashes>>
  BY DEF Returned
<1>2. /\ Len(Tail(writes)) = Len(writes) - 1 /\ Len(writes) \in Nat /\ Len(writes) >= 1
      /\ \A k \in 1..(Len(writes) - 1) : Tail(writes)[k] = writes[k + 1]
      /\ InOrder(Tail(writes))
      /\ LeadsTo(Tail(writes), current_term, voted_for, log, commit_index)
  BY HeadOfQueue, RestOfQueue DEF StoreInv, QueueInv
<1>3. NodeInv' /\ NodeKeepsWord'
  BY <1>1 DEF StoreInv, NodeInv, NodeKeepsWord, node, Held
<1>4. InOrder(writes)' /\ LeadsTo(writes, current_term, voted_for, log, commit_index)'
  BY <1>1, <1>2 DEF node
<1>5. /\ ~poisoned /\ ~poisoned' /\ Unfinished
      /\ Unfinished' => writes' # <<>> /\ Len(writes) > 1
  BY <1>1, <1>2 DEF StoreInv, QueueInv, Unfinished
<1>6. FoundType /\ FoundType' /\ HandlerIsOneStep /\ HandlerIsOneStep'
  BY <1>1, <1>5 DEF StoreInv, UnfinishedInv, FoundType, HandlerIsOneStep, node
<1>7. \A k \in 1..(Len(writes) - 1) : writes'[k] = writes[k + 1]
  BY <1>1, <1>2
<1>8. \A op : Pending(op)' => Pending(op)
  <2> SUFFICES ASSUME NEW op, NEW k \in 1..(Len(writes) - 1), writes'[k].op = op
               PROVE  \E j \in 1..Len(writes) : writes[j].op = op
    BY <1>1, <1>2 DEF Pending
  <2>1. k + 1 \in 1..Len(writes) /\ writes[k + 1].op = op
    BY <1>2, <1>7
  <2> QED
    BY <2>1
<1>9. \A op : Pending(op) /\ writes[1].op # op => Pending(op)'
  <2> SUFFICES ASSUME NEW op, NEW k \in 1..Len(writes), writes[k].op = op, k # 1
               PROVE  \E j \in 1..(Len(writes) - 1) : writes'[j].op = op
    BY <1>1, <1>2 DEF Pending
  <2>1. k - 1 \in 1..(Len(writes) - 1) /\ (k - 1) + 1 = k
    BY <1>2
  <2>2. writes'[k - 1] = writes[k]
    BY <1>7, <2>1
  <2> QED
    BY <2>1, <2>2
<1>10. NewTermIsSilent'
  <2>1. NewTermIsSilent
    BY DEF StoreInv, QueueInv
  <2>2. Pending("set_voted_for") /\ writes[1].op = "set_voted_for" =>
          ~Pending("delete_voted_for")
    BY HeadOfQueue DEF StoreInv, QueueInv
  <2>3. Pending("delete_voted_for")' => Pending("set_voted_for")' \/ voted_for' = Nil
    BY <1>1, <1>8, <1>9, <2>1, <2>2 DEF NewTermIsSilent, node
  <2>4. Pending("set_current_term")' \/ Pending("delete_voted_for")' =>
          current_term' > start'[1] /\ \A m \in sent' : m.term < current_term'
    BY <1>1, <1>8, <2>1 DEF NewTermIsSilent, node
  <2> QED
    BY <2>3, <2>4 DEF NewTermIsSilent
<1> QED
  BY <1>1, <1>2, <1>3, <1>4, <1>5, <1>6, <1>7, <1>8, <1>9, <1>10

\* A call that leaves the rows alone leaves the log calls as they were.
LEMMA LogCallsWait ==
  ASSUME StoreInv, writes # <<>>, Returned, UNCHANGED raft_log,
         writes[1].op \notin LogCalls
  PROVE  /\ LogCallsFit'
         /\ ~Pending("truncate_from")' /\ ~Pending("append_entry")' => RowsAre(log)'
<1>1. UNCHANGED <<raft_log, log, start>>
  BY DEF Returned, node
<1>2. /\ ~poisoned /\ Len(writes)' = Len(writes) - 1
      /\ \A k \in 1..(Len(writes) - 1) : writes'[k] = writes[k + 1]
      /\ \A op : Pending(op) /\ writes[1].op # op => Pending(op)'
  BY Returns
<1>3. Len(writes) \in Nat /\ Len(writes) >= 1 /\ LogCallsFit /\ DiskHoldsRest
  BY <1>2, HeadOfQueue DEF StoreInv, QueueInv
<1>4. ASSUME NEW k \in 1..(Len(writes) - 1)
      PROVE  /\ writes'[k].op = "append_entry"
                  /\ (k > 1 => writes'[k - 1].op \notin LogCalls) =>
                  RowsTo(writes'[k].arg.index - 1) /\ RowsAgree(log, writes'[k].arg.index - 1)
             /\ writes'[k].op = "truncate_from" =>
                  /\ writes'[k].arg \in DOMAIN raft_log
                  /\ raft_log[writes'[k].arg] # log[writes'[k].arg].term
                  /\ RowsAgree(log, writes'[k].arg - 1)
                  /\ writes'[k].arg > start[4]
  <2>1. k + 1 \in 1..Len(writes) /\ (k + 1) - 1 = k /\ k + 1 > 1
    BY <1>3
  <2>2. writes'[k] = writes[k + 1]
    BY <1>2
  <2>3. k > 1 => writes'[k - 1] = writes[k]
    <3>1. k > 1 => k - 1 \in 1..(Len(writes) - 1) /\ (k - 1) + 1 = k
      BY <1>3
    <3> QED
      BY <1>2, <3>1
  <2>4. (k > 1 => writes'[k - 1].op \notin LogCalls) => writes[(k + 1) - 1].op \notin LogCalls
    BY <1>3, <2>1, <2>3
  <2> QED
    BY <1>3, <2>1, <2>2, <2>4 DEF LogCallsFit
<1>5. LogCallsFit'
  BY <1>1, <1>2, <1>4 DEF LogCallsFit, RowsTo, RowsAgree
<1>6. ~Pending("truncate_from")' /\ ~Pending("append_entry")' => RowsAre(log)'
  BY <1>1, <1>2, <1>3 DEF DiskHoldsRest, LogCalls, RowsAre, RowsTo, RowsAgree
<1> QED
  BY <1>5, <1>6

(***************************************************************************)
(* The writes, one by one.                                                 *)
(***************************************************************************)
\* What CommittedStaysInFile says of a step.
FileKeepsCommitted ==
    /\ LoadedCommit' >= LoadedCommit
    /\ \A i \in 1..LoadedCommit :
         i \in DOMAIN raft_log /\ i \in DOMAIN raft_log' /\ raft_log'[i] = raft_log[i]

\* A step that leaves the disk alone.
LEMMA DiskStays ==
  ASSUME DiskInv, UNCHANGED disk
  PROVE  /\ DiskInv' /\ FileKeepsCommitted
         /\ LoadedTerm' = LoadedTerm /\ LoadedVote' = LoadedVote
         /\ LoadedCommit' = LoadedCommit /\ LoadedLog' = LoadedLog
<1>1. raft_meta' = raft_meta /\ raft_log' = raft_log
  BY DEF disk
<1>2. /\ LoadedTerm' = LoadedTerm /\ LoadedVote' = LoadedVote
      /\ LoadedCommit' = LoadedCommit
  BY <1>1 DEF LoadMeta, LoadedTerm, LoadedVote, LoadedCommit
<1>3. LoadedLog' = LoadedLog
  BY <1>1 DEF LoadedLog
<1>4. DiskInv'
  BY <1>1, <1>2 DEF DiskInv, RowsTo
<1>5. FileKeepsCommitted
  <2>1. PICK n \in Nat : RowsTo(n) /\ LoadedCommit \in 0..n
    BY DEF DiskInv
  <2> QED
    BY <1>1, <1>2, <2>1 DEF FileKeepsCommitted, RowsTo
<1> QED
  BY <1>2, <1>3, <1>4, <1>5

\* The term is stored: the old vote is on disk under it, and nothing has
\* been said in it.
LEMMA TermIsStored ==
  ASSUME StoreInv, set_current_term
  PROVE  StoreInv' /\ FileKeepsCommitted
<1>1. /\ writes # <<>> /\ Head(writes).op = "set_current_term" /\ Returned
      /\ PutMeta("current_term", Head(writes).arg) /\ UNCHANGED raft_log
  BY DEF set_current_term, Call
<1>2. /\ Head(writes) = writes[1] /\ Len(writes) \in Nat /\ Len(writes) >= 1
      /\ LeadsTo(writes, current_term, voted_for, log, commit_index)
      /\ NewTermIsSilent /\ DiskHoldsRest /\ Unfinished
  BY <1>1, HeadOfQueue DEF StoreInv, QueueInv, Unfinished
<1>3. Head(writes).arg = current_term /\ Pending("set_current_term")
  BY <1>1, <1>2 DEF LeadsTo, Pending
<1>4. /\ DOMAIN raft_meta' \subseteq {"current_term", "voted_for", "commit_index"}
      /\ LoadedTerm' = current_term
      /\ LoadedVote' = LoadedVote /\ LoadedCommit' = LoadedCommit
  BY <1>1, <1>3, MetaPut DEF StoreInv, DiskInv
<1>5. UNCHANGED <<raft_log, sent, start, node, poisoned>>
  BY <1>1 DEF Returned
<1>6. DiskInv'
  BY <1>4, <1>5 DEF StoreInv, DiskInv, NodeInv, RowsTo
<1>7. \A m \in sent : m.term < current_term
  BY <1>2, <1>3 DEF NewTermIsSilent
<1>8. DiskKeepsWord'
  <2> SUFFICES ASSUME NEW m \in sent
               PROVE  m.term <= current_term /\ m.term # current_term
    BY <1>4, <1>5 DEF DiskKeepsWord
  <2>1. m.term \in Nat /\ current_term \in Nat
    BY LeaderLogAssumption DEF StoreInv, NodeKeepsWord, Vote, Ack, NodeInv
  <2> QED
    BY <1>7, <2>1
<1>9. LogCallsFit' /\ (~Pending("truncate_from")' /\ ~Pending("append_entry")' => RowsAre(log)')
  BY <1>1, <1>2, LogCallsWait DEF LogCalls
<1>10. ~poisoned /\ \A op : Pending(op) /\ writes[1].op # op => Pending(op)'
  BY <1>1, Returns
<1>11. DiskHoldsRest'
  <2>1. /\ Pending("set_voted_for") => Pending("set_voted_for")'
        /\ Pending("set_commit_index") => Pending("set_commit_index")'
    BY <1>1, <1>2, <1>10
  <2> QED
    BY <1>2, <1>4, <1>5, <1>9, <2>1 DEF DiskHoldsRest, node
<1>12. DiskIsBetween'
  <2>1. DiskIsBetween /\ current_term > start[1] /\ FoundType
    BY <1>2, <1>3 DEF StoreInv, UnfinishedInv, NewTermIsSilent
  <2>2. RowsAgree(start[3], start[4])'
    BY <1>5, <2>1 DEF DiskIsBetween, RowsAgree
  <2> QED
    BY <1>4, <1>5, <2>1, <2>2 DEF DiskIsBetween, FoundType, StoreInv, NodeInv
<1>13. StoreInv'
  BY <1>1, <1>6, <1>8, <1>9, <1>11, <1>12, Returns DEF StoreInv, QueueInv, UnfinishedInv
<1>14. FileKeepsCommitted
  <2>1. PICK n \in Nat : RowsTo(n) /\ LoadedCommit \in 0..n
    BY DEF StoreInv, DiskInv
  <2> QED
    BY <1>4, <1>5, <2>1 DEF FileKeepsCommitted, RowsTo
<1> QED
  BY <1>13, <1>14

\* The vote is stored, the last call of its handler.
LEMMA VoteIsStored ==
  ASSUME StoreInv, set_voted_for, Head(writes).op = "set_voted_for"
  PROVE  StoreInv' /\ FileKeepsCommitted
<1>1. /\ writes # <<>> /\ Returned
      /\ PutMeta("voted_for", Head(writes).arg) /\ UNCHANGED raft_log
  BY DEF set_voted_for, Call
<1>2. /\ Head(writes) = writes[1] /\ Len(writes) = 1
      /\ LeadsTo(writes, current_term, voted_for, log, commit_index)
      /\ ~poisoned /\ DiskHoldsRest
  BY <1>1, HeadOfQueue DEF StoreInv, QueueInv
<1>3. Head(writes).arg = voted_for
  BY <1>1, <1>2 DEF LeadsTo
<1>4. /\ DOMAIN raft_meta' \subseteq {"current_term", "voted_for", "commit_index"}
      /\ LoadedTerm' = LoadedTerm
      /\ LoadedVote' = voted_for /\ LoadedCommit' = LoadedCommit
  BY <1>1, <1>3, MetaPut DEF StoreInv, DiskInv
<1>5. UNCHANGED <<raft_log, sent, start, node, poisoned>>
  BY <1>1 DEF Returned
<1>6. DiskInv'
  BY <1>4, <1>5 DEF StoreInv, DiskInv, NodeInv, RowsTo
<1>7. LoadedTerm = current_term /\ LoadedCommit = commit_index
  BY <1>2 DEF DiskHoldsRest, Pending
<1>8. DiskKeepsWord'
  <2> SUFFICES ASSUME NEW m \in sent
               PROVE  /\ m.term <= LoadedTerm
                      /\ m.term = LoadedTerm =>
                           IF m.type = "vote" THEN voted_for = m.to ELSE Stored(m)'
    BY <1>4, <1>5 DEF DiskKeepsWord
  <2> QED
    BY <1>5, <1>7 DEF StoreInv, DiskKeepsWord, NodeKeepsWord, Stored
<1>9. LogCallsFit' /\ (~Pending("truncate_from")' /\ ~Pending("append_entry")' => RowsAre(log)')
  BY <1>1, <1>2, LogCallsWait DEF LogCalls
<1>10. DiskHoldsRest'
  BY <1>4, <1>5, <1>7, <1>9 DEF DiskHoldsRest, node
<1>11. ~Unfinished'
  BY <1>1, <1>2, Returns
<1>12. StoreInv'
  BY <1>1, <1>6, <1>8, <1>9, <1>10, <1>11, Returns
     DEF StoreInv, QueueInv, UnfinishedInv, Unfinished
<1>13. FileKeepsCommitted
  <2>1. PICK n \in Nat : RowsTo(n) /\ LoadedCommit \in 0..n
    BY DEF StoreInv, DiskInv
  <2> QED
    BY <1>4, <1>5, <2>1 DEF FileKeepsCommitted, RowsTo
<1> QED
  BY <1>12, <1>13

\* The old vote is deleted, or the deletion fails and nobody notices.
LEMMA VoteIsDeleted ==
  ASSUME StoreInv,
         \/ set_voted_for /\ Head(writes).op = "delete_voted_for"
         \/ DeleteVoteFails
  PROVE  StoreInv' /\ FileKeepsCommitted
<1>1. /\ writes # <<>> /\ Returned /\ Head(writes).op = "delete_voted_for"
      /\ UNCHANGED raft_log
      /\ \/ raft_meta' = [k \in DOMAIN raft_meta \ {"voted_for"} |-> raft_meta[k]]
         \/ raft_meta' = raft_meta
  BY DEF set_voted_for, DeleteVoteFails, Call, disk
<1>2. /\ Head(writes) = writes[1] /\ Len(writes) \in Nat /\ Len(writes) >= 1
      /\ ~Pending("set_current_term") /\ NewTermIsSilent /\ ~poisoned /\ DiskHoldsRest
  BY <1>1, HeadOfQueue DEF StoreInv, QueueInv
<1>3. Pending("delete_voted_for")
  BY <1>1, <1>2 DEF Pending
<1>4. /\ DOMAIN raft_meta' \subseteq {"current_term", "voted_for", "commit_index"}
      /\ LoadedTerm' = LoadedTerm /\ LoadedCommit' = LoadedCommit
      /\ LoadedVote' \in {Nil, LoadedVote}
  BY <1>1 DEF StoreInv, DiskInv, LoadMeta, LoadedTerm, LoadedVote, LoadedCommit
<1>5. UNCHANGED <<raft_log, sent, start, node, poisoned>>
  BY <1>1 DEF Returned
<1>6. DiskInv'
  BY <1>4, <1>5 DEF StoreInv, DiskInv, RowsTo
<1>7. /\ LoadedTerm = current_term /\ current_term > start[1]
      /\ \A m \in sent : m.term < current_term
  BY <1>2, <1>3 DEF NewTermIsSilent, DiskHoldsRest
<1>8. DiskKeepsWord'
  <2> SUFFICES ASSUME NEW m \in sent
               PROVE  m.term <= current_term /\ m.term # current_term
    BY <1>4, <1>5, <1>7 DEF DiskKeepsWord
  <2>1. m.term \in Nat /\ current_term \in Nat
    BY LeaderLogAssumption DEF StoreInv, NodeKeepsWord, Vote, Ack, NodeInv
  <2> QED
    BY <1>7, <2>1
<1>9. LogCallsFit' /\ (~Pending("truncate_from")' /\ ~Pending("append_entry")' => RowsAre(log)')
  BY <1>1, <1>2, LogCallsWait DEF LogCalls
<1>10. \A op : Pending(op) /\ writes[1].op # op => Pending(op)'
  BY <1>1, Returns
<1>11. DiskHoldsRest'
  <2>1. /\ Pending("set_voted_for") => Pending("set_voted_for")'
        /\ Pending("set_commit_index") => Pending("set_commit_index")'
    BY <1>1, <1>2, <1>10
  <2>2. Pending("set_voted_for") \/ voted_for = Nil
    BY <1>2, <1>3 DEF NewTermIsSilent
  <2> QED
    BY <1>2, <1>4, <1>5, <1>7, <1>9, <2>1, <2>2 DEF DiskHoldsRest, node
<1>12. DiskIsBetween'
  <2>1. DiskIsBetween
    BY <1>1, <1>2 DEF StoreInv, UnfinishedInv, Unfinished
  <2>2. RowsAgree(start[3], start[4])'
    BY <1>5, <2>1 DEF DiskIsBetween, RowsAgree
  <2> QED
    BY <1>4, <1>5, <1>7, <2>1, <2>2 DEF DiskIsBetween
<1>13. StoreInv'
  BY <1>1, <1>6, <1>8, <1>9, <1>11, <1>12, Returns DEF StoreInv, QueueInv, UnfinishedInv
<1>14. FileKeepsCommitted
  <2>1. PICK n \in Nat : RowsTo(n) /\ LoadedCommit \in 0..n
    BY DEF StoreInv, DiskInv
  <2> QED
    BY <1>4, <1>5, <2>1 DEF FileKeepsCommitted, RowsTo
<1> QED
  BY <1>13, <1>14

\* The commit index is stored, the last call of its handler: the entries are
\* on disk before it.
LEMMA CommitIsStored ==
  ASSUME StoreInv, set_commit_index
  PROVE  StoreInv' /\ FileKeepsCommitted
<1>1. /\ writes # <<>> /\ Returned /\ Head(writes).op = "set_commit_index"
      /\ PutMeta("commit_index", Head(writes).arg) /\ UNCHANGED raft_log
  BY DEF set_commit_index, Call
<1>2. /\ Head(writes) = writes[1] /\ Len(writes) = 1
      /\ LeadsTo(writes, current_term, voted_for, log, commit_index)
      /\ ~poisoned /\ DiskHoldsRest
  BY <1>1, HeadOfQueue DEF StoreInv, QueueInv
<1>3. Head(writes).arg = commit_index
  BY <1>1, <1>2 DEF LeadsTo
<1>4. /\ DOMAIN raft_meta' \subseteq {"current_term", "voted_for", "commit_index"}
      /\ LoadedTerm' = LoadedTerm
      /\ LoadedVote' = LoadedVote /\ LoadedCommit' = commit_index
  BY <1>1, <1>3, MetaPut DEF StoreInv, DiskInv
<1>5. UNCHANGED <<raft_log, sent, start, node, poisoned>>
  BY <1>1 DEF Returned
<1>6. /\ LoadedTerm = current_term /\ RowsAre(log)
      /\ voted_for # Nil => LoadedVote = voted_for
  BY <1>1, <1>2 DEF DiskHoldsRest, Pending
<1>7. commit_index \in 0..Len(log) /\ Len(log) \in Nat
  BY DEF StoreInv, NodeInv
<1>8. DiskInv'
  <2>1. RowsTo(Len(log))'
    BY <1>5, <1>6 DEF RowsAre, RowsTo, node
  <2>2. LoadedCommit' \in 0..Len(log') /\ Len(log') \in Nat
    BY <1>4, <1>5, <1>7 DEF node
  <2>3. raft_log' \in [DOMAIN raft_log' -> Nat]
    BY <1>5 DEF StoreInv, DiskInv
  <2> QED
    BY <1>4, <2>1, <2>2, <2>3 DEF StoreInv, DiskInv
<1>9. DiskKeepsWord'
  BY <1>4, <1>5 DEF StoreInv, DiskKeepsWord, Stored
<1>10. LogCallsFit' /\ (~Pending("truncate_from")' /\ ~Pending("append_entry")' => RowsAre(log)')
  BY <1>1, <1>2, LogCallsWait DEF LogCalls
<1>11. DiskHoldsRest'
  BY <1>4, <1>5, <1>6, <1>10 DEF DiskHoldsRest, node
<1>12. ~Unfinished'
  BY <1>1, <1>2, Returns
<1>13. StoreInv'
  BY <1>1, <1>8, <1>9, <1>10, <1>11, <1>12, Returns
     DEF StoreInv, QueueInv, UnfinishedInv, Unfinished
<1>14. FileKeepsCommitted
  <2>1. PICK n \in Nat : RowsTo(n) /\ LoadedCommit \in 0..n
    BY DEF StoreInv, DiskInv
  <2>2. commit_index >= LoadedCommit
    BY <1>1, Returns DEF StoreInv, UnfinishedInv, HandlerIsOneStep, DiskIsBetween
  <2> QED
    BY <1>4, <1>5, <2>1, <2>2 DEF FileKeepsCommitted, RowsTo
<1> QED
  BY <1>13, <1>14

\* A row is written behind the others: it is the next entry of the log.
LEMMA RowIsWritten ==
  ASSUME StoreInv, append_entry
  PROVE  StoreInv' /\ FileKeepsCommitted
<1>0. PICK e : e = Head(writes).arg
  OBVIOUS
<1>1. /\ writes # <<>> /\ Returned /\ Head(writes).op = "append_entry"
      /\ raft_log' = [i \in DOMAIN raft_log \cup {e.index} |->
                        IF i = e.index THEN e.term ELSE raft_log[i]]
      /\ UNCHANGED raft_meta
  BY <1>0 DEF append_entry, Call
<1>2. /\ Head(writes) = writes[1] /\ Len(writes) \in Nat /\ Len(writes) >= 1
      /\ LeadsTo(writes, current_term, voted_for, log, commit_index)
      /\ ~poisoned /\ DiskHoldsRest /\ LogCallsFit
      /\ ~Pending("set_current_term")
      /\ \A k \in 2..Len(writes) :
           /\ writes[k].op # "truncate_from"
           /\ writes[k].op = "append_entry" => writes[k - 1].op \in LogCalls
  BY <1>1, HeadOfQueue DEF StoreInv, QueueInv, LogCalls
<1>3. /\ e.index \in 1..Len(log) /\ e = log[e.index]
      /\ IF 1 < Len(writes) /\ writes[2].op = "append_entry"
         THEN writes[2].arg.index = e.index + 1
         ELSE e.index = Len(log)
  BY <1>0, <1>1, <1>2 DEF LeadsTo
<1>4. RowsTo(e.index - 1) /\ RowsAgree(log, e.index - 1)
  BY <1>0, <1>1, <1>2 DEF LogCallsFit
<1>5. UNCHANGED <<sent, start, node, poisoned>>
  BY <1>1 DEF Returned
<1>6. Len(log) \in Nat /\ e.term \in Nat /\ e.index \in Nat
  <2>1. log[e.index] \in Entry
    BY <1>3 DEF StoreInv, NodeInv
  <2> QED
    BY <1>3, <2>1 DEF StoreInv, NodeInv, Entry
<1>7. /\ DOMAIN raft_log = 1..(e.index - 1) /\ DOMAIN raft_log' = 1..e.index
      /\ raft_log'[e.index] = e.term
      /\ \A i \in 1..(e.index - 1) : raft_log'[i] = raft_log[i]
  BY <1>1, <1>3, <1>4, <1>6 DEF RowsTo
<1>8. RowsTo(e.index)' /\ RowsAgree(log, e.index)'
  <2>1. RowsTo(e.index)'
    BY <1>1, <1>5, <1>6, <1>7 DEF RowsTo
  <2>2. ASSUME NEW i \in 1..e.index
        PROVE  raft_log'[i] = log[i].term
    BY <1>3, <1>4, <1>6, <1>7 DEF RowsAgree
  <2> QED
    BY <1>5, <2>1, <2>2 DEF RowsAgree, node
<1>9. /\ LoadedTerm' = LoadedTerm /\ LoadedVote' = LoadedVote
      /\ LoadedCommit' = LoadedCommit
  BY <1>1 DEF LoadMeta, LoadedTerm, LoadedVote, LoadedCommit
<1>10. LoadedCommit \in 0..(e.index - 1)
  <2>1. PICK n \in Nat : RowsTo(n) /\ LoadedCommit \in 0..n
    BY DEF StoreInv, DiskInv
  <2>2. n = e.index - 1
    BY <1>6, <1>3, <1>7, <2>1 DEF RowsTo
  <2> QED
    BY <2>1, <2>2
<1>11. DiskInv'
  <2>1. raft_log' \in [DOMAIN raft_log' -> Nat]
    BY <1>1, <1>6 DEF StoreInv, DiskInv
  <2>2. RowsTo(e.index)' /\ LoadedCommit' \in 0..e.index /\ e.index \in Nat
    BY <1>6, <1>8, <1>9, <1>10
  <2>3. \E n \in Nat : RowsTo(n)' /\ LoadedCommit' \in 0..n
    <3>1. DOMAIN raft_log' = 1..e.index
      BY <1>7
    <3> QED
      BY <2>2, <3>1 DEF RowsTo
  <2> QED
    BY <1>1, <1>9, <2>1, <2>3 DEF StoreInv, DiskInv
<1>12. DiskKeepsWord'
  <2>1. \A m \in sent : Stored(m) => Stored(m)'
    BY <1>6, <1>7 DEF Stored
  <2> QED
    BY <1>5, <1>9, <2>1 DEF StoreInv, DiskKeepsWord
<1>13. /\ Len(writes)' = Len(writes) - 1
       /\ \A k \in 1..(Len(writes) - 1) : writes'[k] = writes[k + 1]
       /\ \A op : Pending(op) /\ writes[1].op # op => Pending(op)'
  BY <1>1, Returns
<1>14. LogCallsFit'
  <2>1. ASSUME NEW k \in 1..(Len(writes) - 1)
        PROVE  /\ writes'[k].op # "truncate_from"
               /\ writes'[k].op = "append_entry" /\ k > 1 => writes'[k - 1].op \in LogCalls
               /\ writes'[k].op = "append_entry" /\ k = 1 =>
                    writes'[k].arg.index = e.index + 1
    <3>1. k + 1 \in 2..Len(writes) /\ (k + 1) - 1 = k /\ writes'[k] = writes[k + 1]
      BY <1>2, <1>13
    <3>2. k > 1 => writes'[k - 1] = writes[k]
      <4>1. k > 1 => k - 1 \in 1..(Len(writes) - 1) /\ (k - 1) + 1 = k
        BY <1>2
      <4> QED
        BY <1>13, <4>1
    <3>3. writes'[k].op = "append_entry" => writes[k].op \in LogCalls
      BY <1>2, <3>1
    <3>4. k = 1 => writes'[k] = writes[2] /\ 1 < Len(writes)
      BY <1>2, <3>1
    <3> QED
      BY <1>2, <1>3, <3>1, <3>2, <3>3, <3>4
  <2>2. (e.index + 1) - 1 = e.index
    BY <1>6
  <2> QED
    BY <1>8, <1>13, <2>1, <2>2 DEF LogCallsFit, RowsTo, RowsAgree
<1>15. ~Pending("append_entry")' => RowsAre(log)'
  <2>1. 1 < Len(writes) /\ writes[2].op = "append_entry" => Pending("append_entry")'
    <3>1. 1 < Len(writes) => 1 \in 1..(Len(writes) - 1) /\ 1 + 1 = 2
      BY <1>2
    <3> QED
      BY <1>13, <3>1 DEF Pending
  <2>2. ~Pending("append_entry")' => e.index = Len(log)
    BY <1>3, <2>1
  <2>3. log' = log
    BY <1>5 DEF node
  <2> QED
    BY <1>8, <2>2, <2>3 DEF RowsAre, RowsTo, RowsAgree
<1>16. DiskHoldsRest'
  <2>1. /\ Pending("set_voted_for") => Pending("set_voted_for")'
        /\ Pending("set_commit_index") => Pending("set_commit_index")'
    BY <1>1, <1>2, <1>13
  <2> QED
    BY <1>2, <1>5, <1>9, <1>15, <2>1 DEF DiskHoldsRest, node
<1>17. DiskIsBetween'
  <2>1. DiskIsBetween
    BY <1>1, <1>2 DEF StoreInv, UnfinishedInv, Unfinished
  <2>2. RowsAgree(start[3], start[4])'
    BY <1>5, <1>6, <1>7, <1>10, <2>1 DEF DiskIsBetween, RowsAgree
  <2> QED
    BY <1>5, <1>9, <2>1, <2>2 DEF DiskIsBetween
<1>18. StoreInv'
  BY <1>1, <1>11, <1>12, <1>14, <1>16, <1>17, Returns DEF StoreInv, QueueInv, UnfinishedInv
<1>19. FileKeepsCommitted
  BY <1>6, <1>7, <1>9, <1>10 DEF FileKeepsCommitted
<1> QED
  BY <1>18, <1>19

\* Rows are deleted from one on that disagrees with the log: none of them is
\* committed, or was acknowledged in this term.
LEMMA RowsAreDeleted ==
  ASSUME StoreInv, truncate_from
  PROVE  StoreInv' /\ FileKeepsCommitted
<1>0. PICK j : j = Head(writes).arg
  OBVIOUS
<1>1. /\ writes # <<>> /\ Returned /\ Head(writes).op = "truncate_from"
      /\ raft_log' = [i \in RowsLeft(j) |-> raft_log[i]]
      /\ UNCHANGED raft_meta
  BY <1>0 DEF truncate_from, Call
<1>2. /\ Head(writes) = writes[1] /\ Len(writes) \in Nat /\ Len(writes) >= 1
      /\ InOrder(writes)
      /\ LeadsTo(writes, current_term, voted_for, log, commit_index)
      /\ ~poisoned /\ DiskHoldsRest /\ LogCallsFit
      /\ ~Pending("set_current_term")
      /\ \A k \in 2..Len(writes) :
           /\ writes[k].op # "truncate_from"
           /\ writes[k].op = "append_entry" => writes[k - 1].op \in LogCalls
  BY <1>1, HeadOfQueue DEF StoreInv, QueueInv, LogCalls
<1>3. /\ 1 < Len(writes) /\ writes[2].op = "append_entry" /\ writes[2].arg.index = j
      /\ j \in 1..Len(log)
  <2>1. 1 < Len(writes) /\ writes[2].arg.index = j
    BY <1>0, <1>1, <1>2 DEF LeadsTo
  <2>2. MayFollow(writes[1].op, writes[2].op)
    BY <1>2, <2>1 DEF InOrder
  <2>3. writes[2].op = "append_entry"
    BY <1>1, <1>2, <2>2 DEF MayFollow
  <2> QED
    BY <1>2, <2>1, <2>3 DEF LeadsTo
<1>4. /\ j \in DOMAIN raft_log /\ raft_log[j] # log[j].term
      /\ RowsAgree(log, j - 1) /\ j > start[4]
  BY <1>0, <1>1, <1>2 DEF LogCallsFit
<1>5. UNCHANGED <<sent, start, node, poisoned>>
  BY <1>1 DEF Returned
<1>6. PICK n \in Nat : RowsTo(n) /\ LoadedCommit \in 0..n
  BY DEF StoreInv, DiskInv
<1>7. /\ j \in 1..n /\ DOMAIN raft_log = 1..n /\ DOMAIN raft_log' = 1..(j - 1)
      /\ \A i \in 1..(j - 1) : raft_log'[i] = raft_log[i]
  BY <1>1, <1>4, <1>6 DEF RowsTo, RowsLeft
<1>8. RowsTo(j - 1)' /\ RowsAgree(log, j - 1)'
  <2>1. RowsTo(j - 1)'
    BY <1>7 DEF RowsTo
  <2> QED
    BY <1>4, <1>5, <1>7, <2>1 DEF RowsAgree, node
<1>9. /\ LoadedTerm' = LoadedTerm /\ LoadedVote' = LoadedVote
      /\ LoadedCommit' = LoadedCommit
  BY <1>1 DEF LoadMeta, LoadedTerm, LoadedVote, LoadedCommit
<1>10. DiskIsBetween /\ FoundType /\ LoadedCommit \in 0..(j - 1)
  <2>1. DiskIsBetween /\ FoundType
    BY <1>1, <1>2 DEF StoreInv, UnfinishedInv, Unfinished
  <2> QED
    BY <1>4, <1>6, <1>7, <2>1 DEF DiskIsBetween, FoundType
<1>11. DiskInv'
  <2>1. raft_log' \in [DOMAIN raft_log' -> Nat]
    BY <1>1 DEF StoreInv, DiskInv, RowsLeft
  <2>2. j - 1 \in Nat /\ DOMAIN raft_log' = 1..(j - 1) /\ LoadedCommit' \in 0..(j - 1)
    BY <1>7, <1>9, <1>10
  <2>3. \E x \in Nat : RowsTo(x)' /\ LoadedCommit' \in 0..x
    BY <2>2 DEF RowsTo
  <2> QED
    BY <1>1, <1>9, <2>1, <2>3 DEF StoreInv, DiskInv
<1>12. DiskKeepsWord'
  <2> SUFFICES ASSUME NEW m \in sent, m.term = LoadedTerm, m.type # "vote"
               PROVE  Stored(m)'
    BY <1>5, <1>9 DEF StoreInv, DiskKeepsWord
  <2>1. LoadedTerm = current_term
    BY <1>2 DEF DiskHoldsRest
  <2>2. Stored(m) /\ Held(m)
    BY <2>1 DEF StoreInv, DiskKeepsWord, NodeKeepsWord
  <2>3. Len(m.log) \in Nat
    BY DEF StoreInv, NodeKeepsWord, Vote, Ack
  <2>4. ~(j <= Len(m.log))
    <3> SUFFICES ASSUME j <= Len(m.log)
                 PROVE  FALSE
      OBVIOUS
    <3>1. j \in 1..Len(m.log)
      BY <1>7, <2>3
    <3>2. raft_log[j] = m.log[j].term /\ log[j] = m.log[j]
      BY <2>2, <3>1 DEF Stored, Held
    <3> QED
      BY <1>4, <3>2
  <2>5. \A i \in 1..Len(m.log) : i \in 1..(j - 1)
    BY <1>7, <2>3, <2>4
  <2> QED
    BY <1>7, <2>2, <2>5 DEF Stored
<1>13. /\ Len(writes)' = Len(writes) - 1
       /\ \A k \in 1..(Len(writes) - 1) : writes'[k] = writes[k + 1]
       /\ \A op : Pending(op) /\ writes[1].op # op => Pending(op)'
  BY <1>1, Returns
<1>14. LogCallsFit'
  <2>1. ASSUME NEW k \in 1..(Len(writes) - 1)
        PROVE  /\ writes'[k].op # "truncate_from"
               /\ writes'[k].op = "append_entry" /\ k > 1 => writes'[k - 1].op \in LogCalls
               /\ k = 1 => writes'[k].arg.index = j
    <3>1. k + 1 \in 2..Len(writes) /\ (k + 1) - 1 = k /\ writes'[k] = writes[k + 1]
      BY <1>2, <1>13
    <3>2. k > 1 => writes'[k - 1] = writes[k]
      <4>1. k > 1 => k - 1 \in 1..(Len(writes) - 1) /\ (k - 1) + 1 = k
        BY <1>2
      <4> QED
        BY <1>13, <4>1
    <3>3. writes'[k].op = "append_entry" => writes[k].op \in LogCalls
      BY <1>2, <3>1
    <3>4. k = 1 => writes'[k] = writes[2]
      BY <3>1
    <3> QED
      BY <1>2, <1>3, <3>1, <3>2, <3>3, <3>4
  <2> QED
    BY <1>8, <1>13, <2>1 DEF LogCallsFit, RowsTo, RowsAgree
<1>15. Pending("append_entry")'
  <2>1. 1 \in 1..(Len(writes) - 1) /\ 1 + 1 = 2
    BY <1>2, <1>3
  <2> QED
    BY <1>3, <1>13, <2>1 DEF Pending
<1>16. DiskHoldsRest'
  <2>1. /\ Pending("set_voted_for") => Pending("set_voted_for")'
        /\ Pending("set_commit_index") => Pending("set_commit_index")'
    BY <1>1, <1>2, <1>13
  <2> QED
    BY <1>2, <1>5, <1>9, <1>15, <2>1 DEF DiskHoldsRest, node
<1>17. DiskIsBetween'
  <2>1. RowsAgree(start[3], start[4])'
    <3>1. start[4] = LoadedCommit /\ RowsAgree(start[3], start[4])
      BY <1>10 DEF DiskIsBetween
    <3>2. \A i \in 1..start[4] : i \in 1..(j - 1)
      BY <1>7, <1>10, <3>1
    <3>3. \A i \in 1..start[4] : raft_log'[i] = start[3][i].term
      BY <1>7, <3>1, <3>2 DEF RowsAgree
    <3>4. start' = start
      BY <1>5
    <3> QED
      BY <3>3, <3>4 DEF RowsAgree
  <2> QED
    BY <1>5, <1>9, <1>10, <2>1 DEF DiskIsBetween
<1>18. StoreInv'
  BY <1>1, <1>11, <1>12, <1>14, <1>16, <1>17, Returns DEF StoreInv, QueueInv, UnfinishedInv
<1>19. FileKeepsCommitted
  BY <1>7, <1>9, <1>10 DEF FileKeepsCommitted
<1> QED
  BY <1>18, <1>19

(***************************************************************************)
(* The beginning of a handler.                                             *)
(***************************************************************************)
InQueue(q, op) == \E k \in 1..Len(q) : q[k].op = op

\* The log calls of q take rows that hold the log a to the log l, and leave
\* the first c of them alone.
Fits(q, a, l, c) ==
    \A k \in 1..Len(q) :
        /\ q[k].op = "append_entry" /\ (k > 1 => q[k - 1].op \notin LogCalls) =>
             /\ q[k].arg.index = Len(a) + 1
             /\ \A i \in 1..Len(a) : a[i].term = l[i].term
        /\ q[k].op = "truncate_from" =>
             /\ q[k].arg \in 1..Len(a) /\ q[k].arg > c
             /\ a[q[k].arg].term # l[q[k].arg].term
             /\ \A i \in 1..(q[k].arg - 1) : a[i].term = l[i].term

\* What a handler writes behind the term it adopts.
Writes(w, t, v, l, c, a, b) ==
    /\ InOrder(w) /\ LeadsTo(w, t, v, l, c) /\ Fits(w, a, l, b)
    /\ \A k \in 1..Len(w) :
         w[k].op \in LogCalls \cup {"set_voted_for", "set_commit_index"}

\* What a handler changes in the node it writes.
WritesChanges(q) ==
    /\ ~InQueue(q, "set_current_term") => current_term' = current_term
    /\ ~InQueue(q, "set_voted_for") => voted_for' \in {Nil, voted_for}
    /\ ~InQueue(q, "set_commit_index") => commit_index' = commit_index
    /\ ~InQueue(q, "truncate_from") /\ ~InQueue(q, "append_entry") => log' = log
    /\ InQueue(q, "set_current_term") \/ InQueue(q, "delete_voted_for") =>
         current_term' > current_term
    /\ InQueue(q, "delete_voted_for") => InQueue(q, "set_voted_for") \/ voted_for' = Nil

\* What a handler does to the node, in the words of HandlerIsOneStep.
HandlerStep ==
    /\ current_term' >= current_term
    /\ SameTo(log', log, commit_index)
    /\ commit_index' >= commit_index
    /\ \/ voted_for' = IF current_term' > current_term THEN Nil ELSE voted_for
       \/ /\ current_term' = current_term => voted_for \in {Nil, voted_for'}
          /\ voted_for' \in Candidate
          /\ log' = log /\ commit_index' = commit_index

\* When no handler is running and none has panicked, the disk holds the node.
LEMMA AtRest ==
  ASSUME StoreInv, writes = <<>>, ~poisoned
  PROVE  /\ LoadedTerm = current_term /\ LoadedCommit = commit_index
         /\ voted_for # Nil => LoadedVote = voted_for
         /\ RowsAre(log)
BY DEF StoreInv, QueueInv, DiskHoldsRest, Pending

\* A handler keeps its word for the messages it knows of: in the term it is
\* in, a vote once given stays, and so does what was acknowledged.
LEMMA WordIsKept ==
  ASSUME StoreInv, NEW ws, NEW ms, Handle(ws, ms),
         current_term' \in Nat, current_term' >= current_term,
         current_term' = current_term => voted_for \in {Nil, voted_for'},
         \A m \in outbox \cup sent :
            current_term' = current_term /\ m.term = current_term /\ Ack(m) /\ Held(m)
              => Held(m)',
         \A m \in ms :
            /\ Vote(m) \/ Ack(m)
            /\ m.term = current_term'
            /\ IF m.type = "vote" THEN voted_for' = m.to ELSE Held(m)'
  PROVE  NodeKeepsWord'
<1>1. outbox' = outbox \cup ms /\ sent' = sent
  BY DEF Handle
<1>2. ASSUME NEW m \in outbox \cup sent
      PROVE  /\ Vote(m) \/ Ack(m)
             /\ m.term <= current_term'
             /\ m.term = current_term' =>
                  IF m.type = "vote" THEN voted_for' = m.to ELSE Held(m)'
  <2>1. Vote(m) \/ Ack(m)
    BY DEF StoreInv, NodeKeepsWord
  <2>2. m.term \in Nat /\ m.term <= current_term /\ current_term \in Nat
    BY <2>1, LeaderLogAssumption
       DEF StoreInv, NodeKeepsWord, NodeInv, Vote, Ack
  <2>3. m.term = current_term' => m.term = current_term /\ current_term' = current_term
    BY <2>2
  <2>4. ASSUME m.term = current_term'
        PROVE  IF m.type = "vote" THEN voted_for' = m.to ELSE Held(m)'
    <3>1. IF m.type = "vote" THEN voted_for = m.to ELSE Held(m)
      BY <2>3, <2>4 DEF StoreInv, NodeKeepsWord
    <3>2. CASE m.type = "vote"
      <4>1. m.to \in Candidate
        BY <2>1, <3>2 DEF Vote, Ack
      <4>2. voted_for # Nil
        BY <3>1, <3>2, <4>1, CandidateAssumption
      <4> QED
        BY <2>3, <2>4, <3>1, <3>2, <4>2
    <3>3. CASE m.type # "vote"
      <4>1. Ack(m)
        BY <2>1, <3>3 DEF Vote
      <4> QED
        BY <2>3, <2>4, <3>1, <3>3, <4>1
    <3> QED
      BY <3>2, <3>3
  <2> QED
    BY <2>1, <2>2, <2>4
<1>3. ASSUME NEW m \in ms
      PROVE  /\ Vote(m) \/ Ack(m)
             /\ m.term <= current_term'
             /\ m.term = current_term' =>
                  IF m.type = "vote" THEN voted_for' = m.to ELSE Held(m)'
  BY <1>3
<1> QED
  BY <1>1, <1>2, <1>3 DEF NodeKeepsWord, Vote, Ack

\* A handler that leaves such a queue keeps the invariant.
LEMMA HandlerStarts ==
  ASSUME StoreInv, NEW ws, NEW ms, Handle(ws, ms),
         NodeInv', NodeKeepsWord', InOrder(ws),
         LeadsTo(ws, current_term', voted_for', log', commit_index'),
         Fits(ws, log, log', commit_index),
         WritesChanges(ws), HandlerStep
  PROVE  StoreInv' /\ FileKeepsCommitted
<1>1. /\ writes = <<>> /\ ~poisoned /\ writes' = ws
      /\ start' = <<current_term, voted_for, log, commit_index>>
      /\ UNCHANGED <<disk, poisoned, sent, crashes>>
  BY DEF Handle
<1>2. /\ LoadedTerm = current_term /\ LoadedCommit = commit_index
      /\ voted_for # Nil => LoadedVote = voted_for
      /\ RowsAre(log)
  BY <1>1, AtRest
<1>3. /\ DiskInv' /\ FileKeepsCommitted
      /\ LoadedTerm' = LoadedTerm /\ LoadedVote' = LoadedVote
      /\ LoadedCommit' = LoadedCommit
  BY <1>1, DiskStays DEF StoreInv
<1>4. raft_log' = raft_log
  BY <1>1 DEF disk
<1>5. DiskKeepsWord'
  BY <1>1, <1>3, <1>4 DEF StoreInv, DiskKeepsWord, Stored
<1>6. /\ start'[1] = current_term /\ start'[2] = voted_for
      /\ start'[3] = log /\ start'[4] = commit_index
  BY <1>1
<1>7. NodeInv /\ Len(log) \in Nat /\ commit_index \in 0..Len(log)
  BY DEF StoreInv, NodeInv
<1>8. FoundType'
  BY <1>6, <1>7 DEF FoundType, NodeInv
<1>9. RowsTo(Len(log)) /\ RowsAgree(log, Len(log))
  BY <1>2 DEF RowsAre
<1>10. DiskIsBetween'
  <2>1. \A i \in 1..commit_index : raft_log'[i] = log[i].term
    BY <1>4, <1>7, <1>9 DEF RowsAgree
  <2>2. RowsAgree(start[3], start[4])'
    BY <1>6, <2>1 DEF RowsAgree
  <2> QED
    BY <1>2, <1>3, <1>6, <1>7, <2>2 DEF DiskIsBetween, NodeInv
<1>11. HandlerIsOneStep'
  BY <1>6 DEF HandlerStep, HandlerIsOneStep
<1>12. LogCallsFit'
  <2>1. ASSUME NEW k \in 1..Len(ws), ws[k].op = "append_entry",
               k > 1 => ws[k - 1].op \notin LogCalls
        PROVE  /\ RowsTo(ws[k].arg.index - 1)
               /\ \A i \in 1..(ws[k].arg.index - 1) : raft_log[i] = log'[i].term
    <3>1. /\ ws[k].arg.index = Len(log) + 1
          /\ \A i \in 1..Len(log) : log[i].term = log'[i].term
      BY <2>1 DEF Fits
    <3>2. ws[k].arg.index - 1 = Len(log)
      BY <1>7, <3>1
    <3> QED
      BY <1>9, <3>1, <3>2 DEF RowsAgree
  <2>2. ASSUME NEW k \in 1..Len(ws), ws[k].op = "truncate_from"
        PROVE  /\ ws[k].arg \in DOMAIN raft_log
               /\ raft_log[ws[k].arg] # log'[ws[k].arg].term
               /\ \A i \in 1..(ws[k].arg - 1) : raft_log[i] = log'[i].term
               /\ ws[k].arg > commit_index
    <3>1. /\ ws[k].arg \in 1..Len(log) /\ ws[k].arg > commit_index
          /\ log[ws[k].arg].term # log'[ws[k].arg].term
          /\ \A i \in 1..(ws[k].arg - 1) : log[i].term = log'[i].term
      BY <2>2 DEF Fits
    <3>2. \A i \in 1..(ws[k].arg - 1) : i \in 1..Len(log)
      BY <1>7, <3>1
    <3> QED
      BY <1>9, <3>1, <3>2 DEF RowsAgree, RowsTo
  <2> QED
    BY <1>1, <1>4, <1>6, <2>1, <2>2 DEF LogCallsFit, RowsTo, RowsAgree
<1>13. DiskHoldsRest'
  <2>1. log' = log => RowsAre(log)'
    BY <1>2, <1>4 DEF RowsAre, RowsTo, RowsAgree
  <2> QED
    BY <1>1, <1>2, <1>3, <2>1 DEF DiskHoldsRest, Pending, InQueue, WritesChanges
<1>14. NewTermIsSilent'
  <2>1. ASSUME current_term' > current_term, NEW m \in sent
        PROVE  m.term < current_term'
    <3>1. m.term \in Nat /\ m.term <= current_term /\ current_term \in Nat
      BY LeaderLogAssumption DEF StoreInv, NodeKeepsWord, NodeInv, Vote, Ack
    <3>2. current_term' \in Nat
      BY DEF NodeInv
    <3> QED
      BY <2>1, <3>1, <3>2
  <2> QED
    BY <1>1, <1>6, <2>1 DEF NewTermIsSilent, Pending, InQueue, WritesChanges
<1>15. QueueInv'
  BY <1>1, <1>12, <1>13, <1>14 DEF QueueInv
<1> QED
  BY <1>3, <1>5, <1>8, <1>10, <1>11, <1>15 DEF StoreInv, UnfinishedInv

(***************************************************************************)
(* The queues that handlers leave.                                         *)
(***************************************************************************)
\* The kinds of call, and that they are calls.
LEMMA CallKinds ==
  /\ \A t \in Nat : SetTerm(t) \in Calls /\ SetTerm(t).op = "set_current_term"
                      /\ SetTerm(t).arg = t
  /\ \A c \in Candidate : SetVote(c) \in Calls /\ SetVote(c).op = "set_voted_for"
                            /\ SetVote(c).arg = c
  /\ DeleteVote \in Calls /\ DeleteVote.op = "delete_voted_for"
  /\ \A e \in Entry : AppendRow(e) \in Calls /\ AppendRow(e).op = "append_entry"
                        /\ AppendRow(e).arg = e
  /\ \A i \in Nat : TruncateFrom(i) \in Calls /\ TruncateFrom(i).op = "truncate_from"
                      /\ TruncateFrom(i).arg = i
  /\ \A k \in Nat : SetCommit(k) \in Calls /\ SetCommit(k).op = "set_commit_index"
                      /\ SetCommit(k).arg = k
BY DEF Calls, SetTerm, SetVote, DeleteVote, AppendRow, TruncateFrom, SetCommit

\* The empty queue, for a handler that writes nothing.
LEMMA NoQueue ==
  ASSUME NEW t, NEW v, NEW l, NEW c, NEW a, NEW b
  PROVE  Writes(<<>>, t, v, l, c, a, b)
BY DEF Writes, InOrder, LeadsTo, Fits

\* A queue of one call that is no log call.
LEMMA OneCall ==
  ASSUME NEW t, NEW v, NEW l, NEW c, NEW a, NEW b, NEW w \in Seq(Calls), Len(w) = 1,
         \/ w[1].op = "set_voted_for" /\ w[1].arg = v
         \/ w[1].op = "set_commit_index" /\ w[1].arg = c
  PROVE  /\ Writes(w, t, v, l, c, a, b)
         /\ \A op : InQueue(w, op) <=> w[1].op = op
<1>1. InOrder(w)
  BY DEF InOrder
<1>2. LeadsTo(w, t, v, l, c)
  BY DEF LeadsTo
<1>3. Fits(w, a, l, b)
  BY DEF Fits
<1>4. \A op : InQueue(w, op) <=> w[1].op = op
  BY DEF InQueue
<1> QED
  BY <1>1, <1>2, <1>3, <1>4 DEF Writes

\* The calls of an append: x truncations, the entries of l from j on, and y
\* times the commit index.
IsLogQueue(q, x, j, y, l, c, a, b) ==
    /\ a \in Seq(Entry) /\ l \in Seq(Entry) /\ Indexed(l)
    /\ j \in Nat \ {0} /\ j <= Len(l) /\ j - 1 <= Len(a) /\ b \in Nat
    /\ \A i \in 1..(j - 1) : a[i] = l[i]
    /\ x \in {0, 1} /\ y \in {0, 1} /\ q \in Seq(Calls)
    /\ Len(q) = x + (Len(l) - j + 1) + y
    /\ IF x = 0 THEN j = Len(a) + 1
                ELSE j <= Len(a) /\ a[j].term # l[j].term /\ j > b
    /\ x = 1 => q[1].op = "truncate_from" /\ q[1].arg = j
    /\ \A k \in (x + 1)..(x + Len(l) - j + 1) :
         q[k].op = "append_entry" /\ q[k].arg = l[k - x + j - 1]
    /\ y = 1 => q[Len(q)].op = "set_commit_index" /\ q[Len(q)].arg = c

\* Such a queue takes the disk from the log a to the log l.
LEMMA LogQueue ==
  ASSUME NEW t, NEW v, NEW c, NEW b, NEW a, NEW l, NEW j, NEW x, NEW y, NEW q,
         IsLogQueue(q, x, j, y, l, c, a, b)
  PROVE  /\ Writes(q, t, v, l, c, a, b)
         /\ InQueue(q, "append_entry")
         /\ y = 1 => InQueue(q, "set_commit_index")
<1> USE DEF IsLogQueue
<1> DEFINE e == x + Len(l) - j + 1
<1>0. x \in Nat /\ y \in Nat /\ x <= 1 /\ y <= 1 /\ j \in Nat /\ j >= 1
  OBVIOUS
<1>1. /\ Len(l) \in Nat /\ Len(a) \in Nat /\ e \in Nat /\ Len(q) = e + y
      /\ e >= x + 1 /\ e = x + Len(l) - j + 1 /\ 1..Len(q) = 1..(e + y)
  BY <1>0
<1>2. ASSUME NEW k \in 1..Len(q)
      PROVE  \/ k = 1 /\ x = 1 /\ q[k].op = "truncate_from" /\ q[k].arg = j
             \/ /\ k \in (x + 1)..e /\ q[k].op = "append_entry"
                /\ q[k].arg = l[k - x + j - 1] /\ k - x + j - 1 \in 1..Len(l)
                /\ q[k].arg.index = k - x + j - 1
             \/ /\ k = e + 1 /\ y = 1 /\ k = Len(q)
                /\ q[k].op = "set_commit_index" /\ q[k].arg = c
  <2>1. k <= x \/ k \in (x + 1)..e \/ (k = e + 1 /\ y = 1 /\ k = Len(q))
    <3> HIDE DEF e
    <3>1. e \in Nat /\ Len(q) = e + y /\ y \in {0, 1} /\ x \in {0, 1}
      BY ONLY <1>0, <1>1
    <3>2. k \in 1..(e + y)
      BY <1>1
    <3> QED
      BY ONLY <3>1, <3>2
  <2>2. CASE k <= x
    BY <2>2
  <2>3. CASE k \in (x + 1)..e
    <3>1. k - x + j - 1 \in 1..Len(l)
      BY ONLY <1>0, <1>1, <2>3
    <3>2. q[k].op = "append_entry" /\ q[k].arg = l[k - x + j - 1]
      BY <2>3
    <3> QED
      BY <2>3, <3>1, <3>2 DEF Indexed
  <2>4. CASE k = e + 1 /\ y = 1 /\ k = Len(q)
    BY <2>4
  <2> QED
    BY <2>1, <2>2, <2>3, <2>4
<1> HIDE DEF e
<1>3. InOrder(q)
  <2>1. ASSUME NEW k \in 1..(Len(q) - 1)
        PROVE  MayFollow(q[k].op, q[k + 1].op)
    <3>1. k \in 1..Len(q) /\ k + 1 \in 1..Len(q) /\ k # e + 1 /\ k + 1 # 1
      BY <1>0, <1>1
    <3>2. (q[k].op = "truncate_from" /\ k = 1 /\ x = 1) \/ q[k].op = "append_entry"
      BY <1>2, <3>1
    <3>3. \/ q[k + 1].op = "append_entry"
          \/ k + 1 = e + 1 /\ q[k + 1].op = "set_commit_index"
      BY <1>2, <3>1
    <3>4. k = 1 /\ x = 1 => k + 1 # e + 1
      BY <1>0, <1>1
    <3> QED
      BY <3>2, <3>3, <3>4 DEF MayFollow
  <2> QED
    BY <2>1 DEF InOrder
<1>4. LeadsTo(q, t, v, l, c)
  <2>1. ASSUME NEW k \in 1..Len(q), q[k].op = "append_entry"
        PROVE  /\ q[k].arg.index \in 1..Len(l) /\ q[k].arg = l[q[k].arg.index]
               /\ IF k < Len(q) /\ q[k + 1].op = "append_entry"
                  THEN q[k + 1].arg.index = q[k].arg.index + 1
                  ELSE q[k].arg.index = Len(l)
    <3>1. /\ k \in (x + 1)..e /\ k - x + j - 1 \in 1..Len(l)
          /\ q[k].arg = l[k - x + j - 1] /\ q[k].arg.index = k - x + j - 1
      BY <1>2, <2>1
    <3>2. k \in Nat /\ x + 1 <= k /\ k <= e /\ k <= Len(q) /\ Len(q) \in Nat
      BY <1>0, <1>1, <3>1
    <3>3. CASE k < e
      <4>1. k + 1 \in (x + 1)..e /\ k + 1 # 1 /\ k + 1 # e + 1
        BY ONLY <1>0, <1>1, <3>2, <3>3
      <4>2. k + 1 \in 1..Len(q) /\ k < Len(q)
        BY ONLY <1>0, <1>1, <3>2, <3>3
      <4>3. q[k + 1].op = "append_entry" /\ q[k + 1].arg.index = (k + 1) - x + j - 1
        BY <1>2, <4>1, <4>2
      <4>4. q[k + 1].arg.index = q[k].arg.index + 1
        BY <1>0, <3>1, <3>2, <4>3
      <4> QED
        BY <3>1, <4>2, <4>3, <4>4
    <3>4. CASE k = e
      <4>1. k < Len(q) => k + 1 \in 1..Len(q) /\ k + 1 \notin (x + 1)..e
        BY ONLY <1>0, <1>1, <3>2, <3>4
      <4>2. k < Len(q) => q[k + 1].op # "append_entry"
        BY <1>2, <4>1
      <4>3. q[k].arg.index = Len(l)
        <5>1. k - x + j - 1 = Len(l)
          BY ONLY <1>0, <1>1, <3>2, <3>4
        <5> QED
          BY <3>1, <5>1
      <4> QED
        BY <3>1, <4>2, <4>3
    <3>5. k < e \/ k = e
      <4>1. e \in Nat
        BY <1>1
      <4>2. k \in Nat /\ k <= e
        BY <3>2
      <4> QED
        BY ONLY <4>1, <4>2
    <3> QED
      BY ONLY <3>3, <3>4, <3>5
  <2>2. ASSUME NEW k \in 1..Len(q), q[k].op = "truncate_from"
        PROVE  k < Len(q) /\ q[k + 1].arg.index = q[k].arg
    <3>1. k = 1 /\ x = 1 /\ q[k].arg = j
      BY <1>2, <2>2
    <3>2. 2 \in (x + 1)..e /\ 2 \in 1..Len(q)
      BY <1>0, <1>1, <3>1
    <3>3. q[2].arg.index = 2 - x + j - 1
      BY <1>2, <1>1, <3>1, <3>2
    <3> QED
      BY <3>1, <3>2, <3>3, <1>1
  <2>3. ASSUME NEW k \in 1..Len(q)
        PROVE  /\ q[k].op # "set_current_term" /\ q[k].op # "set_voted_for"
               /\ q[k].op = "set_commit_index" => q[k].arg = c
    BY <1>2
  <2> QED
    BY <2>1, <2>2, <2>3 DEF LeadsTo
<1>5. Fits(q, a, l, b)
  <2>1. ASSUME NEW k \in 1..Len(q), q[k].op = "append_entry",
               k > 1 => q[k - 1].op \notin LogCalls
        PROVE  /\ q[k].arg.index = Len(a) + 1
               /\ \A i \in 1..Len(a) : a[i].term = l[i].term
    <3>1. k \in (x + 1)..e /\ q[k].arg.index = k - x + j - 1
      BY <1>2, <2>1
    <3>2. k > 1 => k - 1 \in 1..Len(q) /\ k - 1 # e + 1
      <4> HIDE DEF e
      <4>1. e \in Nat /\ Len(q) = e + y /\ y \in Nat /\ x \in Nat
        BY ONLY <1>0, <1>1
      <4>2. k \in Nat /\ k <= e
        BY ONLY <3>1, <4>1
      <4>3. Len(q) \in Nat /\ e <= Len(q)
        BY ONLY <4>1
      <4> QED
        BY ONLY <4>1, <4>2, <4>3
    <3>3. k > 1 => q[k - 1].op \in LogCalls
      BY <1>2, <3>2 DEF LogCalls
    <3>4. k = 1 /\ x = 0
      <4>1. ~(k > 1)
        BY <2>1, <3>3
      <4>2. k \in Nat /\ k >= x + 1
        BY <1>0, <1>1, <3>1
      <4> QED
        BY <1>0, <4>1, <4>2
    <3>5. j - 1 = Len(a)
      BY <1>0, <1>1, <3>4
    <3> QED
      BY <1>0, <1>1, <3>1, <3>4, <3>5
  <2>2. ASSUME NEW k \in 1..Len(q), q[k].op = "truncate_from"
        PROVE  /\ q[k].arg \in 1..Len(a) /\ q[k].arg > b
               /\ a[q[k].arg].term # l[q[k].arg].term
               /\ \A i \in 1..(q[k].arg - 1) : a[i].term = l[i].term
    <3>1. k = 1 /\ x = 1 /\ q[k].arg = j
      BY <1>2, <2>2
    <3> QED
      BY <1>0, <1>1, <3>1
  <2> QED
    BY <2>1, <2>2 DEF Fits
<1>6. \A k \in 1..Len(q) :
        q[k].op \in LogCalls \cup {"set_voted_for", "set_commit_index"}
  BY <1>2 DEF LogCalls
<1>7. InQueue(q, "append_entry")
  <2>1. x + 1 \in (x + 1)..e /\ x + 1 \in 1..Len(q)
    BY <1>0, <1>1
  <2>2. x + 1 \in (x + 1)..(x + Len(l) - j + 1)
    BY <1>1, <2>1
  <2> QED
    BY <2>1, <2>2 DEF InQueue
<1>8. y = 1 => InQueue(q, "set_commit_index")
  <2>1. Len(q) \in 1..Len(q)
    BY <1>0, <1>1
  <2> QED
    BY <2>1 DEF InQueue
<1> QED
  BY <1>3, <1>4, <1>5, <1>6, <1>7, <1>8 DEF Writes

\* A term is adopted in front of such a queue.
LEMMA AdoptingQueue ==
  ASSUME NEW t \in Nat, NEW v, NEW l, NEW c, NEW a, NEW b, NEW w,
         InOrder(w), LeadsTo(w, t, v, l, c), Fits(w, a, l, b),
         w # <<>> => w[1].op \in LogCalls \cup {"set_voted_for", "set_commit_index"},
         NEW q, q = <<SetTerm(t), DeleteVote>> \o w
  PROVE  /\ InOrder(q) /\ LeadsTo(q, t, v, l, c) /\ Fits(q, a, l, b)
         /\ InQueue(q, "set_current_term")
         /\ \A op : InQueue(w, op) => InQueue(q, op)
<1>1. w \in Seq(Calls) /\ Len(w) \in Nat
  BY DEF InOrder
<1>2. <<SetTerm(t), DeleteVote>> \in Seq(Calls) /\ Len(<<SetTerm(t), DeleteVote>>) = 2
  BY CallKinds
<1>3. q \in Seq(Calls) /\ Len(q) = Len(w) + 2
  BY <1>1, <1>2
<1>4. q[1] = SetTerm(t) /\ q[2] = DeleteVote
  BY <1>1, <1>2
<1>5. \A k \in 3..Len(q) : q[k] = w[k - 2] /\ k - 2 \in 1..Len(w)
  BY <1>1, <1>2, <1>3
<1>6. /\ q[1].op = "set_current_term" /\ q[1].arg = t
      /\ q[2].op = "delete_voted_for"
  BY <1>4, CallKinds
<1>7. InOrder(q)
  <2>1. ASSUME NEW k \in 1..(Len(q) - 1)
        PROVE  MayFollow(q[k].op, q[k + 1].op)
    <3>1. CASE k = 1
      BY <1>6, <3>1 DEF MayFollow
    <3>2. CASE k = 2
      <4>1. q[3] = w[1] /\ w # <<>>
        BY <1>1, <1>3, <1>5, <3>2
      <4> QED
        BY <1>6, <3>2, <4>1 DEF MayFollow
    <3>3. CASE k > 2
      <4>1. /\ k \in 3..Len(q) /\ k + 1 \in 3..Len(q)
            /\ k - 2 \in 1..(Len(w) - 1) /\ (k + 1) - 2 = (k - 2) + 1
        BY <1>1, <1>3, <3>3
      <4>2. q[k] = w[k - 2] /\ q[k + 1] = w[(k - 2) + 1]
        BY <1>5, <4>1
      <4> QED
        BY <4>1, <4>2 DEF InOrder
    <3> QED
      BY <1>1, <1>3, <3>1, <3>2, <3>3
  <2> QED
    BY <1>3, <2>1 DEF InOrder
<1>8. ASSUME NEW k \in 3..Len(q)
      PROVE  /\ q[k] = w[k - 2] /\ k - 2 \in 1..Len(w)
             /\ k < Len(q) <=> k - 2 < Len(w)
             /\ k < Len(q) => q[k + 1] = w[(k - 2) + 1]
             /\ k - 2 > 1 => q[k - 1] = w[(k - 2) - 1]
  <2>1. k < Len(q) => k + 1 \in 3..Len(q) /\ (k + 1) - 2 = (k - 2) + 1
    BY <1>1, <1>3
  <2>2. k - 2 > 1 => k - 1 \in 3..Len(q) /\ (k - 1) - 2 = (k - 2) - 1
    BY <1>1, <1>3
  <2> QED
    BY <1>1, <1>3, <1>5, <2>1, <2>2
<1>9. \A k \in 1..Len(q) : k = 1 \/ k = 2 \/ k \in 3..Len(q)
  BY <1>1, <1>3
<1>10. LeadsTo(q, t, v, l, c)
  <2>1. ASSUME NEW k \in 3..Len(q)
        PROVE  /\ q[k].op = "set_current_term" => q[k].arg = t
               /\ q[k].op = "set_voted_for" => q[k].arg = v
               /\ q[k].op = "set_commit_index" => q[k].arg = c
               /\ q[k].op = "truncate_from" => k < Len(q) /\ q[k + 1].arg.index = q[k].arg
               /\ q[k].op = "append_entry" =>
                    /\ q[k].arg.index \in 1..Len(l) /\ q[k].arg = l[q[k].arg.index]
                    /\ IF k < Len(q) /\ q[k + 1].op = "append_entry"
                       THEN q[k + 1].arg.index = q[k].arg.index + 1
                       ELSE q[k].arg.index = Len(l)
    BY <1>8 DEF LeadsTo
  <2> QED
    BY <1>6, <1>9, <2>1 DEF LeadsTo
<1>11. Fits(q, a, l, b)
  <2>1. ASSUME NEW k \in 3..Len(q)
        PROVE  /\ q[k].op = "append_entry" /\ (k > 1 => q[k - 1].op \notin LogCalls) =>
                    /\ q[k].arg.index = Len(a) + 1
                    /\ \A i \in 1..Len(a) : a[i].term = l[i].term
               /\ q[k].op = "truncate_from" =>
                    /\ q[k].arg \in 1..Len(a) /\ q[k].arg > b
                    /\ a[q[k].arg].term # l[q[k].arg].term
                    /\ \A i \in 1..(q[k].arg - 1) : a[i].term = l[i].term
    BY <1>8 DEF Fits
  <2> QED
    BY <1>6, <1>9, <2>1 DEF Fits
<1>12. InQueue(q, "set_current_term")
  BY <1>1, <1>3, <1>6 DEF InQueue
<1>13. ASSUME NEW op, NEW k \in 1..Len(w), w[k].op = op
       PROVE  InQueue(q, op)
  <2>1. k + 2 \in 3..Len(q) /\ (k + 2) - 2 = k /\ k + 2 \in 1..Len(q)
    BY <1>1, <1>3
  <2> QED
    BY <1>5, <1>13, <2>1 DEF InQueue
<1> QED
  BY <1>7, <1>10, <1>11, <1>12, <1>13 DEF InQueue

(***************************************************************************)
(* The handlers, one by one.                                               *)
(***************************************************************************)
\* A queue in front of which the handler adopted the term of a message.
LEMMA Adopts ==
  ASSUME NodeInv, NEW t \in Nat, t >= current_term, NEW w, NEW v, NEW l, NEW c,
         NEW a, NEW b, Writes(w, t, v, l, c, a, b),
         NEW q, q = Adopting(t) \o w
  PROVE  /\ InOrder(q) /\ LeadsTo(q, t, v, l, c) /\ Fits(q, a, l, b)
         /\ IF t > current_term
            THEN InQueue(q, "set_current_term")
            ELSE q = w /\ t = current_term
                   /\ ~InQueue(q, "set_current_term") /\ ~InQueue(q, "delete_voted_for")
         /\ \A op : InQueue(w, op) => InQueue(q, op)
<1>1. w \in Seq(Calls) /\ Len(w) \in Nat /\ current_term \in Nat
  BY DEF InOrder, NodeInv, Writes
<1>2. CASE t > current_term
  <2>1. q = <<SetTerm(t), DeleteVote>> \o w
    BY <1>2 DEF Adopting
  <2>2. w # <<>> => w[1].op \in LogCalls \cup {"set_voted_for", "set_commit_index"}
    <3>1. w # <<>> => 1 \in 1..Len(w)
      BY <1>1
    <3> QED
      BY <3>1 DEF Writes
  <2> QED
    BY <1>2, <2>1, <2>2, AdoptingQueue DEF Writes
<1>3. CASE ~(t > current_term)
  <2>1. t = current_term
    BY <1>1, <1>3
  <2>2. q = w
    <3>1. q = <<>> \o w
      BY <1>3 DEF Adopting
    <3> QED
      BY <1>1, <3>1
  <2>3. ~InQueue(q, "set_current_term") /\ ~InQueue(q, "delete_voted_for")
    BY <2>2 DEF InQueue, LogCalls, Writes
  <2> QED
    BY <1>3, <2>1, <2>2, <2>3 DEF Writes
<1> QED
  BY <1>2, <1>3

\* Where the log stays, so does what it holds.
LEMMA LogStays ==
  ASSUME NodeInv, UNCHANGED log
  PROVE  /\ SameTo(log', log, commit_index) /\ Indexed(log')
         /\ \A m : Held(m) => Held(m)'
<1>1. log' = log /\ commit_index \in 0..Len(log) /\ Len(log) \in Nat
  BY DEF NodeInv
<1>2. SameTo(log', log, commit_index)
  BY <1>1 DEF SameTo
<1>3. Indexed(log') /\ \A m : Held(m) => Held(m)'
  BY <1>1 DEF NodeInv, Held
<1> QED
  BY <1>2, <1>3

\* A message of a higher term is heard, and nothing else.
LEMMA TermIsHeard ==
  ASSUME StoreInv, NEW t \in 1..MaxTerm, HearTerm(t)
  PROVE  StoreInv' /\ FileKeepsCommitted /\ HandlerStep
<1>1. /\ t > current_term /\ Handle(Adopting(t), {})
      /\ current_term' = t /\ voted_for' = Nil /\ role' = "Follower"
      /\ UNCHANGED <<log, commit_index>>
  BY DEF HearTerm
<1>2. NodeInv /\ t \in Nat /\ current_term \in Nat /\ t \in 0..MaxTerm
  BY StoreBounds DEF StoreInv, NodeInv
<1>3. NodeInv'
  BY <1>1, <1>2, LogStays DEF NodeInv, Handle
<1>4. NodeKeepsWord'
  BY <1>1, <1>2, LogStays, WordIsKept
<1>5. PICK w : w = <<>>
  OBVIOUS
<1>6. Writes(w, t, Nil, log, commit_index, log, commit_index)
  BY <1>5, NoQueue
<1>7. /\ InOrder(Adopting(t)) /\ LeadsTo(Adopting(t), t, Nil, log, commit_index)
      /\ Fits(Adopting(t), log, log, commit_index)
      /\ InQueue(Adopting(t), "set_current_term")
  <2>1. t >= current_term
    BY <1>1, <1>2
  <2>2. Adopting(t) = Adopting(t) \o w
    BY <1>1, <1>5 DEF Adopting
  <2> QED
    BY <1>1, <1>2, <1>6, <2>1, <2>2, Adopts
<1>8. WritesChanges(Adopting(t))
  BY <1>1, <1>2, <1>7 DEF WritesChanges
<1>9. HandlerStep
  BY <1>1, <1>2, LogStays DEF HandlerStep, NodeInv
<1> QED
  BY <1>1, <1>3, <1>4, <1>7, <1>8, <1>9, HandlerStarts

\* A vote is given: it is the last thing the handler writes.
LEMMA VoteIsGiven ==
  ASSUME StoreInv, NEW t \in 1..MaxTerm, NEW c \in Others, GrantVote(t, c)
  PROVE  StoreInv' /\ FileKeepsCommitted /\ HandlerStep
<1> DEFINE m == [type |-> "vote", term |-> t, to |-> c]
<1>w. PICK w : w = <<SetVote(c)>>
  OBVIOUS
<1>q. PICK q : q = Adopting(t) \o w
  OBVIOUS
<1>1. /\ t >= current_term /\ VoteAfter(t) \in {Nil, c} /\ Handle(q, {m})
      /\ current_term' = t /\ voted_for' = c
      /\ role' = IF t > current_term THEN "Follower" ELSE role
      /\ UNCHANGED <<log, commit_index>>
  BY <1>w, <1>q DEF GrantVote
<1>2. /\ NodeInv /\ t \in Nat /\ current_term \in Nat /\ t \in 0..MaxTerm
      /\ c \in Candidate
  BY StoreBounds DEF StoreInv, NodeInv, Candidate
<1>3. t = current_term => voted_for \in {Nil, c}
  BY <1>1, <1>2 DEF VoteAfter
<1>4. NodeInv'
  BY <1>1, <1>2, LogStays DEF NodeInv, Handle
<1>5. Vote(m) /\ m.term = t /\ m.type = "vote" /\ m.to = c
  BY <1>2 DEF Vote
<1> HIDE DEF m
<1>6. NodeKeepsWord'
  BY <1>1, <1>2, <1>3, <1>5, LogStays, WordIsKept
<1>7. SetVote(c) \in Calls /\ SetVote(c).op = "set_voted_for" /\ SetVote(c).arg = c
  BY <1>2, CallKinds
<1>8. w \in Seq(Calls) /\ Len(w) = 1 /\ w[1] = SetVote(c)
  BY <1>w, <1>7
<1>9. /\ Writes(w, t, c, log, commit_index, log, commit_index)
      /\ InQueue(w, "set_voted_for")
  <2>1. w \in Seq(Calls) /\ Len(w) = 1 /\ w[1].op = "set_voted_for" /\ w[1].arg = c
    BY <1>7, <1>8
  <2> QED
    BY <2>1, OneCall
<1>10. /\ InOrder(q) /\ LeadsTo(q, t, c, log, commit_index)
       /\ Fits(q, log, log, commit_index) /\ InQueue(q, "set_voted_for")
       /\ IF t > current_term
          THEN InQueue(q, "set_current_term")
          ELSE /\ t = current_term
               /\ ~InQueue(q, "set_current_term") /\ ~InQueue(q, "delete_voted_for")
  <2>1. NodeInv /\ t \in Nat /\ t >= current_term
    BY <1>1, <1>2
  <2>2. Writes(w, t, c, log, commit_index, log, commit_index)
    BY <1>9
  <2>3. /\ InOrder(q) /\ LeadsTo(q, t, c, log, commit_index)
        /\ Fits(q, log, log, commit_index)
        /\ IF t > current_term
           THEN InQueue(q, "set_current_term")
           ELSE /\ q = w /\ t = current_term
                /\ ~InQueue(q, "set_current_term") /\ ~InQueue(q, "delete_voted_for")
        /\ \A op : InQueue(w, op) => InQueue(q, op)
    BY ONLY <1>q, <2>1, <2>2, Adopts
  <2> QED
    BY ONLY <1>9, <2>3
<1>11. WritesChanges(q)
  BY <1>1, <1>2, <1>10 DEF WritesChanges
<1>12. HandlerStep
  BY <1>1, <1>2, <1>3, LogStays DEF HandlerStep, NodeInv
<1> QED
  BY <1>1, <1>4, <1>6, <1>10, <1>11, <1>12, HandlerStarts

\* The node stands for election: its term and its vote are written, nothing
\* else.
LEMMA CandidateWritesBoth ==
  ASSUME StoreInv, BecomeCandidate
  PROVE  StoreInv' /\ FileKeepsCommitted /\ HandlerStep
<1>t. PICK t : t = current_term + 1
  OBVIOUS
<1>m. PICK m : m = [type |-> "vote", term |-> t, to |-> Self]
  OBVIOUS
<1>q. PICK q : q = CandidateWrites(t)
  OBVIOUS
<1>1. /\ current_term < MaxTerm /\ Handle(q, {m})
      /\ current_term' = t /\ voted_for' = Self /\ role' = "Candidate"
      /\ UNCHANGED <<log, commit_index>>
  BY <1>t, <1>m, <1>q DEF BecomeCandidate
<1>2. /\ NodeInv /\ t \in Nat /\ current_term \in Nat /\ t \in 0..MaxTerm
      /\ t > current_term /\ Self \in Candidate
  BY <1>t, <1>1, StoreBounds DEF StoreInv, NodeInv, Candidate
<1>3. NodeInv'
  BY <1>1, <1>2, LogStays DEF NodeInv, Handle
<1>4. Vote(m) /\ m.term = t /\ m.type = "vote" /\ m.to = Self
  BY <1>m, <1>2 DEF Vote
<1>5. NodeKeepsWord'
  BY <1>1, <1>2, <1>4, LogStays, WordIsKept
<1>6. /\ q \in Seq(Calls) /\ Len(q) = 2
      /\ q[1].op = "set_current_term" /\ q[1].arg = t
      /\ q[2].op = "set_voted_for" /\ q[2].arg = Self
  <2>1. q \in Seq(Calls) /\ Len(q) = 2 /\ q[1] = SetTerm(t) /\ q[2] = SetVote(Self)
    BY <1>q, <1>2, CallKinds DEF CandidateWrites
  <2> QED
    BY <1>2, <2>1, CallKinds
<1>7. InOrder(q)
  BY <1>6 DEF InOrder, MayFollow
<1>8. LeadsTo(q, t, Self, log, commit_index)
  BY <1>6 DEF LeadsTo
<1>9. Fits(q, log, log, commit_index)
  BY <1>6 DEF Fits
<1>10. WritesChanges(q)
  <2>1. InQueue(q, "set_current_term") /\ InQueue(q, "set_voted_for")
    <3>1. 1 \in 1..Len(q) /\ 2 \in 1..Len(q)
      BY <1>6
    <3> QED
      BY <1>6, <3>1 DEF InQueue
  <2>2. ~InQueue(q, "delete_voted_for")
    BY <1>6 DEF InQueue
  <2> QED
    BY <1>1, <1>2, <2>1, <2>2 DEF WritesChanges
<1>11. HandlerStep
  BY <1>1, <1>2, LogStays DEF HandlerStep, NodeInv
<1> QED
  BY <1>1, <1>3, <1>5, <1>7, <1>8, <1>9, <1>10, <1>11, HandlerStarts

\* A leader is elected, or a message is refused in the node's own term:
\* nothing is written.
LEMMA NothingIsWritten ==
  ASSUME StoreInv, Handle(<<>>, {}),
         UNCHANGED <<current_term, voted_for, log, commit_index>>,
         role' \in {"Follower", "Candidate", "Leader"}
  PROVE  StoreInv' /\ FileKeepsCommitted /\ HandlerStep
<1>1. NodeInv /\ current_term \in Nat
  BY StoreBounds DEF StoreInv, NodeInv
<1>2. NodeInv'
  BY <1>1, LogStays DEF NodeInv, Handle
<1>3. NodeKeepsWord'
  BY <1>1, LogStays, WordIsKept
<1>q. PICK q : q = <<>>
  OBVIOUS
<1>4. Writes(q, current_term, voted_for, log, commit_index, log, commit_index)
  BY <1>q, NoQueue
<1>5. WritesChanges(q)
  BY <1>q DEF WritesChanges, InQueue
<1>6. HandlerStep
  BY <1>1, LogStays DEF HandlerStep, NodeInv
<1>7. /\ InOrder(q) /\ LeadsTo(q, current_term', voted_for', log', commit_index')
      /\ Fits(q, log, log', commit_index)
  BY <1>4 DEF Writes
<1>8. Handle(q, {})
  BY <1>q
<1> QED
  BY <1>2, <1>3, <1>5, <1>6, <1>7, <1>8, HandlerStarts

\* An index is a position, so the last one is the length.
LEMMA LastIndexIsLength ==
  ASSUME NEW l \in Seq(Entry), Indexed(l)
  PROVE  LastIndex(l) = Len(l)
<1>1. CASE l = <<>>
  BY <1>1 DEF LastIndex
<1>2. CASE l # <<>>
  <2>1. Len(l) \in 1..Len(l)
    BY <1>2
  <2> QED
    BY <1>2, <2>1 DEF LastIndex, Indexed
<1> QED
  BY <1>1, <1>2

\* The leader appends an entry of its own: one row, behind the others.
LEMMA EntryIsAppended ==
  ASSUME StoreInv, AppendLocalEntry
  PROVE  StoreInv' /\ FileKeepsCommitted /\ HandlerStep
<1>e. PICK e : e = [index |-> LastIndex(log) + 1, term |-> current_term]
  OBVIOUS
<1>q. PICK q : q = <<AppendRow(e)>>
  OBVIOUS
<1>1. /\ Handle(q, {}) /\ log' = Append(log, e)
      /\ UNCHANGED <<current_term, voted_for, commit_index, role>>
  BY <1>e, <1>q DEF AppendLocalEntry
<1>2. /\ NodeInv /\ current_term \in Nat /\ log \in Seq(Entry) /\ Len(log) \in Nat
      /\ commit_index \in 0..Len(log) /\ Indexed(log)
  BY StoreBounds DEF StoreInv, NodeInv
<1>3. e \in Entry /\ e.index = Len(log) + 1
  BY <1>e, <1>2, LastIndexIsLength DEF Entry
<1>4. /\ log' \in Seq(Entry) /\ Len(log') = Len(log) + 1
      /\ log'[Len(log) + 1] = e
      /\ \A i \in 1..Len(log) : log'[i] = log[i]
  BY <1>1, <1>2, <1>3
<1>5. Indexed(log')
  <2> SUFFICES ASSUME NEW i \in 1..(Len(log) + 1)
               PROVE  log'[i].index = i
    BY <1>4 DEF Indexed
  <2>1. i \in 1..Len(log) \/ i = Len(log) + 1
    BY <1>2
  <2> QED
    BY <1>2, <1>3, <1>4, <2>1 DEF Indexed
<1>6. NodeInv'
  BY <1>1, <1>2, <1>4, <1>5 DEF NodeInv, Handle
<1>7. \A m : Ack(m) /\ Held(m) => Held(m)'
  <2> SUFFICES ASSUME NEW m, Ack(m), Held(m), NEW i \in 1..Len(m.log)
               PROVE  i <= Len(log') /\ log'[i] = m.log[i]
    BY DEF Held
  <2>1. i <= Len(log) /\ log[i] = m.log[i] /\ i \in Nat /\ i >= 1
    BY DEF Held, Ack
  <2> QED
    BY <1>2, <1>4, <2>1
<1>8. NodeKeepsWord'
  BY <1>1, <1>2, <1>7, WordIsKept
<1>9. /\ q \in Seq(Calls) /\ Len(q) = 1
      /\ q[1].op = "append_entry" /\ q[1].arg = e
  <2>1. AppendRow(e) \in Calls /\ AppendRow(e).op = "append_entry" /\ AppendRow(e).arg = e
    BY <1>3, CallKinds
  <2>2. q \in Seq(Calls) /\ Len(q) = 1 /\ q[1] = AppendRow(e)
    BY <1>q, <2>1
  <2> QED
    BY <2>1, <2>2
<1>10. InOrder(q)
  BY <1>9 DEF InOrder
<1>11. LeadsTo(q, current_term', voted_for', log', commit_index')
  BY <1>2, <1>3, <1>4, <1>9 DEF LeadsTo
<1>12. Fits(q, log, log', commit_index)
  BY <1>2, <1>3, <1>4, <1>9 DEF Fits
<1>13. WritesChanges(q)
  <2>1. \A op : InQueue(q, op) <=> op = "append_entry"
    BY <1>9 DEF InQueue
  <2> QED
    BY <1>1, <2>1 DEF WritesChanges
<1>14. HandlerStep
  <2>1. SameTo(log', log, commit_index)
    BY <1>2, <1>4 DEF SameTo
  <2> QED
    BY <1>1, <1>2, <2>1 DEF HandlerStep
<1> QED
  BY <1>1, <1>6, <1>8, <1>10, <1>11, <1>12, <1>13, <1>14, HandlerStarts

\* The leader commits: the commit index is all it writes.
LEMMA CommitIsWritten ==
  ASSUME StoreInv, LeaderCommits
  PROVE  StoreInv' /\ FileKeepsCommitted /\ HandlerStep
<1>1. PICK k \in (commit_index + 1)..Len(log) :
         Handle(<<SetCommit(k)>>, {}) /\ commit_index' = k
  BY DEF LeaderCommits
<1>q. PICK q : q = <<SetCommit(k)>>
  OBVIOUS
<1>2. /\ NodeInv /\ current_term \in Nat /\ log \in Seq(Entry) /\ Len(log) \in Nat
      /\ commit_index \in 0..Len(log) /\ k \in Nat /\ k <= Len(log) /\ k > commit_index
  BY StoreBounds DEF StoreInv, NodeInv
<1>3. UNCHANGED <<current_term, voted_for, log, role>> /\ Handle(q, {})
  BY <1>1, <1>q DEF LeaderCommits
<1>4. NodeInv'
  BY <1>1, <1>2, <1>3, LogStays DEF NodeInv, Handle
<1>5. NodeKeepsWord'
  BY <1>2, <1>3, LogStays, WordIsKept
<1>6. q \in Seq(Calls) /\ Len(q) = 1 /\ q[1].op = "set_commit_index" /\ q[1].arg = k
  <2>1. SetCommit(k) \in Calls /\ SetCommit(k).op = "set_commit_index" /\ SetCommit(k).arg = k
    BY <1>2, CallKinds
  <2>2. q \in Seq(Calls) /\ Len(q) = 1 /\ q[1] = SetCommit(k)
    BY <1>q, <2>1
  <2> QED
    BY <2>1, <2>2
<1>7. /\ Writes(q, current_term, voted_for, log, k, log, commit_index)
      /\ \A op : InQueue(q, op) <=> op = "set_commit_index"
  <2>1. /\ Writes(q, current_term, voted_for, log, k, log, commit_index)
        /\ \A op : InQueue(q, op) <=> q[1].op = op
    <3>1. q \in Seq(Calls) /\ Len(q) = 1 /\ q[1].op = "set_commit_index" /\ q[1].arg = k
      BY <1>6
    <3>2. Writes(q, current_term, voted_for, log, k, log, commit_index)
      BY ONLY <3>1, OneCall
    <3>3. \A op : InQueue(q, op) <=> q[1].op = op
      BY ONLY <3>1 DEF InQueue
    <3> QED
      BY <3>2, <3>3
  <2> QED
    BY <1>6, <2>1
<1>8. /\ InOrder(q) /\ LeadsTo(q, current_term', voted_for', log', commit_index')
      /\ Fits(q, log, log', commit_index)
  BY <1>1, <1>3, <1>7 DEF Writes
<1>9. WritesChanges(q)
  BY <1>1, <1>3, <1>7 DEF WritesChanges
<1>10. HandlerStep
  BY <1>1, <1>2, <1>3, LogStays DEF HandlerStep
<1> QED
  BY <1>3, <1>4, <1>5, <1>8, <1>9, <1>10, HandlerStarts

\* A message that does not fit on the log is refused: at most its term is
\* adopted.
LEMMA EntriesAreRefused ==
  ASSUME StoreInv, NEW t \in DOMAIN LeaderLog, NEW n, RefuseEntries(t, n)
  PROVE  StoreInv' /\ FileKeepsCommitted /\ HandlerStep
<1>1. /\ t >= current_term /\ Handle(Adopting(t), {})
      /\ current_term' = t /\ voted_for' = VoteAfter(t) /\ role' = "Follower"
      /\ UNCHANGED <<log, commit_index>>
  BY DEF RefuseEntries
<1>2. t \in 1..MaxTerm /\ t \in Nat /\ current_term \in Nat
  BY LeaderLogAssumption, StoreBounds DEF StoreInv, NodeInv
<1>3. CASE t > current_term
  <2>1. HearTerm(t)
    BY <1>1, <1>3 DEF HearTerm, VoteAfter
  <2> QED
    BY <1>2, <2>1, TermIsHeard
<1>4. CASE ~(t > current_term)
  <2>1. /\ t = current_term /\ Adopting(t) = <<>> /\ VoteAfter(t) = voted_for
    BY <1>1, <1>2, <1>4 DEF Adopting, VoteAfter
  <2>2. /\ Handle(<<>>, {}) /\ UNCHANGED <<current_term, voted_for, log, commit_index>>
        /\ role' = "Follower"
    BY <1>1, <2>1
  <2> QED
    BY <2>2, NothingIsWritten
<1> QED
  BY <1>3, <1>4

(***************************************************************************)
(* Appending what a leader sent.                                           *)
(***************************************************************************)
LEMMA FirstIsLeast ==
  ASSUME NEW D, D \subseteq Nat, D # {}
  PROVE  First(D) \in D /\ \A i \in D : First(D) <= i
<1>1. PICK x \in D : \A y \in D : ~(<<y, x>> \in OpToRel(<, Nat))
  BY NatLessThanWellFounded, WFMin, Zenon
<1>2. ASSUME NEW y \in D
      PROVE  x <= y
  <2>1. x \in Nat /\ y \in Nat /\ <<y, x>> \in Nat \X Nat
    OBVIOUS
  <2>2. y < x => <<y, x>> \in OpToRel(<, Nat)
    BY <2>1 DEF OpToRel
  <2>3. ~(y < x)
    BY <1>1, <2>2, Zenon
  <2> QED
    BY <2>1, <2>3
<1> QED
  BY <1>2 DEF First

\* The log of a leader, as an operand.
Leads(l, t) ==
    /\ t \in DOMAIN LeaderLog /\ l = LeaderLog[t] /\ Possible(t)

\* What a node shares with a leader it can hear: what is committed, and
\* everything up to an entry of the same term.
LEMMA SharedPrefix ==
  ASSUME NodeInv, NEW t, NEW l, Leads(l, t)
  PROVE  /\ l \in Seq(Entry) /\ Indexed(l)
         /\ commit_index <= Len(l)
         /\ \A k \in 1..commit_index : log[k] = l[k]
         /\ \A i \in 1..Len(log) :
              i <= Len(l) /\ log[i].term = l[i].term => \A k \in 1..i : log[k] = l[k]
<1>1. l \in Seq(Entry) /\ Indexed(l) /\ Len(l) \in Nat
  BY LeaderLogAssumption DEF Leads, Indexed
<1>2. /\ log \in Seq(Entry) /\ Indexed(log) /\ Len(log) \in Nat
      /\ commit_index \in 0..Len(log)
  BY DEF NodeInv
<1>3. /\ \A i \in 1..Len(log) :
           i <= Len(l) /\ l[i] = log[i] => SubSeq(l, 1, i) = SubSeq(log, 1, i)
      /\ commit_index <= Len(l)
      /\ SubSeq(l, 1, commit_index) = SubSeq(log, 1, commit_index)
  BY DEF Leads, Possible
<1>4. ASSUME NEW i \in Nat, i <= Len(l), i <= Len(log), SubSeq(l, 1, i) = SubSeq(log, 1, i),
             NEW k \in 1..i
      PROVE  log[k] = l[k]
  <2>1. SubSeq(l, 1, i)[k] = l[k] /\ SubSeq(log, 1, i)[k] = log[k]
    BY <1>1, <1>2, <1>4
  <2> QED
    BY <1>4, <2>1
<1>5. \A k \in 1..commit_index : log[k] = l[k]
  BY <1>2, <1>3, <1>4
<1>6. ASSUME NEW i \in 1..Len(log), i <= Len(l), log[i].term = l[i].term, NEW k \in 1..i
      PROVE  log[k] = l[k]
  <2>1. i \in 1..Len(l) /\ i \in Nat /\ i <= Len(log)
    BY <1>1, <1>2, <1>6
  <2>2. l[i] \in Entry /\ log[i] \in Entry /\ l[i].index = i /\ log[i].index = i
    BY <1>1, <1>2, <2>1 DEF Indexed
  <2>3. l[i] = log[i]
    BY <1>6, <2>2 DEF Entry
  <2> QED
    BY <1>3, <1>4, <1>6, <2>1, <2>3
<1> QED
  BY <1>1, <1>3, <1>5, <1>6

\* An element put in front of a sequence.
LEMMA Prepended ==
  ASSUME NEW S, NEW e \in S, NEW P \in Seq(S), NEW q, q = <<e>> \o P
  PROVE  /\ q \in Seq(S) /\ Len(q) = 1 + Len(P) /\ q[1] = e
         /\ \A k \in 2..(1 + Len(P)) : q[k] = P[k - 1]
<1>1. <<e>> \in Seq(S) /\ Len(<<e>>) = 1 /\ <<e>>[1] = e /\ Len(P) \in Nat
  OBVIOUS
<1>2. q \in Seq(S) /\ Len(q) = 1 + Len(P) /\ q[1] = e
  BY <1>1
<1>3. ASSUME NEW k \in 2..(1 + Len(P))
      PROVE  q[k] = P[k - 1]
  BY <1>1
<1> QED
  BY <1>2, <1>3

\* An element put behind a sequence.
LEMMA Extended ==
  ASSUME NEW S, NEW P \in Seq(S), NEW C \in Seq(S), Len(C) = 1
  PROVE  /\ P \o C \in Seq(S) /\ Len(P \o C) = Len(P) + 1
         /\ (P \o C)[Len(P) + 1] = C[1]
         /\ \A k \in 1..Len(P) : (P \o C)[k] = P[k]
<1>1. Len(P) \in Nat
  OBVIOUS
<1>2. P \o C \in Seq(S)
  OBVIOUS
<1>3. Len(P \o C) = Len(P) + Len(C)
  BY ConcatProperties
<1>4. (P \o C)[Len(P) + 1] = C[1]
  <2>1. /\ Len(P) + 1 \in 1..(Len(P) + Len(C)) /\ ~(Len(P) + 1 <= Len(P))
        /\ Len(P) + 1 - Len(P) = 1
    BY <1>1
  <2> QED
    BY <2>1, ConcatProperties
<1>5. \A k \in 1..Len(P) : (P \o C)[k] = P[k]
  BY <1>1, ConcatProperties
<1> QED
  BY <1>1, <1>2, <1>3, <1>4, <1>5

\* From j on the log, new, is the leader's, and that is what is written; x is
\* the number of truncations.
DivergesAt(j, x, l, n, new, mw) ==
    /\ new \in Seq(Entry) /\ Len(new) = n /\ \A i \in 1..n : new[i] = l[i]
    /\ j - 1 <= Len(log) /\ \A i \in 1..(j - 1) : log[i] = l[i]
    /\ IF x = 0 THEN j = Len(log) + 1
                ELSE j <= Len(log) /\ log[j].term # l[j].term
    /\ mw \in Seq(Calls) /\ Len(mw) = x + (n - j + 1)
    /\ x = 1 => mw[1] = TruncateFrom(j)
    /\ \A k \in (x + 1)..(x + n - j + 1) : mw[k] = AppendRow(l[k - x + j - 1])

\* Nothing diverges: nothing is written, the log has the entries already.
\* Otherwise from the first that does, j, the log is the leader's.
LEMMA MergeOutcome ==
  ASSUME NodeInv, NEW t, NEW l, Leads(l, t), NEW n \in 0..Len(l), NEW prev \in 0..n,
         prev > 0 => prev <= Len(log) /\ log[prev].term = l[prev].term,
         NEW new, new = Merged(l, prev, n), NEW mw, mw = MergeWrites(l, prev, n)
  PROVE  \/ /\ mw = <<>> /\ new = log /\ n <= Len(log)
            /\ \A i \in 1..n : log[i] = l[i]
         \/ \E j \in 1..n, x \in {0, 1} : DivergesAt(j, x, l, n, new, mw)
<1>1. /\ l \in Seq(Entry) /\ Indexed(l) /\ Len(l) \in Nat
      /\ \A i \in 1..Len(log) :
           i <= Len(l) /\ log[i].term = l[i].term => \A k \in 1..i : log[k] = l[k]
  BY SharedPrefix
<1>2. log \in Seq(Entry) /\ Indexed(log) /\ Len(log) \in Nat
  BY DEF NodeInv
<1>3. n \in Nat /\ prev \in Nat /\ prev <= n /\ n <= Len(l) /\ prev <= Len(log)
  BY <1>1, <1>2
<1>4. \A k \in 1..prev : log[k] = l[k]
  BY <1>1, <1>2, <1>3
<1>5. ASSUME NEW i \in (prev + 1)..n, i \notin Diverging(l, prev, n)
      PROVE  i <= Len(log) /\ log[i] = l[i]
  <2>1. i <= Len(log) /\ log[i].term = l[i].term
    BY <1>2, <1>3, <1>5 DEF Diverging
  <2> QED
    BY <1>1, <1>2, <1>3, <2>1
<1>6. CASE Diverging(l, prev, n) = {}
  <2>1. mw = <<>> /\ new = log
    BY <1>6 DEF MergeWrites, Merged
  <2>2. \A i \in 1..n : i <= Len(log) /\ log[i] = l[i]
    BY <1>2, <1>3, <1>4, <1>5, <1>6
  <2>3. n <= Len(log)
    BY <1>2, <1>3, <2>2
  <2> QED
    BY <2>1, <2>2, <2>3
<1>7. CASE Diverging(l, prev, n) # {}
  <2>j. PICK j : j = First(Diverging(l, prev, n))
    OBVIOUS
  <2>1. /\ j \in (prev + 1)..n /\ (j > Len(log) \/ log[j].term # l[j].term)
        /\ \A i \in (prev + 1)..(j - 1) : i \notin Diverging(l, prev, n)
    <3>1. Diverging(l, prev, n) \subseteq Nat
      BY <1>3 DEF Diverging
    <3>2. j \in Diverging(l, prev, n) /\ \A i \in Diverging(l, prev, n) : j <= i
      BY <1>7, <2>j, <3>1, FirstIsLeast
    <3> QED
      BY <1>3, <3>1, <3>2 DEF Diverging
  <2>2. \A i \in 1..(j - 1) : i <= Len(log) /\ log[i] = l[i]
    BY <1>2, <1>3, <1>4, <1>5, <2>1
  <2>3. j \in Nat /\ j >= 1 /\ j <= n /\ j - 1 \in Nat /\ j - 1 <= Len(log)
    BY <1>2, <1>3, <2>1, <2>2
  <2>4. /\ new = SubSeq(log, 1, j - 1) \o SubSeq(l, j, n)
        /\ mw = (IF j <= Len(log) THEN <<TruncateFrom(log[j].index)>> ELSE <<>>)
                  \o [i \in 1..(n - j + 1) |-> AppendRow(l[j + i - 1])]
    BY <1>7, <2>j DEF Merged, MergeWrites
  <2>5. new \in Seq(Entry) /\ Len(new) = n /\ \A i \in 1..n : new[i] = l[i]
    <3>1. /\ SubSeq(log, 1, j - 1) \in Seq(Entry) /\ Len(SubSeq(log, 1, j - 1)) = j - 1
          /\ \A i \in 1..(j - 1) : SubSeq(log, 1, j - 1)[i] = log[i]
      BY <1>2, <2>3
    <3>2. /\ SubSeq(l, j, n) \in Seq(Entry) /\ Len(SubSeq(l, j, n)) = n - j + 1
          /\ \A i \in 1..(n - j + 1) : SubSeq(l, j, n)[i] = l[j + i - 1]
      BY <1>1, <1>3, <2>3
    <3>3. new \in Seq(Entry) /\ Len(new) = n
      BY <1>3, <2>3, <2>4, <3>1, <3>2
    <3>4. ASSUME NEW i \in 1..n
          PROVE  new[i] = l[i]
      <4>1. CASE i <= j - 1
        <5>1. i \in 1..(j - 1)
          BY <2>3, <4>1
        <5>2. new[i] = SubSeq(log, 1, j - 1)[i]
          BY <2>3, <2>4, <3>1, <3>2, <5>1
        <5> QED
          BY <2>2, <3>1, <5>1, <5>2
      <4>2. CASE i > j - 1
        <5>1. i - (j - 1) \in 1..(n - j + 1) /\ j + (i - (j - 1)) - 1 = i
          BY <1>3, <2>3, <4>2
        <5>2. new[i] = SubSeq(l, j, n)[i - (j - 1)]
          BY <2>3, <2>4, <3>1, <3>2, <4>2, <5>1
        <5> QED
          BY <3>2, <5>1, <5>2
      <4> QED
        BY <2>3, <4>1, <4>2
    <3> QED
      BY <3>3, <3>4
  <2>P. PICK P : P = [i \in 1..(n - j + 1) |-> AppendRow(l[j + i - 1])]
    OBVIOUS
  <2>6. /\ P \in Seq(Calls) /\ Len(P) = n - j + 1
        /\ \A i \in 1..(n - j + 1) : P[i] = AppendRow(l[j + i - 1])
    <3>1. n - j + 1 \in Nat
      BY <1>3, <2>3
    <3>2. ASSUME NEW i \in 1..(n - j + 1)
          PROVE  AppendRow(l[j + i - 1]) \in Calls
      <4>1. j + i - 1 \in 1..Len(l)
        BY <1>1, <1>3, <2>3
      <4> QED
        BY <1>1, <4>1, CallKinds
    <3> QED
      BY <2>P, <3>1, <3>2
  <2>7. CASE j <= Len(log)
    <3>1. log[j].index = j /\ TruncateFrom(j) \in Calls
      BY <1>2, <2>3, <2>7, CallKinds DEF Indexed
    <3>2. mw = <<TruncateFrom(j)>> \o P
      BY <2>4, <2>7, <2>P, <3>1
    <3>3. /\ mw \in Seq(Calls) /\ Len(mw) = 1 + (n - j + 1) /\ mw[1] = TruncateFrom(j)
          /\ \A k \in 2..(1 + (n - j + 1)) : mw[k] = P[k - 1]
      <4>1. /\ mw \in Seq(Calls) /\ Len(mw) = 1 + Len(P) /\ mw[1] = TruncateFrom(j)
            /\ \A k \in 2..(1 + Len(P)) : mw[k] = P[k - 1]
        BY <2>6, <3>1, <3>2, Prepended
      <4> QED
        BY <2>6, <4>1
    <3>4. \A k \in (1 + 1)..(1 + n - j + 1) : mw[k] = AppendRow(l[k - 1 + j - 1])
      <4> SUFFICES ASSUME NEW k \in (1 + 1)..(1 + n - j + 1)
                   PROVE  mw[k] = AppendRow(l[k - 1 + j - 1])
        OBVIOUS
      <4>1. /\ k \in 2..(1 + (n - j + 1)) /\ k - 1 \in 1..(n - j + 1)
            /\ j + (k - 1) - 1 = k - 1 + j - 1
        BY <1>3, <2>3
      <4>2. mw[k] = P[k - 1] /\ P[k - 1] = AppendRow(l[j + (k - 1) - 1])
        BY <2>6, <3>3, <4>1
      <4> QED
        BY <4>1, <4>2
    <3>5. j \in 1..n /\ log[j].term # l[j].term
      BY <1>2, <1>3, <2>1, <2>3, <2>7
    <3>6. DivergesAt(j, 1, l, n, new, mw)
      <4>1. /\ new \in Seq(Entry) /\ Len(new) = n /\ \A i \in 1..n : new[i] = l[i]
            /\ j - 1 <= Len(log) /\ \A i \in 1..(j - 1) : log[i] = l[i]
        BY <1>2, <2>2, <2>3, <2>5, <2>7
      <4> QED
        BY ONLY <2>7, <3>3, <3>4, <3>5, <4>1 DEF DivergesAt
    <3> QED
      BY <3>5, <3>6
  <2>8. CASE ~(j <= Len(log))
    <3>1. mw = P
      <4>1. mw = <<>> \o P
        BY <2>4, <2>8, <2>P
      <4> QED
        BY <2>6, <4>1
    <3>2. j = Len(log) + 1 /\ j \in 1..n
      BY <1>2, <1>3, <2>3, <2>8
    <3>3. \A k \in (0 + 1)..(0 + n - j + 1) : mw[k] = AppendRow(l[k - 0 + j - 1])
      <4> SUFFICES ASSUME NEW k \in (0 + 1)..(0 + n - j + 1)
                   PROVE  mw[k] = AppendRow(l[k - 0 + j - 1])
        OBVIOUS
      <4>1. k \in 1..(n - j + 1) /\ j + k - 1 = k - 0 + j - 1
        BY <1>3, <2>3
      <4> QED
        BY <2>6, <3>1, <4>1
    <3>4. Len(mw) = 0 + (n - j + 1)
      BY <1>3, <2>3, <2>6, <3>1
    <3>5. DivergesAt(j, 0, l, n, new, mw)
      <4>1. mw \in Seq(Calls) /\ j - 1 <= Len(log) /\ \A i \in 1..(j - 1) : log[i] = l[i]
        BY <2>2, <2>3, <2>6, <3>1
      <4> QED
        BY <2>5, <3>2, <3>3, <3>4, <4>1 DEF DivergesAt
    <3> QED
      BY <3>2, <3>5
  <2> QED
    BY <2>7, <2>8
<1> QED
  BY <1>6, <1>7

\* What an append of the leader's entries up to n makes of the log, and writes.
Merging(l, t, prev, n, new, mw) ==
  /\ Leads(l, t) /\ n \in 0..Len(l) /\ prev \in 0..n
  /\ prev > 0 => prev <= Len(log) /\ log[prev].term = l[prev].term
  /\ new = Merged(l, prev, n) /\ mw = MergeWrites(l, prev, n)

\* The log after an append: it has what was sent, and what it shared with the
\* leader before.
LEMMA MergedLog ==
  ASSUME NodeInv, NEW l, NEW t, NEW prev, NEW n, NEW new, NEW mw,
         Merging(l, t, prev, n, new, mw)
  PROVE  /\ new \in Seq(Entry) /\ Indexed(new)
         /\ n <= Len(new) /\ \A i \in 1..n : new[i] = l[i]
         /\ \A p \in Nat :
              p <= Len(log) /\ p <= Len(l) /\ (\A i \in 1..p : log[i] = l[i])
                => p <= Len(new) /\ \A i \in 1..p : new[i] = log[i]
<1>m. /\ Leads(l, t) /\ n \in 0..Len(l) /\ prev \in 0..n
      /\ prev > 0 => prev <= Len(log) /\ log[prev].term = l[prev].term
      /\ new = Merged(l, prev, n) /\ mw = MergeWrites(l, prev, n)
  BY DEF Merging
<1>1. l \in Seq(Entry) /\ Indexed(l) /\ Len(l) \in Nat
  BY <1>m, SharedPrefix
<1>2. log \in Seq(Entry) /\ Indexed(log) /\ Len(log) \in Nat
  BY DEF NodeInv
<1>3. \/ new = log /\ n <= Len(log) /\ \A i \in 1..n : log[i] = l[i]
      \/ \E j \in 1..n, x \in {0, 1} : DivergesAt(j, x, l, n, new, mw)
  BY <1>m, MergeOutcome
<1>4. CASE new = log /\ n <= Len(log) /\ \A i \in 1..n : log[i] = l[i]
  BY <1>2, <1>4
<1>5. CASE \E j \in 1..n, x \in {0, 1} : DivergesAt(j, x, l, n, new, mw)
  <2>1. PICK j \in 1..n, x \in {0, 1} : DivergesAt(j, x, l, n, new, mw)
    BY <1>5
  <2>2. /\ new \in Seq(Entry) /\ Len(new) = n /\ \A i \in 1..n : new[i] = l[i]
        /\ j <= Len(log) => log[j].term # l[j].term
    BY <1>2, <2>1 DEF DivergesAt
  <2>3. Indexed(new)
    BY <1>1, <1>m, <2>2 DEF Indexed
  <2>4. ASSUME NEW p \in Nat, p <= Len(log), p <= Len(l), \A i \in 1..p : log[i] = l[i]
        PROVE  p <= Len(new) /\ \A i \in 1..p : new[i] = log[i]
    <3>1. ~(j <= p)
      <4>1. j <= p => j \in 1..p /\ j <= Len(log)
        BY <1>2, <2>4
      <4> QED
        BY <2>2, <2>4, <4>1
    <3>2. p <= n /\ \A i \in 1..p : i \in 1..n
      BY <1>1, <1>m, <2>4, <3>1
    <3> QED
      BY <2>2, <2>4, <3>2
  <2>5. n <= Len(new)
    BY <1>1, <1>m, <2>2
  <2> QED
    BY <2>2, <2>3, <2>4, <2>5
<1> QED
  BY <1>3, <1>4, <1>5

\* The commit index behind it, or not (y = 0).
AndCommit(mw, c, y, w) ==
  /\ c \in Nat /\ y \in {0, 1}
  /\ w = IF y = 1 THEN AppendWrites(mw, <<SetCommit(c)>>) ELSE mw

\* Either way what is written fits on the disk and leads to the new log.
LEMMA MergeQueue ==
  ASSUME NodeInv, NEW l, NEW t, NEW prev, NEW n, NEW new, NEW mw,
         Merging(l, t, prev, n, new, mw), NEW v, NEW c, NEW y, NEW w,
         AndCommit(mw, c, y, w)
  PROVE  /\ Writes(w, t, v, new, c, log, commit_index)
         /\ new # log => InQueue(w, "append_entry")
         /\ y = 1 => InQueue(w, "set_commit_index")
<1>m. /\ Leads(l, t) /\ n \in 0..Len(l) /\ prev \in 0..n
      /\ prev > 0 => prev <= Len(log) /\ log[prev].term = l[prev].term
      /\ new = Merged(l, prev, n) /\ mw = MergeWrites(l, prev, n)
  BY DEF Merging
<1>a. c \in Nat /\ y \in {0, 1} /\ w = IF y = 1 THEN AppendWrites(mw, <<SetCommit(c)>>) ELSE mw
  BY DEF AndCommit
<1>1. l \in Seq(Entry) /\ Indexed(l) /\ Len(l) \in Nat
  BY <1>m, SharedPrefix
<1>2. /\ log \in Seq(Entry) /\ Len(log) \in Nat /\ commit_index \in Nat
      /\ commit_index <= Len(log)
  BY DEF NodeInv
<1>3. new \in Seq(Entry) /\ Indexed(new)
  BY MergedLog
<1>4. SetCommit(c) \in Calls /\ SetCommit(c).op = "set_commit_index" /\ SetCommit(c).arg = c
  BY <1>a, CallKinds
<1>C. PICK C : C = <<SetCommit(c)>>
  OBVIOUS
<1>5. C \in Seq(Calls) /\ Len(C) = 1 /\ C[1] = SetCommit(c)
  BY <1>4, <1>C
<1>6. w = IF y = 1 THEN mw \o C ELSE mw
  BY <1>a, <1>C DEF AppendWrites
<1>7. CASE mw = <<>> /\ new = log
  <2>1. CASE y = 1
    <3>1. w = C
      <4>1. w = <<>> \o C
        BY <1>6, <1>7, <2>1
      <4> QED
        BY <1>5, <4>1
    <3>2. w \in Seq(Calls) /\ Len(w) = 1 /\ w[1].op = "set_commit_index" /\ w[1].arg = c
      BY <1>4, <1>5, <3>1
    <3>3. /\ Writes(w, t, v, new, c, log, commit_index)
          /\ \A op : InQueue(w, op) <=> w[1].op = op
      BY <3>2, OneCall
    <3> QED
      BY <1>7, <3>2, <3>3
  <2>2. CASE y = 0
    <3>1. w = <<>>
      BY <1>6, <1>7, <2>2
    <3> QED
      BY <1>7, <2>2, <3>1, NoQueue
  <2> QED
    BY <1>a, <2>1, <2>2
<1>8. CASE \E j \in 1..n, x \in {0, 1} : DivergesAt(j, x, l, n, new, mw)
  <2>1. PICK j \in 1..n, x \in {0, 1} : DivergesAt(j, x, l, n, new, mw)
    BY <1>8
  <2>2. /\ Len(new) = n /\ \A i \in 1..n : new[i] = l[i]
        /\ j - 1 <= Len(log) /\ \A i \in 1..(j - 1) : log[i] = l[i]
        /\ IF x = 0 THEN j = Len(log) + 1
                    ELSE j <= Len(log) /\ log[j].term # l[j].term
        /\ mw \in Seq(Calls) /\ Len(mw) = x + (n - j + 1)
        /\ x = 1 => mw[1] = TruncateFrom(j)
        /\ \A k \in (x + 1)..(x + n - j + 1) : mw[k] = AppendRow(l[k - x + j - 1])
    BY <2>1 DEF DivergesAt
  <2>3. /\ n \in Nat /\ j \in Nat \ {0} /\ j <= n /\ x \in Nat /\ x <= 1
        /\ y \in Nat /\ y <= 1
    BY <1>1, <1>m, <1>a
  <2>4. /\ w \in Seq(Calls) /\ Len(w) = Len(mw) + y /\ Len(mw) \in Nat
        /\ \A k \in 1..Len(mw) : w[k] = mw[k]
        /\ y = 1 => w[Len(w)] = SetCommit(c)
    <3>1. CASE y = 1
      <4>1. w = mw \o C /\ mw \in Seq(Calls)
        BY <1>6, <2>2, <3>1
      <4>2. /\ mw \o C \in Seq(Calls) /\ Len(mw \o C) = Len(mw) + 1
            /\ (mw \o C)[Len(mw) + 1] = C[1]
            /\ \A k \in 1..Len(mw) : (mw \o C)[k] = mw[k]
        BY <1>5, <4>1, Extended
      <4>3. Len(mw) \in Nat
        BY <4>1
      <4> QED
        BY <1>5, <3>1, <4>1, <4>2, <4>3
    <3>2. CASE y = 0
      BY <1>6, <2>2, <3>2
    <3> QED
      BY <1>a, <3>1, <3>2
  <2>5. Len(mw) = x + n - j + 1 /\ Len(w) = x + (Len(new) - j + 1) + y /\ x <= Len(mw)
    BY <2>2, <2>3, <2>4
  <2>6. \A i \in 1..(j - 1) : log[i] = new[i]
    <3>1. \A i \in 1..(j - 1) : i \in 1..n
      BY ONLY <2>3
    <3> QED
      BY ONLY <2>2, <3>1
  <2>7. IF x = 0 THEN j = Len(log) + 1
                 ELSE j <= Len(log) /\ log[j].term # new[j].term /\ j > commit_index
    <3>1. CASE x = 0
      BY <2>2, <3>1
    <3>2. CASE x # 0
      <4>1. j <= Len(log) /\ log[j].term # l[j].term /\ new[j] = l[j]
        BY <2>2, <2>3, <3>2
      <4>2. \A k \in 1..commit_index : log[k] = l[k]
        BY <1>m, SharedPrefix
      <4>3. j > commit_index
        BY <1>2, <2>3, <4>1, <4>2
      <4> QED
        BY <3>2, <4>1, <4>3
    <3> QED
      BY <3>1, <3>2
  <2>8. x = 1 => w[1].op = "truncate_from" /\ w[1].arg = j
    <3>1. x = 1 => w[1] = TruncateFrom(j)
      <4>1. x = 1 => 1 \in 1..Len(mw)
        BY ONLY <2>4, <2>5
      <4> QED
        BY ONLY <2>2, <2>4, <4>1
    <3> QED
      BY <2>3, <3>1, CallKinds
  <2>9. ASSUME NEW k \in (x + 1)..(x + Len(new) - j + 1)
        PROVE  w[k].op = "append_entry" /\ w[k].arg = new[k - x + j - 1]
    <3>1. /\ k \in (x + 1)..(x + n - j + 1) /\ k \in 1..Len(mw)
          /\ k - x + j - 1 \in 1..n /\ k - x + j - 1 \in 1..Len(l)
      <4>1. Len(new) = n /\ n <= Len(l) /\ Len(l) \in Nat
        BY <1>1, <1>m, <2>2
      <4> QED
        BY ONLY <2>3, <2>5, <2>9, <4>1
    <3>2. w[k] = AppendRow(l[k - x + j - 1])
      BY <2>2, <2>4, <3>1
    <3>3. l[k - x + j - 1] \in Entry /\ new[k - x + j - 1] = l[k - x + j - 1]
      <4>1. l[k - x + j - 1] \in Entry
        BY ONLY <1>1, <3>1
      <4>2. new[k - x + j - 1] = l[k - x + j - 1]
        BY ONLY <2>2, <3>1
      <4> QED
        BY <4>1, <4>2
    <3> QED
      BY <3>2, <3>3, CallKinds
  <2>10. y = 1 => w[Len(w)].op = "set_commit_index" /\ w[Len(w)].arg = c
    BY <1>4, <2>4
  <2>11. j <= Len(new)
    BY <2>2, <2>3
  <2> QED
    <3>1. j - 1 <= Len(log) /\ w \in Seq(Calls)
      BY <2>2, <2>4
    <3>2. IsLogQueue(w, x, j, y, new, c, log, commit_index)
      BY ONLY <1>2, <1>3, <2>1, <2>3, <2>5, <2>6, <2>7, <2>8, <2>9, <2>10, <2>11, <3>1
         DEF IsLogQueue
    <3> QED
      BY <3>2, LogQueue
<1> QED
  BY <1>7, <1>8, <1>m, MergeOutcome

\* Entries are appended: the queue takes the disk from the old log to the new
\* one, and leaves alone what is committed.
LEMMA EntriesAreAppended ==
  ASSUME StoreInv, NEW t \in DOMAIN LeaderLog, NEW n \in 0..Len(LeaderLog[t]),
         NEW prev \in 0..n, NEW lc \in 0..n, HandleAppendEntries(t, prev, n, lc)
  PROVE  StoreInv' /\ FileKeepsCommitted /\ HandlerStep
<1>l. PICK l : l = LeaderLog[t]
  OBVIOUS
<1>n. PICK new : new = Merged(l, prev, n)
  OBVIOUS
<1>k. PICK mw : mw = MergeWrites(l, prev, n)
  OBVIOUS
<1>a. PICK ack : ack = [type |-> "ack", term |-> t, log |-> SubSeq(new, 1, n)]
  OBVIOUS
<1>c. PICK c : c = commit_index'
  OBVIOUS
<1>1. /\ t >= current_term /\ Possible(t) /\ log' = new
      /\ prev > 0 => prev <= Len(log) /\ log[prev].term = l[prev].term
      /\ \/ /\ lc > commit_index
            /\ c = IF lc <= LastIndex(new) THEN lc ELSE LastIndex(new)
            /\ Handle(Adopting(t) \o AppendWrites(mw, <<SetCommit(c)>>), {ack})
         \/ /\ lc <= commit_index /\ c = commit_index
            /\ Handle(Adopting(t) \o mw, {ack})
      /\ current_term' = t /\ voted_for' = VoteAfter(t) /\ role' = "Follower"
  BY <1>l, <1>n, <1>k, <1>a, <1>c DEF HandleAppendEntries
<1>2. /\ NodeInv /\ t \in 1..MaxTerm /\ t \in Nat /\ current_term \in Nat
      /\ log \in Seq(Entry) /\ Indexed(log) /\ Len(log) \in Nat
      /\ commit_index \in Nat /\ commit_index <= Len(log)
  BY LeaderLogAssumption, StoreBounds DEF StoreInv, NodeInv
<1>3. Leads(l, t) /\ n \in 0..Len(l)
  BY <1>l, <1>1 DEF Leads
<1>m. Merging(l, t, prev, n, new, mw)
  BY <1>1, <1>3, <1>n, <1>k DEF Merging
<1>4. /\ l \in Seq(Entry) /\ Indexed(l) /\ Len(l) \in Nat
      /\ commit_index <= Len(l) /\ \A k \in 1..commit_index : log[k] = l[k]
  BY <1>2, <1>3, SharedPrefix
<1>5. /\ new \in Seq(Entry) /\ Indexed(new)
      /\ n <= Len(new) /\ \A i \in 1..n : new[i] = l[i]
      /\ \A p \in Nat :
           p <= Len(log) /\ p <= Len(l) /\ (\A i \in 1..p : log[i] = l[i])
             => p <= Len(new) /\ \A i \in 1..p : new[i] = log[i]
  <2>1. NodeInv
    BY <1>2
  <2> QED
    BY ONLY <1>m, <2>1, MergedLog
<1>6. /\ commit_index <= Len(new) /\ \A i \in 1..commit_index : new[i] = log[i]
      /\ Len(new) \in Nat /\ LastIndex(new) = Len(new)
  BY <1>2, <1>4, <1>5, LastIndexIsLength
<1>7. c \in Nat /\ c <= Len(new) /\ c >= commit_index
  BY <1>1, <1>2, <1>6
<1>8. NodeInv'
  <2>1. t \in 0..MaxTerm /\ voted_for' \in Candidate \cup {Nil}
    BY <1>1, <1>2, StoreBounds DEF VoteAfter, NodeInv
  <2>2. UNCHANGED poisoned
    BY <1>1 DEF Handle
  <2>3. commit_index' \in 0..Len(new)
    BY <1>c, <1>6, <1>7
  <2> QED
    BY <1>1, <1>2, <1>5, <2>1, <2>2, <2>3 DEF NodeInv
<1>9. ASSUME NEW m, current_term' = current_term, m.term = current_term, Ack(m), Held(m)
      PROVE  Held(m)'
  <2>1. /\ m.log \in Seq(Entry) /\ Len(m.log) <= Len(l)
        /\ \A i \in 1..Len(m.log) : m.log[i] = l[i]
    BY <1>l, <1>1, <1>9 DEF Ack
  <2>2. Len(m.log) \in Nat
    BY <2>1
  <2>3. \A i \in 1..Len(m.log) : i <= Len(log) /\ log[i] = m.log[i]
    BY <1>9 DEF Held
  <2>4. Len(m.log) <= Len(log)
    BY <1>2, <2>2, <2>3
  <2>5. Len(m.log) <= Len(new) /\ \A i \in 1..Len(m.log) : new[i] = log[i]
    BY <1>5, <2>1, <2>2, <2>3, <2>4
  <2>6. \A i \in 1..Len(m.log) : i <= Len(new) /\ new[i] = m.log[i]
    BY <1>6, <2>2, <2>3, <2>5
  <2> QED
    BY <1>1, <2>6 DEF Held
<1>10. /\ Ack(ack) /\ ack.term = t /\ ack.type # "vote" /\ Held(ack)'
  <2>1. /\ SubSeq(new, 1, n) \in Seq(Entry) /\ Len(SubSeq(new, 1, n)) = n
        /\ \A i \in 1..n : SubSeq(new, 1, n)[i] = new[i]
    BY <1>4, <1>5, <1>6
  <2>2. /\ ack.type = "ack" /\ ack.term = t /\ ack.log \in Seq(Entry) /\ Len(ack.log) = n
        /\ \A i \in 1..n : ack.log[i] = new[i]
    BY <1>a, <2>1
  <2>3. Ack(ack)
    BY <1>l, <1>4, <1>5, <2>2 DEF Ack
  <2>4. \A i \in 1..n : i <= Len(new)
    BY <1>4, <1>5, <1>6
  <2>5. Held(ack)'
    BY <1>1, <2>2, <2>4 DEF Held
  <2> QED
    BY <2>2, <2>3, <2>5
<1>y. PICK y \in {0, 1} : y = IF lc > commit_index THEN 1 ELSE 0
  OBVIOUS
<1>w. PICK w : w = IF y = 1 THEN AppendWrites(mw, <<SetCommit(c)>>) ELSE mw
  OBVIOUS
<1>q. PICK q : q = Adopting(t) \o w
  OBVIOUS
<1>11. Handle(q, {ack})
  <2>1. lc \in Nat
    BY <1>4
  <2>2. CASE lc > commit_index
    BY <1>1, <1>2, <1>y, <1>w, <1>q, <2>1, <2>2
  <2>3. CASE ~(lc > commit_index)
    BY <1>1, <1>2, <1>y, <1>w, <1>q, <2>1, <2>3
  <2> QED
    BY <2>2, <2>3
<1>12. NodeKeepsWord'
  <2>1. current_term' = current_term => voted_for \in {Nil, voted_for'}
    BY <1>1, <1>2 DEF VoteAfter
  <2>2. current_term' \in Nat /\ current_term' >= current_term
    BY <1>1, <1>2
  <2>3. \A m \in {ack} :
          /\ Vote(m) \/ Ack(m)
          /\ m.term = current_term'
          /\ IF m.type = "vote" THEN voted_for' = m.to ELSE Held(m)'
    BY <1>1, <1>10
  <2> QED
    BY <1>9, <1>11, <2>1, <2>2, <2>3, WordIsKept
<1>v. PICK v : v = voted_for'
  OBVIOUS
<1>13. /\ Writes(w, t, v, new, c, log, commit_index)
       /\ new # log => InQueue(w, "append_entry")
       /\ y = 1 => InQueue(w, "set_commit_index")
  <2>1. NodeInv /\ AndCommit(mw, c, y, w)
    BY <1>2, <1>7, <1>y, <1>w DEF AndCommit
  <2> QED
    BY ONLY <1>m, <2>1, MergeQueue
<1>14. /\ InOrder(q) /\ LeadsTo(q, t, v, new, c)
       /\ Fits(q, log, new, commit_index)
       /\ IF t > current_term
          THEN InQueue(q, "set_current_term")
          ELSE /\ t = current_term
               /\ ~InQueue(q, "set_current_term") /\ ~InQueue(q, "delete_voted_for")
       /\ \A op : InQueue(w, op) => InQueue(q, op)
  <2>1. /\ NodeInv /\ t \in Nat /\ t >= current_term /\ v = VoteAfter(t)
    BY <1>1, <1>2, <1>v
  <2> QED
    BY ONLY <1>13, <1>q, <2>1, Adopts
<1>15. WritesChanges(q)
  <2>1. voted_for' = IF t > current_term THEN Nil ELSE voted_for
    BY <1>1 DEF VoteAfter
  <2>2. ~InQueue(q, "set_commit_index") => c = commit_index
    BY <1>1, <1>y, <1>13, <1>14
  <2> QED
    BY <1>1, <1>c, <1>v, <1>13, <1>14, <2>1, <2>2 DEF WritesChanges
<1>16. HandlerStep
  <2>1. SameTo(log', log, commit_index)
    BY <1>1, <1>2, <1>6 DEF SameTo
  <2> QED
    BY <1>1, <1>2, <1>c, <1>7, <2>1 DEF HandlerStep, VoteAfter
<1>17. LeadsTo(q, current_term', voted_for', log', commit_index')
       /\ Fits(q, log, log', commit_index)
  BY <1>1, <1>c, <1>v, <1>14
<1> QED
  BY <1>8, <1>11, <1>12, <1>14, <1>15, <1>16, <1>17, HandlerStarts

(***************************************************************************)
(* A write fails, the outbox is taken, the process dies.                   *)
(***************************************************************************)
\* A write that fails leaves the disk as the writes before it left it.
LEMMA WriteIsLost ==
  ASSUME StoreInv, WriteFails
  PROVE  StoreInv' /\ FileKeepsCommitted
<1>1. /\ writes # <<>> /\ writes' = <<>> /\ poisoned' = TRUE
      /\ UNCHANGED <<node, outbox, disk, sent, start, crashes>>
  BY DEF WriteFails
<1>2. /\ DiskInv' /\ FileKeepsCommitted
      /\ LoadedTerm' = LoadedTerm /\ LoadedVote' = LoadedVote
      /\ LoadedCommit' = LoadedCommit
  BY <1>1, DiskStays DEF StoreInv
<1>3. NodeInv'
  BY <1>1 DEF StoreInv, NodeInv, Indexed, node
<1>4. NodeKeepsWord'
  BY <1>1 DEF StoreInv, NodeKeepsWord, Held, node
<1>5. DiskKeepsWord'
  BY <1>1, <1>2 DEF StoreInv, DiskKeepsWord, Stored, disk
<1>6. QueueInv'
  BY <1>1 DEF QueueInv, InOrder, LeadsTo, LogCallsFit, NewTermIsSilent, Pending
<1>7. UnfinishedInv'
  <2>1. FoundType /\ DiskIsBetween
    BY <1>1 DEF StoreInv, UnfinishedInv, Unfinished
  <2>2. FoundType' /\ DiskIsBetween'
    BY <1>1, <1>2, <2>1 DEF FoundType, DiskIsBetween, RowsAgree, Indexed, disk
  <2> QED
    BY <1>1, <2>2 DEF UnfinishedInv
<1> QED
  BY <1>2, <1>3, <1>4, <1>5, <1>6, <1>7 DEF StoreInv

\* What leaves the process is on disk by then.
LEMMA OutboxIsTaken ==
  ASSUME StoreInv, TakeOutbox
  PROVE  StoreInv' /\ FileKeepsCommitted
<1>1. /\ writes = <<>> /\ ~poisoned
      /\ sent' = sent \cup outbox /\ outbox' = {}
      /\ UNCHANGED <<node, disk, writes, poisoned, start, crashes>>
  BY DEF TakeOutbox
<1>2. /\ DiskInv' /\ FileKeepsCommitted
      /\ LoadedTerm' = LoadedTerm /\ LoadedVote' = LoadedVote
      /\ LoadedCommit' = LoadedCommit
  BY <1>1, DiskStays DEF StoreInv
<1>3. NodeInv'
  BY <1>1 DEF StoreInv, NodeInv, Indexed, node
<1>4. NodeKeepsWord'
  BY <1>1 DEF StoreInv, NodeKeepsWord, Held, node
<1>5. DiskKeepsWord'
  <2>1. /\ LoadedTerm = current_term
        /\ voted_for # Nil => LoadedVote = voted_for
        /\ RowsAre(log)
    BY <1>1, AtRest
  <2> SUFFICES ASSUME NEW m \in outbox \cup sent
               PROVE  /\ m.term <= LoadedTerm
                      /\ m.term = LoadedTerm =>
                           IF m.type = "vote" THEN LoadedVote = m.to ELSE Stored(m)
    BY <1>1, <1>2 DEF DiskKeepsWord, Stored, disk
  <2>2. /\ Vote(m) \/ Ack(m)
        /\ m.term <= current_term
        /\ m.term = current_term =>
             IF m.type = "vote" THEN voted_for = m.to ELSE Held(m)
    BY DEF StoreInv, NodeKeepsWord
  <2>3. m.type = "vote" => m.to # Nil
    BY <2>2, CandidateAssumption DEF Vote, Ack
  <2>4. Held(m) => Stored(m)
    BY <2>1 DEF Held, Stored, RowsAre, RowsTo, RowsAgree
  <2> QED
    BY <2>1, <2>2, <2>3, <2>4
<1>6. QueueInv'
  <2>1. QueueInv
    BY DEF StoreInv
  <2>2. DiskHoldsRest'
    BY <1>1, <1>2, <2>1
       DEF QueueInv, DiskHoldsRest, Pending, RowsAre, RowsTo, RowsAgree, node, disk
  <2> QED
    BY <1>1, <2>2 DEF QueueInv, InOrder, LeadsTo, LogCallsFit, NewTermIsSilent, Pending
<1>7. UnfinishedInv'
  BY <1>1 DEF UnfinishedInv, Unfinished
<1> QED
  BY <1>2, <1>3, <1>4, <1>5, <1>6, <1>7 DEF StoreInv

\* The node that starts holds what the disk holds, and so keeps every word
\* that has left the process.
LEMMA NodeIsLoaded ==
  ASSUME StoreInv, Crash
  PROVE  StoreInv' /\ FileKeepsCommitted
<1>1. /\ current_term' = LoadedTerm /\ voted_for' = LoadedVote
      /\ log' = LoadedLog /\ commit_index' = LoadedCommit
      /\ role' = "Follower"
      /\ outbox' = {} /\ writes' = <<>> /\ poisoned' = FALSE
      /\ UNCHANGED <<disk, sent>>
  BY DEF Crash, RecoveredVote
<1>2. /\ DiskInv' /\ FileKeepsCommitted
      /\ LoadedTerm' = LoadedTerm /\ LoadedVote' = LoadedVote
      /\ LoadedCommit' = LoadedCommit
  BY <1>1, DiskStays DEF StoreInv
<1>3. PICK n \in Nat : RowsTo(n) /\ LoadedCommit \in 0..n
  BY DEF StoreInv, DiskInv
<1>4. /\ log' \in Seq(Entry) /\ Len(log') = n
      /\ \A k \in 1..n : log'[k] = [index |-> k, term |-> raft_log[k]]
  BY <1>1, <1>3, LoadedRows DEF StoreInv, DiskInv
<1>5. NodeInv'
  <2>1. Indexed(log')
    BY <1>4 DEF Indexed
  <2>2. LoadedTerm \in 0..MaxTerm /\ LoadedVote \in Candidate \cup {Nil}
    BY DEF StoreInv, DiskInv
  <2> QED
    BY <1>1, <1>3, <1>4, <2>1, <2>2 DEF NodeInv
<1>6. NodeKeepsWord'
  <2> SUFFICES ASSUME NEW m \in sent
               PROVE  /\ Vote(m) \/ Ack(m)
                      /\ m.term <= LoadedTerm
                      /\ m.term = LoadedTerm =>
                           IF m.type = "vote" THEN LoadedVote = m.to ELSE Held(m)'
    BY <1>1 DEF NodeKeepsWord
  <2>1. /\ Vote(m) \/ Ack(m)
        /\ m.term <= LoadedTerm
        /\ m.term = LoadedTerm =>
             IF m.type = "vote" THEN LoadedVote = m.to ELSE Stored(m)
    BY DEF StoreInv, NodeKeepsWord, DiskKeepsWord
  <2>2. ASSUME Ack(m), Stored(m)
        PROVE  Held(m)'
    <3>1. ASSUME NEW i \in 1..Len(m.log)
          PROVE  i <= Len(log') /\ log'[i] = m.log[i]
      <4>1. i \in 1..n /\ raft_log[i] = m.log[i].term
        BY <1>3, <2>2 DEF Stored, RowsTo
      <4>2. m.log[i] \in Entry /\ m.log[i].index = i
        BY <2>2, LeaderLogAssumption DEF Ack
      <4>3. m.log[i] = [index |-> i, term |-> raft_log[i]]
        BY <4>1, <4>2 DEF Entry
      <4> QED
        BY <1>4, <4>1, <4>3
    <3> QED
      BY <3>1 DEF Held
  <2> QED
    BY <2>1, <2>2 DEF Vote
<1>7. DiskKeepsWord'
  BY <1>1, <1>2 DEF StoreInv, DiskKeepsWord, Stored, disk
<1>8. QueueInv'
  <2>1. RowsAre(log)'
    <3>1. raft_log' = raft_log /\ n \in Nat
      BY <1>1 DEF disk
    <3> QED
      BY <1>3, <1>4, <3>1 DEF RowsAre, RowsTo, RowsAgree
  <2>2. DiskHoldsRest'
    BY <1>1, <1>2, <2>1 DEF DiskHoldsRest
  <2> QED
    BY <1>1, <2>2 DEF QueueInv, InOrder, LeadsTo, LogCallsFit, NewTermIsSilent, Pending
<1>9. UnfinishedInv'
  BY <1>1 DEF UnfinishedInv, Unfinished
<1> QED
  BY <1>2, <1>5, <1>6, <1>7, <1>8, <1>9 DEF StoreInv

\* A new store is empty, and so is the node.
LEMMA StoreStarts == Init => StoreInv
<1> SUFFICES ASSUME Init
             PROVE  StoreInv
  OBVIOUS
<1>1. /\ current_term = 0 /\ voted_for = Nil /\ log = <<>> /\ commit_index = 0
      /\ role = "Follower" /\ outbox = {} /\ sent = {} /\ writes = <<>> /\ poisoned = FALSE
      /\ DOMAIN raft_meta = {} /\ raft_log = [i \in {} |-> 0]
  BY DEF Init
<1>2. LoadedTerm = 0 /\ LoadedVote = Nil /\ LoadedCommit = 0
  BY <1>1 DEF LoadedTerm, LoadedVote, LoadedCommit, LoadMeta
<1>3. NodeInv
  <2>1. log \in Seq(Entry) /\ Len(log) = 0 /\ current_term \in 0..MaxTerm
    BY <1>1, StoreBounds
  <2>2. Indexed(log) /\ commit_index \in 0..Len(log)
    BY <1>1, <2>1 DEF Indexed
  <2> QED
    BY <1>1, <2>1, <2>2 DEF NodeInv
<1>4. RowsTo(0) /\ raft_log \in [DOMAIN raft_log -> Nat]
  BY <1>1 DEF RowsTo
<1>5. DiskInv
  BY <1>1, <1>2, <1>4, StoreBounds DEF DiskInv
<1>6. RowsAre(log)
  BY <1>1, <1>4 DEF RowsAre, RowsAgree
<1>7. QueueInv
  BY <1>1, <1>2, <1>6
     DEF QueueInv, InOrder, LeadsTo, LogCallsFit, DiskHoldsRest, NewTermIsSilent, Pending
<1> QED
  BY <1>1, <1>3, <1>5, <1>7
     DEF StoreInv, NodeKeepsWord, DiskKeepsWord, UnfinishedInv, Unfinished

(***************************************************************************)
(* The steps together.                                                     *)
(***************************************************************************)
\* A handler keeps the invariant, and is one step of what it changes.
LEMMA HandlerKeeps ==
  ASSUME StoreInv, Step
  PROVE  StoreInv' /\ FileKeepsCommitted /\ HandlerStep
<1>1. ASSUME NEW t \in 1..MaxTerm, HearTerm(t)
      PROVE  StoreInv' /\ FileKeepsCommitted /\ HandlerStep
  BY <1>1, TermIsHeard
<1>2. ASSUME NEW t \in 1..MaxTerm, NEW c \in Others, GrantVote(t, c)
      PROVE  StoreInv' /\ FileKeepsCommitted /\ HandlerStep
  BY <1>2, VoteIsGiven
<1>3. ASSUME NEW t \in DOMAIN LeaderLog, NEW n \in 0..Len(LeaderLog[t]), RefuseEntries(t, n)
      PROVE  StoreInv' /\ FileKeepsCommitted /\ HandlerStep
  BY <1>3, EntriesAreRefused
<1>4. ASSUME NEW t \in DOMAIN LeaderLog, NEW n \in 0..Len(LeaderLog[t]),
             NEW prev \in 0..n, NEW lc \in 0..n, HandleAppendEntries(t, prev, n, lc)
      PROVE  StoreInv' /\ FileKeepsCommitted /\ HandlerStep
  BY <1>4, EntriesAreAppended
<1>5. CASE BecomeCandidate
  BY <1>5, CandidateWritesBoth
<1>6. CASE BecomeLeader
  BY <1>6, NothingIsWritten DEF BecomeLeader
<1>7. CASE AppendLocalEntry
  BY <1>7, EntryIsAppended
<1>8. CASE LeaderCommits
  BY <1>8, CommitIsWritten
<1> QED
  BY <1>1, <1>2, <1>3, <1>4, <1>5, <1>6, <1>7, <1>8 DEF Step

\* A write that returns keeps the invariant.
LEMMA WriteKeeps ==
  ASSUME StoreInv, Write
  PROVE  StoreInv' /\ FileKeepsCommitted
<1>1. CASE set_current_term
  BY <1>1, TermIsStored
<1>2. CASE set_voted_for
  <2>1. Head(writes).op \in {"set_voted_for", "delete_voted_for"}
    BY <1>2 DEF set_voted_for, Call
  <2>2. CASE Head(writes).op = "set_voted_for"
    BY <1>2, <2>2, VoteIsStored
  <2>3. CASE Head(writes).op = "delete_voted_for"
    BY <1>2, <2>3, VoteIsDeleted
  <2> QED
    BY <2>1, <2>2, <2>3
<1>3. CASE DeleteVoteFails
  BY <1>3, VoteIsDeleted
<1>4. CASE append_entry
  BY <1>4, RowIsWritten
<1>5. CASE truncate_from
  BY <1>5, RowsAreDeleted
<1>6. CASE set_commit_index
  BY <1>6, CommitIsStored
<1>7. CASE WriteFails
  BY <1>7, WriteIsLost
<1> QED
  BY <1>1, <1>2, <1>3, <1>4, <1>5, <1>6, <1>7 DEF Write

\* Every step keeps the invariant, and what the file says is committed.
LEMMA StoreStep ==
  ASSUME StoreInv, [Next]_vars
  PROVE  StoreInv' /\ (FileKeepsCommitted \/ UNCHANGED vars)
<1>1. CASE Step
  BY <1>1, HandlerKeeps
<1>2. CASE Write
  BY <1>2, WriteKeeps
<1>3. CASE TakeOutbox
  BY <1>3, OutboxIsTaken
<1>4. CASE Crash
  BY <1>4, NodeIsLoaded
<1>5. CASE UNCHANGED vars
  <2> USE <1>5 DEF vars, node, disk
  <2>1. NodeInv'
    BY DEF StoreInv, NodeInv, Indexed
  <2>2. DiskInv'
    BY DEF StoreInv, DiskInv, RowsTo, LoadedTerm, LoadedVote, LoadedCommit, LoadMeta
  <2>3. NodeKeepsWord' /\ DiskKeepsWord'
    BY DEF StoreInv, NodeKeepsWord, DiskKeepsWord, Held, Stored, LoadedTerm, LoadedVote, LoadMeta
  <2>4. QueueInv'
    BY DEF StoreInv, QueueInv, InOrder, LeadsTo, LogCallsFit, DiskHoldsRest, NewTermIsSilent,
           Pending, RowsTo, RowsAgree, RowsAre, LoadedTerm, LoadedVote, LoadedCommit, LoadMeta
  <2>5. UnfinishedInv'
    BY DEF StoreInv, UnfinishedInv, Unfinished, FoundType, DiskIsBetween, HandlerIsOneStep,
           SameTo, Indexed, RowsAgree, LoadedTerm, LoadedVote, LoadedCommit, LoadMeta
  <2> QED
    BY <2>1, <2>2, <2>3, <2>4, <2>5 DEF StoreInv
<1> QED
  BY <1>1, <1>2, <1>3, <1>4, <1>5 DEF Next

\* The inductive invariant, of the node, of its disk at any point between
\* two writes, and of the writes to come.
THEOREM StoreInvariant == Spec => []StoreInv
<1>1. StoreInv /\ [Next]_vars => StoreInv'
  BY StoreStep
<1> QED
  BY <1>1, StoreStarts, PTL DEF Spec

(***************************************************************************)
(* What the runs check.                                                    *)
(***************************************************************************)
\* What a crash leaves loads as a node of the right shape.
THEOREM StoreTypeCorrect == Spec => []StoreTypeOK
<1>1. StoreInv => StoreTypeOK
  BY DEF StoreInv, NodeInv, DiskInv, StoreTypeOK
<1> QED
  BY <1>1, StoreInvariant, PTL

\* truncate_from and append_entry, one row at a time, never leave a gap.
THEOREM NoGap == Spec => []RowsHaveNoGap
<1>1. StoreInv => RowsHaveNoGap
  <2> SUFFICES ASSUME StoreInv
               PROVE  RowsHaveNoGap
    OBVIOUS
  <2>1. PICK n \in Nat : RowsTo(n)
    BY DEF StoreInv, DiskInv
  <2>2. Cardinality(DOMAIN raft_log) = n
    BY <2>1, LoadedRows DEF StoreInv, DiskInv
  <2> QED
    BY <2>1, <2>2 DEF RowsHaveNoGap, RowsTo
<1> QED
  BY <1>1, StoreInvariant, PTL

\* When a handler is done, all it changed has been written.
THEOREM FileHolds == Spec => []FileHoldsNode
<1>1. StoreInv => FileHoldsNode
  <2> SUFFICES ASSUME StoreInv, writes = <<>>, ~poisoned
               PROVE  /\ LoadedTerm = current_term /\ LoadedLog = log
                      /\ LoadedCommit = commit_index
                      /\ voted_for # Nil => LoadedVote = voted_for
    BY DEF FileHoldsNode
  <2>1. /\ LoadedTerm = current_term /\ LoadedCommit = commit_index
        /\ voted_for # Nil => LoadedVote = voted_for
        /\ RowsAre(log)
    BY AtRest
  <2>2. LoadedLog = log
    BY <2>1, LoadedIs DEF StoreInv, NodeInv, DiskInv
  <2> QED
    BY <2>1, <2>2
<1> QED
  BY <1>1, StoreInvariant, PTL

\* A vote that has left the process is found again by every restart.
THEOREM VotesSurvive == Spec => []ToldVotesSurvive
<1>1. StoreInv => ToldVotesSurvive
  <2> SUFFICES ASSUME StoreInv, NEW m \in sent, m.type = "vote"
               PROVE  \/ LoadedTerm > m.term
                      \/ LoadedTerm = m.term /\ LoadedVote = m.to
    BY DEF ToldVotesSurvive
  <2>1. /\ m.term <= LoadedTerm
        /\ m.term = LoadedTerm => LoadedVote = m.to
    BY DEF StoreInv, DiskKeepsWord
  <2>2. m.term \in Nat
    BY DEF StoreInv, NodeKeepsWord, Vote, Ack
  <2>3. LoadedTerm \in Nat
    BY StoreBounds DEF StoreInv, DiskInv
  <2> QED
    BY <2>1, <2>2, <2>3
<1> QED
  BY <1>1, StoreInvariant, PTL

\* So is every entry that was acknowledged to a leader, for its term.
THEOREM AcksSurvive == Spec => []AckedEntriesSurvive
<1>1. StoreInv => AckedEntriesSurvive
  <2> SUFFICES ASSUME StoreInv, NEW m \in sent, m.type = "ack"
               PROVE  \/ LoadedTerm > m.term
                      \/ /\ LoadedTerm = m.term /\ Len(m.log) <= Len(LoadedLog)
                         /\ m.log = SubSeq(LoadedLog, 1, Len(m.log))
    BY DEF AckedEntriesSurvive
  <2>1. m.term <= LoadedTerm /\ (m.term = LoadedTerm => Stored(m))
    BY DEF StoreInv, DiskKeepsWord
  <2>2. Ack(m)
    BY DEF StoreInv, NodeKeepsWord, Vote
  <2>3. m.term \in Nat /\ LoadedTerm \in Nat
    BY <2>2, LeaderLogAssumption, StoreBounds DEF StoreInv, DiskInv, Ack
  <2>4. CASE m.term = LoadedTerm
    <3>1. PICK n \in Nat : RowsTo(n)
      BY DEF StoreInv, DiskInv
    <3>2. /\ LoadedLog \in Seq(Entry) /\ Len(LoadedLog) = n
          /\ \A k \in 1..n : LoadedLog[k] = [index |-> k, term |-> raft_log[k]]
      BY <3>1, LoadedRows DEF StoreInv, DiskInv
    <3>3. m.log \in Seq(Entry) /\ Len(m.log) \in Nat
      BY <2>2 DEF Ack
    <3>4. ASSUME NEW i \in 1..Len(m.log)
          PROVE  i <= n /\ m.log[i] = LoadedLog[i]
      <4>1. i \in 1..n /\ raft_log[i] = m.log[i].term
        BY <2>1, <2>4, <3>1 DEF Stored, RowsTo
      <4>2. m.log[i] \in Entry /\ m.log[i].index = i
        BY <2>2, LeaderLogAssumption DEF Ack
      <4>3. m.log[i] = [index |-> i, term |-> raft_log[i]]
        BY <4>1, <4>2 DEF Entry
      <4> QED
        BY <3>2, <4>1, <4>3
    <3>5. Len(m.log) <= n
      BY <3>3, <3>4
    <3>6. /\ SubSeq(LoadedLog, 1, Len(m.log)) \in Seq(Entry)
          /\ Len(SubSeq(LoadedLog, 1, Len(m.log))) = Len(m.log)
          /\ \A i \in 1..Len(m.log) : SubSeq(LoadedLog, 1, Len(m.log))[i] = LoadedLog[i]
      BY <3>2, <3>3, <3>5
    <3>7. m.log = SubSeq(LoadedLog, 1, Len(m.log))
      BY <3>3, <3>4, <3>6, SeqEqual
    <3> QED
      BY <2>4, <3>2, <3>5, <3>7
  <2> QED
    BY <2>1, <2>3, <2>4
<1> QED
  BY <1>1, StoreInvariant, PTL

\* No write, and no crash among writes, takes back a commit the file claims
\* or changes a row it covers.
THEOREM CommittedStays == Spec => CommittedStaysInFile
<1>1. StoreInv /\ [Next]_vars => [FileKeepsCommitted]_vars
  BY StoreStep
<1>2. [FileKeepsCommitted]_vars =>
        [/\ LoadedCommit' >= LoadedCommit
         /\ \A i \in 1..LoadedCommit :
              i \in DOMAIN raft_log /\ i \in DOMAIN raft_log'
                /\ raft_log'[i] = raft_log[i]]_vars
  BY DEF FileKeepsCommitted
<1> QED
  BY <1>1, <1>2, StoreInvariant, PTL DEF Spec, CommittedStaysInFile

(***************************************************************************)
(* The disk that TitanRaft assumes.                                        *)
(***************************************************************************)
\* The node as DurableNode sees it.
Seen(t, v, l, c) ==
    /\ t = IF Unfinished THEN start[1] ELSE current_term
    /\ v = IF Unfinished THEN start[2] ELSE voted_for
    /\ l = IF Unfinished THEN start[3] ELSE log
    /\ c = IF Unfinished THEN start[4] ELSE commit_index

Sound(t, v, l, c) ==
    t \in Nat /\ v \in Candidate \cup {Nil} /\ l \in Seq(Entry) /\ c \in 0..Len(l)

\* A step from one such node to another: of a handler that stores no vote, of
\* one that does, or of a crash.
MayLead(t, v, l, c, t2, v2, l2, c2) ==
    /\ t2 >= t /\ SameTo(l2, l, c) /\ c2 >= c
    /\ \/ v2 = IF t2 > t THEN Nil ELSE v
       \/ /\ t2 = t => v \in {Nil, v2}
          /\ v2 \in Candidate /\ l2 = l /\ c2 = c
       \/ v \in {Nil, v2} /\ c2 = c

\* What is seen in a state of the invariant has its type.
LEMMA SeenIsSound ==
  ASSUME StoreInv
  PROVE  \E t, v, l, c : Seen(t, v, l, c) /\ Sound(t, v, l, c)
<1>1. CASE Unfinished
  <2>1. FoundType
    BY <1>1 DEF StoreInv, UnfinishedInv
  <2>2. Seen(start[1], start[2], start[3], start[4])
    BY <1>1 DEF Seen
  <2>3. Sound(start[1], start[2], start[3], start[4])
    BY <2>1 DEF FoundType, Sound
  <2> QED
    BY <2>2, <2>3
<1>2. CASE ~Unfinished
  <2>1. Seen(current_term, voted_for, log, commit_index)
    BY <1>2 DEF Seen
  <2>2. Sound(current_term, voted_for, log, commit_index)
    BY StoreBounds DEF StoreInv, NodeInv, Sound
  <2> QED
    BY <2>1, <2>2
<1> QED
  BY <1>1, <1>2

\* Such a step is one of DurableNode.
LEMMA LeadsDurably ==
  ASSUME NEW t, NEW v, NEW l, NEW c, Seen(t, v, l, c), Sound(t, v, l, c),
         NEW t2, NEW v2, NEW l2, NEW c2, Seen(t2, v2, l2, c2)', Sound(t2, v2, l2, c2),
         MayLead(t, v, l, c, t2, v2, l2, c2)
  PROVE  Durable!Next
<1>1. /\ t \in Nat /\ l \in Seq(Entry) /\ c \in Nat /\ c <= Len(l) /\ Len(l) \in Nat
      /\ t2 \in Nat /\ v2 \in Candidate \cup {Nil} /\ l2 \in Seq(Entry)
      /\ c2 \in Nat /\ c2 <= Len(l2) /\ Len(l2) \in Nat
  BY DEF Sound
<1>2. /\ t2 >= t /\ c2 >= c /\ c <= Len(l2) /\ \A i \in 1..c : l2[i] = l[i]
  BY DEF MayLead, SameTo
<1>3. SubSeq(l2, 1, c) = SubSeq(l, 1, c)
  <2>1. /\ SubSeq(l2, 1, c) \in Seq(Entry) /\ Len(SubSeq(l2, 1, c)) = c
        /\ \A i \in 1..c : SubSeq(l2, 1, c)[i] = l2[i]
    BY <1>1, <1>2
  <2>2. /\ SubSeq(l, 1, c) \in Seq(Entry) /\ Len(SubSeq(l, 1, c)) = c
        /\ \A i \in 1..c : SubSeq(l, 1, c)[i] = l[i]
    BY <1>1
  <2> QED
    BY <1>2, <2>1, <2>2, SeqEqual
<1>4. c2 \in c..Len(l2) /\ Len(l2) >= c
  BY <1>1, <1>2
<1>5. CASE v2 = IF t2 > t THEN Nil ELSE v
  <2>1. Durable!KeepsCommitted
    BY <1>3, <1>4 DEF Seen, Durable!KeepsCommitted
  <2>2. Durable!Write
    BY <1>2, <1>4, <1>5, <2>1 DEF Seen, Durable!Write
  <2> QED
    BY <2>2 DEF Durable!Next
<1>6. CASE (t2 = t => v \in {Nil, v2}) /\ v2 \in Candidate /\ l2 = l /\ c2 = c
  <2>1. Durable!Vote
    BY <1>2, <1>6 DEF Seen, Durable!Vote
  <2> QED
    BY <2>1 DEF Durable!Next
<1>7. CASE v \in {Nil, v2} /\ c2 = c
  <2>1. Durable!KeepsCommitted
    BY <1>3, <1>4 DEF Seen, Durable!KeepsCommitted
  <2>2. Durable!OldVote
    BY <1>1, <1>2, <1>7, <2>1 DEF Seen, Durable!OldVote
  <2> QED
    BY <2>2 DEF Durable!Next
<1> QED
  BY <1>5, <1>6, <1>7 DEF MayLead

\* What is seen stays as it is while a handler writes.
LEMMA SeenStays ==
  ASSUME NEW t, NEW v, NEW l, NEW c, Seen(t, v, l, c), Seen(t, v, l, c)'
  PROVE  UNCHANGED Durable!vars
BY DEF Seen, Durable!vars

\* Whatever the handler, it runs alone and notes what it found.
LEMMA StepHandles ==
  ASSUME Step
  PROVE  \E ws, ms : Handle(ws, ms)
<1>1. ASSUME NEW t \in 1..MaxTerm, HearTerm(t)
      PROVE  \E ws, ms : Handle(ws, ms)
  BY <1>1 DEF HearTerm
<1>2. ASSUME NEW t \in 1..MaxTerm, NEW c \in Others, GrantVote(t, c)
      PROVE  \E ws, ms : Handle(ws, ms)
  BY <1>2 DEF GrantVote
<1>3. ASSUME NEW t, NEW n, RefuseEntries(t, n)
      PROVE  \E ws, ms : Handle(ws, ms)
  BY <1>3 DEF RefuseEntries
<1>4. ASSUME NEW t, NEW n, NEW prev, NEW lc, HandleAppendEntries(t, prev, n, lc)
      PROVE  \E ws, ms : Handle(ws, ms)
  BY <1>4 DEF HandleAppendEntries
<1>5. CASE BecomeCandidate
  BY <1>5 DEF BecomeCandidate
<1>6. CASE BecomeLeader
  BY <1>6 DEF BecomeLeader
<1>7. CASE AppendLocalEntry
  BY <1>7 DEF AppendLocalEntry
<1>8. CASE LeaderCommits
  BY <1>8 DEF LeaderCommits
<1> QED
  BY <1>1, <1>2, <1>3, <1>4, <1>5, <1>6, <1>7, <1>8 DEF Step

\* Every step of the store is a step of DurableNode or leaves it as it was:
\* a handler happens for it when its last write has returned.
LEMMA StoreStepIsDurable ==
  ASSUME StoreInv, StoreInv', [Next]_vars
  PROVE  Durable!Next \/ UNCHANGED Durable!vars
<1>1. PICK t, v, l, c : Seen(t, v, l, c) /\ Sound(t, v, l, c)
  BY SeenIsSound
<1>t. PICK t2 : t2 = (IF Unfinished THEN start[1] ELSE current_term)'
  OBVIOUS
<1>v. PICK v2 : v2 = (IF Unfinished THEN start[2] ELSE voted_for)'
  OBVIOUS
<1>l. PICK l2 : l2 = (IF Unfinished THEN start[3] ELSE log)'
  OBVIOUS
<1>c. PICK c2 : c2 = (IF Unfinished THEN start[4] ELSE commit_index)'
  OBVIOUS
<1>2. Seen(t2, v2, l2, c2)' /\ Sound(t2, v2, l2, c2)
  <2>1. Seen(t2, v2, l2, c2)'
    BY <1>t, <1>v, <1>l, <1>c DEF Seen
  <2>2. CASE Unfinished'
    <3>1. FoundType'
      BY <2>2 DEF StoreInv, UnfinishedInv
    <3> QED
      BY <1>t, <1>v, <1>l, <1>c, <2>1, <2>2, <3>1 DEF FoundType, Sound
  <2>3. CASE ~Unfinished'
    BY <1>t, <1>v, <1>l, <1>c, <2>1, <2>3, StoreBounds DEF StoreInv, NodeInv, Sound
  <2> QED
    BY <2>2, <2>3
<1>3. MayLead(t, v, l, c, t2, v2, l2, c2) => Durable!Next
  BY <1>1, <1>2, LeadsDurably
<1>4. Seen(t, v, l, c)' => UNCHANGED Durable!vars
  BY <1>1, SeenStays
<1>5. CASE Step
  <2>1. /\ writes = <<>> /\ ~poisoned /\ ~poisoned'
        /\ start' = <<current_term, voted_for, log, commit_index>>
    <3>1. \E ws, ms : Handle(ws, ms)
      BY <1>5, StepHandles
    <3> QED
      BY <3>1 DEF Handle, StoreInv, NodeInv
  <2>2. t = current_term /\ v = voted_for /\ l = log /\ c = commit_index
    BY <1>1, <2>1 DEF Seen, Unfinished
  <2>3. CASE writes' # <<>>
    <3>1. Seen(t, v, l, c)'
      BY <2>1, <2>2, <2>3 DEF Seen, Unfinished
    <3> QED
      BY <1>4, <3>1
  <2>4. CASE writes' = <<>>
    <3>1. t2 = current_term' /\ v2 = voted_for' /\ l2 = log' /\ c2 = commit_index'
      BY <1>2, <2>1, <2>4 DEF Seen, Unfinished
    <3>2. HandlerStep
      BY <1>5, HandlerKeeps
    <3>3. MayLead(t, v, l, c, t2, v2, l2, c2)
      BY <2>2, <3>1, <3>2 DEF HandlerStep, MayLead
    <3> QED
      BY <1>3, <3>3
  <2> QED
    BY <2>3, <2>4
<1>6. CASE Write
  <2>1. writes # <<>> /\ start' = start
        /\ UNCHANGED <<current_term, voted_for, log, commit_index>>
    BY <1>6 DEF Write, set_current_term, set_voted_for, DeleteVoteFails, append_entry,
                truncate_from, set_commit_index, WriteFails, Returned, Call, node
  <2>2. t = start[1] /\ v = start[2] /\ l = start[3] /\ c = start[4]
    BY <1>1, <2>1 DEF Seen, Unfinished
  <2>3. CASE Unfinished'
    <3>1. Seen(t, v, l, c)'
      BY <2>1, <2>2, <2>3 DEF Seen
    <3> QED
      BY <1>4, <3>1
  <2>4. CASE ~Unfinished'
    <3>1. t2 = current_term /\ v2 = voted_for /\ l2 = log /\ c2 = commit_index
      BY <1>2, <2>1, <2>4 DEF Seen
    <3>2. HandlerIsOneStep
      BY <2>1 DEF StoreInv, UnfinishedInv
    <3>3. MayLead(t, v, l, c, t2, v2, l2, c2)
      BY <2>2, <3>1, <3>2 DEF HandlerIsOneStep, MayLead
    <3> QED
      BY <1>3, <3>3
  <2> QED
    BY <2>3, <2>4
<1>7. CASE TakeOutbox
  <2>1. Seen(t, v, l, c)'
    BY <1>1, <1>7 DEF TakeOutbox, Seen, Unfinished, node
  <2> QED
    BY <1>4, <2>1
<1>8. CASE Crash
  <2>1. /\ current_term' = LoadedTerm /\ voted_for' = LoadedVote
        /\ log' = LoadedLog /\ commit_index' = LoadedCommit
        /\ ~Unfinished'
    BY <1>8 DEF Crash, RecoveredVote, Unfinished
  <2>2. t2 = LoadedTerm /\ v2 = LoadedVote /\ l2 = LoadedLog /\ c2 = LoadedCommit
    BY <1>2, <2>1 DEF Seen
  <2>3. LoadedTerm \in Nat
    BY StoreBounds DEF StoreInv, DiskInv
  <2>4. CASE ~Unfinished
    <3>1. /\ LoadedTerm = current_term /\ LoadedCommit = commit_index
          /\ voted_for # Nil => LoadedVote = voted_for
          /\ RowsAre(log)
      BY <2>4, AtRest DEF Unfinished
    <3>2. LoadedLog = log
      BY <3>1, LoadedIs DEF StoreInv, NodeInv, DiskInv
    <3>3. t = current_term /\ v = voted_for /\ l = log /\ c = commit_index
      BY <1>1, <2>4 DEF Seen
    <3>4. SameTo(l2, l, c) /\ t2 >= t /\ c2 >= c
      BY <1>1, <2>2, <2>3, <3>1, <3>2, <3>3 DEF Sound, SameTo
    <3>5. MayLead(t, v, l, c, t2, v2, l2, c2)
      BY <2>2, <3>1, <3>3, <3>4 DEF MayLead
    <3> QED
      BY <1>3, <3>5
  <2>5. CASE Unfinished
    <3>1. FoundType /\ DiskIsBetween
      BY <2>5 DEF StoreInv, UnfinishedInv
    <3>2. t = start[1] /\ v = start[2] /\ l = start[3] /\ c = start[4]
      BY <1>1, <2>5 DEF Seen
    <3>3. PICK n \in Nat : RowsTo(n) /\ LoadedCommit \in 0..n
      BY DEF StoreInv, DiskInv
    <3>4. /\ LoadedLog \in Seq(Entry) /\ Len(LoadedLog) = n
          /\ \A k \in 1..n : LoadedLog[k] = [index |-> k, term |-> raft_log[k]]
      BY <3>3, LoadedRows DEF StoreInv, DiskInv
    <3>5. LoadedTerm >= t /\ c2 = c /\ c \in 0..n /\ c \in 0..Len(l) /\ l \in Seq(Entry)
      BY <1>1, <2>2, <3>1, <3>2, <3>3 DEF DiskIsBetween, Sound
    <3>6. ASSUME NEW i \in 1..c
          PROVE  l2[i] = l[i]
      <4>1. i \in 1..n /\ i \in 1..Len(l)
        BY <3>5
      <4>2. l[i] \in Entry /\ l[i].index = i /\ l[i].term = raft_log[i]
        BY <3>1, <3>2, <3>5, <4>1 DEF FoundType, DiskIsBetween, RowsAgree, Indexed
      <4>3. l[i] = [index |-> i, term |-> raft_log[i]]
        BY <4>2 DEF Entry
      <4> QED
        BY <2>2, <3>4, <4>1, <4>3
    <3>7. SameTo(l2, l, c)
      BY <2>2, <3>4, <3>5, <3>6 DEF SameTo
    <3>8. MayLead(t, v, l, c, t2, v2, l2, c2)
      <4>1. v \in {Nil, v2} \/ (v2 = Nil /\ t2 > t)
        BY <2>2, <3>1, <3>2 DEF DiskIsBetween
      <4>2. c2 >= c
        BY <3>5
      <4> QED
        BY <2>2, <3>5, <3>7, <4>1, <4>2 DEF MayLead
    <3> QED
      BY <1>3, <3>8
  <2> QED
    BY <2>4, <2>5
<1>9. CASE UNCHANGED vars
  <2>1. Seen(t, v, l, c)'
    BY <1>1, <1>9 DEF vars, node, Seen, Unfinished
  <2> QED
    BY <1>4, <2>1
<1> QED
  BY <1>5, <1>6, <1>7, <1>8, <1>9 DEF Next

\* A node on this store, dying anywhere between its writes, is the node with
\* a disk that TitanRaft assumes.
THEOREM StoreImplementsDurableNode == Spec => ImplementsDurableNode
<1>1. Init => Durable!Init
  BY DEF Init, Durable!Init, Unfinished
<1>2. StoreInv /\ StoreInv' /\ [Next]_vars => [Durable!Next]_(Durable!vars)
  BY StoreStepIsDurable
<1> QED
  BY <1>1, <1>2, StoreInvariant, PTL DEF Spec, ImplementsDurableNode, Durable!Spec

=============================================================================
