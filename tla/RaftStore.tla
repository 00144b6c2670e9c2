----------------------------- MODULE RaftStore -----------------------------
(***************************************************************************)
(* SqliteStateStore (crates/raft-core/src/store.rs) under one RaftNode.    *)
(* A handler changes the node in memory and leaves a queue of set_* calls, *)
(* carried out one by one; each may fail, and the process may die between  *)
(* any two of them.  What a handler tells other nodes leaves later, when   *)
(* the loop takes the outbox.                                              *)
(*                                                                         *)
(* A write that returned is taken to survive (synchronous=FULL).  The      *)
(* store's caches are read once, right after they are loaded, and are left *)
(* out.  Payloads are left out: an index and a term determine an entry.    *)
(***************************************************************************)
EXTENDS Naturals, Sequences, FiniteSets

CONSTANTS
    Self, Others,   \* this node and the candidates it may vote for
    Nil,            \* voted_for: None
    LeaderLog,      \* LeaderLog[t]: the log of another node that leads term t
    MaxTerm,        \* bound on the terms
    MaxLog,         \* bound: this node appends entries up to this length
    MaxCrashes      \* bound on the crashes

Candidate == Others \cup {Self}
Entry == [index : Nat \ {0}, term : Nat]

ASSUME CandidateAssumption == Nil \notin Candidate /\ Self \notin Others
ASSUME LeaderLogAssumption ==
    /\ DOMAIN LeaderLog \subseteq 1..MaxTerm
    /\ \A t \in DOMAIN LeaderLog :
         /\ LeaderLog[t] \in Seq(Entry)
         /\ \A i \in 1..Len(LeaderLog[t]) :
              LeaderLog[t][i].index = i /\ LeaderLog[t][i].term <= t
ASSUME StoreBounds == MaxTerm \in Nat /\ MaxLog \in Nat /\ MaxCrashes \in Nat

VARIABLES
    current_term, voted_for, log, commit_index, role,   \* RaftNode
    outbox,      \* RaftNode: votes and acknowledgements not yet taken
    raft_meta,   \* table raft_meta: the keys that have a row
    raft_log,    \* table raft_log: the idx that have a row
    writes,      \* calls on the store the running handler has yet to make
    poisoned,    \* a call panicked while its thread held the node lock
    sent,        \* votes and acknowledgements that have left the process
    start,       \* history: the durable state the running handler found
    crashes

node == <<current_term, voted_for, log, commit_index, role>>
disk == <<raft_meta, raft_log>>
vars == <<node, outbox, disk, writes, poisoned, sent, start, crashes>>

Init ==
    /\ current_term = 0 /\ voted_for = Nil /\ log = <<>> /\ commit_index = 0
    /\ role = "Follower"
    /\ outbox = {} /\ sent = {}
    /\ raft_meta = [k \in {} |-> 0] /\ raft_log = [i \in {} |-> 0]
    /\ writes = <<>> /\ poisoned = FALSE
    /\ start = <<0, Nil, <<>>, 0>>
    /\ crashes = 0

(***************************************************************************)
(* SqliteStateStore::new: what the rows say.                               *)
(***************************************************************************)
Nth(s, k) == CHOOSE i \in s : Cardinality({j \in s : j <= i}) = k

\* Slip: a missing vote is read as a number, like the others.
LoadMetaAsNumber(key, default) ==
    IF key \in DOMAIN raft_meta THEN raft_meta[key] ELSE 0

LoadMeta(key, default) ==
    IF key \in DOMAIN raft_meta THEN raft_meta[key] ELSE default

LoadedTerm == LoadMeta("current_term", 0)
LoadedVote == LoadMeta("voted_for", Nil)
LoadedCommit == LoadMeta("commit_index", 0)

\* ORDER BY idx
LoadedLog ==
    [k \in 1..Cardinality(DOMAIN raft_log) |->
        LET i == Nth(DOMAIN raft_log, k) IN [index |-> i, term |-> raft_log[i]]]

(***************************************************************************)
(* Handlers.                                                               *)
(***************************************************************************)
SetTerm(t) == [op |-> "set_current_term", arg |-> t]
SetVote(c) == [op |-> "set_voted_for", arg |-> c]
DeleteVote == [op |-> "delete_voted_for", arg |-> 0]
AppendRow(e) == [op |-> "append_entry", arg |-> e]
TruncateFrom(i) == [op |-> "truncate_from", arg |-> i]
SetCommit(k) == [op |-> "set_commit_index", arg |-> k]

LastIndex(l) == IF l = <<>> THEN 0 ELSE l[Len(l)].index

\* A thread that gets the node lock runs one handler: ws is what it writes,
\* ms what it puts into the outbox.
Handle(ws, ms) ==
    /\ writes = <<>> /\ ~poisoned
    /\ writes' = ws
    /\ outbox' = outbox \cup ms
    /\ start' = <<current_term, voted_for, log, commit_index>>
    /\ UNCHANGED <<disk, poisoned, sent, crashes>>

\* become_follower, the beginning of step()
VoteAfter(t) == IF t > current_term THEN Nil ELSE voted_for
Adopting(t) == IF t > current_term THEN <<SetTerm(t), DeleteVote>> ELSE <<>>

\* A message of a higher term to which the handler proper writes nothing.
HearTerm(t) ==
    /\ t > current_term
    /\ Handle(Adopting(t), {})
    /\ current_term' = t /\ voted_for' = Nil /\ role' = "Follower"
    /\ UNCHANGED <<log, commit_index>>

\* A granted RequestVote of c; what c's log is like is up to c.
GrantVote(t, c) ==
    /\ t >= current_term
    /\ VoteAfter(t) \in {Nil, c}
    /\ Handle(Adopting(t) \o <<SetVote(c)>>, {[type |-> "vote", term |-> t, to |-> c]})
    /\ current_term' = t /\ voted_for' = c
    /\ role' = IF t > current_term THEN "Follower" ELSE role
    /\ UNCHANGED <<log, commit_index>>

\* Slip: the vote is stored before the term.
CandidateWritesVoteFirst(t) == <<SetVote(Self), SetTerm(t)>>

CandidateWrites(t) == <<SetTerm(t), SetVote(Self)>>

BecomeCandidate ==
    /\ role # "Leader" /\ current_term < MaxTerm
    /\ Handle(CandidateWrites(current_term + 1),
              {[type |-> "vote", term |-> current_term + 1, to |-> Self]})
    /\ current_term' = current_term + 1 /\ voted_for' = Self
    /\ role' = "Candidate"
    /\ UNCHANGED <<log, commit_index>>

BecomeLeader ==
    /\ role = "Candidate" /\ current_term \notin DOMAIN LeaderLog
    /\ Handle(<<>>, {})
    /\ role' = "Leader"
    /\ UNCHANGED <<current_term, voted_for, log, commit_index>>

AppendLocalEntry ==
    /\ role = "Leader" /\ Len(log) < MaxLog
    /\ LET e == [index |-> LastIndex(log) + 1, term |-> current_term]
       IN  Handle(<<AppendRow(e)>>, {}) /\ log' = Append(log, e)
    /\ UNCHANGED <<current_term, voted_for, commit_index, role>>

\* A reply that lets the leader commit.
LeaderCommits ==
    /\ role = "Leader"
    /\ \E k \in (commit_index + 1)..Len(log) :
         /\ log[k].term = current_term
         /\ Handle(<<SetCommit(k)>>, {})
         /\ commit_index' = k
    /\ UNCHANGED <<current_term, voted_for, log, role>>

\* Which leaders this node can hear, by what TitanRaft's runs show: logs that
\* share an entry share what is before it, and a leader of this term or a
\* later one has what was committed.
Possible(t) ==
    LET l == LeaderLog[t]
    IN  /\ \A i \in 1..Len(log) :
             i <= Len(l) /\ l[i] = log[i] => SubSeq(l, 1, i) = SubSeq(log, 1, i)
        /\ commit_index <= Len(l)
        /\ SubSeq(l, 1, commit_index) = SubSeq(log, 1, commit_index)

Diverging(l, prev, n) ==
    {i \in (prev + 1)..n : i > Len(log) \/ log[i].term # l[i].term}

First(s) == CHOOSE i \in s : \A j \in s : i <= j

\* Slips: the old rows are left to INSERT OR REPLACE; the log is cut after
\* prev_log_index whether or not it diverges.
ReplaceOnly(l, prev, n) ==
    LET j == First(Diverging(l, prev, n))
    IN  IF Diverging(l, prev, n) = {} THEN <<>>
        ELSE [i \in 1..(n - j + 1) |-> AppendRow(l[j + i - 1])]
CutAlways(l, prev, n) ==
    <<TruncateFrom(prev + 1)>> \o [i \in 1..(n - prev) |-> AppendRow(l[prev + i])]

\* The append loop: from the first divergence on, truncate and append.
MergeWrites(l, prev, n) ==
    LET j == First(Diverging(l, prev, n))
    IN  IF Diverging(l, prev, n) = {} THEN <<>>
        ELSE (IF j <= Len(log) THEN <<TruncateFrom(log[j].index)>> ELSE <<>>)
               \o [i \in 1..(n - j + 1) |-> AppendRow(l[j + i - 1])]

Merged(l, prev, n) ==
    LET j == First(Diverging(l, prev, n))
    IN  IF Diverging(l, prev, n) = {} THEN log
        ELSE SubSeq(log, 1, j - 1) \o SubSeq(l, j, n)

\* Slip: the commit index is stored before the entries.
CommitBeforeEntries(merge, commit) == commit \o merge

AppendWrites(merge, commit) == merge \o commit

\* An AppendEntries that does not fit on the log is refused.
RefuseEntries(t, prev) ==
    /\ t >= current_term /\ Possible(t) /\ prev > 0
    /\ prev <= Len(log) => log[prev].term # LeaderLog[t][prev].term
    /\ Handle(Adopting(t), {})
    /\ current_term' = t /\ voted_for' = VoteAfter(t) /\ role' = "Follower"
    /\ UNCHANGED <<log, commit_index>>

\* The AppendEntries that carries entries prev + 1 to n of the leader's log.
HandleAppendEntries(t, prev, n, leader_commit) ==
    LET l == LeaderLog[t]
        new == Merged(l, prev, n)
        commit == IF leader_commit <= LastIndex(new) THEN leader_commit
                                                     ELSE LastIndex(new)
    IN  /\ t >= current_term /\ Possible(t)
        /\ prev > 0 => prev <= Len(log) /\ log[prev].term = l[prev].term
        /\ log' = new
        /\ \/ /\ leader_commit > commit_index
              /\ commit_index' = commit
              /\ Handle(Adopting(t)
                          \o AppendWrites(MergeWrites(l, prev, n), <<SetCommit(commit)>>),
                        {[type |-> "ack", term |-> t, log |-> SubSeq(new, 1, n)]})
           \/ /\ leader_commit <= commit_index
              /\ UNCHANGED commit_index
              /\ Handle(Adopting(t) \o MergeWrites(l, prev, n),
                        {[type |-> "ack", term |-> t, log |-> SubSeq(new, 1, n)]})
        /\ current_term' = t /\ voted_for' = VoteAfter(t) /\ role' = "Follower"

(***************************************************************************)
(* The writes.  Each is one SQL statement in autocommit.                   *)
(***************************************************************************)
PutMeta(key, v) ==
    raft_meta' = [k \in DOMAIN raft_meta \cup {key} |->
                    IF k = key THEN v ELSE raft_meta[k]]

Call(op) == writes # <<>> /\ Head(writes).op = op

Returned ==
    /\ writes' = Tail(writes)
    /\ UNCHANGED <<node, outbox, poisoned, sent, start, crashes>>

set_current_term ==
    /\ Call("set_current_term")
    /\ PutMeta("current_term", Head(writes).arg)
    /\ Returned /\ UNCHANGED raft_log

set_voted_for ==
    /\ \/ /\ Call("set_voted_for")
          /\ PutMeta("voted_for", Head(writes).arg)
       \/ /\ Call("delete_voted_for")
          /\ raft_meta' = [k \in DOMAIN raft_meta \ {"voted_for"} |-> raft_meta[k]]
    /\ Returned /\ UNCHANGED raft_log

\* `let _ =': a DELETE that fails is not noticed.
DeleteVoteFails ==
    /\ Call("delete_voted_for")
    /\ Returned /\ UNCHANGED disk

append_entry ==
    /\ Call("append_entry")
    /\ LET e == Head(writes).arg
       IN  raft_log' = [i \in DOMAIN raft_log \cup {e.index} |->
                          IF i = e.index THEN e.term ELSE raft_log[i]]
    /\ Returned /\ UNCHANGED raft_meta

\* Slip: DELETE ... WHERE idx = ?1
OnlyThatRowGone(from) == DOMAIN raft_log \ {from}

\* DELETE ... WHERE idx >= ?1
RowsLeft(from) == {i \in DOMAIN raft_log : i < from}

truncate_from ==
    /\ Call("truncate_from")
    /\ raft_log' = [i \in RowsLeft(Head(writes).arg) |-> raft_log[i]]
    /\ Returned /\ UNCHANGED raft_meta

set_commit_index ==
    /\ Call("set_commit_index")
    /\ PutMeta("commit_index", Head(writes).arg)
    /\ Returned /\ UNCHANGED raft_log

\* Any other failure panics with the node locked: the mutex is poisoned, and
\* every later lock().unwrap() panics in its turn.
WriteFails ==
    /\ writes # <<>> /\ Head(writes).op # "delete_voted_for"
    /\ writes' = <<>> /\ poisoned' = TRUE
    /\ UNCHANGED <<node, outbox, disk, sent, start, crashes>>

\* take_outbox, which needs the node lock too.
TakeOutbox ==
    /\ writes = <<>> /\ ~poisoned /\ outbox # {}
    /\ sent' = sent \cup outbox /\ outbox' = {}
    /\ UNCHANGED <<node, disk, writes, poisoned, start, crashes>>

\* Slip: the node starts without its vote.
RecoveredNoVote == Nil

RecoveredVote == LoadedVote

\* The process dies, and new_with_store reads what is there.
Crash ==
    /\ crashes < MaxCrashes /\ crashes' = crashes + 1
    /\ current_term' = LoadedTerm /\ voted_for' = RecoveredVote
    /\ log' = LoadedLog /\ commit_index' = LoadedCommit
    /\ role' = "Follower"
    /\ outbox' = {} /\ writes' = <<>> /\ poisoned' = FALSE
    /\ start' = <<LoadedTerm, RecoveredVote, LoadedLog, LoadedCommit>>
    /\ UNCHANGED <<disk, sent>>

Step ==
    \/ \E t \in 1..MaxTerm :
         HearTerm(t) \/ \E c \in Others : GrantVote(t, c)
    \/ \E t \in DOMAIN LeaderLog :
         \E n \in 0..Len(LeaderLog[t]) :
           \/ RefuseEntries(t, n)
           \/ \E prev, leader_commit \in 0..n : HandleAppendEntries(t, prev, n, leader_commit)
    \/ BecomeCandidate
    \/ BecomeLeader
    \/ AppendLocalEntry
    \/ LeaderCommits

Write ==
    \/ set_current_term
    \/ set_voted_for
    \/ DeleteVoteFails
    \/ append_entry
    \/ truncate_from
    \/ set_commit_index
    \/ WriteFails

Next == Step \/ Write \/ TakeOutbox \/ Crash

Spec == Init /\ [][Next]_vars

(***************************************************************************)
(* Properties                                                              *)
(***************************************************************************)
\* What the node holds in memory keeps its shape across every reload.
StoreTypeOK ==
    /\ current_term \in 0..MaxTerm
    /\ voted_for \in Candidate \cup {Nil}
    /\ log \in Seq(Entry)
    /\ commit_index \in Nat
    /\ role \in {"Follower", "Candidate", "Leader"}
    /\ DOMAIN raft_meta \subseteq {"current_term", "voted_for", "commit_index"}
    /\ raft_log \in [DOMAIN raft_log -> Nat]
    /\ poisoned \in BOOLEAN

\* Wherever the process dies, the rows have no gap: the core indexes the log
\* it loads by position.
RowsHaveNoGap == DOMAIN raft_log = 1..Cardinality(DOMAIN raft_log)

\* Once a handler is done the file holds what the node holds; but a vote may
\* have outlived its deletion.
FileHoldsNode ==
    writes = <<>> /\ ~poisoned =>
        /\ LoadedTerm = current_term /\ LoadedLog = log /\ LoadedCommit = commit_index
        /\ voted_for # Nil => LoadedVote = voted_for

\* No crash and no failed write makes the node forget a vote it told of: in
\* that term a restart finds it, or a later term.
ToldVotesSurvive ==
    \A m \in sent : m.type = "vote" =>
        \/ LoadedTerm > m.term
        \/ LoadedTerm = m.term /\ LoadedVote = m.to

\* What was acknowledged to a leader stays on disk through its whole term.
AckedEntriesSurvive ==
    \A m \in sent : m.type = "ack" =>
        \/ LoadedTerm > m.term
        \/ /\ LoadedTerm = m.term /\ Len(m.log) <= Len(LoadedLog)
           /\ m.log = SubSeq(LoadedLog, 1, Len(m.log))

\* At no point between two writes does the file claim a commit of entries it
\* has not got, or change those it has.
CommittedStaysInFile ==
    [][/\ LoadedCommit' >= LoadedCommit
       /\ \A i \in 1..LoadedCommit :
            i \in DOMAIN raft_log /\ i \in DOMAIN raft_log'
              /\ raft_log'[i] = raft_log[i]]_vars

\* Write by write, the store is the disk that TitanRaft assumes: while a
\* handler writes, or after one has panicked, what it found still stands.
Unfinished == writes # <<>> \/ poisoned

Durable == INSTANCE DurableNode WITH
    current_term <- IF Unfinished THEN start[1] ELSE current_term,
    voted_for <- IF Unfinished THEN start[2] ELSE voted_for,
    log <- IF Unfinished THEN start[3] ELSE log,
    commit_index <- IF Unfinished THEN start[4] ELSE commit_index

ImplementsDurableNode == Durable!Spec
=============================================================================
