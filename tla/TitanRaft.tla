----------------------------- MODULE TitanRaft -----------------------------
(***************************************************************************)
(* The consensus core: RaftNode of crates/raft-core/src/lib.rs with the    *)
(* messages of rpc.rs, one node per member of Node, over the UDP transport *)
(* of cmd/titan-node/src/main.rs.                                          *)
(*                                                                         *)
(* Every handler runs under the node's mutex, so a handler is one action.  *)
(* It writes the term, the vote, the log and the commit index through to   *)
(* the store as it changes them: between handlers the disk equals memory,  *)
(* and only a crash INSIDE a handler (the Torn... actions) can tell them   *)
(* apart.  A message leaves through the outbox after the handler; losing   *)
(* the outbox in a crash is the same as losing its datagrams.              *)
(***************************************************************************)
EXTENDS Integers, Sequences, FiniteSets

CONSTANTS
    Node,        \* the cluster (node_id plus peers)
    Nil,         \* voted_for: None
    Value,       \* payloads, which consensus never looks into
    Electable,   \* bound: Electable[t] is who may stand for election in term t
    MaxLog,      \* bound: in term t clients stop at log length MaxLog[t]
    Crashing,    \* bound: the nodes that may crash
    Duplicates   \* may the network deliver a datagram more than once?

ASSUME NodeAssumption == IsFiniteSet(Node) /\ Nil \notin Node
ASSUME BoundAssumption ==
    /\ MaxLog \in [DOMAIN Electable -> Nat]
    /\ Crashing \subseteq Node
ASSUME DuplicatesAssumption == Duplicates \in BOOLEAN

VARIABLES
    current_term,   \* current_term[n], durable
    voted_for,      \* voted_for[n], durable
    log,            \* log[n]: entries [index, term, payload], durable
    commit_index,   \* commit_index[n], durable
    role,           \* volatile from here on
    next_index,     \* next_index[n][peer]; 1 where the map has no key
    match_index,    \* match_index[n][peer]; 0 where the map has no key
    votes_received,
    net,            \* every datagram ever sent: loss is one never delivered
    delivered       \* those used up, when datagrams are not duplicated

durable == <<current_term, voted_for, log, commit_index>>
leaderState == <<next_index, match_index>>
network == <<net, delivered>>
vars == <<durable, role, leaderState, votes_received, network>>

Peers(n) == Node \ {n}

(***************************************************************************)
(* Messages (rpc.rs).  candidate_id and leader_id always equal `from'.     *)
(***************************************************************************)
Entry == [index : Nat, term : Nat, payload : Value]

RequestVote == [type : {"RequestVote"}, from : Node, to : Node, term : Nat,
                last_log_index : Nat, last_log_term : Nat]
RequestVoteReply == [type : {"RequestVoteReply"}, from : Node, to : Node,
                     term : Nat, vote_granted : BOOLEAN]
AppendEntries == [type : {"AppendEntries"}, from : Node, to : Node, term : Nat,
                  prev_log_index : Nat, prev_log_term : Nat,
                  entries : Seq(Entry), leader_commit : Nat]
AppendEntriesReply == [type : {"AppendEntriesReply"}, from : Node, to : Node,
                       term : Nat, success : BOOLEAN, match_index : Nat]
Message == RequestVote \cup RequestVoteReply
             \cup AppendEntries \cup AppendEntriesReply

Send(ms) == net' = net \cup ms /\ delivered' = delivered \ ms

Deliverable(m) == m \in net /\ m \notin delivered

\* A handler takes m off the socket and leaves ms in the outbox.  Without
\* duplication a datagram equal to m can arrive again only if it is resent.
Exchange(m, ms) ==
    /\ net' = net \cup ms
    /\ delivered' = IF Duplicates THEN delivered
                                  ELSE (delivered \cup {m}) \ ms

(***************************************************************************)
(* The log.                                                                *)
(***************************************************************************)
LastIndex(l) == IF l = <<>> THEN 0 ELSE l[Len(l)].index
LastTerm(l)  == IF l = <<>> THEN 0 ELSE l[Len(l)].term

TermAt(l, i) == IF i \in 1..Len(l) THEN l[i].term ELSE 0

\* Slip: an entry of another term is taken for the one that is there.
DivergesByLength(l, p, es, j) == p + j > Len(l)

\* Entry j of es, placed after position p of l, finds no entry there or one
\* of another term.
Diverges(l, p, es, j) == p + j > Len(l) \/ l[p + j].term # es[j].term

\* The loop of AppendEntries passes over what agrees and, from the first
\* divergence on (there is at most one first), truncates and appends.
FirstDiverging(l, p, es) ==
    {j \in 1..Len(es) : /\ Diverges(l, p, es, j)
                        /\ \A k \in 1..(j - 1) : ~Diverges(l, p, es, k)}

Overwrite(l, p, es, j, i) == SubSeq(l, 1, p + j - 1) \o SubSeq(es, j, i)

\* Slip: the log is always cut after prev_log_index, also by an old message.
MergeCutting(l, p, es) == SubSeq(l, 1, p) \o es

Merge(l, p, es) ==
    IF FirstDiverging(l, p, es) = {} THEN l
    ELSE Overwrite(l, p, es, CHOOSE j \in FirstDiverging(l, p, es) : TRUE,
                   Len(es))

(***************************************************************************)
(* Sending.  An AppendEntries carries the whole log from nidx on.          *)
(***************************************************************************)
RequestVoteMsg(n, p, t) ==
    [type |-> "RequestVote", from |-> n, to |-> p, term |-> t,
     last_log_index |-> LastIndex(log[n]), last_log_term |-> LastTerm(log[n])]

AppendEntriesMsg(n, p, l, nidx) ==
    [type |-> "AppendEntries", from |-> n, to |-> p, term |-> current_term[n],
     prev_log_index |-> nidx - 1, prev_log_term |-> TermAt(l, nidx - 1),
     entries |-> SubSeq(l, nidx, Len(l)), leader_commit |-> commit_index[n]]

\* broadcast_append_entries of n with log l and next indices ni
Broadcast(n, l, ni) == {AppendEntriesMsg(n, p, l, ni[p]) : p \in Peers(n)}

(***************************************************************************)
(* step() first adopts a higher term (become_follower); the handler then   *)
(* works with these values.                                                *)
(*                                                                         *)
(* Definitions marked "Slip" are used by nothing here: each is a plausible *)
(* mistake in the definition after it, put in its place to see that the    *)
(* checks notice.                                                          *)
(***************************************************************************)
TermAfter(n, m) == IF m.term > current_term[n] THEN m.term ELSE current_term[n]
VoteAfter(n, m) == IF m.term > current_term[n] THEN Nil ELSE voted_for[n]
\* Slip: a higher term does not end a candidacy or a reign.
RoleAfterKept(n, m) == role[n]

RoleAfter(n, m) == IF m.term > current_term[n] THEN "Follower" ELSE role[n]

Init ==
    /\ current_term = [n \in Node |-> 0]
    /\ voted_for = [n \in Node |-> Nil]
    /\ log = [n \in Node |-> <<>>]
    /\ commit_index = [n \in Node |-> 0]
    /\ role = [n \in Node |-> "Follower"]
    /\ next_index = [n \in Node |-> [p \in Node |-> 1]]
    /\ match_index = [n \in Node |-> [p \in Node |-> 0]]
    /\ votes_received = [n \in Node |-> 0]
    /\ net = {}
    /\ delivered = {}

(***************************************************************************)
(* tick(): a node that is not leader and whose deadline has passed stands  *)
(* for election; a leader sends a heartbeat.  Deadlines are not modelled:  *)
(* any node may be the first to time out, at any moment.                   *)
(***************************************************************************)
MayStand(n) ==
    /\ role[n] # "Leader"
    /\ current_term[n] + 1 \in DOMAIN Electable
    /\ n \in Electable[current_term[n] + 1]

BecomeCandidate(n) ==
    /\ MayStand(n)
    /\ current_term' = [current_term EXCEPT ![n] = @ + 1]
    /\ role' = [role EXCEPT ![n] = "Candidate"]
    /\ voted_for' = [voted_for EXCEPT ![n] = n]
    /\ votes_received' = [votes_received EXCEPT ![n] = 1]
    /\ Send({RequestVoteMsg(n, p, current_term[n] + 1) : p \in Peers(n)})
    /\ UNCHANGED <<log, commit_index, leaderState>>

Heartbeat(n) ==
    /\ role[n] = "Leader"
    /\ Send(Broadcast(n, log[n], next_index[n]))
    /\ UNCHANGED <<durable, role, leaderState, votes_received>>

\* append_local_entry on a leader
AppendLocalEntry(n, v) ==
    /\ role[n] = "Leader"
    /\ Len(log[n]) < MaxLog[current_term[n]]
    /\ LET l == Append(log[n], [index |-> LastIndex(log[n]) + 1,
                                term |-> current_term[n], payload |-> v])
       IN  /\ log' = [log EXCEPT ![n] = l]
           /\ Send(Broadcast(n, l, next_index[n]))
    /\ UNCHANGED <<current_term, voted_for, commit_index, role, leaderState,
                   votes_received>>

(***************************************************************************)
(* step(), RequestVote                                                     *)
(***************************************************************************)
\* Slip: any log may win.
LogOkAlways(n, m) == TRUE

LogOk(n, m) ==
    \/ m.last_log_term > LastTerm(log[n])
    \/ /\ m.last_log_term = LastTerm(log[n])
       /\ m.last_log_index >= LastIndex(log[n])

\* Slip: the vote already given is not looked at.
CanVoteAgain(n, m) == TRUE

CanVote(n, m) == VoteAfter(n, m) \in {Nil, m.from}

Grants(n, m) == m.term = TermAfter(n, m) /\ CanVote(n, m) /\ LogOk(n, m)

HandleRequestVote(n, m) ==
    /\ m.type = "RequestVote" /\ m.to = n
    /\ current_term' = [current_term EXCEPT ![n] = TermAfter(n, m)]
    /\ role' = [role EXCEPT ![n] = RoleAfter(n, m)]
    /\ voted_for' = [voted_for EXCEPT
                       ![n] = IF Grants(n, m) THEN m.from ELSE VoteAfter(n, m)]
    /\ Exchange(m, {[type |-> "RequestVoteReply", from |-> n, to |-> m.from,
                     term |-> TermAfter(n, m), vote_granted |-> Grants(n, m)]})
    /\ UNCHANGED <<log, commit_index, leaderState, votes_received>>

(***************************************************************************)
(* step(), RequestVoteReply: votes are counted, not voters.  The vote that *)
(* makes the majority makes the candidate a leader (become_leader), whose  *)
(* first broadcast is part of the step.                                    *)
(***************************************************************************)
Wins(votes) == votes > Cardinality(Node) \div 2

FreshNext(n) == [p \in Node |-> LastIndex(log[n]) + 1]

\* Slip: a vote of an earlier term counts.
CountsOldVotes(n, m) == m.vote_granted /\ RoleAfter(n, m) = "Candidate"

Counts(n, m) ==
    /\ m.vote_granted
    /\ m.term = TermAfter(n, m)
    /\ RoleAfter(n, m) = "Candidate"

HandleRequestVoteReply(n, m) ==
    /\ m.type = "RequestVoteReply" /\ m.to = n
    /\ current_term' = [current_term EXCEPT ![n] = TermAfter(n, m)]
    /\ voted_for' = [voted_for EXCEPT ![n] = VoteAfter(n, m)]
    /\ \/ /\ ~Counts(n, m)
          /\ role' = [role EXCEPT ![n] = RoleAfter(n, m)]
          /\ Exchange(m, {})
          /\ UNCHANGED <<leaderState, votes_received>>
       \/ /\ Counts(n, m)
          /\ votes_received' = [votes_received EXCEPT ![n] = @ + 1]
          /\ \/ /\ ~Wins(votes_received[n] + 1)
                /\ Exchange(m, {})
                /\ UNCHANGED <<role, leaderState>>
             \/ /\ Wins(votes_received[n] + 1)
                /\ role' = [role EXCEPT ![n] = "Leader"]
                /\ next_index' = [next_index EXCEPT ![n] = FreshNext(n)]
                /\ match_index' = [match_index EXCEPT ![n] = [p \in Node |-> 0]]
                /\ Exchange(m, Broadcast(n, log[n], FreshNext(n)))
    /\ UNCHANGED <<log, commit_index>>

(***************************************************************************)
(* step(), AppendEntries                                                   *)
(***************************************************************************)
\* Slip: the previous entry must be there, whatever its term.
PrevOkByLength(l, m) == m.prev_log_index <= Len(l)

PrevOk(l, m) ==
    m.prev_log_index > 0 =>
        /\ m.prev_log_index <= Len(l)
        /\ l[m.prev_log_index].term = m.prev_log_term

\* Slip: an AppendEntries of a deposed leader is taken.
AcceptsOldTerms(n, m) == PrevOk(log[n], m)

Accepts(n, m) == m.term = TermAfter(n, m) /\ PrevOk(log[n], m)

\* Slips: heartbeats without entries do not move the commit index; an old
\* message takes it back.
FollowedCommitWithEntries(n, m, l) ==
    IF m.leader_commit <= commit_index[n] \/ m.entries = <<>> THEN commit_index[n]
    ELSE IF m.leader_commit < LastIndex(l) THEN m.leader_commit
    ELSE LastIndex(l)
FollowedCommitUnguarded(n, m, l) ==
    IF m.leader_commit < LastIndex(l) THEN m.leader_commit ELSE LastIndex(l)

\* the follower's commit index once its log is l
FollowedCommit(n, m, l) ==
    IF m.leader_commit <= commit_index[n] THEN commit_index[n]
    ELSE IF m.leader_commit < LastIndex(l) THEN m.leader_commit
    ELSE LastIndex(l)

\* Slips: the follower reports all of its log, or one index too few.
ReportedLength(l, m) == Len(l)
ReportedShort(l, m) == m.prev_log_index + Len(m.entries) - 1

\* prev_log_index + insert_idx - prev_log_index
ReportedMatch(l, m) == m.prev_log_index + Len(m.entries)

HandleAppendEntries(n, m) ==
    /\ m.type = "AppendEntries" /\ m.to = n
    /\ current_term' = [current_term EXCEPT ![n] = TermAfter(n, m)]
    /\ voted_for' = [voted_for EXCEPT ![n] = VoteAfter(n, m)]
    /\ role' = [role EXCEPT ![n] = IF m.term = TermAfter(n, m) THEN "Follower"
                                                               ELSE @]
    /\ LET l == IF Accepts(n, m)
                THEN Merge(log[n], m.prev_log_index, m.entries) ELSE log[n]
       IN  /\ log' = [log EXCEPT ![n] = l]
           /\ commit_index' = [commit_index EXCEPT
                 ![n] = IF Accepts(n, m) THEN FollowedCommit(n, m, l) ELSE @]
           /\ Exchange(m, {[type |-> "AppendEntriesReply", from |-> n,
                 to |-> m.from, term |-> TermAfter(n, m),
                 success |-> Accepts(n, m),
                 match_index |-> IF Accepts(n, m) THEN ReportedMatch(l, m)
                                                  ELSE 0]})
    /\ UNCHANGED <<leaderState, votes_received>>

(***************************************************************************)
(* step(), AppendEntriesReply                                              *)
(***************************************************************************)
\* `matches': what each peer reported, and for the leader its own last index
Matches(n, mi) == [mi EXCEPT ![n] = LastIndex(log[n])]

\* k = matches[len - (peers + 1) / 2] of the sorted vector: the h-th largest,
\* h being half the cluster rounded DOWN.
IsSelected(k, matches) ==
    LET h == Cardinality(Node) \div 2
    IN  /\ Cardinality({p \in Node : matches[p] >= k}) >= h
        /\ Cardinality({p \in Node : matches[p] > k}) < h

\* Slip: entries of earlier terms are committed by counting replicas.
CommittableOfAnyTerm(n, mi) ==
    {k \in 1..Len(log[n]) : /\ k > commit_index[n]
                            /\ IsSelected(k, Matches(n, mi))}

\* Indices the leader's rule lets it commit: none or one.
Committable(n, mi) ==
    {k \in 1..Len(log[n]) : /\ k > commit_index[n]
                            /\ log[n][k].term = current_term[n]
                            /\ IsSelected(k, Matches(n, mi))}

NewCommit(n, mi) == IF Committable(n, mi) = {} THEN commit_index[n]
                    ELSE CHOOSE k \in Committable(n, mi) : TRUE

\* Slip: next_index stops one short of the first entry.
CanStepBackToTwo(n, p) == next_index[n][p] > 2

\* A rejected AppendEntries steps next_index back, to 1 at the least.
CanStepBack(n, p) == next_index[n][p] > 1

HandleAppendEntriesReply(n, m) ==
    /\ m.type = "AppendEntriesReply" /\ m.to = n
    /\ current_term' = [current_term EXCEPT ![n] = TermAfter(n, m)]
    /\ voted_for' = [voted_for EXCEPT ![n] = VoteAfter(n, m)]
    /\ role' = [role EXCEPT ![n] = RoleAfter(n, m)]
    /\ \/ /\ RoleAfter(n, m) # "Leader" \/ m.term # TermAfter(n, m)
          /\ Exchange(m, {})
          /\ UNCHANGED <<commit_index, leaderState>>
       \/ /\ RoleAfter(n, m) = "Leader" /\ m.term = TermAfter(n, m)
          /\ m.success
          /\ LET mi == [match_index[n] EXCEPT ![m.from] = m.match_index]
             IN  /\ match_index' = [match_index EXCEPT ![n] = mi]
                 /\ commit_index' = [commit_index EXCEPT ![n] = NewCommit(n, mi)]
          /\ next_index' = [next_index EXCEPT ![n][m.from] = m.match_index + 1]
          /\ Exchange(m, {})
       \/ /\ RoleAfter(n, m) = "Leader" /\ m.term = TermAfter(n, m)
          /\ ~m.success
          /\ \/ /\ CanStepBack(n, m.from)
                /\ next_index' = [next_index EXCEPT ![n][m.from] = @ - 1]
                /\ Exchange(m, {AppendEntriesMsg(n, m.from, log[n],
                                                 next_index[n][m.from] - 1)})
             \/ /\ ~CanStepBack(n, m.from)
                /\ Exchange(m, {})
                /\ UNCHANGED next_index
          /\ UNCHANGED <<commit_index, match_index>>
    /\ UNCHANGED <<log, votes_received>>

(***************************************************************************)
(* Crash and restart (new_with_store).  Memory is rebuilt from the store:  *)
(* always a follower, empty maps.                                          *)
(***************************************************************************)
Forget(n) ==
    /\ role' = [role EXCEPT ![n] = "Follower"]
    /\ next_index' = [next_index EXCEPT ![n] = [p \in Node |-> 1]]
    /\ match_index' = [match_index EXCEPT ![n] = [p \in Node |-> 0]]
    /\ votes_received' = [votes_received EXCEPT ![n] = 0]

Restart(n) == Forget(n) /\ UNCHANGED <<durable, network>>

\* The crash falls between set_current_term and set_voted_for of
\* become_candidate: the new term is on disk with the old vote.
TornCandidate(n) ==
    /\ MayStand(n)
    /\ current_term' = [current_term EXCEPT ![n] = @ + 1]
    /\ Forget(n)
    /\ UNCHANGED <<voted_for, log, commit_index, network>>

\* The same in become_follower (vote stale), or right after it (vote gone),
\* before the handler proper has written anything.
TornFollower(n, m) ==
    /\ m.to = n
    /\ m.term > current_term[n]
    /\ current_term' = [current_term EXCEPT ![n] = m.term]
    /\ \/ UNCHANGED voted_for
       \/ voted_for' = [voted_for EXCEPT ![n] = Nil]
    /\ Forget(n)
    /\ Exchange(m, {})
    /\ UNCHANGED <<log, commit_index>>

\* The crash falls inside the loop of AppendEntries, or after it and before
\* set_commit_index: the entries before the first divergence j are kept, the
\* conflicting rest is truncated, and those of m up to some i are appended.
TornAppend(n, m) ==
    /\ m.type = "AppendEntries" /\ m.to = n
    /\ Accepts(n, m)
    /\ current_term' = [current_term EXCEPT ![n] = TermAfter(n, m)]
    /\ voted_for' = [voted_for EXCEPT ![n] = VoteAfter(n, m)]
    /\ \E j \in FirstDiverging(log[n], m.prev_log_index, m.entries) :
         \E i \in (j - 1)..Len(m.entries) :
            log' = [log EXCEPT ![n] =
                      Overwrite(@, m.prev_log_index, m.entries, j, i)]
    /\ Forget(n)
    /\ Exchange(m, {})
    /\ UNCHANGED commit_index

Step(n, m) ==
    \/ HandleRequestVote(n, m)
    \/ HandleRequestVoteReply(n, m)
    \/ HandleAppendEntries(n, m)
    \/ HandleAppendEntriesReply(n, m)

Crash(n) ==
    /\ n \in Crashing
    /\ \/ Restart(n)
       \/ TornCandidate(n)
       \/ \E m \in net :
            Deliverable(m) /\ (TornFollower(n, m) \/ TornAppend(n, m))

Next ==
    \E n \in Node :
        \/ BecomeCandidate(n)
        \/ Heartbeat(n)
        \/ \E v \in Value : AppendLocalEntry(n, v)
        \/ \E m \in net : Deliverable(m) /\ Step(n, m)
        \/ Crash(n)

Spec == Init /\ [][Next]_vars

(***************************************************************************)
(* The commit rule above lets an index in that fewer than a majority hold. *)
(* To show that nothing else in the core loses an entry, SpecQuorum keeps  *)
(* only the behaviours in which a leader raises its commit index to k when *)
(* the reports it has are of a majority holding k; what follows from those *)
(* commits (truncation, restarts, later elections) is unrestricted.        *)
(***************************************************************************)
Majority(s) == Cardinality(s) * 2 > Cardinality(Node)

CommitsOnMajority(n) ==
    commit_index'[n] > commit_index[n] =>
        Majority({p \in Node : Matches(n, match_index'[n])[p] >= commit_index'[n]})

StepOnMajority(n, m) ==
    \/ HandleRequestVote(n, m)
    \/ HandleRequestVoteReply(n, m)
    \/ HandleAppendEntries(n, m)
    \/ HandleAppendEntriesReply(n, m) /\ CommitsOnMajority(n)

NextOnMajority ==
    \E n \in Node :
        \/ BecomeCandidate(n)
        \/ Heartbeat(n)
        \/ \E v \in Value : AppendLocalEntry(n, v)
        \/ \E m \in net : Deliverable(m) /\ StepOnMajority(n, m)
        \/ Crash(n)

SpecQuorum == Init /\ [][NextOnMajority]_vars

(***************************************************************************)
(* The abstract view: a replica knows what its commit index covers, and    *)
(* what is chosen is what the furthest of them knows.                      *)
(***************************************************************************)
Known == [n \in Node |-> SubSeq(log[n], 1, commit_index[n])]

Furthest == CHOOSE n \in Node : \A p \in Node : commit_index[p] <= commit_index[n]

Abstract == INSTANCE ReplicatedLog
              WITH Replica <- Node, chosen <- Known[Furthest], known <- Known

(***************************************************************************)
(* Properties                                                              *)
(***************************************************************************)

\* Every variable keeps its shape; an index to send next is never 0, so that
\* `nidx - 1' and `ni - 1' of the code do not wrap around.
TypeOK ==
    /\ current_term \in [Node -> Nat]
    /\ voted_for \in [Node -> Node \cup {Nil}]
    /\ log \in [Node -> Seq(Entry)]
    /\ commit_index \in [Node -> Nat]
    /\ role \in [Node -> {"Follower", "Candidate", "Leader"}]
    /\ next_index \in [Node -> [Node -> Nat \ {0}]]
    /\ match_index \in [Node -> [Node -> Nat]]
    /\ votes_received \in [Node -> Nat]
    /\ net \subseteq Message
    /\ delivered \subseteq net

IsVote(m) == m.type = "RequestVoteReply" /\ m.vote_granted

\* A node gives its vote of a term to one candidate only, itself included,
\* whatever crashes fall between or inside its handlers.
OneVotePerTerm ==
    \A v \in net : IsVote(v) =>
        \A m \in net :
            /\ IsVote(m) /\ m.from = v.from /\ m.term = v.term => m.to = v.to
            /\ m.type = "RequestVote" /\ m.from = v.from => m.term # v.term

\* No two nodes lead in the same term, now or through the messages they sent.
ElectionSafety ==
    /\ \A a, b \in Node :
         role[a] = "Leader" /\ role[b] = "Leader"
           /\ current_term[a] = current_term[b] => a = b
    /\ \A m \in net, n \in Node :
         m.type = "AppendEntries" /\ role[n] = "Leader"
           /\ m.term = current_term[n] => m.from = n

\* Why elections are safe, as an invariant every step preserves: a node's
\* messages are never ahead of its term; within a term it keeps the vote it
\* sent, for itself if it stands; a vote answers a request for that term; and
\* whoever leads, or ever sent an AppendEntries, was voted for by another node.
Elected(c, t) == \E v \in net : IsVote(v) /\ v.to = c /\ v.term = t

Requested(c, t) ==
    \E r \in net : r.type = "RequestVote" /\ r.from = c /\ r.term = t

ElectionInv ==
    /\ \A m \in net : m.from # m.to /\ m.term <= current_term[m.from]
    /\ \A m \in net : m.term = current_term[m.from] =>
         /\ IsVote(m) => voted_for[m.from] = m.to
         /\ m.type = "RequestVote" => voted_for[m.from] = m.from
    /\ \A m \in net : IsVote(m) => Requested(m.to, m.term)
    /\ \A m \in net : m.type = "AppendEntries" => Elected(m.from, m.term)
    /\ \A n \in Node :
         /\ role[n] # "Follower" => voted_for[n] = n
         /\ role[n] = "Leader" => Elected(n, current_term[n])
    /\ OneVotePerTerm

\* Two logs with an entry of the same term at the same position are equal up
\* to there; and an entry's index is its position, which the store relies on.
LogMatching ==
    \A a, b \in Node :
        \A i \in 1..Len(log[a]) :
            /\ log[a][i].index = i
            /\ i <= Len(log[b]) /\ log[a][i].term = log[b][i].term
                 => SubSeq(log[a], 1, i) = SubSeq(log[b], 1, i)

\* Whatever any node holds from a leader's term, that leader holds too: an
\* entry lost or invented between append and delivery would show here.
LeaderHoldsItsTerm ==
    \A l, n \in Node :
        role[l] = "Leader" =>
            \A i \in 1..Len(log[n]) :
                log[n][i].term = current_term[l] =>
                    i <= Len(log[l]) /\ log[l][i] = log[n][i]

\* What a leader believes a peer holds, the peer holds, as long as it is in
\* the leader's term: stale, repeated or reordered replies may only make the
\* leader believe less.
MatchIndexSound ==
    \A l, p \in Node :
        role[l] = "Leader" /\ current_term[p] = current_term[l] =>
            /\ match_index[l][p] <= Len(log[p])
            /\ match_index[l][p] <= Len(log[l])
            /\ SubSeq(log[p], 1, match_index[l][p])
                 = SubSeq(log[l], 1, match_index[l][p])

\* What a node has committed stays inside its log: DeterministicApplyLoop
\* indexes the log with every value up to commit_index.
CommitWithinLog == \A n \in Node : commit_index[n] <= Len(log[n])

\* Two nodes never commit different entries at one position.
StateMachineSafety ==
    \A a, b \in Node :
        \A i \in 1..commit_index[a] :
            i <= commit_index[b] =>
                /\ i <= Len(log[a]) /\ i <= Len(log[b])
                /\ log[a][i] = log[b][i]

\* A leader holds every entry that any node has committed in its term or an
\* earlier one: failover loses no committed write.
LeaderCompleteness ==
    \A l, n \in Node :
        role[l] = "Leader" /\ current_term[n] <= current_term[l] =>
            \A i \in 1..commit_index[n] :
                i <= Len(log[n]) => i <= Len(log[l]) /\ log[l][i] = log[n][i]

\* A committed prefix is never rewritten and the commit index never goes
\* back, through truncations, restarts and torn writes alike.
CommittedPrefixStable ==
    [][\A n \in Node :
         /\ commit_index'[n] >= commit_index[n]
         /\ SubSeq(log'[n], 1, commit_index[n])
              = SubSeq(log[n], 1, commit_index[n])]_vars

\* Through all elections, losses and crashes the nodes together behave as one
\* log of committed entries, of which each node knows a growing prefix.
ImplementsReplicatedLog == Abstract!Spec

\* ARCHITECTURE.md: a quorum is required for writes.  When a leader commits
\* an index, a majority of the nodes have that entry on disk.
QuorumCommit ==
    [][\A n \in Node :
         role'[n] = "Leader" /\ commit_index'[n] > commit_index[n] =>
            Majority({p \in Node :
                /\ commit_index'[n] <= Len(log'[p])
                /\ log'[p][commit_index'[n]] = log'[n][commit_index'[n]]})]_vars

=============================================================================
