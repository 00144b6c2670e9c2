# TLA+ verification of Titan Distributed SQLite

Titan replicates SQLite databases: every node runs a `titan-node` process, a
Raft core orders SQL statements in a replicated log, and each node executes the
committed ones on its own database file. This directory holds TLA+ models of
that code, the TLC configurations that check them on small instances, and
machine-checked proofs of what holds for every instance.

    tlc -config raft_election.cfg MCRaft      # one run, see "Runs"
    tlapm TitanRaftProofs.tla                 # the core: types, elections, logs
    tlapm TitanRaftSafetyProofs.tla           # the core: what a leader knows, commitment
    tlapm CatchUpProofs.tla                   # catching up: nothing is set back
    tlapm RaftStoreProofs.tla                 # all proofs of the store
    tlapm TitanServerProofs.tla               # all proofs of the server
    tlapm SqlClusterProofs.tla                # data, transactions, a client's calls
    tlapm FileProofs.tla                      # WAL, frame batches, snapshots, PID file
    tlapm FoldLemmas.tla                      # lemmas on folds, for the last two

## 1. The system

| Component | State | Operations | Where |
|---|---|---|---|
| Raft core | term, vote, log, commit index (stored); role, votes, next and match index (volatile) | `tick`, `step` for four message types, `append_local_entry` | `crates/raft-core/src/lib.rs` |
| State store | the four stored values, as SQLite rows with a cache | `set_*`, `append_entry`, `truncate_from`, load on start | `crates/raft-core/src/store.rs` |
| Apply loop | `last_applied`, the batch being executed | `apply`, then execute and confirm each entry | `lib.rs:426`, `main.rs:407` |
| Node server | the node, the database and the pending confirmations, each behind a mutex | Raft loop thread; `/execute`, `/transaction`, `/query`, `/status` | `cmd/titan-node/src/main.rs` |
| UDP transport | datagrams in flight | send, receive; the legacy `SQL:` client | `main.rs:354`, `main.rs:393` |
| SQLite adapter | the database file | execute, validate in a savepoint, read | `crates/sqlite-adapter` |
| WAL parser | none | parse frames and headers | `crates/wal-replicator` |
| Snapshot manager | files of a directory | save, load the latest | `crates/snapshotter` |
| Python client | cached leader address | execute with one retry, transaction, query | `clients/python/titan_db.py` |
| Python cluster manager | child processes, PID file | start, stop | `clients/python/titan_server.py` |
| Rest | | address parser, authentication, TLS, logging, RPC types, dashboard, examples | see `PROJECT.json` |

**How they interact.** A client posts a statement to an HTTP handler, which
validates it under the database mutex, appends it to the log under the node
mutex and, before it lets go of that mutex, stores a one-shot sender under the
new index. The Raft loop thread moves datagrams in and out of the core and,
once per turn, takes all three mutexes, executes what has been committed and
fires the senders. Cores of different nodes interact by datagrams only. The
core writes each stored value through as it changes it, one SQLite write each.

**What is hard about it.** Datagrams are lost, delayed, reordered and
duplicated; a process may die between any two store writes and between commit
and execution; leadership may swing back to a node with old entries;
handlers, the loop and five-second timeouts interleave on three mutexes;
statements are validated before and executed after others are ordered ahead of
them; files are read that their writers left at any point.

**What makes each part correct.**

- *Core*: one vote per term and node, one leader per term, matching logs, no
  committed entry lost, reordered or rewritten, a commit backed by a majority.
- *Apply loop*: committed entries executed in order, each exactly once.
- *Server*: a client that is told `committed` finds its write in the database;
  nobody waits for ever; the mutexes cannot deadlock.
- *Store*: a restart finds every vote and entry the node told others of, and
  a log without gaps that holds what was committed.
- *Catch-up*: a follower that is reached again and again gets the leader's log.
- *Data*: databases are what the log makes of them; a transaction takes effect
  as a whole; what was validated takes effect. *Client*: a call writes once.
- *Files*: what a parser or a loader accepts is what was written; a snapshot
  that was saved is found again; a node that runs is in the PID file.

`PROJECT.json` lists 39 hazards at the lines where they bite, with the property
that covers each; one has none, and the reason.

## 2. Modules

    ReplicatedLog          abstract: one growing sequence, known by prefixes
        ^ implemented by (checked and proved)
    TitanRaft  <---- MCRaft          core of all nodes and the network
        ^----------- TitanRaftProofs         types, votes, elections, logs
                         ^-- TitanRaftSafetyProofs   match_index, commitment
    TitanServer <--- MCServer        one process, lock by lock
        ^----------- TitanServerProofs
    DurableNode            abstract: one node's disk as TitanRaft assumes it
        ^ implemented by (checked and proved)
    RaftStore <----- MCStore         one node and its store, write by write
        ^----------- RaftStoreProofs        (run by MCFiles)

    CatchUp <------- MCCatchUp       extends TitanRaft: one reign, to its end
        ^----------- CatchUpProofs          (and TitanRaftProofs)
    SqlCluster <---- MCSql           databases, adapter, handlers, client
        ^----------- SqlClusterProofs       (and FoldLemmas)
    WalFile, FrameBatch, SnapshotDir, ClusterManager <---- MCFiles, MCManager
        ^----------- FileProofs             (and FoldLemmas)

### TitanRaft: the consensus core

A state holds every node's `RaftNode` fields under their own names, and `net`,
the datagrams ever sent. A handler runs under the node's mutex, so it is one
action.

| Code | Action |
|---|---|
| `tick`, `become_candidate` | `BecomeCandidate`, `Heartbeat` |
| `append_local_entry` | `AppendLocalEntry` |
| `step`: RequestVote and its reply, `become_leader` | `HandleRequestVote`, `HandleRequestVoteReply` |
| `step`: AppendEntries and its reply | `HandleAppendEntries`, `HandleAppendEntriesReply` |
| `new_with_store` after a crash between handlers | `Restart` |
| ... inside `become_candidate`, `become_follower`, the append loop | `TornCandidate`, `TornFollower`, `TornAppend` |

`step` begins by adopting a higher term; `TermAfter`, `VoteAfter` and
`RoleAfter` are the values the handler proper then works with. `Merge` is the
append loop: nothing changes up to the first diverging entry, and from there
the log is the message's. `IsSelected` is the element that
`matches[len - (peers + 1) / 2]` picks of the sorted vector.

Abstractions. Time: deadlines are left out, any node may time out first and at
any moment. Payloads: members of `Value`. `candidate_id` and `leader_id` equal
the sender and are not repeated. Loss: a datagram that is never delivered.
Duplication: a delivered datagram stays in `net`; with `Duplicates = FALSE` it
does not. Outbox: sent with the handler that fills it, since a crash that loses
the outbox looks like the loss of its datagrams. `InstallSnapshot` is an empty
stub in the code. Writes to the store are assumed to survive a crash.

Bounds, all named: `Electable` (who may stand in which term, and so the number
of terms), `MaxLog` (up to which length clients append in a term), `Crashing`.

`SpecQuorum`. The commit rule of the code does not need a majority (finding 1),
and then no promise about committed entries holds. To find out whether
anything *else* could break them, `SpecQuorum` keeps the behaviours in which a
leader that raises its commit index has reports of a majority for it. All
other steps are those of `Spec`.

### ReplicatedLog: what the core promises

One sequence of chosen entries that only grows; each replica knows a prefix
that only grows. `TitanRaft` implements it with `known[n]` as the committed
part of node n's log and `chosen` as that of the node that is furthest.

### TitanServer: one process

The loop thread, the HTTP handlers and the three mutexes; an action runs from
one acquisition to the next, and a critical section that takes no second lock
is one action.

| Code | Action |
|---|---|
| datagrams and ticks (`main.rs:354-381`) | `Consensus`, `LegacyClient` |
| apply block: the three `lock()` calls, the loop, the end (`408-429`) | `Acquire`, `Execute`, `Finish` |
| `handle_execute`, `handle_transaction`: validate; append; store the sender; wait | `Validate`, `AppendEntry`, `Register`, `Confirmed`, `GiveUp` |
| process death and `run_server` | `Crash` |

The two write handlers have the same structure and are one model: a
transaction is one payload. Consensus is abstract here: behind the commit index
`Follow` rewrites the log as some other leader may, and the commit index grows
within the log. That is what `CommitWithinLog`, `CommittedPrefixStable` and
`ImplementsReplicatedLog` say of each node of `TitanRaft` under `SpecQuorum`, and
finding 1 breaks: what is checked and proved of the server, and of the data below,
is true of a committed prefix that is stable. Whether SQLite
accepts a statement is left out: the code confirms it either way. Bounds:
`MaxLog`, `MaxCrashes`; other writers leave room in the log for the requests
still to come, so that the bound never keeps a request waiting.

### RaftStore: one node's disk, and DurableNode

`TitanRaft` lets a handler be atomic and names the states a crash inside it may
leave (`TornCandidate`, `TornFollower`, `TornAppend`). `RaftStore` is where that
comes from: a handler changes the node in memory and leaves a queue of calls on
the store, each one SQL statement, carried out one by one.

| Code | Action |
|---|---|
| `step`: a higher term; RequestVote; AppendEntries refused, accepted; replies | `HearTerm`, `GrantVote`, `RefuseEntries`, `HandleAppendEntries`, `BecomeLeader`, `LeaderCommits` |
| `tick`, `append_local_entry` | `BecomeCandidate`, `AppendLocalEntry` |
| `set_*`, `append_entry`, `truncate_from` | actions of these names |
| their failure: panic with the lock held; ignored for the `DELETE` | `WriteFails`, `DeleteVoteFails` |
| `take_outbox` | `TakeOutbox` |
| process death, `SqliteStateStore::new`, `new_with_store` | `Crash` |

The tables are partial functions from keys to values; loading sorts rows by
`idx`. After `WriteFails` the mutex is poisoned and nothing but a restart is
left. Other nodes are inputs: a leader of term t sends pieces of
`LeaderLog[t]`, and `Possible` admits those leaders that `TitanRaft`'s
`LogMatching` and `LeaderCompleteness` leave possible. An index and a term
determine an entry, so payloads are left out. A write that returned is taken to
survive (`synchronous=FULL`).

`DurableNode` is the abstract disk: a handler that happens whole, or a crash
that leaves the old vote under a new term. The refinement maps a running
handler to the state it found (`start`). It also showed one thing `TitanRaft`
does not spell out: a vote whose `DELETE` failed is back after a restart. That
needs no action there, for the node gave no vote in between, so `TornFollower`
at the point of the failed `DELETE`, followed by the same steps (its datagram
being delivered again), ends in the same state.

### CatchUp: what must happen under one leader

`TitanRaft` with a different start, `become_leader` of the last term, and with
fewer actors: a leader, followers, nodes that are down. The handlers are
`TitanRaft`'s own. `Arrives` adds the two ways a datagram goes: lost (`Lose`),
or never sent because it does not fit (`Fits`). `MaxDatagram` counts entries
where the code has 65,507 bytes. Nobody stands for election, as heartbeats reset
the deadlines; what happens when they do is the subject of the other runs.

### SqlCluster: what statements do to the data

Several processes, each with a database, over one sequence of chosen entries as
in `ReplicatedLog`; the calls of the Python client from its search for a leader
to its answer. SQLite is external: a database is a set of items that a statement
creates or drops, a batch stops at the first statement that fails, and a
connection has a transaction, a savepoint and what the file will show.

| Code | Definition |
|---|---|
| `execute_write`, `validate_sql` of the adapter | operators of these names; `Validated` for the loop over a transaction's statements |
| `handle_execute`, `handle_transaction`: validate, append, wait | `Validate`, `AppendEntry`, `Answer` |
| the text of a transaction, `BEGIN ... COMMIT` | `Payload` |
| `handle_query` | `Query`, which is enabled for a statement that writes |
| the apply block | `Execute` |
| `_get_leader`, `_find_leader`; the second attempt of `execute()` | `FindLeader`; `Refused`, `Retries`, `TriesAgain` |
| `ConnectionError` and `Timeout`, raised to the caller | `Fails`, and `Crash` for the calls a process was serving |
| process death and restart | `Crash` |

Consensus: a new leader's log holds everything chosen and maybe more; an old one
goes on appending until it hears of the new one (`StepDown`); of the entries put
at one index any may be chosen. Which one, and that a leader of three commits
too early, is `TitanRaft`'s matter. Whether a write was confirmed or only accepted,
within the handler's five seconds or not, is `TitanServer`'s: both are answers that
say success (`Answer`). `told` is what the caller knows in the end: success, that it
was refused, or that its call failed. A call fails at any moment, and its handler,
which does not hear of it, goes on: it may have written, be about to, or never do
so. Statements are those the module's head lists; `SAVEPOINT` and `ROLLBACK` in the
text of a client are not among them.

### WalFile, FrameBatch, SnapshotDir, ClusterManager: files

Each has the writer as a state machine, interrupted anywhere, and the reader as
an operator that properties apply to every state. `WalFile`: SQLite (external)
writes frame headers and pages, commits, rolls back, checkpoints, starts the log
again under a new salt over the old frames, crashes; the reader is
`parse_wal_bytes`. Pages are not modelled beyond being there, a word has two
bytes. `FrameBatch`: lines, the last of which may be cut, and
`parse_frame_batch`. `SnapshotDir`: `save_snapshot`, whose `fs::write` first
truncates, and `load_latest_snapshot` in every order of the directory.
`ClusterManager`: `start`, `start_node` and `stop` of `TitanServer` objects
around one PID file, with processes that end, and numbers that are given again.
Nothing in `titan_server.py` keeps two programs apart, between the check for the
file (line 244) and the write (line 274) or anywhere else, and so neither does the
model: any call may begin while others run, `write_text` is two steps (a file that
is open may meanwhile be read, removed, or written by another), and a program may
be killed at each of them. What is lost in that way is known by two history
variables. `lost` has the nodes that no list has any more: those of a start that
was killed before it wrote, and those whose list `start_node` wrote over.
`overlapped` has the managers of calls that were under way together, one of them a
start; a restart of the host empties it. `NodesAreListed` says nothing of the lost
nodes, and nothing once calls have overlapped, when it is false: two starts that
both find no file start nodes of the same ids, and the second to write lists its
own processes, which ended because they did not get the ports. What comes of this
is finding 5.

| Code | Action |
|---|---|
| `start`: the check, `Popen` for each node, `write_text` | `Start`, `Spawn`, `OpenFile`, `WriteFile` |
| `start_node` | `StartNode`, then the same |
| `stop`: its children; `exists`; `read_text`; each `os.kill`; `unlink` | `Stop`, `FindFile`, `ReadFile`, `Signal`, `Unlink` |
| the program ends or is killed; a node ends; another process gets the number; the host restarts | `End`, `NodeEnds`, `OtherStarts`, `Reboot` |

## 3. Runs

| Run | Instance | What it shows |
|---|---|---|
| `raft_election` | 3 nodes, 2 terms, anybody stands, all may crash, duplicates | `OneVotePerTerm`, `ElectionSafety`, and that `ElectionInv` is a valid invariant |
| `raft_log` | 3 nodes, 2 leaders in turn, up to 2 entries, duplicates | `TypeOK`, `LogMatching`, `LeaderHoldsItsTerm`, `MatchIndexSound`, with the code's commit rule |
| `raft_quorum` | 3 nodes, leadership n1, n2, n1, n2, conflicting entries at one index, n1 crashes, torn writes | under `SpecQuorum`: `StateMachineSafety`, `LeaderCompleteness`, `CommittedPrefixStable`, `CommitWithinLog`, `MatchIndexSound` across restarts, `ImplementsReplicatedLog` |
| `raft_commit_rule` | 3 nodes, 1 term, 1 write, no duplicates | **violates** `QuorumCommit` |
| `raft_even_cluster` | 4 nodes, 1 term, duplicates | **violates** `ElectionSafety` |
| `server_crash` | 2 requests, log of 3, 1 crash at any point, fairness | `AppliedOnceInOrder`, `NoLostConfirmation`, `ConfirmedWasExecuted`, `EveryRequestAnswered`, `CommittedGetsApplied`, no deadlock |
| `server_ack` | 1 request | **violates** `AckedWriteIsInDatabase` |
| `server_gap` | 1 request, 1 crash | **violates** `AppliedExactlyOnce` |
| `raft_catch_up` | leader with 2 entries and 1 write, one node down, one follower with any of 6 logs; a datagram holds 2 entries; loss, reordering, crashes, torn writes, fairness | `OnlySizeLeavesBehind`, `WrittenIsCommitted`, `NeverFallsBack` |
| `sql_cluster` | 2 nodes, 2 calls, one that creates a table and one of 7 kinds of SQL, which fail at any moment; 2 reigns, 1 crash, one stray write per node | `DatabaseFollowsLog`, `TransactionAllOrNothing`, `CallWritesOnce`, `FailsOnlyByRace` |
| `files_crash` | the store: 3 terms, two other leaders, this node in between, 2 crashes, failing writes; the WAL: 3 frames, 3 rounds; 4 lines; 3 snapshot indices; the PID file: 2 nodes, 3 programs, one of which calls `start_node`, 3 process numbers, 1 reboot | `RowsHaveNoGap`, `FileHoldsNode`, `ToldVotesSurvive`, `AckedEntriesSurvive`, `CommittedStaysInFile`, `ImplementsDurableNode`; `ReportsWhatWasWritten`, `RefusesOnlyTornOrStale`; `BatchIsWholeAndInOrder`; `LoadsNewest`; `NodesAreListed` |
| `manager_stop` | the same PID file and programs | **violates** `StopStopsAll` |

**Why the bounds are enough to be of use.** Votes and elections involve two
terms at a time and three nodes are the default cluster. Conflicts in a log
need two leaders; truncation and backtracking of `next_index` need a second
entry. Losing an entry that was counted but is of an old term needs leadership
to return twice, which is the schedule of `raft_quorum`; there the log stays at
one index, as longer logs with four terms are beyond TLC. Overwriting a request's
entry needs one index; a batch in which a confirmation could go to the wrong
entry needs two; a third leaves room for another writer. In the store a
truncation that must remove more than one row needs two entries of one leader,
one of this node, and a third, shorter log over them: three terms.
For catching up, three entries and a limit of two make one message too large,
and step-backs that go too far show with two. Races over data need two calls,
stale validation two nodes and two reigns; that one of the calls creates a table
(`SqlSpec` of `MCSql`) keeps the run short, and each of the seven kinds of SQL meets
another that way. A stale frame behind a fresh one
needs a second round, and a third tells the last round from any earlier one.
The store, the WAL, the batch, the snapshots and the PID file have no state in
common: `MCFiles` picks one of them in the initial state, and only that one moves.
For the PID file, two programs that start overlap, the third writes over their
list, and the third process number is one that comes back to a stranger.
Every property has a mutant, a slip in one definition of the code (marked
"Slip" in the modules), that TLC finds within these bounds.

**Deadlock.** Only the server runs check it. In the others terms, writes, calls,
lines, rounds and crashes are bounded: a model whose elections are used up, whose
mutex is poisoned, or whose clients are all served may stop.

**The views.** `net` never shrinks, and most states differ only in messages that
can no longer do anything. `LiveView` drops from a message what is dead:
`MCRaft` lists the cases. Two states with the same view allow the same steps but for
some that leave the view as it is: a spent reply is read and ignored, a repeated
request is answered once more as it was. No property looks at what is dropped,
except those about past votes and candidacies, for which `ElectionView` keeps these.
This is an argument on paper, on which the runs rest and the theorems of section 5
do not. It uses that datagrams may be repeated; the run without duplication has no
view.
`StoreView` drops what was said in terms the file is past, which the properties
ask nothing of, `start` between handlers, and the memory of a node whose mutex is
poisoned. `ManagerView` drops a manager's lists outside the calls that read them,
which write them anew, and the difference between a stopped program and one that is
gone; from `lost` the numbers of nodes that have ended, and all of it once calls have
overlapped; and of `overlapped` all but whether it is empty, which is what
`NodesAreListed` asks.
`SqlView` drops of a call that is over, or has but an answer to send
that nobody waits for, what nothing reads any more: how it got there, what its
caller was told beyond what `CallWritesOnce` asks, and, when it wrote nothing, what
it was about. An action property is checked on every step, also on those to a state
whose view was met before.
Symmetry is used only where the schedule does not tell nodes or requests apart,
and never with liveness.

**Fairness.** None in the core. `FairSpec` of the server: a thread that can go
on goes on (weak), and a handler gets a mutex that is released again and again
(strong). `std::sync::Mutex` is not fair by itself, but in each turn the loop
sleeps 2 ms holding no lock, and every other holder is a finite critical
section. That the loop gets from receiving to its apply block assumes that its
`while let` empties the socket now and then. No progress of consensus and no
timer precision is assumed. `CommittedGetsApplied` speaks of what is committed once
the bounded crash is over; as that may come before anything else, behaviours
without a crash are among those it speaks of.

`CatchUpSpec`: the leader ticks (weak fairness of `Heartbeat`: the loop calls
`tick` every 10 ms), and a link that is used again and again delivers again and
again, in each direction (strong fairness of `Receive` and `HearFrom`). No
particular datagram is sure to arrive: those that carry too much never do, and
the fairness is of handling *some* message. Crashes of a follower may go on for
ever.

## 4. Findings

1. **Commit without a majority** (`lib.rs:378`, run `raft_commit_rule`). The
   rule selects the value held by half the nodes rounded down, in a cluster of
   three the leader's own last index; ARCHITECTURE.md asks for a quorum. With
   a majority counted the promise is kept (`MajoritiesHoldCommits`).
2. **Votes counted, not voters** (`lib.rs:307`, run `raft_even_cluster`). With
   four nodes and a repeated reply two candidates win one term. With three
   nodes this cannot happen, which is proved.
3. **Another write's confirmation** (`main.rs:422`, run `server_ack`). Pending
   confirmations are found by index only.
4. **Committed entries skipped after a restart** (`lib.rs:108`, run
   `server_gap`). The commit index is stored before the entry is executed and
   `last_applied` restarts there.
5. **`stop` does not stop all** (`titan_server.py:274`, run `manager_stop`). A start
   that is killed before it writes the PID file leaves nodes that no later `stop`
   finds; the same comes of `start_node`, which writes over the list of the nodes
   that run (line 222), and of two starts at once (lines 244 and 274). The docstring
   of `stop` says "Stop all running cluster nodes."

Beside these, five things a reader may not expect hold of the models, and of the
code. (a) `send_to` refuses a message of more than 65,507 bytes and the loop
ignores it. A follower that needs more is never caught up
(`OnlySizeLeavesBehind`), and it need not be far behind: every refusal, also one
to an old or repeated message, moves `next_index` back by one, so that the
message that would succeed may be skipped, lost, and never be small enough again.
(b) A batch that contains `COMMIT` ends the savepoint it is validated in: it is
refused and has changed the database of this node alone, although
`sqlite-adapter/src/lib.rs:39` says "the database is never modified". The other
ways to stray from the log are listed at `DatabaseFollowsLog`. (c) With the magic
number 0x377f0683, the parser reads the checksums of frames with their bytes
swapped, although SQLite stores them big-endian in either case; and it reports
frames behind the last commit, as it does not look at commit marks or verify
checksums. (d) A cut last line of a frame batch may be accepted with too small a
size. (e) `titan_db.py:33` has a `TitanError` "Raised when a Titan operation fails",
and one is raised when the connection breaks (lines 153 and 172), although the
operation may have been done, or may still be; the message says "Connection failed",
and a timeout comes as an exception of `requests`. `CallWritesOnce` promises nothing
of such a call but that it writes no more than once.

## 5. Proofs

Each module of proofs is one argument and ends in its theorems. A property was
first checked on small instances, then proved for all.

### Elections: `TitanRaftProofs`

For any set of nodes, any payloads, any schedule bounds and with duplicates or
without:

- `TypeCorrect`: `Spec => []TypeOK`. One lemma per action; the interesting
  part is that `next_index` stays positive and that merged logs are logs.
- `ElectionInvariant`: `Spec => [](TypeOK /\ ElectionInv)`, and from it
  `VotesAreUnique`: `Spec => []OneVotePerTerm`.
- `ElectionIsSafe`: `Spec => []ElectionSafety` for clusters of at most three,
  which `raft_even_cluster` shows to be necessary.

*Argument.* `OneVotePerTerm` is not inductive: a node could have sent a vote its
disk does not show. `ElectionInv` adds that messages are not ahead of their
sender's term; that in its current term a node's stored vote is the one it
sent, for itself if it stands; that a vote answers a request; and that a leader,
or the sender of any AppendEntries, was voted for by somebody else. Most
actions are *quiet*: terms do not go back, a vote changes only with the term,
nobody new stands or leads, and no vote is sent. One lemma shows that quiet steps
preserve `ElectionInv`; three actions are not quiet and have a proof each.
In a cluster of at most three, two leaders of a term would each need the vote of
another node: the third one for both, or the other candidate, who voted for
itself.

### Logs: `TitanRaftProofs`

For any schedule, payloads and length of the logs, in clusters of at most three:

- `LogsMatch`: `Spec => []LogMatching`; `LeadersHoldTheirTerms`:
  `Spec => []LeaderHoldsItsTerm`.
- `LogInvariant`: `Spec => []LogInv`, from which they follow.

*Argument.* Logs and AppendEntries are cut into *links*: an entry, its index, and
the term of the entry before it. Two logs match as far as they share links, so
it is enough to follow links. `LogInv` says that an index and a term determine
the link, wherever it stands; that its term was led by somebody, and that the
leader of a term, while it leads, has all links of that term; that terms do not
fall along a log and are not ahead of their holder's. `Merge` and
`send_append_entries` only move links (that is what the lemmas about the model's
operators say), and a torn append is a merge of a shorter message. Only
`append_local_entry` makes a link, behind all others of its term.

### What a leader knows: `TitanRaftSafetyProofs`

`MatchesAreSound`: `Spec => []MatchIndexSound`, and `MatchInvariant`, with the
code's own commit rule, in clusters of at most three.

*Argument.* The invariant is about every handler, but most of what a handler does
is beside the point. `StepRule` says of any step what is to the point: how terms
and roles may change, how one node's log may, and what may be sent. It is proved
handler by handler, and the invariant is preserved by `StepRule` alone.
`MatchInv` says that a `match_index` lies within the leader's log and was
acknowledged in its term, that the messages of a leader's term are stretches of
its log, and that who acknowledged and is still in that term agrees with the
leader's log as far as it said.

### Commitment: `TitanRaftSafetyProofs`

In clusters of at most three, with logs, terms, crashes, losses and duplicates
without bound:

- `NothingChosenIsLost`: `Spec => []SafeInv`.
- for `SpecQuorum`: `StateMachinesAreSafe`, `LeadersAreComplete`,
  `CommitsAreInLogs` (`[]StateMachineSafety`, `[]LeaderCompleteness`,
  `[]CommitWithinLog`), `CommitsAreStable` (`CommittedPrefixStable`), and
  `CoreImplementsReplicatedLog`, the refinement; all from `CommitInvariant`.
- for `SpecQuorum`: `MajoritiesHoldCommits` (`QuorumCommit`, which the run
  `raft_commit_rule` shows violated by the code's own rule): what a majority has
  reported a majority has on disk when it is committed, though reports come late
  and the reporters may have moved to other terms.

*Argument.* An entry may be chosen while its leader has it and some other node has
acknowledged it, or has not gone past its term and might still do so
(`MayBeChosen`). `SafeInv` says that such an entry is `Kept`: leader and
acknowledger hold it, so does every later leader and every candidate that has a
vote, no link contradicts it (`After`), and no message of its term or a later one
would remove it (`Fits`). The interesting step is a vote for a later term: of
leader and acknowledger one is the voter or the candidate, the voter's log passed
the comparison of `last_log_term` and `last_log_index`, and a candidate that is no
worse than a log with the entry has it. `SafeInv` holds of the code as it is:
replication loses nothing that two of three nodes hold.

What the code *commits* is another matter (finding 1), so the rest is for
`SpecQuorum`: there, `CommitInv` says that what a node has committed is a prefix
of its log that was chosen in no later term than its own, and that no AppendEntries
announces more. Two chosen prefixes agree by `SafeInv`. The theorems for
`SpecQuorum` thus say that the commit rule is the one thing in the way of the
core's promise.

*Why three.* With votes counted, not voters, four nodes may elect two leaders of
a term (finding 2), and nothing above survives that. And "leader and one other"
is a majority of at most three.

### The store: `RaftStoreProofs`

For any logs of the other leaders, any number of terms, crashes and failed
writes:

- `StoreTypeCorrect`, `NoGap`, `FileHolds`, `VotesSurvive`, `AcksSurvive`:
  `Spec => []P` for `StoreTypeOK`, `RowsHaveNoGap`, `FileHoldsNode`,
  `ToldVotesSurvive` and `AckedEntriesSurvive`.
- `CommittedStays`: `CommittedStaysInFile`; `StoreImplementsDurableNode`: the
  refinement of `DurableNode`.
- `StoreInvariant`: `Spec => []StoreInv`, from which they follow.

*Argument.* The file is behind the node by the calls still in the queue, and a
crash may come between any two. `StoreInv` has to describe every such state, and
does so by what is still to come: the queue is in an order of calls that handlers
produce (`MayFollow`), each call writes what the node holds (`LeadsTo`), the first
log call fits the rows that are there (`LogCallsFit`), and what no call will write
is on disk already (`DiskHoldsRest`). All of this is as true of the rest of a queue
as of the whole, so that carrying out one call preserves it. Two parts are about
what was said: the node keeps its word, and the disk keeps the word of what has
been sent, which may lag behind the node's only by a term that has
not spoken yet (`NewTermIsSilent`). Two parts are for the refinement: an
unfinished handler has left the disk between its start and its end
(`DiskIsBetween`), and start and end are one step of `DurableNode`
(`HandlerIsOneStep`). The handler happens, for `DurableNode`, when its last write
returns.

### The server: `TitanServerProofs`

For any number of requests, any log length and any
number of crashes:

- `ServerTypeCorrect`, `AppliedInOrder`, `NothingPassedBy`,
  `ConfirmedExecuted`: `Spec => []P` for `ServerTypeOK`, `AppliedOnceInOrder`,
  `NoLostConfirmation` and `ConfirmedWasExecuted`.
- `ServerInvariant`: `Spec => []ServerInv`, from which they follow.

*Argument.* None of the four is inductive alone. `ServerInv` cuts the log at
`Done`, the last index before the batch: everything executed is at or below it,
and the batch is exactly what follows. A handler between its append and its
registration holds the node lock, so the loop is outside its apply block and
`last_applied` stays below the new index; the table therefore only ever holds
indices above `Done`, one for each open channel. An append, another leader's
rewrite and a restart leave the committed prefix alone (`PrefixKept`). A crash
moves `Done` to the commit index, which skips entries (finding 4) but repeats
none.

### Catching up: `CatchUpProofs`

For any leader, followers, logs to start from and size of a datagram,
`FollowersNeverFallBack`: `CatchUpSpec => NeverFallsBack`, and `OnlyStretches`:
`CatchUpSpec => []CatchInv`. *Argument.* `CatchInv` says that every AppendEntries
under way is a stretch of the leader's log, which in its reign only grows. A
follower cuts its log where an entry of the message is of another term than its
own; the leader holds that entry of the message, so what the two logs share ends
before. A torn append cuts at the same place. Neither the order nor the age of
the message matters, and no bound on the cluster is needed.

### Data and calls: `SqlClusterProofs`

For any number of nodes, clients, elections and crashes and any SQL:

- `CallsWriteOnce`: `Spec => []CallWritesOnce`: one entry at most, one after a
  success, none after a refusal; after a failure there may be one or none.
- `SqlTypeCorrect`: `Spec => []SqlTypeOK`; `DatabaseFollowsTheLog`:
  `Spec => []DatabaseFollowsLog`.
- `TransactionsAreAtomic`: `Spec => TransactionAllOrNothing`.
- `FailuresAreRaces`: `Spec => []FailsOnlyByRace`.

*Argument.* `CallInv` says for each place of a call which of its two attempts may
be in the log: only the current one, and only from `AppendEntry` on. A refusal
comes before that, and nothing after it leads back to a second attempt. Nor does a
failure: its caller has been told, and the handler that is left behind only ends.

The rest is about folds: a batch is a fold of `RunStatement` over its statements,
a validation one over batches, a database one over the log. `DataInv` adds the
types and that a node that has not strayed has the database `Made` of the log up
to its index. What it needs is that a validation leaves the file alone unless the
batch commits, which is carried through the batch statement by statement: while
the transaction of the savepoint is open, the file is what it was; and that
without a `random` the file does not depend on what SQLite would pick.

A transaction is atomic because its statements were validated before they were
joined: up to an open comment, if there is one, they are creations, deletions and
`random`, no `BEGIN` and no `COMMIT` (`EntriesSound`, `JoinIsDecent`). So after the
`BEGIN` that `Payload` puts in front, the file stays as it was until the `COMMIT`
it puts behind (`BegunRun`), and that one is reached only if every statement
succeeded (`TransactionRun`): an item is there then if the last statement on it
created it (`LastWordStands`).

For `FailsOnlyByRace`, `RaceInv` follows an entry from its validation to its place
in the log: what was chosen stands where it was put (`EntriesPlaced`); an entry
passed on the database that the first `seen` entries make (`EntriesTried`), and
stands behind those (`EntriesBehind`), because a leader has executed nothing that
its log does not hold (`LeadersAhead`). What a batch does depends only on the items
it touches (`WriteFrame`); if no entry between touches them, and no two of its own
statements collide, each statement finds what it found in its validation.

### Files: `FileProofs`

For any page size, length, number of rounds, indices, processes and reboots; one
argument per model:

- *The WAL*: `WalTypeCorrect`, `WalReported` and `WalRefused`: `WalSpec => []P`
  for `WalTypeOK`, `ReportsWhatWasWritten` and `RefusesOnlyTornOrStale`, from
  `WalInvariant`. `WalInv` describes the file: first the frames of this round, with
  the header's salt and the checksums that were written, then what earlier rounds
  left under other salts, and at most one frame without its page, at the very end.
  The length of a file is a header and a number of whole frames, minus a page if
  its end is torn; `QuotientAndRest` then gives what the parser's division and
  remainder are, so that it counts the frames right (`CountsRight`) and notices a
  torn end.
- *Frame batches*: `BatchesAreWhole`: `BatchSpec => []BatchIsWholeAndInOrder`.
  `BatchInv`: what the loop has found is what was meant but for the size of a cut
  last line, or a broken line is there, and then the batch is refused. That indices
  rise from one frame to the next makes them rise between any two.
- *Snapshots*: `NewestIsLoaded`: `SnapSpec => []LoadsNewest`. `SnapInv`: a saved
  snapshot, and the one being saved, have a file. The loop over the directory keeps
  the greatest index so far, in any order of any finite directory.
- *The PID file*: `NodesStayListed`: `ManagerSpec => []NodesAreListed`, with calls
  that overlap at will. `ManagerInv` is about the behaviours in which no overlap
  counts: then one start at most is under way (`Calm`), and `Where` says for each
  place in it what the manager's own list of children holds: while it starts nodes,
  they are in the file or on the list; when it writes the file, all are on the list.
  Stops may overlap with each other: each only signals what the file names. What a
  step may do once calls have overlapped is beside the point, for that is not
  undone but by a restart of the host (`OverlapStays`), which leaves no node.

### Assumptions and limits

*Assumptions*: `NodeAssumption`, `BoundAssumption`, `DuplicatesAssumption`
(shapes of the constants); `AtMostThree` for `ElectionIsSafe` and for the proofs
about logs, matches and commitment, which the default cluster of three
satisfies; `CandidateAssumption`, `LeaderLogAssumption` (entries of a leader's log are
indexed by position and of its term or earlier) and `StoreBounds` for the store;
`RequestAssumption` and `ServerBounds` for the server; `CatchUpAssumption` (there is
a leader, a term it leads, a payload); `SqlAssumption` (what is asked for is made
of statements, and `execute` takes one batch), `WalAssumption`, `BatchAssumption`,
`SnapshotAssumption` and `ManagerAssumption`: shapes of constants, and that `Nil`,
`NoFile` and the names of states are not also data.

*Induction.* The provers have no induction rule they can instantiate. Where an
argument needs one over numbers (the least index at which two logs differ, a
property that climbs from 0 to a bound) the proofs take it from the library's
theorems on cardinality of finite sets and on minimal elements, with the set of
offending numbers in place of the predicate (`Climb`). A fold over a sequence is
treated the same way: `FoldLeft` unfolds to the value of a function on initial
segments, `FoldLemmas` shows that there is one such function and that it is the
row of states the fold goes through (`FoldExists`, `FoldStates`), and `Climb` carries
a statement from one state to the next. A theorem cannot take an operator, so each
fold of a model is unfolded once where it is used (`FoldRun`, `ValidatedRun`,
`ReplayRun`, and their like in `FileProofs`).

*Findings of the proofs.* The statement of `TransactionAllOrNothing` about single
statements was false for a transaction that creates an item and drops it again,
which the instance did not contain; it is now about the last word on each item.

*Only model-checked*: liveness under fairness, which with `ENABLED` is out of the
prover's reach: `EveryRequestAnswered`, `CommittedGetsApplied`,
`OnlySizeLeavesBehind`, `WrittenIsCommitted`. Every invariant, action property and
refinement that a passing run checks is proved; those about commitment for
`SpecQuorum`, as in the run. The five runs that expect a violation have
counterexamples.

## 6. Plan

In this order; done parts are marked.

1. [x] `TitanRaft`, `MCRaft`: elections, replication, commit, crashes.
2. [x] `TitanRaftProofs`: types, votes, elections.
3. [x] `ReplicatedLog` and its implementation by `TitanRaft` (checked).
4. [x] `TitanServer`, `MCServer`: threads, mutexes, confirmations, restart.
5. [x] `TitanServerProofs`: `NoLostConfirmation`, `AppliedOnceInOrder`,
   `ConfirmedWasExecuted` for any number of requests and any log length.
6. [x] Proofs of `LogMatching` and `LeaderHoldsItsTerm` for `Spec`, then
   `StateMachineSafety` and the refinement for `SpecQuorum`.
7. [x] `RaftStore`, `DurableNode`, `MCStore`: store writes, failures, recovery,
   and what it justifies in `TitanRaft` (checked). [x] Its proofs.
8. [x] `SqlCluster`, `MCSql`: statements with effects, validation in a
   savepoint, batches that end it, statements that fail when their turn comes,
   several databases over one log, reads and writes on other nodes, the client's
   retry. [x] `SqlClusterProofs`: calls, databases, transactions, races.
9. [x] `CatchUp`, `MCCatchUp`: a lagging or conflicting follower, the datagram
   limit, step-back of `next_index`; catch-up as a liveness property. [x] `CatchUpProofs`.
10. [x] `WalFile`, `FrameBatch`, `SnapshotDir`: parsers and snapshot selection
    over files in every state. [x] `FileProofs`.
11. [x] `ClusterManager`: the PID file.
12. [x] `FoldLemmas`, and with them the proofs of `SnapshotDir`, `FrameBatch`,
    `ClusterManager` (in `FileProofs`) and of the folds in `SqlCluster`.

## 7. Not modelled

- *Peer address parser*: a pure conversion of the command line with unit tests.
- *Authentication, TLS, logging, RPC types, dashboard, examples*: no state the
  properties are about; the RPC types are not used by the node.
- *Cluster of one* (`lib.rs:308`) and *votes that split again and again*: progress of
  elections depends on real time, which the models have no notion of.
- *A row that SQLite returns and `load_log` cannot convert* (`store.rs:183`):
  nothing in the code writes one.
- *Downloads and unpacking* of the cluster manager: pure I/O.
- *`SAVEPOINT` and `ROLLBACK`* in the statements of a client.
- *SQLite and the network* are external, modelled as far as the code depends on
  them. `InMemoryStateStore` and `generate_wal_fixture` serve tests.
