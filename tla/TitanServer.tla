---------------------------- MODULE TitanServer ----------------------------
(***************************************************************************)
(* One titan-node process (cmd/titan-node/src/main.rs): the Raft loop      *)
(* thread and the HTTP handlers of concurrent clients, sharing the node,   *)
(* the SQLite file and the table of pending confirmations behind three     *)
(* mutexes, with crashes at any point.                                     *)
(*                                                                         *)
(* An action is what a thread does from one lock acquisition to the next.  *)
(* A critical section that takes no second lock is a single action.        *)
(*                                                                         *)
(* Consensus appears through what step() and tick() may do to this node's  *)
(* log, commit index and role: what is committed stays as it is.           *)
(* TitanRaft keeps that promise, which is ReplicatedLog's, under           *)
(* SpecQuorum only; the commit rule of the code may break it.  What is     *)
(* said here is thus of a node whose committed prefix is stable.  Entries  *)
(* are told apart by payload: a request's own write, or Other for every    *)
(* write made elsewhere.                                                   *)
(***************************************************************************)
EXTENDS Naturals, Sequences, FiniteSets

CONSTANTS
    Request,     \* POST /execute and /transaction requests to this process
    Other,       \* the payload of any entry that no Request wrote
    Nil,         \* a free lock
    MaxLog,      \* bound on the length of the log
    MaxCrashes   \* bound on the crashes of the process

ASSUME RequestAssumption ==
    Other \notin Request /\ Nil \notin Request /\ "loop" \notin Request \cup {Nil}
ASSUME ServerBounds ==
    /\ IsFiniteSet(Request)
    /\ MaxLog \in Nat /\ MaxCrashes \in Nat

VARIABLES
    log,            \* RaftNode: payloads by index, durable
    commit_index,   \* RaftNode, durable
    leads,          \* RaftNode: role = Leader
    held,           \* who holds each mutex of SharedState
    taken,          \* Raft loop: locks of LockOrder it holds; 0 outside apply
    last_applied,   \* DeterministicApplyLoop
    batch,          \* Raft loop: committed_entries not yet executed
    db,             \* every entry executed on the SQLite file, in order
    pending_confirms,  \* a map from indices to the request that waits there
    pc,             \* where each handler is, and at the end its answer
    log_index,      \* handler: the index append_local_entry returned
    channel,        \* handler: its oneshot channel
    crashes

raft == <<log, commit_index, leads>>
loop == <<taken, last_applied, batch>>
handlers == <<pc, log_index, channel>>
vars == <<raft, held, loop, db, pending_confirms, handlers, crashes>>

Lock == {"node", "db", "confirms"}
Payload == Request \cup {Other}

\* Answers: not accepted, accepted without a confirmation (not asked for,
\* timed out, or its channel dropped), committed; "broken" is none at all.
Answers == {"rejected", "accepted", "committed", "broken"}

Init ==
    /\ log = <<>> /\ commit_index = 0 /\ leads = FALSE
    /\ held = [l \in Lock |-> Nil]
    /\ taken = 0 /\ last_applied = 0 /\ batch = <<>>
    /\ db = <<>>
    /\ pending_confirms = [i \in {} |-> Nil]
    /\ pc = [r \in Request |-> "validate"]
    /\ log_index = [r \in Request |-> 0]
    /\ channel = [r \in Request |-> "none"]
    /\ crashes = 0

Release(t) == [l \in Lock |-> IF held[l] = t THEN Nil ELSE held[l]]

(***************************************************************************)
(* Raft loop: datagrams and ticks, each under the node lock.               *)
(***************************************************************************)
BecomeLeader == ~leads /\ leads' = TRUE /\ UNCHANGED <<log, commit_index>>

LeaderCommits ==
    /\ leads
    /\ commit_index' \in (commit_index + 1)..Len(log)
    /\ UNCHANGED <<log, leads>>

\* Bound: other writers leave room for the requests still to be appended.
Room == MaxLog - Cardinality({r \in Request : pc[r] \in {"validate", "append"}})

\* An entry keeps its index wherever it survives.
Writable(i) == {Other} \cup {r \in Request : log_index[r] = i}

\* What another leader's log may hold from index k + 1 to index n.
Replacements(k, n) ==
    {es \in [1..(n - k) -> Payload] : \A j \in 1..(n - k) : es[j] \in Writable(k + j)}

\* A higher term, or AppendEntries: the log is left alone or, behind the
\* commit index, rewritten by another leader, whose commits are learned.
Follow ==
    /\ leads' = FALSE
    /\ \E k \in commit_index..Len(log), n \in 0..Room :
         /\ n >= k
         /\ \E es \in Replacements(k, n) :
              log' = SubSeq(log, 1, k) \o es
         /\ commit_index' \in commit_index..n

Consensus ==
    /\ taken = 0 /\ held["node"] = Nil
    /\ BecomeLeader \/ LeaderCommits \/ Follow
    /\ UNCHANGED <<held, loop, db, pending_confirms, handlers, crashes>>

\* "SQL:" datagrams of the legacy client: appended, and nobody is told.
LegacyClient ==
    /\ taken = 0 /\ held["node"] = Nil
    /\ leads /\ Len(log) < Room
    /\ log' = Append(log, Other)
    /\ UNCHANGED <<commit_index, leads, held, loop, db, pending_confirms,
                   handlers, crashes>>

(***************************************************************************)
(* Raft loop: the apply block.  apply() runs as soon as the node lock is   *)
(* taken; entries are executed and confirmed with all three locks held.    *)
(***************************************************************************)
\* Slip: the node is locked last.
LockOrderReversed == <<"confirms", "db", "node">>

LockOrder == <<"node", "db", "confirms">>

\* Slip: the newest committed entry is left for the next commit.
BacklogShort ==
    [i \in 1..(commit_index - last_applied - 1) |->
        [index |-> last_applied + i, payload |-> log[last_applied + i]]]

Backlog ==
    [i \in 1..(commit_index - last_applied) |->
        [index |-> last_applied + i, payload |-> log[last_applied + i]]]

Acquire ==
    /\ taken < Len(LockOrder)
    /\ LET l == LockOrder[taken + 1]
       IN  /\ held[l] = Nil
           /\ held' = [held EXCEPT ![l] = "loop"]
           /\ \/ /\ l = "node"
                 /\ batch' = Backlog
                 /\ last_applied' = last_applied + Len(Backlog)
              \/ /\ l # "node"
                 /\ UNCHANGED <<batch, last_applied>>
    /\ taken' = taken + 1
    /\ UNCHANGED <<raft, db, pending_confirms, handlers, crashes>>

\* Slip: the whole batch is confirmed with its first entry.
NotifiedBatch == {batch[i].index : i \in DOMAIN batch}

Notified == {Head(batch).index}

\* The requests whose senders are stored at the indices in s.
SendersAt(s) == {pending_confirms[i] : i \in s \cap DOMAIN pending_confirms}

\* execute_write, then confirms.remove and send.  A statement SQLite refuses
\* is logged and confirmed like any other, so success is not modelled.
Execute ==
    /\ taken = Len(LockOrder) /\ batch # <<>>
    /\ db' = Append(db, Head(batch))
    /\ batch' = Tail(batch)
    /\ channel' = [r \in Request |->
                     IF r \in SendersAt(Notified) THEN "sent" ELSE channel[r]]
    /\ pending_confirms' = [i \in DOMAIN pending_confirms \ Notified |->
                              pending_confirms[i]]
    /\ UNCHANGED <<raft, held, taken, last_applied, pc, log_index, crashes>>

Finish ==
    /\ taken = Len(LockOrder) /\ batch = <<>>
    /\ held' = Release("loop")
    /\ taken' = 0
    /\ UNCHANGED <<raft, last_applied, batch, db, pending_confirms, handlers,
                   crashes>>

(***************************************************************************)
(* HTTP handlers.                                                          *)
(***************************************************************************)
\* validate_sql under the db lock alone: it may refuse the statement.
Validate(r) ==
    /\ pc[r] = "validate"
    /\ held["db"] = Nil
    /\ \E next \in {"append", "rejected"} : pc' = [pc EXCEPT ![r] = next]
    /\ UNCHANGED <<raft, held, loop, db, pending_confirms, log_index, channel,
                   crashes>>

\* Slip: the guard of the node is dropped before the sender is stored.
HeldAfterAppendNot(r) == held

HeldAfterAppend(r) == [held EXCEPT !["node"] = r]

\* The role check and append_local_entry, under the node lock, which a
\* request that waits for the commit keeps until it has stored its sender.
AppendEntry(r) ==
    /\ pc[r] = "append"
    /\ held["node"] = Nil
    /\ \/ /\ ~leads
          /\ pc' = [pc EXCEPT ![r] = "rejected"]
          /\ UNCHANGED <<log, log_index, held>>
       \/ /\ leads
          /\ log' = Append(log, r)
          /\ log_index' = [log_index EXCEPT ![r] = Len(log) + 1]
          /\ \/ /\ pc' = [pc EXCEPT ![r] = "register"]
                /\ held' = HeldAfterAppend(r)
             \/ /\ pc' = [pc EXCEPT ![r] = "accepted"]
                /\ UNCHANGED held
    /\ UNCHANGED <<commit_index, leads, loop, db, pending_confirms, channel,
                   crashes>>

\* pending_confirms.insert drops the sender that was there.
Register(r) ==
    /\ pc[r] = "register"
    /\ held["confirms"] = Nil
    /\ pending_confirms' = [i \in DOMAIN pending_confirms \cup {log_index[r]} |->
                              IF i = log_index[r] THEN r ELSE pending_confirms[i]]
    /\ channel' = [q \in Request |->
                     IF q = r THEN "open"
                     ELSE IF q \in SendersAt({log_index[r]}) THEN "dropped"
                     ELSE channel[q]]
    /\ held' = Release(r)
    /\ pc' = [pc EXCEPT ![r] = "waiting"]
    /\ UNCHANGED <<raft, loop, db, log_index, crashes>>

\* timeout() polls the channel before the clock, so a confirmation that has
\* been sent is never answered by the other branches.
Confirmed(r) ==
    /\ pc[r] = "waiting" /\ channel[r] = "sent"
    /\ pc' = [pc EXCEPT ![r] = "committed"]
    /\ UNCHANGED <<raft, held, loop, db, pending_confirms, log_index, channel,
                   crashes>>

\* After five seconds, or because the channel was dropped.
GiveUp(r) ==
    /\ pc[r] = "waiting" /\ channel[r] # "sent"
    /\ pc' = [pc EXCEPT ![r] = "accepted"]
    /\ UNCHANGED <<raft, held, loop, db, pending_confirms, log_index, channel,
                   crashes>>

(***************************************************************************)
(* The process dies at any point and starts again: the log, the commit     *)
(* index and the SQLite file are what they were.                           *)
(***************************************************************************)
\* Slips: new() instead of new_from(); the end of the log is resumed at.
ResumeAtZero == 0
ResumeAtLogEnd == Len(log)

\* new_with_store, new_from: everything committed counts as applied.
ResumeAt == commit_index

Crash ==
    /\ crashes < MaxCrashes
    /\ crashes' = crashes + 1
    /\ leads' = FALSE
    /\ held' = [l \in Lock |-> Nil]
    /\ taken' = 0 /\ batch' = <<>>
    /\ last_applied' = ResumeAt
    /\ pending_confirms' = [i \in {} |-> Nil]
    /\ channel' = [r \in Request |-> "none"]
    /\ pc' = [r \in Request |->
                IF pc[r] \in {"append", "register", "waiting"} THEN "broken"
                ELSE pc[r]]
    /\ UNCHANGED <<log, commit_index, db, log_index>>

Handler(r) ==
    Validate(r) \/ AppendEntry(r) \/ Register(r) \/ Confirmed(r) \/ GiveUp(r)

Next ==
    \/ Consensus
    \/ LegacyClient
    \/ Acquire
    \/ Execute
    \/ Finish
    \/ \E r \in Request : Handler(r)
    \/ Crash

Spec == Init /\ [][Next]_vars

(***************************************************************************)
(* Fairness.  Threads that can go on do.  A handler also gets a mutex that *)
(* is released again and again: the loop sleeps 2 ms without any lock in   *)
(* each turn.  The loop reaches its apply block in each turn, its receive  *)
(* loop ending when the socket is empty.  Consensus need not make progress *)
(* and nobody need crash: MaxCrashes bounds how often one does.            *)
(***************************************************************************)
FairSpec ==
    /\ Spec
    /\ WF_vars(Acquire) /\ WF_vars(Execute) /\ WF_vars(Finish)
    /\ \A r \in Request :
         /\ SF_vars(Validate(r)) /\ SF_vars(AppendEntry(r))
         /\ WF_vars(Register(r))
         /\ WF_vars(Confirmed(r) \/ GiveUp(r))

(***************************************************************************)
(* Properties                                                              *)
(***************************************************************************)

Executed(i) == \E j \in DOMAIN db : db[j].index = i

\* Every variable keeps its shape; the commit index stays inside the log.
ServerTypeOK ==
    /\ log \in Seq(Payload)
    /\ commit_index \in 0..Len(log)
    /\ leads \in BOOLEAN
    /\ held \in [Lock -> Request \cup {Nil, "loop"}]
    /\ taken \in 0..3
    /\ last_applied \in 0..commit_index
    /\ batch \in Seq([index : Nat \ {0}, payload : Payload])
    /\ db \in Seq([index : Nat \ {0}, payload : Payload])
    /\ DOMAIN pending_confirms \subseteq Nat \ {0}
    /\ pending_confirms \in [DOMAIN pending_confirms -> Request]
    /\ pc \in [Request -> {"validate", "append", "register", "waiting"} \cup Answers]
    /\ log_index \in [Request -> Nat]
    /\ channel \in [Request -> {"none", "open", "sent", "dropped"}]
    /\ crashes \in 0..MaxCrashes

\* SQLite sees committed entries only, in log order, none of them twice, also
\* when crashes interrupt the batches (T-007 without its "exactly").
AppliedOnceInOrder ==
    /\ \A j \in DOMAIN db :
         db[j].index <= commit_index /\ db[j].payload = log[db[j].index]
    /\ \A i, j \in DOMAIN db : i < j => db[i].index < db[j].index

\* A handler that waits has not been passed by: its sender is in the table
\* and its index has yet to be executed in this life of the process.
NoLostConfirmation ==
    \A r \in Request : pc[r] = "waiting" /\ channel[r] = "open" =>
        /\ log_index[r] \in DOMAIN pending_confirms
        /\ pending_confirms[log_index[r]] = r
        /\ \/ log_index[r] > last_applied
           \/ \E j \in DOMAIN batch : batch[j].index = log_index[r]

\* Who is told "committed" can read: the entry at that index has been executed.
ConfirmedWasExecuted ==
    \A r \in Request : pc[r] = "committed" => Executed(log_index[r])

\* Nobody is left without an answer: the three mutexes do not deadlock and no
\* handler waits for ever.
EveryRequestAnswered == \A r \in Request : <>(pc[r] \in Answers)

\* Once the last crash is over (it may come before anything else happens),
\* what is committed and not yet applied is executed in the end.
CommittedGetsApplied ==
    \A i \in 1..MaxLog :
        crashes = MaxCrashes /\ last_applied < i /\ i <= commit_index ~> Executed(i)

\* ARCHITECTURE.md: "Entry commit => ACK to client".  The write of a client
\* that was told it is committed is in the database.
AckedWriteIsInDatabase ==
    \A r \in Request : pc[r] = "committed" =>
        \E j \in DOMAIN db : db[j].payload = r

\* T-007: "committed entries applied in-order exactly once".  What the apply
\* loop has behind it is in the database.
AppliedExactlyOnce ==
    taken = 0 => \A i \in 1..last_applied : Executed(i)

=============================================================================
