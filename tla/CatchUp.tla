------------------------------ MODULE CatchUp ------------------------------
(***************************************************************************)
(* One reign of TitanRaft from its first moment on: a new leader, followers *)
(* whose logs lag behind its own or conflict with it, and nodes that are   *)
(* down.  The network loses, delays and reorders datagrams, followers      *)
(* crash, clients write.  What has to happen in the end?                   *)
(*                                                                         *)
(* Two things bear on that which TitanRaft leaves out.  An AppendEntries   *)
(* carries the whole log from next_index on in one datagram, and the loop  *)
(* of cmd/titan-node/src/main.rs ignores that send_to refuses what is too  *)
(* large.  And a refusal moves next_index back by one, however many        *)
(* refusals of the same message there are.                                 *)
(***************************************************************************)
EXTENDS TitanRaft

CONSTANTS
    Leader,        \* who has just been elected, in the last term of Electable
    Down,          \* nodes that do not answer in this reign
    LeaderTerms,   \* the terms of the entries in the leader's log
    LaggingTerms,  \* those of the logs a follower may have
    MaxDatagram    \* entries that fit a datagram; it stands for 65,507 bytes

ASSUME CatchUpAssumption ==
    /\ Leader \in Node \ Down /\ Down \subseteq Node
    /\ Electable \in Seq(SUBSET Node) /\ Electable # <<>>
    /\ Value # {}
    /\ LaggingTerms \subseteq Seq(Nat) /\ LeaderTerms \in Seq(Nat)
    /\ MaxDatagram \in Nat

Reign == Len(Electable)
Followers == Node \ (Down \cup {Leader})

\* The entries of one term at one index are one entry.
LogOf(terms) ==
    [i \in DOMAIN terms |-> [index |-> i, term |-> terms[i],
                             payload |-> CHOOSE v \in Value : TRUE]]

\* become_leader has just run.  Followers may have voted, or not yet heard of
\* the term.  What was committed before is a prefix all of them hold.
CatchUpInit ==
    /\ \E logs \in [Followers -> LaggingTerms] :
         log = [n \in Node |-> IF n = Leader THEN LogOf(LeaderTerms)
                               ELSE IF n \in Down THEN <<>> ELSE LogOf(logs[n])]
    /\ \E late \in SUBSET Followers :
         /\ current_term = [n \in Node |-> IF n \in late THEN Reign - 1 ELSE Reign]
         /\ voted_for = [n \in Node |-> IF n \in late THEN Nil ELSE Leader]
    /\ commit_index = [n \in Node |-> 0]
    /\ role = [n \in Node |-> IF n = Leader THEN "Leader" ELSE "Follower"]
    /\ next_index = [n \in Node |-> IF n = Leader THEN FreshNext(n)
                                                  ELSE [p \in Node |-> 1]]
    /\ match_index = [n \in Node |-> [p \in Node |-> 0]]
    /\ votes_received = [n \in Node |-> IF n = Leader THEN 2 ELSE 0]
    /\ net = Broadcast(Leader, log[Leader], FreshNext(Leader))
    /\ delivered = {}

(***************************************************************************)
(* Datagrams.  One that is too large never leaves: `let _ = send_to'.      *)
(***************************************************************************)
Fits(m) == m.type = "AppendEntries" => Len(m.entries) <= MaxDatagram

Arrives(m) == Deliverable(m) /\ Fits(m) /\ m.to \notin Down

Lose(m) ==
    /\ Arrives(m)
    /\ delivered' = delivered \cup {m}
    /\ UNCHANGED <<durable, role, leaderState, votes_received, net>>

Receive(n) == \E m \in net : Arrives(m) /\ HandleAppendEntries(n, m)

HearFrom(p) ==
    \E m \in net : Arrives(m) /\ m.from = p /\ HandleAppendEntriesReply(Leader, m)

\* Nobody stands for election: heartbeats reset the deadlines in time.
CatchUpNext ==
    \/ Heartbeat(Leader)
    \/ \E v \in Value : AppendLocalEntry(Leader, v)
    \/ \E n \in Followers : Receive(n) \/ HearFrom(n) \/ Crash(n)
    \/ \E m \in net : Lose(m)

(***************************************************************************)
(* Fairness.  The leader ticks every 10 ms.  A link that is used again and *)
(* again delivers again and again (no particular datagram), in spite of    *)
(* crashes and losses in between.                                          *)
(***************************************************************************)
CatchUpSpec ==
    /\ CatchUpInit /\ [][CatchUpNext]_vars
    /\ WF_vars(Heartbeat(Leader))
    /\ \A n \in Followers : SF_vars(Receive(n)) /\ SF_vars(HearFrom(n))

(***************************************************************************)
(* Properties                                                              *)
(***************************************************************************)

\* What the leader would have to send next does not fit one datagram.
Starved(n) == Len(log[Leader]) - next_index[Leader][n] >= MaxDatagram

Holds(n) ==
    /\ Len(log[Leader]) <= Len(log[n])
    /\ SubSeq(log[n], 1, Len(log[Leader])) = log[Leader]

\* A follower, whatever it has missed or holds instead, ends up holding the
\* leader's log (surplus entries of an earlier leader stay until the next
\* write); all that can keep it from that for ever is the size of a datagram.
OnlySizeLeavesBehind ==
    \A n \in Followers : <>[]Holds(n) \/ <>[]Starved(n)

\* T-009: "replicated write visible on all nodes after commit".  What the
\* leader appends in its own term, it and every follower that is not starved
\* commit in the end, and with it everything before.
WrittenIsCommitted ==
    \A n \in Followers :
        \/ <>[](LastTerm(log[Leader]) = Reign =>
                  /\ commit_index[Leader] = Len(log[Leader])
                  /\ commit_index[n] = Len(log[Leader]))
        \/ <>[]Starved(n)

\* How many entries, from the first on, two logs share.
Shared(a, b) ==
    CHOOSE k \in 0..Len(a) :
        /\ k <= Len(b) /\ SubSeq(a, 1, k) = SubSeq(b, 1, k)
        /\ k < Len(a) /\ k < Len(b) => a[k + 1] # b[k + 1]

\* What a follower has in common with its leader it keeps: no datagram that
\* was delayed, repeated or torn by a crash sets it back.
NeverFallsBack ==
    [][\A n \in Followers :
         Shared(log[n], log[Leader])' >= Shared(log[n], log[Leader])]_vars
=============================================================================
