------------------------- MODULE TitanServerProofs -------------------------
(***************************************************************************)
(* Proofs about TitanServer for any number of requests, any log length and *)
(* any number of crashes: what SQLite sees, and who is told what, as long  *)
(* as what is committed stays (see TitanServer).                           *)
(***************************************************************************)
EXTENDS TitanServer, FiniteSetTheorems, TLAPS

(***************************************************************************)
(* The inductive invariant.  Below Done everything has been executed, or   *)
(* was skipped by a restart; the batch is what follows it.                 *)
(***************************************************************************)
Done == last_applied - Len(batch)

BatchFollows ==
    /\ Done \in Nat
    /\ \A j \in 1..Len(batch) :
         /\ batch[j].index = Done + j
         /\ batch[j].payload = log[Done + j]
    /\ \A j \in DOMAIN db : db[j].index <= Done

\* The loop has the node lock in its apply block, and is done with its batch
\* when it leaves it; a handler about to store its sender has the node lock.
LocksHeld ==
    /\ IF taken = 0 THEN batch = <<>> ELSE held["node"] = "loop"
    /\ \A r \in Request : pc[r] = "register" =>
         held["node"] = r /\ log_index[r] > last_applied

\* The table holds the open channels, each under its request's index, and
\* these indices are still to come.
SendersStored ==
    /\ \A i \in DOMAIN pending_confirms :
         /\ i > Done
         /\ log_index[pending_confirms[i]] = i
         /\ channel[pending_confirms[i]] = "open"
    /\ \A r \in Request :
         /\ channel[r] = "open" =>
              /\ log_index[r] \in DOMAIN pending_confirms
              /\ pending_confirms[log_index[r]] = r
         /\ pc[r] \in {"validate", "append", "register"} => channel[r] = "none"

SentWasExecuted ==
    \A r \in Request : channel[r] = "sent" => Executed(log_index[r])

ServerInv ==
    /\ ServerTypeOK
    /\ BatchFollows
    /\ AppliedOnceInOrder
    /\ LocksHeld
    /\ SendersStored
    /\ SentWasExecuted
    /\ ConfirmedWasExecuted

(***************************************************************************)
(* Facts about the definitions.                                            *)
(***************************************************************************)
\* The bound on other writers is a number.
LEMMA RoomIsNumber == Room \in Int
<1> DEFINE S == {r \in Request : pc[r] \in {"validate", "append"}}
<1>1. IsFiniteSet(S) /\ Cardinality(S) \in Nat
  BY ServerBounds, FS_Subset, FS_CardinalityType
<1> QED
  BY <1>1, ServerBounds DEF Room

\* The order of the lock() calls of the apply block.
LEMMA LockOrderFacts ==
    /\ Len(LockOrder) = 3
    /\ LockOrder[1] = "node" /\ LockOrder[2] = "db" /\ LockOrder[3] = "confirms"
BY DEF LockOrder

\* The length, the domain and the elements of a sequence.
LEMMA SeqFacts ==
    ASSUME NEW S, NEW s \in Seq(S)
    PROVE  Len(s) \in Nat /\ DOMAIN s = 1..Len(s) /\ \A j \in DOMAIN s : s[j] \in S
OBVIOUS

\* What an entry of the database or of the batch is.
LEMMA EntryFacts ==
    ASSUME ServerTypeOK
    PROVE  /\ Len(db) \in Nat /\ DOMAIN db = 1..Len(db)
           /\ Len(batch) \in Nat /\ DOMAIN batch = 1..Len(batch)
           /\ \A j \in DOMAIN db : db[j].index \in Nat \ {0} /\ db[j].payload \in Payload
           /\ \A j \in DOMAIN batch :
                batch[j].index \in Nat \ {0} /\ batch[j].payload \in Payload
<1> DEFINE Entry == [index : Nat \ {0}, payload : Payload]
<1>1. db \in Seq(Entry) /\ batch \in Seq(Entry)
  BY DEF ServerTypeOK
<1>2. /\ Len(db) \in Nat /\ DOMAIN db = 1..Len(db)
      /\ Len(batch) \in Nat /\ DOMAIN batch = 1..Len(batch)
      /\ \A j \in DOMAIN db : db[j] \in Entry
      /\ \A j \in DOMAIN batch : batch[j] \in Entry
  <2> HIDE DEF Entry
  <2> QED
    BY <1>1, SeqFacts
<1>3. \A e \in Entry : e.index \in Nat \ {0} /\ e.payload \in Payload
  OBVIOUS
<1> HIDE DEF Entry
<1> QED
  BY <1>2, <1>3

\* Initially the invariant holds: nothing written, nobody waiting.
LEMMA ServerInit == Init => ServerInv
<1> SUFFICES ASSUME Init PROVE ServerInv
  OBVIOUS
<1> USE DEF Init
<1>1. ServerTypeOK
  <2>1. /\ log \in Seq(Payload) /\ commit_index \in 0..Len(log)
        /\ last_applied \in 0..commit_index
        /\ batch \in Seq([index : Nat \ {0}, payload : Payload])
        /\ db \in Seq([index : Nat \ {0}, payload : Payload])
    OBVIOUS
  <2>2. taken \in 0..3 /\ crashes \in 0..MaxCrashes
    BY ServerBounds
  <2>6. leads \in BOOLEAN
    BY Zenon
  <2>3. held \in [Lock -> Request \cup {Nil, "loop"}]
    OBVIOUS
  <2>4. /\ DOMAIN pending_confirms \subseteq Nat \ {0}
        /\ pending_confirms \in [DOMAIN pending_confirms -> Request]
    OBVIOUS
  <2>5. /\ pc \in [Request -> {"validate", "append", "register", "waiting"}
                               \cup Answers]
        /\ log_index \in [Request -> Nat]
        /\ channel \in [Request -> {"none", "open", "sent", "dropped"}]
    OBVIOUS
  <2> QED
    BY <2>1, <2>2, <2>3, <2>4, <2>5, <2>6 DEF ServerTypeOK
<1>2. BatchFollows /\ AppliedOnceInOrder
  BY DEF BatchFollows, AppliedOnceInOrder, Done
<1>3. LocksHeld /\ SendersStored /\ SentWasExecuted /\ ConfirmedWasExecuted
  BY DEF LocksHeld, SendersStored, SentWasExecuted, ConfirmedWasExecuted
<1> QED
  BY <1>1, <1>2, <1>3 DEF ServerInv

(***************************************************************************)
(* The loop outside its apply block, and the handlers' appends, change the *)
(* log behind the commit index only, and nothing the tables depend on.     *)
(***************************************************************************)
\* What SQLite has seen and what the batch holds agree with any log that
\* keeps the committed prefix.
LEMMA PrefixKept ==
    ASSUME ServerInv, UNCHANGED <<last_applied, batch, db>>,
           log' \in Seq(Payload), commit_index' \in Nat,
           commit_index <= commit_index', commit_index' <= Len(log'),
           \A i \in 1..commit_index : log'[i] = log[i]
    PROVE  BatchFollows' /\ AppliedOnceInOrder'
<1>1. /\ last_applied \in Nat /\ commit_index \in Nat
      /\ last_applied <= commit_index
      /\ batch \in Seq([index : Nat \ {0}, payload : Payload])
      /\ db \in Seq([index : Nat \ {0}, payload : Payload])
  BY DEF ServerInv, ServerTypeOK
<1>2. BatchFollows'
  <2>1. Len(batch) \in Nat /\ Done \in Nat /\ last_applied = Done + Len(batch)
    BY <1>1 DEF ServerInv, BatchFollows, Done
  <2>2. \A j \in 1..Len(batch) : Done + j \in 1..commit_index
    BY <1>1, <2>1
  <2>3. Done' = Done
    BY DEF Done
  <2> QED
    BY <2>1, <2>2, <2>3 DEF ServerInv, BatchFollows
<1>3. AppliedOnceInOrder'
  <2>1. \A j \in DOMAIN db : db[j].index \in 1..commit_index
    <3>1. \A j \in DOMAIN db : db[j].index \in Nat \ {0}
      BY EntryFacts DEF ServerInv
    <3>2. \A j \in DOMAIN db : db[j].index <= commit_index
      BY DEF ServerInv, AppliedOnceInOrder
    <3> QED
      BY <1>1, <3>1, <3>2
  <2>2. \A j \in DOMAIN db : db[j].index <= commit_index'
    BY <1>1, <2>1
  <2>3. \A j \in DOMAIN db : db[j].payload = log'[db[j].index]
    BY <2>1 DEF ServerInv, AppliedOnceInOrder
  <2> QED
    BY <2>2, <2>3 DEF ServerInv, AppliedOnceInOrder
<1> QED
  BY <1>2, <1>3

\* Datagrams and ticks preserve the invariant.
LEMMA ConsensusInv ==
    ASSUME ServerInv, Consensus
    PROVE  ServerInv'
<1>1. /\ log \in Seq(Payload) /\ commit_index \in Nat /\ commit_index <= Len(log)
      /\ leads \in BOOLEAN
  BY DEF ServerInv, ServerTypeOK
<1>2. UNCHANGED <<held, taken, last_applied, batch, db, pending_confirms, pc,
                  log_index, channel, crashes>>
  BY DEF Consensus, loop, handlers
<1>3. /\ log' \in Seq(Payload) /\ leads' \in BOOLEAN
      /\ commit_index' \in Nat /\ commit_index <= commit_index'
      /\ commit_index' <= Len(log')
      /\ \A i \in 1..commit_index : log'[i] = log[i]
  <2>1. CASE BecomeLeader
    BY <1>1, <2>1 DEF BecomeLeader
  <2>2. CASE LeaderCommits
    BY <1>1, <2>2 DEF LeaderCommits
  <2>3. CASE Follow
    <3>1. PICK k \in commit_index..Len(log), n \in 0..Room :
            /\ n >= k
            /\ \E es \in Replacements(k, n) : log' = SubSeq(log, 1, k) \o es
            /\ commit_index' \in commit_index..n
      BY <2>3 DEF Follow
    <3>2. PICK es \in Replacements(k, n) : log' = SubSeq(log, 1, k) \o es
      BY <3>1
    <3>3. k \in Nat /\ n \in Nat /\ n - k \in Nat /\ k <= Len(log)
      BY <1>1, <3>1, RoomIsNumber
    <3>4. es \in Seq(Payload) /\ Len(es) = n - k
      <4>1. es \in [1..(n - k) -> Payload]
        BY DEF Replacements
      <4> QED
        BY <3>3, <4>1
    <3>5. SubSeq(log, 1, k) \in Seq(Payload) /\ Len(SubSeq(log, 1, k)) = k
      BY <1>1, <3>3
    <3>6. \A i \in 1..k : SubSeq(log, 1, k)[i] = log[i]
      BY <1>1, <3>3
    <3>7. log' \in Seq(Payload) /\ Len(log') = n
      BY <3>2, <3>3, <3>4, <3>5
    <3>8. \A i \in 1..k : log'[i] = log[i]
      BY <3>2, <3>3, <3>4, <3>5, <3>6
    <3>9. commit_index \in Nat /\ commit_index <= k
      BY <1>1, <3>1
    <3>10. commit_index' \in Nat /\ commit_index <= commit_index' /\ commit_index' <= n
      BY <3>1, <3>3, <3>9
    <3>11. \A i \in 1..commit_index : log'[i] = log[i]
      BY <3>3, <3>8, <3>9
    <3>12. leads' \in BOOLEAN
      BY <2>3 DEF Follow
    <3> QED
      BY <3>7, <3>9, <3>10, <3>11, <3>12
  <2> QED
    BY <2>1, <2>2, <2>3 DEF Consensus
<1>4. ServerTypeOK'
  BY <1>2, <1>3 DEF ServerInv, ServerTypeOK
<1>5. BatchFollows' /\ AppliedOnceInOrder'
  BY <1>2, <1>3, PrefixKept
<1>6. LocksHeld' /\ SendersStored' /\ SentWasExecuted' /\ ConfirmedWasExecuted'
  BY <1>2 DEF ServerInv, LocksHeld, SendersStored, SentWasExecuted,
              ConfirmedWasExecuted, Done, Executed
<1> QED
  BY <1>4, <1>5, <1>6 DEF ServerInv

\* A statement of the legacy client is appended: the invariant is preserved.
LEMMA LegacyClientInv ==
    ASSUME ServerInv, LegacyClient
    PROVE  ServerInv'
<1>1. log \in Seq(Payload) /\ commit_index \in Nat /\ commit_index <= Len(log)
  BY DEF ServerInv, ServerTypeOK
<1>2. UNCHANGED <<commit_index, leads, held, taken, last_applied, batch, db,
                  pending_confirms, pc, log_index, channel, crashes>>
  BY DEF LegacyClient, loop, handlers
<1>3. /\ log' \in Seq(Payload) /\ Len(log') = Len(log) + 1
      /\ \A i \in 1..commit_index : log'[i] = log[i]
  BY <1>1 DEF LegacyClient, Payload
<1>4. ServerTypeOK'
  BY <1>1, <1>2, <1>3 DEF ServerInv, ServerTypeOK
<1>5. BatchFollows' /\ AppliedOnceInOrder'
  BY <1>1, <1>2, <1>3, PrefixKept
<1>6. LocksHeld' /\ SendersStored' /\ SentWasExecuted' /\ ConfirmedWasExecuted'
  BY <1>2 DEF ServerInv, LocksHeld, SendersStored, SentWasExecuted,
              ConfirmedWasExecuted, Done, Executed
<1> QED
  BY <1>4, <1>5, <1>6 DEF ServerInv

(***************************************************************************)
(* The apply block.                                                        *)
(***************************************************************************)
\* What the loop hands to SQLite: the committed entries it has not applied.
LEMMA BacklogFacts ==
    ASSUME ServerTypeOK
    PROVE  /\ Backlog \in Seq([index : Nat \ {0}, payload : Payload])
           /\ Len(Backlog) = commit_index - last_applied
           /\ \A j \in 1..Len(Backlog) :
                /\ Backlog[j].index = last_applied + j
                /\ Backlog[j].payload = log[last_applied + j]
<1> DEFINE n == commit_index - last_applied
           E == [index : Nat \ {0}, payload : Payload]
<1>1. /\ log \in Seq(Payload) /\ n \in Nat /\ last_applied \in Nat
      /\ last_applied + n = commit_index /\ commit_index <= Len(log)
  BY DEF ServerTypeOK
<1>2. \A i \in 1..n : last_applied + i \in Nat \ {0} /\ log[last_applied + i] \in Payload
  <2>1. \A i \in 1..n : last_applied + i \in 1..Len(log)
    BY <1>1
  <2> QED
    BY <1>1, <2>1
<1>3. \A i \in 1..n :
        [index |-> last_applied + i, payload |-> log[last_applied + i]] \in E
  BY <1>2
<1>4. Backlog = [i \in 1..n |->
        [index |-> last_applied + i, payload |-> log[last_applied + i]]]
  BY DEF Backlog
<1>5. Backlog \in [1..n -> E]
  BY <1>3, <1>4
<1>6. Backlog \in Seq(E) /\ Len(Backlog) = n
  <2> HIDE DEF E, n
  <2> QED
    BY <1>1, <1>5
<1> QED
  BY <1>1, <1>4, <1>6

\* Taking the next lock, and with the node lock the batch, preserves the
\* invariant.
LEMMA AcquireInv ==
    ASSUME ServerInv, Acquire
    PROVE  ServerInv'
<1>1. UNCHANGED <<log, commit_index, leads, db, pending_confirms, pc, log_index,
                  channel, crashes>>
  BY DEF Acquire, raft, handlers
<1>2. taken' = taken + 1 /\ taken \in Nat /\ taken <= 2 /\ taken' \in 0..3
  BY LockOrderFacts DEF Acquire, ServerInv, ServerTypeOK
<1>3. held \in [Lock -> Request \cup {Nil, "loop"}]
  BY DEF ServerInv, ServerTypeOK
<1>4. held' \in [Lock -> Request \cup {Nil, "loop"}]
  BY <1>3 DEF Acquire
<1>5. /\ last_applied \in Nat /\ commit_index \in Nat /\ last_applied <= commit_index
      /\ batch \in Seq([index : Nat \ {0}, payload : Payload])
  BY DEF ServerInv, ServerTypeOK
<1>6. CASE taken = 0
  <2>1. held["node"] = Nil /\ held'["node"] = "loop"
    BY <1>3, <1>6, LockOrderFacts DEF Acquire, Lock
  <2>2. batch' = Backlog /\ last_applied' = last_applied + Len(Backlog)
    BY <1>6, LockOrderFacts DEF Acquire
  <2>3. /\ batch' \in Seq([index : Nat \ {0}, payload : Payload])
        /\ Len(batch') = commit_index - last_applied
        /\ last_applied' = commit_index
    <3>1. /\ Backlog \in Seq([index : Nat \ {0}, payload : Payload])
          /\ Len(Backlog) = commit_index - last_applied
      BY BacklogFacts DEF ServerInv
    <3> QED
      BY <1>5, <2>2, <3>1
  <2>4. Done = last_applied /\ Done' = last_applied
    BY <1>5, <1>6, <2>3 DEF ServerInv, LocksHeld, Done
  <2>5. ServerTypeOK'
    BY <1>1, <1>2, <1>4, <1>5, <2>3 DEF ServerInv, ServerTypeOK
  <2>6. BatchFollows'
    BY <1>1, <1>5, <2>2, <2>4, BacklogFacts DEF ServerInv, BatchFollows
  <2>7. LocksHeld'
    <3>1. \A r \in Request : pc[r] # "register"
      BY <2>1, RequestAssumption DEF ServerInv, LocksHeld
    <3> QED
      BY <1>1, <1>2, <2>1, <3>1 DEF LocksHeld
  <2>8. SendersStored'
    BY <1>1, <2>4 DEF ServerInv, SendersStored
  <2> QED
    BY <1>1, <2>5, <2>6, <2>7, <2>8
       DEF ServerInv, AppliedOnceInOrder, SentWasExecuted, ConfirmedWasExecuted,
           Executed
<1>7. CASE taken # 0
  <2>1. LockOrder[taken + 1] # "node"
    BY <1>2, <1>7, LockOrderFacts
  <2>2. UNCHANGED <<batch, last_applied>> /\ held'["node"] = held["node"]
    BY <1>3, <2>1 DEF Acquire, Lock
  <2>3. ServerTypeOK'
    BY <1>1, <1>2, <1>4, <2>2 DEF ServerInv, ServerTypeOK
  <2>4. LocksHeld'
    BY <1>1, <1>2, <1>7, <2>2 DEF ServerInv, LocksHeld
  <2> QED
    BY <1>1, <2>2, <2>3, <2>4
       DEF ServerInv, BatchFollows, AppliedOnceInOrder, SendersStored,
           SentWasExecuted, ConfirmedWasExecuted, Executed, Done
<1> QED
  BY <1>6, <1>7

\* Leaving the apply block preserves the invariant.
LEMMA FinishInv ==
    ASSUME ServerInv, Finish
    PROVE  ServerInv'
<1>1. UNCHANGED <<log, commit_index, leads, last_applied, batch, db,
                  pending_confirms, pc, log_index, channel, crashes>>
  BY DEF Finish, raft, handlers
<1>2. taken' = 0 /\ batch = <<>> /\ taken = 3
  BY LockOrderFacts DEF Finish
<1>3. held' \in [Lock -> Request \cup {Nil, "loop"}]
  BY DEF Finish, Release, ServerInv, ServerTypeOK
<1>4. ServerTypeOK'
  BY <1>1, <1>2, <1>3 DEF ServerInv, ServerTypeOK
<1>5. LocksHeld'
  <2>1. held["node"] = "loop"
    BY <1>2 DEF ServerInv, LocksHeld
  <2>2. \A r \in Request : pc[r] # "register"
    BY <2>1, RequestAssumption DEF ServerInv, LocksHeld
  <2> QED
    BY <1>1, <1>2, <2>2 DEF LocksHeld
<1> QED
  BY <1>1, <1>4, <1>5
     DEF ServerInv, BatchFollows, AppliedOnceInOrder, SendersStored,
         SentWasExecuted, ConfirmedWasExecuted, Executed, Done

\* Executing one entry and telling the request that waits for it preserves
\* the invariant.
LEMMA ExecuteInv ==
    ASSUME ServerInv, Execute
    PROVE  ServerInv'
<1> DEFINE E == [index : Nat \ {0}, payload : Payload]
           e == Head(batch)
<1>1. /\ UNCHANGED <<log, commit_index, leads, held, taken, last_applied, pc,
                     log_index, crashes>>
      /\ taken = 3 /\ batch # <<>>
      /\ db' = Append(db, e) /\ batch' = Tail(batch)
  BY LockOrderFacts DEF Execute, raft
<1>2. /\ batch \in Seq(E) /\ db \in Seq(E)
      /\ last_applied \in Nat /\ commit_index \in Nat /\ last_applied <= commit_index
  BY DEF ServerInv, ServerTypeOK
<1>3. /\ Len(batch) \in Nat \ {0} /\ e \in E /\ e = batch[1]
      /\ batch' \in Seq(E) /\ Len(batch') = Len(batch) - 1
      /\ \A j \in 1..Len(batch') : batch'[j] = batch[j + 1]
  <2> HIDE DEF E
  <2> QED
    BY <1>1, <1>2
<1>4. /\ db' \in Seq(E) /\ Len(db) \in Nat /\ Len(db') = Len(db) + 1
      /\ DOMAIN db = 1..Len(db) /\ DOMAIN db' = 1..(Len(db) + 1)
      /\ \A j \in 1..Len(db) : db'[j] = db[j]
      /\ db'[Len(db) + 1] = e
  <2> HIDE DEF E, e
  <2> QED
    BY <1>1, <1>2, <1>3
<1>5. Done \in Nat /\ Done' = Done + 1 /\ Done + 1 <= commit_index
  BY <1>1, <1>2, <1>3 DEF ServerInv, BatchFollows, Done
<1>6. e.index = Done + 1 /\ e.payload = log[Done + 1]
  BY <1>3, <1>5 DEF ServerInv, BatchFollows
<1>7. \A j \in DOMAIN db : db[j].index \in Nat /\ db[j].index <= Done
  BY EntryFacts DEF ServerInv, BatchFollows
<1>9. /\ Notified = {Done + 1}
      /\ pending_confirms' = [i \in DOMAIN pending_confirms \ {Done + 1} |->
                                pending_confirms[i]]
      /\ channel' = [r \in Request |->
                       IF r \in SendersAt({Done + 1}) THEN "sent" ELSE channel[r]]
  BY <1>6 DEF Execute, Notified
<1>10. \A r \in SendersAt({Done + 1}) :
         /\ Done + 1 \in DOMAIN pending_confirms /\ r = pending_confirms[Done + 1]
         /\ r \in Request /\ log_index[r] = Done + 1 /\ channel[r] = "open"
  BY DEF SendersAt, ServerInv, SendersStored, ServerTypeOK
<1>11. /\ DOMAIN pending_confirms \subseteq Nat \ {0}
       /\ pending_confirms \in [DOMAIN pending_confirms -> Request]
       /\ channel \in [Request -> {"none", "open", "sent", "dropped"}]
  BY DEF ServerInv, ServerTypeOK
<1> HIDE DEF e
<1>12. ServerTypeOK'
  <2>1. /\ DOMAIN pending_confirms' \subseteq Nat \ {0}
        /\ pending_confirms' \in [DOMAIN pending_confirms' -> Request]
    BY <1>9, <1>11
  <2>2. channel' \in [Request -> {"none", "open", "sent", "dropped"}]
    BY <1>9, <1>11
  <2> QED
    BY <1>1, <1>3, <1>4, <2>1, <2>2 DEF ServerInv, ServerTypeOK
<1>13. BatchFollows'
  <2>1. \A j \in 1..Len(batch') :
          /\ batch'[j].index = Done' + j
          /\ batch'[j].payload = log'[Done' + j]
    <3> TAKE j \in 1..Len(batch')
    <3>1. j + 1 \in 1..Len(batch) /\ batch'[j] = batch[j + 1]
      BY <1>3
    <3>2. batch[j + 1].index = Done + (j + 1) /\ batch[j + 1].payload = log[Done + (j + 1)]
      BY <3>1 DEF ServerInv, BatchFollows
    <3>3. Done + (j + 1) = Done' + j
      BY <1>5
    <3> QED
      BY <1>1, <3>1, <3>2, <3>3
  <2>2. \A j \in DOMAIN db' : db'[j].index <= Done'
    BY <1>4, <1>5, <1>6, <1>7
  <2> QED
    BY <1>5, <2>1, <2>2 DEF BatchFollows
<1>14. AppliedOnceInOrder'
  <2>1. \A j \in DOMAIN db' :
          db'[j].index <= commit_index' /\ db'[j].payload = log'[db'[j].index]
    BY <1>1, <1>4, <1>5, <1>6 DEF ServerInv, AppliedOnceInOrder
  <2>2. \A i, j \in DOMAIN db' : i < j => db'[i].index < db'[j].index
    <3> SUFFICES ASSUME NEW i \in DOMAIN db', NEW j \in DOMAIN db', i < j
                 PROVE  db'[i].index < db'[j].index
      OBVIOUS
    <3>1. i \in DOMAIN db /\ db'[i] = db[i]
      BY <1>4
    <3>2. CASE j \in DOMAIN db
      BY <1>4, <3>1, <3>2 DEF ServerInv, AppliedOnceInOrder
    <3>3. CASE j = Len(db) + 1
      BY <1>4, <1>5, <1>6, <1>7, <3>1, <3>3
    <3> QED
      BY <1>4, <3>2, <3>3
  <2> QED
    BY <2>1, <2>2 DEF AppliedOnceInOrder
<1>15. LocksHeld'
  BY <1>1 DEF ServerInv, LocksHeld
<1>16. SendersStored'
  <2>1. ASSUME NEW i \in DOMAIN pending_confirms'
        PROVE  /\ i > Done'
               /\ log_index'[pending_confirms'[i]] = i
               /\ channel'[pending_confirms'[i]] = "open"
    <3>1. /\ i \in DOMAIN pending_confirms /\ i # Done + 1 /\ i \in Nat
          /\ pending_confirms'[i] = pending_confirms[i]
          /\ pending_confirms[i] \in Request
      BY <1>9, <1>11
    <3>2. /\ i > Done /\ log_index[pending_confirms[i]] = i
          /\ channel[pending_confirms[i]] = "open"
      BY <3>1 DEF ServerInv, SendersStored
    <3>3. pending_confirms[i] \notin SendersAt({Done + 1})
      BY <1>10, <3>1, <3>2
    <3> QED
      BY <1>1, <1>5, <1>9, <3>1, <3>2, <3>3
  <2>2. ASSUME NEW r \in Request, channel'[r] = "open"
        PROVE  /\ log_index'[r] \in DOMAIN pending_confirms'
               /\ pending_confirms'[log_index'[r]] = r
    <3>1. channel[r] = "open" /\ r \notin SendersAt({Done + 1})
      BY <1>9, <2>2
    <3>2. log_index[r] \in DOMAIN pending_confirms /\ pending_confirms[log_index[r]] = r
      BY <3>1 DEF ServerInv, SendersStored
    <3>3. log_index[r] # Done + 1
      BY <3>1, <3>2 DEF SendersAt
    <3> QED
      BY <1>1, <1>9, <3>2, <3>3
  <2>3. ASSUME NEW r \in Request, pc'[r] \in {"validate", "append", "register"}
        PROVE  channel'[r] = "none"
    <3>1. channel[r] = "none"
      BY <1>1, <2>3 DEF ServerInv, SendersStored
    <3> QED
      BY <1>9, <1>10, <3>1
  <2> QED
    BY <2>1, <2>2, <2>3 DEF SendersStored
<1>17. SentWasExecuted'
  <2> SUFFICES ASSUME NEW r \in Request, channel'[r] = "sent"
               PROVE  Executed(log_index[r])'
    BY DEF SentWasExecuted
  <2>1. CASE r \in SendersAt({Done + 1})
    BY <1>1, <1>4, <1>6, <1>10, <2>1 DEF Executed
  <2>2. CASE r \notin SendersAt({Done + 1})
    <3>1. Executed(log_index[r])
      BY <1>9, <2>2 DEF ServerInv, SentWasExecuted
    <3> QED
      BY <1>1, <1>4, <3>1 DEF Executed
  <2> QED
    BY <2>1, <2>2
<1>18. ConfirmedWasExecuted'
  BY <1>1, <1>4 DEF ServerInv, ConfirmedWasExecuted, Executed
<1> QED
  BY <1>12, <1>13, <1>14, <1>15, <1>16, <1>17, <1>18 DEF ServerInv

(***************************************************************************)
(* The handlers.                                                           *)
(***************************************************************************)
\* Refusing or accepting a statement preserves the invariant.
LEMMA ValidateInv ==
    ASSUME ServerInv, NEW r \in Request, Validate(r)
    PROVE  ServerInv'
<1>1. UNCHANGED <<log, commit_index, leads, held, taken, last_applied, batch, db,
                  pending_confirms, log_index, channel, crashes>>
  BY DEF Validate, raft, loop
<1>2. PICK next \in {"append", "rejected"} : pc' = [pc EXCEPT ![r] = next]
  BY DEF Validate
<1>3. pc[r] = "validate" /\ channel[r] = "none"
  BY DEF Validate, ServerInv, SendersStored
<1>4. pc \in [Request -> {"validate", "append", "register", "waiting"} \cup Answers]
  BY DEF ServerInv, ServerTypeOK
<1>5. ServerTypeOK'
  BY <1>1, <1>2, <1>4 DEF ServerInv, ServerTypeOK, Answers
<1>6. LocksHeld' /\ SendersStored' /\ ConfirmedWasExecuted'
  BY <1>1, <1>2, <1>3, <1>4
     DEF ServerInv, LocksHeld, SendersStored, ConfirmedWasExecuted, Executed, Done
<1> QED
  BY <1>1, <1>5, <1>6
     DEF ServerInv, BatchFollows, AppliedOnceInOrder, SentWasExecuted, Executed, Done

\* Answering a request, however it is answered, preserves the invariant as
\* long as "committed" is only told of an executed entry.
LEMMA AnswerInv ==
    ASSUME ServerInv, NEW r \in Request, NEW a \in Answers,
           pc' = [pc EXCEPT ![r] = a],
           a = "committed" => channel[r] = "sent",
           UNCHANGED <<raft, held, loop, db, pending_confirms, log_index, channel,
                       crashes>>
    PROVE  ServerInv'
<1>1. UNCHANGED <<log, commit_index, leads, held, taken, last_applied, batch, db,
                  pending_confirms, log_index, channel, crashes>>
  BY DEF raft, loop
<1>2. pc \in [Request -> {"validate", "append", "register", "waiting"} \cup Answers]
  BY DEF ServerInv, ServerTypeOK
<1>3. ServerTypeOK'
  BY <1>1, <1>2 DEF ServerInv, ServerTypeOK
<1>4. a \notin {"validate", "append", "register"}
  BY DEF Answers
<1>5. LocksHeld' /\ SendersStored'
  BY <1>1, <1>2, <1>4 DEF ServerInv, LocksHeld, SendersStored, Done
<1>6. ConfirmedWasExecuted'
  BY <1>1, <1>2 DEF ServerInv, SentWasExecuted, ConfirmedWasExecuted, Executed
<1> QED
  BY <1>1, <1>3, <1>5, <1>6
     DEF ServerInv, BatchFollows, AppliedOnceInOrder, SentWasExecuted, Executed, Done

\* The answers that end a wait preserve the invariant.
LEMMA WaitOverInv ==
    ASSUME ServerInv, NEW r \in Request, Confirmed(r) \/ GiveUp(r)
    PROVE  ServerInv'
<1>1. CASE Confirmed(r)
  BY <1>1, AnswerInv DEF Confirmed, Answers
<1>2. CASE GiveUp(r)
  BY <1>2, AnswerInv DEF GiveUp, Answers
<1> QED
  BY <1>1, <1>2

\* Appending a request's write preserves the invariant: the new index is
\* beyond everything applied, and the node lock is kept until the sender is
\* stored.
LEMMA AppendEntryInv ==
    ASSUME ServerInv, NEW r \in Request, AppendEntry(r)
    PROVE  ServerInv'
<1>1. /\ UNCHANGED <<commit_index, leads, taken, last_applied, batch, db,
                     pending_confirms, channel, crashes>>
      /\ pc[r] = "append" /\ held["node"] = Nil
  BY DEF AppendEntry, loop
<1>2. CASE ~leads
  BY <1>1, <1>2, AnswerInv DEF AppendEntry, Answers, raft, loop
<1>3. CASE leads
  <2>1. /\ log' = Append(log, r)
        /\ log_index' = [log_index EXCEPT ![r] = Len(log) + 1]
        /\ \/ /\ pc' = [pc EXCEPT ![r] = "register"]
              /\ held' = [held EXCEPT !["node"] = r]
           \/ /\ pc' = [pc EXCEPT ![r] = "accepted"]
              /\ held' = held
    BY <1>3 DEF AppendEntry, HeldAfterAppend
  <2>2. /\ log \in Seq(Payload) /\ commit_index \in Nat /\ commit_index <= Len(log)
        /\ last_applied \in Nat /\ last_applied <= commit_index
        /\ held \in [Lock -> Request \cup {Nil, "loop"}]
        /\ pc \in [Request -> {"validate", "append", "register", "waiting"} \cup Answers]
        /\ log_index \in [Request -> Nat]
    BY DEF ServerInv, ServerTypeOK
  <2>3. /\ log' \in Seq(Payload) /\ Len(log) \in Nat /\ Len(log') = Len(log) + 1
        /\ \A i \in 1..commit_index : log'[i] = log[i]
    <3>1. r \in Payload
      BY DEF Payload
    <3> QED
      BY <2>1, <2>2, <3>1
  <2>4. channel[r] = "none"
    BY <1>1 DEF ServerInv, SendersStored
  <2>5. ServerTypeOK'
    <3>1. /\ held' \in [Lock -> Request \cup {Nil, "loop"}]
          /\ pc' \in [Request -> {"validate", "append", "register", "waiting"}
                                   \cup Answers]
      <4> DEFINE P == {"validate", "append", "register", "waiting"} \cup Answers
                 H == Request \cup {Nil, "loop"}
      <4>1. "register" \in P /\ "accepted" \in P /\ r \in H
        BY DEF Answers
      <4>2. held \in [Lock -> H] /\ pc \in [Request -> P]
        BY <2>2
      <4> HIDE DEF P, H
      <4>3. held' \in [Lock -> H] /\ pc' \in [Request -> P]
        BY <2>1, <4>1, <4>2
      <4> QED
        BY <4>3 DEF P, H
    <3>2. log_index' \in [Request -> Nat]
      BY <2>1, <2>2, <2>3
    <3> QED
      BY <1>1, <2>2, <2>3, <3>1, <3>2 DEF ServerInv, ServerTypeOK
  <2>6. BatchFollows' /\ AppliedOnceInOrder'
    BY <1>1, <2>2, <2>3, PrefixKept
  <2>7. LocksHeld'
    <3>1. taken = 0 /\ batch = <<>>
      BY <1>1, RequestAssumption DEF ServerInv, LocksHeld
    <3>2. \A q \in Request : pc[q] # "register"
      BY <1>1, RequestAssumption DEF ServerInv, LocksHeld
    <3>3. ASSUME NEW q \in Request, pc'[q] = "register"
          PROVE  held'["node"] = q /\ log_index'[q] > last_applied'
      <4>1. q = r /\ held' = [held EXCEPT !["node"] = r]
        BY <2>1, <2>2, <3>2, <3>3
      <4> QED
        BY <1>1, <2>1, <2>2, <2>3, <4>1 DEF Lock
    <3> QED
      BY <1>1, <3>1, <3>3 DEF LocksHeld
  <2>8. \A q \in Request \ {r} : log_index'[q] = log_index[q] /\ pc'[q] = pc[q]
    BY <2>1, <2>2
  <2>9. SendersStored'
    <3>1. \A i \in DOMAIN pending_confirms : pending_confirms[i] \in Request \ {r}
      BY <2>4 DEF ServerInv, SendersStored, ServerTypeOK
    <3>2. \A i \in DOMAIN pending_confirms' :
            /\ i > Done'
            /\ log_index'[pending_confirms'[i]] = i
            /\ channel'[pending_confirms'[i]] = "open"
      BY <1>1, <2>8, <3>1 DEF ServerInv, SendersStored, Done
    <3>3. \A q \in Request :
            /\ channel'[q] = "open" =>
                 /\ log_index'[q] \in DOMAIN pending_confirms'
                 /\ pending_confirms'[log_index'[q]] = q
            /\ pc'[q] \in {"validate", "append", "register"} => channel'[q] = "none"
      BY <1>1, <2>4, <2>8 DEF ServerInv, SendersStored
    <3> QED
      BY <3>2, <3>3 DEF SendersStored
  <2>10. SentWasExecuted'
    BY <1>1, <2>4, <2>8 DEF ServerInv, SentWasExecuted, Executed
  <2>11. ConfirmedWasExecuted'
    <3>1. pc'[r] # "committed"
      BY <2>1, <2>2
    <3> QED
      BY <1>1, <2>8, <3>1 DEF ServerInv, ConfirmedWasExecuted, Executed
  <2> QED
    BY <2>5, <2>6, <2>7, <2>9, <2>10, <2>11 DEF ServerInv
<1> QED
  BY <1>2, <1>3

\* Storing a sender preserves the invariant: the loop has not been past its
\* index, since the node lock was held all along.
LEMMA RegisterInv ==
    ASSUME ServerInv, NEW r \in Request, Register(r)
    PROVE  ServerInv'
<1> DEFINE n == log_index[r]
<1>1. /\ UNCHANGED <<log, commit_index, leads, taken, last_applied, batch, db,
                     log_index, crashes>>
      /\ pc[r] = "register" /\ pc' = [pc EXCEPT ![r] = "waiting"]
      /\ held' = Release(r)
      /\ pending_confirms' = [i \in DOMAIN pending_confirms \cup {n} |->
                                IF i = n THEN r ELSE pending_confirms[i]]
      /\ channel' = [q \in Request |->
                       IF q = r THEN "open"
                       ELSE IF q \in SendersAt({n}) THEN "dropped"
                       ELSE channel[q]]
  BY DEF Register, raft, loop
<1>2. /\ DOMAIN pending_confirms \subseteq Nat \ {0}
      /\ pending_confirms \in [DOMAIN pending_confirms -> Request]
      /\ channel \in [Request -> {"none", "open", "sent", "dropped"}]
      /\ held \in [Lock -> Request \cup {Nil, "loop"}]
      /\ pc \in [Request -> {"validate", "append", "register", "waiting"} \cup Answers]
      /\ log_index \in [Request -> Nat] /\ last_applied \in Nat
  BY DEF ServerInv, ServerTypeOK
<1>3. held["node"] = r /\ n > last_applied /\ channel[r] = "none"
  BY <1>1 DEF ServerInv, LocksHeld, SendersStored
<1>4. taken = 0 /\ batch = <<>>
  BY <1>3, RequestAssumption DEF ServerInv, LocksHeld
<1>5. Done = last_applied /\ Done' = last_applied /\ n \in Nat \ {0}
  BY <1>1, <1>2, <1>3, <1>4 DEF Done
<1>6. \A q \in SendersAt({n}) :
        /\ n \in DOMAIN pending_confirms /\ q = pending_confirms[n]
        /\ log_index[q] = n /\ channel[q] = "open"
  BY DEF SendersAt, ServerInv, SendersStored
<1> HIDE DEF n
<1>7. ServerTypeOK'
  <2>1. /\ DOMAIN pending_confirms' \subseteq Nat \ {0}
        /\ pending_confirms' \in [DOMAIN pending_confirms' -> Request]
    BY <1>1, <1>2, <1>5
  <2>2. channel' \in [Request -> {"none", "open", "sent", "dropped"}]
    BY <1>1, <1>2
  <2>3. held' \in [Lock -> Request \cup {Nil, "loop"}]
    BY <1>1, <1>2 DEF Release
  <2>4. pc' \in [Request -> {"validate", "append", "register", "waiting"} \cup Answers]
    BY <1>1, <1>2
  <2> QED
    BY <1>1, <2>1, <2>2, <2>3, <2>4 DEF ServerInv, ServerTypeOK
<1>8. LocksHeld'
  <2>1. \A q \in Request : pc'[q] # "register"
    BY <1>1, <1>2, <1>3 DEF ServerInv, LocksHeld
  <2> QED
    BY <1>1, <1>4, <2>1 DEF LocksHeld
<1>9. SendersStored'
  <2>1. ASSUME NEW i \in DOMAIN pending_confirms'
        PROVE  /\ i > Done'
               /\ log_index'[pending_confirms'[i]] = i
               /\ channel'[pending_confirms'[i]] = "open"
    <3>1. CASE i = n
      BY <1>1, <1>3, <1>5, <3>1 DEF n
    <3>2. CASE i # n
      <4>1. /\ i \in DOMAIN pending_confirms /\ pending_confirms'[i] = pending_confirms[i]
            /\ pending_confirms[i] \in Request
        BY <1>1, <1>2, <3>2
      <4>2. /\ i > Done /\ log_index[pending_confirms[i]] = i
            /\ channel[pending_confirms[i]] = "open"
        BY <4>1 DEF ServerInv, SendersStored
      <4>3. pending_confirms[i] \notin SendersAt({n}) /\ pending_confirms[i] # r
        BY <1>3, <1>6, <3>2, <4>2
      <4> QED
        BY <1>1, <1>5, <4>1, <4>2, <4>3
    <3> QED
      BY <3>1, <3>2
  <2>2. ASSUME NEW q \in Request, channel'[q] = "open"
        PROVE  /\ log_index'[q] \in DOMAIN pending_confirms'
               /\ pending_confirms'[log_index'[q]] = q
    <3>1. CASE q = r
      BY <1>1, <3>1 DEF n
    <3>2. CASE q # r
      <4>1. channel[q] = "open" /\ q \notin SendersAt({n})
        BY <1>1, <2>2, <3>2
      <4>2. log_index[q] \in DOMAIN pending_confirms /\ pending_confirms[log_index[q]] = q
        BY <4>1 DEF ServerInv, SendersStored
      <4>3. log_index[q] # n
        BY <4>1, <4>2 DEF SendersAt
      <4> QED
        BY <1>1, <4>2, <4>3
    <3> QED
      BY <3>1, <3>2
  <2>3. ASSUME NEW q \in Request, pc'[q] \in {"validate", "append", "register"}
        PROVE  channel'[q] = "none"
    <3>1. q # r /\ channel[q] = "none"
      BY <1>1, <1>2, <2>3 DEF ServerInv, SendersStored
    <3> QED
      BY <1>1, <1>6, <3>1
  <2> QED
    BY <2>1, <2>2, <2>3 DEF SendersStored
<1>10. SentWasExecuted'
  BY <1>1 DEF ServerInv, SentWasExecuted, Executed
<1>11. ConfirmedWasExecuted'
  BY <1>1, <1>2 DEF ServerInv, ConfirmedWasExecuted, Executed
<1> QED
  BY <1>1, <1>7, <1>8, <1>9, <1>10, <1>11
     DEF ServerInv, BatchFollows, AppliedOnceInOrder, Done

(***************************************************************************)
(* Crashes, and the theorems.                                              *)
(***************************************************************************)
\* A restart preserves the invariant: what was in flight counts as applied.
LEMMA CrashInv ==
    ASSUME ServerInv, Crash
    PROVE  ServerInv'
<1>1. /\ UNCHANGED <<log, commit_index, db, log_index>>
      /\ leads' = FALSE /\ taken' = 0 /\ batch' = <<>>
      /\ last_applied' = commit_index
      /\ held' = [l \in Lock |-> Nil]
      /\ pending_confirms' = [i \in {} |-> Nil]
      /\ channel' = [r \in Request |-> "none"]
      /\ crashes < MaxCrashes /\ crashes' = crashes + 1
      /\ pc' = [r \in Request |->
                  IF pc[r] \in {"append", "register", "waiting"} THEN "broken"
                  ELSE pc[r]]
  BY DEF Crash, ResumeAt
<1>2. /\ last_applied \in Nat /\ commit_index \in Nat /\ last_applied <= commit_index
      /\ batch \in Seq([index : Nat \ {0}, payload : Payload])
      /\ pc \in [Request -> {"validate", "append", "register", "waiting"} \cup Answers]
      /\ crashes \in 0..MaxCrashes
  BY DEF ServerInv, ServerTypeOK
<1>3. ServerTypeOK'
  <2>1. /\ held' \in [Lock -> Request \cup {Nil, "loop"}]
        /\ channel' \in [Request -> {"none", "open", "sent", "dropped"}]
        /\ pc' \in [Request -> {"validate", "append", "register", "waiting"} \cup Answers]
    BY <1>1, <1>2 DEF Answers
  <2>2. /\ DOMAIN pending_confirms' \subseteq Nat \ {0}
        /\ pending_confirms' \in [DOMAIN pending_confirms' -> Request]
    BY <1>1
  <2>3. /\ taken' \in 0..3 /\ last_applied' \in 0..commit_index'
        /\ crashes' \in 0..MaxCrashes
    BY <1>1, <1>2, ServerBounds
  <2>4. batch' \in Seq([index : Nat \ {0}, payload : Payload])
    BY <1>1
  <2>5. leads' \in BOOLEAN
    BY <1>1, Zenon
  <2> QED
    BY <1>1, <2>1, <2>2, <2>3, <2>4, <2>5 DEF ServerInv, ServerTypeOK
<1>4. Done' = commit_index /\ Len(batch') = 0
  BY <1>1, <1>2 DEF Done
<1>5. BatchFollows'
  <2>1. \A j \in DOMAIN db : db[j].index <= commit_index
    BY DEF ServerInv, AppliedOnceInOrder
  <2> QED
    BY <1>1, <1>2, <1>4, <2>1 DEF BatchFollows
<1>6. AppliedOnceInOrder'
  BY <1>1 DEF ServerInv, AppliedOnceInOrder
<1>7. LocksHeld' /\ SendersStored' /\ SentWasExecuted'
  BY <1>1 DEF LocksHeld, SendersStored, SentWasExecuted
<1>8. ConfirmedWasExecuted'
  BY <1>1, <1>2 DEF ServerInv, ConfirmedWasExecuted, Executed
<1> QED
  BY <1>3, <1>5, <1>6, <1>7, <1>8 DEF ServerInv

\* Every step preserves the invariant.
LEMMA ServerStep ==
    ASSUME ServerInv, [Next]_vars
    PROVE  ServerInv'
<1>1. CASE Consensus
  BY <1>1, ConsensusInv
<1>2. CASE LegacyClient
  BY <1>2, LegacyClientInv
<1>3. CASE Acquire
  BY <1>3, AcquireInv
<1>4. CASE Execute
  BY <1>4, ExecuteInv
<1>5. CASE Finish
  BY <1>5, FinishInv
<1>6. ASSUME NEW r \in Request, Handler(r)
      PROVE  ServerInv'
  BY <1>6, ValidateInv, AppendEntryInv, RegisterInv, WaitOverInv DEF Handler
<1>7. CASE Crash
  BY <1>7, CrashInv
<1>8. CASE UNCHANGED vars
  BY <1>8 DEF vars, raft, loop, handlers, ServerInv, ServerTypeOK, BatchFollows,
              AppliedOnceInOrder, LocksHeld, SendersStored, SentWasExecuted,
              ConfirmedWasExecuted, Executed, Done
<1> QED
  BY <1>1, <1>2, <1>3, <1>4, <1>5, <1>6, <1>7, <1>8 DEF Next

\* The invariant holds in every state of a titan-node process.
THEOREM ServerInvariant == Spec => []ServerInv
<1>1. Init => ServerInv
  BY ServerInit
<1>2. ServerInv /\ [Next]_vars => ServerInv'
  BY ServerStep
<1> QED
  BY <1>1, <1>2, PTL DEF Spec

\* Every variable keeps its shape, whatever the number of requests.
THEOREM ServerTypeCorrect == Spec => []ServerTypeOK
<1>1. ServerInv => ServerTypeOK
  BY DEF ServerInv
<1> QED
  BY <1>1, ServerInvariant, PTL

\* SQLite sees committed entries only, in log order and none of them twice,
\* across any number of crashes.
THEOREM AppliedInOrder == Spec => []AppliedOnceInOrder
<1>1. ServerInv => AppliedOnceInOrder
  BY DEF ServerInv
<1> QED
  BY <1>1, ServerInvariant, PTL

\* A sender that is stored waits for an index that is still to come, so the
\* confirmation of a waiting request is never lost between threads.
THEOREM NothingPassedBy == Spec => []NoLostConfirmation
<1>1. ServerInv => NoLostConfirmation
  <2> SUFFICES ASSUME ServerInv, NEW r \in Request, channel[r] = "open"
               PROVE  /\ log_index[r] \in DOMAIN pending_confirms
                      /\ pending_confirms[log_index[r]] = r
                      /\ \/ log_index[r] > last_applied
                         \/ \E j \in DOMAIN batch : batch[j].index = log_index[r]
    BY DEF NoLostConfirmation
  <2>1. log_index[r] \in DOMAIN pending_confirms /\ pending_confirms[log_index[r]] = r
    BY DEF ServerInv, SendersStored
  <2>2. log_index[r] > Done /\ log_index[r] \in Nat
    BY <2>1 DEF ServerInv, SendersStored, ServerTypeOK
  <2>3. /\ Done \in Nat /\ last_applied \in Nat
        /\ Len(batch) \in Nat /\ DOMAIN batch = 1..Len(batch)
        /\ last_applied = Done + Len(batch)
    BY EntryFacts DEF ServerInv, BatchFollows, ServerTypeOK, Done
  <2>4. CASE log_index[r] <= last_applied
    <3>1. log_index[r] - Done \in 1..Len(batch)
      BY <2>2, <2>3, <2>4
    <3>2. batch[log_index[r] - Done].index = Done + (log_index[r] - Done)
      BY <3>1 DEF ServerInv, BatchFollows
    <3>3. batch[log_index[r] - Done].index = log_index[r]
      BY <2>2, <2>3, <3>2
    <3> QED
      BY <2>1, <2>3, <3>1, <3>3
  <2> QED
    BY <2>1, <2>2, <2>3, <2>4
<1> QED
  BY <1>1, ServerInvariant, PTL

\* A client that is told "committed" can read what its index wrote.
THEOREM ConfirmedExecuted == Spec => []ConfirmedWasExecuted
<1>1. ServerInv => ConfirmedWasExecuted
  BY DEF ServerInv
<1> QED
  BY <1>1, ServerInvariant, PTL

=============================================================================
