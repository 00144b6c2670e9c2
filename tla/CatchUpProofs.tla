--------------------------- MODULE CatchUpProofs ---------------------------
(***************************************************************************)
(* What TLAPS proves of CatchUp, for every leader, every log its followers *)
(* may start from and every size of a datagram: what a follower shares     *)
(* with its leader it never loses again.                                   *)
(*                                                                         *)
(* All that an AppendEntries of the reign can carry is a stretch of the    *)
(* leader's log, which only grows; so the first entry a follower cuts away *)
(* is one that its leader does not hold.                                   *)
(***************************************************************************)
EXTENDS CatchUp, TitanRaftProofs

\* If m is an AppendEntries, its entries stand in log l where m puts them.
IsStretch(m, l) ==
    m.type = "AppendEntries" =>
        \A j \in 1..Len(m.entries) :
            /\ m.prev_log_index + j <= Len(l)
            /\ m.entries[j] = l[m.prev_log_index + j]

\* The invariant: besides the types, whatever is under way is a stretch of
\* the leader's log.
CatchInv == TypeOK /\ \A m \in net : IsStretch(m, log[Leader])

(***************************************************************************)
(* How much two logs share.                                                *)
(***************************************************************************)

\* k entries are shared, and the next one is not.
SharesExactly(a, b, k) ==
    /\ k <= Len(b) /\ \A i \in 1..k : a[i] = b[i]
    /\ k < Len(a) /\ k < Len(b) => a[k + 1] # b[k + 1]

\* The first k entries of a log, position by position.
LEMMA PrefixOf ==
    ASSUME NEW a \in Seq(Entry), NEW k \in 0..Len(a)
    PROVE  /\ SubSeq(a, 1, k) \in Seq(Entry) /\ Len(SubSeq(a, 1, k)) = k
           /\ \A i \in 1..k : SubSeq(a, 1, k)[i] = a[i]
<1>1. \A i \in 1..k : a[i] \in Entry
  OBVIOUS
<1>2. /\ 1 \in Int /\ k \in Int /\ k - 1 + 1 = k
      /\ (IF 1 <= k THEN k - 1 + 1 ELSE 0) = k
  OBVIOUS
<1>3. /\ SubSeq(a, 1, k) \in Seq(Entry) /\ Len(SubSeq(a, 1, k)) = k
      /\ \A i \in 1..(k - 1 + 1) : SubSeq(a, 1, k)[i] = a[1 + i - 1]
  BY <1>1, <1>2, SubSeqProperties
<1>4. \A i \in 1..k : 1 + i - 1 = i
  OBVIOUS
<1> QED
  BY <1>2, <1>3, <1>4

\* Two logs always share exactly some number of entries, and that is Shared.
LEMMA SharedFacts ==
    ASSUME NEW a \in Seq(Entry), NEW b \in Seq(Entry)
    PROVE  Shared(a, b) \in 0..Len(a) /\ SharesExactly(a, b, Shared(a, b))
<1> DEFINE S == {k \in 0..Len(a) : k <= Len(b) /\ \A i \in 1..k : a[i] = b[i]}
<1>1. Len(a) \in Nat /\ Len(b) \in Nat
  OBVIOUS
<1>2. \E k \in 0..Len(a) : SharesExactly(a, b, k)
  <2> SUFFICES ASSUME \A k \in 0..Len(a) : ~SharesExactly(a, b, k) PROVE FALSE
    OBVIOUS
  <2>1. 0 \in S
    BY <1>1
  <2>2. ASSUME NEW k \in 1..(Len(a) + 1), k - 1 \in S PROVE k \in S
    <3>1. /\ k - 1 \in 0..Len(a) /\ k - 1 <= Len(b)
          /\ \A i \in 1..(k - 1) : a[i] = b[i]
      BY <2>2
    <3>2. k - 1 < Len(a) /\ k - 1 < Len(b) /\ a[(k - 1) + 1] = b[(k - 1) + 1]
      BY <3>1 DEF SharesExactly
    <3>3. (k - 1) + 1 = k /\ k \in 0..Len(a) /\ k <= Len(b)
      BY <1>1, <3>2
    <3>4. \A i \in 1..k : a[i] = b[i]
      <4> SUFFICES ASSUME NEW i \in 1..k PROVE a[i] = b[i]
        OBVIOUS
      <4>1. i \in 1..(k - 1) \/ i = k
        BY <1>1
      <4> QED
        BY <3>1, <3>2, <3>3, <4>1
    <3> QED
      BY <3>3, <3>4
  <2>3. S \subseteq 0..Len(a) /\ Len(a) + 1 \in Nat
    BY <1>1
  <2> HIDE DEF S
  <2>4. Len(a) + 1 \in 0..(Len(a) + 1)
    BY <1>1
  <2>5. Len(a) + 1 \in S
    BY <2>1, <2>2, <2>3, <2>4, Climb
  <2> QED
    BY <1>1, <2>3, <2>5
<1>3. ASSUME NEW k \in 0..Len(a), k <= Len(b)
      PROVE  SubSeq(a, 1, k) = SubSeq(b, 1, k) <=> \A i \in 1..k : a[i] = b[i]
  <2>1. /\ SubSeq(a, 1, k) \in Seq(Entry) /\ Len(SubSeq(a, 1, k)) = k
        /\ \A i \in 1..k : SubSeq(a, 1, k)[i] = a[i]
    BY <1>3, PrefixOf
  <2>2. /\ SubSeq(b, 1, k) \in Seq(Entry) /\ Len(SubSeq(b, 1, k)) = k
        /\ \A i \in 1..k : SubSeq(b, 1, k)[i] = b[i]
    <3>1. k \in 0..Len(b)
      BY <1>1, <1>3
    <3> QED
      BY <3>1, PrefixOf
  <2>3. ASSUME \A i \in 1..k : a[i] = b[i]
        PROVE  SubSeq(a, 1, k) = SubSeq(b, 1, k)
    BY <2>1, <2>2, <2>3, SeqEqual
  <2> QED
    BY <2>1, <2>2, <2>3
<1> DEFINE P(k) == /\ k <= Len(b) /\ SubSeq(a, 1, k) = SubSeq(b, 1, k)
                   /\ k < Len(a) /\ k < Len(b) => a[k + 1] # b[k + 1]
<1>4. \A k \in 0..Len(a) : P(k) <=> SharesExactly(a, b, k)
  BY <1>3 DEF SharesExactly
<1>5. Shared(a, b) = CHOOSE k \in 0..Len(a) : P(k)
  BY DEF Shared
<1> HIDE DEF P
<1> QED
  BY <1>2, <1>4, <1>5

\* Logs that still have what two logs shared share no less.
LEMMA SharedGrows ==
    ASSUME NEW a \in Seq(Entry), NEW b \in Seq(Entry),
           NEW c \in Seq(Entry), NEW d \in Seq(Entry),
           Shared(a, b) <= Len(c), Shared(a, b) <= Len(d),
           \A i \in 1..Shared(a, b) : c[i] = a[i] /\ d[i] = b[i]
    PROVE  Shared(c, d) >= Shared(a, b)
<1> DEFINE k == Shared(a, b)
           h == Shared(c, d)
<1>1. k \in 0..Len(a) /\ SharesExactly(a, b, k)
  BY SharedFacts
<1>2. h \in 0..Len(c) /\ SharesExactly(c, d, h)
  BY SharedFacts
<1>3. Len(a) \in Nat /\ Len(c) \in Nat /\ Len(d) \in Nat
  OBVIOUS
<1>4. /\ k <= Len(c) /\ k <= Len(d)
      /\ \A i \in 1..k : c[i] = a[i] /\ d[i] = b[i]
  OBVIOUS
<1> HIDE DEF k, h
<1>5. \A i \in 1..k : c[i] = d[i]
  BY <1>1, <1>4 DEF SharesExactly
<1>6. ASSUME h < k PROVE FALSE
  <2>1. h + 1 \in 1..k /\ h < Len(c) /\ h < Len(d)
    BY <1>1, <1>2, <1>3, <1>4, <1>6
  <2> QED
    BY <1>2, <1>5, <2>1 DEF SharesExactly
<1>7. h >= k
  BY <1>1, <1>2, <1>3, <1>6
<1> QED
  BY <1>7 DEF h, k

(***************************************************************************)
(* A follower's log, when a stretch of the leader's log arrives.           *)
(***************************************************************************)

\* Where the two logs differ first, the follower's is cut, not before.
LEMMA OverwriteKeeps ==
    ASSUME NEW l \in Seq(Entry), NEW b \in Seq(Entry), NEW es \in Seq(Entry),
           NEW p \in Nat, p <= Len(l),
           \A k \in 1..Len(es) : p + k <= Len(b) /\ es[k] = b[p + k],
           NEW j \in FirstDiverging(l, p, es), NEW i \in (j - 1)..Len(es)
    PROVE  Shared(Overwrite(l, p, es, j, i), b) >= Shared(l, b)
<1> DEFINE o == Overwrite(l, p, es, j, i)
           k == Shared(l, b)
<1>1. o \in Seq(Entry)
  BY OverwriteType
<1>2. /\ j \in 1..Len(es) /\ Len(o) = p + i
      /\ \A q \in 1..(p + j - 1) : o[q] = l[q]
      /\ p + j > Len(l) \/ l[p + j].term # es[j].term
  BY OverwriteParts
<1>3. k \in 0..Len(l) /\ SharesExactly(l, b, k)
  BY SharedFacts
<1>4. Len(l) \in Nat /\ Len(b) \in Nat /\ Len(es) \in Nat /\ k <= Len(b)
  BY <1>3 DEF SharesExactly
<1> HIDE DEF o, k
<1>5. k <= p + j - 1
  <2> SUFFICES ASSUME k >= p + j PROVE FALSE
    BY <1>2, <1>3, <1>4
  <2>1. p + j \in 1..k /\ ~(p + j > Len(l))
    BY <1>2, <1>3, <1>4
  <2>2. l[p + j] = b[p + j]
    BY <1>3, <2>1 DEF SharesExactly
  <2>3. es[j] = b[p + j]
    BY <1>2
  <2> QED
    BY <1>2, <2>1, <2>2, <2>3
<1>6. k <= Len(o) /\ \A q \in 1..k : o[q] = l[q]
  <2>1. i \in Int /\ i >= j - 1 /\ j \in Int
    BY <1>2
  <2>2. k <= Len(o)
    BY <1>2, <1>3, <1>5, <2>1
  <2>3. \A q \in 1..k : q \in 1..(p + j - 1)
    BY <1>3, <1>5, <2>1
  <2> QED
    BY <1>2, <2>2, <2>3
<1>7. Shared(o, b) >= Shared(l, b)
  BY <1>1, <1>4, <1>6, SharedGrows DEF k
<1> QED
  BY <1>7 DEF o

\* So it is with all of AppendEntries.
LEMMA MergeKeeps ==
    ASSUME NEW l \in Seq(Entry), NEW b \in Seq(Entry), NEW es \in Seq(Entry),
           NEW p \in Nat, p <= Len(l),
           \A k \in 1..Len(es) : p + k <= Len(b) /\ es[k] = b[p + k]
    PROVE  Shared(Merge(l, p, es), b) >= Shared(l, b)
<1>1. CASE FirstDiverging(l, p, es) = {}
  <2>1. Shared(l, b) \in Nat
    BY SharedFacts
  <2> QED
    BY <1>1, <2>1 DEF Merge
<1>2. CASE FirstDiverging(l, p, es) # {}
  <2> DEFINE j == CHOOSE x \in FirstDiverging(l, p, es) : TRUE
  <2>1. j \in FirstDiverging(l, p, es)
    BY <1>2
  <2>2. Merge(l, p, es) = Overwrite(l, p, es, j, Len(es))
    BY <1>2 DEF Merge
  <2>3. Len(es) \in (j - 1)..Len(es)
    BY <2>1 DEF FirstDiverging
  <2> HIDE DEF j
  <2> QED
    BY <2>1, <2>2, <2>3, OverwriteKeeps
<1> QED
  BY <1>1, <1>2

(***************************************************************************)
(* What is sent.                                                           *)
(***************************************************************************)

\* An AppendEntries made from a log is a stretch of it.
LEMMA SentIsStretch ==
    ASSUME NEW n, NEW p, NEW l \in Seq(Entry), NEW k \in Nat \ {0}
    PROVE  IsStretch(AppendEntriesMsg(n, p, l, k), l)
<1> DEFINE es == SubSeq(l, k, Len(l))
<1>1. Len(l) \in Nat /\ \A i \in k..Len(l) : l[i] \in Entry
  OBVIOUS
<1>2. /\ Len(es) = IF k <= Len(l) THEN Len(l) - k + 1 ELSE 0
      /\ \A i \in 1..(Len(l) - k + 1) : es[i] = l[k + i - 1]
  BY <1>1, SubSeqProperties
<1> HIDE DEF es
<1>3. ASSUME NEW j \in 1..Len(es)
      PROVE  k - 1 + j <= Len(l) /\ es[j] = l[k - 1 + j]
  <2>1. k <= Len(l) /\ j \in 1..(Len(l) - k + 1) /\ k + j - 1 = k - 1 + j
    BY <1>1, <1>2
  <2> QED
    BY <1>1, <1>2, <2>1
<1>4. \A j \in 1..Len(SubSeq(l, k, Len(l))) :
        /\ (k - 1) + j <= Len(l)
        /\ SubSeq(l, k, Len(l))[j] = l[(k - 1) + j]
  BY <1>3 DEF es
<1> QED
  BY <1>4 DEF IsStretch, AppendEntriesMsg

\* A broadcast is made of such messages.
LEMMA BroadcastStretches ==
    ASSUME NEW n \in Node, NEW l \in Seq(Entry),
           NEW ni \in [Node -> Nat \ {0}]
    PROVE  \A m \in Broadcast(n, l, ni) : IsStretch(m, l)
<1>1. ASSUME NEW p \in Peers(n)
      PROVE  IsStretch(AppendEntriesMsg(n, p, l, ni[p]), l)
  <2>1. ni[p] \in Nat \ {0}
    BY DEF Peers
  <2> QED
    BY <2>1, SentIsStretch
<1> QED
  BY <1>1 DEF Broadcast

\* A stretch of a log is one of any log that continues it.
LEMMA StretchStays ==
    ASSUME NEW m \in Message, NEW l \in Seq(Entry), NEW b \in Seq(Entry),
           Len(l) <= Len(b), \A i \in 1..Len(l) : b[i] = l[i],
           IsStretch(m, l)
    PROVE  IsStretch(m, b)
<1> SUFFICES ASSUME m.type = "AppendEntries", NEW j \in 1..Len(m.entries)
             PROVE  /\ m.prev_log_index + j <= Len(b)
                    /\ m.entries[j] = b[m.prev_log_index + j]
  BY DEF IsStretch
<1>1. m.prev_log_index \in Nat /\ m.entries \in Seq(Entry)
  BY MessageFields DEF AppendEntries
<1>2. /\ m.prev_log_index + j <= Len(l)
      /\ m.entries[j] = l[m.prev_log_index + j]
  BY DEF IsStretch
<1>3. /\ Len(l) \in Nat /\ Len(b) \in Nat /\ Len(m.entries) \in Nat
      /\ j \in 1..Len(m.entries)
  BY <1>1
<1>4. m.prev_log_index + j \in 1..Len(l)
  BY <1>1, <1>2, <1>3
<1> QED
  BY <1>1, <1>2, <1>3, <1>4

(***************************************************************************)
(* The steps.                                                              *)
(***************************************************************************)

\* A good step sends only stretches of the leader's log, as it is after the
\* step, and takes from no follower what it shared with the leader.
Keeps ==
    /\ \A m \in net' : IsStretch(m, log'[Leader])
    /\ \A n \in Followers :
         Shared(log'[n], log'[Leader]) >= Shared(log[n], log[Leader])

\* The logs of the leader and its followers are logs.
LEMMA LogsAreTyped ==
    ASSUME TypeOK
    PROVE  /\ Leader \in Node /\ log[Leader] \in Seq(Entry)
           /\ \A n \in Followers : n \in Node /\ n # Leader
                                     /\ log[n] \in Seq(Entry)
BY CatchUpAssumption DEF TypeOK, Followers

\* A step that leaves the logs alone is good if what it sends is.
LEMMA QuietKeeps ==
    ASSUME CatchInv, log' = log,
           \A m \in net' : m \in net \/ IsStretch(m, log[Leader])
    PROVE  Keeps
<1>1. \A n \in Followers : Shared(log[n], log[Leader]) \in Nat
  BY LogsAreTyped, SharedFacts DEF CatchInv
<1>2. \A m \in net' : IsStretch(m, log'[Leader])
  BY DEF CatchInv
<1> QED
  BY <1>1, <1>2 DEF Keeps

\* So is one that changes one follower's log and keeps what it shared.
LEMMA FollowerKeeps ==
    ASSUME CatchInv, NEW n \in Followers, NEW l,
           log' = [log EXCEPT ![n] = l],
           Shared(l, log[Leader]) >= Shared(log[n], log[Leader]),
           \A m \in net' : m \in net \/ m.type # "AppendEntries"
    PROVE  Keeps
<1>1. /\ Leader \in Node /\ n \in Node /\ n # Leader
      /\ log \in [Node -> Seq(Entry)]
      /\ \A x \in Followers : x \in Node
  BY LogsAreTyped DEF CatchInv, TypeOK
<1>2. log'[Leader] = log[Leader] /\ log'[n] = l
  BY <1>1
<1>3. \A m \in net' : IsStretch(m, log'[Leader])
  BY <1>2 DEF CatchInv, IsStretch
<1>4. ASSUME NEW x \in Followers
      PROVE  Shared(log'[x], log'[Leader]) >= Shared(log[x], log[Leader])
  <2>1. CASE x = n
    BY <1>2, <2>1
  <2>2. CASE x # n
    <3>1. log'[x] = log[x]
      BY <1>1, <2>2
    <3>2. Shared(log[x], log[Leader]) \in Nat
      BY LogsAreTyped, SharedFacts DEF CatchInv
    <3> QED
      BY <1>2, <3>1, <3>2
  <2> QED
    BY <2>1, <2>2
<1> QED
  BY <1>3, <1>4 DEF Keeps

\* The leader's tick.
LEMMA HeartbeatKeeps ==
    ASSUME CatchInv, Heartbeat(Leader)
    PROVE  Keeps
<1>1. /\ log[Leader] \in Seq(Entry) /\ Leader \in Node
      /\ next_index[Leader] \in [Node -> Nat \ {0}]
  BY LogsAreTyped DEF CatchInv, TypeOK
<1>2. \A m \in Broadcast(Leader, log[Leader], next_index[Leader]) :
        IsStretch(m, log[Leader])
  BY <1>1, BroadcastStretches
<1>3. /\ log' = log
      /\ net' = net \cup Broadcast(Leader, log[Leader], next_index[Leader])
  BY DEF Heartbeat, Send, durable
<1> QED
  BY <1>2, <1>3, QuietKeeps

\* A client's write: the log grows, so whatever was a stretch of it still is.
LEMMA AppendLocalEntryKeeps ==
    ASSUME CatchInv, NEW v \in Value, AppendLocalEntry(Leader, v)
    PROVE  Keeps
<1> DEFINE e == [index |-> LastIndex(log[Leader]) + 1,
                 term |-> current_term[Leader], payload |-> v]
           b == Append(log[Leader], e)
<1>1. /\ log[Leader] \in Seq(Entry) /\ Leader \in Node
      /\ next_index[Leader] \in [Node -> Nat \ {0}]
      /\ log \in [Node -> Seq(Entry)] /\ current_term[Leader] \in Nat
      /\ net \subseteq Message
  BY LogsAreTyped DEF CatchInv, TypeOK
<1>2. e \in Entry
  <2>1. LastIndex(log[Leader]) \in Nat
    BY <1>1, LogReadsType
  <2> QED
    BY <1>1, <2>1 DEF Entry
<1>3. /\ log' = [log EXCEPT ![Leader] = b]
      /\ net' = net \cup Broadcast(Leader, b, next_index[Leader])
  BY DEF AppendLocalEntry, Send
<1> HIDE DEF e
<1>4. /\ b \in Seq(Entry) /\ Len(b) = Len(log[Leader]) + 1
      /\ \A i \in 1..Len(log[Leader]) : b[i] = log[Leader][i]
  BY <1>1, <1>2
<1> HIDE DEF b
<1>5. Len(log[Leader]) \in Nat
  BY <1>1
<1>6. log'[Leader] = b
  BY <1>1, <1>3
<1>7. ASSUME NEW m \in net' PROVE IsStretch(m, b)
  <2>1. CASE m \in net
    <3>1. m \in Message /\ IsStretch(m, log[Leader])
      BY <1>1, <2>1 DEF CatchInv
    <3>2. Len(log[Leader]) <= Len(b)
      BY <1>4, <1>5
    <3> QED
      BY <1>1, <1>4, <3>1, <3>2, StretchStays
  <2>2. CASE m \in Broadcast(Leader, b, next_index[Leader])
    BY <1>1, <1>4, <2>2, BroadcastStretches
  <2> QED
    BY <1>3, <2>1, <2>2
<1>8. ASSUME NEW n \in Followers
      PROVE  Shared(log'[n], log'[Leader]) >= Shared(log[n], log[Leader])
  <2>1. n \in Node /\ n # Leader /\ log[n] \in Seq(Entry)
    BY LogsAreTyped DEF CatchInv
  <2>2. log'[n] = log[n]
    BY <1>1, <1>3, <2>1
  <2> DEFINE k == Shared(log[n], log[Leader])
  <2>3. k \in 0..Len(log[n]) /\ SharesExactly(log[n], log[Leader], k)
    BY <1>1, <2>1, SharedFacts
  <2>4. Len(log[n]) \in Nat
    BY <2>1
  <2> HIDE DEF k
  <2>5. /\ k <= Len(log[n]) /\ k <= Len(b)
        /\ \A i \in 1..k : log[n][i] = log[n][i] /\ b[i] = log[Leader][i]
    <3>1. k \in Nat /\ k <= Len(log[n]) /\ k <= Len(log[Leader])
      BY <2>3, <2>4 DEF SharesExactly
    <3> QED
      BY <1>4, <1>5, <3>1
  <2>6. Shared(log[n], b) >= Shared(log[n], log[Leader])
    BY <1>1, <1>4, <2>1, <2>5, SharedGrows DEF k
  <2> QED
    BY <1>6, <2>2, <2>6
<1> QED
  BY <1>6, <1>7, <1>8 DEF Keeps

\* What an accepted AppendEntries is made of.
LEMMA AcceptedStretch ==
    ASSUME CatchInv, NEW n \in Followers, NEW m \in net,
           m.type = "AppendEntries", Accepts(n, m)
    PROVE  /\ m.entries \in Seq(Entry) /\ m.prev_log_index \in Nat
           /\ m.prev_log_index <= Len(log[n])
           /\ \A k \in 1..Len(m.entries) :
                /\ m.prev_log_index + k <= Len(log[Leader])
                /\ m.entries[k] = log[Leader][m.prev_log_index + k]
<1>1. m \in AppendEntries
  BY MessageFields DEF CatchInv, TypeOK
<1>2. m.entries \in Seq(Entry) /\ m.prev_log_index \in Nat
  BY <1>1 DEF AppendEntries
<1>3. Len(log[n]) \in Nat
  BY LogsAreTyped DEF CatchInv
<1>4. m.prev_log_index <= Len(log[n])
  BY <1>2, <1>3 DEF Accepts, PrevOk
<1>5. IsStretch(m, log[Leader])
  BY DEF CatchInv
<1> QED
  BY <1>2, <1>4, <1>5 DEF IsStretch

\* A follower takes a datagram off the socket.
LEMMA ReceiveKeeps ==
    ASSUME CatchInv, NEW n \in Followers, Receive(n)
    PROVE  Keeps
<1>1. PICK m \in net : HandleAppendEntries(n, m)
  BY DEF Receive, Arrives, Deliverable
<1> DEFINE l == IF Accepts(n, m)
                THEN Merge(log[n], m.prev_log_index, m.entries) ELSE log[n]
           r == [type |-> "AppendEntriesReply", from |-> n,
                 to |-> m.from, term |-> TermAfter(n, m),
                 success |-> Accepts(n, m),
                 match_index |-> IF Accepts(n, m) THEN ReportedMatch(l, m)
                                                  ELSE 0]
<1>2. /\ m.type = "AppendEntries"
      /\ log' = [log EXCEPT ![n] = l] /\ net' = net \cup {r}
  BY <1>1 DEF HandleAppendEntries, Exchange
<1>3. log[Leader] \in Seq(Entry) /\ log[n] \in Seq(Entry)
  BY LogsAreTyped DEF CatchInv
<1>4. Shared(l, log[Leader]) >= Shared(log[n], log[Leader])
  <2>1. CASE Accepts(n, m)
    BY <1>2, <1>3, <2>1, AcceptedStretch, MergeKeeps
  <2>2. CASE ~Accepts(n, m)
    <3>1. Shared(log[n], log[Leader]) \in Nat
      BY <1>3, SharedFacts
    <3> QED
      BY <2>2, <3>1
  <2> QED
    BY <2>1, <2>2
<1>5. \A x \in net' : x \in net \/ x.type # "AppendEntries"
  BY <1>2
<1> HIDE DEF l, r
<1> QED
  BY <1>2, <1>4, <1>5, FollowerKeeps

\* The leader takes a follower's answer: what it sends again is a stretch too.
LEMMA HearFromKeeps ==
    ASSUME CatchInv, NEW n \in Followers, HearFrom(n)
    PROVE  Keeps
<1>1. PICK m \in net : HandleAppendEntriesReply(Leader, m)
  BY DEF HearFrom, Arrives, Deliverable
<1>2. log' = log
  BY <1>1 DEF HandleAppendEntriesReply
<1>3. CASE net' = net
  BY <1>2, <1>3, QuietKeeps
<1>4. CASE /\ CanStepBack(Leader, m.from)
           /\ net' = net \cup {AppendEntriesMsg(Leader, m.from, log[Leader],
                                 next_index[Leader][m.from] - 1)}
  <2>1. /\ log[Leader] \in Seq(Entry) /\ Leader \in Node
        /\ m.from \in Node
    BY LogsAreTyped, MessageFields DEF CatchInv, TypeOK
  <2>2. next_index[Leader][m.from] - 1 \in Nat \ {0}
    BY <1>4, <2>1, StepBackType DEF CatchInv
  <2>3. IsStretch(AppendEntriesMsg(Leader, m.from, log[Leader],
                    next_index[Leader][m.from] - 1), log[Leader])
    BY <2>1, <2>2, SentIsStretch
  <2>4. \A x \in net' : x \in net \/ IsStretch(x, log[Leader])
    BY <1>4, <2>3
  <2> QED
    BY <1>2, <2>4, QuietKeeps
<1> QED
  BY <1>1, <1>3, <1>4 DEF HandleAppendEntriesReply, Exchange

\* A follower crashes, also in the middle of AppendEntries: what it has
\* written until then is part of what it would have written.
LEMMA CrashKeeps ==
    ASSUME CatchInv, NEW n \in Followers, Crash(n)
    PROVE  Keeps
<1>1. CASE Restart(n)
  <2>1. log' = log /\ net' = net
    BY <1>1 DEF Restart, durable, network
  <2> QED
    BY <2>1, QuietKeeps
<1>2. CASE TornCandidate(n)
  <2>1. log' = log /\ net' = net
    BY <1>2 DEF TornCandidate, network
  <2> QED
    BY <2>1, QuietKeeps
<1>3. ASSUME NEW m \in net, TornFollower(n, m) PROVE Keeps
  <2>1. log' = log /\ net' = net
    BY <1>3 DEF TornFollower, Exchange
  <2> QED
    BY <2>1, QuietKeeps
<1>4. ASSUME NEW m \in net, TornAppend(n, m) PROVE Keeps
  <2>1. m.type = "AppendEntries" /\ Accepts(n, m) /\ net' = net
    BY <1>4 DEF TornAppend, Exchange
  <2> PICK j \in FirstDiverging(log[n], m.prev_log_index, m.entries) :
         \E i \in (j - 1)..Len(m.entries) :
           log' = [log EXCEPT ![n] =
             Overwrite(log[n], m.prev_log_index, m.entries, j, i)]
    BY <1>4 DEF TornAppend
  <2>2. PICK i \in (j - 1)..Len(m.entries) :
          log' = [log EXCEPT ![n] =
            Overwrite(log[n], m.prev_log_index, m.entries, j, i)]
    OBVIOUS
  <2> DEFINE l == Overwrite(log[n], m.prev_log_index, m.entries, j, i)
  <2>3. log[Leader] \in Seq(Entry) /\ log[n] \in Seq(Entry)
    BY LogsAreTyped DEF CatchInv
  <2>4. /\ m.entries \in Seq(Entry) /\ m.prev_log_index \in Nat
        /\ m.prev_log_index <= Len(log[n])
        /\ \A k \in 1..Len(m.entries) :
             /\ m.prev_log_index + k <= Len(log[Leader])
             /\ m.entries[k] = log[Leader][m.prev_log_index + k]
    BY <2>1, AcceptedStretch
  <2>5. Shared(l, log[Leader]) >= Shared(log[n], log[Leader])
    BY <2>3, <2>4, OverwriteKeeps
  <2>6. log' = [log EXCEPT ![n] = l]
    BY <2>2
  <2> HIDE DEF l
  <2> QED
    BY <2>1, <2>5, <2>6, FollowerKeeps
<1> QED
  BY <1>1, <1>2, <1>3, <1>4 DEF Crash

\* Each step of CatchUp but a loss is one of TitanRaft.
LEMMA StepKeeps ==
    ASSUME CatchInv, [CatchUpNext]_vars
    PROVE  TypeOK' /\ Keeps
<1>1. CASE UNCHANGED vars
  <2>1. log' = log /\ net' = net
    BY <1>1 DEF vars, durable, network
  <2>2. TypeOK'
    BY <1>1, TypeStep DEF CatchInv
  <2> QED
    BY <2>1, <2>2, QuietKeeps
<1>2. CASE Heartbeat(Leader)
  <2>1. TypeOK'
    BY <1>2, LogsAreTyped, HeartbeatType DEF CatchInv
  <2> QED
    BY <1>2, <2>1, HeartbeatKeeps
<1>3. ASSUME NEW v \in Value, AppendLocalEntry(Leader, v)
      PROVE  TypeOK' /\ Keeps
  <2>1. TypeOK'
    BY <1>3, LogsAreTyped, AppendLocalEntryType DEF CatchInv
  <2> QED
    BY <1>3, <2>1, AppendLocalEntryKeeps
<1>4. ASSUME NEW n \in Followers, Receive(n) PROVE TypeOK' /\ Keeps
  <2>1. TypeOK'
    BY <1>4, LogsAreTyped, HandleAppendEntriesType
       DEF CatchInv, Receive, Arrives, Deliverable
  <2> QED
    BY <1>4, <2>1, ReceiveKeeps
<1>5. ASSUME NEW n \in Followers, HearFrom(n) PROVE TypeOK' /\ Keeps
  <2>1. TypeOK'
    BY <1>5, LogsAreTyped, HandleAppendEntriesReplyType
       DEF CatchInv, HearFrom, Arrives, Deliverable
  <2> QED
    BY <1>5, <2>1, HearFromKeeps
<1>6. ASSUME NEW n \in Followers, Crash(n) PROVE TypeOK' /\ Keeps
  <2>1. TypeOK'
    BY <1>6, LogsAreTyped, CrashType DEF CatchInv
  <2> QED
    BY <1>6, <2>1, CrashKeeps
<1>7. ASSUME NEW m \in net, Lose(m) PROVE TypeOK' /\ Keeps
  <2>1. /\ log' = log /\ net' = net
        /\ UNCHANGED <<current_term, voted_for, commit_index, role,
                       next_index, match_index, votes_received>>
        /\ delivered' = delivered \cup {m}
    BY <1>7 DEF Lose, durable, leaderState
  <2>2. TypeOK'
    BY <1>7, <2>1 DEF CatchInv, TypeOK
  <2> QED
    BY <2>1, <2>2, QuietKeeps
<1> QED
  BY <1>1, <1>2, <1>3, <1>4, <1>5, <1>6, <1>7 DEF CatchUpNext

\* The log a node starts from is a log.
LEMMA LogOfType ==
    ASSUME NEW terms \in Seq(Nat)
    PROVE  LogOf(terms) \in Seq(Entry)
<1>1. Len(terms) \in Nat /\ DOMAIN terms = 1..Len(terms)
  OBVIOUS
<1>2. (CHOOSE v \in Value : TRUE) \in Value
  BY CatchUpAssumption
<1>3. \A i \in 1..Len(terms) :
        [index |-> i, term |-> terms[i], payload |-> CHOOSE v \in Value : TRUE]
          \in Entry
  BY <1>1, <1>2 DEF Entry
<1> QED
  BY <1>1, <1>3 DEF LogOf

\* A reign begins in states of the right types, and the first broadcast is
\* made of the leader's log.
LEMMA CatchInit == CatchUpInit => CatchInv
<1> SUFFICES ASSUME CatchUpInit PROVE CatchInv
  OBVIOUS
<1>1. /\ Leader \in Node /\ Followers \subseteq Node /\ <<>> \in Seq(Entry)
      /\ Reign \in Nat /\ Reign - 1 \in Nat
  <2>1. Len(Electable) \in Nat /\ Len(Electable) # 0
    BY CatchUpAssumption, EmptySeq
  <2>2. Leader \in Node /\ Followers \subseteq Node /\ <<>> \in Seq(Entry)
    BY CatchUpAssumption DEF Followers
  <2> QED
    BY <2>1, <2>2 DEF Reign
<1>2. log \in [Node -> Seq(Entry)]
  <2>1. PICK logs \in [Followers -> LaggingTerms] :
          log = [n \in Node |-> IF n = Leader THEN LogOf(LeaderTerms)
                                ELSE IF n \in Down THEN <<>>
                                ELSE LogOf(logs[n])]
    BY DEF CatchUpInit
  <2>2. LogOf(LeaderTerms) \in Seq(Entry)
    BY CatchUpAssumption, LogOfType
  <2>3. ASSUME NEW n \in Node, n # Leader, n \notin Down
        PROVE  LogOf(logs[n]) \in Seq(Entry)
    <3>1. logs[n] \in Seq(Nat)
      BY <2>3, CatchUpAssumption DEF Followers
    <3> QED
      BY <3>1, LogOfType
  <2> QED
    BY <1>1, <2>1, <2>2, <2>3
<1>3. /\ current_term \in [Node -> Nat]
      /\ voted_for \in [Node -> Node \cup {Nil}]
  BY <1>1 DEF CatchUpInit
<1>4. FreshNext(Leader) \in [Node -> Nat \ {0}]
  <2>1. LastIndex(log[Leader]) \in Nat
    BY <1>1, <1>2, LogReadsType
  <2> QED
    BY <2>1 DEF FreshNext
<1>5. /\ commit_index \in [Node -> Nat]
      /\ role \in [Node -> {"Follower", "Candidate", "Leader"}]
      /\ match_index \in [Node -> [Node -> Nat]]
      /\ votes_received \in [Node -> Nat]
      /\ delivered = {}
  BY DEF CatchUpInit
<1>6. next_index \in [Node -> [Node -> Nat \ {0}]]
  <2>1. \A n \in Node : n = Leader => FreshNext(n) \in [Node -> Nat \ {0}]
    BY <1>4
  <2>2. next_index = [n \in Node |-> IF n = Leader THEN FreshNext(n)
                                     ELSE [p \in Node |-> 1]]
    BY DEF CatchUpInit
  <2> QED
    BY <2>1, <2>2
<1>7. net = Broadcast(Leader, log[Leader], FreshNext(Leader))
  BY DEF CatchUpInit
<1>8. \A m \in net : m \in Message
  <2>1. ASSUME NEW p \in Peers(Leader)
        PROVE  AppendEntriesMsg(Leader, p, log[Leader], FreshNext(Leader)[p])
                 \in Message
    <3>1. /\ p \in Node /\ FreshNext(Leader)[p] \in Nat \ {0}
          /\ log[Leader] \in Seq(Entry)
      BY <1>1, <1>2, <1>4 DEF Peers
    <3> DEFINE k == FreshNext(Leader)[p]
    <3>2. k \in Nat \ {0}
      BY <3>1
    <3> HIDE DEF k
    <3>3. SubSeq(log[Leader], k, Len(log[Leader])) \in Seq(Entry)
      BY <3>1, <3>2, SuffixType
    <3>4. TermAt(log[Leader], k - 1) \in Nat
      BY <3>1, LogReadsType
    <3>5. /\ k - 1 \in Nat /\ current_term[Leader] \in Nat
          /\ commit_index[Leader] \in Nat
      BY <1>1, <1>3, <1>5, <3>2
    <3>6. AppendEntriesMsg(Leader, p, log[Leader], k) \in AppendEntries
      BY <1>1, <3>1, <3>3, <3>4, <3>5 DEF AppendEntriesMsg, AppendEntries
    <3> QED
      BY <3>6 DEF Message, k
  <2> QED
    BY <1>7, <2>1 DEF Broadcast
<1>9. TypeOK
  BY <1>2, <1>3, <1>5, <1>6, <1>8 DEF TypeOK
<1>10. \A m \in net : IsStretch(m, log[Leader])
  BY <1>1, <1>2, <1>4, <1>7, BroadcastStretches
<1> QED
  BY <1>9, <1>10 DEF CatchInv

\* CatchInv holds for ever: nothing is under way in a reign but stretches of
\* its leader's log.
THEOREM OnlyStretches == CatchUpSpec => []CatchInv
<1>1. CatchInv /\ [CatchUpNext]_vars => CatchInv'
  BY StepKeeps DEF CatchInv, Keeps
<1> QED
  BY CatchInit, <1>1, PTL DEF CatchUpSpec

\* No delayed, repeated or torn AppendEntries takes from a follower what it
\* has in common with its leader.
THEOREM FollowersNeverFallBack == CatchUpSpec => NeverFallsBack
<1>1. CatchInv /\ [CatchUpNext]_vars =>
        [\A n \in Followers :
           Shared(log[n], log[Leader])' >= Shared(log[n], log[Leader])]_vars
  BY StepKeeps DEF Keeps
<1> QED
  BY OnlyStretches, <1>1, PTL DEF CatchUpSpec, NeverFallsBack
=============================================================================
