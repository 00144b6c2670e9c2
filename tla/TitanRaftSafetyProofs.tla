----------------------- MODULE TitanRaftSafetyProofs -----------------------
(***************************************************************************)
(* What TLAPS proves of a leader's bookkeeping and of commitment in        *)
(* TitanRaft: a peer holds what its leader believes it holds; what may     *)
(* count as held by two nodes is never lost, whoever is elected next; and, *)
(* when a leader commits only what a majority holds, nothing committed is  *)
(* ever lost.                                                              *)
(***************************************************************************)
EXTENDS TitanRaftProofs

(***************************************************************************)
(* What a leader knows.  First a summary of what any step of the core may  *)
(* do, proved handler by handler; then the invariant, preserved because of *)
(* the summary alone.                                                      *)
(***************************************************************************)

Acks == {r \in net : r.type = "AppendEntriesReply" /\ r.success}

\* Logs a and b are equal up to k.
Agree(k, a, b) == k <= Len(a) /\ k <= Len(b) /\ \A i \in 1..k : a[i] = b[i]

\* m is a stretch of l, with the term it gives for the entry before it.
PartOf(m, l) ==
    /\ m.prev_log_index <= Len(l)
    /\ m.prev_log_term = TermAt(l, m.prev_log_index)
    /\ MessageLinks(m) \subseteq LogLinks(l)

\* p has acknowledged k to l in l's term, or k is 0.
Reported(l, p, k) ==
    \/ k = 0
    \/ \E r \in Acks : /\ r.from = p /\ r.to = l /\ r.term = current_term[l]
                       /\ r.match_index = k

\* The invariant: a leader's indices stay within its log and come from
\* acknowledgements; what was sent in its term is part of its log; a node
\* still in the term of its acknowledgement agrees with the leader as far.
MatchInv ==
    /\ \A l, p \in Node : role[l] = "Leader" =>
         /\ next_index[l][p] <= Len(log[l]) + 1
         /\ Reported(l, p, match_index[l][p])
    /\ \A m \in Appends, l \in Node :
         role[l] = "Leader" /\ m.term = current_term[l] => PartOf(m, log[l])
    /\ \A r \in Acks :
         /\ Led(r.to, r.term)
         /\ role[r.to] = "Leader" /\ current_term[r.to] = r.term =>
              /\ r.match_index <= Len(log[r.to])
              /\ current_term[r.from] = r.term =>
                   Agree(r.match_index, log[r.from], log[r.to])

(***************************************************************************)
(* Agreement and stretches.                                                *)
(***************************************************************************)

\* A log agrees with itself, and with what it grows into.
LEMMA AgreeGrows ==
    ASSUME NEW a, NEW b, NEW c, NEW k \in Nat, Len(b) \in Nat, Len(c) \in Nat,
           Agree(k, a, b), Agree(Len(b), b, c)
    PROVE  Agree(k, a, c)
BY DEF Agree

\* The same on the other side.
LEMMA AgreeGrowsLeft ==
    ASSUME NEW a, NEW b, NEW c, NEW k \in Nat, Len(a) \in Nat, Len(c) \in Nat,
           Agree(k, a, b), Agree(Len(a), a, c)
    PROVE  Agree(k, c, b)
BY DEF Agree

\* Where logs agree, they have the same links.
LEMMA AgreeLinks ==
    ASSUME NEW a \in Seq(Entry), NEW b \in Seq(Entry), NEW k \in Nat,
           Agree(k, a, b), NEW x \in LogLinks(a), x.index <= k
    PROVE  x \in LogLinks(b)
<1>1. x.index \in 1..Len(a) /\ x = LinkAt(0, 0, a, x.index)
  BY LinkInLog
<1>2. x.index \in 1..Len(b) /\ a[x.index] = b[x.index]
  BY <1>1 DEF Agree
<1>3. x.index # 1 => a[x.index - 1] = b[x.index - 1]
  <2>1. x.index # 1 => x.index - 1 \in 1..k
    BY <1>1
  <2> QED
    BY <2>1 DEF Agree
<1>4. LinkAt(0, 0, a, x.index) = LinkAt(0, 0, b, x.index)
  BY <1>2, <1>3 DEF LinkAt
<1> QED
  BY <1>1, <1>2, <1>4, LinkInLog

\* A log that is appended to agrees with what it was.
LEMMA AppendAgrees ==
    ASSUME NEW l \in Seq(Entry), NEW e \in Entry
    PROVE  /\ Agree(Len(l), l, Append(l, e)) /\ Append(l, e) \in Seq(Entry)
           /\ Len(Append(l, e)) = Len(l) + 1
BY AppendProperties DEF Agree

\* A stretch of a log is a stretch of what the log grows into.
LEMMA PartOfGrown ==
    ASSUME NEW m \in AppendEntries, NEW a \in Seq(Entry), NEW b \in Seq(Entry),
           PartOf(m, a), Agree(Len(a), a, b)
    PROVE  PartOf(m, b)
<1>1. /\ m.prev_log_index \in Nat /\ m.prev_log_index <= Len(a)
      /\ m.prev_log_term = TermAt(a, m.prev_log_index)
      /\ Len(a) \in Nat /\ Len(b) \in Nat /\ Len(a) <= Len(b)
      /\ \A i \in 1..Len(a) : a[i] = b[i]
  BY DEF PartOf, Agree, AppendEntries
<1>2. m.prev_log_index <= Len(b) /\ m.prev_log_term = TermAt(b, m.prev_log_index)
  BY <1>1 DEF TermAt
<1>3. LogLinks(a) \subseteq LogLinks(b)
  <2> SUFFICES ASSUME NEW x \in LogLinks(a) PROVE x \in LogLinks(b)
    OBVIOUS
  <2>1. x.index <= Len(a)
    BY LinkInLog
  <2> QED
    BY <1>1, <2>1, AgreeLinks
<1> QED
  BY <1>2, <1>3 DEF PartOf

\* The part of a term's entries a message carries, by number.
LEMMA MessageLinkAt ==
    ASSUME NEW m \in AppendEntries
    PROVE  /\ \A j \in 1..Len(m.entries) : \E y \in MessageLinks(m) :
                y.index = m.prev_log_index + j /\ y.entry = m.entries[j]
           /\ \A y \in MessageLinks(m) : \E j \in 1..Len(m.entries) :
                y.index = m.prev_log_index + j /\ y.entry = m.entries[j]
<1> DEFINE At(j) == LinkAt(m.prev_log_index, m.prev_log_term, m.entries, j)
<1>1. MessageLinks(m) = {At(j) : j \in 1..Len(m.entries)}
  BY DEF MessageLinks, LinksOf
<1>2. \A j : At(j).index = m.prev_log_index + j /\ At(j).entry = m.entries[j]
  BY DEF LinkAt
<1> HIDE DEF At
<1> QED
  BY <1>1, <1>2

\* Two logs that a message is part of agree up to where it ends.
LEMMA PartOfBoth ==
    ASSUME NEW S, Determined(S), NEW a \in Seq(Entry), NEW b \in Seq(Entry),
           LogLinks(a) \subseteq S, LogLinks(b) \subseteq S,
           NEW m \in AppendEntries, PartOf(m, a), PartOf(m, b)
    PROVE  Agree(m.prev_log_index + Len(m.entries), a, b)
<1> DEFINE p == m.prev_log_index
           k == p + Len(m.entries)
<1>1. /\ p \in Nat /\ m.entries \in Seq(Entry) /\ Len(m.entries) \in Nat
      /\ Len(a) \in Nat /\ Len(b) \in Nat
  BY DEF AppendEntries
<1>2. CASE k = 0
  BY <1>1, <1>2 DEF Agree
<1>3. CASE k # 0
  <2>1. k \in 1..Len(a) /\ k <= Len(b) /\ a[k].term = b[k].term
    <3>1. CASE Len(m.entries) = 0
      <4>1. k = p /\ p <= Len(a) /\ p <= Len(b) /\ TermAt(a, p) = TermAt(b, p)
        BY <1>1, <3>1 DEF PartOf
      <4>2. p \in 1..Len(a) /\ p \in 1..Len(b)
        BY <1>1, <1>3, <4>1
      <4> QED
        BY <4>1, <4>2 DEF TermAt
    <3>2. CASE Len(m.entries) # 0
      <4>1. Len(m.entries) \in 1..Len(m.entries)
        BY <1>1, <3>2
      <4>2. PICK y \in MessageLinks(m) : y.index = k
        BY <4>1, MessageLinkAt
      <4>3. y \in LogLinks(a) /\ y \in LogLinks(b)
        BY DEF PartOf
      <4> QED
        BY <1>1, <4>2, <4>3, LinkInLog
    <3> QED
      BY <3>1, <3>2
  <2> HIDE DEF k
  <2>2. \A q \in 1..k : a[q] = b[q]
    BY <2>1, EqualBelow
  <2>3. k <= Len(a)
    BY <1>1, <2>1
  <2> QED
    BY <2>1, <2>2, <2>3 DEF Agree, k
<1> QED
  BY <1>2, <1>3

(***************************************************************************)
(* What a follower's merge keeps and takes over.                           *)
(***************************************************************************)

\* The links of m up to k are all in l.
SaysNothingNew(m, l, k) ==
    \A y \in MessageLinks(m) : y.index <= k => y \in LogLinks(l)

\* Where nothing diverges, all of the message's terms are in the log.
LEMMA NoneDiverges ==
    ASSUME NEW l, NEW p, NEW es \in Seq(Entry),
           FirstDiverging(l, p, es) = {}
    PROVE  \A j \in 1..Len(es) : ~Diverges(l, p, es, j)
<1> DEFINE D == {j \in 0..Len(es) : \A k \in 1..j : ~Diverges(l, p, es, k)}
<1>1. 0 \in D /\ Len(es) \in Nat
  OBVIOUS
<1>2. ASSUME NEW j \in 1..Len(es), j - 1 \in D PROVE j \in D
  <2>1. \A k \in 1..(j - 1) : ~Diverges(l, p, es, k)
    BY <1>2
  <2>2. ~Diverges(l, p, es, j)
    BY <2>1 DEF FirstDiverging
  <2>3. \A k \in 1..j : k \in 1..(j - 1) \/ k = j
    OBVIOUS
  <2>4. \A k \in 1..j : ~Diverges(l, p, es, k)
    BY <2>1, <2>2, <2>3
  <2>5. j \in 0..Len(es)
    OBVIOUS
  <2> QED
    BY <2>4, <2>5
<1>3. \A j \in 0..Len(es) : j \in D
  <2> HIDE DEF D
  <2> QED
    BY <1>1, <1>2, Climb
<1> QED
  <2> SUFFICES ASSUME NEW j \in 1..Len(es) PROVE ~Diverges(l, p, es, j)
    OBVIOUS
  <2>1. Len(es) \in 0..Len(es) /\ Len(es) \in D
    BY <1>1, <1>3
  <2> QED
    BY <2>1

\* A divergence lies past any position up to which m says nothing new.
LEMMA DivergesLater ==
    ASSUME NEW l \in Seq(Entry), NEW m \in AppendEntries, NEW k \in 0..Len(l),
           SaysNothingNew(m, l, k), NEW j \in 1..Len(m.entries),
           \/ m.prev_log_index + j > Len(l)
           \/ l[m.prev_log_index + j].term # m.entries[j].term
    PROVE  m.prev_log_index + j > k
<1>1. m.prev_log_index \in Nat /\ Len(l) \in Nat
  BY DEF AppendEntries
<1> SUFFICES ASSUME m.prev_log_index + j <= k PROVE FALSE
  BY <1>1
<1>2. PICK y \in MessageLinks(m) :
        y.index = m.prev_log_index + j /\ y.entry = m.entries[j]
  BY MessageLinkAt
<1>3. y \in LogLinks(l)
  BY <1>2 DEF SaysNothingNew
<1>4. y.index \in 1..Len(l) /\ y.entry = l[y.index]
  BY <1>3, LinkInLog
<1> QED
  BY <1>1, <1>2, <1>4

\* Cutting and appending, completely or not, keeps what m does not contradict.
LEMMA OverwriteKeeps ==
    ASSUME NEW l \in Seq(Entry), NEW m \in AppendEntries, NEW k \in 0..Len(l),
           m.prev_log_index <= Len(l), SaysNothingNew(m, l, k),
           NEW j \in FirstDiverging(l, m.prev_log_index, m.entries),
           NEW i \in (j - 1)..Len(m.entries)
    PROVE  Agree(k, l, Overwrite(l, m.prev_log_index, m.entries, j, i))
<1> DEFINE p == m.prev_log_index
           es == m.entries
           o == Overwrite(l, p, es, j, i)
<1>1. /\ p \in Nat /\ es \in Seq(Entry) /\ Len(l) \in Nat /\ p <= Len(l)
      /\ j \in FirstDiverging(l, p, es) /\ i \in (j - 1)..Len(es)
  BY DEF AppendEntries
<1> HIDE DEF p, es
<1>2. /\ j \in 1..Len(es) /\ Len(o) = p + i
      /\ \A q \in 1..(p + j - 1) : o[q] = l[q]
      /\ p + j > Len(l) \/ l[p + j].term # es[j].term
  BY <1>1, OverwriteParts
<1>3. p + j > k
  BY <1>2, DivergesLater DEF p, es
<1> HIDE DEF o
<1>4. \A q \in 1..k : q \in 1..(p + j - 1)
  BY <1>1, <1>2, <1>3
<1>5. k <= Len(o) /\ k <= Len(l)
  BY <1>1, <1>2, <1>3
<1> QED
  BY <1>2, <1>4, <1>5 DEF Agree, o, p, es

\* The merge of an accepted message keeps what m does not contradict, and m
\* is then part of the log.
LEMMA MergeFits ==
    ASSUME NEW S, Determined(S), NEW l \in Seq(Entry), NEW m \in AppendEntries,
           LogLinks(l) \subseteq S, MessageLinks(m) \subseteq S,
           m.prev_log_index <= Len(l),
           m.prev_log_term = TermAt(l, m.prev_log_index)
    PROVE  LET r == Merge(l, m.prev_log_index, m.entries)
           IN  /\ PartOf(m, r)
               /\ LogLinks(r) \subseteq LogLinks(l) \cup MessageLinks(m)
               /\ \A k \in 0..Len(l) : SaysNothingNew(m, l, k) => Agree(k, l, r)
<1> DEFINE p == m.prev_log_index
           es == m.entries
           r == Merge(l, p, es)
<1>1. p \in Nat /\ es \in Seq(Entry) /\ Len(l) \in Nat /\ Len(es) \in Nat
      /\ p <= Len(l) /\ m.prev_log_term \in Nat
  BY DEF AppendEntries
<1>2. r \in Seq(Entry)
  BY <1>1, MergeType
<1>3. LogLinks(r) \subseteq LogLinks(l) \cup MessageLinks(m)
  BY <1>1, MergeLinks DEF MessageLinks
<1>4. /\ Agree(p, l, r) /\ p + Len(es) <= Len(r)
      /\ \A j \in 1..Len(es) : r[p + j].term = es[j].term
      /\ \A k \in 0..Len(l) : SaysNothingNew(m, l, k) => Agree(k, l, r)
  <2>1. CASE FirstDiverging(l, p, es) = {}
    <3>1. r = l
      BY <2>1 DEF Merge
    <3>2. \A j \in 1..Len(es) : ~(p + j > Len(l)) /\ l[p + j].term = es[j].term
      <4>1. \A j \in 1..Len(es) : ~Diverges(l, p, es, j)
        BY ONLY <1>1, <2>1, NoneDiverges
      <4> QED
        BY ONLY <4>1 DEF Diverges
    <3>3. p + Len(es) <= Len(l)
      <4>1. CASE Len(es) = 0
        BY <1>1, <4>1
      <4>2. CASE Len(es) # 0
        <5>1. Len(es) \in 1..Len(es)
          BY <1>1, <4>2
        <5> QED
          BY <1>1, <3>2, <5>1
      <4> QED
        BY <4>1, <4>2
    <3> HIDE DEF r
    <3> QED
      BY <1>1, <3>1, <3>2, <3>3 DEF Agree
  <2>2. CASE FirstDiverging(l, p, es) # {}
    <3>1. PICK j \in FirstDiverging(l, p, es) :
            r = Overwrite(l, p, es, j, Len(es))
      BY <2>2 DEF Merge
    <3>2. j \in 1..Len(es)
      BY DEF FirstDiverging
    <3>3. Len(es) \in (j - 1)..Len(es)
      BY <1>1, <3>2
    <3> HIDE DEF r, p, es
    <3>4. /\ Len(r) = p + Len(es)
          /\ \A q \in 1..(p + j - 1) : r[q] = l[q]
          /\ \A q \in (p + j)..(p + Len(es)) : r[q] = es[q - p]
          /\ \A k \in 1..(j - 1) : l[p + k].term = es[k].term
      BY <1>1, <3>1, <3>3, OverwriteParts
    <3>5. ASSUME NEW q \in 1..Len(es) PROVE r[p + q].term = es[q].term
      <4>1. CASE q < j
        <5>1. p + q \in 1..(p + j - 1) /\ q \in 1..(j - 1)
          BY <1>1, <3>2, <4>1
        <5> QED
          BY <3>4, <5>1
      <4>2. CASE ~(q < j)
        <5>1. p + q \in (p + j)..(p + Len(es)) /\ (p + q) - p = q
          BY <1>1, <3>2, <4>2
        <5> QED
          BY <3>4, <5>1
      <4> QED
        BY <4>1, <4>2
    <3>6. Agree(p, l, r)
      <4>1. \A q \in 1..p : q \in 1..(p + j - 1)
        BY <1>1, <3>2
      <4>2. p <= Len(r)
        BY <1>1, <3>4
      <4> QED
        BY <1>1, <3>4, <4>1, <4>2 DEF Agree
    <3>7. \A k \in 0..Len(l) : SaysNothingNew(m, l, k) => Agree(k, l, r)
      BY <1>1, <3>1, <3>3, OverwriteKeeps DEF p, es
    <3>8. p + Len(es) <= Len(r)
      BY <1>1, <3>4
    <3> QED
      BY <3>5, <3>6, <3>7, <3>8
  <2> QED
    BY <2>1, <2>2
<1> HIDE DEF r
<1>5. m.prev_log_index <= Len(r)
      /\ m.prev_log_term = TermAt(r, m.prev_log_index)
  BY <1>1, <1>4 DEF Agree, TermAt
<1>6. MessageLinks(m) \subseteq LogLinks(r)
  <2> SUFFICES ASSUME NEW y \in MessageLinks(m) PROVE y \in LogLinks(r)
    OBVIOUS
  <2>1. PICK j \in 1..Len(es) : y.index = p + j /\ y.entry = es[j]
    BY MessageLinkAt
  <2>2. Len(r) \in Nat
    BY <1>2
  <2>3. p + j \in 1..Len(r)
    BY <1>1, <1>4, <2>2
  <2> DEFINE x == LinkAt(0, 0, r, p + j)
  <2>4. x \in LogLinks(r) /\ x.index = p + j /\ x.entry = r[p + j]
    BY <1>2, <2>3, LinkInLog
  <2> HIDE DEF x
  <2>5. x = y
    BY <1>3, <1>4, <2>1, <2>4 DEF Determined
  <2> QED
    BY <2>4, <2>5
<1>7. PartOf(m, r)
  BY <1>5, <1>6 DEF PartOf
<1> QED
  BY <1>3, <1>4, <1>7 DEF r

(***************************************************************************)
(* What a step may do: to a node's role, log and indices, and on the       *)
(* network.                                                                *)
(***************************************************************************)

\* Only a candidate with another's vote becomes leader, and in its term; a
\* new candidacy is of a new term; neither touches the log.
RoleAt(n) ==
    /\ role'[n] = "Leader" =>
         /\ current_term'[n] = current_term[n]
         /\ \/ role[n] = "Leader"
            \/ /\ role[n] = "Candidate" /\ log'[n] = log[n]
               /\ Elected(n, current_term[n])
    /\ role'[n] = "Candidate" =>
         /\ log'[n] = log[n]
         /\ \/ role[n] = "Candidate" /\ current_term'[n] = current_term[n]
            \/ current_term'[n] > current_term[n]

\* n follows m: it is in m's term, takes links from m only and keeps what m
\* does not contradict.
Obeys(n, m) ==
    /\ current_term[n] <= m.term /\ current_term'[n] = m.term
    /\ LogLinks(log'[n]) \subseteq LogLinks(log[n]) \cup MessageLinks(m)
    /\ \A k \in 0..Len(log[n]) :
         SaysNothingNew(m, log[n], k) => Agree(k, log[n], log'[n])

\* A leader appends in its term; a follower obeys; nothing else writes logs.
LogAt(n) ==
    \/ log'[n] = log[n]
    \/ /\ role[n] = "Leader" /\ role'[n] = "Leader"
       /\ \E e \in Entry : /\ e.term = current_term[n]
                           /\ log'[n] = Append(log[n], e)
    \/ role'[n] = "Follower" /\ \E m \in Appends : Obeys(n, m)

\* A leader's indices point into its log, and come from acknowledgements.
IndexAt(n) ==
    role'[n] = "Leader" => \A p \in Node :
        /\ next_index'[n][p] <= Len(log[n]) + 1
        /\ Reported(n, p, match_index'[n][p])

NodeRule == \A n \in Node : RoleAt(n) /\ LogAt(n) /\ IndexAt(n)

\* A leader sends the end of its log.
Sends(m) ==
    /\ m.from \in Node /\ role'[m.from] = "Leader"
    /\ m.term = current_term'[m.from] /\ PartOf(m, log'[m.from])
    /\ m.prev_log_index + Len(m.entries) = Len(log'[m.from])
    /\ m.leader_commit = commit_index'[m.from]

\* A follower acknowledges a message that is now part of its log.
Acknowledges(r, m) ==
    /\ r.to = m.from /\ r.term = m.term
    /\ r.match_index = m.prev_log_index + Len(m.entries)
    /\ current_term[r.from] <= m.term /\ current_term'[r.from] = m.term
    /\ PartOf(m, log'[r.from])

\* A vote is for who asked, with a log that is as good.
VotesFor(v, q) ==
    /\ q.type = "RequestVote" /\ q.from = v.to /\ q.term = v.term
    /\ current_term'[v.from] = v.term /\ LogOk(v.from, q)

\* A candidate says how good its log is.
Asks(q) ==
    /\ q.term = current_term'[q.from]
    /\ q.last_log_index = LastIndex(log'[q.from])
    /\ q.last_log_term = LastTerm(log'[q.from])

SendRule ==
    /\ net \subseteq net'
    /\ \A m \in net' \ net :
         /\ m.type = "AppendEntries" => Sends(m)
         /\ m.type = "AppendEntriesReply" /\ m.success =>
              \E a \in Appends : Acknowledges(m, a)
         /\ IsVote(m) => \E q \in net : VotesFor(m, q)
         /\ m.type = "RequestVote" => Asks(m)

TermRule == \A n \in Node : current_term[n] <= current_term'[n]

StepRule == TermRule /\ NodeRule /\ SendRule

\* Where no log is written and no index of a leader moves, the node rule says
\* only that no role is gained.
LEMMA StillNodes ==
    ASSUME TypeOK, MatchInv, GainsNoRole, log' = log,
           \A n \in Node : role'[n] = "Leader" =>
              next_index'[n] = next_index[n] /\ match_index'[n] = match_index[n]
    PROVE  NodeRule
<1>1. \A n \in Node : RoleAt(n) /\ LogAt(n)
  BY DEF GainsNoRole, RoleAt, LogAt
<1>2. \A n \in Node : IndexAt(n)
  BY DEF GainsNoRole, IndexAt, MatchInv
<1> QED
  BY <1>1, <1>2 DEF NodeRule

\* What a node sends of a log, up to the end of it.
LEMMA SentFits ==
    ASSUME NEW n, NEW p, NEW l \in Seq(Entry), NEW k \in Nat \ {0},
           k <= Len(l) + 1, NEW m, m = AppendEntriesMsg(n, p, l, k)
    PROVE  /\ m.type = "AppendEntries" /\ m.from = n /\ m.to = p
           /\ m.term = current_term[n] /\ m.leader_commit = commit_index[n]
           /\ PartOf(m, l) /\ m.prev_log_index + Len(m.entries) = Len(l)
<1>1. /\ m.type = "AppendEntries" /\ m.from = n /\ m.to = p
      /\ m.term = current_term[n] /\ m.leader_commit = commit_index[n]
      /\ m.prev_log_index = k - 1 /\ m.prev_log_term = TermAt(l, k - 1)
      /\ m.entries = SubSeq(l, k, Len(l))
  BY DEF AppendEntriesMsg
<1>2. MessageLinks(m) \subseteq LogLinks(l)
  BY <1>1, SuffixLinks DEF MessageLinks
<1>3. Len(SubSeq(l, k, Len(l))) = Len(l) - (k - 1) /\ Len(l) \in Nat
  <2>1. \A i \in k..Len(l) : l[i] \in Entry
    OBVIOUS
  <2> QED
    BY <2>1, SubSeqProperties
<1>4. (k - 1) + (Len(l) - (k - 1)) = Len(l) /\ k - 1 <= Len(l)
  BY <1>3
<1> QED
  BY <1>1, <1>2, <1>3, <1>4 DEF PartOf

\* A broadcast of a log no next index is past the end of.
LEMMA BroadcastFits ==
    ASSUME NEW n \in Node, NEW l \in Seq(Entry),
           NEW ni \in [Node -> Nat \ {0}], \A p \in Node : ni[p] <= Len(l) + 1,
           NEW m \in Broadcast(n, l, ni)
    PROVE  /\ m.type = "AppendEntries" /\ m.from = n
           /\ m.term = current_term[n] /\ m.leader_commit = commit_index[n]
           /\ PartOf(m, l) /\ m.prev_log_index + Len(m.entries) = Len(l)
<1>1. PICK p \in Peers(n) : m = AppendEntriesMsg(n, p, l, ni[p])
  BY DEF Broadcast
<1>2. p \in Node /\ ni[p] \in Nat \ {0} /\ ni[p] <= Len(l) + 1
  BY DEF Peers
<1> QED
  BY <1>1, <1>2, SentFits

(***************************************************************************)
(* Every handler keeps to the rule.                                        *)
(***************************************************************************)

\* become_candidate.
LEMMA BecomeCandidateRule ==
    ASSUME TypeOK, MatchInv, NEW n \in Node, BecomeCandidate(n)
    PROVE  StepRule
<1> DEFINE ms == {RequestVoteMsg(n, p, current_term[n] + 1) : p \in Peers(n)}
<1>1. /\ current_term' = [current_term EXCEPT ![n] = @ + 1]
      /\ role' = [role EXCEPT ![n] = "Candidate"]
      /\ log' = log /\ UNCHANGED leaderState /\ net' = net \cup ms
  BY DEF BecomeCandidate, Send
<1>2. /\ \A k \in Node \ {n} : role'[k] = role[k]
                                 /\ current_term'[k] = current_term[k]
      /\ role'[n] = "Candidate" /\ current_term'[n] = current_term[n] + 1
      /\ \A k \in Node : current_term[k] \in Nat
  BY <1>1 DEF TypeOK
<1>3. TermRule
  BY <1>2 DEF TermRule
<1>4. \A k \in Node : RoleAt(k) /\ LogAt(k)
  BY <1>1, <1>2 DEF RoleAt, LogAt
<1>5. \A k \in Node : IndexAt(k)
  BY <1>1, <1>2 DEF IndexAt, MatchInv, leaderState
<1>6. SendRule
  <2>1. \A m \in ms : /\ m.type = "RequestVote" /\ m.from = n
                      /\ m.term = current_term[n] + 1
                      /\ m.last_log_index = LastIndex(log[n])
                      /\ m.last_log_term = LastTerm(log[n])
    BY DEF RequestVoteMsg
  <2> HIDE DEF ms
  <2>2. \A m \in net' \ net : m.type = "RequestVote" /\ Asks(m)
    BY <1>1, <1>2, <2>1 DEF Asks
  <2> QED
    BY <1>1, <2>2 DEF SendRule, IsVote
<1> QED
  BY <1>3, <1>4, <1>5, <1>6 DEF StepRule, NodeRule

\* A step in which some leader sends, and nothing else happens on the network.
LEMMA LeaderSendRule ==
    ASSUME NEW n \in Node, role'[n] = "Leader",
           current_term'[n] = current_term[n],
           commit_index'[n] = commit_index[n],
           NEW ms, net' = net \cup ms,
           \A m \in ms :
              /\ m.type = "AppendEntries" /\ m.from = n
              /\ m.term = current_term[n] /\ m.leader_commit = commit_index[n]
              /\ PartOf(m, log'[n])
              /\ m.prev_log_index + Len(m.entries) = Len(log'[n])
    PROVE  SendRule
<1>1. \A m \in net' \ net : m.type = "AppendEntries" /\ Sends(m)
  BY DEF Sends
<1> QED
  BY <1>1 DEF SendRule, IsVote

\* tick() of a leader.
LEMMA HeartbeatRule ==
    ASSUME TypeOK, ElectionInv, MatchInv, NEW n \in Node, Heartbeat(n)
    PROVE  StepRule
<1>1. /\ role[n] = "Leader" /\ role' = role /\ current_term' = current_term
      /\ log' = log /\ commit_index' = commit_index /\ UNCHANGED leaderState
      /\ net' = net \cup Broadcast(n, log[n], next_index[n])
  BY DEF Heartbeat, Send, durable
<1>2. TermRule
  BY <1>1 DEF TermRule, TypeOK
<1>3. NodeRule
  <2>1. GainsNoRole
    BY <1>1 DEF GainsNoRole
  <2> QED
    BY <1>1, <2>1, StillNodes DEF leaderState
<1>4. SendRule
  <2>1. /\ log[n] \in Seq(Entry) /\ next_index[n] \in [Node -> Nat \ {0}]
        /\ \A p \in Node : next_index[n][p] <= Len(log[n]) + 1
    BY <1>1 DEF TypeOK, MatchInv
  <2>2. \A m \in Broadcast(n, log[n], next_index[n]) :
          /\ m.type = "AppendEntries" /\ m.from = n
          /\ m.term = current_term[n] /\ m.leader_commit = commit_index[n]
          /\ PartOf(m, log[n])
          /\ m.prev_log_index + Len(m.entries) = Len(log[n])
    BY <2>1, BroadcastFits
  <2> QED
    BY <1>1, <2>2, LeaderSendRule
<1> QED
  BY <1>2, <1>3, <1>4 DEF StepRule

\* append_local_entry.
LEMMA AppendLocalEntryRule ==
    ASSUME TypeOK, ElectionInv, LogInv, MatchInv, NEW n \in Node,
           NEW v \in Value, AppendLocalEntry(n, v)
    PROVE  StepRule
<1> DEFINE e == [index |-> LastIndex(log[n]) + 1, term |-> current_term[n],
                 payload |-> v]
           l == Append(log[n], e)
<1>1. /\ role[n] = "Leader" /\ role' = role /\ current_term' = current_term
      /\ commit_index' = commit_index /\ UNCHANGED leaderState
      /\ log' = [log EXCEPT ![n] = l]
      /\ net' = net \cup Broadcast(n, l, next_index[n])
  BY DEF AppendLocalEntry, Send
<1>2. log[n] \in Seq(Entry) /\ Len(log[n]) \in Nat /\ current_term[n] \in Nat
  BY DEF TypeOK
<1>3. e \in Entry /\ e.term = current_term[n]
  <2>1. LastIndex(log[n]) \in Nat
    BY <1>2, LogReadsType
  <2> QED
    BY <1>2, <2>1 DEF Entry
<1> HIDE DEF e
<1>4. Agree(Len(log[n]), log[n], l) /\ l \in Seq(Entry)
        /\ Len(l) = Len(log[n]) + 1
  BY <1>2, <1>3, AppendAgrees
<1>5. log'[n] = l /\ \A k \in Node \ {n} : log'[k] = log[k]
  BY <1>1 DEF TypeOK
<1>6. LogAt(n)
  BY <1>1, <1>3, <1>5 DEF LogAt
<1> HIDE DEF l
<1>7. TermRule
  BY <1>1 DEF TermRule, TypeOK
<1>8. NodeRule
  <2>1. \A k \in Node : LogAt(k)
    BY <1>5, <1>6 DEF LogAt
  <2>2. \A k \in Node : RoleAt(k)
    BY <1>1, <1>5 DEF RoleAt
  <2>3. \A k \in Node : IndexAt(k)
    BY <1>1 DEF IndexAt, MatchInv, leaderState
  <2> QED
    BY <2>1, <2>2, <2>3 DEF NodeRule
<1>9. SendRule
  <2>1. next_index[n] \in [Node -> Nat \ {0}]
    BY DEF TypeOK
  <2>2. \A p \in Node : next_index[n][p] <= Len(l) + 1
    <3> SUFFICES ASSUME NEW p \in Node PROVE next_index[n][p] <= Len(l) + 1
      OBVIOUS
    <3>1. next_index[n][p] <= Len(log[n]) + 1 /\ next_index[n][p] \in Nat
      BY <1>1, <2>1 DEF MatchInv
    <3> QED
      BY <1>2, <1>4, <3>1
  <2>3. \A m \in Broadcast(n, l, next_index[n]) :
          /\ m.type = "AppendEntries" /\ m.from = n
          /\ m.term = current_term[n] /\ m.leader_commit = commit_index[n]
          /\ PartOf(m, l) /\ m.prev_log_index + Len(m.entries) = Len(l)
    BY <1>4, <2>1, <2>2, BroadcastFits
  <2> DEFINE ms == Broadcast(n, l, next_index[n])
  <2>4. role'[n] = "Leader" /\ current_term'[n] = current_term[n]
        /\ commit_index'[n] = commit_index[n] /\ net' = net \cup ms
    BY <1>1
  <2> HIDE DEF ms
  <2>5. \A m \in ms :
          /\ m.type = "AppendEntries" /\ m.from = n
          /\ m.term = current_term[n] /\ m.leader_commit = commit_index[n]
          /\ PartOf(m, log'[n])
          /\ m.prev_log_index + Len(m.entries) = Len(log'[n])
    BY <1>5, <2>3 DEF ms
  <2> QED
    BY <2>4, <2>5, LeaderSendRule
<1> QED
  BY <1>7, <1>8, <1>9 DEF StepRule

\* step(), RequestVote.
LEMMA HandleRequestVoteRule ==
    ASSUME TypeOK, MatchInv, NEW n \in Node, NEW m \in net,
           HandleRequestVote(n, m)
    PROVE  StepRule
<1> DEFINE r == [type |-> "RequestVoteReply", from |-> n, to |-> m.from,
                 term |-> TermAfter(n, m), vote_granted |-> Grants(n, m)]
<1>1. /\ current_term' = [current_term EXCEPT ![n] = TermAfter(n, m)]
      /\ role' = [role EXCEPT ![n] = RoleAfter(n, m)]
      /\ log' = log /\ UNCHANGED leaderState /\ net' = net \cup {r}
      /\ m.type = "RequestVote"
  BY DEF HandleRequestVote, Exchange
<1>2. TermRule
  BY <1>1, TermsRise DEF TermRule, TypeOK
<1>3. NodeRule
  BY <1>1, AdoptQuiet, StillNodes DEF leaderState
<1>4. SendRule
  <2>1. /\ r.type = "RequestVoteReply" /\ r.from = n /\ r.to = m.from
        /\ r.term = TermAfter(n, m) /\ r.vote_granted = Grants(n, m)
    OBVIOUS
  <2>2. current_term'[n] = TermAfter(n, m)
    BY <1>1, AdoptQuiet
  <2> HIDE DEF r
  <2>3. IsVote(r) => VotesFor(r, m)
    BY <1>1, <2>1, <2>2 DEF IsVote, VotesFor, Grants
  <2> QED
    BY <1>1, <2>1, <2>3 DEF SendRule
<1> QED
  BY <1>2, <1>3, <1>4 DEF StepRule

\* step(), RequestVoteReply, the winning vote included.
LEMMA HandleRequestVoteReplyRule ==
    ASSUME TypeOK, LogInv, MatchInv, NEW n \in Node, NEW m \in net,
           HandleRequestVoteReply(n, m)
    PROVE  StepRule
<1>1. /\ current_term' = [current_term EXCEPT ![n] = TermAfter(n, m)]
      /\ log' = log /\ commit_index' = commit_index
      /\ m.to = n /\ m.type = "RequestVoteReply"
  BY DEF HandleRequestVoteReply
<1>2. TermRule
  BY <1>1, TermsRise DEF TermRule, TypeOK
<1>3. ASSUME Counts(n, m)
      PROVE  /\ current_term' = current_term
             /\ role[n] = "Candidate" /\ m.term = current_term[n]
             /\ IsVote(m)
  <2>1. role[n] = "Candidate" /\ ~(m.term > current_term[n])
    BY <1>3 DEF Counts, RoleAfter
  <2> QED
    BY <1>1, <1>3, <2>1 DEF Counts, TermAfter, IsVote, TypeOK
<1>4. ASSUME GainsNoRole, Exchange(m, {}), UNCHANGED leaderState
      PROVE  StepRule
  <2>1. NodeRule
    BY <1>1, <1>4, StillNodes DEF leaderState
  <2>2. SendRule
    BY <1>4 DEF SendRule, Exchange
  <2> QED
    BY <1>2, <2>1, <2>2 DEF StepRule
<1>5. CASE /\ role' = [role EXCEPT ![n] = RoleAfter(n, m)]
           /\ Exchange(m, {}) /\ UNCHANGED leaderState
  BY <1>1, <1>4, <1>5, AdoptQuiet
<1>6. CASE /\ Counts(n, m) /\ Exchange(m, {}) /\ UNCHANGED role
           /\ UNCHANGED leaderState
  BY <1>3, <1>4, <1>6 DEF GainsNoRole
<1>7. CASE /\ Counts(n, m)
           /\ role' = [role EXCEPT ![n] = "Leader"]
           /\ next_index' = [next_index EXCEPT ![n] = FreshNext(n)]
           /\ match_index' = [match_index EXCEPT ![n] = [p \in Node |-> 0]]
           /\ Exchange(m, Broadcast(n, log[n], FreshNext(n)))
  <2>1. /\ role[n] = "Candidate" /\ current_term' = current_term
        /\ Elected(n, current_term[n])
    BY <1>1, <1>3, <1>7 DEF Elected
  <2>2. /\ role'[n] = "Leader"
        /\ next_index'[n] = FreshNext(n) /\ match_index'[n] = [p \in Node |-> 0]
        /\ \A k \in Node \ {n} : /\ role'[k] = role[k]
                                 /\ next_index'[k] = next_index[k]
                                 /\ match_index'[k] = match_index[k]
    BY <1>7 DEF TypeOK
  <2>3. LastIndex(log[n]) = Len(log[n]) /\ Len(log[n]) \in Nat
    BY LastOfLog
  <2>4. /\ FreshNext(n) \in [Node -> Nat \ {0}]
        /\ \A p \in Node : FreshNext(n)[p] <= Len(log[n]) + 1
    BY <2>3 DEF FreshNext
  <2>5. \A k \in Node : RoleAt(k) /\ LogAt(k)
    BY <1>1, <2>1, <2>2 DEF RoleAt, LogAt
  <2>6. ASSUME NEW k \in Node PROVE IndexAt(k)
    <3>1. CASE k = n
      BY <2>2, <2>4, <3>1 DEF IndexAt, Reported
    <3>2. CASE k # n
      BY <2>2, <3>2 DEF IndexAt, MatchInv
    <3> QED
      BY <3>1, <3>2
  <2>7. SendRule
    <3> DEFINE ms == Broadcast(n, log[n], FreshNext(n))
    <3>1. /\ log[n] \in Seq(Entry) /\ log'[n] = log[n]
      BY <1>1 DEF TypeOK
    <3>2. \A b \in ms :
            /\ b.type = "AppendEntries" /\ b.from = n
            /\ b.term = current_term[n] /\ b.leader_commit = commit_index[n]
            /\ PartOf(b, log'[n])
            /\ b.prev_log_index + Len(b.entries) = Len(log'[n])
      BY <2>4, <3>1, BroadcastFits
    <3>3. net' = net \cup ms /\ commit_index'[n] = commit_index[n]
          /\ current_term'[n] = current_term[n]
      BY <1>1, <1>7, <2>1 DEF Exchange
    <3> HIDE DEF ms
    <3> QED
      BY <2>2, <3>2, <3>3, LeaderSendRule
  <2> QED
    BY <1>2, <2>5, <2>6, <2>7 DEF StepRule, NodeRule
<1> QED
  BY <1>5, <1>6, <1>7 DEF HandleRequestVoteReply

\* What follows for a follower whose new log keeps to a message.
LEMMA FollowerNodes ==
    ASSUME TypeOK, MatchInv, GainsNoRole, UNCHANGED leaderState,
           NEW n \in Node, NEW m \in Appends, NEW l, role'[n] = "Follower",
           log' = [log EXCEPT ![n] = l], Obeys(n, m)
    PROVE  NodeRule
<1>1. \A k \in Node \ {n} : log'[k] = log[k]
  BY DEF TypeOK
<1>2. \A k \in Node : RoleAt(k)
  BY <1>1 DEF GainsNoRole, RoleAt
<1>3. \A k \in Node : LogAt(k)
  BY <1>1 DEF LogAt
<1>4. \A k \in Node : IndexAt(k)
  BY DEF GainsNoRole, IndexAt, MatchInv, leaderState
<1> QED
  BY <1>2, <1>3, <1>4 DEF NodeRule

\* step(), AppendEntries.
LEMMA HandleAppendEntriesRule ==
    ASSUME TypeOK, ElectionInv, LogInv, MatchInv, NEW n \in Node, NEW m \in net,
           HandleAppendEntries(n, m)
    PROVE  StepRule
<1> DEFINE l == Merge(log[n], m.prev_log_index, m.entries)
           r == [type |-> "AppendEntriesReply", from |-> n, to |-> m.from,
                 term |-> TermAfter(n, m), success |-> Accepts(n, m),
                 match_index |-> IF Accepts(n, m) THEN ReportedMatch(l, m)
                                                  ELSE 0]
<1>1. /\ current_term' = [current_term EXCEPT ![n] = TermAfter(n, m)]
      /\ role' = [role EXCEPT ![n] = IF m.term = TermAfter(n, m)
                                     THEN "Follower" ELSE @]
      /\ log' = [log EXCEPT ![n] = IF Accepts(n, m) THEN l ELSE log[n]]
      /\ m.type = "AppendEntries" /\ UNCHANGED leaderState
  BY DEF HandleAppendEntries
<1>2. net' = net \cup {r}
  BY DEF HandleAppendEntries, Exchange, ReportedMatch
<1>3. TermRule
  BY <1>1, TermsRise DEF TermRule, TypeOK
<1>4. GainsNoRole
  BY HandleAppendEntriesQuiet DEF Quiet
<1>5. CASE ~Accepts(n, m)
  <2>1. log' = log
    BY <1>1, <1>5 DEF TypeOK
  <2>2. NodeRule
    BY <1>1, <1>4, <2>1, StillNodes DEF leaderState
  <2>3. SendRule
    <3>1. \A x \in net' \ net : x.type = "AppendEntriesReply" /\ ~x.success
      BY <1>2, <1>5
    <3>2. net \subseteq net'
      BY <1>2
    <3> QED
      BY <3>1, <3>2 DEF SendRule, IsVote
  <2> QED
    BY <1>3, <2>2, <2>3 DEF StepRule
<1>6. CASE Accepts(n, m)
  <2>1. /\ m \in Appends /\ m.prev_log_index <= Len(log[n])
        /\ m.prev_log_term = TermAt(log[n], m.prev_log_index)
        /\ m.term = TermAfter(n, m) /\ log[n] \in Seq(Entry)
        /\ current_term[n] <= m.term
    BY <1>1, <1>6, AcceptedFits
  <2>2. m \in AppendEntries /\ Determined(Links)
        /\ LogLinks(log[n]) \subseteq Links /\ MessageLinks(m) \subseteq Links
    BY <1>1, <2>1, MessageFields, LinkSources DEF TypeOK, LogInv, Determined
  <2>3. /\ PartOf(m, l)
        /\ LogLinks(l) \subseteq LogLinks(log[n]) \cup MessageLinks(m)
        /\ \A k \in 0..Len(log[n]) :
             SaysNothingNew(m, log[n], k) => Agree(k, log[n], l)
    BY <2>1, <2>2, MergeFits
  <2>4. /\ r.type = "AppendEntriesReply" /\ r.success /\ r.from = n
        /\ r.to = m.from /\ r.term = m.term
        /\ r.match_index = m.prev_log_index + Len(m.entries)
    BY <1>6, <2>1 DEF ReportedMatch
  <2>5. net' = net \cup {r} /\ log' = [log EXCEPT ![n] = l]
    BY <1>1, <1>2, <1>6
  <2> HIDE DEF l, r
  <2>6. log'[n] = l /\ current_term'[n] = m.term /\ role'[n] = "Follower"
    BY <1>1, <2>1, <2>5 DEF TypeOK
  <2>7. Obeys(n, m)
    BY <2>1, <2>3, <2>6 DEF Obeys
  <2>8. NodeRule
    BY <1>1, <1>4, <2>1, <2>5, <2>6, <2>7, FollowerNodes
  <2>9. Acknowledges(r, m)
    BY <2>1, <2>3, <2>4, <2>6 DEF Acknowledges
  <2>10. SendRule
    BY <2>1, <2>4, <2>5, <2>9 DEF SendRule, IsVote
  <2> QED
    BY <1>3, <2>8, <2>10 DEF StepRule
<1> QED
  BY <1>5, <1>6

\* step(), AppendEntriesReply: an acknowledgement moves the sender's indices.
LEMMA HandleAppendEntriesReplyRule ==
    ASSUME TypeOK, ElectionInv, MatchInv, NEW n \in Node, NEW m \in net,
           HandleAppendEntriesReply(n, m)
    PROVE  StepRule
<1>1. /\ current_term' = [current_term EXCEPT ![n] = TermAfter(n, m)]
      /\ role' = [role EXCEPT ![n] = RoleAfter(n, m)]
      /\ log' = log /\ m.to = n /\ m.type = "AppendEntriesReply"
  BY DEF HandleAppendEntriesReply
<1>2. TermRule
  BY <1>1, TermsRise DEF TermRule, TypeOK
<1>3. GainsNoRole
  BY <1>1, AdoptQuiet
<1>4. m.from \in Node
  BY MessageFields DEF TypeOK
<1>5. CASE Exchange(m, {}) /\ UNCHANGED leaderState
  <2>1. NodeRule
    BY <1>1, <1>3, <1>5, StillNodes DEF leaderState
  <2>2. SendRule
    BY <1>5 DEF SendRule, Exchange
  <2> QED
    BY <1>2, <2>1, <2>2 DEF StepRule
<1>6. ASSUME RoleAfter(n, m) = "Leader", m.term = TermAfter(n, m)
      PROVE  /\ role[n] = "Leader" /\ m.term = current_term[n]
             /\ current_term' = current_term /\ role' = role
  <2>1. ~(m.term > current_term[n]) /\ role[n] = "Leader"
    BY <1>6 DEF RoleAfter
  <2> QED
    BY <1>1, <1>6, <2>1 DEF TermAfter, RoleAfter, TypeOK
<1>7. CASE /\ RoleAfter(n, m) = "Leader" /\ m.term = TermAfter(n, m)
           /\ m.success /\ Exchange(m, {})
           /\ match_index' = [match_index EXCEPT ![n] =
                 [match_index[n] EXCEPT ![m.from] = m.match_index]]
           /\ next_index' = [next_index EXCEPT ![n][m.from] = m.match_index + 1]
  <2>1. m \in Acks /\ m.match_index <= Len(log[n]) /\ m.match_index \in Nat
    <3>1. m \in Acks
      BY <1>1, <1>7 DEF Acks
    <3>2. m.match_index \in Nat
      BY <1>1, MessageFields DEF TypeOK, AppendEntriesReply
    <3> QED
      BY <1>1, <1>6, <1>7, <3>1, <3>2 DEF MatchInv
  <2>2. /\ \A p \in Node \ {m.from} : /\ next_index'[n][p] = next_index[n][p]
                                      /\ match_index'[n][p] = match_index[n][p]
        /\ next_index'[n][m.from] = m.match_index + 1
        /\ match_index'[n][m.from] = m.match_index
        /\ \A k \in Node \ {n} : /\ next_index'[k] = next_index[k]
                                 /\ match_index'[k] = match_index[k]
    BY <1>4, <1>7 DEF TypeOK
  <2>3. IndexAt(n)
    <3> SUFFICES ASSUME NEW p \in Node
                 PROVE  /\ next_index'[n][p] <= Len(log[n]) + 1
                        /\ Reported(n, p, match_index'[n][p])
      BY DEF IndexAt
    <3>1. CASE p = m.from
      <4>1. Reported(n, p, m.match_index)
        BY <1>1, <1>6, <1>7, <2>1, <3>1 DEF Reported
      <4>2. m.match_index + 1 <= Len(log[n]) + 1
        <5>1. log[n] \in Seq(Entry) /\ Len(log[n]) \in Nat
          BY DEF TypeOK
        <5> QED
          BY <2>1, <5>1
      <4> QED
        BY <2>2, <3>1, <4>1, <4>2
    <3>2. CASE p # m.from
      BY <1>6, <1>7, <2>2, <3>2 DEF MatchInv
    <3> QED
      BY <3>1, <3>2
  <2>4. \A k \in Node \ {n} : IndexAt(k)
    BY <1>6, <1>7, <2>2 DEF IndexAt, MatchInv
  <2>5. \A k \in Node : RoleAt(k) /\ LogAt(k)
    BY <1>1, <1>3 DEF GainsNoRole, RoleAt, LogAt
  <2>6. SendRule
    BY <1>7 DEF SendRule, Exchange
  <2> QED
    BY <1>2, <2>3, <2>4, <2>5, <2>6 DEF StepRule, NodeRule
<1>8. CASE /\ RoleAfter(n, m) = "Leader" /\ m.term = TermAfter(n, m)
           /\ CanStepBack(n, m.from)
           /\ next_index' = [next_index EXCEPT ![n][m.from] = @ - 1]
           /\ Exchange(m, {AppendEntriesMsg(n, m.from, log[n],
                                            next_index[n][m.from] - 1)})
           /\ UNCHANGED <<commit_index, match_index>>
  <2> DEFINE k == next_index[n][m.from] - 1
             b == AppendEntriesMsg(n, m.from, log[n], k)
             ms == {b}
  <2>1. /\ k \in Nat \ {0} /\ log[n] \in Seq(Entry) /\ Len(log[n]) \in Nat
        /\ next_index[n][m.from] \in Nat
        /\ next_index[n][m.from] <= Len(log[n]) + 1
    <3>1. k \in Nat \ {0}
      BY <1>4, <1>8, StepBackType
    <3>2. /\ log[n] \in Seq(Entry) /\ Len(log[n]) \in Nat
          /\ next_index[n][m.from] \in Nat
      <4>1. log[n] \in Seq(Entry)
        BY DEF TypeOK
      <4>2. next_index[n][m.from] \in Nat
        BY <1>4 DEF TypeOK
      <4> QED
        BY <4>1, <4>2
    <3>3. next_index[n][m.from] <= Len(log[n]) + 1
      BY <1>4, <1>6, <1>8 DEF MatchInv
    <3> QED
      BY <3>1, <3>2, <3>3
  <2>2. k <= Len(log[n]) + 1
    BY <2>1
  <2>3. /\ \A p \in Node \ {m.from} : next_index'[n][p] = next_index[n][p]
        /\ next_index'[n][m.from] = k
        /\ \A q \in Node \ {n} : next_index'[q] = next_index[q]
        /\ match_index' = match_index
    BY <1>4, <1>8 DEF TypeOK
  <2>4. net' = net \cup ms
    BY <1>8 DEF Exchange
  <2> HIDE DEF k
  <2>5. IndexAt(n)
    BY <1>6, <1>8, <2>2, <2>3 DEF IndexAt, MatchInv
  <2>6. \A q \in Node \ {n} : IndexAt(q)
    BY <1>6, <1>8, <2>3 DEF IndexAt, MatchInv
  <2>7. \A q \in Node : RoleAt(q) /\ LogAt(q)
    BY <1>1, <1>3 DEF GainsNoRole, RoleAt, LogAt
  <2>8. SendRule
    <3> HIDE DEF b
    <3>1. /\ b.type = "AppendEntries" /\ b.from = n
          /\ b.term = current_term[n] /\ b.leader_commit = commit_index[n]
          /\ PartOf(b, log[n]) /\ b.prev_log_index + Len(b.entries) = Len(log[n])
      BY <2>1, <2>2, SentFits DEF b
    <3>2. \A x \in ms :
          /\ x.type = "AppendEntries" /\ x.from = n
          /\ x.term = current_term[n] /\ x.leader_commit = commit_index[n]
          /\ PartOf(x, log'[n])
          /\ x.prev_log_index + Len(x.entries) = Len(log'[n])
      BY <1>1, <3>1
    <3>3. role'[n] = "Leader" /\ current_term'[n] = current_term[n]
          /\ commit_index'[n] = commit_index[n]
      BY <1>6, <1>8
    <3> HIDE DEF ms
    <3> QED
      BY <2>4, <3>2, <3>3, LeaderSendRule
  <2>9. NodeRule
    BY ONLY <2>5, <2>6, <2>7 DEF NodeRule
  <2> QED
    BY ONLY <1>2, <2>8, <2>9 DEF StepRule
<1>9. HandleAppendEntriesReply(n, m)
  OBVIOUS
<1> QED
  BY ONLY <1>5, <1>7, <1>8, <1>9 DEF HandleAppendEntriesReply, leaderState

\* A crash: the node is a follower with the log it had, or with what an
\* unfinished merge left.
LEMMA CrashRule ==
    ASSUME TypeOK, ElectionInv, LogInv, MatchInv, NEW n \in Node, Crash(n)
    PROVE  StepRule
<1>1. GainsNoRole /\ Forget(n) /\ net' = net
  BY CrashQuiet DEF Quiet, Crash, Restart, TornCandidate, TornFollower,
                    TornAppend, network, Exchange
<1>2. /\ role'[n] = "Follower"
      /\ \A k \in Node \ {n} : /\ next_index'[k] = next_index[k]
                               /\ match_index'[k] = match_index[k]
  BY <1>1 DEF Forget, TypeOK
<1>3. SendRule
  BY <1>1 DEF SendRule
<1>4. ASSUME log' = log, TermRule
      PROVE  StepRule
  <2>1. NodeRule
    BY <1>1, <1>2, <1>4, StillNodes
  <2> QED
    BY <1>3, <1>4, <2>1 DEF StepRule
<1>5. CASE Restart(n)
  BY <1>4, <1>5 DEF Restart, durable, TermRule, TypeOK
<1>6. CASE TornCandidate(n)
  <2>1. log' = log /\ current_term \in [Node -> Nat]
        /\ current_term' = [current_term EXCEPT ![n] = current_term[n] + 1]
    BY <1>6 DEF TornCandidate, TypeOK
  <2>2. TermRule
    BY ONLY <2>1 DEF TermRule
  <2> QED
    BY ONLY <1>4, <2>1, <2>2
<1>7. ASSUME NEW m \in net, TornFollower(n, m)
      PROVE  StepRule
  <2>1. m.term \in Nat
    BY MessageFields DEF TypeOK
  <2> QED
    <3>1. /\ log' = log /\ current_term \in [Node -> Nat] /\ m.term > current_term[n]
          /\ current_term' = [current_term EXCEPT ![n] = m.term]
      BY <1>7 DEF TornFollower, TypeOK
    <3>2. TermRule
      BY ONLY <2>1, <3>1 DEF TermRule
    <3> QED
      BY ONLY <1>4, <3>1, <3>2
<1>8. ASSUME NEW m \in net, TornAppend(n, m)
      PROVE  StepRule
  <2>1. /\ m.type = "AppendEntries" /\ Accepts(n, m)
        /\ current_term' = [current_term EXCEPT ![n] = TermAfter(n, m)]
    BY <1>8 DEF TornAppend
  <2>2. /\ m \in Appends /\ m.prev_log_index <= Len(log[n])
        /\ m.prev_log_term = TermAt(log[n], m.prev_log_index)
        /\ m.term = TermAfter(n, m) /\ log[n] \in Seq(Entry)
        /\ current_term[n] <= m.term
        /\ m.prev_log_index \in Nat /\ m.entries \in Seq(Entry)
    BY <2>1, AcceptedFits
  <2>3. m \in AppendEntries
    BY <2>1, MessageFields DEF TypeOK
  <2>4. PICK j \in FirstDiverging(log[n], m.prev_log_index, m.entries) :
          \E i \in (j - 1)..Len(m.entries) :
            log' = [log EXCEPT ![n] =
                      Overwrite(@, m.prev_log_index, m.entries, j, i)]
    BY <1>8 DEF TornAppend
  <2>5. PICK i \in (j - 1)..Len(m.entries) :
            log' = [log EXCEPT ![n] =
                      Overwrite(log[n], m.prev_log_index, m.entries, j, i)]
    BY <2>4
  <2> DEFINE l == Overwrite(log[n], m.prev_log_index, m.entries, j, i)
  <2>6. /\ LogLinks(l) \subseteq LogLinks(log[n]) \cup MessageLinks(m)
        /\ \A k \in 0..Len(log[n]) :
             SaysNothingNew(m, log[n], k) => Agree(k, log[n], l)
    <3>1. LogLinks(l) \subseteq LogLinks(log[n]) \cup MessageLinks(m)
      BY <2>2, OverwriteLinks DEF MessageLinks
    <3>2. \A k \in 0..Len(log[n]) :
             SaysNothingNew(m, log[n], k) => Agree(k, log[n], l)
      BY <2>2, <2>3, OverwriteKeeps
    <3> QED
      BY <3>1, <3>2
  <2>7. log' = [log EXCEPT ![n] = l]
    BY <2>5
  <2> HIDE DEF l
  <2>8. log'[n] = l /\ current_term'[n] = m.term
        /\ \A k \in Node \ {n} : log'[k] = log[k]
    BY <2>1, <2>2, <2>7 DEF TypeOK
  <2>9. Obeys(n, m)
    BY <2>2, <2>6, <2>8 DEF Obeys
  <2>10. \A k \in Node : RoleAt(k)
    BY <1>1, <1>2, <2>8 DEF GainsNoRole, RoleAt
  <2>11. \A k \in Node : LogAt(k)
    BY <1>2, <2>2, <2>8, <2>9 DEF LogAt
  <2>12. \A k \in Node : IndexAt(k)
    BY <1>1, <1>2 DEF GainsNoRole, IndexAt, MatchInv
  <2>13. TermRule
    BY <2>1, TermsRise DEF TermRule, TypeOK
  <2> QED
    BY <1>3, <2>10, <2>11, <2>12, <2>13 DEF StepRule, NodeRule
<1> QED
  BY <1>5, <1>6, <1>7, <1>8 DEF Crash

\* So every step of the core keeps to the rule.
LEMMA NextRule ==
    ASSUME TypeOK, ElectionInv, LogInv, MatchInv, [Next]_vars
    PROVE  StepRule
<1>1. CASE UNCHANGED vars
  <2>1. /\ log' = log /\ net' = net /\ current_term' = current_term
        /\ role' = role /\ UNCHANGED leaderState
    BY <1>1 DEF vars, durable, network
  <2>2. NodeRule
    <3>1. GainsNoRole
      BY <2>1 DEF GainsNoRole
    <3> QED
      BY <2>1, <3>1, StillNodes DEF leaderState
  <2> QED
    BY <2>1, <2>2 DEF StepRule, SendRule, TermRule, TypeOK
<1>2. CASE \E n \in Node : BecomeCandidate(n)
  BY <1>2, BecomeCandidateRule
<1>3. CASE \E n \in Node : Heartbeat(n)
  BY <1>3, HeartbeatRule
<1>4. CASE \E n \in Node : \E v \in Value : AppendLocalEntry(n, v)
  BY <1>4, AppendLocalEntryRule
<1>5. ASSUME NEW n \in Node, NEW m \in net, Step(n, m)
      PROVE  StepRule
  BY <1>5, HandleRequestVoteRule, HandleRequestVoteReplyRule,
     HandleAppendEntriesRule, HandleAppendEntriesReplyRule DEF Step
<1>6. CASE \E n \in Node : Crash(n)
  BY <1>6, CrashRule
<1> QED
  BY <1>1, <1>2, <1>3, <1>4, <1>5, <1>6 DEF Next

(***************************************************************************)
(* The invariant is preserved by the rule alone.                           *)
(***************************************************************************)

\* Whoever leads after a step was elected before it, in the term it has.
LEMMA LeaderElected ==
    ASSUME ElectionInv, NodeRule, NEW l \in Node, role'[l] = "Leader"
    PROVE  Elected(l, current_term[l]) /\ current_term'[l] = current_term[l]
BY DEF ElectionInv, NodeRule, RoleAt

\* If its term was led before, then by itself.
LEMMA LedBefore ==
    ASSUME AtMostThree, TypeOK, ElectionInv, LogInv, NodeRule,
           NEW l \in Node, role'[l] = "Leader",
           NEW c, Led(c, current_term[l])
    PROVE  c = l /\ role[l] = "Leader"
<1>1. PICK m \in Appends : m.from = c /\ m.term = current_term[l]
  BY DEF Led
<1>2. c \in Node /\ Elected(c, current_term[l])
  BY <1>1, MessageFields DEF Appends, TypeOK, ElectionInv
<1>3. c = l
  BY <1>2, LeaderElected, ElectedOnce
<1> QED
  BY <1>3 DEF LogInv, NodeRule, RoleAt

\* A log is a sequence of entries before and after.
LEMMA LogType ==
    ASSUME TypeOK, TypeOK', NEW n \in Node
    PROVE  /\ log[n] \in Seq(Entry) /\ log'[n] \in Seq(Entry)
           /\ Len(log[n]) \in Nat /\ Len(log'[n]) \in Nat
<1>1. log[n] \in Seq(Entry) /\ log'[n] \in Seq(Entry)
  BY DEF TypeOK
<1> QED
  BY <1>1

\* A leader's log only grows.
LEMMA LeaderGrows ==
    ASSUME TypeOK, TypeOK', NodeRule, NEW l \in Node, role'[l] = "Leader"
    PROVE  /\ Agree(Len(log[l]), log[l], log'[l])
           /\ log[l] \in Seq(Entry) /\ log'[l] \in Seq(Entry)
           /\ Len(log[l]) \in Nat /\ Len(log'[l]) \in Nat
           /\ Len(log[l]) <= Len(log'[l])
<1>1. /\ log[l] \in Seq(Entry) /\ log'[l] \in Seq(Entry)
      /\ Len(log[l]) \in Nat /\ Len(log'[l]) \in Nat
  BY DEF TypeOK
<1>2. Agree(Len(log[l]), log[l], log'[l])
  <2>1. CASE log'[l] = log[l]
    BY <1>1, <2>1 DEF Agree
  <2>2. CASE \E e \in Entry : log'[l] = Append(log[l], e)
    BY <1>1, <2>2, AppendAgrees
  <2> QED
    BY <2>1, <2>2 DEF NodeRule, LogAt
<1> QED
  BY <1>1, <1>2 DEF Agree

\* Fields of the messages the invariant is about.
LEMMA AppendsType ==
    ASSUME TypeOK, NEW m \in Appends
    PROVE  /\ m \in AppendEntries /\ m.from \in Node /\ m.term \in Nat
           /\ m.prev_log_index \in Nat /\ m.prev_log_term \in Nat
           /\ m.entries \in Seq(Entry) /\ Len(m.entries) \in Nat
           /\ m.leader_commit \in Nat
<1>1. m \in AppendEntries
  BY MessageFields DEF TypeOK, Appends
<1>2. m.entries \in Seq(Entry)
  BY <1>1 DEF AppendEntries
<1> QED
  BY <1>1, <1>2 DEF AppendEntries

\* And of acknowledgements: they go to another node.
LEMMA AcksType ==
    ASSUME TypeOK, ElectionInv, NEW r \in Acks
    PROVE  /\ r.from \in Node /\ r.to \in Node /\ r.from # r.to
           /\ r.term \in Nat /\ r.match_index \in Nat
           /\ r.term <= current_term[r.from]
<1>1. r \in AppendEntriesReply
  BY MessageFields DEF TypeOK, Acks
<1> QED
  BY <1>1 DEF Acks, ElectionInv, AppendEntriesReply

\* A leader's indices.
LEMMA MatchStepIndices ==
    ASSUME TypeOK, TypeOK', MatchInv, StepRule,
           NEW l \in Node, NEW p \in Node, role'[l] = "Leader"
    PROVE  /\ next_index'[l][p] <= Len(log'[l]) + 1
           /\ Reported(l, p, match_index[l][p])'
<1>1. next_index'[l][p] <= Len(log[l]) + 1 /\ Reported(l, p, match_index'[l][p])
  BY DEF StepRule, NodeRule, IndexAt
<1>2. Len(log[l]) \in Nat /\ Len(log'[l]) \in Nat /\ Len(log[l]) <= Len(log'[l])
  BY LeaderGrows DEF StepRule
<1>3. next_index'[l][p] \in Nat
  BY DEF TypeOK
<1>4. next_index'[l][p] <= Len(log'[l]) + 1
  BY <1>1, <1>2, <1>3
<1>5. current_term'[l] = current_term[l] /\ Acks \subseteq Acks'
  BY DEF StepRule, NodeRule, RoleAt, SendRule, Acks
<1>6. Reported(l, p, match_index[l][p])'
  BY <1>1, <1>5 DEF Reported
<1> QED
  BY <1>4, <1>6

\* What was sent in a leader's term.
LEMMA MatchStepSent ==
    ASSUME AtMostThree, TypeOK, TypeOK', ElectionInv, LogInv, MatchInv, StepRule,
           NEW m \in Appends', NEW l \in Node, role'[l] = "Leader",
           m.term = current_term'[l]
    PROVE  PartOf(m, log'[l])
<1>1. Elected(l, current_term[l]) /\ current_term'[l] = current_term[l]
  BY LeaderElected DEF StepRule
<1>2. CASE m \in net
  <2>1. m \in Appends /\ m \in AppendEntries
    BY <1>2, AppendsType DEF Appends
  <2>2. role[l] = "Leader"
    BY <1>1, <2>1, LedBefore DEF Led, StepRule
  <2>3. PartOf(m, log[l])
    BY <1>1, <2>1, <2>2 DEF MatchInv
  <2> QED
    BY <2>1, <2>3, LeaderGrows, PartOfGrown DEF StepRule
<1>3. CASE m \notin net
  <2>1. /\ m.from \in Node /\ role'[m.from] = "Leader"
        /\ m.term = current_term'[m.from] /\ PartOf(m, log'[m.from])
    BY <1>3 DEF StepRule, SendRule, Appends, Sends
  <2>2. /\ Elected(m.from, current_term[m.from])
        /\ current_term'[m.from] = current_term[m.from]
    BY <2>1, LeaderElected DEF StepRule
  <2>3. m.from = l
    BY <1>1, <2>1, <2>2, ElectedOnce
  <2> QED
    BY <2>1, <2>3
<1> QED
  BY <1>2, <1>3

\* An old acknowledgement, whose node may have written its log since.
LEMMA MatchStepOldAck ==
    ASSUME AtMostThree, TypeOK, TypeOK', ElectionInv, LogInv, MatchInv, StepRule,
           NEW r \in Acks, role'[r.to] = "Leader", current_term'[r.to] = r.term
    PROVE  /\ r.match_index <= Len(log'[r.to])
           /\ current_term'[r.from] = r.term =>
                Agree(r.match_index, log'[r.from], log'[r.to])
<1> DEFINE l == r.to
           n == r.from
           k == r.match_index
<1>1. /\ n \in Node /\ l \in Node /\ n # l /\ k \in Nat /\ r.term \in Nat
      /\ r.term <= current_term[n] /\ Led(l, r.term)
  BY AcksType DEF MatchInv
<1>2. current_term[l] = r.term /\ role[l] = "Leader"
  BY <1>1, LedBefore, LeaderElected DEF StepRule
<1>3. /\ Agree(Len(log[l]), log[l], log'[l])
      /\ log[l] \in Seq(Entry) /\ log'[l] \in Seq(Entry)
      /\ Len(log[l]) \in Nat /\ Len(log'[l]) \in Nat
      /\ Len(log[l]) <= Len(log'[l])
  BY <1>1, LeaderGrows DEF StepRule
<1>4. k <= Len(log[l])
  BY <1>2 DEF MatchInv
<1>5. k <= Len(log'[l])
  BY <1>1, <1>3, <1>4
<1>6. ASSUME current_term'[n] = r.term
      PROVE  Agree(k, log'[n], log'[l])
  <2>1. current_term[n] = r.term
    <3>1. current_term[n] <= current_term'[n] /\ current_term[n] \in Nat
      BY <1>1 DEF StepRule, TermRule, TypeOK
    <3> QED
      BY <1>1, <1>6, <3>1
  <2>2. Agree(k, log[n], log[l])
    BY <1>2, <2>1 DEF MatchInv
  <2>3. Agree(k, log[n], log'[l])
    BY <1>1, <1>3, <2>2, AgreeGrows
  <2>4. log[n] \in Seq(Entry) /\ log'[n] \in Seq(Entry)
        /\ Len(log[n]) \in Nat /\ Len(log'[n]) \in Nat
    BY <1>1, LogType
  <2>5. CASE log'[n] = log[n]
    BY <2>3, <2>5
  <2>6. CASE \E e \in Entry : log'[n] = Append(log[n], e)
    <3>1. Agree(Len(log[n]), log[n], log'[n])
      BY <2>4, <2>6, AppendAgrees
    <3> QED
      BY <1>1, <2>3, <2>4, <3>1, AgreeGrowsLeft
  <2>7. ASSUME NEW m \in Appends, Obeys(n, m)
        PROVE  Agree(k, log'[n], log'[l])
    <3>1. PartOf(m, log[l])
      BY <1>1, <1>2, <1>6, <2>7 DEF MatchInv, Obeys
    <3>2. SaysNothingNew(m, log[n], k)
      <4> SUFFICES ASSUME NEW y \in MessageLinks(m), y.index <= k
                   PROVE  y \in LogLinks(log[n])
        BY DEF SaysNothingNew
      <4>1. y \in LogLinks(log[l])
        BY <3>1 DEF PartOf
      <4>2. Agree(k, log[l], log[n])
        BY <2>2 DEF Agree
      <4> QED
        BY <1>1, <1>3, <2>4, <4>1, <4>2, AgreeLinks
    <3>3. k \in 0..Len(log[n])
      BY <1>1, <2>2, <2>4 DEF Agree
    <3>4. Agree(k, log[n], log'[n])
      BY <2>7, <3>2, <3>3 DEF Obeys
    <3> QED
      BY <2>3, <3>4 DEF Agree
  <2> QED
    BY <1>1, <2>5, <2>6, <2>7 DEF StepRule, NodeRule, LogAt
<1> QED
  BY <1>5, <1>6

\* A new acknowledgement, of a message that is part of both logs.
LEMMA MatchStepNewAck ==
    ASSUME AtMostThree, TypeOK, TypeOK', ElectionInv, LogInv, LogInv', MatchInv,
           StepRule, NEW r \in Acks', r \notin net
    PROVE  /\ Led(r.to, r.term)'
           /\ role'[r.to] = "Leader" /\ current_term'[r.to] = r.term =>
              /\ r.match_index <= Len(log'[r.to])
              /\ Agree(r.match_index, log'[r.from], log'[r.to])
<1>1. PICK m \in Appends : Acknowledges(r, m)
  BY DEF StepRule, SendRule, Acks
<1>2. Led(r.to, r.term)
  BY <1>1 DEF Acknowledges, Led
<1>3. Led(r.to, r.term)' /\ m \in Appends'
  BY <1>1, <1>2 DEF StepRule, SendRule, Led, Appends
<1>4. ASSUME role'[r.to] = "Leader", current_term'[r.to] = r.term
      PROVE  Agree(r.match_index, log'[r.from], log'[r.to])
  <2>1. r.from \in Node /\ r.to \in Node
    BY MessageFields DEF TypeOK, Acks
  <2>2. PartOf(m, log'[r.from]) /\ PartOf(m, log'[r.to])
    BY <1>1, <1>3, <1>4, <2>1, MatchStepSent DEF Acknowledges
  <2>3. /\ log'[r.from] \in Seq(Entry) /\ log'[r.to] \in Seq(Entry)
        /\ LogLinks(log'[r.from]) \subseteq Links'
        /\ LogLinks(log'[r.to]) \subseteq Links'
    BY <2>1 DEF TypeOK, Links
  <2>4. Determined(Links')
    BY DEF LogInv, Determined
  <2>5. m \in AppendEntries
    BY AppendsType
  <2> QED
    BY <1>1, <2>2, <2>3, <2>4, <2>5, PartOfBoth DEF Acknowledges
<1> QED
  BY <1>3, <1>4 DEF Agree

\* Every step preserves the invariant of the leader's bookkeeping.
LEMMA MatchStep ==
    ASSUME AtMostThree
    PROVE  TypeOK /\ TypeOK' /\ ElectionInv /\ LogInv /\ LogInv' /\ MatchInv
             /\ [Next]_vars => MatchInv'
<1> SUFFICES ASSUME TypeOK, TypeOK', ElectionInv, LogInv, LogInv', MatchInv,
                    [Next]_vars
             PROVE  MatchInv'
  OBVIOUS
<1>1. StepRule
  BY NextRule
<1>2. ASSUME NEW r \in Acks'
      PROVE  /\ Led(r.to, r.term)'
             /\ role'[r.to] = "Leader" /\ current_term'[r.to] = r.term =>
                  /\ r.match_index <= Len(log'[r.to])
                  /\ current_term'[r.from] = r.term =>
                       Agree(r.match_index, log'[r.from], log'[r.to])
  <2>1. CASE r \in net
    <3>1. r \in Acks
      BY <2>1 DEF Acks
    <3>2. Led(r.to, r.term)
      BY <3>1 DEF MatchInv
    <3>3. Led(r.to, r.term)'
      BY <1>1, <3>2 DEF StepRule, SendRule, Led, Appends
    <3> QED
      BY <1>1, <3>1, <3>3, MatchStepOldAck
  <2>2. CASE r \notin net
    BY <1>1, <2>2, MatchStepNewAck
  <2> QED
    BY <2>1, <2>2
<1>3. \A l, p \in Node : role'[l] = "Leader" =>
         /\ next_index'[l][p] <= Len(log'[l]) + 1
         /\ Reported(l, p, match_index[l][p])'
  BY <1>1, MatchStepIndices
<1>4. \A m \in Appends', l \in Node :
         role'[l] = "Leader" /\ m.term = current_term'[l] => PartOf(m, log'[l])
  BY <1>1, MatchStepSent
<1> QED
  BY <1>2, <1>3, <1>4 DEF MatchInv

\* Nothing is sent and nobody leads at the start.
LEMMA MatchInit == Init => MatchInv
BY DEF Init, MatchInv, Appends, Acks

\* Elections, logs and bookkeeping: the inductive invariant of the core.
THEOREM MatchInvariant ==
    ASSUME AtMostThree
    PROVE  Spec => [](TypeOK /\ ElectionInv /\ LogInv /\ MatchInv)
<1>1. Init => TypeOK /\ ElectionInv /\ LogInv /\ MatchInv
  BY TypeInit, ElectionInit, LogInit, MatchInit
<1>2. TypeOK /\ ElectionInv /\ LogInv /\ MatchInv /\ [Next]_vars
        => (TypeOK /\ ElectionInv /\ LogInv /\ MatchInv)'
  BY TypeStep, ElectionStep, LogStep, MatchStep
<1> QED
  BY <1>1, <1>2, PTL DEF Spec

\* A leader never credits a peer with entries it does not have: whatever
\* replies are lost, late, repeated or reordered, the commit rule of lib.rs
\* counts real copies.
THEOREM MatchesAreSound ==
    ASSUME AtMostThree
    PROVE  Spec => []MatchIndexSound
<1>1. TypeOK /\ ElectionInv /\ LogInv /\ MatchInv => MatchIndexSound
  <2> SUFFICES ASSUME TypeOK, ElectionInv, LogInv, MatchInv,
                      NEW l \in Node, NEW p \in Node,
                      role[l] = "Leader", current_term[p] = current_term[l]
               PROVE  /\ match_index[l][p] <= Len(log[p])
                      /\ match_index[l][p] <= Len(log[l])
                      /\ SubSeq(log[p], 1, match_index[l][p])
                           = SubSeq(log[l], 1, match_index[l][p])
    BY DEF MatchIndexSound
  <2> DEFINE k == match_index[l][p]
  <2>1. /\ log[l] \in Seq(Entry) /\ log[p] \in Seq(Entry) /\ k \in Nat
        /\ Len(log[l]) \in Nat /\ Len(log[p]) \in Nat
    <3>1. log[l] \in Seq(Entry) /\ log[p] \in Seq(Entry)
      BY DEF TypeOK
    <3>2. k \in Nat
      BY DEF TypeOK
    <3> QED
      BY <3>1, <3>2
  <2>2. Reported(l, p, k)
    BY DEF MatchInv
  <2> HIDE DEF k
  <2>3. Agree(k, log[p], log[l])
    <3>1. CASE k = 0
      BY <2>1, <3>1 DEF Agree
    <3>2. CASE k # 0
      <4>1. PICK r \in Acks : /\ r.from = p /\ r.to = l
                              /\ r.term = current_term[l] /\ r.match_index = k
        BY <2>2, <3>2 DEF Reported
      <4> QED
        BY <4>1 DEF MatchInv
    <3> QED
      BY <3>1, <3>2
  <2>4. SubSeq(log[p], 1, k) = SubSeq(log[l], 1, k)
    BY <2>1, <2>3, SamePrefix DEF Agree
  <2> QED
    BY <2>3, <2>4 DEF Agree, k
<1> QED
  BY <1>1, MatchInvariant, PTL

(***************************************************************************)
(* Commitment.                                                             *)
(***************************************************************************)

\* p has acknowledged x, or more, to the leader of x's term.
AckedBy(p, x) ==
    \E r \in Acks : /\ r.from = p /\ r.term = x.entry.term
                    /\ r.match_index >= x.index

\* x can still come to be held by its leader l and another node p: p has it,
\* or has not gone past its term.
MayBeChosen(x, l, p) ==
    /\ p # l /\ Led(l, x.entry.term)
    /\ current_term[p] <= x.entry.term \/ AckedBy(p, x)

\* y does not contradict x: of a later term it stands after x, and after x
\* it follows on x's term or a later one.
After(x, y) ==
    /\ y.entry.term > x.entry.term => y.index > x.index
    /\ y.entry.term >= x.entry.term /\ y.index > x.index
         => y.before >= x.entry.term

\* m does not contradict a log that holds x up to x.
Fits(m, x, lg) ==
    /\ SaysNothingNew(m, lg, x.index)
    /\ m.prev_log_index <= x.index
         => m.prev_log_term = TermAt(lg, m.prev_log_index)
    /\ m.prev_log_index >= x.index => m.prev_log_term >= x.entry.term

\* x is not lost: its leader and who acknowledged it have it, later leaders
\* and candidates with a vote too, and no message contradicts it.
Kept(x, l, p) ==
    /\ x \in LogLinks(log[l])
    /\ AckedBy(p, x) => x \in LogLinks(log[p])
    /\ \A y \in Links : After(x, y)
    /\ \A c \in Node :
         role[c] = "Leader" /\ current_term[c] > x.entry.term
           => x \in LogLinks(log[c])
    /\ \A v \in net :
         IsVote(v) /\ role[v.to] = "Candidate" /\ current_term[v.to] = v.term
           /\ v.term > x.entry.term => x \in LogLinks(log[v.to])
    /\ \A m \in Appends : m.term >= x.entry.term => Fits(m, x, log[l])

\* A request of a candidacy that still stands says how good the log is.
Requests ==
    \A q \in net :
        /\ q.type = "RequestVote" /\ role[q.from] = "Candidate"
        /\ current_term[q.from] = q.term
        => /\ q.last_log_index = LastIndex(log[q.from])
           /\ q.last_log_term = LastTerm(log[q.from])

\* The invariant: what may be chosen is kept.
SafeInv ==
    /\ Requests
    /\ \A x \in Links, l, p \in Node : MayBeChosen(x, l, p) => Kept(x, l, p)

(***************************************************************************)
(* Along a log.                                                            *)
(***************************************************************************)

\* Terms rise along a log: whatever stands from x on is of its term or later.
LEMMA Rising ==
    ASSUME NEW l \in Seq(Entry), \A y \in LogLinks(l) : y.before <= y.entry.term,
           NEW x \in LogLinks(l)
    PROVE  /\ \A q \in x.index..Len(l) : l[q].term >= x.entry.term
           /\ LastTerm(l) >= x.entry.term /\ x.index \in 1..Len(l)
           /\ x.entry.term \in Nat
<1>1. /\ x.index \in 1..Len(l) /\ x.entry = l[x.index] /\ Len(l) \in Nat
      /\ \A i \in 1..Len(l) : l[i].term \in Nat
  <2>1. \A i \in 1..Len(l) : l[i] \in Entry
    OBVIOUS
  <2>2. \A i \in 1..Len(l) : l[i].term \in Nat
    BY <2>1 DEF Entry
  <2>3. x.index \in 1..Len(l) /\ x.entry = l[x.index]
    BY LinkInLog
  <2> QED
    BY <2>2, <2>3
<1> DEFINE k == x.index
           D == {d \in 0..(Len(l) - k) : l[k + d].term >= x.entry.term}
<1>2. 0 \in D
  BY <1>1
<1>3. ASSUME NEW d \in 1..(Len(l) - k), d - 1 \in D PROVE d \in D
  <2> DEFINE q == k + d
  <2>1. q \in 1..Len(l) /\ q # 1 /\ q - 1 \in 1..Len(l) /\ q - 1 = k + (d - 1)
    BY <1>1
  <2>2. l[q - 1].term >= x.entry.term
    BY <1>3, <2>1
  <2> HIDE DEF q
  <2>3. LinkAt(0, 0, l, q).before <= LinkAt(0, 0, l, q).entry.term
    BY <2>1, LinkInLog
  <2>4. l[q - 1].term <= l[q].term
    BY <2>1, <2>3 DEF LinkAt
  <2>5. l[q - 1].term \in Nat /\ l[q].term \in Nat /\ x.entry.term \in Nat
    BY <1>1, <2>1
  <2>6. l[q].term >= x.entry.term
    BY <2>2, <2>4, <2>5
  <2> QED
    BY <2>6 DEF q
<1>4. \A d \in 0..(Len(l) - k) : d \in D
  <2>1. Len(l) - k \in Nat
    BY <1>1
  <2> HIDE DEF D
  <2> QED
    BY <1>2, <1>3, <2>1, Climb
<1>5. ASSUME NEW q \in k..Len(l) PROVE l[q].term >= x.entry.term
  <2>1. q - k \in 0..(Len(l) - k) /\ k + (q - k) = q
    BY <1>1
  <2> QED
    BY <1>4, <2>1
<1>6. LastTerm(l) >= x.entry.term
  <2>1. Len(l) \in k..Len(l) /\ l # <<>>
    BY <1>1
  <2> QED
    BY <1>5, <2>1 DEF LastTerm
<1> QED
  BY <1>1, <1>5, <1>6

\* A log with an entry of x's term or later at x's position or after it holds
\* x, when no link contradicts x: going down, the terms stay as high.
LEMMA ReachesDown ==
    ASSUME NEW S, Determined(S), NEW l \in Seq(Entry), LogLinks(l) \subseteq S,
           NEW x \in S, x.index \in Nat \ {0}, x.entry.term \in Nat,
           \A y \in S : After(x, y),
           NEW i \in 1..Len(l), x.index <= i, l[i].term >= x.entry.term
    PROVE  x \in LogLinks(l)
<1> DEFINE k == x.index
           D == {d \in 0..(i - k) : l[i - d].term >= x.entry.term}
<1>1. Len(l) \in Nat /\ \A q \in 1..Len(l) : l[q].term \in Nat
  <2>1. \A q \in 1..Len(l) : l[q] \in Entry
    OBVIOUS
  <2> QED
    BY <2>1 DEF Entry
<1>2. 0 \in D
  OBVIOUS
<1>3. ASSUME NEW d \in 1..(i - k), d - 1 \in D PROVE d \in D
  <2> DEFINE q == i - (d - 1)
  <2>1. q \in 1..Len(l) /\ q > k /\ q # 1 /\ q - 1 = i - d
    BY <1>1
  <2>2. l[q].term >= x.entry.term
    BY <1>3
  <2> HIDE DEF q
  <2>3. After(x, LinkAt(0, 0, l, q))
    BY <2>1, LinkInLog
  <2>4. /\ LinkAt(0, 0, l, q).index = q
        /\ LinkAt(0, 0, l, q).entry.term >= x.entry.term
    BY <2>1, <2>2, LinkInLog
  <2>5. l[q - 1].term >= x.entry.term
    BY <2>1, <2>3, <2>4 DEF After, LinkAt
  <2> QED
    BY <2>1, <2>5
<1>4. \A d \in 0..(i - k) : d \in D
  <2>1. i - k \in Nat
    OBVIOUS
  <2> HIDE DEF D
  <2> QED
    BY <1>2, <1>3, <2>1, Climb
<1>5. l[k].term >= x.entry.term /\ k \in 1..Len(l)
  <2>1. i - k \in 0..(i - k) /\ i - (i - k) = k /\ k \in 1..Len(l)
    BY <1>1
  <2>2. i - k \in D
    BY ONLY <1>4, <2>1
  <2> QED
    BY ONLY <2>1, <2>2
<1>6. PICK y \in LogLinks(l) : y.index = k /\ y.entry = l[k]
  BY <1>5, LinkInLog
<1>7. y.entry.term \in Nat /\ y.entry.term >= x.entry.term /\ After(x, y)
  BY <1>1, <1>5, <1>6
<1>8. y.entry.term = x.entry.term
  BY <1>6, <1>7 DEF After
<1>9. y = x
  BY <1>6, <1>8 DEF Determined
<1> QED
  BY <1>9

\* Two logs that hold x agree up to x.
LEMMA BothHold ==
    ASSUME NEW S, Determined(S), NEW a \in Seq(Entry), NEW b \in Seq(Entry),
           LogLinks(a) \subseteq S, LogLinks(b) \subseteq S,
           NEW x \in LogLinks(a), x \in LogLinks(b)
    PROVE  Agree(x.index, a, b) /\ x.index \in 1..Len(a) /\ x.index \in 1..Len(b)
<1>1. /\ x.index \in 1..Len(a) /\ x.index \in 1..Len(b)
      /\ a[x.index] = b[x.index]
  BY LinkInLog
<1>2. x.index <= Len(a) /\ x.index <= Len(b)
  BY <1>1
<1>3. \A q \in 1..x.index : a[q] = b[q]
  BY <1>1, <1>2, EqualBelow
<1> QED
  BY <1>1, <1>2, <1>3 DEF Agree

\* What does not contradict a log does not contradict one that agrees with it.
LEMMA FitsToo ==
    ASSUME NEW a \in Seq(Entry), NEW b \in Seq(Entry), NEW m \in AppendEntries,
           NEW x, x.index \in Nat, Agree(x.index, a, b), Fits(m, x, a)
    PROVE  Fits(m, x, b)
<1>1. SaysNothingNew(m, b, x.index)
  <2> SUFFICES ASSUME NEW y \in MessageLinks(m), y.index <= x.index
               PROVE  y \in LogLinks(b)
    BY DEF SaysNothingNew
  <2>1. y \in LogLinks(a)
    BY DEF Fits, SaysNothingNew
  <2> QED
    BY <2>1, AgreeLinks
<1>2. m.prev_log_index <= x.index =>
        TermAt(a, m.prev_log_index) = TermAt(b, m.prev_log_index)
  <2>1. /\ m.prev_log_index \in Nat /\ Len(a) \in Nat /\ Len(b) \in Nat
        /\ x.index <= Len(a) /\ x.index <= Len(b)
        /\ \A i \in 1..x.index : a[i] = b[i]
    BY DEF Agree, AppendEntries
  <2> QED
    BY <2>1 DEF TermAt
<1> QED
  BY <1>1, <1>2 DEF Fits

\* A stretch of a log that holds x does not contradict x.
LEMMA PartFits ==
    ASSUME NEW l \in Seq(Entry), \A y \in LogLinks(l) : y.before <= y.entry.term,
           NEW x \in LogLinks(l), NEW m \in AppendEntries, PartOf(m, l)
    PROVE  Fits(m, x, l)
<1>1. \A q \in x.index..Len(l) : l[q].term >= x.entry.term
  BY Rising
<1>2. /\ m.prev_log_index \in Nat /\ m.prev_log_index <= Len(l)
      /\ m.prev_log_term = TermAt(l, m.prev_log_index)
      /\ MessageLinks(m) \subseteq LogLinks(l)
      /\ x.index \in 1..Len(l) /\ Len(l) \in Nat
  BY LinkInLog DEF PartOf, AppendEntries
<1>3. m.prev_log_index >= x.index => m.prev_log_term >= x.entry.term
  <2> HAVE m.prev_log_index >= x.index
  <2>1. m.prev_log_index \in x.index..Len(l) /\ m.prev_log_index \in 1..Len(l)
    BY <1>2
  <2> QED
    BY <1>1, <1>2, <2>1 DEF TermAt
<1> QED
  BY <1>2, <1>3 DEF Fits, SaysNothingNew

\* A log of which m is a stretch that ends at x or later holds x, when m does
\* not contradict a log that does.
LEMMA StretchHolds ==
    ASSUME NEW S, Determined(S), NEW a \in Seq(Entry), LogLinks(a) \subseteq S,
           NEW b \in Seq(Entry), NEW x \in S, x \in LogLinks(b),
           x.index \in Nat \ {0}, x.entry.term \in Nat,
           \A y \in S : After(x, y),
           NEW m \in AppendEntries, PartOf(m, a), Fits(m, x, b),
           x.index <= m.prev_log_index + Len(m.entries)
    PROVE  x \in LogLinks(a)
<1>1. /\ m.prev_log_index \in Nat /\ m.entries \in Seq(Entry)
      /\ Len(m.entries) \in Nat /\ m.prev_log_term \in Nat /\ Len(a) \in Nat
  BY DEF AppendEntries
<1>2. CASE x.index > m.prev_log_index
  <2>1. x.index - m.prev_log_index \in 1..Len(m.entries)
    BY <1>1, <1>2
  <2>2. PICK y \in MessageLinks(m) :
          y.index = m.prev_log_index + (x.index - m.prev_log_index)
    BY <2>1, MessageLinkAt
  <2>3. y.index = x.index
    BY <1>1, <2>2
  <2>4. y \in LogLinks(b)
    BY <2>3 DEF Fits, SaysNothingNew
  <2>5. y = x
    BY <2>3, <2>4, LinkInLog
  <2> QED
    BY <2>5 DEF PartOf
<1>3. CASE x.index <= m.prev_log_index
  <2>1. m.prev_log_index \in 1..Len(a)
    BY <1>1, <1>3 DEF PartOf
  <2>2. m.prev_log_term >= x.entry.term
    BY <1>1, <1>3 DEF Fits
  <2>3. a[m.prev_log_index].term >= x.entry.term
    BY <2>1, <2>2 DEF PartOf, TermAt
  <2> QED
    BY <1>3, <2>1, <2>3, ReachesDown
<1> QED
  BY <1>1, <1>2, <1>3

\* A log as good as one that holds x, in the sense of LogOk, holds x.
LEMMA AsGood ==
    ASSUME NEW S, Determined(S), NEW a \in Seq(Entry), NEW b \in Seq(Entry),
           LogLinks(a) \subseteq S, LogLinks(b) \subseteq S,
           \A y \in S : y.before <= y.entry.term /\ y.entry.index = y.index,
           NEW x \in LogLinks(a), \A y \in S : After(x, y),
           \/ LastTerm(b) > LastTerm(a)
           \/ LastTerm(b) = LastTerm(a) /\ LastIndex(b) >= LastIndex(a)
    PROVE  x \in LogLinks(b)
<1>1. /\ LastTerm(a) \in Nat /\ LastTerm(b) \in Nat
      /\ LastIndex(a) \in Nat /\ LastIndex(b) \in Nat
      /\ Len(a) \in Nat /\ Len(b) \in Nat
  BY LogReadsType
<1>2. /\ LastTerm(a) >= x.entry.term /\ x.index \in 1..Len(a)
      /\ x.entry.term \in Nat
  BY Rising
<1>3. LastIndex(a) = Len(a) /\ a # <<>>
  <2>1. Len(a) \in 1..Len(a) /\ a # <<>>
    BY <1>1, <1>2
  <2>2. PICK y \in LogLinks(a) : y.index = Len(a) /\ y.entry = a[Len(a)]
    BY <2>1, LinkInLog
  <2> QED
    BY <2>1, <2>2 DEF LastIndex
<1>4. b # <<>>
  <2> SUFFICES ASSUME b = <<>> PROVE FALSE
    OBVIOUS
  <2>1. LastIndex(b) = 0 /\ LastTerm(b) = 0
    BY DEF LastIndex, LastTerm
  <2> QED
    BY <1>1, <1>2, <1>3, <2>1
<1>5. Len(b) \in 1..Len(b)
  BY <1>1, <1>4, EmptySeq
<1>6. PICK y \in LogLinks(b) : y.index = Len(b) /\ y.entry = b[Len(b)]
  BY <1>5, LinkInLog
<1>7. /\ LastTerm(b) = b[Len(b)].term /\ LastIndex(b) = Len(b)
      /\ After(x, y) /\ y.entry.term = LastTerm(b)
  BY <1>4, <1>6 DEF LastTerm, LastIndex
<1>8. x.index <= Len(b)
  <2>1. CASE LastTerm(b) > LastTerm(a)
    <3>1. y.entry.term > x.entry.term
      BY <1>1, <1>2, <1>7, <2>1
    <3> QED
      BY <1>1, <1>2, <1>6, <1>7, <3>1 DEF After
  <2>2. CASE LastIndex(b) >= LastIndex(a)
    BY <1>1, <1>2, <1>3, <1>7, <2>2
  <2> QED
    BY <2>1, <2>2
<1>9. b[Len(b)].term >= x.entry.term
  BY <1>1, <1>2, <1>7
<1>10. x \in S /\ x.index \in Nat \ {0}
  BY <1>2
<1> QED
  BY <1>2, <1>5, <1>8, <1>9, <1>10, ReachesDown

(***************************************************************************)
(* One step, for a link that was there before it.                          *)
(***************************************************************************)

\* What the invariant of the logs says of the links, before a step,
LEMMA LinksBefore ==
    ASSUME TypeOK, LogInv
    PROVE  /\ Determined(Links)
           /\ \A y \in Links : y.before <= y.entry.term /\ y.entry.index = y.index
           /\ \A n \in Node : /\ log[n] \in Seq(Entry) /\ Len(log[n]) \in Nat
                              /\ LogLinks(log[n]) \subseteq Links
                              /\ current_term[n] \in Nat
           /\ \A m \in Appends : MessageLinks(m) \subseteq Links
<1>1. \A n \in Node : /\ log[n] \in Seq(Entry) /\ Len(log[n]) \in Nat
                      /\ current_term[n] \in Nat
  BY DEF TypeOK
<1> QED
  BY <1>1, LinkSources DEF LogInv, Determined

\* and after it.
LEMMA LinksAfter ==
    ASSUME TypeOK', LogInv'
    PROVE  /\ Determined(Links')
           /\ \A y \in Links' : y.before <= y.entry.term /\ y.entry.index = y.index
           /\ \A n \in Node : /\ log'[n] \in Seq(Entry) /\ Len(log'[n]) \in Nat
                              /\ LogLinks(log'[n]) \subseteq Links'
                              /\ current_term'[n] \in Nat
           /\ \A m \in Appends' : MessageLinks(m) \subseteq Links'
<1>1. \A n \in Node : /\ log'[n] \in Seq(Entry) /\ Len(log'[n]) \in Nat
                      /\ current_term'[n] \in Nat
  BY DEF TypeOK
<1>2. /\ \A n \in Node : LogLinks(log'[n]) \subseteq Links'
      /\ \A m \in Appends' : MessageLinks(m) \subseteq Links'
  BY DEF Links
<1> QED
  BY <1>1, <1>2 DEF LogInv, Determined

\* The AppendEntries that are there after a step.
LEMMA AppendsAfter ==
    ASSUME TypeOK', StepRule
    PROVE  /\ Appends \subseteq Appends'
           /\ \A m \in Appends' : /\ m \in AppendEntries
                                  /\ m \in Appends \/ Sends(m)
<1>1. \A m \in net' : m \in Message
  BY DEF TypeOK
<1>2. \A m \in Appends' : m \in AppendEntries
  BY <1>1, MessageFields DEF Appends
<1> QED
  BY <1>2 DEF Appends, StepRule, SendRule

\* A link is made by a leader, in its term, at the end of its log.
LEMMA NewLink ==
    ASSUME TypeOK, TypeOK', LogInv, StepRule, NEW x \in Links', x \notin Links
    PROVE  \E n \in Node :
             /\ role[n] = "Leader" /\ role'[n] = "Leader"
             /\ current_term'[n] = current_term[n]
             /\ x.entry.term = current_term[n]
             /\ x.index = Len(log[n]) + 1 /\ Len(log'[n]) = x.index
             /\ x.before = LastTerm(log[n]) /\ x \in LogLinks(log'[n])
<1>1. PICK n \in Node : x \in LogLinks(log'[n])
  <2>1. CASE \E n \in Node : x \in LogLinks(log'[n])
    BY <2>1
  <2>2. ASSUME NEW m \in Appends', x \in MessageLinks(m)
        PROVE  \E n \in Node : x \in LogLinks(log'[n])
    <3>1. m \notin Appends
      BY <2>2, LinkSources
    <3> QED
      BY <2>2, <3>1, AppendsAfter DEF Sends, PartOf
  <2> QED
    BY <2>1, <2>2 DEF Links
<1>2. log'[n] # log[n] /\ LogAt(n) /\ RoleAt(n)
  BY <1>1, LinkSources DEF StepRule, NodeRule
<1>3. role'[n] # "Follower" \/ role[n] = "Leader"
  <2> SUFFICES ASSUME NEW m \in Appends, Obeys(n, m) PROVE FALSE
    BY <1>2 DEF LogAt
  <2> QED
    BY <1>1, LinkSources DEF Obeys
<1>4. CASE \E m \in Appends : Obeys(n, m)
  BY <1>1, <1>4, LinkSources DEF Obeys
<1>5. CASE role[n] = "Leader" /\ role'[n] = "Leader"
             /\ \E e \in Entry : /\ e.term = current_term[n]
                                 /\ log'[n] = Append(log[n], e)
  <2>1. PICK e \in Entry : e.term = current_term[n] /\ log'[n] = Append(log[n], e)
    BY <1>5
  <2>2. log[n] \in Seq(Entry)
    BY DEF TypeOK
  <2>3. Len(log'[n]) = Len(log[n]) + 1
    BY <2>1, <2>2, AppendProperties
  <2>4. x = [index |-> Len(log[n]) + 1, entry |-> e, before |-> LastTerm(log[n])]
    BY <1>1, <2>1, <2>2, AppendLinks, LinkSources
  <2>5. /\ x.index = Len(log[n]) + 1 /\ x.entry.term = current_term[n]
        /\ x.before = LastTerm(log[n])
    BY <2>1, <2>4
  <2>6. current_term'[n] = current_term[n]
    BY <1>2, <1>5 DEF RoleAt
  <2> QED
    BY <1>1, <1>5, <2>3, <2>5, <2>6
<1> QED
  BY <1>2, <1>4, <1>5 DEF LogAt

\* What may be chosen after a step might have been before it.
LEMMA BoundBefore ==
    ASSUME AtMostThree, TypeOK, TypeOK', ElectionInv, LogInv, StepRule,
           NEW x \in Links, NEW l \in Node, NEW p \in Node,
           MayBeChosen(x, l, p)'
    PROVE  MayBeChosen(x, l, p)
<1> DEFINE t == x.entry.term
<1>1. /\ p # l /\ Led(l, t)'
      /\ current_term'[p] <= t \/ AckedBy(p, x)'
  BY DEF MayBeChosen
<1>2. /\ t \in Nat /\ current_term[p] \in Nat /\ current_term'[p] \in Nat
      /\ current_term[p] <= current_term'[p]
  BY LinksType DEF TypeOK, StepRule, TermRule
<1>3. Led(l, t)
  <2>1. PICK m \in Appends' : m.from = l /\ m.term = t
    BY <1>1 DEF Led
  <2>2. CASE m \in Appends
    BY <2>1, <2>2 DEF Led
  <2>3. CASE Sends(m)
    <3>1. role'[l] = "Leader" /\ current_term'[l] = t
      BY <2>1, <2>3 DEF Sends
    <3>2. current_term[l] = t
      BY <3>1 DEF StepRule, NodeRule, RoleAt
    <3>3. PICK c \in Node : Led(c, t)
      BY DEF LogInv
    <3>4. c = l
      BY <3>1, <3>2, <3>3, LedBefore DEF StepRule
    <3> QED
      BY <3>3, <3>4
  <2> QED
    BY <2>2, <2>3, AppendsAfter
<1>4. current_term[p] <= t \/ AckedBy(p, x)
  <2>1. CASE current_term'[p] <= t
    BY <1>2, <2>1
  <2>2. ASSUME NEW r \in Acks', r.from = p, r.term = t, r.match_index >= x.index
        PROVE  current_term[p] <= t \/ AckedBy(p, x)
    <3>1. CASE r \in Acks
      BY <2>2, <3>1 DEF AckedBy
    <3>2. CASE r \notin Acks
      <4>1. PICK a \in Appends : Acknowledges(r, a)
        BY <3>2 DEF Acks, StepRule, SendRule
      <4> QED
        BY <2>2, <4>1 DEF Acknowledges
    <3> QED
      BY <3>1, <3>2
  <2> QED
    BY <1>1, <2>1, <2>2 DEF AckedBy
<1> QED
  BY <1>1, <1>3, <1>4 DEF MayBeChosen

\* Whoever holds what may be chosen goes on holding it.
LEMMA HolderKeeps ==
    ASSUME TypeOK, TypeOK', LogInv, StepRule, NEW x \in Links,
           NEW l \in Node, NEW p \in Node, Kept(x, l, p),
           NEW h \in Node, x \in LogLinks(log[h])
    PROVE  Agree(x.index, log[h], log'[h]) /\ x \in LogLinks(log'[h])
<1>1. /\ log[h] \in Seq(Entry) /\ log'[h] \in Seq(Entry)
      /\ x.index \in 1..Len(log[h]) /\ Len(log[h]) \in Nat
      /\ x.entry.term \in Nat /\ x.entry.term <= current_term[h]
      /\ current_term[h] \in Nat
  BY LogType, LinkInLog, LinksType DEF TypeOK, LogInv
<1>2. Agree(x.index, log[h], log'[h])
  <2>1. CASE log'[h] = log[h]
    BY <1>1, <2>1 DEF Agree
  <2>2. ASSUME NEW e \in Entry, log'[h] = Append(log[h], e)
        PROVE  Agree(x.index, log[h], log'[h])
    BY <1>1, <2>2, AppendAgrees DEF Agree
  <2>3. ASSUME NEW m \in Appends, Obeys(h, m)
        PROVE  Agree(x.index, log[h], log'[h])
    <3>1. m.term >= x.entry.term
      BY <1>1, <2>3, AppendsType DEF Obeys
    <3>2. SaysNothingNew(m, log[l], x.index) /\ x \in LogLinks(log[l])
      BY <3>1 DEF Kept, Fits
    <3>3. Agree(x.index, log[l], log[h]) /\ log[l] \in Seq(Entry)
      BY <3>2, LinksBefore, BothHold
    <3>4. SaysNothingNew(m, log[h], x.index)
      BY <1>1, <3>2, <3>3, AgreeLinks DEF SaysNothingNew
    <3>5. x.index \in 0..Len(log[h])
      BY <1>1
    <3> QED
      BY <2>3, <3>4, <3>5 DEF Obeys
  <2> QED
    BY <2>1, <2>2, <2>3 DEF StepRule, NodeRule, LogAt
<1> QED
  BY <1>1, <1>2, AgreeLinks

\* A link that is new does not contradict what may be chosen.
LEMMA NewIsAfter ==
    ASSUME TypeOK, TypeOK', LogInv, StepRule, NEW x \in Links,
           NEW l \in Node, NEW p \in Node, Kept(x, l, p), NEW y \in Links'
    PROVE  After(x, y)
<1>1. CASE y \in Links
  BY <1>1 DEF Kept
<1>2. CASE y \notin Links
  <2>1. PICK n \in Node :
          /\ role[n] = "Leader" /\ y.entry.term = current_term[n]
          /\ y.index = Len(log[n]) + 1 /\ y.before = LastTerm(log[n])
    BY <1>2, NewLink
  <2>2. x.entry.term \in Nat /\ current_term[n] \in Nat
    BY LinksType DEF TypeOK
  <2>3. CASE y.entry.term >= x.entry.term
    <3>1. x \in LogLinks(log[n])
      <4>1. CASE current_term[n] > x.entry.term
        BY <2>1, <4>1 DEF Kept
      <4>2. CASE current_term[n] = x.entry.term
        BY <2>1, <4>2 DEF LogInv
      <4> QED
        BY <2>1, <2>2, <2>3, <4>1, <4>2
    <3>2. LastTerm(log[n]) >= x.entry.term /\ x.index \in 1..Len(log[n])
      BY <3>1, LinksBefore, Rising
    <3>3. Len(log[n]) \in Nat
      BY LinksBefore
    <3> QED
      BY <2>1, <3>2, <3>3 DEF After
  <2>4. CASE ~(y.entry.term >= x.entry.term)
    <3>1. ~(y.entry.term > x.entry.term)
      BY <2>1, <2>2, <2>4
    <3> QED
      BY <2>4, <3>1 DEF After
  <2> QED
    BY <2>3, <2>4
<1> QED
  BY <1>1, <1>2

\* Who acknowledges x, or more, has it.
LEMMA AckerHolds ==
    ASSUME TypeOK, TypeOK', LogInv, LogInv', StepRule, NEW x \in Links,
           x \in Links', NEW l \in Node, NEW p \in Node, Kept(x, l, p),
           AckedBy(p, x)'
    PROVE  x \in LogLinks(log'[p])
<1>1. PICK r \in Acks' : /\ r.from = p /\ r.term = x.entry.term
                         /\ r.match_index >= x.index
  BY DEF AckedBy
<1>2. CASE r \in Acks
  <2>1. AckedBy(p, x)
    BY <1>1, <1>2 DEF AckedBy
  <2>2. x \in LogLinks(log[p])
    BY <2>1 DEF Kept
  <2> QED
    BY <2>2, HolderKeeps
<1>3. CASE r \notin Acks
  <2>1. PICK a \in Appends : Acknowledges(r, a)
    BY <1>3 DEF Acks, StepRule, SendRule
  <2>2. /\ a \in AppendEntries /\ a.prev_log_index \in Nat
        /\ a.entries \in Seq(Entry) /\ Len(a.entries) \in Nat
        /\ a.prev_log_term \in Nat /\ a.term \in Nat
    BY AppendsType
  <2>3. /\ a.term = x.entry.term /\ PartOf(a, log'[p])
        /\ x.index <= a.prev_log_index + Len(a.entries)
    BY <1>1, <2>1, <2>2 DEF Acknowledges
  <2>4. x.index \in Nat \ {0} /\ x.entry.term \in Nat
    BY LinksType
  <2>5. Fits(a, x, log[l]) /\ x \in LogLinks(log[l])
    BY <2>2, <2>3 DEF Kept
  <2>6. /\ log'[p] \in Seq(Entry) /\ LogLinks(log'[p]) \subseteq Links'
        /\ Determined(Links') /\ log[l] \in Seq(Entry)
    BY LinksBefore, LinksAfter
  <2>7. \A y \in Links' : After(x, y)
    BY NewIsAfter
  <2> QED
    BY <2>2, <2>3, <2>4, <2>5, <2>6, <2>7, StretchHolds
<1> QED
  BY <1>2, <1>3

\* Requests keep saying how good the log of a standing candidate is.
LEMMA RequestsStep ==
    ASSUME TypeOK, TypeOK', ElectionInv, StepRule, Requests
    PROVE  Requests'
<1> SUFFICES ASSUME NEW q \in net', q.type = "RequestVote",
                    role'[q.from] = "Candidate",
                    current_term'[q.from] = q.term
             PROVE  /\ q.last_log_index = LastIndex(log'[q.from])
                    /\ q.last_log_term = LastTerm(log'[q.from])
  BY DEF Requests
<1>1. CASE q \in net
  <2>1. q.from \in Node /\ q.term <= current_term[q.from]
        /\ current_term[q.from] \in Nat /\ q.term \in Nat
    BY <1>1, MessageFields DEF TypeOK, ElectionInv
  <2>2. ~(current_term'[q.from] > current_term[q.from])
    BY <2>1
  <2>3. /\ role[q.from] = "Candidate" /\ log'[q.from] = log[q.from]
        /\ current_term[q.from] = q.term
    BY <2>1, <2>2 DEF StepRule, NodeRule, RoleAt
  <2> QED
    BY <1>1, <2>3 DEF Requests
<1>2. CASE q \notin net
  BY <1>2 DEF StepRule, SendRule, Asks
<1> QED
  BY <1>1, <1>2

\* Of at most three nodes two pairs have one in common.
LEMMA PairsMeet ==
    ASSUME AtMostThree, NEW a \in Node, NEW b \in Node, a # b,
           NEW c \in Node, NEW d \in Node, c # d
    PROVE  a = c \/ a = d \/ b = c \/ b = d
<1>1. PICK i, j, k \in Node : Node = {i, j, k}
  BY DEF AtMostThree
<1>2. \A n \in Node : n = i \/ n = j \/ n = k
  BY <1>1
<1>3. /\ a = i \/ a = j \/ a = k
      /\ b = i \/ b = j \/ b = k
      /\ c = i \/ c = j \/ c = k
      /\ d = i \/ d = j \/ d = k
  BY <1>2
<1> QED
  BY <1>3

\* A candidate of a later term with a vote holds x: of the voter and the
\* candidate one is x's leader or its other holder, and if that is the voter
\* it votes only for a log as good as its own.
LEMMA VoteeHolds ==
    ASSUME AtMostThree, TypeOK, TypeOK', ElectionInv, ElectionInv', LogInv,
           Requests, StepRule, NEW x \in Links,
           NEW l \in Node, NEW p \in Node, Kept(x, l, p), MayBeChosen(x, l, p)',
           NEW v \in net', IsVote(v), role'[v.to] = "Candidate",
           current_term'[v.to] = v.term, v.term > x.entry.term
    PROVE  x \in LogLinks(log'[v.to])
<1> DEFINE c == v.to
           w == v.from
<1>1. /\ c \in Node /\ w \in Node /\ w # c /\ v.term \in Nat
      /\ v.type = "RequestVoteReply"
  BY MessageFields DEF TypeOK, ElectionInv, IsVote
<1>2. /\ log'[c] = log[c]
      /\ \/ role[c] = "Candidate" /\ current_term'[c] = current_term[c]
         \/ current_term'[c] > current_term[c]
  BY <1>1 DEF StepRule, NodeRule, RoleAt
<1>3. \A q \in net : q.from = c /\ q.term = v.term =>
        role[c] = "Candidate" /\ current_term[c] = v.term
  <2> SUFFICES ASSUME NEW q \in net, q.from = c, q.term = v.term
               PROVE  role[c] = "Candidate" /\ current_term[c] = v.term
    OBVIOUS
  <2>1. v.term <= current_term[c] /\ current_term[c] \in Nat
    BY <1>1 DEF TypeOK, ElectionInv
  <2>2. ~(current_term'[c] > current_term[c])
    BY <1>1, <2>1
  <2> QED
    BY <1>2, <2>2
<1>4. CASE v \in net
  <2>1. Requested(c, v.term)
    BY <1>4 DEF ElectionInv
  <2>2. role[c] = "Candidate" /\ current_term[c] = v.term
    BY <1>3, <2>1 DEF Requested
  <2>3. x \in LogLinks(log[c])
    BY <1>4, <2>2 DEF Kept
  <2> QED
    BY <1>2, <2>3
<1>5. CASE v \notin net
  <2>1. PICK q \in net : VotesFor(v, q)
    BY <1>5 DEF StepRule, SendRule
  <2>2. role[c] = "Candidate" /\ current_term[c] = v.term
    BY <1>3, <2>1 DEF VotesFor
  <2>3. /\ q.last_log_index = LastIndex(log[c])
        /\ q.last_log_term = LastTerm(log[c])
    BY <2>1, <2>2 DEF VotesFor, Requests
  <2>4. x \in LogLinks(log[l])
    BY DEF Kept
  <2>5. p \in {w, c} => x \in LogLinks(log[p])
    <3> HAVE p \in {w, c}
    <3>1. current_term'[p] = v.term
      BY <2>1 DEF VotesFor
    <3>2. x.entry.term \in Nat
      BY LinksType
    <3>3. AckedBy(p, x)'
      BY <1>1, <3>1, <3>2 DEF MayBeChosen
    <3>4. PICK r \in Acks' : /\ r.from = p /\ r.term = x.entry.term
                             /\ r.match_index >= x.index
      BY <3>3 DEF AckedBy
    <3>5. r \in Acks
      <4> SUFFICES ASSUME r \notin Acks PROVE FALSE
        OBVIOUS
      <4>1. PICK a \in Appends : Acknowledges(r, a)
        BY DEF Acks, StepRule, SendRule
      <4>2. current_term'[p] = x.entry.term
        BY <3>4, <4>1 DEF Acknowledges
      <4> QED
        BY <1>1, <3>1, <3>2, <4>2
    <3>6. AckedBy(p, x)
      BY <3>4, <3>5 DEF AckedBy
    <3> QED
      BY <3>6 DEF Kept
  <2>6. w = l \/ w = p \/ c = l \/ c = p
    <3>1. p # l
      BY DEF MayBeChosen
    <3> HIDE DEF w, c
    <3> QED
      BY <1>1, <3>1, PairsMeet
  <2>7. CASE x \in LogLinks(log[c])
    BY <1>2, <2>7
  <2>8. CASE x \in LogLinks(log[w])
    <3>1. \/ LastTerm(log[c]) > LastTerm(log[w])
          \/ /\ LastTerm(log[c]) = LastTerm(log[w])
             /\ LastIndex(log[c]) >= LastIndex(log[w])
      BY <2>1, <2>3 DEF VotesFor, LogOk
    <3>2. \A y \in Links : After(x, y)
      BY DEF Kept
    <3> DEFINE a == log[w]
               b == log[c]
    <3>3. /\ a \in Seq(Entry) /\ b \in Seq(Entry) /\ Determined(Links)
          /\ LogLinks(a) \subseteq Links /\ LogLinks(b) \subseteq Links
          /\ \A y \in Links : y.before <= y.entry.term
                                /\ y.entry.index = y.index
          /\ x \in LogLinks(a)
          /\ \/ LastTerm(b) > LastTerm(a)
             \/ LastTerm(b) = LastTerm(a) /\ LastIndex(b) >= LastIndex(a)
      BY <1>1, <2>8, <3>1, LinksBefore
    <3> HIDE DEF a, b
    <3>4. x \in LogLinks(b)
      BY <3>2, <3>3, AsGood
    <3> QED
      BY <1>2, <3>4 DEF b
  <2> QED
    BY <2>4, <2>5, <2>6, <2>7, <2>8
<1> QED
  BY <1>4, <1>5

\* A message of x's term or later does not contradict x.
LEMMA MessagesFit ==
    ASSUME TypeOK, TypeOK', LogInv, LogInv', StepRule,
           NEW x \in Links, x \in Links', NEW l \in Node, NEW p \in Node,
           Kept(x, l, p),
           \A c \in Node : role'[c] = "Leader" /\ current_term'[c] > x.entry.term
                             => x \in LogLinks(log'[c]),
           NEW m \in Appends', m.term >= x.entry.term
    PROVE  Fits(m, x, log'[l])
<1>1. m \in AppendEntries /\ m.term \in Nat
  BY AppendsAfter DEF AppendEntries
<1>2. /\ log[l] \in Seq(Entry) /\ log'[l] \in Seq(Entry)
      /\ x.index \in Nat /\ x.entry.term \in Nat
  BY LinksBefore, LinksAfter, LinksType
<1>3. CASE m \in Appends
  <2>1. Fits(m, x, log[l]) /\ x \in LogLinks(log[l])
    BY <1>3 DEF Kept
  <2>2. Agree(x.index, log[l], log'[l])
    BY <2>1, HolderKeeps
  <2> QED
    BY <1>1, <1>2, <2>1, <2>2, FitsToo
<1>4. CASE Sends(m)
  <2> DEFINE n == m.from
  <2>1. /\ n \in Node /\ role'[n] = "Leader" /\ m.term = current_term'[n]
        /\ PartOf(m, log'[n])
    BY <1>4 DEF Sends
  <2>2. x \in LogLinks(log'[n])
    <3>1. CASE current_term'[n] > x.entry.term
      BY <2>1, <3>1
    <3>2. CASE current_term'[n] = x.entry.term
      BY <2>1, <3>2 DEF LogInv
    <3> QED
      BY <1>1, <1>2, <2>1, <3>1, <3>2
  <2>3. x \in LogLinks(log'[l])
    BY HolderKeeps DEF Kept
  <2>4. /\ log'[n] \in Seq(Entry) /\ LogLinks(log'[n]) \subseteq Links'
        /\ LogLinks(log'[l]) \subseteq Links' /\ Determined(Links')
        /\ \A y \in Links' : y.before <= y.entry.term
    BY <2>1, LinksAfter
  <2>5. Agree(x.index, log'[n], log'[l])
    BY <1>2, <2>2, <2>3, <2>4, BothHold
  <2>6. Fits(m, x, log'[n])
    BY <1>1, <2>1, <2>2, <2>4, PartFits
  <2> QED
    BY <1>1, <1>2, <2>4, <2>5, <2>6, FitsToo
<1> QED
  BY <1>3, <1>4, AppendsAfter

\* What may be chosen stays kept.
LEMMA OldLinkKept ==
    ASSUME AtMostThree, TypeOK, TypeOK', ElectionInv, ElectionInv', LogInv,
           LogInv', Requests, StepRule, NEW x \in Links, x \in Links',
           NEW l \in Node, NEW p \in Node, Kept(x, l, p), MayBeChosen(x, l, p)'
    PROVE  Kept(x, l, p)'
<1>1. x \in LogLinks(log'[l])
  BY HolderKeeps DEF Kept
<1>2. AckedBy(p, x)' => x \in LogLinks(log'[p])
  BY AckerHolds
<1>3. \A y \in Links' : After(x, y)
  BY NewIsAfter
<1>4. ASSUME NEW c \in Node, role'[c] = "Leader",
             current_term'[c] > x.entry.term
      PROVE  x \in LogLinks(log'[c])
  <2>1. /\ current_term'[c] = current_term[c]
        /\ \/ role[c] = "Leader"
           \/ role[c] = "Candidate" /\ Elected(c, current_term[c])
    BY <1>4 DEF StepRule, NodeRule, RoleAt
  <2>2. x \in LogLinks(log[c])
    BY <1>4, <2>1 DEF Kept, Elected
  <2> QED
    BY <2>2, HolderKeeps
<1>5. \A v \in net' :
        IsVote(v) /\ role'[v.to] = "Candidate" /\ current_term'[v.to] = v.term
          /\ v.term > x.entry.term => x \in LogLinks(log'[v.to])
  BY VoteeHolds
<1>6. \A m \in Appends' : m.term >= x.entry.term => Fits(m, x, log'[l])
  BY <1>4, MessagesFit
<1> QED
  BY <1>1, <1>2, <1>3, <1>4, <1>5, <1>6 DEF Kept

(***************************************************************************)
(* One step, for the link it makes.                                        *)
(***************************************************************************)

\* Nobody has acknowledged an entry that is being appended.
LEMMA NewUnacked ==
    ASSUME AtMostThree, TypeOK, TypeOK', ElectionInv, LogInv, MatchInv, StepRule,
           NEW n \in Node, role[n] = "Leader", role'[n] = "Leader",
           NEW p \in Node, NEW x, x.index = Len(log[n]) + 1,
           x.entry.term = current_term[n]
    PROVE  ~AckedBy(p, x)'
<1> SUFFICES ASSUME NEW r \in Acks', r.from = p, r.term = current_term[n],
                    r.match_index >= Len(log[n]) + 1
             PROVE  FALSE
  BY DEF AckedBy
<1>1. log[n] \in Seq(Entry) /\ Len(log[n]) \in Nat
  BY DEF TypeOK
<1>2. \A c : Led(c, current_term[n]) => c = n
  BY LedBefore DEF StepRule
<1>3. CASE r \in Acks
  <2>1. r.to = n
    BY <1>2, <1>3 DEF MatchInv
  <2>2. r.match_index <= Len(log[n]) /\ r.match_index \in Nat
    BY <1>3, <2>1, AcksType DEF MatchInv
  <2> QED
    BY <1>1, <2>2
<1>4. CASE r \notin Acks
  <2>1. PICK a \in Appends : Acknowledges(r, a)
    BY <1>4 DEF Acks, StepRule, SendRule
  <2>2. /\ a.term = current_term[n] /\ a \in AppendEntries
        /\ r.match_index = a.prev_log_index + Len(a.entries)
        /\ a.prev_log_index \in Nat /\ Len(a.entries) \in Nat
    BY <2>1, AppendsType DEF Acknowledges
  <2>3. PartOf(a, log[n])
    BY <2>2 DEF MatchInv
  <2>4. Agree(a.prev_log_index + Len(a.entries), log[n], log[n])
    BY <2>2, <2>3, LinksBefore, PartOfBoth
  <2> QED
    BY <1>1, <2>2, <2>4 DEF Agree
<1> QED
  BY <1>3, <1>4

\* While two nodes have not gone past term t, nobody is elected in a later
\* one: a vote needs a voter and a candidate in that term.
LEMMA NoLaterElection ==
    ASSUME AtMostThree, TypeOK', ElectionInv', NEW n \in Node, NEW p \in Node,
           p # n, NEW t \in Nat, current_term'[n] <= t, current_term'[p] <= t,
           NEW v \in net', IsVote(v)
    PROVE  v.term <= t
<1>1. /\ v.to \in Node /\ v.from \in Node /\ v.from # v.to /\ v.term \in Nat
      /\ v.term <= current_term'[v.from]
  BY MessageFields DEF TypeOK, ElectionInv
<1>2. v.term <= current_term'[v.to]
  <2>1. PICK q \in net' : q.from = v.to /\ q.term = v.term
    BY DEF ElectionInv, Requested
  <2> QED
    BY <2>1 DEF ElectionInv
<1>3. \A k \in Node : current_term'[k] \in Nat
  BY DEF TypeOK
<1>4. v.from = n \/ v.from = p \/ v.to = n \/ v.to = p
  BY <1>1, PairsMeet
<1> QED
  BY <1>1, <1>2, <1>3, <1>4

\* A link that may be chosen once it is made is kept so far.
LEMMA NewLinkKept ==
    ASSUME AtMostThree, TypeOK, TypeOK', ElectionInv, ElectionInv', LogInv,
           LogInv', MatchInv, MatchInv', StepRule,
           NEW x \in Links', x \notin Links, NEW l \in Node, NEW p \in Node,
           MayBeChosen(x, l, p)'
    PROVE  Kept(x, l, p)'
<1> DEFINE t == x.entry.term
<1>1. PICK n \in Node :
        /\ role[n] = "Leader" /\ role'[n] = "Leader"
        /\ current_term'[n] = current_term[n] /\ t = current_term[n]
        /\ x.index = Len(log[n]) + 1 /\ Len(log'[n]) = x.index
        /\ x \in LogLinks(log'[n])
  BY NewLink
<1>2. t \in Nat /\ current_term'[n] = t
  BY <1>1 DEF TypeOK
<1>3. l = n
  <2>1. PICK m \in Appends' : m.from = l /\ m.term = t
    BY DEF MayBeChosen, Led
  <2>2. CASE m \in Appends
    <3>1. Led(l, t)
      BY <2>1, <2>2 DEF Led
    <3> QED
      BY <1>1, <3>1, LedBefore DEF StepRule
  <2>3. CASE Sends(m)
    <3>1. role'[l] = "Leader" /\ current_term'[l] = t
      BY <2>1, <2>3 DEF Sends
    <3>2. current_term[l] = t
      BY <3>1 DEF StepRule, NodeRule, RoleAt
    <3>3. Led(n, current_term[l])
      BY <1>1, <3>2 DEF LogInv
    <3> QED
      BY <3>1, <3>3, LedBefore DEF StepRule
  <2> QED
    BY <2>2, <2>3, AppendsAfter
<1>4. ~AckedBy(p, x)'
  BY <1>1, NewUnacked
<1>5. p # n /\ current_term'[p] <= t
  BY <1>3, <1>4 DEF MayBeChosen
<1>6. \A v \in net' : IsVote(v) => v.term <= t /\ v.term \in Nat
  <2>1. \A v \in net' : v.term \in Nat
    BY MessageFields DEF TypeOK
  <2> QED
    BY <1>2, <1>5, <2>1, NoLaterElection
<1>7. \A c, w : Elected(c, w)' => w <= t /\ w \in Nat
  BY <1>6 DEF Elected
<1>8. \A m \in Appends' : m.term <= t /\ m.term \in Nat
  BY <1>7 DEF ElectionInv, Appends
<1>9. /\ log'[n] \in Seq(Entry) /\ Len(log'[n]) \in Nat
      /\ \A y \in Links' : y.before <= y.entry.term
      /\ LogLinks(log'[n]) \subseteq Links'
  BY LinksAfter
<1>10. ASSUME NEW y \in Links' PROVE After(x, y)
  <2>1. y.entry.term <= t /\ y.entry.term \in Nat
    <3>1. PICK m \in Appends' : m.term = y.entry.term
      BY DEF LogInv, Led
    <3> QED
      BY <1>8, <3>1
  <2>2. CASE y.entry.term = t
    <3>1. y \in LogLinks(log'[n])
      BY <1>1, <1>2, <2>2 DEF LogInv
    <3>2. y.index \in 1..Len(log'[n])
      BY <1>9, <3>1, LinkInLog
    <3>3. ~(y.index > x.index) /\ ~(y.entry.term > t)
      BY <1>1, <1>2, <1>9, <2>2, <3>2
    <3> QED
      BY <3>3 DEF After
  <2>3. CASE y.entry.term # t
    <3>1. ~(y.entry.term >= t) /\ ~(y.entry.term > t)
      BY <1>2, <2>1, <2>3
    <3> QED
      BY <3>1 DEF After
  <2> QED
    BY <2>2, <2>3
<1>11. ASSUME NEW c \in Node, role'[c] = "Leader", current_term'[c] > t
       PROVE  FALSE
  <2>1. current_term'[c] <= t /\ current_term'[c] \in Nat
    BY <1>7, <1>11 DEF ElectionInv
  <2> QED
    BY <1>2, <1>11, <2>1
<1>12. ASSUME NEW v \in net', IsVote(v), v.term > t PROVE FALSE
  BY <1>2, <1>6, <1>12
<1>13. ASSUME NEW m \in Appends', m.term >= t PROVE Fits(m, x, log'[n])
  <2>1. m.term = current_term'[n]
    BY <1>2, <1>8, <1>13
  <2>2. PartOf(m, log'[n])
    BY <1>1, <2>1 DEF MatchInv
  <2>3. m \in AppendEntries
    BY AppendsAfter
  <2> QED
    BY <1>1, <1>9, <2>2, <2>3, PartFits
<1> QED
  BY <1>1, <1>3, <1>4, <1>10, <1>11, <1>12, <1>13 DEF Kept

(***************************************************************************)
(* The invariant.                                                          *)
(***************************************************************************)

\* A cluster started on empty stores has nothing to keep.
LEMMA SafeInit == Init => SafeInv
<1> SUFFICES ASSUME Init PROVE SafeInv
  OBVIOUS
<1>1. net = {} /\ Appends = {} /\ \A n \in Node : LogLinks(log[n]) = {}
  BY DEF Init, Appends, LogLinks, LinksOf
<1>2. Links = {}
  BY <1>1 DEF Links
<1> QED
  BY <1>1, <1>2 DEF SafeInv, Requests

\* Every step keeps what may be chosen.
LEMMA SafeStep ==
    ASSUME AtMostThree
    PROVE  TypeOK /\ TypeOK' /\ ElectionInv /\ ElectionInv' /\ LogInv /\ LogInv'
             /\ MatchInv /\ MatchInv' /\ SafeInv /\ [Next]_vars => SafeInv'
<1> SUFFICES ASSUME TypeOK, TypeOK', ElectionInv, ElectionInv', LogInv, LogInv',
                    MatchInv, MatchInv', SafeInv, [Next]_vars
             PROVE  SafeInv'
  OBVIOUS
<1>1. StepRule
  BY NextRule
<1>2. Requests'
  BY <1>1, RequestsStep DEF SafeInv
<1>3. ASSUME NEW x \in Links', NEW l \in Node, NEW p \in Node,
             MayBeChosen(x, l, p)'
      PROVE  Kept(x, l, p)'
  <2>1. CASE x \in Links
    <3>1. MayBeChosen(x, l, p)
      BY <1>1, <1>3, <2>1, BoundBefore
    <3>2. Kept(x, l, p) /\ Requests
      BY <2>1, <3>1 DEF SafeInv
    <3> QED
      BY <1>1, <1>3, <2>1, <3>2, OldLinkKept
  <2>2. CASE x \notin Links
    BY <1>1, <1>3, <2>2, NewLinkKept
  <2> QED
    BY <2>1, <2>2
<1> QED
  BY <1>2, <1>3 DEF SafeInv

\* What the whole of this development rests on: elections, logs, bookkeeping,
\* and that what two nodes may hold together is never lost again.
CoreInv == TypeOK /\ ElectionInv /\ LogInv /\ MatchInv /\ SafeInv

\* Every step preserves them together.
LEMMA CoreStep ==
    ASSUME AtMostThree
    PROVE  CoreInv /\ [Next]_vars => CoreInv'
<1> SUFFICES ASSUME CoreInv, [Next]_vars PROVE CoreInv'
  OBVIOUS
<1>1. TypeOK /\ ElectionInv /\ LogInv /\ MatchInv /\ SafeInv
  BY DEF CoreInv
<1>2. TypeOK'
  BY <1>1, TypeStep
<1>3. ElectionInv'
  BY <1>1, <1>2, ElectionStep
<1>4. LogInv'
  BY <1>1, <1>2, LogStep
<1>5. MatchInv'
  BY <1>1, <1>2, <1>4, MatchStep
<1>6. SafeInv'
  BY <1>1, <1>2, <1>3, <1>4, <1>5, SafeStep
<1> QED
  BY <1>2, <1>3, <1>4, <1>5, <1>6 DEF CoreInv

\* In every run an entry that its leader and another node hold, or may yet
\* hold without either having moved to a later term, is in the log of every
\* later leader, and no message overwrites it.
THEOREM NothingChosenIsLost ==
    ASSUME AtMostThree
    PROVE  Spec => []CoreInv
<1>1. Init => CoreInv
  BY TypeInit, ElectionInit, LogInit, MatchInit, SafeInit DEF CoreInv
<1>2. CoreInv /\ [Next]_vars => CoreInv'
  BY CoreStep
<1> QED
  BY <1>1, <1>2, PTL DEF Spec

(***************************************************************************)
(* Commitment, in the behaviours in which a leader commits what a majority *)
(* holds.                                                                  *)
(***************************************************************************)

\* x is held by its leader and another node.
Chosen(x, l, p) == MayBeChosen(x, l, p) /\ AckedBy(p, x)

\* k entries of l, led up to term t, are chosen as far as x.
CoveredBy(k, t, x, l, p) ==
    Chosen(x, l, p) /\ k <= x.index /\ x.entry.term <= t

\* The invariant: what a node has committed is a chosen prefix of its log,
\* chosen in no later term than its own; and an AppendEntries announces no
\* commit past its own end, nor one that is not chosen.
CommitInv ==
    /\ \A n \in Node : commit_index[n] > 0 =>
         \E x \in Links, l, p \in Node :
            /\ CoveredBy(commit_index[n], current_term[n], x, l, p)
            /\ Agree(commit_index[n], log[n], log[l])
    /\ \A m \in Appends :
         /\ m.leader_commit <= m.prev_log_index + Len(m.entries)
         /\ m.leader_commit > 0 => \E x \in Links, l, p \in Node :
              CoveredBy(m.leader_commit, m.term, x, l, p)

\* A leader commits an entry of its term that the others of a majority have
\* reported, another node among them.
LeaderCommits(n) ==
    /\ role[n] = "Leader" /\ current_term'[n] = current_term[n]
    /\ log' = log /\ commit_index'[n] \in 1..Len(log[n])
    /\ log[n][commit_index'[n]].term = current_term[n]
    /\ role'[n] = "Leader"
    /\ \E p \in Node \ {n} : match_index'[n][p] >= commit_index'[n]
    /\ \E Q \in SUBSET Node :
         Majority(Q) /\ \A p \in Q \ {n} : match_index'[n][p] >= commit_index'[n]

\* A follower commits what a message that is now part of its log announces.
FollowerCommits(n) ==
    /\ role'[n] = "Follower"
    /\ \E m \in Appends : /\ current_term'[n] = m.term /\ PartOf(m, log'[n])
                          /\ commit_index'[n] = m.leader_commit

\* A step moves one node's commit index at most, and forward.
CommitRule ==
    \E n \in Node :
        /\ \A k \in Node \ {n} : commit_index'[k] = commit_index[k]
        /\ \/ commit_index'[n] = commit_index[n]
           \/ /\ commit_index'[n] > commit_index[n]
              /\ LeaderCommits(n) \/ FollowerCommits(n)

\* The restriction to majorities only takes steps away.
LEMMA NextOfMajority == [NextOnMajority]_vars => [Next]_vars
BY DEF NextOnMajority, Next, StepOnMajority, Step

\* A step that leaves every commit index alone.
LEMMA NoCommits ==
    ASSUME NEW n \in Node, commit_index' = commit_index
    PROVE  CommitRule
BY DEF CommitRule

\* In a log of links the last index is the length.
LEMMA LastIsLength ==
    ASSUME NEW l \in Seq(Entry), \A y \in LogLinks(l) : y.entry.index = y.index
    PROVE  LastIndex(l) = Len(l)
<1>1. Len(l) \in Nat
  OBVIOUS
<1>2. CASE Len(l) = 0
  BY <1>2, EmptySeq DEF LastIndex
<1>3. CASE Len(l) # 0
  <2>1. Len(l) \in 1..Len(l) /\ l # <<>>
    BY <1>1, <1>3
  <2>2. PICK y \in LogLinks(l) : y.index = Len(l) /\ y.entry = l[Len(l)]
    BY <2>1, LinkInLog
  <2> QED
    BY <2>1, <2>2 DEF LastIndex
<1> QED
  BY <1>2, <1>3

\* step(), AppendEntries: a follower's commit index moves to what the leader
\* announced, never to the end of a log the leader has not seen.
LEMMA FollowerCommitRule ==
    ASSUME TypeOK, LogInv, CommitInv, NEW n \in Node, NEW m \in net,
           HandleAppendEntries(n, m)
    PROVE  CommitRule
<1> DEFINE l == Merge(log[n], m.prev_log_index, m.entries)
<1>1. /\ current_term' = [current_term EXCEPT ![n] = TermAfter(n, m)]
      /\ log' = [log EXCEPT ![n] = IF Accepts(n, m) THEN l ELSE log[n]]
      /\ commit_index' = [commit_index EXCEPT ![n] =
            IF Accepts(n, m)
            THEN FollowedCommit(n, m, IF Accepts(n, m) THEN l ELSE log[n])
            ELSE @]
      /\ m.type = "AppendEntries"
      /\ role' = [role EXCEPT ![n] = IF m.term = TermAfter(n, m)
                                     THEN "Follower" ELSE @]
  BY DEF HandleAppendEntries
<1>2. CASE ~Accepts(n, m)
  BY <1>1, <1>2 DEF CommitRule, TypeOK
<1>3. CASE Accepts(n, m)
  <2>1. /\ m \in Appends /\ m.prev_log_index <= Len(log[n])
        /\ m.prev_log_term = TermAt(log[n], m.prev_log_index)
        /\ m.term = TermAfter(n, m) /\ log[n] \in Seq(Entry)
        /\ m.entries \in Seq(Entry) /\ m.prev_log_index \in Nat
    BY <1>1, <1>3, AcceptedFits
  <2>2. /\ m \in AppendEntries /\ m.leader_commit \in Nat
        /\ Len(m.entries) \in Nat
    BY <2>1, AppendsType
  <2>3. /\ Determined(Links)
        /\ LogLinks(log[n]) \subseteq Links /\ MessageLinks(m) \subseteq Links
        /\ \A y \in Links : y.entry.index = y.index
    BY <2>1, LinksBefore
  <2>4. /\ PartOf(m, l)
        /\ LogLinks(l) \subseteq LogLinks(log[n]) \cup MessageLinks(m)
    BY <2>1, <2>2, <2>3, MergeFits
  <2>5. l \in Seq(Entry) /\ Len(l) \in Nat
    BY <2>1, MergeType
  <2> HIDE DEF l
  <2>6. LastIndex(l) = Len(l)
    BY <2>3, <2>4, <2>5, LastIsLength
  <2>7. Agree(m.prev_log_index + Len(m.entries), l, l)
    <3>1. LogLinks(l) \subseteq Links
      BY <2>3, <2>4
    <3> QED
      BY <2>2, <2>3, <2>4, <2>5, <3>1, PartOfBoth
  <2>8. m.leader_commit <= Len(l)
    <3>1. m.leader_commit <= m.prev_log_index + Len(m.entries)
      BY <2>1 DEF CommitInv
    <3> QED
      BY <2>1, <2>2, <2>5, <2>7, <3>1 DEF Agree
  <2>9. /\ log'[n] = l /\ current_term'[n] = m.term
        /\ commit_index'[n] = FollowedCommit(n, m, l)
        /\ \A k \in Node \ {n} : commit_index'[k] = commit_index[k]
        /\ commit_index[n] \in Nat /\ role'[n] = "Follower"
    BY <1>1, <1>3, <2>1 DEF TypeOK
  <2>10. CASE m.leader_commit <= commit_index[n]
    BY <2>9, <2>10 DEF CommitRule, FollowedCommit
  <2>11. CASE ~(m.leader_commit <= commit_index[n])
    <3>1. commit_index'[n] = m.leader_commit
      BY <2>2, <2>5, <2>6, <2>8, <2>9, <2>11 DEF FollowedCommit
    <3>2. commit_index'[n] > commit_index[n]
      BY <2>2, <2>9, <2>11, <3>1
    <3>3. FollowerCommits(n)
      BY <2>1, <2>4, <2>9, <3>1 DEF FollowerCommits
    <3> QED
      BY <2>9, <3>2, <3>3 DEF CommitRule
  <2> QED
    BY <2>10, <2>11
<1> QED
  BY <1>2, <1>3

\* In a cluster of two nodes or more, a majority has more than one node.
LEMMA MajorityHasAnother ==
    ASSUME NEW n \in Node, NEW c \in Node, c # n,
           NEW Q, Q \subseteq Node, Majority(Q)
    PROVE  \E p \in Q : p # n
<1> SUFFICES ASSUME Q \subseteq {n} PROVE FALSE
  OBVIOUS
<1>1. /\ IsFiniteSet({n}) /\ Cardinality({n}) = 1 /\ n \notin {c}
      /\ IsFiniteSet({c}) /\ Cardinality({c}) = 1
  BY FS_Singleton
<1>2. IsFiniteSet({n, c}) /\ Cardinality({n, c}) = 2
  <2>1. {n, c} = {c} \cup {n}
    OBVIOUS
  <2>2. Cardinality({c} \cup {n}) = Cardinality({c}) + 1
          /\ IsFiniteSet({c} \cup {n})
    BY <1>1, FS_AddElement
  <2> QED
    BY <1>1, <2>1, <2>2
<1>3. IsFiniteSet(Node)
  BY NodeAssumption
<1>4. Cardinality(Q) <= 1 /\ Cardinality(Q) \in Nat
  BY <1>1, FS_Subset, FS_CardinalityType
<1>5. Cardinality(Node) >= 2 /\ Cardinality(Node) \in Nat
  <2>1. {n, c} \subseteq Node
    OBVIOUS
  <2>2. Cardinality({n, c}) <= Cardinality(Node) /\ Cardinality(Node) \in Nat
    BY <1>3, <2>1, FS_Subset, FS_CardinalityType
  <2> QED
    BY <1>2, <2>2
<1> QED
  BY <1>4, <1>5 DEF Majority

\* step(), AppendEntriesReply: a leader's commit index moves to an entry of
\* its term that, if a majority holds it, another node has reported.
LEMMA LeaderCommitRule ==
    ASSUME TypeOK, ElectionInv, NEW n \in Node, NEW m \in net,
           HandleAppendEntriesReply(n, m), CommitsOnMajority(n)
    PROVE  CommitRule
<1>1. /\ m.from \in Node /\ m.to \in Node /\ m.from # m.to /\ m.to = n
      /\ log' = log
      /\ current_term' = [current_term EXCEPT ![n] = TermAfter(n, m)]
      /\ role' = [role EXCEPT ![n] = RoleAfter(n, m)]
  BY MessageFields DEF HandleAppendEntriesReply, ElectionInv, TypeOK
<1>2. CASE commit_index' = commit_index
  BY <1>2, NoCommits
<1>3. CASE commit_index' # commit_index
  <2> DEFINE mi == [match_index[n] EXCEPT ![m.from] = m.match_index]
  <2>1. /\ RoleAfter(n, m) = "Leader" /\ m.term = TermAfter(n, m)
        /\ match_index' = [match_index EXCEPT ![n] = mi]
        /\ commit_index' = [commit_index EXCEPT ![n] = NewCommit(n, mi)]
    BY <1>3 DEF HandleAppendEntriesReply
  <2>2. mi \in [Node -> Nat]
    <3>1. m.match_index \in Nat
      BY MessageFields DEF TypeOK, HandleAppendEntriesReply, AppendEntriesReply
    <3> QED
      BY <3>1 DEF TypeOK
  <2> HIDE DEF mi
  <2>3. /\ commit_index'[n] = NewCommit(n, mi) /\ match_index'[n] = mi
        /\ \A k \in Node \ {n} : commit_index'[k] = commit_index[k]
    BY <2>1, <2>2 DEF TypeOK
  <2>4. commit_index'[n] # commit_index[n]
    BY <1>3, <2>1, <2>3 DEF TypeOK
  <2> DEFINE k == commit_index'[n]
  <2>5. k \in Committable(n, mi)
    BY <2>3, <2>4 DEF NewCommit
  <2>6. /\ k \in 1..Len(log[n]) /\ k > commit_index[n]
        /\ log[n][k].term = current_term[n]
    BY <2>5 DEF Committable
  <2>7. /\ role[n] = "Leader" /\ role'[n] = "Leader"
        /\ current_term'[n] = current_term[n]
    <3>1. ~(m.term > current_term[n]) /\ role[n] = "Leader"
      BY <2>1 DEF RoleAfter
    <3> QED
      BY <1>1, <3>1 DEF TermAfter, RoleAfter, TypeOK
  <2>8. Majority({p \in Node : Matches(n, match_index'[n])[p] >= k})
    BY <2>6 DEF CommitsOnMajority
  <2> DEFINE Q == {p \in Node : Matches(n, match_index'[n])[p] >= k}
  <2>9. \A p \in Q \ {n} : match_index'[n][p] >= k
    BY <2>2, <2>3 DEF Matches
  <2>10. Q \in SUBSET Node /\ Majority(Q)
    BY <2>8
  <2> HIDE DEF Q
  <2>11. \E p \in Q : p # n
    BY <1>1, <2>10, MajorityHasAnother
  <2>12. \E p \in Node \ {n} : match_index'[n][p] >= k
    BY <2>9, <2>10, <2>11
  <2>13. LeaderCommits(n)
    BY <1>1, <2>6, <2>7, <2>9, <2>10, <2>12 DEF LeaderCommits
  <2> QED
    BY <2>3, <2>6, <2>13 DEF CommitRule
<1> QED
  BY <1>2, <1>3

\* So every step keeps to the rule.
LEMMA CommitRuleStep ==
    ASSUME AtMostThree, TypeOK, ElectionInv, LogInv, CommitInv,
           [NextOnMajority]_vars
    PROVE  CommitRule
<1>1. CASE UNCHANGED vars
  <2>1. \E n \in Node : TRUE
    BY DEF AtMostThree
  <2> QED
    BY <1>1, <2>1, NoCommits DEF vars, durable
<1>2. ASSUME NEW n \in Node, BecomeCandidate(n) PROVE CommitRule
  BY <1>2, NoCommits DEF BecomeCandidate
<1>3. ASSUME NEW n \in Node, Heartbeat(n) PROVE CommitRule
  BY <1>3, NoCommits DEF Heartbeat, durable
<1>4. ASSUME NEW n \in Node, NEW v \in Value, AppendLocalEntry(n, v)
      PROVE  CommitRule
  BY <1>4, NoCommits DEF AppendLocalEntry
<1>5. ASSUME NEW n \in Node, NEW m \in net, HandleRequestVote(n, m)
      PROVE  CommitRule
  BY <1>5, NoCommits DEF HandleRequestVote
<1>6. ASSUME NEW n \in Node, NEW m \in net, HandleRequestVoteReply(n, m)
      PROVE  CommitRule
  BY <1>6, NoCommits DEF HandleRequestVoteReply
<1>7. ASSUME NEW n \in Node, NEW m \in net, HandleAppendEntries(n, m)
      PROVE  CommitRule
  BY <1>7, FollowerCommitRule
<1>8. ASSUME NEW n \in Node, NEW m \in net, HandleAppendEntriesReply(n, m),
             CommitsOnMajority(n)
      PROVE  CommitRule
  BY <1>8, LeaderCommitRule
<1>9. ASSUME NEW n \in Node, Crash(n) PROVE CommitRule
  <2>1. commit_index' = commit_index
    BY <1>9 DEF Crash, Restart, TornCandidate, TornFollower, TornAppend, durable
  <2> QED
    BY <2>1, NoCommits
<1> QED
  BY <1>1, <1>2, <1>3, <1>4, <1>5, <1>6, <1>7, <1>8, <1>9
     DEF NextOnMajority, StepOnMajority

\* What is chosen is held by its leader, and stays chosen.
LEMMA ChosenStays ==
    ASSUME TypeOK, TypeOK', LogInv, SafeInv, StepRule, NEW x \in Links,
           NEW l \in Node, NEW p \in Node, Chosen(x, l, p)
    PROVE  /\ Kept(x, l, p) /\ x \in Links' /\ Chosen(x, l, p)'
           /\ Agree(x.index, log[l], log'[l])
<1>1. Kept(x, l, p)
  BY DEF SafeInv, Chosen
<1>2. Agree(x.index, log[l], log'[l]) /\ x \in LogLinks(log'[l])
  BY <1>1, HolderKeeps DEF Kept
<1>3. x \in Links'
  BY <1>2 DEF Links
<1>4. Led(l, x.entry.term)' /\ AckedBy(p, x)'
  BY DEF Chosen, MayBeChosen, Led, AckedBy, Acks, Appends, StepRule, SendRule
<1> QED
  BY <1>1, <1>2, <1>3, <1>4 DEF Chosen, MayBeChosen

\* What a node has committed stays where it is in its log.
LEMMA CommittedKept ==
    ASSUME TypeOK, TypeOK', LogInv, SafeInv, CommitInv, StepRule, NEW n \in Node
    PROVE  Agree(commit_index[n], log[n], log'[n])
<1>1. /\ log[n] \in Seq(Entry) /\ log'[n] \in Seq(Entry)
      /\ Len(log[n]) \in Nat /\ Len(log'[n]) \in Nat
      /\ commit_index[n] \in Nat /\ current_term[n] \in Nat
  BY LogType DEF TypeOK
<1>2. CASE commit_index[n] = 0
  BY <1>1, <1>2 DEF Agree
<1>3. CASE commit_index[n] > 0
  <2>1. PICK x \in Links, l \in Node, p \in Node :
          /\ CoveredBy(commit_index[n], current_term[n], x, l, p)
          /\ Agree(commit_index[n], log[n], log[l])
    BY <1>3 DEF CommitInv
  <2>2. Kept(x, l, p) /\ x.index \in Nat /\ x.entry.term \in Nat
    BY <2>1, ChosenStays, LinksType DEF CoveredBy
  <2>3. log[l] \in Seq(Entry) /\ Len(log[l]) \in Nat
    BY LinksBefore
  <2>4. commit_index[n] <= Len(log[n]) /\ commit_index[n] \in 0..Len(log[n])
    BY <1>1, <2>1 DEF Agree
  <2>5. CASE log'[n] = log[n]
    BY <2>4, <2>5 DEF Agree
  <2>6. ASSUME NEW e \in Entry, log'[n] = Append(log[n], e)
        PROVE  Agree(commit_index[n], log[n], log'[n])
    BY <1>1, <2>4, <2>6, AppendAgrees DEF Agree
  <2>7. ASSUME NEW m \in Appends, Obeys(n, m)
        PROVE  Agree(commit_index[n], log[n], log'[n])
    <3>1. m.term >= x.entry.term
      BY <1>1, <2>1, <2>2, <2>7, AppendsType DEF Obeys, CoveredBy
    <3>2. SaysNothingNew(m, log[l], x.index)
      BY <2>2, <3>1 DEF Kept, Fits
    <3>3. Agree(commit_index[n], log[l], log[n])
      BY <2>1 DEF Agree
    <3>4. SaysNothingNew(m, log[n], commit_index[n])
      <4> SUFFICES ASSUME NEW y \in MessageLinks(m), y.index <= commit_index[n]
                   PROVE  y \in LogLinks(log[n])
        BY DEF SaysNothingNew
      <4>1. y.index \in Nat
        BY LinkSources, LinksType
      <4>2. y.index <= x.index
        BY <1>1, <2>1, <2>2, <4>1 DEF CoveredBy
      <4>3. y \in LogLinks(log[l])
        BY <3>2, <4>2 DEF SaysNothingNew
      <4> QED
        BY <1>1, <2>3, <3>3, <4>3, AgreeLinks
    <3> QED
      BY <2>4, <2>7, <3>4 DEF Obeys
  <2> QED
    BY <2>5, <2>6, <2>7 DEF StepRule, NodeRule, LogAt
<1> QED
  BY <1>1, <1>2, <1>3

\* A leader's new commit index is covered by the entry it commits.
LEMMA LeaderCovers ==
    ASSUME TypeOK, LogInv, StepRule, NEW n \in Node, LeaderCommits(n)
    PROVE  \E x \in Links, p \in Node :
             /\ CoveredBy(commit_index'[n], current_term'[n], x, n, p)
             /\ x \in LogLinks(log[n]) /\ x.index = commit_index'[n]
<1> DEFINE k == commit_index'[n]
<1>1. /\ log[n] \in Seq(Entry) /\ k \in 1..Len(log[n])
      /\ log[n][k].term = current_term[n] /\ role[n] = "Leader"
      /\ current_term'[n] = current_term[n] /\ current_term[n] \in Nat
  BY DEF TypeOK, LeaderCommits
<1>2. PICK x \in LogLinks(log[n]) : x.index = k /\ x.entry = log[n][k]
  BY <1>1, LinkInLog
<1>3. PICK p \in Node \ {n} : match_index'[n][p] >= k
  BY DEF LeaderCommits
<1>4. Reported(n, p, match_index'[n][p])
  BY DEF LeaderCommits, StepRule, NodeRule, IndexAt
<1>5. match_index'[n][p] # 0
  BY <1>1, <1>3
<1>6. AckedBy(p, x)
  BY <1>1, <1>2, <1>3, <1>4, <1>5 DEF Reported, AckedBy
<1>7. Led(n, x.entry.term)
  BY <1>1, <1>2 DEF LogInv
<1>8. Chosen(x, n, p)
  BY <1>6, <1>7 DEF Chosen, MayBeChosen
<1>9. x \in Links
  BY <1>2, LinkSources
<1>10. CoveredBy(k, current_term'[n], x, n, p)
  BY <1>1, <1>2, <1>8 DEF CoveredBy
<1> QED
  BY <1>2, <1>9, <1>10

\* What a log has of a message that does not contradict a log holding x, it
\* has in common with that log, up to x.
LEMMA StretchAgrees ==
    ASSUME NEW S, Determined(S), NEW a \in Seq(Entry), LogLinks(a) \subseteq S,
           NEW b \in Seq(Entry), LogLinks(b) \subseteq S,
           NEW x \in S, x \in LogLinks(b),
           x.index \in Nat \ {0}, x.entry.term \in Nat,
           \A y \in S : After(x, y),
           NEW m \in AppendEntries, PartOf(m, a), Fits(m, x, b),
           NEW k \in Nat, k <= x.index, k <= m.prev_log_index + Len(m.entries)
    PROVE  Agree(k, a, b)
<1> DEFINE e == m.prev_log_index + Len(m.entries)
<1>1. /\ m.prev_log_index \in Nat /\ m.entries \in Seq(Entry)
      /\ Len(m.entries) \in Nat /\ Len(a) \in Nat /\ Len(b) \in Nat
      /\ x.index \in 1..Len(b)
  BY LinkInLog DEF AppendEntries
<1>2. CASE x.index <= e
  <2>1. x \in LogLinks(a)
    BY <1>2, StretchHolds
  <2>2. Agree(x.index, a, b)
    BY <2>1, BothHold
  <2> QED
    BY <1>1, <2>2 DEF Agree
<1>3. CASE e < x.index
  <2>1. m.prev_log_index <= x.index /\ m.prev_log_index <= Len(b)
    BY <1>1, <1>3
  <2>2. m.prev_log_term = TermAt(b, m.prev_log_index)
    BY <2>1 DEF Fits
  <2>3. ASSUME NEW y \in MessageLinks(m) PROVE y \in LogLinks(b)
    <3>1. PICK j \in 1..Len(m.entries) : y.index = m.prev_log_index + j
      BY MessageLinkAt
    <3>2. y.index <= x.index
      BY <1>1, <1>3, <3>1
    <3> QED
      BY <3>2 DEF Fits, SaysNothingNew
  <2>4. PartOf(m, b)
    BY <2>1, <2>2, <2>3 DEF PartOf
  <2>5. Agree(e, a, b)
    BY <2>4, PartOfBoth
  <2> QED
    BY <1>1, <2>5 DEF Agree
<1> QED
  BY <1>1, <1>2, <1>3

\* Logs that agree up to k go on agreeing when both keep what they agree on.
LEMMA AgreeBoth ==
    ASSUME NEW a, NEW b, NEW c, NEW d, NEW k \in Nat, NEW i \in Nat, k <= i,
           Len(b) \in Nat, Len(d) \in Nat,
           Agree(k, a, b), Agree(k, a, c), Agree(i, b, d)
    PROVE  Agree(k, c, d)
BY DEF Agree

\* What a node has committed after a step is a chosen prefix of its log.
LEMMA CommitStepNode ==
    ASSUME AtMostThree, CoreInv, CoreInv', CommitInv, StepRule, CommitRule,
           NEW n \in Node, commit_index'[n] > 0
    PROVE  \E x \in Links', l, p \in Node :
             /\ CoveredBy(commit_index[n], current_term[n], x, l, p)'
             /\ Agree(commit_index'[n], log'[n], log'[l])
<1>1. /\ TypeOK /\ TypeOK' /\ ElectionInv /\ LogInv /\ LogInv'
      /\ SafeInv /\ SafeInv'
  BY DEF CoreInv
<1>2. /\ commit_index[n] \in Nat /\ commit_index'[n] \in Nat
      /\ current_term[n] \in Nat /\ current_term'[n] \in Nat
      /\ current_term[n] <= current_term'[n]
  BY <1>1 DEF TypeOK, StepRule, TermRule
<1>3. \A k \in Node : /\ log[k] \in Seq(Entry) /\ log'[k] \in Seq(Entry)
                      /\ Len(log[k]) \in Nat /\ Len(log'[k]) \in Nat
  BY <1>1, LogType
<1>4. CASE commit_index'[n] = commit_index[n]
  <2>1. PICK x \in Links, l \in Node, p \in Node :
          /\ CoveredBy(commit_index[n], current_term[n], x, l, p)
          /\ Agree(commit_index[n], log[n], log[l])
    BY <1>4 DEF CommitInv
  <2>2. /\ x \in Links' /\ Chosen(x, l, p)' /\ Agree(x.index, log[l], log'[l])
        /\ x.index \in Nat /\ x.entry.term \in Nat
    BY <1>1, <2>1, ChosenStays, LinksType DEF CoveredBy
  <2>3. Agree(commit_index[n], log[n], log'[n])
    BY <1>1, CommittedKept
  <2>4. Agree(commit_index[n], log'[n], log'[l])
    <3>1. commit_index[n] <= x.index
      BY <2>1 DEF CoveredBy
    <3> QED
      BY <1>2, <1>3, <2>1, <2>2, <2>3, <3>1, AgreeBoth
  <2>5. CoveredBy(commit_index[n], current_term[n], x, l, p)'
    BY <1>2, <1>4, <2>1, <2>2 DEF CoveredBy
  <2> QED
    BY <1>4, <2>2, <2>4, <2>5
<1>5. CASE LeaderCommits(n)
  <2>1. PICK x \in Links, p \in Node :
          /\ CoveredBy(commit_index'[n], current_term'[n], x, n, p)
          /\ x \in LogLinks(log[n]) /\ x.index = commit_index'[n]
    BY <1>1, <1>5, LeaderCovers
  <2>2. x \in Links' /\ Chosen(x, n, p)'
    BY <1>1, <2>1, ChosenStays DEF CoveredBy
  <2>3. Agree(commit_index'[n], log'[n], log'[n])
    BY <1>3, <1>5 DEF LeaderCommits, Agree
  <2>4. CoveredBy(commit_index[n], current_term[n], x, n, p)'
    BY <2>1, <2>2 DEF CoveredBy
  <2> QED
    BY <2>2, <2>3, <2>4
<1>6. CASE FollowerCommits(n)
  <2>1. PICK m \in Appends :
          /\ current_term'[n] = m.term /\ PartOf(m, log'[n])
          /\ commit_index'[n] = m.leader_commit
    BY <1>6 DEF FollowerCommits
  <2>2. PICK x \in Links, l \in Node, p \in Node :
          CoveredBy(m.leader_commit, m.term, x, l, p)
    BY <2>1 DEF CommitInv
  <2>3. m.leader_commit <= m.prev_log_index + Len(m.entries)
    BY DEF CommitInv
  <2>4. /\ x \in Links' /\ Chosen(x, l, p)'
        /\ x.index \in Nat \ {0} /\ x.entry.term \in Nat
    BY <1>1, <2>2, ChosenStays, LinksType DEF CoveredBy
  <2>5. Kept(x, l, p)'
    BY <1>1, <2>4 DEF SafeInv, Chosen
  <2>6. m \in Appends' /\ m.term >= x.entry.term /\ m \in AppendEntries
    <3>1. m.term \in Nat /\ m \in AppendEntries
      BY <1>1, AppendsType
    <3>2. x.entry.term <= m.term
      BY <2>2 DEF CoveredBy
    <3> QED
      BY <1>1, <2>4, <3>1, <3>2, AppendsAfter
  <2>7. /\ Fits(m, x, log'[l]) /\ x \in LogLinks(log'[l])
        /\ \A y \in Links' : After(x, y)
    BY <2>5, <2>6 DEF Kept
  <2>8. Agree(commit_index'[n], log'[n], log'[l])
    <3> DEFINE a == log'[n]
               b == log'[l]
               k == commit_index'[n]
    <3>1. /\ Determined(Links') /\ a \in Seq(Entry) /\ b \in Seq(Entry)
          /\ LogLinks(a) \subseteq Links' /\ LogLinks(b) \subseteq Links'
      BY <1>1, LinksAfter
    <3>2. /\ k \in Nat /\ k <= x.index
          /\ k <= m.prev_log_index + Len(m.entries)
      BY <1>2, <2>1, <2>2, <2>3 DEF CoveredBy
    <3>3. PartOf(m, a) /\ Fits(m, x, b) /\ x \in LogLinks(b)
      BY <2>1, <2>7
    <3> HIDE DEF a, b, k
    <3>4. Agree(k, a, b)
      BY <2>4, <2>6, <2>7, <3>1, <3>2, <3>3, StretchAgrees
    <3> QED
      BY <3>4 DEF a, b, k
  <2>9. CoveredBy(commit_index[n], current_term[n], x, l, p)'
    BY <2>1, <2>2, <2>4 DEF CoveredBy
  <2> QED
    BY <2>4, <2>8, <2>9
<1> QED
  BY <1>4, <1>5, <1>6 DEF CommitRule

\* Every step that commits on majorities keeps what is committed chosen.
LEMMA CommitStep ==
    ASSUME AtMostThree
    PROVE  CoreInv /\ CoreInv' /\ CommitInv /\ [NextOnMajority]_vars => CommitInv'
<1> SUFFICES ASSUME CoreInv, CoreInv', CommitInv, [NextOnMajority]_vars
             PROVE  CommitInv'
  OBVIOUS
<1>1. /\ TypeOK /\ TypeOK' /\ ElectionInv /\ LogInv /\ LogInv' /\ MatchInv
      /\ SafeInv /\ [Next]_vars
  BY NextOfMajority DEF CoreInv
<1>2. StepRule /\ CommitRule
  BY <1>1, NextRule, CommitRuleStep
<1>3. ASSUME NEW n \in Node, commit_index'[n] > 0
      PROVE  \E x \in Links', l, p \in Node :
               /\ CoveredBy(commit_index[n], current_term[n], x, l, p)'
               /\ Agree(commit_index'[n], log'[n], log'[l])
  BY <1>2, <1>3, CommitStepNode
<1>4. ASSUME NEW m \in Appends'
      PROVE  /\ m.leader_commit <= m.prev_log_index + Len(m.entries)
             /\ m.leader_commit > 0 => \E x \in Links', l, p \in Node :
                  CoveredBy(m.leader_commit, m.term, x, l, p)'
  <2>1. CASE m \in Appends
    <3>1. m.leader_commit <= m.prev_log_index + Len(m.entries)
      BY <2>1 DEF CommitInv
    <3>2. ASSUME m.leader_commit > 0
          PROVE  \E x \in Links', l, p \in Node :
                   CoveredBy(m.leader_commit, m.term, x, l, p)'
      <4>1. PICK x \in Links, l \in Node, p \in Node :
              CoveredBy(m.leader_commit, m.term, x, l, p)
        BY <2>1, <3>2 DEF CommitInv
      <4>2. x \in Links' /\ Chosen(x, l, p)'
        BY <1>1, <1>2, <4>1, ChosenStays DEF CoveredBy
      <4>3. CoveredBy(m.leader_commit, m.term, x, l, p)'
        BY <4>1, <4>2 DEF CoveredBy
      <4> QED
        BY <4>2, <4>3
    <3> QED
      BY <3>1, <3>2
  <2>2. CASE Sends(m)
    <3> DEFINE n == m.from
    <3>1. /\ n \in Node /\ m.term = current_term'[n]
          /\ m.prev_log_index + Len(m.entries) = Len(log'[n])
          /\ m.leader_commit = commit_index'[n]
      BY <2>2 DEF Sends
    <3>2. commit_index'[n] \in Nat /\ Len(log'[n]) \in Nat
      BY <1>1, <3>1, LogType DEF TypeOK
    <3>3. CASE commit_index'[n] = 0
      BY <3>1, <3>2, <3>3
    <3>4. CASE commit_index'[n] > 0
      <4>1. PICK x \in Links', l \in Node, p \in Node :
              /\ CoveredBy(commit_index[n], current_term[n], x, l, p)'
              /\ Agree(commit_index'[n], log'[n], log'[l])
        BY <1>3, <3>1, <3>4
      <4>2. m.leader_commit <= m.prev_log_index + Len(m.entries)
        BY <3>1, <4>1 DEF Agree
      <4>3. CoveredBy(m.leader_commit, m.term, x, l, p)'
        BY <3>1, <4>1 DEF CoveredBy
      <4> QED
        BY <4>2, <4>3
    <3> QED
      BY <3>2, <3>3, <3>4
  <2> QED
    BY <1>1, <1>2, <2>1, <2>2, AppendsAfter
<1> QED
  BY <1>3, <1>4 DEF CommitInv

\* A cluster started on empty stores has committed nothing.
LEMMA CommitInit == Init => CommitInv
BY DEF Init, CommitInv, Appends

\* The inductive invariant of commitment, in every behaviour in which leaders
\* commit what a majority reported.
THEOREM CommitInvariant ==
    ASSUME AtMostThree
    PROVE  SpecQuorum => [](CoreInv /\ CommitInv)
<1>1. Init => CoreInv /\ CommitInv
  BY TypeInit, ElectionInit, LogInit, MatchInit, SafeInit, CommitInit DEF CoreInv
<1>2. CoreInv /\ CommitInv /\ [NextOnMajority]_vars => (CoreInv /\ CommitInv)'
  BY NextOfMajority, CoreStep, CommitStep
<1> QED
  BY <1>1, <1>2, PTL DEF SpecQuorum

\* The commit index of a node never points past the end of its log, which
\* DeterministicApplyLoop would index: a follower takes over no index the
\* message at hand has not brought it up to, and nothing is cut below.
THEOREM CommitsAreInLogs ==
    ASSUME AtMostThree
    PROVE  SpecQuorum => []CommitWithinLog
<1>1. CoreInv /\ CommitInv => CommitWithinLog
  <2> SUFFICES ASSUME CoreInv, CommitInv, NEW n \in Node
               PROVE  commit_index[n] <= Len(log[n])
    BY DEF CommitWithinLog
  <2>1. commit_index[n] \in Nat /\ Len(log[n]) \in Nat
    BY DEF CoreInv, TypeOK
  <2>2. commit_index[n] > 0 => commit_index[n] <= Len(log[n])
    BY DEF CommitInv, Agree
  <2> QED
    BY <2>1, <2>2
<1> QED
  BY <1>1, CommitInvariant, PTL

\* Of two chosen links the one that stands first is in the other's log.
LEMMA ChosenAgree ==
    ASSUME CoreInv, NEW x \in Links, NEW l \in Node, NEW p \in Node,
           Chosen(x, l, p), NEW y \in Links, NEW h \in Node, NEW q \in Node,
           Chosen(y, h, q), NEW i \in Nat, i <= x.index, i <= y.index
    PROVE  Agree(i, log[l], log[h])
<1>1. TypeOK /\ LogInv /\ Kept(x, l, p) /\ Kept(y, h, q)
  BY DEF CoreInv, SafeInv, Chosen
<1>2. /\ x \in LogLinks(log[l]) /\ y \in LogLinks(log[h])
      /\ \A z \in Links : After(x, z) /\ After(y, z)
  BY <1>1 DEF Kept
<1>3. /\ x.index \in Nat \ {0} /\ y.index \in Nat \ {0}
      /\ x.entry.term \in Nat /\ y.entry.term \in Nat
  BY <1>1, LinksType
<1>4. /\ log[l] \in Seq(Entry) /\ log[h] \in Seq(Entry) /\ Determined(Links)
      /\ Len(log[l]) \in Nat /\ Len(log[h]) \in Nat
      /\ LogLinks(log[l]) \subseteq Links /\ LogLinks(log[h]) \subseteq Links
  BY <1>1, LinksBefore
<1>5. /\ y.index \in 1..Len(log[h]) /\ y.entry = log[h][y.index]
      /\ x.index \in 1..Len(log[l]) /\ x.entry = log[l][x.index]
  BY <1>2, <1>4, LinkInLog
<1>6. CASE y.entry.term >= x.entry.term /\ y.index >= x.index
  <2>1. /\ log[h][y.index].term >= x.entry.term /\ x.index <= y.index
        /\ \A z \in Links : After(x, z)
    BY <1>2, <1>3, <1>5, <1>6
  <2>2. x \in LogLinks(log[h])
    BY <1>3, <1>4, <1>5, <2>1, ReachesDown
  <2>3. Agree(x.index, log[l], log[h])
    BY <1>2, <1>4, <2>2, BothHold
  <2> QED
    BY <1>3, <2>3 DEF Agree
<1>7. CASE x.entry.term >= y.entry.term /\ x.index >= y.index
  <2>1. /\ log[l][x.index].term >= y.entry.term /\ y.index <= x.index
        /\ \A z \in Links : After(y, z)
    BY <1>2, <1>3, <1>5, <1>7
  <2>2. y \in LogLinks(log[l])
    BY <1>3, <1>4, <1>5, <2>1, ReachesDown
  <2>3. Agree(y.index, log[l], log[h])
    BY <1>2, <1>4, <2>2, BothHold
  <2> QED
    BY <1>3, <2>3 DEF Agree
<1>8. After(x, y) /\ After(y, x)
  BY <1>2
<1> QED
  BY <1>3, <1>6, <1>7, <1>8 DEF After

\* What two nodes have committed agrees as far as both have.
LEMMA CommittedAgree ==
    ASSUME CoreInv, CommitInv, NEW a \in Node, NEW b \in Node,
           NEW i \in Nat, i <= commit_index[a], i <= commit_index[b]
    PROVE  Agree(i, log[a], log[b])
<1>1. /\ commit_index[a] \in Nat /\ commit_index[b] \in Nat
      /\ Len(log[a]) \in Nat /\ Len(log[b]) \in Nat
  <2>1. commit_index \in [Node -> Nat] /\ log \in [Node -> Seq(Entry)]
    BY DEF CoreInv, TypeOK
  <2>2. log[a] \in Seq(Entry) /\ log[b] \in Seq(Entry)
    BY <2>1
  <2> QED
    BY <2>1, <2>2
<1>2. CASE i = 0
  BY <1>1, <1>2 DEF Agree
<1>3. CASE i # 0
  <2>1. PICK x \in Links, l \in Node, p \in Node :
          /\ CoveredBy(commit_index[a], current_term[a], x, l, p)
          /\ Agree(commit_index[a], log[a], log[l])
    BY <1>1, <1>3 DEF CommitInv
  <2>2. PICK y \in Links, h \in Node, q \in Node :
          /\ CoveredBy(commit_index[b], current_term[b], y, h, q)
          /\ Agree(commit_index[b], log[b], log[h])
    BY <1>1, <1>3 DEF CommitInv
  <2>3. i <= x.index /\ i <= y.index
    <3>1. x.index \in Nat /\ y.index \in Nat
      BY LinksType DEF CoreInv
    <3> QED
      BY <1>1, <2>1, <2>2, <3>1 DEF CoveredBy
  <2>4. Agree(i, log[l], log[h])
    BY <2>1, <2>2, <2>3, ChosenAgree DEF CoveredBy
  <2>5. Agree(i, log[a], log[l]) /\ Agree(i, log[b], log[h])
    BY <1>1, <2>1, <2>2 DEF Agree
  <2> QED
    BY <2>4, <2>5 DEF Agree
<1> QED
  BY <1>2, <1>3

\* Two nodes never commit different entries at one position.
THEOREM StateMachinesAreSafe ==
    ASSUME AtMostThree
    PROVE  SpecQuorum => []StateMachineSafety
<1>1. CoreInv /\ CommitInv => StateMachineSafety
  <2> SUFFICES ASSUME CoreInv, CommitInv, NEW a \in Node, NEW b \in Node,
                      NEW i \in 1..commit_index[a], i <= commit_index[b]
               PROVE  /\ i <= Len(log[a]) /\ i <= Len(log[b])
                      /\ log[a][i] = log[b][i]
    BY DEF StateMachineSafety
  <2>1. i \in Nat /\ i >= 1 /\ i <= commit_index[a]
    BY DEF CoreInv, TypeOK
  <2>2. Agree(i, log[a], log[b])
    BY <2>1, CommittedAgree
  <2> QED
    BY <2>1, <2>2 DEF Agree
<1> QED
  BY <1>1, CommitInvariant, PTL

\* A leader holds what was committed in its term or before: failover loses no
\* committed write.
THEOREM LeadersAreComplete ==
    ASSUME AtMostThree
    PROVE  SpecQuorum => []LeaderCompleteness
<1>1. CoreInv /\ CommitInv => LeaderCompleteness
  <2> SUFFICES ASSUME CoreInv, CommitInv, NEW l \in Node, NEW n \in Node,
                      role[l] = "Leader", current_term[n] <= current_term[l],
                      NEW i \in 1..commit_index[n], i <= Len(log[n])
               PROVE  i <= Len(log[l]) /\ log[l][i] = log[n][i]
    BY DEF LeaderCompleteness
  <2>1. /\ TypeOK /\ LogInv /\ SafeInv
        /\ commit_index[n] \in Nat /\ i \in Nat
        /\ commit_index[n] > 0 /\ i <= commit_index[n]
        /\ current_term[n] \in Nat /\ current_term[l] \in Nat
    <3>1. TypeOK /\ LogInv /\ SafeInv
      BY DEF CoreInv
    <3>2. /\ commit_index[n] \in Nat
          /\ current_term[n] \in Nat /\ current_term[l] \in Nat
      BY <3>1 DEF TypeOK
    <3> QED
      BY <3>1, <3>2
  <2>2. PICK x \in Links, h \in Node, p \in Node :
          /\ CoveredBy(commit_index[n], current_term[n], x, h, p)
          /\ Agree(commit_index[n], log[n], log[h])
    BY <2>1 DEF CommitInv
  <2>3. Kept(x, h, p) /\ x.entry.term \in Nat /\ x.index \in Nat
    BY <2>1, <2>2, LinksType DEF SafeInv, CoveredBy, Chosen
  <2>4. x.entry.term <= current_term[n] /\ commit_index[n] <= x.index
    BY <2>2 DEF CoveredBy
  <2>5. x \in LogLinks(log[l])
    <3>1. CASE current_term[l] > x.entry.term
      BY <2>3, <3>1 DEF Kept
    <3>2. CASE current_term[l] = x.entry.term
      BY <2>1, <3>2 DEF LogInv
    <3> QED
      BY <2>1, <2>3, <2>4, <3>1, <3>2
  <2>6. Agree(x.index, log[h], log[l])
    BY <2>1, <2>3, <2>5, LinksBefore, BothHold DEF Kept
  <2>7. i <= x.index /\ i \in 1..commit_index[n] /\ i \in 1..x.index
    BY <2>1, <2>3, <2>4
  <2>8. log[n][i] = log[h][i] /\ log[h][i] = log[l][i]
    BY <2>2, <2>6, <2>7 DEF Agree
  <2>9. x.index <= Len(log[l]) /\ Len(log[l]) \in Nat
    BY <2>1, <2>6, LinksBefore DEF Agree
  <2> QED
    BY <2>3, <2>7, <2>8, <2>9
<1> QED
  BY <1>1, CommitInvariant, PTL

\* What a step does to commit indices and committed prefixes.
LEMMA CommittedStep ==
    ASSUME AtMostThree, CoreInv, CoreInv', CommitInv, [NextOnMajority]_vars
    PROVE  /\ CommitRule
           /\ \A n \in Node :
                /\ commit_index'[n] >= commit_index[n]
                /\ SubSeq(log'[n], 1, commit_index[n])
                     = SubSeq(log[n], 1, commit_index[n])
<1>1. /\ TypeOK /\ TypeOK' /\ ElectionInv /\ LogInv /\ MatchInv
      /\ SafeInv /\ [Next]_vars
  BY NextOfMajority DEF CoreInv
<1>2. StepRule /\ CommitRule
  BY <1>1, NextRule, CommitRuleStep
<1>3. \A n \in Node : commit_index[n] \in Nat /\ commit_index'[n] \in Nat
  BY <1>1 DEF TypeOK
<1>4. \A n \in Node : commit_index'[n] >= commit_index[n]
  BY <1>2, <1>3 DEF CommitRule
<1>5. ASSUME NEW n \in Node
      PROVE  SubSeq(log'[n], 1, commit_index[n])
               = SubSeq(log[n], 1, commit_index[n])
  <2>1. Agree(commit_index[n], log[n], log'[n])
    BY <1>1, <1>2, CommittedKept
  <2>2. log[n] \in Seq(Entry) /\ log'[n] \in Seq(Entry)
    BY <1>1, LogType
  <2> QED
    BY <1>3, <2>1, <2>2, SamePrefix DEF Agree
<1> QED
  BY <1>2, <1>4, <1>5

\* A committed prefix is never rewritten and no commit index goes back,
\* through truncations, restarts and torn writes.
THEOREM CommitsAreStable ==
    ASSUME AtMostThree
    PROVE  SpecQuorum => CommittedPrefixStable
<1>1. CoreInv /\ CoreInv' /\ CommitInv /\ [NextOnMajority]_vars =>
        [\A n \in Node :
           /\ commit_index'[n] >= commit_index[n]
           /\ SubSeq(log'[n], 1, commit_index[n])
                = SubSeq(log[n], 1, commit_index[n])]_vars
  BY CommittedStep
<1> QED
  BY <1>1, CommitInvariant, PTL DEF SpecQuorum, CommittedPrefixStable

\* A peer holds what it has reported to the leader of the entry's term,
\* whatever term it has moved to since.
LEMMA ReporterHolds ==
    ASSUME TypeOK, LogInv, SafeInv, StepRule, NEW n \in Node, LeaderCommits(n),
           NEW p \in Node \ {n}, match_index'[n][p] >= commit_index'[n]
    PROVE  /\ commit_index'[n] <= Len(log[p])
           /\ log[p][commit_index'[n]] = log[n][commit_index'[n]]
<1> DEFINE k == commit_index'[n]
<1>1. /\ log[n] \in Seq(Entry) /\ log[p] \in Seq(Entry) /\ k \in 1..Len(log[n])
      /\ log[n][k].term = current_term[n] /\ role[n] = "Leader"
      /\ current_term'[n] = current_term[n] /\ current_term[n] \in Nat
  BY DEF TypeOK, LeaderCommits
<1>2. PICK x \in LogLinks(log[n]) : x.index = k /\ x.entry = log[n][k]
  BY <1>1, LinkInLog
<1>3. Reported(n, p, match_index'[n][p])
  BY DEF LeaderCommits, StepRule, NodeRule, IndexAt
<1>4. match_index'[n][p] # 0
  BY <1>1
<1>5. AckedBy(p, x)
  BY <1>1, <1>2, <1>3, <1>4 DEF Reported, AckedBy
<1>6. MayBeChosen(x, n, p)
  <2>1. Led(n, x.entry.term)
    BY <1>1, <1>2 DEF LogInv
  <2> QED
    BY <1>5, <2>1 DEF MayBeChosen
<1>7. x \in LogLinks(log[p])
  <2>1. x \in Links
    BY <1>2, LinkSources
  <2> QED
    BY <1>5, <1>6, <2>1 DEF SafeInv, Kept
<1>8. x.index \in 1..Len(log[p]) /\ x.entry = log[p][x.index]
  BY <1>1, <1>7, LinkInLog
<1> QED
  BY <1>1, <1>2, <1>8

\* The entry a leader commits is in the logs of a majority.
LEMMA QuorumHolds ==
    ASSUME TypeOK, LogInv, SafeInv, StepRule, NEW n \in Node, LeaderCommits(n)
    PROVE  Majority({p \in Node :
             /\ commit_index'[n] <= Len(log'[p])
             /\ log'[p][commit_index'[n]] = log'[n][commit_index'[n]]})
<1> DEFINE H == {p \in Node :
                   /\ commit_index'[n] <= Len(log'[p])
                   /\ log'[p][commit_index'[n]] = log'[n][commit_index'[n]]}
<1>1. PICK Q \in SUBSET Node :
        Majority(Q) /\ \A p \in Q \ {n} : match_index'[n][p] >= commit_index'[n]
  BY DEF LeaderCommits
<1>2. Q \subseteq H
  <2>1. ASSUME NEW p \in Q, p # n PROVE p \in H
    BY <1>1, <2>1, ReporterHolds DEF LeaderCommits
  <2>2. n \in H
    BY DEF LeaderCommits
  <2> QED
    BY <2>1, <2>2
<1>3. H \subseteq Node
  OBVIOUS
<1> HIDE DEF H
<1>4. Majority(H)
  <2>1. IsFiniteSet(Node) /\ IsFiniteSet(H)
    BY <1>3, NodeAssumption, FS_Subset
  <2>2. Cardinality(Q) <= Cardinality(H)
    BY <1>2, <2>1, FS_Subset
  <2>3. /\ Cardinality(Q) \in Nat /\ Cardinality(H) \in Nat
        /\ Cardinality(Node) \in Nat
    BY <1>2, <2>1, FS_Subset, FS_CardinalityType
  <2> QED
    BY <1>1, <2>2, <2>3 DEF Majority
<1> QED
  BY <1>4 DEF H

\* A leader that counts reports of a majority commits what a majority has on
\* disk, however late the reports and whatever terms the reporters are in.
THEOREM MajoritiesHoldCommits ==
    ASSUME AtMostThree
    PROVE  SpecQuorum => QuorumCommit
<1>1. CoreInv /\ CoreInv' /\ CommitInv /\ [NextOnMajority]_vars =>
        [\A n \in Node :
           role'[n] = "Leader" /\ commit_index'[n] > commit_index[n] =>
              Majority({p \in Node :
                /\ commit_index'[n] <= Len(log'[p])
                /\ log'[p][commit_index'[n]] = log'[n][commit_index'[n]]})]_vars
  <2> SUFFICES ASSUME CoreInv, CoreInv', CommitInv, [NextOnMajority]_vars,
                      NEW n \in Node, role'[n] = "Leader",
                      commit_index'[n] > commit_index[n]
               PROVE  Majority({p \in Node :
                /\ commit_index'[n] <= Len(log'[p])
                /\ log'[p][commit_index'[n]] = log'[n][commit_index'[n]]})
    OBVIOUS
  <2>1. /\ TypeOK /\ TypeOK' /\ ElectionInv /\ LogInv /\ MatchInv
        /\ SafeInv /\ [Next]_vars
    BY NextOfMajority DEF CoreInv
  <2>2. StepRule /\ CommitRule
    BY <2>1, NextRule, CommitRuleStep
  <2>3. LeaderCommits(n)
    <3>1. commit_index[n] \in Nat /\ commit_index'[n] \in Nat
      BY <2>1 DEF TypeOK
    <3> QED
      BY <2>2, <3>1 DEF CommitRule, FollowerCommits
  <2> QED
    BY <2>1, <2>2, <2>3, QuorumHolds
<1> QED
  BY <1>1, CommitInvariant, PTL DEF SpecQuorum, QuorumCommit

(***************************************************************************)
(* The nodes together are the replicated log of ReplicatedLog.             *)
(***************************************************************************)

\* What two nodes have committed agrees as far as both have, of all nodes.
CommitsAgree ==
    \A a, b \in Node : \A i \in Nat :
        i <= commit_index[a] /\ i <= commit_index[b] => Agree(i, log[a], log[b])

\* A prefix of a log, and a prefix of that.
LEMMA PrefixParts ==
    ASSUME NEW l \in Seq(Entry), NEW k \in Nat, k <= Len(l)
    PROVE  /\ SubSeq(l, 1, k) \in Seq(Entry) /\ Len(SubSeq(l, 1, k)) = k
           /\ \A i \in 0..k : SubSeq(SubSeq(l, 1, k), 1, i) = SubSeq(l, 1, i)
<1>1. \A q \in 1..k : l[q] \in Entry
  OBVIOUS
<1>2. 1 \in Int /\ k \in Int /\ (k < 1 => k = 0)
  OBVIOUS
<1>3. SubSeq(l, 1, k) \in Seq(Entry) /\ Len(SubSeq(l, 1, k)) = k
  BY <1>1, <1>2, SubSeqProperties
<1>4. ASSUME NEW q \in 1..k PROVE SubSeq(l, 1, k)[q] = l[q]
  <2>1. 1 + q - 1 = q
    OBVIOUS
  <2> QED
    BY <1>1, <1>2, <2>1, SubSeqProperties
<1> DEFINE s == SubSeq(l, 1, k)
<1> HIDE DEF s
<1>5. ASSUME NEW i \in 0..k PROVE SubSeq(s, 1, i) = SubSeq(l, 1, i)
  <2>1. s \in Seq(Entry) /\ Len(s) = k /\ \A q \in 1..i : s[q] = l[q]
    BY <1>3, <1>4 DEF s
  <2>2. i \in Nat /\ i <= Len(s) /\ i <= Len(l)
    BY <2>1
  <2> QED
    BY <2>1, <2>2, SamePrefix
<1> QED
  BY <1>3, <1>5 DEF s

\* One of the nodes has committed the most.
LEMMA SomeFurthest ==
    ASSUME AtMostThree, NEW c \in [Node -> Nat]
    PROVE  \E n \in Node : \A p \in Node : c[p] <= c[n]
<1>1. PICK i, j, k \in Node : Node = {i, j, k}
  BY DEF AtMostThree
<1>2. c[i] \in Nat /\ c[j] \in Nat /\ c[k] \in Nat
  OBVIOUS
<1>3. PICK n \in {i, j, k} : c[i] <= c[n] /\ c[j] <= c[n] /\ c[k] <= c[n]
  BY <1>2
<1>4. \A p \in Node : p = i \/ p = j \/ p = k
  BY <1>1
<1> QED
  BY <1>1, <1>3, <1>4

\* Empty logs: nothing is chosen, nothing known.
LEMMA RefinedInit ==
    ASSUME AtMostThree
    PROVE  Init => Abstract!Init
<1> SUFFICES ASSUME Init PROVE Abstract!Init
  OBVIOUS
<1>1. commit_index \in [Node -> Nat] /\ \A n \in Node : commit_index[n] = 0
  BY DEF Init
<1>2. \E n \in Node : \A p \in Node : commit_index[p] <= commit_index[n]
  BY <1>1, SomeFurthest
<1>3. Furthest \in Node
  BY <1>2 DEF Furthest
<1>4. \A n \in Node : SubSeq(log[n], 1, commit_index[n]) = <<>>
  BY <1>1 DEF Init
<1>5. Known = [n \in Node |-> <<>>]
  BY <1>4 DEF Known
<1> QED
  BY <1>3, <1>5 DEF Abstract!Init

\* A step of the core chooses, lets a node learn, or changes nothing there.
LEMMA RefinedStep ==
    ASSUME AtMostThree, CoreInv, CoreInv', CommitInv, CommitInv',
           CommitsAgree', [NextOnMajority]_vars
    PROVE  [Abstract!Next]_(Abstract!vars)
<1> DEFINE f == Furthest
           g == Furthest'
           c == commit_index
           d == commit_index'
<1>1. /\ c \in [Node -> Nat] /\ d \in [Node -> Nat]
      /\ \A k \in Node : log[k] \in Seq(Entry) /\ log'[k] \in Seq(Entry)
  BY DEF CoreInv, TypeOK
<1>2. /\ f \in Node /\ \A k \in Node : c[k] <= c[f]
      /\ g \in Node /\ \A k \in Node : d[k] <= d[g]
  <2>1. \E n \in Node : \A p \in Node : c[p] <= c[n]
    BY <1>1, SomeFurthest
  <2>2. \E n \in Node : \A p \in Node : d[p] <= d[n]
    BY <1>1, SomeFurthest
  <2> QED
    BY <2>1, <2>2 DEF Furthest
<1>3. \A k \in Node : c[k] \in Nat /\ d[k] \in Nat
  BY <1>1
<1>4. CommitRule
  BY CommittedStep
<1>5. \A k \in Node : /\ c[k] <= d[k]
                      /\ SubSeq(log'[k], 1, c[k]) = SubSeq(log[k], 1, c[k])
  BY <1>3, CommittedStep
<1>6. \A k \in Node : d[k] <= Len(log'[k])
  BY <1>3 DEF CommitsAgree, Agree
<1>7. \A a, b \in Node : \A i \in Nat : i <= d[a] /\ i <= d[b] =>
        SubSeq(log'[a], 1, i) = SubSeq(log'[b], 1, i)
  BY <1>1, SamePrefix DEF CommitsAgree, Agree
<1>8. /\ Known = [k \in Node |-> SubSeq(log[k], 1, c[k])]
      /\ Known' = [k \in Node |-> SubSeq(log'[k], 1, d[k])]
  BY DEF Known
<1>9. /\ \A k \in Node : Known[k] = SubSeq(log'[k], 1, c[k])
      /\ \A k \in Node : Known'[k] = SubSeq(log'[k], 1, d[k])
  BY <1>5, <1>8
<1>10. \A k \in Node : Len(Known[k]) = c[k] /\ Len(Known'[k]) = d[k]
  <2> SUFFICES ASSUME NEW k \in Node
               PROVE  Len(Known[k]) = c[k] /\ Len(Known'[k]) = d[k]
    OBVIOUS
  <2>1. c[k] <= Len(log'[k]) /\ Len(log'[k]) \in Nat
    BY <1>1, <1>3, <1>5, <1>6
  <2> QED
    BY <1>1, <1>3, <1>6, <1>9, <2>1, PrefixParts
<1>11. PICK n \in Node :
         /\ \A k \in Node \ {n} : d[k] = c[k]
         /\ d[n] = c[n] \/ d[n] > c[n]
  BY <1>4 DEF CommitRule
<1>12. ASSUME NEW i \in 0..d[n] PROVE SubSeq(Known'[n], 1, i) = SubSeq(log'[n], 1, i)
  BY <1>1, <1>3, <1>6, <1>9, PrefixParts
<1>13. Known' = [Known EXCEPT ![n] = Known'[n]]
  <2>1. \A k \in Node \ {n} : Known'[k] = Known[k]
    BY <1>9, <1>11
  <2> QED
    BY <1>8, <2>1
<1>14. CASE d[n] = c[n]
  <2>1. d = c
    BY <1>1, <1>11, <1>14
  <2>2. g = f
    BY <2>1 DEF Furthest
  <2>3. Known' = Known
    BY <1>5, <1>8, <2>1
  <2> QED
    BY <2>2, <2>3 DEF Abstract!vars
<1>15. CASE d[n] > c[f]
  <2>1. g = n
    <3> SUFFICES ASSUME g # n PROVE FALSE
      OBVIOUS
    <3>1. d[g] = c[g] /\ c[g] <= c[f] /\ d[n] <= d[g]
      BY <1>2, <1>11
    <3> HIDE DEF f, g, c, d
    <3> QED
      BY <1>2, <1>3, <1>15, <3>1
  <2>2. Len(Known'[n]) > Len(Known[f])
    BY <1>2, <1>10, <1>15
  <2>3. SubSeq(Known'[n], 1, Len(Known[f])) = Known[f]
    <3>1. c[f] \in 0..d[n] /\ c[f] <= d[f] /\ c[f] \in Nat /\ c[f] <= d[n]
      BY <1>2, <1>3, <1>5, <1>15
    <3>2. SubSeq(Known'[n], 1, c[f]) = SubSeq(log'[n], 1, c[f])
      BY <1>12, <3>1
    <3>3. SubSeq(log'[n], 1, c[f]) = SubSeq(log'[f], 1, c[f])
      BY <1>2, <1>7, <3>1
    <3> QED
      BY <1>2, <1>9, <1>10, <3>2, <3>3
  <2>4. Len(Known[f]) <= Len(Known'[n])
    BY <1>2, <1>3, <1>10, <1>15
  <2>5. Abstract!Choose(n)
    BY <1>13, <2>1, <2>2, <2>3, <2>4 DEF Abstract!Choose, Abstract!StartsWith
  <2> QED
    BY <2>5 DEF Abstract!Next
<1>16. CASE d[n] > c[n] /\ d[n] <= c[f]
  <2>1. d[f] = c[f] /\ d[g] = c[f]
    <3>1. f # n
      BY <1>2, <1>3, <1>16
    <3>2. d[f] = c[f] /\ d[f] <= d[g]
      BY <1>2, <1>11, <3>1
    <3>3. d[g] <= c[f]
      BY <1>2, <1>11, <1>16
    <3> HIDE DEF f, g, c, d
    <3> QED
      BY <1>2, <1>3, <3>2, <3>3
  <2>2. Known'[g] = Known[f]
    <3>1. SubSeq(log'[g], 1, c[f]) = SubSeq(log'[f], 1, c[f])
      BY <1>2, <1>3, <1>7, <2>1
    <3> QED
      BY <1>2, <1>9, <2>1, <3>1
  <2>3. d[n] \in Len(Known[n])..Len(Known[f])
    BY <1>2, <1>3, <1>5, <1>10, <1>16
  <2>4. Known'[n] = SubSeq(Known[f], 1, d[n])
    <3>1. c[f] <= Len(log'[f]) /\ d[n] \in 0..c[f]
      BY <1>2, <1>3, <1>6, <1>16, <2>1
    <3>2. SubSeq(SubSeq(log'[f], 1, c[f]), 1, d[n]) = SubSeq(log'[f], 1, d[n])
      BY <1>1, <1>2, <1>3, <3>1, PrefixParts
    <3>3. SubSeq(log'[n], 1, d[n]) = SubSeq(log'[f], 1, d[n])
      BY <1>2, <1>3, <1>7, <1>16, <2>1
    <3> QED
      BY <1>2, <1>9, <3>2, <3>3
  <2>5. Abstract!Learn(n)
    BY <1>13, <2>2, <2>3, <2>4 DEF Abstract!Learn
  <2> QED
    BY <2>5 DEF Abstract!Next
<1> QED
  <2>1. d[n] > c[f] \/ d[n] <= c[f]
    BY <1>2, <1>3
  <2> QED
    BY <1>11, <1>14, <1>15, <1>16, <2>1

\* Through elections, losses and crashes the nodes together are one log of
\* chosen entries that only grows, of which each node knows a growing prefix.
THEOREM CoreImplementsReplicatedLog ==
    ASSUME AtMostThree
    PROVE  SpecQuorum => ImplementsReplicatedLog
<1>1. Init => Abstract!Init
  BY RefinedInit
<1>2. CoreInv /\ CommitInv => CommitsAgree
  BY CommittedAgree DEF CommitsAgree
<1>3. CoreInv /\ CoreInv' /\ CommitInv /\ CommitInv' /\ CommitsAgree'
        /\ [NextOnMajority]_vars => [Abstract!Next]_(Abstract!vars)
  BY RefinedStep
<1> QED
  BY <1>1, <1>2, <1>3, CommitInvariant, PTL
     DEF SpecQuorum, ImplementsReplicatedLog, Abstract!Spec
=============================================================================
