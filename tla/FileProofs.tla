----------------------------- MODULE FileProofs -----------------------------
(***************************************************************************)
(* Proofs about the files that are read back whatever their writer was     *)
(* doing: the write-ahead log and the batch of frames of wal-replicator,   *)
(* the snapshots, and the PID file of the Python cluster manager.  They    *)
(* have nothing in common but the lemmas on folds and rows.                *)
(***************************************************************************)
EXTENDS WalFile, FrameBatch, SnapshotDir, ClusterManager, FoldLemmas

(***************************************************************************)
(* The write-ahead log, for every page size, any number of rounds and any  *)
(* length: what is reported of a file, and what is refused.                *)
(***************************************************************************)

Frames ==
    [salt : Nat, db_size : {0, 1},
     checksum1 : Nat \X Nat, checksum2 : Nat \X Content,
     page : {"missing", "old", "whole"}]

Checksum(f) == f.checksum1 \o f.checksum2
Checksums == {Checksum(f) : f \in Frames}

WalType ==
    /\ magic \in {"BE", "LE"}
    /\ rounds \in 0..MaxRounds /\ salt \in 0..rounds
    /\ frames \in Seq(Frames) /\ wrote \in Seq(Checksums)
    /\ next \in {"start", "frame", "page"}
    /\ mx \in Nat /\ committed \in 0..mx
    /\ Len(frames) <= MaxFrames

\* What this round has written is the beginning of the file, and the salts
\* say where it ends.
ThisRound ==
    /\ Len(wrote) <= Len(frames)
    /\ \A i \in 1..Len(wrote) :
         /\ frames[i].salt = salt
         /\ Checksum(frames[i]) = wrote[i]
    /\ \A i \in 1..Len(frames) :
         /\ frames[i].salt \in 0..rounds
         /\ i > Len(wrote) => frames[i].salt # salt
    /\ salt = 0 => frames = <<>>

\* The writer goes over the file from its beginning, and only a page at the
\* end can be missing.
Writing ==
    /\ mx <= Len(wrote)
    /\ next = "page" => mx < Len(wrote) /\ mx < MaxFrames
    /\ IF next = "start" THEN mx = 0 ELSE salt # 0
    /\ \A i \in 1..mx : frames[i].page = "whole"
    /\ \A i \in 1..Len(frames) : frames[i].page = "missing" => i = Len(frames)

WalInv == WalType /\ ThisRound /\ Writing

(***************************************************************************)
(* Arithmetic of the file size.                                            *)
(***************************************************************************)
\* Between two neighbouring multiples there is none.
LEMMA NextMultiple ==
  ASSUME NEW f \in Nat, f > 0, NEW a \in Int, NEW b \in Int, a < b
  PROVE  a * f + f <= b * f
<1>1. (b - a - 1) * f >= 0
  BY SMT
<1> QED
  BY <1>1, SMT

\* The quotient and the rest that the parser computes of a length.
LEMMA QuotientAndRest ==
  ASSUME NEW f \in Nat, f > 0, NEW q \in Nat, NEW r \in Nat, r < f
  PROVE  (q * f + r) \div f = q /\ (q * f + r) % f = r
<1> DEFINE x == q * f + r
           d == x \div f
           m == x % f
<1>1. x \in Int
  BY SMT
<1>2. d \in Int /\ m \in 0..(f - 1) /\ x = f * d + m
  BY <1>1, SMT
<1>3. ~(d < q)
  BY NextMultiple, <1>2, SMT
<1>4. ~(q < d)
  BY NextMultiple, <1>2, SMT
<1>5. d = q
  BY <1>2, <1>3, <1>4, SMT
<1> QED
  BY <1>2, <1>5, SMT

\* A file is aligned if and only if no page is missing at its end, and then
\* the parser counts its frames right.
LEMMA CountsRight ==
  ASSUME WalType, salt # 0
  PROVE  /\ Length >= HeaderSize
         /\ Aligned <=> ~TornEnd
         /\ ~TornEnd => frame_count = Len(frames)
<1> USE WalAssumption DEF HeaderSize, FrameHeaderSize, frame_size
<1> DEFINE f == 24 + PageSize
           n == Len(frames)
<1>1. f \in Nat /\ f > 24 /\ n \in Nat
  BY DEF WalType
<1>2. n * f \in Nat
  BY <1>1, SMT
<1>3. CASE ~TornEnd
  <2>1. Length - 32 = n * f + 0 /\ Length >= 32
    BY <1>1, <1>2, <1>3 DEF Length
  <2>2. (n * f + 0) \div f = n /\ (n * f + 0) % f = 0
    BY <1>1, QuotientAndRest
  <2> QED
    BY <2>1, <2>2, <1>3 DEF Aligned, frame_count
<1>4. CASE TornEnd
  <2>1. n > 0
    BY <1>1, <1>4 DEF TornEnd, WalType
  <2>2. n - 1 \in Nat /\ n * f = (n - 1) * f + f /\ (n - 1) * f \in Nat
    BY <1>1, <2>1, SMT
  <2>3. Length - 32 = (n - 1) * f + 24 /\ Length >= 32
    <3>1. Length = 32 + n * f - PageSize
      BY <1>4 DEF Length
    <3> QED
      BY <3>1, <2>2, <1>1
  <2>4. ((n - 1) * f + 24) % f = 24
    <3> HIDE DEF f, n
    <3>1. \A q, r \in Nat : r < f => (q * f + r) % f = r
      BY <1>1, QuotientAndRest
    <3> QED
      BY <1>1, <2>2, <3>1
  <2> QED
    BY <2>3, <2>4, <1>4 DEF Aligned
<1> QED
  BY <1>3, <1>4

(***************************************************************************)
(* The invariant.                                                          *)
(***************************************************************************)
\* What a file holds after a frame is written over or behind the others.
LEMMA PutElements ==
  ASSUME NEW S, NEW s \in Seq(S), NEW i \in 1..(Len(s) + 1), NEW e \in S
  PROVE  /\ Put(s, i, e) \in Seq(S)
         /\ Len(Put(s, i, e)) = IF i <= Len(s) THEN Len(s) ELSE i
         /\ \A j \in 1..Len(Put(s, i, e)) :
              Put(s, i, e)[j] = IF j = i THEN e ELSE s[j]
<1>1. CASE i <= Len(s)
  BY <1>1 DEF Put
<1>2. CASE i = Len(s) + 1
  BY <1>2 DEF Put
<1> QED
  BY <1>1, <1>2

\* A new log is an empty file.
LEMMA WalStart == WalInit => WalInv
<1> SUFFICES ASSUME WalInit PROVE WalInv
  OBVIOUS
<1>1. /\ magic \in {"BE", "LE"} /\ salt = 0 /\ rounds = 0 /\ mx = 0 /\ committed = 0
      /\ next = "start"
      /\ frames \in Seq(Frames) /\ frames = <<>> /\ Len(frames) = 0
      /\ wrote \in Seq(Checksums) /\ Len(wrote) = 0
  BY DEF WalInit
<1>2. WalType
  BY <1>1, WalAssumption DEF WalType
<1> QED
  BY <1>1, <1>2 DEF WalInv, ThisRound, Writing

\* A new header leaves the old frames, now under another salt.
LEMMA WriteHeaderInv == WalInv /\ WriteHeader => WalInv'
<1> SUFFICES ASSUME WalInv, WriteHeader PROVE WalInv'
  OBVIOUS
<1> USE WalAssumption DEF WalInv, WriteHeader
<1>1. WalType'
  BY DEF WalType
<1>2. ThisRound'
  BY DEF ThisRound, WalType
<1>3. Writing'
  BY DEF Writing, WalType
<1> QED
  BY <1>1, <1>2, <1>3

\* A frame header goes behind the frames of this round, torn or over an old one.
LEMMA WriteFrameHeaderInv ==
  ASSUME NEW page \in Content, NEW db_size \in {0, 1},
         WalInv, WriteFrameHeader(page, db_size)
  PROVE  WalInv'
<1> DEFINE i == mx + 1
           over == i <= Len(frames) /\ frames[i].page # "missing"
           e == [salt |-> salt, db_size |-> db_size,
                 checksum1 |-> <<salt, i>>, checksum2 |-> <<i, page>>,
                 page |-> IF over THEN "old" ELSE "missing"]
           c == <<salt, i>> \o <<i, page>>
<1>1. /\ next = "frame" /\ mx < MaxFrames /\ next' = "page"
      /\ frames' = Put(frames, i, e) /\ wrote' = Put(wrote, i, c)
      /\ UNCHANGED <<magic, salt, rounds, mx, committed>>
  BY DEF WriteFrameHeader
<1>2. i \in 1..(Len(wrote) + 1) /\ i \in 1..(Len(frames) + 1)
  BY DEF WalInv, WalType, ThisRound, Writing
<1>3. e \in Frames /\ e.salt = salt /\ Checksum(e) = c
  BY <1>2 DEF Frames, Checksum, WalInv, WalType
<1>4. c \in Checksums
  BY <1>3 DEF Checksums
<1> HIDE DEF e, c
<1>5. /\ frames' \in Seq(Frames)
      /\ Len(frames') = IF i <= Len(frames) THEN Len(frames) ELSE i
      /\ \A j \in 1..Len(frames') : frames'[j] = IF j = i THEN e ELSE frames[j]
  <2>1. frames \in Seq(Frames)
    BY DEF WalInv, WalType
  <2>2. /\ Put(frames, i, e) \in Seq(Frames)
        /\ Len(Put(frames, i, e)) = IF i <= Len(frames) THEN Len(frames) ELSE i
        /\ \A j \in 1..Len(Put(frames, i, e)) :
             Put(frames, i, e)[j] = IF j = i THEN e ELSE frames[j]
    BY <2>1, <1>2, <1>3, PutElements
  <2> QED
    BY <2>2, <1>1
<1>6. /\ wrote' \in Seq(Checksums)
      /\ Len(wrote') = IF i <= Len(wrote) THEN Len(wrote) ELSE i
      /\ \A j \in 1..Len(wrote') : wrote'[j] = IF j = i THEN c ELSE wrote[j]
  <2>1. wrote \in Seq(Checksums)
    BY DEF WalInv, WalType
  <2>2. /\ Put(wrote, i, c) \in Seq(Checksums)
        /\ Len(Put(wrote, i, c)) = IF i <= Len(wrote) THEN Len(wrote) ELSE i
        /\ \A j \in 1..Len(Put(wrote, i, c)) :
             Put(wrote, i, c)[j] = IF j = i THEN c ELSE wrote[j]
    BY <2>1, <1>2, <1>4, PutElements
  <2> QED
    BY <2>2, <1>1
<1>7. WalType'
  BY <1>1, <1>5, <1>6, WalAssumption DEF WalInv, WalType
<1> HIDE DEF i
<1>a. /\ Len(frames) \in Nat /\ Len(wrote) \in Nat /\ Len(wrote) <= Len(frames)
      /\ i \in 1..Len(wrote') /\ i <= Len(frames')
      /\ Len(wrote') \in {Len(wrote), i} /\ Len(frames') \in {Len(frames), i}
      /\ Len(wrote') <= Len(frames') /\ Len(wrote) <= Len(wrote')
  BY <1>2, <1>5, <1>6 DEF WalInv, WalType, ThisRound
<1>b. \A j \in 1..Len(wrote') :
        frames'[j].salt = salt /\ Checksum(frames'[j]) = wrote'[j]
  <2> SUFFICES ASSUME NEW j \in 1..Len(wrote')
               PROVE  frames'[j].salt = salt /\ Checksum(frames'[j]) = wrote'[j]
    OBVIOUS
  <2>1. j \in 1..Len(frames') /\ (j = i \/ j \in 1..Len(wrote))
    BY <1>a, <1>2
  <2> QED
    BY <2>1, <1>3, <1>5, <1>6 DEF WalInv, ThisRound
<1>c. \A j \in 1..Len(frames') :
        /\ frames'[j].salt \in 0..rounds
        /\ j > Len(wrote') => frames'[j].salt # salt
  <2> SUFFICES ASSUME NEW j \in 1..Len(frames'), j # i
               PROVE  /\ frames'[j].salt \in 0..rounds
                      /\ j > Len(wrote') => frames'[j].salt # salt
    BY <1>a, <1>b DEF WalInv, WalType
  <2>1. j \in 1..Len(frames) /\ frames'[j] = frames[j]
    BY <1>a, <1>2, <1>5
  <2> QED
    BY <2>1, <1>a DEF WalInv, ThisRound
<1>8. ThisRound'
  BY <1>1, <1>a, <1>b, <1>c DEF WalInv, ThisRound, Writing
<1>9. Writing'
  <2>1. \A j \in 1..Len(frames') : frames'[j].page = "missing" => j = Len(frames')
    <3> SUFFICES ASSUME NEW j \in 1..Len(frames'), frames'[j].page = "missing"
                 PROVE  j = Len(frames')
      OBVIOUS
    <3>1. CASE j = i
      <4>1. ~over
        BY <3>1, <1>5 DEF e
      <4> QED
        BY <4>1, <3>1, <1>2, <1>5 DEF WalInv, WalType, Writing
    <3>2. CASE j # i
      <4>a. j \in 1..Len(frames)
        BY <3>2, <1>a, <1>2
      <4>b. frames[j].page = "missing"
        BY <4>a, <3>2, <1>5
      <4>1. j \in 1..Len(frames) /\ frames[j].page = "missing"
        BY <4>a, <4>b
      <4>2. j = Len(frames) /\ ~(j \in 1..mx)
        BY <4>1 DEF WalInv, Writing
      <4> QED
        BY <4>1, <4>2, <1>a, <1>2, <1>5 DEF i, WalInv, WalType
    <3> QED
      BY <3>1, <3>2
  <2>2. \A j \in 1..mx : frames'[j].page = "whole"
    <3> SUFFICES ASSUME NEW j \in 1..mx PROVE frames'[j].page = "whole"
      OBVIOUS
    <3>1. j \in 1..Len(frames') /\ j # i
      BY <1>a DEF i, WalInv, WalType
    <3> QED
      BY <3>1, <1>5 DEF WalInv, Writing
  <2>3. mx < Len(wrote')
    BY <1>a DEF i, WalInv, WalType
  <2> QED
    BY <2>1, <2>2, <2>3, <1>1, <1>a DEF WalInv, WalType, Writing
<1> QED
  BY <1>7, <1>8, <1>9 DEF WalInv

\* A page completes the frame at the end.
LEMMA WritePageInv == WalInv /\ WritePage => WalInv'
<1> SUFFICES ASSUME WalInv, WritePage PROVE WalInv'
  OBVIOUS
<1>1. /\ mx + 1 \in 1..Len(frames) /\ mx + 1 <= Len(wrote)
      /\ frames \in Seq(Frames) /\ frames[mx + 1] \in Frames
  BY DEF WalInv, WalType, ThisRound, Writing, WritePage
<1> DEFINE g == [frames[mx + 1] EXCEPT !.page = "whole"]
<1>a. /\ frames' = [frames EXCEPT ![mx + 1] = g]
      /\ next' = "frame" /\ mx' = mx + 1
      /\ committed' \in {mx + 1, committed}
      /\ UNCHANGED <<magic, salt, rounds, wrote>>
  BY DEF WritePage
<1>b. /\ g \in Frames /\ g.salt = frames[mx + 1].salt /\ g.page = "whole"
      /\ Checksum(g) = Checksum(frames[mx + 1])
  BY <1>1 DEF Frames, Checksum
<1> HIDE DEF g
<1>2. /\ frames' \in Seq(Frames) /\ Len(frames') = Len(frames)
      /\ \A j \in 1..Len(frames) :
           /\ frames'[j].salt = frames[j].salt
           /\ Checksum(frames'[j]) = Checksum(frames[j])
           /\ frames'[j].page = IF j = mx + 1 THEN "whole" ELSE frames[j].page
  BY <1>1, <1>a, <1>b
<1>3. WalType'
  BY <1>1, <1>2, <1>a DEF WalInv, WalType
<1>4. ThisRound'
  BY <1>1, <1>2, <1>a DEF WalInv, WalType, ThisRound
<1>5. Writing'
  <2>1. mx' <= Len(wrote') /\ next' = "frame" /\ salt' # 0
    BY <1>1, <1>a DEF WalInv, WalType, Writing, WritePage
  <2>2. \A i \in 1..mx' : frames'[i].page = "whole"
    <3> SUFFICES ASSUME NEW k \in 1..mx' PROVE frames'[k].page = "whole"
      OBVIOUS
    <3>1. k \in 1..Len(frames) /\ (k = mx + 1 \/ k \in 1..mx)
      BY <1>1, <1>a DEF WalInv, WalType
    <3> QED
      BY <3>1, <1>2 DEF WalInv, Writing
  <2>3. \A i \in 1..Len(frames') : frames'[i].page = "missing" => i = Len(frames')
    BY <1>2 DEF WalInv, Writing
  <2> QED
    BY <2>1, <2>2, <2>3 DEF Writing
<1> QED
  BY <1>3, <1>4, <1>5 DEF WalInv

\* Rollbacks, crashes and checkpoints move marks only; the last close removes
\* the file.
LEMMA OtherStepsInv ==
  ASSUME WalInv, Rollback \/ WriterCrash \/ Checkpoint \/ Close \/ UNCHANGED walVars
  PROVE  WalInv'
<1>1. CASE Rollback
  <2>1. /\ UNCHANGED <<magic, rounds, salt, frames, wrote>>
        /\ mx' \in Nat /\ committed' \in 0..mx' /\ mx' <= mx /\ next' \in {"start", "frame"}
        /\ next' = "start" => mx' = 0
        /\ next' = "frame" => salt # 0
    BY <1>1 DEF Rollback, WalInv, WalType, Writing
  <2>2. WalType' /\ ThisRound'
    BY <2>1 DEF WalInv, WalType, ThisRound
  <2>3. Writing'
    BY <2>1 DEF WalInv, WalType, Writing
  <2> QED
    BY <2>2, <2>3 DEF WalInv
<1>2. CASE WriterCrash
  BY <1>2 DEF WriterCrash, WalInv, WalType, ThisRound, Writing
<1>3. CASE Checkpoint
  BY <1>3 DEF Checkpoint, WalInv, WalType, ThisRound, Writing
<1>4. CASE Close
  BY <1>4, WalAssumption DEF Close, WalInv, WalType, ThisRound, Writing
<1>5. CASE UNCHANGED walVars
  BY <1>5 DEF walVars, WalInv, WalType, ThisRound, Writing
<1> QED
  BY <1>1, <1>2, <1>3, <1>4, <1>5

\* The invariant holds of the file at any moment, whatever its writer does.
THEOREM WalInvariant == WalSpec => []WalInv
<1>1. WalInv /\ [WalNext]_walVars => WalInv'
  BY WriteHeaderInv, WriteFrameHeaderInv, WritePageInv, OtherStepsInv DEF WalNext
<1> QED
  BY <1>1, WalStart, PTL DEF WalSpec

(***************************************************************************)
(* What the parser makes of the file.                                      *)
(***************************************************************************)
\* A file that is accepted consists of this round's frames, all of them whole.
LEMMA AcceptedIsThisRound ==
  ASSUME WalInv, Accepts
  PROVE  salt # 0 /\ frame_count = Len(frames) /\ Len(frames) = Len(wrote)
<1>1. salt # 0
  BY DEF Accepts, Length, HeaderSize
<1>2. frame_count = Len(frames)
  BY <1>1, CountsRight DEF Accepts, WalInv
<1>3. \A i \in 1..Len(frames) : frames[i].salt = salt
  BY <1>2 DEF Accepts, SaltsMatch
<1>4. ~(Len(wrote) < Len(frames))
  BY <1>3 DEF WalInv, WalType, ThisRound
<1> QED
  BY <1>1, <1>2, <1>4 DEF WalInv, WalType, ThisRound

\* What is reported is what was written, for every page size and any history
\* of the file.
THEOREM WalReported == WalSpec => []ReportsWhatWasWritten
<1>1. WalInv => ReportsWhatWasWritten
  <2> SUFFICES ASSUME WalInv, Accepts
               PROVE  /\ Len(Reported) >= committed
                      /\ \A i \in DOMAIN Reported :
                           /\ Reported[i].index = i
                           /\ i <= Len(wrote)
                           /\ magic = "BE" => Reported[i].checksum = wrote[i]
    BY DEF ReportsWhatWasWritten
  <2>1. frame_count = Len(wrote) /\ Len(wrote) \in Nat
    BY AcceptedIsThisRound DEF WalInv, WalType
  <2>2. /\ DOMAIN Reported = 1..Len(wrote)
        /\ \A i \in 1..Len(wrote) : Reported[i] = Meta(i)
    BY <2>1 DEF Reported
  <2>3. Len(Reported) = Len(wrote)
    BY <2>1 DEF Reported
  <2>4. \A i \in 1..Len(wrote) :
          Meta(i).index = i /\ (magic = "BE" => Meta(i).checksum = wrote[i])
    BY DEF Meta, Read, Checksum, WalInv, ThisRound
  <2> QED
    BY <2>1, <2>2, <2>3, <2>4 DEF WalInv, WalType, Writing
<1> QED
  BY <1>1, WalInvariant, PTL

\* A file without stale or torn frames is never refused.
THEOREM WalRefused == WalSpec => []RefusesOnlyTornOrStale
<1>1. WalInv => RefusesOnlyTornOrStale
  <2> SUFFICES ASSUME WalInv, salt # 0, Len(frames) <= Len(wrote), ~TornEnd
               PROVE  Accepts
    BY DEF RefusesOnlyTornOrStale, WalInv, WalType
  <2>1. Length >= HeaderSize /\ Aligned /\ frame_count = Len(frames)
    BY CountsRight DEF WalInv
  <2>2. SaltsMatch
    BY <2>1 DEF SaltsMatch, WalInv, WalType, ThisRound
  <2> QED
    BY <2>1, <2>2 DEF Accepts
<1> QED
  BY <1>1, WalInvariant, PTL

\* Every variable keeps its shape, and indices count from 1.
THEOREM WalTypeCorrect == WalSpec => []WalTypeOK
<1>1. WalInv => WalTypeOK
  <2> SUFFICES ASSUME WalInv PROVE WalTypeOK
    OBVIOUS
  <2>1. /\ magic \in {"BE", "LE"}
        /\ rounds \in 0..MaxRounds /\ salt \in 0..rounds
        /\ next \in {"start", "frame", "page"}
        /\ mx \in 0..Len(frames) /\ committed \in 0..mx
        /\ \A i \in DOMAIN frames : frames[i].page = "missing" => i = Len(frames)
    BY DEF WalInv, WalType, ThisRound, Writing
  <2>2. ASSUME Accepts
        PROVE  \A i \in DOMAIN Reported : Reported[i].index \in 1..MaxFrames
    <3>1. frame_count = Len(frames) /\ Len(frames) \in Nat /\ Len(frames) <= MaxFrames
      BY <2>2, AcceptedIsThisRound DEF WalInv, WalType
    <3> QED
      BY <3>1, WalAssumption DEF Reported, Meta
  <2> QED
    BY <2>1, <2>2 DEF WalTypeOK
<1> QED
  BY <1>1, WalInvariant, PTL

(***************************************************************************)
(* A batch of frames.                                                      *)
(***************************************************************************)

FrameLines == [kind : {"frame"}, index : FrameIndex, size : Nat]

Lines == {Blank, Broken} \cup FrameLines

\* What the parser's loop makes of the next line.
WithLine(found, l) == IF l.kind = "frame" THEN Append(found, l) ELSE found

\* F[i] is what it has found in the first i lines.
IsReading(F, text) ==
    /\ F[0] = <<>>
    /\ \A i \in 1..Len(text) : F[i] = WithLine(F[i - 1], text[i])

\* The loop takes up one line after another.
LEMMA ReadingRun ==
  ASSUME NEW text \in Seq(Lines)
  PROVE  \E F \in [0..Len(text) -> Seq(FrameLines)] :
            IsReading(F, text) /\ FramesOf(text) = F[Len(text)]
<1> DEFINE n == Len(text)
           V == Seq(FrameLines)
           Eq(it) == it = [S \in SUBSET (1..n) |->
                             IF S = {} THEN <<>>
                             ELSE WithLine(it[S \ {Max(S)}], text[Max(S)])]
           chosenIt == CHOOSE it : Eq(it)
           G == [p \in V \X (1..n) |-> WithLine(p[1], text[p[2]])]
<1>1. n \in Nat /\ DOMAIN text = 1..n /\ <<>> \in V
  OBVIOUS
<1>2. FramesOf(text) = chosenIt[1..n]
  BY <1>1 DEF FramesOf, WithLine, FoldLeft, MapThenFoldSet
<1>3. G \in [V \X (1..n) -> V]
  <2>1. ASSUME NEW found \in V, NEW l \in Lines PROVE WithLine(found, l) \in V
    <3>1. l.kind = "frame" => l \in FrameLines
      BY DEF Lines, Blank, Broken
    <3> QED
      BY <3>1 DEF WithLine
  <2> HIDE DEF V
  <2> QED
    BY <1>1, <2>1
<1>4. ASSUME NEW it, NEW S \in SUBSET (1..n), S # {}, it[S \ {Max(S)}] \in V
      PROVE  G[<<it[S \ {Max(S)}], Max(S)>>] = WithLine(it[S \ {Max(S)}], text[Max(S)])
  <2>1. Max(S) \in 1..n
    <3> HIDE DEF n
    <3> QED
      BY <1>1, <1>4, MaxIn
  <2> HIDE DEF n, V
  <2> QED
    BY <1>4, <2>1
<1> HIDE DEF G, n, V
<1>5. Eq(chosenIt)
  <2>1. PICK it \in [SUBSET (1..n) -> V] : IsFold(it, <<>>, n, G)
    BY <1>1, <1>3, FoldExists
  <2>2. ASSUME NEW S \in SUBSET (1..n), S # {}
        PROVE  it[S] = WithLine(it[S \ {Max(S)}], text[Max(S)])
    <3>1. it[S \ {Max(S)}] \in V
      BY <2>1
    <3> QED
      BY <1>4, <2>1, <2>2, <3>1 DEF IsFold
  <2>3. Eq(it)
    BY <2>1, <2>2 DEF IsFold
  <2> HIDE DEF Eq
  <2> QED
    BY <2>3
<1> HIDE DEF chosenIt
<1>6. FoldsIn(chosenIt, V, <<>>, n, G)
  BY <1>4, <1>5 DEF FoldsIn
<1> HIDE DEF Eq
<1>7. PICK F \in [0..n -> V] : AreStates(F, chosenIt, <<>>, n, G)
  BY <1>1, <1>3, <1>6, FoldStates
<1>8. \A i \in 1..n : F[i] = WithLine(F[i - 1], text[i])
  <2>1. \A i \in 1..n : i - 1 \in 0..n
    BY <1>1
  <2> QED
    BY <1>7, <2>1 DEF G, AreStates
<1> QED
  BY <1>2, <1>7, <1>8 DEF AreStates, IsReading, n, V

\* Nothing is found in an empty text, and of a further line what it is.
LEMMA NothingToRead == FramesOf(<<>>) = <<>>
<1>1. <<>> \in Seq(Lines) /\ Len(<<>>) = 0
  OBVIOUS
<1>2. PICK F \in [0..Len(<<>>) -> Seq(FrameLines)] :
         IsReading(F, <<>>) /\ FramesOf(<<>>) = F[Len(<<>>)]
  BY <1>1, ReadingRun
<1> QED
  BY <1>1, <1>2 DEF IsReading

\* One line more: a frame is found, and of any other line nothing is.
LEMMA ReadingNext ==
  ASSUME NEW text \in Seq(Lines), NEW l \in Lines
  PROVE  /\ FramesOf(text) \in Seq(FrameLines)
         /\ FramesOf(Append(text, l)) = WithLine(FramesOf(text), l)
<1> DEFINE n == Len(text)
           t == Append(text, l)
<1>1. /\ n \in Nat /\ n \in 0..n /\ t \in Seq(Lines) /\ Len(t) = n + 1 /\ t[n + 1] = l
      /\ \A i \in 1..n : t[i] = text[i]
  OBVIOUS
<1>2. PICK D \in [0..n -> Seq(FrameLines)] : IsReading(D, text) /\ FramesOf(text) = D[n]
  BY ReadingRun
<1> HIDE DEF t
<1>3. PICK C \in [0..Len(t) -> Seq(FrameLines)] :
         IsReading(C, t) /\ FramesOf(t) = C[Len(t)]
  BY <1>1, ReadingRun
<1>4. \A i \in 0..n : C[i] = D[i]
  <2> DEFINE P == {i \in 0..n : C[i] = D[i]}
  <2>1. 0 \in P
    BY <1>1, <1>2, <1>3 DEF IsReading
  <2>2. ASSUME NEW i \in 1..n, i - 1 \in P PROVE i \in P
    <3>1. i \in 1..Len(t) /\ i \in 0..n /\ C[i - 1] = D[i - 1] /\ t[i] = text[i]
      BY <1>1, <2>2
    <3> QED
      BY <1>1, <1>2, <1>3, <3>1 DEF IsReading
  <2> HIDE DEF P
  <2>3. \A i \in 0..n : i \in P
    BY <1>1, <2>1, <2>2, Climb
  <2> QED
    BY <2>3 DEF P
<1>5. C[n + 1] = WithLine(C[n], l)
  <2>1. n + 1 \in 1..Len(t) /\ (n + 1) - 1 = n
    BY <1>1
  <2> QED
    BY <1>1, <1>3, <2>1 DEF IsReading
<1>6. FramesOf(text) \in Seq(FrameLines)
  BY <1>1, <1>2
<1> QED
  BY <1>1, <1>2, <1>3, <1>4, <1>5, <1>6 DEF t

\* As many frames were found as were meant, and they are those that were
\* meant, but for the last one's size if it was cut.
AsMeant ==
    /\ Len(Parsed) = Len(meant)
    /\ \A i \in 1..Len(meant) :
         \/ Parsed[i] = meant[i]
         \/ cut /\ i = Len(meant) /\ Parsed[i].size < meant[i].size

BatchInv ==
    /\ lines \in Seq(Lines) /\ meant \in Seq(FrameLines) /\ cut \in BOOLEAN
    /\ AsMeant \/ (cut /\ \E i \in DOMAIN lines : lines[i] = Broken)

\* Before the first line nothing was meant.
LEMMA BatchStart == BatchInit => BatchInv
<1> SUFFICES ASSUME BatchInit PROVE BatchInv
  OBVIOUS
<1>1. lines = <<>> /\ meant = <<>> /\ cut = FALSE
  BY DEF BatchInit
<1>2. Parsed = <<>>
  BY <1>1, NothingToRead DEF Parsed
<1>3. lines \in Seq(Lines) /\ meant \in Seq(FrameLines) /\ cut \in BOOLEAN
  <2>1. <<>> \in Seq(Lines) /\ <<>> \in Seq(FrameLines)
    OBVIOUS
  <2>2. cut \in BOOLEAN
    BY <1>1
  <2> QED
    BY <1>1, <2>1, <2>2
<1>4. AsMeant
  BY <1>1, <1>2 DEF AsMeant
<1> QED
  BY <1>3, <1>4 DEF BatchInv

\* A line that its writer finished is found as it was meant; one that it did
\* not finish is broken, or has a smaller size.
LEMMA BatchStep == BatchInv /\ [BatchNext]_batchVars => BatchInv'
<1> SUFFICES ASSUME BatchInv, [BatchNext]_batchVars PROVE BatchInv'
  OBVIOUS
<1>1. /\ lines \in Seq(Lines) /\ meant \in Seq(FrameLines) /\ cut \in BOOLEAN
      /\ Parsed \in Seq(FrameLines)
      /\ ~cut => Len(Parsed) = Len(meant) /\ \A i \in 1..Len(meant) : Parsed[i] = meant[i]
  BY ReadingNext DEF BatchInv, AsMeant, Parsed, Lines
<1>2. /\ Blank \in Lines /\ Blank.kind # "frame"
      /\ Broken \in Lines /\ Broken.kind # "frame"
  BY DEF Lines, Blank, Broken
<1>3. ASSUME NEW i \in FrameIndex, NEW size \in Nat
      PROVE  Frame(i, size) \in Lines /\ Frame(i, size) \in FrameLines
  BY DEF Lines, FrameLines, Frame
<1>4. \A l \in FrameLines : l.kind = "frame" /\ l \in Lines
  BY DEF FrameLines, Lines
<1>5. ASSUME NEW l \in Lines, lines' = Append(lines, l)
      PROVE  Parsed' = IF l.kind = "frame" THEN Append(Parsed, l) ELSE Parsed
  BY <1>1, <1>5, ReadingNext DEF Parsed, WithLine
<1>6. CASE WriteBlank
  <2>1. ~cut /\ lines' = Append(lines, Blank) /\ UNCHANGED <<meant, cut>>
    BY <1>6 DEF WriteBlank
  <2>2. Parsed' = Parsed
    BY <1>2, <1>5, <2>1
  <2>3. lines' \in Seq(Lines)
    BY <1>1, <1>2, <2>1
  <2> QED
    BY <1>1, <2>1, <2>2, <2>3 DEF BatchInv, AsMeant
<1>7. ASSUME NEW i \in FrameIndex, NEW size \in FrameSize, WriteLine(i, size)
      PROVE  BatchInv'
  <2> DEFINE f == Frame(i, size)
  <2>1. f \in Lines /\ f \in FrameLines /\ f.kind = "frame"
    BY <1>3, <1>4, BatchAssumption
  <2>2. ~cut /\ lines' = Append(lines, f) /\ meant' = Append(meant, f) /\ UNCHANGED cut
    BY <1>7 DEF WriteLine
  <2> HIDE DEF f
  <2>3. Parsed' = Append(Parsed, f)
    BY <1>5, <2>1, <2>2
  <2>4. lines' \in Seq(Lines) /\ meant' \in Seq(FrameLines)
    BY <1>1, <2>1, <2>2
  <2>5. Len(Parsed') = Len(meant') /\ \A j \in 1..Len(meant') : Parsed'[j] = meant'[j]
    BY <1>1, <2>1, <2>2, <2>3
  <2> QED
    BY <1>1, <2>2, <2>4, <2>5 DEF BatchInv, AsMeant
<1>8. ASSUME NEW i \in FrameIndex, NEW size \in FrameSize, CutLine(i, size)
      PROVE  BatchInv'
  <2> DEFINE f == Frame(i, size)
  <2>1. f \in FrameLines /\ f.size = size /\ size \in Nat
    BY <1>3, BatchAssumption DEF Frame
  <2>2. /\ ~cut /\ cut' = TRUE /\ meant' = Append(meant, f)
        /\ \/ lines' = Append(lines, Broken)
           \/ \E digits \in {10, 100} :
                /\ size \div digits > 0
                /\ lines' = Append(lines, Frame(i, size \div digits))
    BY <1>8 DEF CutLine
  <2> HIDE DEF f
  <2>3. meant' \in Seq(FrameLines)
    BY <1>1, <2>1, <2>2
  <2>4. CASE lines' = Append(lines, Broken)
    <3>1. lines' \in Seq(Lines) /\ Len(lines) + 1 \in DOMAIN lines'
          /\ lines'[Len(lines) + 1] = Broken
      BY <1>1, <1>2, <2>4
    <3> QED
      BY <2>2, <2>3, <3>1 DEF BatchInv
  <2>5. ASSUME NEW digits \in {10, 100}, size \div digits > 0,
               lines' = Append(lines, Frame(i, size \div digits))
        PROVE  BatchInv'
    <3> DEFINE g == Frame(i, size \div digits)
    <3>1. size \div digits \in Nat /\ size \div digits < size
      BY <2>1, <2>5
    <3>2. g \in Lines /\ g \in FrameLines /\ g.kind = "frame" /\ g.size < f.size
      <4>1. g.size = size \div digits
        BY DEF Frame
      <4> QED
        BY <1>3, <1>4, <2>1, <3>1, <4>1
    <3>3. lines' = Append(lines, g)
      BY <2>5
    <3> HIDE DEF g
    <3>4. Parsed' = Append(Parsed, g) /\ lines' \in Seq(Lines)
      BY <1>1, <1>5, <3>2, <3>3
    <3>5. /\ Len(Parsed') = Len(meant')
          /\ \A j \in 1..Len(meant') :
               Parsed'[j] = meant'[j] \/ (j = Len(meant') /\ Parsed'[j].size < meant'[j].size)
      BY <1>1, <2>1, <2>2, <3>2, <3>4
    <3> QED
      BY <2>2, <2>3, <3>4, <3>5 DEF BatchInv, AsMeant
  <2> QED
    BY <2>2, <2>4, <2>5
<1>9. CASE UNCHANGED batchVars
  BY <1>9 DEF batchVars, BatchInv, AsMeant, Parsed
<1> QED
  BY <1>6, <1>7, <1>8, <1>9 DEF BatchNext

\* Neighbours in order are all in order.
LEMMA OrderOfAll ==
  ASSUME NEW s \in Seq(FrameLines), \A i \in 1..(Len(s) - 1) : s[i].index < s[i + 1].index
  PROVE  \A i, j \in 1..Len(s) : i < j => s[i].index < s[j].index
<1> DEFINE n == Len(s)
<1>1. n \in Nat /\ \A i \in 1..n : s[i].index \in Nat
  <2>1. \A l \in FrameLines : l.index \in Nat
    BY BatchAssumption DEF FrameLines
  <2> QED
    BY <2>1
<1> SUFFICES ASSUME NEW i \in 1..n
             PROVE  \A j \in 1..n : i < j => s[i].index < s[j].index
  OBVIOUS
<1> DEFINE P == {k \in 0..n : k <= i \/ s[i].index < s[k].index}
<1>2. 0 \in P
  BY <1>1
<1>3. ASSUME NEW k \in 1..n, k - 1 \in P PROVE k \in P
  <2>1. CASE k <= i
    BY <1>1, <2>1
  <2>2. CASE k > i
    <3>1. k - 1 \in 1..(n - 1) /\ (k - 1) + 1 = k /\ k - 1 \in 1..n
      BY <1>1, <2>2
    <3>2. s[k - 1].index < s[k].index
      BY <3>1
    <3>3. s[i].index <= s[k - 1].index
      BY <1>1, <1>3, <2>2, <3>1
    <3> QED
      BY <1>1, <3>1, <3>2, <3>3
  <2> QED
    BY <1>1, <2>1, <2>2
<1>4. \A k \in 0..n : k \in P
  <2> HIDE DEF P, n
  <2> QED
    BY <1>1, <1>2, <1>3, Climb
<1> QED
  BY <1>1, <1>4

\* A batch that is accepted has all the frames that were meant, each index once
\* and in order; if it was cut, at most the size of the last one is wrong.
THEOREM BatchesAreWhole == BatchSpec => []BatchIsWholeAndInOrder
<1>1. BatchInv => BatchIsWholeAndInOrder
  <2> SUFFICES ASSUME BatchInv, BatchAccepts
               PROVE  /\ Len(Parsed) = Len(meant)
                      /\ \A i, j \in DOMAIN Parsed :
                           i < j => Parsed[i].index < Parsed[j].index
                      /\ \A i \in DOMAIN Parsed :
                           \/ Parsed[i] = meant[i]
                           \/ cut /\ i = Len(meant) /\ Parsed[i].size < meant[i].size
    BY DEF BatchIsWholeAndInOrder
  <2>1. AsMeant
    BY DEF BatchInv, BatchAccepts
  <2>2. Parsed \in Seq(FrameLines) /\ DOMAIN Parsed = 1..Len(Parsed)
    <3>1. Parsed \in Seq(FrameLines)
      BY ReadingNext DEF BatchInv, Parsed, Lines
    <3> QED
      BY <3>1
  <2>3. \A i, j \in 1..Len(Parsed) : i < j => Parsed[i].index < Parsed[j].index
    <3>1. \A i \in 1..(Len(Parsed) - 1) : Parsed[i].index < Parsed[i + 1].index
      BY DEF BatchAccepts, Monotonic
    <3> HIDE DEF Parsed
    <3> QED
      BY <2>2, <3>1, OrderOfAll
  <2> QED
    BY <2>1, <2>2, <2>3 DEF AsMeant
<1> QED
  BY <1>1, BatchStart, BatchStep, PTL DEF BatchSpec

(***************************************************************************)
(* Snapshots.                                                              *)
(***************************************************************************)

Files == [data : Data, written : 0..Full]

\* The indices of the files that are there.
Kept == {i \in Index : dir[i] # Nothing}

\* A snapshot that was saved has a file ever after, and so has the one that
\* is being saved.
SnapInv ==
    /\ dir \in [Index -> Files \cup {Nothing}]
    /\ saved \in [Index -> Data \cup {Nothing}]
    /\ saving # Nothing => saving \in Kept
    /\ \A i \in Index : saved[i] # Nothing => i \in Kept
    /\ IsFiniteSet(Kept)

\* At the start the directory is empty.
LEMMA SnapStart == SnapInit => SnapInv
<1> SUFFICES ASSUME SnapInit PROVE SnapInv
  OBVIOUS
<1>1. Kept = {}
  BY DEF SnapInit, Kept
<1> QED
  BY <1>1, FS_EmptySet DEF SnapInit, SnapInv

\* No step removes a file, and one step makes at most one.
LEMMA SnapStep == SnapInv /\ [SnapNext]_snapVars => SnapInv'
<1> SUFFICES ASSUME SnapInv, [SnapNext]_snapVars PROVE SnapInv'
  OBVIOUS
<1>1. \A f \in Files : f # Nothing
  BY SnapshotAssumption DEF Files
<1>2. 0 \in 0..Full /\ \A w \in 0..Full : w < Full => w + 1 \in 0..Full
  BY SnapshotAssumption
<1>3. ASSUME NEW i \in Index, NEW data \in Data, Save(i, data) PROVE SnapInv'
  <2>1. [data |-> data, written |-> 0] \in Files
    BY <1>2 DEF Files
  <2>2. dir' = [dir EXCEPT ![i] = [data |-> data, written |-> 0]] /\ saving' = i
        /\ UNCHANGED saved
    BY <1>3 DEF Save
  <2>3. Kept' = Kept \cup {i}
    BY <1>1, <2>1, <2>2 DEF Kept, SnapInv
  <2>4. IsFiniteSet(Kept')
    BY <2>3, FS_AddElement DEF SnapInv
  <2> QED
    BY <2>1, <2>2, <2>3, <2>4 DEF SnapInv
<1>4. CASE WriteSome
  <2>1. saving \in Kept /\ dir[saving] \in Files /\ dir[saving].written < Full
    BY <1>4 DEF WriteSome, SnapInv, Kept
  <2>2. [dir[saving] EXCEPT !.written = @ + 1] \in Files
    BY <1>2, <2>1 DEF Files
  <2>3. dir' = [dir EXCEPT ![saving] = [dir[saving] EXCEPT !.written = @ + 1]]
        /\ UNCHANGED <<saving, saved>>
    BY <1>4 DEF WriteSome
  <2>4. Kept' = Kept
    BY <1>1, <2>1, <2>2, <2>3 DEF Kept, SnapInv
  <2> QED
    BY <2>2, <2>3, <2>4 DEF SnapInv
<1>5. CASE Saved
  <2>1. saving \in Kept /\ saving \in Index /\ dir[saving].data \in Data
    BY <1>5 DEF Saved, SnapInv, Kept, Files
  <2>2. /\ saved' = [saved EXCEPT ![saving] = dir[saving].data]
        /\ saving' = Nothing /\ UNCHANGED dir /\ Kept' = Kept
    BY <1>5 DEF Saved, Kept
  <2> QED
    BY <2>1, <2>2 DEF SnapInv
<1>6. CASE SaveStops \/ UNCHANGED snapVars
  BY <1>6 DEF SaveStops, snapVars, SnapInv, Kept
<1> QED
  BY <1>3, <1>4, <1>5, <1>6 DEF SnapNext

\* What load_latest_snapshot makes of the next file that it comes upon.
Latest(l, idx) == IF IsLater(idx, l.index) THEN [index |-> idx, file |-> dir[idx]] ELSE l

NoneYet == [index |-> 0, file |-> Nothing]

\* None yet, or a file that is there.
Found == {NoneYet} \cup {[index |-> i, file |-> dir[i]] : i \in Kept}

\* F[i] is the latest of the first i files.
IsLoad(F, entries) ==
    /\ F[0] = NoneYet
    /\ \A i \in 1..Len(entries) : F[i] = Latest(F[i - 1], entries[i])

\* The load is the end of one comparison after another.
LEMMA LoadRun ==
  ASSUME NEW entries \in Seq(Kept)
  PROVE  \E F \in [0..Len(entries) -> Found] :
            IsLoad(F, entries) /\ load_latest_snapshot(entries) = F[Len(entries)]
<1> DEFINE n == Len(entries)
           Eq(it) == it = [S \in SUBSET (1..n) |->
                             IF S = {} THEN NoneYet
                             ELSE Latest(it[S \ {Max(S)}], entries[Max(S)])]
           chosenIt == CHOOSE it : Eq(it)
           G == [p \in Found \X (1..n) |-> Latest(p[1], entries[p[2]])]
<1>1. n \in Nat /\ DOMAIN entries = 1..n /\ NoneYet \in Found
  BY DEF Found
<1>2. load_latest_snapshot(entries) = chosenIt[1..n]
  BY <1>1 DEF load_latest_snapshot, Latest, NoneYet, FoldLeft, MapThenFoldSet
<1>3. G \in [Found \X (1..n) -> Found]
  <2>1. \A l \in Found, i \in 1..n : Latest(l, entries[i]) \in Found
    BY DEF Found, Latest
  <2> QED
    BY <2>1
<1>4. ASSUME NEW it, NEW S \in SUBSET (1..n), S # {}, it[S \ {Max(S)}] \in Found
      PROVE  G[<<it[S \ {Max(S)}], Max(S)>>] = Latest(it[S \ {Max(S)}], entries[Max(S)])
  <2>1. Max(S) \in 1..n
    <3> HIDE DEF n
    <3> QED
      BY <1>1, <1>4, MaxIn
  <2> HIDE DEF n
  <2> QED
    BY <1>4, <2>1
<1> HIDE DEF G, n
<1>5. Eq(chosenIt)
  <2>1. PICK it \in [SUBSET (1..n) -> Found] : IsFold(it, NoneYet, n, G)
    BY <1>1, <1>3, FoldExists
  <2>2. ASSUME NEW S \in SUBSET (1..n), S # {}
        PROVE  it[S] = Latest(it[S \ {Max(S)}], entries[Max(S)])
    <3>1. it[S \ {Max(S)}] \in Found
      BY <2>1
    <3> QED
      BY <1>4, <2>1, <2>2, <3>1 DEF IsFold
  <2>3. Eq(it)
    BY <2>1, <2>2 DEF IsFold
  <2> HIDE DEF Eq
  <2> QED
    BY <2>3
<1> HIDE DEF chosenIt
<1>6. FoldsIn(chosenIt, Found, NoneYet, n, G)
  BY <1>4, <1>5 DEF FoldsIn
<1> HIDE DEF Eq
<1>7. PICK F \in [0..n -> Found] : AreStates(F, chosenIt, NoneYet, n, G)
  BY <1>1, <1>3, <1>6, FoldStates
<1>8. \A i \in 1..n : F[i] = Latest(F[i - 1], entries[i])
  <2>1. \A i \in 1..n : i - 1 \in 0..n
    BY <1>1
  <2> QED
    BY <1>7, <2>1 DEF G, AreStates
<1> QED
  BY <1>2, <1>7, <1>8 DEF AreStates, IsLoad, n

\* The latest of the files has the highest index.
LEMMA LoadIsHighest ==
  ASSUME SnapInv, NEW entries \in Seq(Kept), NEW F \in [0..Len(entries) -> Found],
         IsLoad(F, entries)
  PROVE  \A j \in 1..Len(entries) : F[Len(entries)].index >= entries[j]
<1> DEFINE n == Len(entries)
           P == {k \in 0..n : \A j \in 1..k : F[k].index >= entries[j]}
<1>1. n \in Nat /\ n \in 0..n /\ Kept \subseteq Nat /\ \A i \in 1..n : entries[i] \in Nat
  <2>1. Kept \subseteq Nat
    BY SnapshotAssumption DEF Kept
  <2> QED
    BY <2>1
<1>2. \A k \in 0..n : F[k].index \in Nat
  <2>1. \A l \in Found : l.index \in Nat
    BY <1>1 DEF Found, NoneYet
  <2> QED
    BY <2>1
<1>3. 0 \in P
  BY <1>1
<1>4. ASSUME NEW k \in 1..n, k - 1 \in P PROVE k \in P
  <2>1. k \in 0..n /\ k - 1 \in 0..n /\ \A j \in 1..k : j \in 1..(k - 1) \/ j = k
    BY <1>1
  <2>2. F[k] = Latest(F[k - 1], entries[k])
    BY DEF IsLoad
  <2>3. F[k].index >= entries[k] /\ F[k].index >= F[k - 1].index
    <3>1. F[k - 1].index \in Nat /\ entries[k] \in Nat
      BY <1>1, <1>2, <2>1
    <3>2. F[k].index = IF entries[k] > F[k - 1].index THEN entries[k] ELSE F[k - 1].index
      BY <2>2 DEF Latest, IsLater
    <3> QED
      BY <3>1, <3>2
  <2>4. \A j \in 1..(k - 1) : F[k - 1].index >= entries[j] /\ j \in 1..n
    BY <1>1, <1>4
  <2> QED
    BY <1>1, <1>2, <2>1, <2>3, <2>4
<1>5. \A k \in 0..n : k \in P
  <2> HIDE DEF P, n
  <2> QED
    BY <1>1, <1>3, <1>4, Climb
<1> QED
  BY <1>1, <1>5

\* Whatever order the directory has, what is loaded has at least the index of
\* every snapshot that was saved, and it is as it was saved unless a save at its
\* index has not come to its end.
THEOREM NewestIsLoaded == SnapSpec => []LoadsNewest
<1>1. SnapInv => LoadsNewest
  <2> SUFFICES ASSUME SnapInv, NEW entries \in SetToSeqs(Kept),
                      NEW i \in Index \ {0}, saved[i] # Nothing
               PROVE  LET latest == load_latest_snapshot(entries)
                      IN  /\ latest.index >= i
                          /\ \/ latest.file = [data |-> saved[latest.index], written |-> Full]
                             \/ latest.index \in Interrupted
    BY DEF LoadsNewest, Kept
  <2>1. entries \in Seq(Kept) /\ ToSet(entries) = Kept
    BY RowHasAll DEF SetToSeqs, SnapInv
  <2>2. PICK F \in [0..Len(entries) -> Found] :
           IsLoad(F, entries) /\ load_latest_snapshot(entries) = F[Len(entries)]
    BY <2>1, LoadRun
  <2> DEFINE latest == F[Len(entries)]
  <2>3. latest.index >= i
    <3>1. \A j \in 1..Len(entries) : latest.index >= entries[j]
      BY <2>1, <2>2, LoadIsHighest
    <3>2. i \in ToSet(entries) /\ DOMAIN entries = 1..Len(entries)
      BY <2>1 DEF SnapInv
    <3> HIDE DEF latest
    <3> QED
      BY <3>1, <3>2 DEF ToSet
  <2>4. latest \in Found
    BY Len(entries) \in 0..Len(entries)
  <2> HIDE DEF latest
  <2>5. latest # NoneYet
    BY <2>3, SnapshotAssumption DEF NoneYet
  <2>6. PICK x \in Kept : latest = [index |-> x, file |-> dir[x]]
    BY <2>4, <2>5 DEF Found
  <2>7. \/ latest.file = [data |-> saved[latest.index], written |-> Full]
        \/ latest.index \in Interrupted
    BY <2>6 DEF Kept, Interrupted
  <2> QED
    BY <2>2, <2>3, <2>7 DEF latest
<1> QED
  BY <1>1, SnapStart, SnapStep, PTL DEF SnapSpec

(***************************************************************************)
(* The PID file.                                                           *)
(***************************************************************************)

Places == {"new", "spawn", "write", "unlinked", "started", "stop", "read", "signal",
           "stopped", "gone"}

\* The nodes that run and that somebody has to know of.
Live == Running \ lost

ManagerType ==
    /\ process \in [Pid -> {"free", "ended", "other"} \cup NodeId]
    /\ pc \in [Manager -> Places]
    /\ todo \in [Manager -> Seq(NodeId)]
    /\ pids \in [Manager -> Seq(Pid)]
    /\ procs \in [Manager -> SUBSET Pid]
    /\ file # NoFile => /\ file \in [text : SUBSET Pid, json : BOOLEAN]
                        /\ IsFiniteSet(file.text)
    /\ \A m \in Manager : pc[m] = "new" => pids[m] = <<>>

\* What the place where m is in its call says of who knows the nodes: the
\* file, or the list that m has.  While m starts nodes they are its children,
\* and start() has found no file.
Where(m) ==
    /\ pc[m] = "spawn" =>
         /\ m \notin StartsOne => file = NoFile
         /\ ToSet(pids[m]) \subseteq procs[m]
         /\ \A p \in Live : Listed(p) \/ p \in ToSet(pids[m])
    /\ pc[m] = "write" =>
         /\ file = Empty
         /\ ToSet(pids[m]) \subseteq procs[m] /\ Live \subseteq ToSet(pids[m])
    /\ pc[m] # "unlinked"
    /\ pc[m] = "signal" => Live \subseteq ToSet(pids[m])

\* As long as no start overlaps with another call.
Calm ==
    /\ \A m \in Starting : Busy = {m}
    /\ Starting = {} => \A p \in Live : Listed(p)
    /\ \A m \in Manager : Where(m)

ManagerInv == ManagerType /\ (overlapped = {} => Calm)

\* At the start there are no nodes, and no file.
LEMMA ManagerStart == ManagerInit => ManagerInv
<1> SUFFICES ASSUME ManagerInit PROVE ManagerInv
  OBVIOUS
<1>1. Running = {} /\ Starting = {}
  BY ManagerAssumption DEF ManagerInit, Running, Starting, NodeId
<1>2. ManagerType
  BY DEF ManagerInit, ManagerType, Places
<1>3. \A m \in Manager : Where(m)
  BY DEF ManagerInit, Where
<1> QED
  BY <1>1, <1>2, <1>3 DEF ManagerInv, Calm, Live

\* A text is a file.
LEMMA TextIsFile ==
  ASSUME NEW S \in SUBSET Pid, NEW b \in BOOLEAN
  PROVE  [text |-> S, json |-> b] # NoFile
BY ManagerAssumption

\* The empty file is one, and lists nothing.
LEMMA EmptyIsFile == Empty # NoFile /\ Empty.text = {} /\ Empty.json = FALSE
<1>1. {} \in SUBSET Pid /\ FALSE \in BOOLEAN
  OBVIOUS
<1> QED
  BY <1>1, TextIsFile DEF Empty

\* Who is in a call, by its place.
LEMMA BusyPlaces ==
  ASSUME NEW m \in Manager
  PROVE  /\ m \in Starting <=> pc[m] \in {"spawn", "write", "unlinked"}
         /\ m \in Busy <=> pc[m] \in {"spawn", "write", "unlinked", "stop", "read", "signal"}
BY DEF Starting, Busy

\* What only takes nodes away, outside the calls that are under way.
LEMMA IdleCalm ==
  ASSUME Calm, Starting' = Starting, Busy' = Busy, file' = file, Live' \subseteq Live,
         \A k \in Manager : k \in Busy =>
            pc'[k] = pc[k] /\ pids'[k] = pids[k] /\ procs'[k] = procs[k],
         \A k \in Manager : k \notin Busy =>
            pc'[k] \notin {"spawn", "write", "unlinked", "signal"}
  PROVE  Calm'
<1>1. \A p : Listed(p)' <=> Listed(p)
  BY DEF Listed, Readable
<1>2. ASSUME NEW k \in Manager PROVE Where(k)'
  <2>1. CASE k \in Busy
    <3>1. Where(k) /\ pc'[k] = pc[k] /\ pids'[k] = pids[k] /\ procs'[k] = procs[k]
      BY <2>1 DEF Calm
    <3>2. /\ pc'[k] = "spawn" =>
               /\ k \notin StartsOne => file' = NoFile
               /\ ToSet(pids'[k]) \subseteq procs'[k]
               /\ \A p \in Live' : Listed(p)' \/ p \in ToSet(pids'[k])
          /\ pc'[k] = "write" =>
               /\ file' = Empty
               /\ ToSet(pids'[k]) \subseteq procs'[k] /\ Live' \subseteq ToSet(pids'[k])
          /\ pc'[k] # "unlinked"
          /\ pc'[k] = "signal" => Live' \subseteq ToSet(pids'[k])
      BY <1>1, <3>1 DEF Where
    <3> QED
      BY <3>2 DEF Where, Empty
  <2>2. CASE k \notin Busy
    BY <2>2 DEF Where
  <2> QED
    BY <2>1, <2>2
<1> QED
  BY <1>1, <1>2 DEF Calm

\* In a start of m, or when it begins, nobody else is in a call.
LEMMA StartCalm ==
  ASSUME NEW m \in Manager, Busy \subseteq {m},
         \A k \in Manager : k # m => pc'[k] = pc[k],
         Where(m)', Starting' = {} => \A p \in Live' : Listed(p)'
  PROVE  Calm'
<1>1. ASSUME NEW k \in Manager, k # m
      PROVE  pc'[k] \notin {"spawn", "write", "unlinked", "stop", "read", "signal"}
  BY <1>1, BusyPlaces
<1>2. Busy' \subseteq {m} /\ Starting' \subseteq Busy'
  BY <1>1 DEF Busy, Starting
<1>3. ASSUME NEW k \in Manager PROVE Where(k)'
  <2>1. CASE k = m
    BY <2>1
  <2>2. CASE k # m
    BY <1>1, <2>2 DEF Where
  <2> QED
    BY <2>1, <2>2
<1> QED
  BY <1>2, <1>3 DEF Calm

\* While there are no starts, everything is listed.
LEMMA StopCalm ==
  ASSUME \A k \in Manager : pc'[k] \notin {"spawn", "write", "unlinked"},
         \A p \in Live' : Listed(p)',
         \A k \in Manager : pc'[k] = "signal" => Live' \subseteq ToSet(pids'[k])
  PROVE  Calm'
<1>1. Starting' = {}
  BY DEF Starting
<1>2. \A k \in Manager : Where(k)'
  BY DEF Where
<1> QED
  BY <1>1, <1>2 DEF Calm

\* Who stops knows that nobody starts.
LEMMA InAStop ==
  ASSUME Calm, NEW m \in Manager, pc[m] \in {"stop", "read", "signal"}
  PROVE  /\ Starting = {} /\ \A p \in Live : Listed(p)
         /\ \A k \in Manager : pc[k] \notin {"spawn", "write", "unlinked"}
<1>1. m \in Busy /\ m \notin Starting
  BY BusyPlaces
<1>2. Starting = {}
  BY <1>1 DEF Calm
<1> QED
  BY <1>2, BusyPlaces DEF Calm

(***************************************************************************)
(* Types.                                                                  *)
(***************************************************************************)

\* A step of a program that changes only its place, and neither file nor lists.
LEMMA PlaceType ==
  ASSUME ManagerType, NEW m \in Manager, NEW place \in Places \ {"new"}, Go(m, place),
         UNCHANGED <<process, file, todo, pids, procs>>
  PROVE  ManagerType'
BY DEF ManagerType, Go

LEMMA BeginType ==
  ASSUME ManagerType, NEW m \in Manager, Start(m) \/ StartNode(m)
  PROVE  ManagerType'
<1>1. UNCHANGED <<process, file, pids, procs>>
  BY DEF Start, StartNode
<1>2. PICK place \in Places \ {"new"} : Go(m, place)
  BY DEF Start, StartNode, BeginsToStart, Places
<1>3. todo' \in [Manager -> Seq(NodeId)]
  <2>1. todo \in [Manager -> Seq(NodeId)] /\ Nodes \in Seq(NodeId)
    BY ManagerAssumption DEF ManagerType, NodeId
  <2>2. \/ UNCHANGED todo
        \/ todo' = [todo EXCEPT ![m] = Nodes]
        \/ \E id \in NodeId : todo' = [todo EXCEPT ![m] = <<id>>]
    BY DEF Start, StartNode
  <2>3. \A id \in NodeId : <<id>> \in Seq(NodeId)
    OBVIOUS
  <2> QED
    BY <2>1, <2>2, <2>3
<1> QED
  BY <1>1, <1>2, <1>3 DEF ManagerType, Go

LEMMA SpawnType ==
  ASSUME ManagerType, NEW m \in Manager, Spawn(m)
  PROVE  ManagerType'
<1>1. /\ pc[m] = "spawn" /\ todo[m] # <<>> /\ pc' = pc /\ file' = file
      /\ todo' = [todo EXCEPT ![m] = Tail(@)]
  BY DEF Spawn
<1>2. PICK p \in Pid, new \in {"ended", Head(todo[m])} :
         /\ process' = [process EXCEPT ![p] = new]
         /\ procs' = [procs EXCEPT ![m] = @ \cup {p}]
         /\ pids' = [pids EXCEPT ![m] = Append(@, p)]
  BY DEF Spawn
<1>3. todo[m] \in Seq(NodeId) /\ pids[m] \in Seq(Pid)
  BY DEF ManagerType
<1>4. Head(todo[m]) \in NodeId /\ Tail(todo[m]) \in Seq(NodeId)
  BY <1>1, <1>3, RowShrinks
<1>5. Append(pids[m], p) \in Seq(Pid)
  BY <1>3, RowGrows
<1>6. process' \in [Pid -> {"free", "ended", "other"} \cup NodeId]
  BY <1>2, <1>4 DEF ManagerType
<1>7. /\ todo' \in [Manager -> Seq(NodeId)] /\ pids' \in [Manager -> Seq(Pid)]
      /\ procs' \in [Manager -> SUBSET Pid]
  BY <1>1, <1>2, <1>3, <1>4, <1>5 DEF ManagerType
<1>8. \A k \in Manager : pc'[k] = "new" => pids'[k] = <<>>
  BY <1>1, <1>2 DEF ManagerType
<1> QED
  BY <1>1, <1>6, <1>7, <1>8 DEF ManagerType

LEMMA WritesType ==
  ASSUME ManagerType, NEW m \in Manager, OpenFile(m) \/ WriteFile(m) \/ Unlink(m)
  PROVE  ManagerType'
<1>1. UNCHANGED <<process, todo, pids, procs>>
  BY DEF OpenFile, WriteFile, Unlink
<1>2. pids[m] \in Seq(Pid) /\ ToSet(pids[m]) \in SUBSET Pid /\ IsFiniteSet(ToSet(pids[m]))
  <2>1. pids[m] \in Seq(Pid)
    BY DEF ManagerType
  <2> QED
    BY <2>1, RowIsFinite
<1>3. \/ UNCHANGED file
      \/ file' = NoFile
      \/ \E S \in SUBSET Pid, b \in BOOLEAN :
            IsFiniteSet(S) /\ file' = [text |-> S, json |-> b]
  <2>1. CASE OpenFile(m)
    <3>1. IsFiniteSet({}) /\ {} \in SUBSET Pid /\ FALSE \in BOOLEAN
      BY FS_EmptySet
    <3> QED
      BY <2>1, <3>1 DEF OpenFile, Empty
  <2>2. CASE WriteFile(m)
    BY <1>2, <2>2 DEF WriteFile
  <2>3. CASE Unlink(m)
    BY <2>3 DEF Unlink
  <2> QED
    BY <2>1, <2>2, <2>3
<1>4. file' # NoFile => file' \in [text : SUBSET Pid, json : BOOLEAN] /\ IsFiniteSet(file'.text)
  BY <1>3 DEF ManagerType
<1>5. pc' \in [Manager -> Places] /\ \A k \in Manager : pc'[k] = "new" => pc[k] = "new"
  <2>1. CASE OpenFile(m) \/ WriteFile(m)
    <3>1. pc' = [pc EXCEPT ![m] = "write"] \/ pc' = [pc EXCEPT ![m] = "started"]
      BY <2>1 DEF OpenFile, WriteFile, Go
    <3> QED
      BY <3>1 DEF ManagerType, Places
  <2>2. CASE Unlink(m)
    <3>1. pc' = [k \in Manager |-> IF k = m THEN "stopped"
                                   ELSE IF pc[k] = "write" THEN "unlinked" ELSE pc[k]]
      BY <2>2 DEF Unlink
    <3>2. \A k \in Manager : pc'[k] \in Places /\ (pc'[k] = "new" => pc[k] = "new")
      BY <3>1 DEF ManagerType, Places
    <3> QED
      BY <3>1, <3>2
  <2> QED
    BY <2>1, <2>2
<1> QED
  BY <1>1, <1>4, <1>5 DEF ManagerType

LEMMA StopType ==
  ASSUME ManagerType, NEW m \in Manager,
         Stop(m) \/ FindFile(m) \/ ReadFile(m) \/ Signal(m)
  PROVE  ManagerType'
<1>1. CASE Stop(m)
  <2>1. process' \in [Pid -> {"free", "ended", "other"} \cup NodeId]
    BY <1>1 DEF Stop, ManagerType
  <2> QED
    BY <1>1, <2>1 DEF Stop, Go, ManagerType, Places
<1>2. CASE FindFile(m)
  <2>1. "stopped" \in Places \ {"new"} /\ "read" \in Places \ {"new"}
    BY DEF Places
  <2> QED
    BY <1>2, <2>1, PlaceType DEF FindFile
<1>3. CASE ReadFile(m)
  <2>1. Readable => SetToSeq(file.text) \in Seq(Pid)
    <3> SUFFICES ASSUME Readable PROVE SetToSeq(file.text) \in Seq(Pid)
      OBVIOUS
    <3>1. file.text \in SUBSET Pid /\ IsFiniteSet(file.text)
      BY DEF ManagerType, Readable
    <3>2. SetToSeq(file.text) \in Seq(file.text)
      BY <3>1, SetToSeqHasAll
    <3> QED
      BY <3>1, <3>2
  <2>2. <<>> \in Seq(Pid)
    OBVIOUS
  <2>3. pids' \in [Manager -> Seq(Pid)]
    BY <1>3, <2>1, <2>2 DEF ReadFile, ManagerType
  <2>4. pc' \in [Manager -> Places] /\ pc'[m] = "signal"
    BY <1>3 DEF ReadFile, Go, ManagerType, Places
  <2>5. \A k \in Manager : pc'[k] = "new" => pids'[k] = <<>>
    BY <1>3, <2>4 DEF ReadFile, Go, ManagerType
  <2> QED
    BY <1>3, <2>3, <2>4, <2>5 DEF ReadFile, ManagerType
<1>4. CASE Signal(m)
  <2> DEFINE h == Head(pids[m])
  <2>1. pids[m] \in Seq(Pid) /\ pids[m] # <<>> /\ pc[m] = "signal"
    BY <1>4 DEF Signal, ManagerType
  <2>2. h \in Pid /\ Tail(pids[m]) \in Seq(Pid)
    BY <2>1, RowShrinks
  <2>3. process' = [process EXCEPT ![h] = Waited(h)] /\ pids' = [pids EXCEPT ![m] = Tail(@)]
        /\ UNCHANGED <<file, pc, todo, procs>>
    BY <1>4 DEF Signal
  <2> HIDE DEF h
  <2>4. Waited(h) \in {"free", "ended"}
    BY DEF Waited
  <2>5. process' \in [Pid -> {"free", "ended", "other"} \cup NodeId]
    BY <2>2, <2>3, <2>4 DEF ManagerType
  <2>6. pids' \in [Manager -> Seq(Pid)]
    BY <2>2, <2>3 DEF ManagerType
  <2>7. \A k \in Manager : pc'[k] = "new" => pids'[k] = <<>>
    BY <2>1, <2>3 DEF ManagerType
  <2> QED
    BY <2>3, <2>5, <2>6, <2>7 DEF ManagerType
<1> QED
  BY <1>1, <1>2, <1>3, <1>4

LEMMA HostType ==
  ASSUME ManagerType,
         \/ \E m \in Manager : End(m)
         \/ \E p \in Pid : NodeEnds(p) \/ OtherStarts(p)
         \/ Reboot
  PROVE  ManagerType'
<1>1. ASSUME NEW m \in Manager, End(m) PROVE ManagerType'
  <2>1. process' \in [Pid -> {"free", "ended", "other"} \cup NodeId]
    BY <1>1 DEF End, ManagerType
  <2> QED
    BY <1>1, <2>1 DEF End, Go, ManagerType, Places
<1>2. ASSUME NEW p \in Pid, NodeEnds(p) \/ OtherStarts(p) PROVE ManagerType'
  <2>1. \E new \in {"free", "ended", "other"} : process' = [process EXCEPT ![p] = new]
    BY <1>2 DEF NodeEnds, OtherStarts, Waited
  <2>2. process' \in [Pid -> {"free", "ended", "other"} \cup NodeId]
    BY <2>1 DEF ManagerType
  <2> QED
    BY <1>2, <2>2 DEF NodeEnds, OtherStarts, ManagerType
<1>3. CASE Reboot
  <2>1. process' \in [Pid -> {"free", "ended", "other"} \cup NodeId]
    BY <1>3 DEF Reboot
  <2> QED
    BY <1>3, <2>1 DEF Reboot, ManagerType, Places
<1> QED
  BY <1>1, <1>2, <1>3

(***************************************************************************)
(* Who knows the nodes, as long as no start overlaps with another call.    *)
(***************************************************************************)

\* start() and start_node() begin with an empty list.
LEMMA BeginCalm ==
  ASSUME ManagerType, Calm, overlapped' = {}, NEW m \in Manager, Start(m) \/ StartNode(m)
  PROVE  Calm'
<1>1. pc[m] = "new" /\ UNCHANGED <<process, file, pids, procs, lost>>
  BY DEF Start, StartNode
<1>2. Live' = Live /\ \A p : Listed(p)' <=> Listed(p)
  BY <1>1 DEF Live, Running, Listed, Readable
<1>3. pc \in [Manager -> Places] /\ pids[m] = <<>>
  BY <1>1 DEF ManagerType
<1>4. CASE Go(m, "started")
  <2>1. pc' = [pc EXCEPT ![m] = "started"]
    BY <1>4 DEF Go
  <2>2. m \notin Busy /\ Starting' = Starting /\ Busy' = Busy
    BY <1>1, <1>3, <2>1 DEF Starting, Busy
  <2>3. \A k \in Manager : k \in Busy =>
           pc'[k] = pc[k] /\ pids'[k] = pids[k] /\ procs'[k] = procs[k]
    BY <1>1, <1>3, <2>1, <2>2
  <2>4. \A k \in Manager : k \notin Busy =>
           pc'[k] \notin {"spawn", "write", "unlinked", "signal"}
    BY <1>3, <2>1, BusyPlaces
  <2> QED
    BY <1>1, <1>2, <2>2, <2>3, <2>4, IdleCalm
<1>5. CASE BeginsToStart(m) /\ (m \notin StartsOne => file = NoFile)
  <2>1. Busy = {} /\ pc' = [pc EXCEPT ![m] = "spawn"]
    BY <1>5 DEF BeginsToStart, Go
  <2>2. \A p \in Live' : Listed(p)'
    BY <1>2, <2>1 DEF Calm, Busy
  <2>3. pc'[m] = "spawn" /\ pids'[m] = <<>> /\ ToSet(<<>>) = {}
    BY <1>1, <1>3, <2>1 DEF ToSet
  <2>4. Where(m)'
    BY <1>1, <1>5, <2>2, <2>3 DEF Where
  <2>5. \A k \in Manager : k # m => pc'[k] = pc[k]
    BY <1>3, <2>1
  <2> QED
    BY <2>1, <2>2, <2>4, <2>5, StartCalm
<1> QED
  BY <1>4, <1>5 DEF Start, StartNode, AlreadyRunning

\* A process that is started is a child of m, and on its list.
LEMMA SpawnCalm ==
  ASSUME ManagerType, Calm, NEW m \in Manager, Spawn(m)
  PROVE  Calm'
<1>1. /\ pc[m] = "spawn" /\ pc' = pc /\ file' = file
  BY DEF Spawn
<1>2. PICK p \in Pid, new \in {"ended", Head(todo[m])} :
         /\ process' = [process EXCEPT ![p] = new]
         /\ procs' = [procs EXCEPT ![m] = @ \cup {p}]
         /\ pids' = [pids EXCEPT ![m] = Append(@, p)]
         /\ lost' = lost \ {p}
  BY DEF Spawn
<1>3. /\ pids[m] \in Seq(Pid) /\ procs[m] \in SUBSET Pid
      /\ pids \in [Manager -> Seq(Pid)] /\ procs \in [Manager -> SUBSET Pid]
      /\ process \in [Pid -> {"free", "ended", "other"} \cup NodeId]
  BY DEF ManagerType
<1>4. ToSet(Append(pids[m], p)) = ToSet(pids[m]) \cup {p}
  BY <1>3, RowGrows
<1>5. \A q : Listed(q)' <=> Listed(q)
  BY <1>1 DEF Listed, Readable
<1>6. Live' \subseteq Live \cup {p}
  BY <1>2, <1>3 DEF Live, Running
<1>7. Busy = {m} /\ Starting' = Starting /\ m \in Starting
  BY <1>1, BusyPlaces DEF Calm, Starting
<1>8. Where(m)'
  <2>1. /\ m \notin StartsOne => file = NoFile
        /\ ToSet(pids[m]) \subseteq procs[m]
        /\ \A q \in Live : Listed(q) \/ q \in ToSet(pids[m])
    BY <1>1 DEF Calm, Where
  <2>2. pids'[m] = Append(pids[m], p) /\ procs'[m] = procs[m] \cup {p} /\ pc'[m] = "spawn"
    BY <1>1, <1>2, <1>3
  <2>3. ToSet(pids'[m]) \subseteq procs'[m]
    BY <1>4, <2>1, <2>2
  <2>4. \A q \in Live' : Listed(q)' \/ q \in ToSet(pids'[m])
    BY <1>4, <1>5, <1>6, <2>1, <2>2
  <2> QED
    BY <1>1, <2>1, <2>2, <2>3, <2>4 DEF Where
<1>9. \A k \in Manager : k # m => pc'[k] = pc[k]
  BY <1>1
<1> QED
  BY <1>7, <1>8, <1>9, StartCalm

\* When the file is truncated, the list of m has every node that is not given
\* up: start() found no file, and start_node() gives up what the file lists.
LEMMA OpenFileCalm ==
  ASSUME ManagerType, Calm, NEW m \in Manager, OpenFile(m)
  PROVE  Calm'
<1>1. /\ pc[m] = "spawn" /\ pc' = [pc EXCEPT ![m] = "write"] /\ file' = Empty
      /\ lost' = lost \cup (IF m \in StartsOne THEN {p \in Running : Listed(p)} ELSE {})
      /\ UNCHANGED <<process, pids, procs>>
  BY DEF OpenFile, Go
<1>2. /\ m \notin StartsOne => file = NoFile
      /\ ToSet(pids[m]) \subseteq procs[m]
      /\ \A p \in Live : Listed(p) \/ p \in ToSet(pids[m])
  BY <1>1 DEF Calm, Where
<1>3. pc \in [Manager -> Places]
  BY DEF ManagerType
<1>4. Live' \subseteq ToSet(pids[m])
  <2>1. Live' \subseteq Live /\ \A p \in Live' : ~Listed(p)
    <3>1. Running' = Running
      BY <1>1 DEF Running
    <3>2. m \notin StartsOne => \A p : ~Listed(p)
      BY <1>2 DEF Listed, Readable
    <3> QED
      BY <1>1, <3>1, <3>2 DEF Live
  <2> QED
    BY <1>2, <2>1
<1>5. Busy = {m} /\ pc'[m] = "write"
  BY <1>1, <1>3, BusyPlaces DEF Calm
<1>6. m \in Starting'
  BY <1>5 DEF Starting
<1>7. Where(m)'
  BY <1>1, <1>2, <1>4, <1>5 DEF Where, Empty
<1>8. \A k \in Manager : k # m => pc'[k] = pc[k]
  BY <1>1, <1>3
<1> QED
  BY <1>5, <1>6, <1>7, <1>8, StartCalm

\* The list becomes the file.
LEMMA WriteFileCalm ==
  ASSUME ManagerType, Calm, NEW m \in Manager, WriteFile(m)
  PROVE  Calm'
<1>1. /\ pc[m] \in {"write", "unlinked"} /\ pc' = [pc EXCEPT ![m] = "started"]
      /\ UNCHANGED <<process, pids, lost>>
  BY DEF WriteFile, Go
<1>2. pc[m] = "write" /\ file = Empty /\ Live \subseteq ToSet(pids[m])
  BY <1>1 DEF Calm, Where
<1>3. file' = [text |-> ToSet(pids[m]), json |-> TRUE]
  BY <1>2 DEF WriteFile
<1>4. pc \in [Manager -> Places] /\ ToSet(pids[m]) \in SUBSET Pid
  <2>1. pids[m] \in Seq(Pid)
    BY DEF ManagerType
  <2> QED
    BY <2>1, RowIsFinite DEF ManagerType
<1>5. file' # NoFile
  BY <1>3, <1>4, TextIsFile
<1>6. \A p : p \in ToSet(pids[m]) => Listed(p)'
  BY <1>3, <1>5 DEF Listed, Readable
<1>7. Live' = Live
  BY <1>1 DEF Live, Running
<1>8. Busy = {m} /\ pc'[m] = "started"
  BY <1>1, <1>4, BusyPlaces DEF Calm
<1>9. Where(m)'
  BY <1>8 DEF Where
<1>10. \A k \in Manager : k # m => pc'[k] = pc[k]
  BY <1>1, <1>4
<1>11. \A p \in Live' : Listed(p)'
  BY <1>2, <1>6, <1>7
<1> QED
  BY <1>8, <1>9, <1>10, <1>11, StartCalm

\* stop() first waits for the children it ends.
LEMMA StopBeginsCalm ==
  ASSUME ManagerType, Calm, overlapped' = {}, NEW m \in Manager, Stop(m)
  PROVE  Calm'
<1>1. /\ pc' = [pc EXCEPT ![m] = "stop"]
      /\ process' = [p \in Pid |-> IF p \in procs[m] THEN "free" ELSE process[p]]
      /\ UNCHANGED <<file, pids, lost>>
  BY DEF Stop, Go
<1>2. Starting = {}
  BY DEF Stop
<1>3. pc \in [Manager -> Places]
  BY DEF ManagerType
<1>4. Live' \subseteq Live
  BY <1>1, ManagerAssumption DEF Live, Running, NodeId
<1>5. \A p : Listed(p)' <=> Listed(p)
  BY <1>1 DEF Listed, Readable
<1>6. \A p \in Live' : Listed(p)'
  BY <1>2, <1>4, <1>5 DEF Calm
<1>7. \A k \in Manager : pc'[k] \notin {"spawn", "write", "unlinked"}
  BY <1>1, <1>2, <1>3, BusyPlaces
<1>8. \A k \in Manager : pc'[k] = "signal" => Live' \subseteq ToSet(pids'[k])
  BY <1>1, <1>3, <1>4 DEF Calm, Where
<1> QED
  BY <1>6, <1>7, <1>8, StopCalm

\* What cannot be read lists no node that anybody has to know of.
LEMMA ReadCalm ==
  ASSUME ManagerType, Calm, NEW m \in Manager, FindFile(m) \/ ReadFile(m)
  PROVE  Calm'
<1>1. /\ pc[m] \in {"stop", "read"} /\ UNCHANGED <<process, file, lost>>
      /\ \E place \in {"stopped", "read", "signal"} : pc' = [pc EXCEPT ![m] = place]
  BY DEF FindFile, ReadFile, Go
<1>2. /\ \A p \in Live : Listed(p)
      /\ \A k \in Manager : pc[k] \notin {"spawn", "write", "unlinked"}
  BY <1>1, InAStop
<1>3. pc \in [Manager -> Places] /\ pids \in [Manager -> Seq(Pid)]
  BY DEF ManagerType
<1>4. Live' = Live /\ \A p : Listed(p)' <=> Listed(p)
  BY <1>1 DEF Live, Running, Listed, Readable
<1>5. ASSUME NEW k \in Manager, pc'[k] = "signal" PROVE Live' \subseteq ToSet(pids'[k])
  <2>1. CASE k # m \/ FindFile(m)
    <3>1. pc[k] = "signal" /\ pids'[k] = pids[k]
      BY <1>1, <1>3, <1>5, <2>1 DEF FindFile, ReadFile, Go
    <3> QED
      BY <1>4, <3>1 DEF Calm, Where
  <2>2. CASE k = m /\ ReadFile(m)
    <3>1. pids'[m] = IF Readable THEN SetToSeq(file.text) ELSE <<>>
      BY <1>3, <2>2 DEF ReadFile
    <3>2. CASE Readable
      <4>1. IsFiniteSet(file.text)
        BY <3>2 DEF ManagerType, Readable
      <4>2. ToSet(SetToSeq(file.text)) = file.text
        BY <4>1, SetToSeqHasAll
      <4> QED
        BY <1>2, <1>4, <2>2, <3>1, <3>2, <4>2 DEF Listed
    <3>3. CASE ~Readable
      BY <1>2, <1>4, <3>3 DEF Listed
    <3> QED
      BY <3>2, <3>3
  <2> QED
    BY <2>1, <2>2 DEF FindFile, ReadFile
<1>6. \A k \in Manager : pc'[k] \notin {"spawn", "write", "unlinked"}
  BY <1>1, <1>2, <1>3
<1> QED
  BY <1>2, <1>4, <1>5, <1>6, StopCalm

\* Whatever process has the number a signal goes to, no node has it then.
LEMMA SignalCalm ==
  ASSUME ManagerType, Calm, NEW m \in Manager, Signal(m)
  PROVE  Calm'
<1> DEFINE h == Head(pids[m])
<1>1. /\ pc[m] = "signal" /\ pids[m] # <<>>
      /\ process' = [process EXCEPT ![h] = Waited(h)]
      /\ pids' = [pids EXCEPT ![m] = Tail(@)]
      /\ UNCHANGED <<file, pc, lost>>
  BY DEF Signal
<1>2. /\ pids \in [Manager -> Seq(Pid)] /\ pids[m] \in Seq(Pid)
      /\ process \in [Pid -> {"free", "ended", "other"} \cup NodeId]
  BY DEF ManagerType
<1>3. h \in Pid /\ ToSet(pids[m]) \subseteq ToSet(Tail(pids[m])) \cup {h}
  BY <1>1, <1>2, RowShrinks
<1> HIDE DEF h
<1>4. Waited(h) \notin NodeId
  BY ManagerAssumption DEF Waited, NodeId
<1>5. Live' \subseteq Live \ {h}
  BY <1>1, <1>2, <1>3, <1>4 DEF Live, Running
<1>6. /\ \A p \in Live : Listed(p)
      /\ \A k \in Manager : pc'[k] \notin {"spawn", "write", "unlinked"}
  BY <1>1, InAStop
<1>7. \A p \in Live' : Listed(p)'
  BY <1>1, <1>5, <1>6 DEF Listed, Readable
<1>8. ASSUME NEW k \in Manager, pc'[k] = "signal" PROVE Live' \subseteq ToSet(pids'[k])
  <2>1. Live \subseteq ToSet(pids[k])
    BY <1>1, <1>8 DEF Calm, Where
  <2>2. pids'[k] = IF k = m THEN Tail(pids[m]) ELSE pids[k]
    BY <1>1, <1>2
  <2> QED
    BY <1>3, <1>5, <2>1, <2>2
<1> QED
  BY <1>6, <1>7, <1>8, StopCalm

\* The file goes when all that it listed have got a signal.
LEMMA UnlinkCalm ==
  ASSUME ManagerType, Calm, NEW m \in Manager, Unlink(m)
  PROVE  Calm'
<1>1. /\ pc[m] = "signal" /\ pids[m] = <<>> /\ UNCHANGED <<process, lost>>
      /\ pc' = [k \in Manager |-> IF k = m THEN "stopped"
                                  ELSE IF pc[k] = "write" THEN "unlinked" ELSE pc[k]]
  BY DEF Unlink
<1>2. Live' = {}
  BY <1>1 DEF Calm, Where, Live, Running, ToSet
<1>3. \A k \in Manager : pc'[k] \notin {"spawn", "write", "unlinked"}
  BY <1>1, InAStop
<1> QED
  BY <1>2, <1>3, StopCalm

\* A program that ends in the middle of start() takes its list with it.
LEMMA EndCalm ==
  ASSUME ManagerType, Calm, NEW m \in Manager, End(m)
  PROVE  Calm'
<1>1. /\ pc' = [pc EXCEPT ![m] = "gone"]
      /\ lost' = lost \cup (IF m \in Starting THEN procs[m] \cap Running ELSE {})
      /\ process' = [p \in Pid |-> IF p \in procs[m] /\ process[p] = "ended" THEN "free"
                                   ELSE process[p]]
      /\ procs' = [procs EXCEPT ![m] = {}]
      /\ UNCHANGED <<file, pids>>
  BY DEF End, Go
<1>2. /\ pc \in [Manager -> Places] /\ procs \in [Manager -> SUBSET Pid]
      /\ process \in [Pid -> {"free", "ended", "other"} \cup NodeId]
  BY DEF ManagerType
<1>3. Running' \subseteq Running /\ Live' \subseteq Live
  BY <1>1, <1>2, ManagerAssumption DEF Live, Running, NodeId
<1>4. \A p : Listed(p)' <=> Listed(p)
  BY <1>1 DEF Listed, Readable
<1>5. pc'[m] = "gone" /\ \A k \in Manager : k # m => pc'[k] = pc[k] /\ procs'[k] = procs[k]
  BY <1>1, <1>2
<1>6. CASE m \in Starting
  <2>1. Busy = {m}
    BY <1>6 DEF Calm
  <2>2. \A p \in Live' : p \notin procs[m]
    BY <1>1, <1>3, <1>6 DEF Live
  <2>3. pc[m] = "spawn" \/ pc[m] = "write"
    BY <1>6, BusyPlaces DEF Calm, Where
  <2>4. \A p \in Live' : Listed(p)
    <3>1. CASE pc[m] = "spawn"
      BY <1>3, <2>2, <3>1 DEF Calm, Where
    <3>2. CASE pc[m] = "write"
      BY <1>3, <2>2, <3>2 DEF Calm, Where
    <3> QED
      BY <2>3, <3>1, <3>2
  <2>5. Where(m)'
    BY <1>5 DEF Where
  <2> QED
    BY <1>4, <1>5, <2>1, <2>4, <2>5, StartCalm
<1>7. CASE m \in Busy /\ m \notin Starting
  <2>1. pc[m] \in {"stop", "read", "signal"}
    BY <1>7, BusyPlaces
  <2>2. /\ \A p \in Live : Listed(p)
        /\ \A k \in Manager : pc[k] \notin {"spawn", "write", "unlinked"}
    BY <2>1, InAStop
  <2>3. \A k \in Manager : pc'[k] \notin {"spawn", "write", "unlinked"}
    BY <1>5, <2>2
  <2>4. \A k \in Manager : pc'[k] = "signal" => Live' \subseteq ToSet(pids'[k])
    BY <1>1, <1>3, <1>5 DEF Calm, Where
  <2> QED
    BY <1>3, <1>4, <2>2, <2>3, <2>4, StopCalm
<1>8. CASE m \notin Busy
  <2>1. Starting' = Starting /\ Busy' = Busy
    BY <1>5, <1>8 DEF Starting, Busy
  <2>2. \A k \in Manager : k \in Busy =>
           pc'[k] = pc[k] /\ pids'[k] = pids[k] /\ procs'[k] = procs[k]
    BY <1>1, <1>5, <1>8
  <2>3. \A k \in Manager : k \notin Busy =>
           pc'[k] \notin {"spawn", "write", "unlinked", "signal"}
    BY <1>5, BusyPlaces
  <2> QED
    BY <1>1, <1>3, <2>1, <2>2, <2>3, IdleCalm
<1> QED
  BY <1>6, <1>7, <1>8 DEF Busy

\* What other processes do leaves fewer nodes to know of.
LEMMA HostCalm ==
  ASSUME ManagerType, Calm, NEW p \in Pid, NodeEnds(p) \/ OtherStarts(p)
  PROVE  Calm'
<1>1. /\ UNCHANGED <<file, pc, pids, procs, lost>>
      /\ \E new \in {"free", "ended", "other"} : process' = [process EXCEPT ![p] = new]
  BY DEF NodeEnds, OtherStarts, Waited
<1>2. process \in [Pid -> {"free", "ended", "other"} \cup NodeId]
  BY DEF ManagerType
<1>3. Live' \subseteq Live
  BY <1>1, <1>2, ManagerAssumption DEF Live, Running, NodeId
<1>4. Starting' = Starting /\ Busy' = Busy
  BY <1>1 DEF Starting, Busy
<1>5. \A k \in Manager : k \notin Busy =>
         pc'[k] \notin {"spawn", "write", "unlinked", "signal"}
  BY <1>1, BusyPlaces
<1> QED
  BY <1>1, <1>3, <1>4, <1>5, IdleCalm

\* After a restart of the host no node runs, and no call is under way.
LEMMA RebootCalm == ASSUME Reboot PROVE Calm'
<1>1. /\ process' = [p \in Pid |-> "free"]
      /\ pc' = [m \in Manager |-> IF pc[m] = "new" THEN "new" ELSE "gone"]
  BY DEF Reboot
<1>2. Live' = {}
  BY <1>1, ManagerAssumption DEF Live, Running, NodeId
<1>3. \A k \in Manager : pc'[k] \in {"new", "gone"}
  BY <1>1
<1> QED
  BY <1>2, <1>3, StopCalm

\* Once a start has overlapped with another call, that is known until the host
\* restarts.
LEMMA OverlapStays ==
  ASSUME [ManagerNext]_managerVars, ~Reboot, overlapped' = {} PROVE overlapped = {}
BY DEF ManagerNext, managerVars, Start, StartNode, BeginsToStart, Spawn, OpenFile, WriteFile,
   Stop, FindFile, ReadFile, Signal, Unlink, End, NodeEnds, OtherStarts

\* Every step of a program, of a node or of the host keeps the invariant.
LEMMA ManagerStep == ManagerInv /\ [ManagerNext]_managerVars => ManagerInv'
<1> SUFFICES ASSUME ManagerInv, [ManagerNext]_managerVars PROVE ManagerInv'
  OBVIOUS
<1>1. ManagerType
  BY DEF ManagerInv
<1>2. ManagerType'
  <2>1. CASE UNCHANGED managerVars
    BY <1>1, <2>1 DEF managerVars, ManagerType
  <2> QED
    BY <1>1, <2>1, BeginType, SpawnType, WritesType, StopType, HostType DEF ManagerNext
<1>3. ASSUME overlapped' = {} PROVE Calm'
  <2>1. CASE Reboot
    BY <2>1, RebootCalm
  <2>2. CASE ~Reboot
    <3>1. Calm
      BY <1>3, <2>2, OverlapStays DEF ManagerInv
    <3>2. CASE UNCHANGED managerVars
      <4>1. Live' = Live /\ Starting' = Starting /\ Busy' = Busy
        BY <3>2 DEF managerVars, Live, Running, Starting, Busy
      <4>2. \A k \in Manager : k \notin Busy =>
               pc'[k] \notin {"spawn", "write", "unlinked", "signal"}
        BY <3>2, BusyPlaces DEF managerVars
      <4> QED
        BY <3>1, <3>2, <4>1, <4>2, IdleCalm DEF managerVars
    <3>3. ASSUME NEW m \in Manager,
                 \/ Start(m) \/ StartNode(m) \/ Spawn(m) \/ OpenFile(m) \/ WriteFile(m)
                 \/ Stop(m) \/ FindFile(m) \/ ReadFile(m) \/ Signal(m) \/ Unlink(m)
                 \/ End(m)
          PROVE  Calm'
      BY <1>1, <1>3, <3>1, <3>3, BeginCalm, SpawnCalm, OpenFileCalm, WriteFileCalm,
         StopBeginsCalm, ReadCalm, SignalCalm, UnlinkCalm, EndCalm
    <3> QED
      BY <1>1, <2>2, <3>1, <3>2, <3>3, HostCalm DEF ManagerNext
  <2> QED
    BY <2>1, <2>2
<1> QED
  BY <1>2, <1>3 DEF ManagerInv

\* Unless a start is under way, every node that runs is in the PID file, but
\* for those of a start that was cut short and those whose list start_node()
\* wrote over; and as long as no start has overlapped with another call, which
\* nothing in the code prevents.
THEOREM NodesStayListed == ManagerSpec => []NodesAreListed
<1>1. ManagerInv => NodesAreListed
  BY DEF ManagerInv, Calm, NodesAreListed, Live
<1> QED
  BY <1>1, ManagerStart, ManagerStep, PTL DEF ManagerSpec
=============================================================================
