----------------------------- MODULE FrameBatch -----------------------------
(***************************************************************************)
(* parse_frame_batch of crates/wal-replicator/src/lib.rs: a text of lines  *)
(* index,checksum,size, which some program writes line by line and may     *)
(* leave with its last line cut.                                           *)
(***************************************************************************)
EXTENDS Naturals, Sequences, SequencesExt

CONSTANTS
    FrameIndex,
    FrameSize,
    MaxLines    \* bound on the text

ASSUME BatchAssumption ==
    FrameIndex \subseteq Nat /\ FrameSize \subseteq Nat /\ MaxLines \in Nat

VARIABLES
    lines,      \* "blank", "broken", or [index, size]; the checksum is as these
    meant,      \* the frames its writer was to write
    cut         \* is the last line cut?

batchVars == <<lines, meant, cut>>

BatchInit == lines = <<>> /\ meant = <<>> /\ cut = FALSE

Blank == [kind |-> "blank"]
Broken == [kind |-> "broken"]
Frame(i, size) == [kind |-> "frame", index |-> i, size |-> size]

WriteBlank ==
    /\ ~cut /\ Len(lines) < MaxLines
    /\ lines' = Append(lines, Blank)
    /\ UNCHANGED <<meant, cut>>

WriteLine(i, size) ==
    /\ ~cut /\ Len(lines) < MaxLines
    /\ lines' = Append(lines, Frame(i, size))
    /\ meant' = Append(meant, Frame(i, size))
    /\ UNCHANGED cut

\* A field is missing or empty; or the size has lost digits, and still is one.
CutLine(i, size) ==
    /\ ~cut /\ Len(lines) < MaxLines
    /\ cut' = TRUE
    /\ meant' = Append(meant, Frame(i, size))
    /\ \/ lines' = Append(lines, Broken)
       \/ \E digits \in {10, 100} :
            /\ size \div digits > 0
            /\ lines' = Append(lines, Frame(i, size \div digits))

BatchNext ==
    \/ WriteBlank
    \/ \E i \in FrameIndex, size \in FrameSize : WriteLine(i, size) \/ CutLine(i, size)

BatchSpec == BatchInit /\ [][BatchNext]_batchVars

\* The loop over the lines: a blank one is passed over.
FramesOf(text) ==
    FoldLeft(LAMBDA found, l : IF l.kind = "frame" THEN Append(found, l) ELSE found,
             <<>>, text)

Parsed == FramesOf(lines)

\* Slip: an index may come twice.
MonotonicNotStrictly ==
    \A i \in 1..(Len(Parsed) - 1) : Parsed[i].index <= Parsed[i + 1].index

Monotonic == \A i \in 1..(Len(Parsed) - 1) : Parsed[i].index < Parsed[i + 1].index

BatchAccepts == (\A i \in DOMAIN lines : lines[i] # Broken) /\ Monotonic

\* A batch that is accepted has all frames that were meant, each index once,
\* and in order.  If it was cut, the size of the last one may be wrong: a
\* number cut short is a number.
BatchIsWholeAndInOrder ==
    BatchAccepts =>
        /\ Len(Parsed) = Len(meant)
        /\ \A i, j \in DOMAIN Parsed : i < j => Parsed[i].index < Parsed[j].index
        /\ \A i \in DOMAIN Parsed :
             Parsed[i] = meant[i] \/ (cut /\ i = Len(meant) /\ Parsed[i].size < meant[i].size)
=============================================================================
