------------------------------ MODULE WalFile ------------------------------
(***************************************************************************)
(* parse_wal_bytes of crates/wal-replicator/src/lib.rs, and the file it is *)
(* given: the write-ahead log of an SQLite database, at any moment of its  *)
(* life or as the end of its writer has left it.                           *)
(*                                                                         *)
(* SQLite is external and modelled as far as the file format goes.  A      *)
(* frame is two writes, its header and its page.  When all frames are in   *)
(* the database the log starts again from its beginning, under a new salt: *)
(* what it has not yet overwritten stays in the file.  Frames behind the   *)
(* last commit are overwritten after a rollback or a crash.                *)
(*                                                                         *)
(* A word of the file is the sequence of its bytes; two are enough.        *)
(***************************************************************************)
EXTENDS Naturals, Sequences, SequencesExt

CONSTANTS
    Content,    \* what a page may hold
    PageSize,
    MaxFrames,  \* bound on the frames of the file
    MaxRounds   \* bound on the starts of the log

ASSUME WalAssumption ==
    PageSize \in Nat \ {0} /\ MaxFrames \in Nat /\ MaxRounds \in Nat

VARIABLES
    magic,      \* 0x377f0682 is "BE" here, 0x377f0683 "LE"
    salt,       \* header: salt1 and salt2, as one; 0 if there is no header
    frames,     \* what follows the header in the file
    rounds,     \* starts of the log so far
    next,       \* what is written next: the log's header ("start"), a frame's
                \* header ("frame") or its page ("page")
    mx,         \* complete frames of this round
    committed,  \* those up to its last commit
    wrote       \* checksums of the frames written under the header's salt

walVars == <<magic, salt, frames, rounds, next, mx, committed, wrote>>

WalInit ==
    /\ magic \in {"BE", "LE"} /\ salt = 0 /\ frames = <<>> /\ rounds = 0
    /\ next = "start" /\ mx = 0 /\ committed = 0 /\ wrote = <<>>

(***************************************************************************)
(* SQLite.                                                                 *)
(***************************************************************************)
Put(s, i, e) == IF i <= Len(s) THEN [s EXCEPT ![i] = e] ELSE Append(s, e)

\* The first frame of a round takes a header with it.
WriteHeader ==
    /\ next = "start" /\ rounds < MaxRounds
    /\ rounds' = rounds + 1 /\ salt' = rounds + 1
    /\ next' = "frame" /\ wrote' = <<>>
    /\ UNCHANGED <<magic, frames, mx, committed>>

\* The checksums are of the salt, of the place and of the page.  db_size is
\* db_size_after_commit: 0 unless the frame is the last of a transaction.
WriteFrameHeader(page, db_size) ==
    /\ next = "frame" /\ mx < MaxFrames
    /\ next' = "page"
    /\ LET i == mx + 1
           overwritten == i <= Len(frames) /\ frames[i].page # "missing"
       IN  /\ frames' = Put(frames, i,
                [salt |-> salt, db_size |-> db_size,
                 checksum1 |-> <<salt, i>>, checksum2 |-> <<i, page>>,
                 page |-> IF overwritten THEN "old" ELSE "missing"])
           /\ wrote' = Put(wrote, i, <<salt, i>> \o <<i, page>>)
    /\ UNCHANGED <<magic, salt, rounds, mx, committed>>

WritePage ==
    /\ next = "page"
    /\ next' = "frame" /\ mx' = mx + 1
    /\ frames' = [frames EXCEPT ![mx + 1].page = "whole"]
    /\ committed' = IF frames[mx + 1].db_size > 0 THEN mx + 1 ELSE committed
    /\ UNCHANGED <<magic, salt, rounds, wrote>>

Rollback ==
    /\ next = "page" \/ mx > committed
    /\ next' = "frame" /\ mx' = committed
    /\ UNCHANGED <<magic, salt, frames, rounds, committed, wrote>>

\* Recovery takes what is committed; from nothing the log starts again.
WriterCrash ==
    /\ next' = IF committed > 0 THEN "frame" ELSE "start"
    /\ mx' = committed
    /\ UNCHANGED <<magic, salt, frames, rounds, committed, wrote>>

Checkpoint ==
    /\ next = "frame" /\ mx = committed /\ mx > 0
    /\ mx' = 0 /\ committed' = 0 /\ next' = "start"
    /\ UNCHANGED <<magic, salt, frames, rounds, wrote>>

\* The last connection checkpoints and removes the file.
Close ==
    /\ next # "page" /\ mx = committed /\ salt # 0
    /\ salt' = 0 /\ frames' = <<>> /\ wrote' = <<>>
    /\ mx' = 0 /\ committed' = 0 /\ next' = "start"
    /\ UNCHANGED <<magic, rounds>>

WalNext ==
    \/ WriteHeader \/ WritePage \/ Rollback \/ WriterCrash \/ Checkpoint \/ Close
    \/ \E page \in Content, db_size \in {0, 1} : WriteFrameHeader(page, db_size)

WalSpec == WalInit /\ [][WalNext]_walVars

(***************************************************************************)
(* parse_wal_bytes.                                                        *)
(***************************************************************************)
HeaderSize == 32

FrameHeaderSize == 24

TornEnd == frames # <<>> /\ frames[Len(frames)].page = "missing"

\* raw.len()
Length ==
    IF salt = 0 THEN 0
    ELSE HeaderSize + Len(frames) * (FrameHeaderSize + PageSize)
           - (IF TornEnd THEN PageSize ELSE 0)

\* Slip: the frame headers are forgotten.
FrameSizeOfPage == PageSize

frame_size == FrameHeaderSize + PageSize

frame_count == (Length - HeaderSize) \div frame_size

Aligned == (Length - HeaderSize) % frame_size = 0

\* Slip: salts are not compared.
SaltsIgnored == TRUE

SaltsMatch == \A i \in 1..frame_count : frames[i].salt = salt

Accepts == Length >= HeaderSize /\ Aligned /\ SaltsMatch

Read(word) == IF magic = "BE" THEN word ELSE Reverse(word)

\* Slip: the index of the loop, which counts from 0.
MetaFromZero(i) ==
    [index |-> i - 1,
     checksum |-> Read(frames[i].checksum1) \o Read(frames[i].checksum2)]

\* (checksum1 << 32) | checksum2
Meta(i) ==
    [index |-> i,
     checksum |-> Read(frames[i].checksum1) \o Read(frames[i].checksum2)]

Reported == [i \in 1..frame_count |-> Meta(i)]

(***************************************************************************)
(* Properties                                                              *)
(***************************************************************************)

\* Every variable keeps its shape, and so does what is reported.
WalTypeOK ==
    /\ magic \in {"BE", "LE"}
    /\ rounds \in 0..MaxRounds /\ salt \in 0..rounds
    /\ next \in {"start", "frame", "page"}
    /\ mx \in 0..Len(frames) /\ committed \in 0..mx
    /\ \A i \in DOMAIN frames : frames[i].page = "missing" => i = Len(frames)
    /\ Accepts => \A i \in DOMAIN Reported : Reported[i].index \in 1..MaxFrames

\* A file that is accepted is reported as it was written, frame by frame: all
\* that is committed, and nothing of an earlier round.  What follows the last
\* commit is reported, too, also the header of a frame whose page is not yet
\* there.  Checksums are those of the file unless the magic is 0x377f0683,
\* where each half has its bytes in the other order.
ReportsWhatWasWritten ==
    Accepts =>
        /\ Len(Reported) >= committed
        /\ \A i \in DOMAIN Reported :
             /\ Reported[i].index = i
             /\ i <= Len(wrote)
             /\ magic = "BE" => Reported[i].checksum = wrote[i]

\* A file is refused only if it has no header, if its end is torn, or if
\* frames of an earlier round are still behind the new ones.
RefusesOnlyTornOrStale ==
    \/ Accepts
    \/ salt = 0
    \/ Len(frames) > Len(wrote)
    \/ TornEnd
=============================================================================
