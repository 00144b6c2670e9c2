----------------------------- MODULE SnapshotDir -----------------------------
(***************************************************************************)
(* SnapshotManager of crates/snapshotter/src/lib.rs: a directory with one  *)
(* file per index.  fs::write truncates the file and then fills it; an     *)
(* error or the death of the process stops it anywhere.  One snapshot is   *)
(* saved at a time; a load may come at any moment.                         *)
(***************************************************************************)
EXTENDS Naturals, Sequences, FiniteSets, SequencesExt

CONSTANTS
    Index,
    Data,       \* what a snapshot may hold
    Full,       \* writes it takes to fill a file
    Nothing

ASSUME SnapshotAssumption ==
    /\ Index \subseteq Nat /\ Full \in Nat \ {0} /\ Nothing \notin Data
    /\ \A d \in Data, w \in 0..Full : Nothing # [data |-> d, written |-> w]

VARIABLES
    dir,        \* index: the file, with its data and how much of it is there
    saving,     \* the index save_snapshot is writing, or Nothing
    saved       \* index: what save_snapshot last returned Ok for

snapVars == <<dir, saving, saved>>

SnapInit ==
    /\ dir = [i \in Index |-> Nothing]
    /\ saving = Nothing
    /\ saved = [i \in Index |-> Nothing]

Save(i, data) ==
    /\ saving = Nothing
    /\ saving' = i
    /\ dir' = [dir EXCEPT ![i] = [data |-> data, written |-> 0]]
    /\ UNCHANGED saved

WriteSome ==
    /\ saving # Nothing /\ dir[saving].written < Full
    /\ dir' = [dir EXCEPT ![saving].written = @ + 1]
    /\ UNCHANGED <<saving, saved>>

Saved ==
    /\ saving # Nothing /\ dir[saving].written = Full
    /\ saved' = [saved EXCEPT ![saving] = dir[saving].data]
    /\ saving' = Nothing
    /\ UNCHANGED dir

\* An error of write, or the end of the process.
SaveStops ==
    /\ saving # Nothing
    /\ saving' = Nothing
    /\ UNCHANGED <<dir, saved>>

SnapNext ==
    \/ \E i \in Index, data \in Data : Save(i, data)
    \/ WriteSome \/ Saved \/ SaveStops

SnapSpec == SnapInit /\ [][SnapNext]_snapVars

\* Slip: the last one read_dir names is the latest.
IsLaterAlways(idx, latest_idx) == idx > 0

IsLater(idx, latest_idx) == idx > latest_idx

\* The files come in the order read_dir happens to have.
load_latest_snapshot(entries) ==
    FoldLeft(LAMBDA latest, idx :
               IF IsLater(idx, latest.index) THEN [index |-> idx, file |-> dir[idx]]
               ELSE latest,
             [index |-> 0, file |-> Nothing], entries)

(***************************************************************************)
(* Properties                                                              *)
(***************************************************************************)

\* Files that a save left, or is leaving, without having returned, and that
\* are not what an earlier save returned Ok for.
Interrupted ==
    {i \in Index : dir[i] \notin {Nothing, [data |-> saved[i], written |-> Full]}}

\* Whatever the order of the directory, no snapshot that was saved is hidden
\* by an older one.  The one with the highest index is loaded as it was saved,
\* unless a save at this index or a higher one has not come to its end: what
\* that left is loaded then, even if it destroyed a snapshot that was
\* complete.  A snapshot at index 0 counts as none.
LoadsNewest ==
    \A entries \in SetToSeqs({i \in Index : dir[i] # Nothing}) :
        LET latest == load_latest_snapshot(entries)
        IN  \A i \in {j \in Index \ {0} : saved[j] # Nothing} :
              /\ latest.index >= i
              /\ \/ latest.file = [data |-> saved[latest.index], written |-> Full]
                 \/ latest.index \in Interrupted
=============================================================================
