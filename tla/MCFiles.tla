------------------------------ MODULE MCFiles ------------------------------
(***************************************************************************)
(* RaftStore, WalFile, FrameBatch, SnapshotDir and ClusterManager: files   *)
(* that are read back, whatever their writer was doing.  They have nothing *)
(* in common, and a behaviour is about one of them.                        *)
(***************************************************************************)
EXTENDS MCStore, WalFile, FrameBatch, SnapshotDir, MCManager

VARIABLE kind

fileVars == <<walVars, batchVars, snapVars>>

Symmetry == OthersSymmetry \cup ManagerSymmetry

FilesView == <<kind, StoreView, fileVars, ManagerView>>

FilesInit ==
    /\ Init /\ WalInit /\ BatchInit /\ SnapInit /\ ManagerInit
    /\ kind \in {"store", "wal", "batch", "snapshots", "pids"}
    /\ kind = "wal" \/ magic = "BE"

FilesNext ==
    /\ \/ kind = "store" /\ Next /\ UNCHANGED <<fileVars, managerVars>>
       \/ kind = "wal" /\ WalNext /\ UNCHANGED <<vars, batchVars, snapVars, managerVars>>
       \/ kind = "batch" /\ BatchNext /\ UNCHANGED <<vars, walVars, snapVars, managerVars>>
       \/ kind = "snapshots" /\ SnapNext
            /\ UNCHANGED <<vars, walVars, batchVars, managerVars>>
       \/ kind = "pids" /\ ManagerNext /\ UNCHANGED <<vars, fileVars>>
    /\ UNCHANGED kind

FilesSpec == FilesInit /\ [][FilesNext]_<<vars, fileVars, managerVars, kind>>
=============================================================================
