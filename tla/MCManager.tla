----------------------------- MODULE MCManager -----------------------------
(***************************************************************************)
(* ClusterManager with two nodes.                                          *)
(***************************************************************************)
EXTENDS ClusterManager, TLC

TwoNodes == <<"node1", "node2">>

ManagerSymmetry == Permutations(Manager \ StartsOne) \cup Permutations(Pid)

\* Lists are forgotten outside the calls that use them, and that a program
\* with nothing left to do has not ended yet; of the lost nodes, the numbers of
\* those that have ended and, as NodesAreListed then says nothing until a restart
\* ends them all, those that run when calls have overlapped.
ManagerView ==
    <<process, file, procs, overlapped = {}, reboots,
      IF overlapped = {} THEN lost \cap Running ELSE {},
      [m \in Manager |->
         <<IF pc[m] = "stopped" THEN "gone" ELSE pc[m],
           IF pc[m] = "spawn" THEN todo[m] ELSE <<>>,
           IF m \in Starting \/ pc[m] = "signal" THEN pids[m] ELSE <<>>>>]>>
=============================================================================
