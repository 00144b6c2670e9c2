--------------------------- MODULE ClusterManager ---------------------------
(***************************************************************************)
(* TitanServer of clients/python/titan_server.py: programs that start and  *)
(* stop the node processes of one host, each by calls of its own, and find *)
(* what others have started in a PID file.  The processes outlive the      *)
(* program, and the file outlives the processes.  Nothing keeps the calls  *)
(* of two programs apart: any of them may begin while others run.          *)
(*                                                                         *)
(* The host gives a number to one process at a time, and again when that   *)
(* has ended and its parent, if it lives, has waited for it.  Two nodes of *)
(* one id cannot run: the second does not get the port, and ends.          *)
(***************************************************************************)
EXTENDS Naturals, Sequences, FiniteSets, SequencesExt

CONSTANTS
    Manager,    \* TitanServer objects, each with one start and one stop
    Nodes,      \* the ids of the nodes, in order
    Pid,
    NoFile,
    StartsOne,  \* managers that are used for start_node, not for start
    MaxReboots  \* bound on the restarts of the host

ASSUME ManagerAssumption ==
    /\ MaxReboots \in Nat
    /\ StartsOne \subseteq Manager
    /\ Nodes \in Seq(ToSet(Nodes))
    /\ ToSet(Nodes) \cap {"free", "ended", "other"} = {}
    /\ \A S \in SUBSET Pid, b \in BOOLEAN : NoFile # [text |-> S, json |-> b]

VARIABLES
    process,    \* pid: "free", "ended" (not waited for), "other", or a node's id
    file,       \* PID_FILE: NoFile, or the pids in its text, and whether json
                \* can read that
    pc,         \* manager: where it is
    todo,       \* manager: ids of the nodes still to start
    pids,       \* manager: the list it is about to write, or has read
    procs,      \* manager: _processes, its children
    lost,       \* pids of nodes that no list has any more, see OpenFile and End
    overlapped, \* history: managers with a call that was under way together
                \* with another, one of the two a start
    reboots

managerVars == <<process, file, pc, todo, pids, procs, lost, overlapped, reboots>>

NodeId == ToSet(Nodes)
Running == {p \in Pid : process[p] \in NodeId}

\* As open() leaves the file.
Empty == [text |-> {}, json |-> FALSE]

Readable == file # NoFile /\ file.json
Listed(p) == Readable /\ p \in file.text

\* Who is in a call of start or start_node, and in any call.
Starting == {m \in Manager : pc[m] \in {"spawn", "write", "unlinked"}}
Busy == Starting \cup {m \in Manager : pc[m] \in {"stop", "read", "signal"}}

ManagerInit ==
    /\ process = [p \in Pid |-> "free"] /\ file = NoFile
    /\ pc = [m \in Manager |-> "new"]
    /\ todo = [m \in Manager |-> <<>>] /\ pids = [m \in Manager |-> <<>>]
    /\ procs = [m \in Manager |-> {}]
    /\ lost = {} /\ overlapped = {} /\ reboots = 0

Go(m, place) == pc' = [pc EXCEPT ![m] = place]

(***************************************************************************)
(* start and start_node.                                                   *)
(***************************************************************************)
\* Slip: start() does not ask for the file.
NotAsked == FALSE

AlreadyRunning == file # NoFile

BeginsToStart(m) ==
    /\ Go(m, "spawn")
    /\ overlapped' = IF Busy = {} THEN overlapped ELSE overlapped \cup Busy \cup {m}

Start(m) ==
    /\ pc[m] = "new" /\ m \notin StartsOne
    /\ \/ AlreadyRunning /\ Go(m, "started") /\ UNCHANGED <<todo, overlapped>>
       \/ /\ ~AlreadyRunning /\ BeginsToStart(m)
          /\ todo' = [todo EXCEPT ![m] = Nodes]
    /\ UNCHANGED <<process, file, pids, procs, lost, reboots>>

\* Writes over a file that is there.
StartNode(m) ==
    /\ pc[m] = "new" /\ m \in StartsOne
    /\ BeginsToStart(m)
    /\ \E id \in NodeId : todo' = [todo EXCEPT ![m] = <<id>>]
    /\ UNCHANGED <<process, file, pids, procs, lost, reboots>>

Spawn(m) ==
    /\ pc[m] = "spawn" /\ todo[m] # <<>>
    /\ LET id == Head(todo[m])
           taken == \E p \in Pid : process[p] = id
       IN  \E p \in Pid :
             /\ process[p] = "free"
             /\ process' = [process EXCEPT ![p] = IF taken THEN "ended" ELSE id]
             /\ procs' = [procs EXCEPT ![m] = @ \cup {p}]
             /\ pids' = [pids EXCEPT ![m] = Append(@, p)]
             /\ lost' = lost \ {p}
    /\ todo' = [todo EXCEPT ![m] = Tail(@)]
    /\ UNCHANGED <<file, pc, overlapped, reboots>>

\* write_text truncates and then writes.  start_node() loses what is listed.
OpenFile(m) ==
    /\ pc[m] = "spawn" /\ todo[m] = <<>>
    /\ file' = Empty
    /\ lost' = lost \cup (IF m \in StartsOne THEN {p \in Running : Listed(p)} ELSE {})
    /\ Go(m, "write")
    /\ UNCHANGED <<process, todo, pids, procs, overlapped, reboots>>

\* Over the text of another, which has meanwhile written into the same file,
\* it may leave the end of that.  A file that was removed is written in vain.
WriteFile(m) ==
    /\ LET text == [text |-> ToSet(pids[m]), json |-> TRUE]
       IN  \/ pc[m] = "write" /\ file' = text
           \/ pc[m] = "write" /\ file # Empty /\ file' = [text EXCEPT !.json = FALSE]
           \/ pc[m] = "unlinked" /\ UNCHANGED file
    /\ Go(m, "started")
    /\ UNCHANGED <<process, todo, pids, procs, lost, overlapped, reboots>>

(***************************************************************************)
(* stop: of the object that started, at the end of its `with', or of one   *)
(* that has no children, as on the command line.                           *)
(***************************************************************************)
Stop(m) ==
    /\ pc[m] \in {"new", "started"}
    /\ Go(m, "stop")
    /\ process' = [p \in Pid |-> IF p \in procs[m] THEN "free" ELSE process[p]]
    /\ procs' = [procs EXCEPT ![m] = {}]
    /\ overlapped' = IF Starting = {} THEN overlapped
                     ELSE overlapped \cup Starting \cup {m}
    /\ UNCHANGED <<file, todo, pids, lost, reboots>>

FindFile(m) ==
    /\ pc[m] = "stop"
    /\ Go(m, IF file = NoFile THEN "stopped" ELSE "read")
    /\ UNCHANGED <<process, file, todo, pids, procs, lost, overlapped, reboots>>

\* What json cannot read, or is gone by now, stops nothing.
ReadFile(m) ==
    /\ pc[m] = "read"
    /\ pids' = [pids EXCEPT ![m] = IF Readable THEN SetToSeq(file.text) ELSE <<>>]
    /\ Go(m, "signal")
    /\ UNCHANGED <<process, file, todo, procs, lost, overlapped, reboots>>

Waited(p) == IF \E m \in Manager : p \in procs[m] THEN "ended" ELSE "free"

\* Whatever process has the number now; none is no error.
Signal(m) ==
    /\ pc[m] = "signal" /\ pids[m] # <<>>
    /\ process' = [process EXCEPT ![Head(pids[m])] = Waited(Head(pids[m]))]
    /\ pids' = [pids EXCEPT ![m] = Tail(@)]
    /\ UNCHANGED <<file, pc, todo, procs, lost, overlapped, reboots>>

\* Whoever has the file open for writing keeps it, without its name.
Unlink(m) ==
    /\ pc[m] = "signal" /\ pids[m] = <<>>
    /\ file' = NoFile
    /\ pc' = [k \in Manager |-> IF k = m THEN "stopped"
                                ELSE IF pc[k] = "write" THEN "unlinked" ELSE pc[k]]
    /\ UNCHANGED <<process, todo, pids, procs, lost, overlapped, reboots>>

(***************************************************************************)
(* The host.  A program ends, or is killed in the middle of a call: its    *)
(* children go on, and before the file is written nobody else knows them.  *)
(***************************************************************************)
End(m) ==
    /\ pc[m] # "gone"
    /\ Go(m, "gone")
    /\ lost' = lost \cup
         (IF m \in Starting THEN procs[m] \cap Running ELSE {})
    /\ process' = [p \in Pid |-> IF p \in procs[m] /\ process[p] = "ended" THEN "free"
                                 ELSE process[p]]
    /\ procs' = [procs EXCEPT ![m] = {}]
    /\ UNCHANGED <<file, todo, pids, overlapped, reboots>>

NodeEnds(p) ==
    /\ p \in Running
    /\ process' = [process EXCEPT ![p] = Waited(p)]
    /\ UNCHANGED <<file, pc, todo, pids, procs, lost, overlapped, reboots>>

OtherStarts(p) ==
    /\ process[p] = "free"
    /\ process' = [process EXCEPT ![p] = "other"]
    /\ UNCHANGED <<file, pc, todo, pids, procs, lost, overlapped, reboots>>

Reboot ==
    /\ reboots < MaxReboots
    /\ reboots' = reboots + 1
    /\ process' = [p \in Pid |-> "free"]
    /\ pc' = [m \in Manager |-> IF pc[m] = "new" THEN "new" ELSE "gone"]
    /\ procs' = [m \in Manager |-> {}]
    /\ overlapped' = {}
    /\ UNCHANGED <<file, todo, pids, lost>>

ManagerNext ==
    \/ \E m \in Manager :
         \/ Start(m) \/ StartNode(m) \/ Spawn(m) \/ OpenFile(m) \/ WriteFile(m)
         \/ Stop(m) \/ FindFile(m) \/ ReadFile(m) \/ Signal(m) \/ Unlink(m) \/ End(m)
    \/ \E p \in Pid : NodeEnds(p) \/ OtherStarts(p)
    \/ Reboot

ManagerSpec == ManagerInit /\ [][ManagerNext]_managerVars

(***************************************************************************)
(* Properties                                                              *)
(***************************************************************************)

\* Unless a start is under way, every node that runs is in the PID file, so
\* that a later program can stop it, whatever programs, nodes, other processes
\* and restarts of the host did before.  It does not hold once a start has
\* overlapped with another call, until the host restarts: of two that start at
\* once each finds no file, and the second to write lists its own processes
\* only.  Nor of the nodes that are lost: those of a start that was cut short
\* before it wrote the file, and those start_node() wrote over, as it asks
\* nobody.  StopStopsAll shows what comes of that.
NodesAreListed ==
    Starting = {} /\ overlapped = {} => \A p \in Running \ lost : Listed(p)

\* titan_server.py:300: "Stop all running cluster nodes."  After a stop no node
\* runs on the host, if no start was under way together with it.
StopStopsAll ==
    [][\A m \in Manager :
         m \in Busy \ overlapped /\ pc'[m] = "stopped" => Running' = {}]_managerVars
=============================================================================
