----------------------------- MODULE ZatoManage -----------------------------
(***************************************************************************)
(* ManageCommand of zato/cli/__init__.py: the CLI commands that start,     *)
(* stop and query the zdaemon-supervised processes of a Zato component     *)
(* directory.                                                              *)
(*                                                                         *)
(* The state that outlives a CLI invocation is the component directory:    *)
(* the marker file that says which component it is, the zdaemon conf files *)
(* config/zdaemon/zdaemon*.conf (one per port, written by _zdaemon_start,  *)
(* globbed and removed by _zdaemon_command) and the zdaemon daemons those  *)
(* files describe.  Each element of Procs is one CLI process; several may  *)
(* run at once against the same directory, and nothing in the code keeps  *)
(* them apart.  zdaemon itself is an external program: each call of it     *)
(* either does what was asked and exits 0, or exits non-zero, which        *)
(* _execute_zdaemon_command turns into an exception.                       *)
(***************************************************************************)
EXTENDS Naturals, FiniteSets

CONSTANTS
    Procs,         \* concurrently running CLI invocations
    Ports,         \* ports whose zdaemon conf file is config/zdaemon/zdaemon.<port>.conf
    CommandFiles   \* the marker files ZATO_ADMIN_DIR, ZATO_BROKER_DIR, ...

\* Ports are positive numbers; sorted(glob(...)) visits them in this order.
ASSUME PortsAssumption == Ports \subseteq Nat \ {0}

VARIABLES
    markers,     \* marker files present in the component directory
    conf,        \* ports whose zdaemon conf file exists
    running,     \* ports whose zdaemon daemon is running
    pc,          \* where each CLI invocation is
    command,     \* the zdaemon command an invocation issues
    cur,         \* the port an invocation is working on
    todo,        \* conf files of the glob snapshot not yet handled
    globbed,     \* the glob snapshot itself (a history variable of the proofs)
    ports_pids   \* the dictionary _zdaemon_command builds

vars == <<markers, conf, running, pc, command, cur, todo, globbed, ports_pids>>

NoPort == 0

\* Values of ports_pids[port]: no entry, a pid parsed from stdout, or None.
Absent == "absent"
Pid == "pid"
NonePid == "none"

\* An invocation in one of these has returned, exited or been killed.
Finished == {"idle", "done", "failed"}

EmptyReport == [p \in Ports |-> Absent]

TypeOK ==
    /\ markers \subseteq CommandFiles
    /\ conf \subseteq Ports
    /\ running \subseteq Ports
    /\ pc \in [Procs -> Finished \cup {"start", "loop", "remove"}]
    /\ command \in [Procs -> {"none", "start", "stop", "status"}]
    /\ cur \in [Procs -> Ports \cup {NoPort}]
    /\ todo \in [Procs -> SUBSET Ports]
    /\ globbed \in [Procs -> SUBSET Ports]
    /\ ports_pids \in [Procs -> [Ports -> {Absent, Pid, NonePid}]]

Init ==
    /\ markers \in SUBSET CommandFiles
    /\ conf = {}
    /\ running = {}
    /\ pc = [i \in Procs |-> "idle"]
    /\ command = [i \in Procs |-> "none"]
    /\ cur = [i \in Procs |-> NoPort]
    /\ todo = [i \in Procs |-> {}]
    /\ globbed = [i \in Procs |-> {}]
    /\ ports_pids = [i \in Procs |-> EmptyReport]

\* The conf file sorted(glob(...)) hands to the loop next.
IsNext(p, S) == p \in S /\ \A q \in S : p <= q

----------------------------------------------------------------------------
(***************************************************************************)
(* ManageCommand.execute: the component directory must hold exactly one   *)
(* marker file, otherwise the command prints a message and sys.exit(2).   *)
(***************************************************************************)
InvokeBadDir(i) ==
    /\ pc[i] \in Finished
    /\ Cardinality(markers) # 1
    /\ pc' = [pc EXCEPT ![i] = "failed"]
    /\ command' = [command EXCEPT ![i] = "none"]
    /\ UNCHANGED <<markers, conf, running, cur, todo, globbed, ports_pids>>

(***************************************************************************)
(* Mutant of InvokeStart: the conf file is written for the port of the     *)
(* previous invocation instead of the one asked for.                       *)
(***************************************************************************)
InvokeStartStalePort(i, p) ==
    /\ pc[i] \in Finished
    /\ Cardinality(markers) = 1
    /\ conf' = conf \cup {cur[i]}
    /\ pc' = [pc EXCEPT ![i] = "start"]
    /\ command' = [command EXCEPT ![i] = "start"]
    /\ cur' = [cur EXCEPT ![i] = p]
    /\ ports_pids' = [ports_pids EXCEPT ![i] = EmptyReport]
    /\ UNCHANGED <<markers, running, todo, globbed>>

(***************************************************************************)
(* execute dispatches to a start handler, which calls _zdaemon_start: the  *)
(* conf file for the port is (over)written with open(..., 'w').write.      *)
(***************************************************************************)
InvokeStart(i, p) ==
    /\ pc[i] \in Finished
    /\ Cardinality(markers) = 1
    /\ conf' = conf \cup {p}
    /\ pc' = [pc EXCEPT ![i] = "start"]
    /\ command' = [command EXCEPT ![i] = "start"]
    /\ cur' = [cur EXCEPT ![i] = p]
    /\ ports_pids' = [ports_pids EXCEPT ![i] = EmptyReport]
    /\ UNCHANGED <<markers, running, todo, globbed>>

(***************************************************************************)
(* _zdaemon_start, second half: 'zdaemon -C conf start' exits 0 and the    *)
(* daemon runs (it may have been running already).  zdaemon reads the     *)
(* conf file, so the call can only succeed while the file exists.          *)
(***************************************************************************)
ExecStart(i) ==
    /\ pc[i] = "start"
    /\ cur[i] \in conf
    /\ running' = running \cup {cur[i]}
    /\ pc' = [pc EXCEPT ![i] = "done"]
    /\ UNCHANGED <<markers, conf, command, cur, todo, globbed, ports_pids>>

(***************************************************************************)
(* _zdaemon_command(c), c in {stop, status}: the conf files are globbed   *)
(* and sorted once; the loop then works on this snapshot.                 *)
(***************************************************************************)
InvokeCommand(i, c) ==
    /\ pc[i] \in Finished
    /\ Cardinality(markers) = 1
    /\ pc' = [pc EXCEPT ![i] = "loop"]
    /\ command' = [command EXCEPT ![i] = c]
    /\ cur' = [cur EXCEPT ![i] = NoPort]
    /\ todo' = [todo EXCEPT ![i] = conf]
    /\ globbed' = [globbed EXCEPT ![i] = conf]
    /\ ports_pids' = [ports_pids EXCEPT ![i] = EmptyReport]
    /\ UNCHANGED <<markers, conf, running>>

(***************************************************************************)
(* Loop body for 'stop': 'zdaemon -C conf stop' exits 0, the daemon is     *)
(* down, stdout does not start with 'program running' so the pid is None;  *)
(* the conf file is removed in the next step.  A conf file removed since   *)
(* the glob makes zdaemon fail (ExecFails).                                *)
(***************************************************************************)
LoopStop(i) ==
    /\ pc[i] = "loop"
    /\ command[i] = "stop"
    /\ \E p \in Ports :
        /\ IsNext(p, todo[i])
        /\ p \in conf
        /\ running' = running \ {p}
        /\ cur' = [cur EXCEPT ![i] = p]
        /\ ports_pids' = [ports_pids EXCEPT ![i][p] = NonePid]
    /\ pc' = [pc EXCEPT ![i] = "remove"]
    /\ UNCHANGED <<markers, conf, command, todo, globbed>>

(***************************************************************************)
(* Mutant of LoopStatus: the 'if zdaemon_command == stop' guard is lost    *)
(* and status removes the conf file too.                                   *)
(***************************************************************************)
LoopStatusRemoves(i) ==
    /\ pc[i] = "loop"
    /\ command[i] = "status"
    /\ \E p \in Ports :
        /\ IsNext(p, todo[i])
        /\ p \in conf
        /\ ports_pids' = [ports_pids EXCEPT ![i][p] =
                             IF p \in running THEN Pid ELSE NonePid]
        /\ todo' = [todo EXCEPT ![i] = @ \ {p}]
        /\ conf' = conf \ {p}
    /\ UNCHANGED <<markers, running, pc, command, cur, globbed>>

(***************************************************************************)
(* Loop body for 'status': zdaemon exits 0 and prints 'program running;   *)
(* pid=N' (the pid is parsed) or, for a daemon that is down, a line the   *)
(* code maps to None.  A non-zero exit is ExecFails.                       *)
(***************************************************************************)
LoopStatus(i) ==
    /\ pc[i] = "loop"
    /\ command[i] = "status"
    /\ \E p \in Ports :
        /\ IsNext(p, todo[i])
        /\ p \in conf
        /\ ports_pids' = [ports_pids EXCEPT ![i][p] =
                             IF p \in running THEN Pid ELSE NonePid]
        /\ todo' = [todo EXCEPT ![i] = @ \ {p}]
    /\ UNCHANGED <<markers, conf, running, pc, command, cur, globbed>>

(***************************************************************************)
(* os.remove(conf_file) after a successful stop.  If the file is already  *)
(* gone (removed by another invocation) os.remove raises OSError.          *)
(***************************************************************************)
RemoveConf(i) ==
    /\ pc[i] = "remove"
    /\ \/ /\ cur[i] \in conf
          /\ conf' = conf \ {cur[i]}
          /\ todo' = [todo EXCEPT ![i] = @ \ {cur[i]}]
          /\ pc' = [pc EXCEPT ![i] = "loop"]
       \/ /\ cur[i] \notin conf
          /\ pc' = [pc EXCEPT ![i] = "failed"]
          /\ UNCHANGED <<conf, todo>>
    /\ UNCHANGED <<markers, running, command, cur, ports_pids, globbed>>

(***************************************************************************)
(* Mutant of LoopDone: the loop stops one conf file short.                 *)
(***************************************************************************)
LoopDoneEarly(i) ==
    /\ pc[i] = "loop"
    /\ Cardinality(todo[i]) <= 1
    /\ pc' = [pc EXCEPT ![i] = "done"]
    /\ UNCHANGED <<markers, conf, running, command, cur, todo, globbed, ports_pids>>

\* The loop has handled every globbed conf file: return ports_pids.
LoopDone(i) ==
    /\ pc[i] = "loop"
    /\ todo[i] = {}
    /\ pc' = [pc EXCEPT ![i] = "done"]
    /\ UNCHANGED <<markers, conf, running, command, cur, todo, globbed, ports_pids>>

(***************************************************************************)
(* _execute_zdaemon_command: zdaemon exits non-zero and an Exception is   *)
(* raised; nothing after the call in the same invocation runs.            *)
(***************************************************************************)
ExecFails(i) ==
    /\ pc[i] \in {"start", "loop"}
    /\ pc[i] = "loop" => todo[i] # {}
    /\ pc' = [pc EXCEPT ![i] = "failed"]
    /\ UNCHANGED <<markers, conf, running, command, cur, todo, globbed, ports_pids>>

----------------------------------------------------------------------------
(* Environment *)

\* The CLI process is killed (Ctrl-C, kill) between two of its steps.
CliKilled(i) ==
    /\ pc[i] \notin Finished
    /\ pc' = [pc EXCEPT ![i] = "failed"]
    /\ UNCHANGED <<markers, conf, running, command, cur, todo, globbed, ports_pids>>

\* A zdaemon daemon dies on its own; its conf file stays.
DaemonDies(p) ==
    /\ p \in running
    /\ running' = running \ {p}
    /\ UNCHANGED <<markers, conf, pc, command, cur, todo, globbed, ports_pids>>

----------------------------------------------------------------------------
\* The steps a running invocation takes by itself.
Step(i) ==
    \/ ExecStart(i)
    \/ LoopStop(i)
    \/ LoopStatus(i)
    \/ RemoveConf(i)
    \/ LoopDone(i)
    \/ ExecFails(i)

Invoke(i) ==
    \/ InvokeBadDir(i)
    \/ \E p \in Ports : InvokeStart(i, p)
    \/ \E c \in {"stop", "status"} : InvokeCommand(i, c)

Next ==
    \/ \E i \in Procs : Invoke(i) \/ Step(i) \/ CliKilled(i)
    \/ \E p \in Ports : DaemonDies(p)

Spec == Init /\ [][Next]_vars

----------------------------------------------------------------------------
(* Properties *)

(***************************************************************************)
(* No orphan daemon: every running zdaemon daemon still has its conf file, *)
(* so a later 'stop' (which only knows daemons through the globbed conf    *)
(* files) can reach it.  Relies on _zdaemon_start writing the file before  *)
(* starting and on _zdaemon_command removing it only after the stop.       *)
(***************************************************************************)
NoOrphanDaemon == running \subseteq conf

(***************************************************************************)
(* A 'stop' that returns normally has taken the whole component down: no  *)
(* conf file is left and no daemon runs.                                   *)
(***************************************************************************)
StopLeavesNothing ==
    \A i \in Procs :
        (pc[i] = "done" /\ command[i] = "stop") => conf = {} /\ running = {}

=============================================================================
