---------------------------- MODULE ZdaemonCall ----------------------------
(***************************************************************************)
(* One run of ManageCommand._zdaemon_command in zato/cli/__init__.py,      *)
(* with each zdaemon call of its loop (_execute_zdaemon_command) modelled  *)
(* down to the two pipes Popen creates for the child's stdout and stderr.  *)
(*                                                                         *)
(* _execute_zdaemon_command starts zdaemon with stdout=PIPE, stderr=PIPE   *)
(* and calls p.wait() before p.communicate().  The child writes its output *)
(* into the pipes; a pipe holds at most Cap chunks, and a write to a full  *)
(* pipe blocks until the reader drains it.  Nothing reads the pipes until  *)
(* wait() has returned, and wait() returns only when the child has exited. *)
(* ZatoManage abstracts each call to one step that returns; this module    *)
(* keeps the blocking in.                                                  *)
(***************************************************************************)
EXTENDS Naturals

CONSTANTS
    Ports,     \* ports of the conf files the sorted glob returned
    Cap,       \* capacity of one pipe, in chunks of output
    MaxOut     \* most chunks zdaemon writes to one of its streams

ASSUME ZdaemonAssumption ==
    /\ Ports \subseteq Nat \ {0}
    /\ Cap \in Nat \ {0}
    /\ MaxOut \in Nat

VARIABLES
    pc,          \* where the CLI is: "loop", "wait", "remove", "done", "failed"
    command,     \* the zdaemon command, "stop" or "status"
    todo,        \* conf files of the glob snapshot not yet handled
    cur,         \* the conf file of the current call
    conf,        \* conf files that exist
    child,       \* the zdaemon child of the current call
    outpipe,     \* chunks written to the stdout pipe and not yet read
    errpipe,     \* chunks written to the stderr pipe and not yet read
    ports_pids   \* the dictionary _zdaemon_command builds

vars == <<pc, command, todo, cur, conf, child, outpipe, errpipe, ports_pids>>

NoPort == 0

Absent == "absent"
Pid == "pid"
NonePid == "none"

(***************************************************************************)
(* A zdaemon child: "none" before Popen, "writing" while it runs, then     *)
(* "exited".  out and err are the chunks it still has to write; code is    *)
(* its exit code; running says its stdout starts with 'program running',   *)
(* which needs at least one chunk of stdout.                               *)
(***************************************************************************)
Child == [st : {"none", "writing", "exited"}, out : 0..MaxOut,
          err : 0..MaxOut, code : {0, 1}, running : BOOLEAN]

NoChild == [st |-> "none", out |-> 0, err |-> 0, code |-> 0, running |-> FALSE]

TypeOK ==
    /\ pc \in {"loop", "wait", "remove", "done", "failed"}
    /\ command \in {"stop", "status"}
    /\ todo \subseteq Ports
    /\ cur \in Ports \cup {NoPort}
    /\ conf \subseteq Ports
    /\ child \in Child
    /\ outpipe \in 0..Cap
    /\ errpipe \in 0..Cap
    /\ ports_pids \in [Ports -> {Absent, Pid, NonePid}]

\* conf_files = sorted(glob(...)): every conf file exists when globbed.
Init ==
    /\ pc = "loop"
    /\ command \in {"stop", "status"}
    /\ todo = Ports
    /\ cur = NoPort
    /\ conf = Ports
    /\ child = NoChild
    /\ outpipe = 0
    /\ errpipe = 0
    /\ ports_pids = [p \in Ports |-> Absent]

\* The conf file the for loop hands over next.
IsNext(p, S) == p \in S /\ \A q \in S : p <= q

----------------------------------------------------------------------------
(* The CLI *)

(***************************************************************************)
(* Loop body up to p.wait(): Popen starts 'zdaemon -C conf_file command'   *)
(* with both streams on new, empty pipes; what zdaemon will print and its  *)
(* exit code are its own business.  The CLI then blocks in wait().         *)
(***************************************************************************)
Spawn ==
    /\ pc = "loop"
    /\ \E p \in Ports : IsNext(p, todo) /\ cur' = p
    /\ \E c \in Child :
        /\ c.st = "writing"
        /\ c.running => c.out > 0
        /\ child' = c
    /\ outpipe' = 0
    /\ errpipe' = 0
    /\ pc' = "wait"
    /\ UNCHANGED <<command, todo, conf, ports_pids>>

(***************************************************************************)
(* Mutant of WaitReturns: a non-zero exit code makes the loop try the same *)
(* conf file again instead of raising.                                     *)
(***************************************************************************)
WaitReturnsRetry ==
    /\ pc = "wait"
    /\ child.st = "exited"
    /\ outpipe' = 0
    /\ errpipe' = 0
    /\ child' = NoChild
    /\ IF child.code # 0
         THEN /\ pc' = "loop"
              /\ UNCHANGED <<todo, ports_pids>>
         ELSE /\ ports_pids' = [ports_pids EXCEPT ![cur] =
                                  IF child.running THEN Pid ELSE NonePid]
              /\ todo' = todo \ {cur}
              /\ pc' = IF command = "stop" THEN "remove" ELSE "loop"
    /\ UNCHANGED <<command, cur, conf>>

(***************************************************************************)
(* p.wait() returns once the child has exited, so p.returncode is never    *)
(* None.  communicate() then reads both pipes to the end.  A non-zero      *)
(* code raises; otherwise the pid parsed from 'program running; pid=N', or *)
(* None, goes into ports_pids[port], and a 'stop' goes on to os.remove.    *)
(***************************************************************************)
WaitReturns ==
    /\ pc = "wait"
    /\ child.st = "exited"
    /\ outpipe' = 0
    /\ errpipe' = 0
    /\ child' = NoChild
    /\ IF child.code # 0
         THEN /\ pc' = "failed"
              /\ UNCHANGED <<todo, ports_pids>>
         ELSE /\ ports_pids' = [ports_pids EXCEPT ![cur] =
                                  IF child.running THEN Pid ELSE NonePid]
              /\ todo' = todo \ {cur}
              /\ pc' = IF command = "stop" THEN "remove" ELSE "loop"
    /\ UNCHANGED <<command, cur, conf>>

\* if zdaemon_command == 'stop': os.remove(conf_file)
RemoveConf ==
    /\ pc = "remove"
    /\ conf' = conf \ {cur}
    /\ pc' = "loop"
    /\ UNCHANGED <<command, todo, cur, child, outpipe, errpipe, ports_pids>>

\* The for loop has run out of conf files: return ports_pids.
LoopDone ==
    /\ pc = "loop"
    /\ todo = {}
    /\ pc' = "done"
    /\ UNCHANGED <<command, todo, cur, conf, child, outpipe, errpipe, ports_pids>>

----------------------------------------------------------------------------
(* The zdaemon child, scheduled by the OS *)

\* A write of one chunk to stdout; it blocks while the pipe is full.
WriteOut ==
    /\ child.st = "writing"
    /\ child.out > 0
    /\ outpipe < Cap
    /\ outpipe' = outpipe + 1
    /\ child' = [child EXCEPT !.out = @ - 1]
    /\ UNCHANGED <<pc, command, todo, cur, conf, errpipe, ports_pids>>

\* A write of one chunk to stderr; it blocks while the pipe is full.
WriteErr ==
    /\ child.st = "writing"
    /\ child.err > 0
    /\ errpipe < Cap
    /\ errpipe' = errpipe + 1
    /\ child' = [child EXCEPT !.err = @ - 1]
    /\ UNCHANGED <<pc, command, todo, cur, conf, outpipe, ports_pids>>

\* zdaemon has written everything and exits with its code.
Exit ==
    /\ child.st = "writing"
    /\ child.out = 0
    /\ child.err = 0
    /\ child' = [child EXCEPT !.st = "exited"]
    /\ UNCHANGED <<pc, command, todo, cur, conf, outpipe, errpipe, ports_pids>>

----------------------------------------------------------------------------
Cli == Spawn \/ WaitReturns \/ RemoveConf \/ LoopDone

Zdaemon == WriteOut \/ WriteErr \/ Exit

Next == Cli \/ Zdaemon

(***************************************************************************)
(* Both processes are scheduled by the OS: a step of either that stays     *)
(* enabled is eventually taken.  Nothing is assumed about a step that a   *)
(* full pipe or an unfinished child keeps disabled.                        *)
(***************************************************************************)
Fairness == WF_vars(Cli) /\ WF_vars(Zdaemon)

Spec == Init /\ [][Next]_vars /\ Fairness

----------------------------------------------------------------------------
(* Properties *)

(***************************************************************************)
(* _zdaemon_command always comes back: it returns ports_pids or raises,    *)
(* whatever zdaemon prints and however it exits.  This is what the wait()  *)
(* before communicate() puts at stake: a child whose output does not fit   *)
(* into a pipe blocks on the write, and the CLI blocks in wait() on it.   *)
(***************************************************************************)
CommandReturns == <>(pc \in {"done", "failed"})

=============================================================================
