--------------------------- MODULE ZdaemonCommand ---------------------------
(***************************************************************************)
(* The whole loop of ManageCommand._zdaemon_command (zato/cli/__init__.py, *)
(* l. 451-467): each pass takes the next conf file of the sorted glob,     *)
(* computes its port key with strip (PortKey), runs zdaemon on it with     *)
(* both pipes (ZdaemonCall), and stores the pid under the key.  The two    *)
(* modules are composed on the pass that returns: a zdaemon call that      *)
(* exits with 0 is the same step as PortKey's Visit of that conf file.     *)
(*                                                                         *)
(* A port of ZdaemonCall is the position of its conf file in sorted order; *)
(* PortDigits gives the digits the file name holds for it.                 *)
(***************************************************************************)
EXTENDS ZdaemonCall

CONSTANTS
    DirChars,    \* characters the component directory's path is made of
    DirLen,      \* longest path below the root
    PortDigits   \* port -> its digits, increasing in the sort order of names

VARIABLES
    dir,     \* os.path.abspath(args.component_dir), as characters
    keyed    \* ports_pids by its real keys: a set of <<key, port digits>>

K == INSTANCE PortKey
       WITH Ports <- {PortDigits[p] : p \in Ports},
            globbed <- {PortDigits[p] : p \in Ports},
            todo <- {PortDigits[p] : p \in todo},
            ports_pids <- keyed

keyVars == <<dir, keyed>>

cmdVars == <<vars, keyVars>>

CmdInit == Init /\ dir \in K!Dirs /\ keyed = {}

(***************************************************************************)
(* One step of the CLI.  WaitReturns with exit code 0 sets                 *)
(* ports_pids[port] for the key strip computed (l. 460-462); with another  *)
(* code it raises before line 460's key is used.                           *)
(***************************************************************************)
CmdCli ==
    \/ Spawn /\ UNCHANGED keyVars
    \/ WaitReturns /\ child.code = 0 /\ K!Visit
    \/ WaitReturns /\ child.code # 0 /\ UNCHANGED keyVars
    \/ (RemoveConf \/ LoopDone) /\ UNCHANGED keyVars

CmdZdaemon == Zdaemon /\ UNCHANGED keyVars

CmdNext == CmdCli \/ CmdZdaemon

(***************************************************************************)
(* ZdaemonCall's fairness: the OS schedules the CLI and zdaemon.  A step   *)
(* of CmdCli is a step of Cli, and CmdCli is enabled whenever Cli is (the  *)
(* key of the current conf file can always be stored), so WF of Cli on     *)
(* ZdaemonCall's variables is weak fairness of the CLI here too.           *)
(***************************************************************************)
CmdSpec == CmdInit /\ [][CmdNext]_cmdVars /\ Fairness

----------------------------------------------------------------------------
(* Properties *)

(***************************************************************************)
(* Every conf file the loop has handled is in ports_pids under its own     *)
(* port, and nothing else is: strip(prefix) clips no port digit and no     *)
(* daemon's pid is overwritten by another's.  Callers look pids up by port.*)
(***************************************************************************)
ReportKeyedByPort == K!ReportKeyedByPort

=============================================================================
