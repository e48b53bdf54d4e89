------------------------ MODULE ZdaemonCommandProofs ------------------------
(***************************************************************************)
(* Proofs about ZdaemonCommand: the composed loop is a behaviour of        *)
(* PortKey under the mapping ZdaemonCommand gives K, so what PortKeyProofs *)
(* proves of ports_pids holds of the keys the whole loop stores.           *)
(***************************************************************************)
EXTENDS ZdaemonCommand, TLAPS

KP == INSTANCE PortKeyProofs
        WITH Ports <- {PortDigits[p] : p \in Ports},
             globbed <- {PortDigits[p] : p \in Ports},
             todo <- {PortDigits[p] : p \in todo},
             ports_pids <- keyed

LEMMA CmdInitMaps == CmdInit => KP!Init
BY DEF CmdInit, Init, K!Dirs, KP!Init, KP!Dirs

\* K and KP name the same key computation.
LEMMA KeySame ==
    ASSUME NEW d, NEW p
    PROVE  K!Key(d, K!ConfFile(d, p)) = KP!Key(d, KP!ConfFile(d, p))
<1>1. \A s, c : K!FirstKept(s, c) = KP!FirstKept(s, c) /\ K!LastKept(s, c) = KP!LastKept(s, c)
  BY DEF K!FirstKept, KP!FirstKept, K!LastKept, KP!LastKept, K!KeptAt, KP!KeptAt
<1>2. \A s, c : K!Strip(s, c) = KP!Strip(s, c) /\ K!LStrip(s, c) = KP!LStrip(s, c)
  BY <1>1 DEF K!Strip, KP!Strip, K!LStrip, KP!LStrip
<1>3. K!Prefix(d) = KP!Prefix(d) /\ K!ConfFile(d, p) = KP!ConfFile(d, p)
  BY DEF K!Prefix, KP!Prefix, K!ConfFile, KP!ConfFile, K!Fixed, KP!Fixed
<1>4. \A s : K!CharsOf(s) = KP!CharsOf(s)
  BY DEF K!CharsOf, KP!CharsOf
<1> QED
  BY <1>2, <1>3, <1>4 DEF K!Key, KP!Key

\* Every step of the CLI or of zdaemon is a Visit of PortKey or leaves
\* dir, the glob, what is left of it and the keys alone.
LEMMA CmdStepMaps == [CmdNext]_cmdVars => [KP!Next]_KP!vars
<1> SUFFICES ASSUME [CmdNext]_cmdVars PROVE [KP!Next]_KP!vars
  OBVIOUS
<1>1. CASE WaitReturns /\ child.code = 0 /\ K!Visit
  <2>1. K!Visit <=> KP!Visit
    BY KeySame DEF K!Visit, KP!Visit
  <2> QED
    BY <1>1, <2>1 DEF KP!Next
<1>2. CASE WaitReturns /\ child.code # 0 /\ UNCHANGED keyVars
  BY <1>2 DEF WaitReturns, keyVars, KP!vars
<1>3. CASE Spawn /\ UNCHANGED keyVars
  BY <1>3 DEF Spawn, keyVars, KP!vars
<1>4. CASE (RemoveConf \/ LoopDone) /\ UNCHANGED keyVars
  BY <1>4 DEF RemoveConf, LoopDone, keyVars, KP!vars
<1>5. CASE CmdZdaemon
  BY <1>5 DEF CmdZdaemon, Zdaemon, WriteOut, WriteErr, Exit, keyVars, KP!vars
<1>6. CASE UNCHANGED cmdVars
  BY <1>6 DEF cmdVars, vars, keyVars, KP!vars
<1> QED
  BY <1>1, <1>2, <1>3, <1>4, <1>5, <1>6 DEF CmdNext, CmdCli

(***************************************************************************)
(* The whole loop of _zdaemon_command, zdaemon calls and pipes included,   *)
(* computes its ports_pids keys the way PortKey does: its behaviours are   *)
(* PortKey behaviours.                                                     *)
(***************************************************************************)
THEOREM CmdRefinesKey == CmdSpec => KP!Spec
BY CmdInitMaps, CmdStepMaps, PTL DEF CmdSpec, KP!Spec

(***************************************************************************)
(* _zdaemon_command stores the pid of every conf file it handled under its *)
(* own port and nothing else, for every number of conf files and every     *)
(* component path without '.' or without digits, when ports are written   *)
(* without a leading zero.                                                 *)
(***************************************************************************)
THEOREM CmdKeyedByPort ==
    ASSUME KP!PortsAreNumbers, KP!DirSeparable
    PROVE  CmdSpec => []ReportKeyedByPort
<1>1. KP!Spec => []KP!ReportKeyedByPort
  BY KP!KeyedByPort
<1>2. KP!ReportKeyedByPort <=> ReportKeyedByPort
  BY DEF ReportKeyedByPort, K!ReportKeyedByPort, KP!ReportKeyedByPort
<1> QED
  BY <1>1, <1>2, CmdRefinesKey, PTL
=============================================================================
