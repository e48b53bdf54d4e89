------------------------- MODULE ZatoManageProofs --------------------------
(***************************************************************************)
(* Proofs about ZatoManage: type correctness for every value of the        *)
(* constants, and the absence of orphan daemons when CLI invocations on a  *)
(* component directory do not overlap.                                     *)
(***************************************************************************)
EXTENDS ZatoManage, TLAPS

\* Every step, including a stuttering one, keeps TypeOK.
LEMMA TypeStep == TypeOK /\ [Next]_vars => TypeOK'
<1> SUFFICES ASSUME TypeOK, [Next]_vars PROVE TypeOK'
  OBVIOUS
<1>1. ASSUME NEW i \in Procs, InvokeBadDir(i) PROVE TypeOK'
BY <1>1 DEF InvokeBadDir, TypeOK, Finished
<1>2. ASSUME NEW i \in Procs, NEW p \in Ports, InvokeStart(i, p) PROVE TypeOK'
BY <1>2 DEF InvokeStart, TypeOK, Finished, EmptyReport
<1>3. ASSUME NEW i \in Procs, NEW c \in {"stop", "status"}, InvokeCommand(i, c)
    PROVE TypeOK'
BY <1>3 DEF InvokeCommand, TypeOK, Finished, EmptyReport, NoPort
<1>4. ASSUME NEW i \in Procs, ExecStart(i) PROVE TypeOK'
BY <1>4 DEF ExecStart, TypeOK, Finished
<1>5. ASSUME NEW i \in Procs, LoopStop(i) PROVE TypeOK'
BY <1>5 DEF LoopStop, TypeOK, Finished
<1>6. ASSUME NEW i \in Procs, LoopStatus(i) PROVE TypeOK'
BY <1>6 DEF LoopStatus, TypeOK
<1>7. ASSUME NEW i \in Procs, RemoveConf(i) PROVE TypeOK'
BY <1>7 DEF RemoveConf, TypeOK, Finished
<1>8. ASSUME NEW i \in Procs, LoopDone(i) \/ ExecFails(i) \/ CliKilled(i)
    PROVE TypeOK'
BY <1>8 DEF LoopDone, ExecFails, CliKilled, TypeOK, Finished
<1>9. ASSUME NEW p \in Ports, DaemonDies(p) PROVE TypeOK'
BY <1>9 DEF DaemonDies, TypeOK
<1>10. CASE UNCHANGED vars
BY <1>10 DEF vars, TypeOK
<1>11. QED
BY <1>1, <1>2, <1>3, <1>4, <1>5, <1>6, <1>7, <1>8, <1>9, <1>10
   DEF Next, Invoke, Step

(***************************************************************************)
(* Type correctness: every variable of the CLI and of the component        *)
(* directory stays in its type, whatever the numbers of ports, marker      *)
(* files and concurrent CLI invocations.                                   *)
(***************************************************************************)
THEOREM TypeCorrect == Spec => []TypeOK
<1>1. Init => TypeOK
  BY DEF Init, TypeOK, EmptyReport, NoPort, Finished
<1>2. QED
  BY <1>1, TypeStep, PTL DEF Spec

----------------------------------------------------------------------------
(***************************************************************************)
(* The inductive strengthening of NoOrphanDaemon: a stop that has stopped  *)
(* its daemon and not yet removed the conf file (pc = "remove") leaves     *)
(* that daemon down, so the os.remove cannot orphan it.  This holds only   *)
(* while the invocation is alone: a concurrent start may bring the daemon  *)
(* back between the two steps (the ZatoManageOrphan run).                  *)
(***************************************************************************)
StoppedBeforeRemove ==
    \A i \in Procs : pc[i] = "remove" => cur[i] \notin running

IInv == TypeOK /\ NoOrphanDaemon /\ StoppedBeforeRemove

\* With one invocation, every step keeps IInv.
LEMMA IInvStepSerial ==
    ASSUME NEW q, Procs = {q}
    PROVE  IInv /\ [Next]_vars => IInv'
<1> SUFFICES ASSUME IInv, [Next]_vars PROVE IInv'
  OBVIOUS
<1>0. TypeOK'
  BY TypeStep DEF IInv
<1>1. ASSUME NEW i \in Procs, InvokeBadDir(i) PROVE IInv'
  BY <1>0, <1>1 DEF InvokeBadDir, IInv, NoOrphanDaemon, StoppedBeforeRemove
<1>2. ASSUME NEW i \in Procs, NEW p \in Ports, InvokeStart(i, p) PROVE IInv'
  BY <1>0, <1>2 DEF InvokeStart, IInv, NoOrphanDaemon, StoppedBeforeRemove, TypeOK
<1>3. ASSUME NEW i \in Procs, NEW c \in {"stop", "status"}, InvokeCommand(i, c)
      PROVE IInv'
  BY <1>0, <1>3 DEF InvokeCommand, IInv, NoOrphanDaemon, StoppedBeforeRemove, TypeOK
<1>4. ASSUME NEW i \in Procs, ExecStart(i) PROVE IInv'
  \* i = q, so no invocation is between its stop and its os.remove.
  BY <1>0, <1>4 DEF ExecStart, IInv, NoOrphanDaemon, StoppedBeforeRemove
<1>5. ASSUME NEW i \in Procs, LoopStop(i) PROVE IInv'
  BY <1>0, <1>5 DEF LoopStop, IInv, NoOrphanDaemon, StoppedBeforeRemove, TypeOK
<1>6. ASSUME NEW i \in Procs, LoopStatus(i) PROVE IInv'
  BY <1>0, <1>6 DEF LoopStatus, IInv, NoOrphanDaemon, StoppedBeforeRemove
<1>7. ASSUME NEW i \in Procs, RemoveConf(i) PROVE IInv'
  BY <1>0, <1>7 DEF RemoveConf, IInv, NoOrphanDaemon, StoppedBeforeRemove, TypeOK
<1>8. ASSUME NEW i \in Procs, LoopDone(i) \/ ExecFails(i) \/ CliKilled(i)
      PROVE IInv'
  BY <1>0, <1>8 DEF LoopDone, ExecFails, CliKilled, IInv, NoOrphanDaemon,
                    StoppedBeforeRemove, TypeOK
<1>9. ASSUME NEW p \in Ports, DaemonDies(p) PROVE IInv'
  BY <1>0, <1>9 DEF DaemonDies, IInv, NoOrphanDaemon, StoppedBeforeRemove
<1>10. CASE UNCHANGED vars
  BY <1>0, <1>10 DEF vars, IInv, NoOrphanDaemon, StoppedBeforeRemove
<1>11. QED
  BY <1>1, <1>2, <1>3, <1>4, <1>5, <1>6, <1>7, <1>8, <1>9, <1>10
     DEF Next, Invoke, Step

(***************************************************************************)
(* No orphan daemon when invocations do not overlap: with a single CLI    *)
(* invocation at a time, every running zdaemon daemon has its conf file,   *)
(* through zdaemon failures, CLI kills between any two steps and daemons   *)
(* dying on their own.                                                     *)
(***************************************************************************)
THEOREM NoOrphanSerial ==
    ASSUME NEW q, Procs = {q}
    PROVE  Spec => []NoOrphanDaemon
<1>1. Init => IInv
  BY DEF Init, IInv, TypeOK, NoOrphanDaemon, StoppedBeforeRemove,
         EmptyReport, NoPort, Finished
<1>2. IInv /\ [Next]_vars => IInv'
  BY IInvStepSerial
<1>3. IInv => NoOrphanDaemon
  BY DEF IInv
<1>4. QED
  BY <1>1, <1>2, <1>3, PTL DEF Spec

----------------------------------------------------------------------------
(***************************************************************************)
(* The inductive strengthening of StopLeavesNothing.  While a lone 'stop'  *)
(* is in its loop, the conf files left are exactly the globbed ones it has *)
(* not yet handled: each handled one was removed by its own os.remove, and *)
(* nobody else writes one.  So when the loop runs out of files there are   *)
(* no conf files, and by NoOrphanDaemon no daemons either.                 *)
(***************************************************************************)
StopConfIsTodo ==
    \A i \in Procs :
        command[i] = "stop" /\ pc[i] \in {"loop", "remove"} => conf = todo[i]

(***************************************************************************)
(* An invariant of every number of invocations, which the serial stop    *)
(* proof below builds on: a 'status' in its loop has an entry in          *)
(* ports_pids for exactly the globbed conf files it has handled, and the   *)
(* ones left are among the globbed ones.  Only 'stop' reaches os.remove,  *)
(* only 'start' the zdaemon start call.                                    *)
(***************************************************************************)
StatusReportsHandled ==
    \A i \in Procs :
        /\ pc[i] = "remove" => command[i] = "stop"
        /\ pc[i] = "start" => command[i] = "start"
        /\ command[i] = "status" /\ pc[i] = "loop" =>
               /\ todo[i] \subseteq globbed[i]
               /\ {p \in Ports : ports_pids[i][p] # Absent} = globbed[i] \ todo[i]

\* A finished 'status' has an entry for every conf file it globbed.
StatusCoversGlob ==
    \A i \in Procs :
        (pc[i] = "done" /\ command[i] = "status") =>
            {p \in Ports : ports_pids[i][p] # Absent} = globbed[i]

StatusIInv == TypeOK /\ StatusReportsHandled /\ StatusCoversGlob

StopIInv == IInv /\ StatusIInv /\ StopConfIsTodo /\ StopLeavesNothing

\* Another invocation's step leaves a status invocation's loop state alone.
LEMMA StatusStep == StatusIInv /\ [Next]_vars => StatusIInv'
<1> SUFFICES ASSUME StatusIInv, [Next]_vars PROVE StatusIInv'
  OBVIOUS
<1> DEFINE Inv == StatusReportsHandled /\ StatusCoversGlob
<1> USE DEF StatusReportsHandled, StatusCoversGlob
<1>0. TypeOK /\ TypeOK' /\ Inv
  BY TypeStep DEF StatusIInv
<1>1. ASSUME NEW i \in Procs, InvokeBadDir(i) PROVE Inv'
  BY <1>0, <1>1 DEF InvokeBadDir, TypeOK
<1>2. ASSUME NEW i \in Procs, NEW p \in Ports, InvokeStart(i, p) PROVE Inv'
  BY <1>0, <1>2 DEF InvokeStart, TypeOK
<1>3. ASSUME NEW i \in Procs, NEW c \in {"stop", "status"}, InvokeCommand(i, c)
      PROVE Inv'
  <2>1. {p \in Ports : ports_pids'[i][p] # Absent} = {}
    BY <1>0, <1>3 DEF InvokeCommand, TypeOK, EmptyReport, Absent, Pid, NonePid
  <2>2. todo'[i] = conf /\ globbed'[i] = conf
    BY <1>0, <1>3 DEF InvokeCommand, TypeOK
  <2> QED
    BY <1>0, <1>3, <2>1, <2>2 DEF InvokeCommand, TypeOK
<1>4. ASSUME NEW i \in Procs, ExecStart(i) PROVE Inv'
  BY <1>0, <1>4 DEF ExecStart, TypeOK
<1>5. ASSUME NEW i \in Procs, LoopStop(i) PROVE Inv'
  BY <1>0, <1>5 DEF LoopStop, TypeOK
<1>6. ASSUME NEW i \in Procs, LoopStatus(i) PROVE Inv'
  <2>1. PICK p \in Ports :
          /\ IsNext(p, todo[i])
          /\ ports_pids' = [ports_pids EXCEPT ![i][p] =
                               IF p \in running THEN Pid ELSE NonePid]
          /\ todo' = [todo EXCEPT ![i] = @ \ {p}]
    BY <1>6 DEF LoopStatus
  <2>2. pc[i] = "loop" /\ command[i] = "status"
       /\ pc' = pc /\ command' = command /\ globbed' = globbed
    BY <1>6 DEF LoopStatus
  <2>3. todo[i] \subseteq globbed[i]
       /\ {r \in Ports : ports_pids[i][r] # Absent} = globbed[i] \ todo[i]
    BY <1>0, <2>2
  <2>4. p \in todo[i]
    BY <2>1 DEF IsNext
  <2>5. {r \in Ports : ports_pids'[i][r] # Absent}
          = {r \in Ports : ports_pids[i][r] # Absent} \cup {p}
    BY <1>0, <2>1 DEF TypeOK, Absent, Pid, NonePid
  <2>6. todo'[i] = todo[i] \ {p}
    BY <1>0, <2>1 DEF TypeOK
  <2>7. \A j \in Procs \ {i} : ports_pids'[j] = ports_pids[j] /\ todo'[j] = todo[j]
    BY <1>0, <2>1 DEF TypeOK
  <2> QED
    BY <1>0, <2>2, <2>3, <2>4, <2>5, <2>6, <2>7
<1>7. ASSUME NEW i \in Procs, RemoveConf(i) PROVE Inv'
  \* Only a stop reaches "remove", and either outcome leaves it a stop.
  <2>1. pc[i] = "remove" /\ command[i] = "stop" /\ command' = command
       /\ ports_pids' = ports_pids /\ globbed' = globbed
    BY <1>0, <1>7 DEF RemoveConf
  <2>2. pc' = [pc EXCEPT ![i] = "loop"] \/ pc' = [pc EXCEPT ![i] = "failed"]
    BY <1>7 DEF RemoveConf
  <2>3. todo' = [todo EXCEPT ![i] = @ \ {cur[i]}] \/ todo' = todo
    BY <1>7 DEF RemoveConf
  <2>4. pc'[i] \in {"loop", "failed"}
    BY <1>0, <2>2 DEF TypeOK
  <2>5. \A j \in Procs \ {i} : pc'[j] = pc[j] /\ todo'[j] = todo[j]
    BY <1>0, <2>2, <2>3 DEF TypeOK
  <2>6. StatusReportsHandled'
    BY <1>0, <2>1, <2>4, <2>5
  <2>7. StatusCoversGlob'
    BY <1>0, <2>1, <2>4, <2>5
  <2> QED
    BY <2>6, <2>7
<1>8. ASSUME NEW i \in Procs, LoopDone(i) PROVE Inv'
  BY <1>0, <1>8 DEF LoopDone, TypeOK
<1>9. ASSUME NEW i \in Procs, ExecFails(i) PROVE Inv'
  BY <1>0, <1>9 DEF ExecFails, TypeOK
<1>10. ASSUME NEW i \in Procs, CliKilled(i) PROVE Inv'
  BY <1>0, <1>10 DEF CliKilled, TypeOK
<1>11. ASSUME NEW p \in Ports, DaemonDies(p) PROVE Inv'
  BY <1>0, <1>11 DEF DaemonDies
<1>12. ASSUME UNCHANGED vars PROVE Inv'
  <2>1. /\ pc' = pc /\ command' = command /\ todo' = todo
       /\ globbed' = globbed /\ ports_pids' = ports_pids
    BY <1>12 DEF vars
  <2> QED
    BY <1>0, <2>1
<1>13. Inv'
  <2> HIDE DEF StatusReportsHandled, StatusCoversGlob
  <2>1. ASSUME NEW i \in Procs, Invoke(i) PROVE Inv'
    BY <1>1, <1>2, <1>3, <2>1 DEF Invoke
  <2>2. ASSUME NEW i \in Procs, Step(i) PROVE Inv'
    BY <1>4, <1>5, <1>6, <1>7, <1>8, <1>9, <2>2 DEF Step
  <2> QED
    BY <1>10, <1>11, <1>12, <2>1, <2>2 DEF Next
<1>14. QED
  BY <1>0, <1>13 DEF StatusIInv

----------------------------------------------------------------------------
\* With one invocation, every step keeps StopIInv.
LEMMA StopStepSerial ==
    ASSUME NEW q, Procs = {q}
    PROVE  StopIInv /\ [Next]_vars => StopIInv'
<1> SUFFICES ASSUME StopIInv, [Next]_vars PROVE StopIInv'
  OBVIOUS
<1> DEFINE Inv == StopConfIsTodo /\ StopLeavesNothing
<1> USE DEF StopConfIsTodo, StopLeavesNothing
<1>0. /\ IInv /\ IInv' /\ StatusIInv /\ StatusIInv' /\ Inv
      /\ TypeOK /\ NoOrphanDaemon /\ StatusReportsHandled
  BY IInvStepSerial, StatusStep DEF StopIInv, IInv, StatusIInv
<1>1. ASSUME NEW i \in Procs, InvokeBadDir(i) PROVE Inv'
  BY <1>0, <1>1 DEF InvokeBadDir, TypeOK
<1>2. ASSUME NEW i \in Procs, NEW p \in Ports, InvokeStart(i, p) PROVE Inv'
  \* The only invocation is now starting.
  BY <1>0, <1>2 DEF InvokeStart, TypeOK
<1>3. ASSUME NEW i \in Procs, NEW c \in {"stop", "status"}, InvokeCommand(i, c)
      PROVE Inv'
  BY <1>0, <1>3 DEF InvokeCommand, TypeOK
<1>4. ASSUME NEW i \in Procs, ExecStart(i) PROVE Inv'
  \* A start call belongs to a 'start'.
  BY <1>0, <1>4 DEF ExecStart, StatusReportsHandled, TypeOK
<1>5. ASSUME NEW i \in Procs, LoopStop(i) PROVE Inv'
  BY <1>0, <1>5 DEF LoopStop, TypeOK
<1>6. ASSUME NEW i \in Procs, LoopStatus(i) PROVE Inv'
  BY <1>0, <1>6 DEF LoopStatus, TypeOK
<1>7. ASSUME NEW i \in Procs, RemoveConf(i) PROVE Inv'
  \* The file removed is the one the loop drops from todo.
  <2>1. CASE cur[i] \in conf
    <3>1. conf' = conf \ {cur[i]} /\ todo' = [todo EXCEPT ![i] = @ \ {cur[i]}]
          /\ pc' = [pc EXCEPT ![i] = "loop"] /\ command' = command
          /\ pc[i] = "remove"
      BY <1>7, <2>1 DEF RemoveConf
    <3>2. command[i] = "stop"
      BY <1>0, <3>1 DEF StatusReportsHandled
    <3> QED
      BY <1>0, <3>1, <3>2 DEF TypeOK
  <2>3. CASE cur[i] \notin conf
    BY <1>0, <1>7, <2>3 DEF RemoveConf, TypeOK
  <2> QED
    BY <2>1, <2>3
<1>8. ASSUME NEW i \in Procs, LoopDone(i) PROVE Inv'
  \* A stop's loop ends with todo empty, so conf is empty, so nothing runs.
  BY <1>0, <1>8 DEF LoopDone, TypeOK, NoOrphanDaemon
<1>9. ASSUME NEW i \in Procs, ExecFails(i) PROVE Inv'
  BY <1>0, <1>9 DEF ExecFails, TypeOK
<1>10. ASSUME NEW i \in Procs, CliKilled(i) PROVE Inv'
  BY <1>0, <1>10 DEF CliKilled, TypeOK
<1>11. ASSUME NEW p \in Ports, DaemonDies(p) PROVE Inv'
  BY <1>0, <1>11 DEF DaemonDies
<1>12. ASSUME UNCHANGED vars PROVE Inv'
  BY <1>0, <1>12 DEF vars
<1>13. Inv'
  <2> HIDE DEF StopConfIsTodo, StopLeavesNothing
  <2>1. ASSUME NEW i \in Procs, Invoke(i) PROVE Inv'
    BY <1>1, <1>2, <1>3, <2>1 DEF Invoke
  <2>2. ASSUME NEW i \in Procs, Step(i) PROVE Inv'
    BY <1>4, <1>5, <1>6, <1>7, <1>8, <1>9, <2>2 DEF Step
  <2> QED
    BY <1>10, <1>11, <1>12, <2>1, <2>2 DEF Next
<1>14. QED
  BY <1>0, <1>13 DEF StopIInv

(***************************************************************************)
(* A 'stop' that returns normally leaves nothing behind when invocations   *)
(* do not overlap: no conf file and no running daemon, whatever failures,  *)
(* kills and daemon deaths came before.  It rests on NoOrphanDaemon: the   *)
(* loop only reaches daemons through their conf files.                    *)
(***************************************************************************)
THEOREM StopCompleteSerial ==
    ASSUME NEW q, Procs = {q}
    PROVE  Spec => []StopLeavesNothing
<1>1. Init => StopIInv
  BY DEF Init, StopIInv, IInv, StatusIInv, TypeOK, NoOrphanDaemon,
         StoppedBeforeRemove, StatusReportsHandled, StatusCoversGlob,
         StopConfIsTodo, StopLeavesNothing, EmptyReport, NoPort, Finished
<1>2. StopIInv => StopLeavesNothing
  BY DEF StopIInv
<1>3. QED
  BY <1>1, <1>2, StopStepSerial, PTL DEF Spec

=============================================================================
