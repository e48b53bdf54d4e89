------------------------- MODULE ZdaemonCallProofs -------------------------
(***************************************************************************)
(* Proofs about ZdaemonCall: type correctness, and the safety half of why  *)
(* every call of _execute_zdaemon_command returns when zdaemon prints no   *)
(* more than a pipe holds: the child never finds a pipe full while it has  *)
(* output left, so it always runs to its exit and wait() returns.  That   *)
(* the call then does return needs fairness and is checked by TLC          *)
(* (CommandReturns in the run zdaemon_fits).                               *)
(***************************************************************************)
EXTENDS ZdaemonCall, TLAPS

LEMMA TypeStep == TypeOK /\ [Next]_vars => TypeOK'
<1> SUFFICES ASSUME TypeOK, [Next]_vars PROVE TypeOK'
    OBVIOUS
<1> USE ZdaemonAssumption DEF TypeOK, Child, NoChild, NoPort, Absent, Pid, NonePid
<1>1. CASE Spawn
    BY <1>1 DEF Spawn, IsNext
<1>2. CASE WaitReturns
    <2>1. child' \in Child
        BY <1>2 DEF WaitReturns
    <2>2. pc' \in {"loop", "wait", "remove", "done", "failed"}
        BY <1>2 DEF WaitReturns
    <2>3. todo' \subseteq Ports /\ ports_pids' \in [Ports -> {Absent, Pid, NonePid}]
        BY <1>2 DEF WaitReturns
    <2> QED
        BY <1>2, <2>1, <2>2, <2>3 DEF WaitReturns
<1>3. CASE RemoveConf
    BY <1>3 DEF RemoveConf
<1>4. CASE LoopDone
    BY <1>4 DEF LoopDone
<1>5. CASE WriteOut
    BY <1>5 DEF WriteOut
<1>6. CASE WriteErr
    BY <1>6 DEF WriteErr
<1>7. CASE Exit
    BY <1>7 DEF Exit
<1>8. CASE UNCHANGED vars
    BY <1>8 DEF vars
<1> QED
    BY <1>1, <1>2, <1>3, <1>4, <1>5, <1>6, <1>7, <1>8 DEF Next, Cli, Zdaemon

\* Every reachable state has the types TypeOK gives.
THEOREM TypeCorrect == Spec => []TypeOK
<1>1. Init => TypeOK
    BY ZdaemonAssumption DEF Init, TypeOK, Child, NoChild, NoPort, Absent
<1> QED
    BY <1>1, TypeStep, PTL DEF Spec

----------------------------------------------------------------------------
(***************************************************************************)
(* What the child has written into a pipe and what it still has to write  *)
(* add up to at most MaxOut: each call starts on empty pipes and a write   *)
(* moves one chunk from the child into its pipe.                           *)
(***************************************************************************)
PipeRoom ==
    /\ outpipe + child.out <= MaxOut
    /\ errpipe + child.err <= MaxOut

IInv == TypeOK /\ PipeRoom

(***************************************************************************)
(* A zdaemon that still has output to write always finds room in its pipe, *)
(* so the write that p.wait() would otherwise wait on forever never        *)
(* blocks.                                                                 *)
(***************************************************************************)
WritesNeverBlock ==
    /\ (child.st = "writing" /\ child.out > 0) => outpipe < Cap
    /\ (child.st = "writing" /\ child.err > 0) => errpipe < Cap

LEMMA IInvStep == IInv /\ [Next]_vars => IInv'
<1> SUFFICES ASSUME IInv, [Next]_vars PROVE IInv'
    OBVIOUS
<1>0. TypeOK'
    BY TypeStep DEF IInv
<1> USE ZdaemonAssumption DEF IInv, TypeOK, Child, NoChild, PipeRoom
<1>1. CASE Spawn
    BY <1>1, <1>0 DEF Spawn
<1>2. CASE WaitReturns
    BY <1>2, <1>0 DEF WaitReturns
<1>3. CASE RemoveConf
    BY <1>3 DEF RemoveConf
<1>4. CASE LoopDone
    BY <1>4 DEF LoopDone
<1>5. CASE WriteOut
    BY <1>5 DEF WriteOut
<1>6. CASE WriteErr
    BY <1>6 DEF WriteErr
<1>7. CASE Exit
    BY <1>7 DEF Exit
<1>8. CASE UNCHANGED vars
    BY <1>8 DEF vars
<1> QED
    BY <1>0, <1>1, <1>2, <1>3, <1>4, <1>5, <1>6, <1>7, <1>8 DEF Next, Cli, Zdaemon

(***************************************************************************)
(* When zdaemon prints no more than a pipe holds, its writes never block  *)
(* while the CLI sits in p.wait().                                         *)
(***************************************************************************)
THEOREM WritesFit ==
    ASSUME MaxOut <= Cap
    PROVE  Spec => []WritesNeverBlock
<1>1. Init => IInv
    BY ZdaemonAssumption DEF Init, IInv, TypeOK, Child, NoChild, NoPort, Absent, PipeRoom
<1>2. IInv => WritesNeverBlock
    BY ZdaemonAssumption DEF IInv, TypeOK, Child, PipeRoom, WritesNeverBlock
<1> QED
    BY <1>1, <1>2, IInvStep, PTL DEF Spec

=============================================================================
