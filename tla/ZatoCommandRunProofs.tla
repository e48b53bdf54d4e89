------------------------ MODULE ZatoCommandRunProofs ------------------------
(***************************************************************************)
(* Proofs about ZatoCommandRun, for every set of invocations, password    *)
(* options, typed words and command classes.                              *)
(***************************************************************************)
EXTENDS ZatoCommandRun, TLAPS

\* The config file store_config writes is one a replay can read.
LEMMA StoredType ==
    ASSUME NEW g \in Passwords
    PROVE  Stored(g) \in StoredConfigs
<1> DEFINE S == {o \in PwdOpts : g[o] # Empty}
<1>1. Stored(g) \in [S -> Words \ {Empty}]
  BY DEF Stored, Passwords
<1>2. S \in SUBSET PwdOpts
  OBVIOUS
<1>3. QED
  BY <1>1, <1>2 DEF StoredConfigs

\* Setting a typed password keeps args, todo and pc in their types.
LEMMA SetPasswordType ==
    ASSUME TypeOK, NEW i \in Procs, NEW w \in Words, SetPassword(i, w)
    PROVE  /\ args' \in [Procs -> Passwords]
           /\ todo' \in [Procs -> SUBSET PwdOpts]
           /\ pc' \in [Procs -> Finished \cup {"dircheck", "filecheck", "collect",
                                     "prompt1", "prompt2", "execute", "replay"}]
<1>1. args[i] \in Passwords
  BY DEF TypeOK
<1>2. [args[i] EXCEPT ![cur[i]] = w] \in Passwords
  BY <1>1 DEF Passwords
<1>3. QED
  BY <1>2 DEF SetPassword, TypeOK

\* Every step, including a stuttering one, keeps TypeOK.
LEMMA TypeStep == TypeOK /\ [Next]_vars => TypeOK'
<1> SUFFICES ASSUME TypeOK, [Next]_vars PROVE TypeOK'
  OBVIOUS
<1>1. ASSUME NEW i \in Procs, NEW k \in Classes, NEW g \in Passwords,
             NEW store \in BOOLEAN, Start(i, k, g, store)
      PROVE  TypeOK'
  BY <1>1, StoredType, ClassesAssumption DEF Start, TypeOK, Finished
<1>2. ASSUME NEW i \in Procs, NEW c \in stored, Replay(i, c) PROVE TypeOK'
  <2>1. c \in StoredConfigs
    BY DEF TypeOK
  <2>2. PICK S \in SUBSET PwdOpts : c \in [S -> Words \ {Empty}]
    BY <2>1 DEF StoredConfigs
  <2>3. [o \in PwdOpts |-> IF o \in DOMAIN c THEN c[o] ELSE Empty] \in Passwords
    BY <2>2, ClassesAssumption DEF Passwords
  <2>4. QED
    BY <1>2, <2>3, ClassesAssumption DEF Replay, TypeOK, Finished
<1>3. ASSUME NEW i \in Procs, DirCheck(i) \/ FileCheck(i) \/ CollectDone(i)
                                \/ Execute(i) \/ ReplayBatch(i)
      PROVE  TypeOK'
  BY <1>3 DEF DirCheck, FileCheck, CollectDone, Execute, ReplayBatch, TypeOK, Finished
<1>4. ASSUME NEW i \in Procs, Collect(i) PROVE TypeOK'
  BY <1>4 DEF Collect, TypeOK, Finished
<1>5. ASSUME NEW i \in Procs, NEW w \in Words, Prompt1(i, w) PROVE TypeOK'
  <2>1. CASE ~cls[i].confirm /\ SetPassword(i, w) /\ UNCHANGED p1
    BY <1>5, <2>1, SetPasswordType DEF Prompt1, TypeOK
  <2>2. CASE cls[i].confirm /\ p1' = [p1 EXCEPT ![i] = w]
             /\ pc' = [pc EXCEPT ![i] = "prompt2"] /\ UNCHANGED <<args, todo>>
    BY <1>5, <2>2 DEF Prompt1, TypeOK, Finished
  <2>3. QED
    BY <1>5, <2>1, <2>2 DEF Prompt1
<1>6. ASSUME NEW i \in Procs, NEW w \in Words, Prompt2(i, w) PROVE TypeOK'
  <2>1. CASE SetPassword(i, p1[i])
    BY <1>6, <2>1, SetPasswordType DEF Prompt2, TypeOK
  <2>2. CASE pc' = [pc EXCEPT ![i] = "prompt1"] /\ UNCHANGED <<args, todo>>
    BY <1>6, <2>2 DEF Prompt2, TypeOK, Finished
  <2>3. QED
    BY <1>6, <2>1, <2>2 DEF Prompt2
<1>7. CASE UNCHANGED vars
  BY <1>7 DEF vars, TypeOK
<1>8. QED
  BY <1>1, <1>2, <1>3, <1>4, <1>5, <1>6, <1>7 DEF Next, Step

\* The initial states are typed.
LEMMA InitType == Init => TypeOK
<1> SUFFICES ASSUME Init PROVE TypeOK
  OBVIOUS
<1>1. (CHOOSE k \in Classes : TRUE) \in Classes
  BY ClassesAssumption
<1>2. [o \in PwdOpts |-> Empty] \in Passwords
  BY ClassesAssumption DEF Passwords
<1>3. QED
  BY <1>1, <1>2, ClassesAssumption DEF Init, TypeOK, Finished, Passwords

(***************************************************************************)
(* Type correctness: every invocation's state, the directory and the      *)
(* stored config files stay in their types.                                *)
(***************************************************************************)
THEOREM TypeCorrect == Spec => []TypeOK
<1>1. Init => TypeOK
  BY InitType
<1>2. QED
  BY <1>1, TypeStep, PTL DEF Spec

----------------------------------------------------------------------------
(***************************************************************************)
(* The strengthening behind ExecuteWithPasswords, along run's steps: the  *)
(* args of an invocation in its checks are its command line; while it     *)
(* collects passwords, a given option keeps its value and (with            *)
(* confirmation) every option it is done with is filled; a prompt is for  *)
(* an option still to do and still empty; execute comes with nothing to   *)
(* do.                                                                      *)
(***************************************************************************)
Collecting == {"collect", "prompt1", "prompt2", "execute", "done"}

PasswordInv ==
    \A i \in Procs :
        /\ pc[i] \in {"dircheck", "filecheck"} => args[i] = given[i]
        /\ pc[i] \in Collecting =>
              /\ \A o \in PwdOpts : given[i][o] # Empty => args[i][o] = given[i][o]
              /\ cls[i].confirm => \A o \in PwdOpts \ todo[i] : args[i][o] # Empty
        /\ pc[i] \in {"prompt1", "prompt2"} =>
              cur[i] \in todo[i] /\ args[i][cur[i]] = Empty
        /\ pc[i] \in {"execute", "done"} => todo[i] = {}

IInv == TypeOK /\ PasswordInv

LEMMA PasswordStep == IInv /\ [Next]_vars => IInv'
<1> SUFFICES ASSUME IInv, [Next]_vars PROVE IInv'
  OBVIOUS
<1>0. TypeOK'
  BY TypeStep DEF IInv
<1>1. ASSUME NEW i \in Procs, NEW k \in Classes, NEW g \in Passwords,
             NEW store \in BOOLEAN, Start(i, k, g, store)
      PROVE  PasswordInv'
  BY <1>1 DEF Start, IInv, PasswordInv, Collecting, Finished, TypeOK
<1>2. ASSUME NEW i \in Procs, NEW c \in stored, Replay(i, c) PROVE PasswordInv'
  BY <1>2 DEF Replay, IInv, PasswordInv, Collecting, Finished, TypeOK
<1>3. ASSUME NEW i \in Procs, DirCheck(i) PROVE PasswordInv'
  BY <1>3 DEF DirCheck, IInv, PasswordInv, Collecting, TypeOK
<1>4. ASSUME NEW i \in Procs, FileCheck(i) PROVE PasswordInv'
  BY <1>4 DEF FileCheck, IInv, PasswordInv, Collecting, TypeOK
<1>5. ASSUME NEW i \in Procs, Collect(i) PROVE PasswordInv'
  BY <1>5 DEF Collect, IInv, PasswordInv, Collecting, TypeOK
<1>6. ASSUME NEW i \in Procs, CollectDone(i) \/ Execute(i) \/ ReplayBatch(i)
      PROVE  PasswordInv'
  BY <1>6 DEF CollectDone, Execute, ReplayBatch, IInv, PasswordInv,
         Collecting, TypeOK
<1>7. ASSUME NEW i \in Procs, NEW w \in Words, Prompt1(i, w) PROVE PasswordInv'
  BY <1>7 DEF Prompt1, SetPassword, IInv, PasswordInv, Collecting, TypeOK, Passwords
<1>8. ASSUME NEW i \in Procs, NEW w \in Words, Prompt2(i, w) PROVE PasswordInv'
  BY <1>8 DEF Prompt2, SetPassword, IInv, PasswordInv, Collecting, TypeOK, Passwords
<1>9. CASE UNCHANGED vars
  BY <1>0, <1>9 DEF vars, IInv, PasswordInv, Collecting
<1>10. QED
  BY <1>0, <1>1, <1>2, <1>3, <1>4, <1>5, <1>6, <1>7, <1>8, <1>9
     DEF Next, Step, IInv

(***************************************************************************)
(* For every command class and every run of the prompt loop: when run      *)
(* calls execute, a password given on the command line is passed on        *)
(* unchanged and, where the class asks for confirmation, no password is    *)
(* empty.                                                                   *)
(***************************************************************************)
THEOREM PasswordsFilled == Spec => []ExecuteWithPasswords
<1>1. Init => IInv
  BY InitType DEF Init, IInv, PasswordInv, Collecting
<1>2. IInv => ExecuteWithPasswords
  BY DEF IInv, PasswordInv, ExecuteWithPasswords, Collecting
<1>3. QED
  BY <1>1, <1>2, PasswordStep, PTL DEF Spec

=============================================================================
