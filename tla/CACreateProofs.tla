-------------------------- MODULE CACreateProofs ---------------------------
(***************************************************************************)
(* Proofs about CACreate, for every number of invocations, seconds, runs   *)
(* and serials, with invocations overlapping and killed at any step.       *)
(***************************************************************************)
EXTENDS CACreate, TLAPS

\* Every step, including a stuttering one, keeps TypeOK.
LEMMA TypeStep == TypeOK /\ [Next]_vars => TypeOK'
<1> SUFFICES ASSUME TypeOK, [Next]_vars PROVE TypeOK'
  OBVIOUS
<1>1. ASSUME NEW i \in Procs, Begin(i) PROVE TypeOK'
  BY <1>1, BoundsAssumption DEF Begin, Files, TypeOK, Finished, Times, Keys,
     Serials, NoKey, CsrFile, CertFile
<1>2. ASSUME NEW i \in Procs, Req(i) PROVE TypeOK'
  <2>1. now[i] \in Times /\ key[i] \in Keys \cup {NoKey}
    BY DEF TypeOK
  <2>2. [kind |-> "raw", key |-> key[i]] \in CsrFile
    BY <2>1 DEF CsrFile
  <2>3. csr' \in [Times -> CsrFile] /\ priv' \in [Times -> Keys \cup {NoKey}]
    BY <1>2, <2>1, <2>2 DEF Req, TypeOK
  <2>4. QED
    BY <1>2, <2>3 DEF Req, TypeOK, Finished
<1>3. ASSUME NEW i \in Procs, SplitRead(i) PROVE TypeOK'
  BY <1>3 DEF SplitRead, Files, TypeOK, Finished, Times, Keys,
     Serials, NoKey, CsrFile, CertFile
<1>4. ASSUME NEW i \in Procs, SplitWrite(i) PROVE TypeOK'
  BY <1>4 DEF SplitWrite, TypeOK, Finished, Times, Keys,
     Serials, NoKey, CsrFile, CertFile
<1>5. ASSUME NEW i \in Procs, Ca(i) PROVE TypeOK'
  <2>1. CASE UNCHANGED <<cert, pems, old, serial>>
    BY <1>5, <2>1 DEF Ca, TypeOK, Finished
  <2>2. CASE /\ csr[now[i]].kind # "none"
             /\ serial <= MaxSerial
             /\ cert' = [cert EXCEPT ![now[i]] =
                            [key |-> csr[now[i]].key, serial |-> serial]]
             /\ pems' = pems \cup {serial}
             /\ old' = serial
             /\ serial' = serial + 1
    <3>1. now[i] \in Times /\ csr[now[i]] \in CsrFile /\ serial \in Serials
      BY <2>2, BoundsAssumption DEF TypeOK, Serials
    <3>2. [key |-> csr[now[i]].key, serial |-> serial] \in CertFile
      BY <3>1 DEF CsrFile, CertFile
    <3>3. cert' \in [Times -> CertFile]
      BY <2>2, <3>1, <3>2 DEF TypeOK
    <3>4. serial' \in 1..(MaxSerial + 1) /\ old' \in Serials \cup {0}
          /\ pems' \subseteq Serials
      BY <2>2, <3>1, BoundsAssumption DEF TypeOK, Serials
    <3>5. QED
      BY <1>5, <3>3, <3>4 DEF Ca, TypeOK, Finished
  <2>3. QED
    BY <1>5, <2>1, <2>2 DEF Ca
<1>6. ASSUME NEW i \in Procs, Cleanup(i) PROVE TypeOK'
  BY <1>6 DEF Cleanup, TypeOK, Finished, Times, Keys,
     Serials, NoKey, CsrFile, CertFile
<1>7. ASSUME NEW i \in Procs, CliKilled(i) PROVE TypeOK'
  BY <1>7 DEF CliKilled, Files, TypeOK, Finished, Times, Keys,
     Serials, NoKey, CsrFile, CertFile
<1>8. CASE Tick
  <2>1. clock' \in Times
    BY <1>8, BoundsAssumption DEF Tick, TypeOK, Times
  <2>2. QED
    BY <1>8, <2>1 DEF Tick, Files, TypeOK
<1>9. CASE UNCHANGED vars
  BY <1>9 DEF vars, TypeOK, Finished, Times, Keys,
     Serials, NoKey, CsrFile, CertFile
<1>10. QED
  BY <1>1, <1>2, <1>3, <1>4, <1>5, <1>6, <1>7, <1>8, <1>9 DEF Next, Step

(***************************************************************************)
(* Type correctness: the CA directory's files and every invocation's       *)
(* state stay in their types, whatever the bounds and the interleaving.    *)
(***************************************************************************)
THEOREM TypeCorrect == Spec => []TypeOK
<1>1. Init => TypeOK
  BY BoundsAssumption DEF Init, TypeOK, Times, CsrFile, NoCsr, CertFile, NoCert,
                          NoKey, Finished, Serials
<1>2. QED
  BY <1>1, TypeStep, PTL DEF Spec

----------------------------------------------------------------------------
(***************************************************************************)
(* The strengthening behind RemovedPemHasCopy: the serial in               *)
(* ca-serial.old is that of a certificate some out-cert file still holds.  *)
(* openssl ca writes both in one step, and any later write of either file  *)
(* is again such a step.                                                   *)
(***************************************************************************)
OldHasCopy == old # 0 => \E t \in Times : cert[t].serial = old

IInv == TypeOK /\ OldHasCopy

\* Every step keeps IInv and removes only a .pem whose certificate has a copy.
LEMMA IInvStep == IInv /\ [Next]_vars => IInv' /\ [PemRemovalHasCopy]_vars
<1> SUFFICES ASSUME IInv, [Next]_vars PROVE IInv' /\ [PemRemovalHasCopy]_vars
  OBVIOUS
<1>0. TypeOK'
  BY TypeStep DEF IInv
\* The steps that touch neither the certificate files nor the serial files.
<1>1. ASSUME NEW i \in Procs,
             Begin(i) \/ Req(i) \/ SplitRead(i) \/ SplitWrite(i) \/ CliKilled(i)
      PROVE  UNCHANGED <<cert, old, pems>>
  BY <1>1 DEF Begin, Req, SplitRead, SplitWrite, CliKilled, Files
<1>2. ASSUME NEW i \in Procs, Ca(i) PROVE IInv' /\ [PemRemovalHasCopy]_vars
  <2>1. CASE UNCHANGED <<cert, pems, old, serial>>
    BY <1>0, <2>1 DEF IInv, OldHasCopy, PemRemovalHasCopy
  <2>2. CASE /\ csr[now[i]].kind # "none"
             /\ cert' = [cert EXCEPT ![now[i]] =
                            [key |-> csr[now[i]].key, serial |-> serial]]
             /\ pems' = pems \cup {serial}
             /\ old' = serial
    <3>1. now[i] \in Times
      BY DEF IInv, TypeOK
    <3>2. cert'[now[i]].serial = old'
      BY <2>2, <3>1 DEF IInv, TypeOK
    <3>3. pems \ pems' = {}
      BY <2>2
    <3>4. QED
      BY <1>0, <3>1, <3>2, <3>3 DEF IInv, OldHasCopy, PemRemovalHasCopy
  <2>3. QED
    BY <1>2, <2>1, <2>2 DEF Ca
<1>3. ASSUME NEW i \in Procs, Cleanup(i) PROVE IInv' /\ [PemRemovalHasCopy]_vars
  <2>1. pems \ pems' \subseteq {old} /\ UNCHANGED <<cert, old>>
    BY <1>3 DEF Cleanup
  <2>2. old \in pems \/ pems \ pems' = {}
    BY <2>1
  <2>3. old \in pems => old # 0
    BY DEF IInv, TypeOK, Serials
  <2>4. QED
    BY <1>0, <2>1, <2>2, <2>3 DEF IInv, OldHasCopy, PemRemovalHasCopy
<1>4. CASE \/ \E i \in Procs : \/ Begin(i) \/ Req(i) \/ SplitRead(i)
                                \/ SplitWrite(i) \/ CliKilled(i)
           \/ Tick
           \/ UNCHANGED vars
  <2>1. UNCHANGED <<cert, old, pems>>
    BY <1>1, <1>4 DEF Tick, Files, vars
  <2>2. QED
    BY <1>0, <2>1 DEF IInv, OldHasCopy, PemRemovalHasCopy
<1>5. QED
  BY <1>2, <1>3, <1>4 DEF Next, Step

(***************************************************************************)
(* The comment before the os.remove holds for every bound and every        *)
(* interleaving, CLI kills included: a <serial>.pem that _execute removes  *)
(* from the CA directory has its certificate in some out-cert file.        *)
(***************************************************************************)
THEOREM PemCopyKept == Spec => RemovedPemHasCopy
<1>1. Init => IInv
  BY TypeCorrect, BoundsAssumption DEF Init, IInv, OldHasCopy, TypeOK, Times,
     CsrFile, NoCsr, CertFile, NoCert, NoKey, Finished, Serials
<1>2. QED
  BY <1>1, IInvStep, PTL DEF Spec, RemovedPemHasCopy

----------------------------------------------------------------------------
(***************************************************************************)
(* The strengthening behind NoStrayPem, for one invocation at a time that  *)
(* is never killed: a <serial>.pem exists only between the invocation's   *)
(* openssl ca and its cleanup, and then it is the one ca-serial.old names, *)
(* so the cleanup's os.remove takes it away.                               *)
(***************************************************************************)
PemOnlyInCleanup ==
    /\ pems \subseteq {old}
    /\ \A i \in Procs : pc[i] # "cleanup" => pems = {}

PemIInv == TypeOK /\ PemOnlyInCleanup

\* With one invocation that is never killed, every step keeps PemIInv.
LEMMA PemStepSerial ==
    ASSUME NEW q, Procs = {q}, Killable = FALSE
    PROVE  PemIInv /\ [Next]_vars => PemIInv'
<1> SUFFICES ASSUME PemIInv, [Next]_vars PROVE PemIInv'
  OBVIOUS
<1> USE DEF PemOnlyInCleanup
<1>0. TypeOK /\ TypeOK' /\ PemOnlyInCleanup
  BY TypeStep DEF PemIInv
<1>1. ASSUME NEW i \in Procs, Begin(i) \/ Req(i) \/ SplitRead(i) \/ SplitWrite(i)
      PROVE  PemOnlyInCleanup'
  \* None of these starts or leaves the cleanup, nor touches the CA files.
  <2>1. UNCHANGED <<old, pems>> /\ pc[i] # "cleanup" /\ pc'[i] # "cleanup"
    BY <1>0, <1>1 DEF Begin, Req, SplitRead, SplitWrite, Files, TypeOK, Finished
  <2> QED
    BY <1>0, <2>1
<1>2. ASSUME NEW i \in Procs, Ca(i) PROVE PemOnlyInCleanup'
  \* A pem is only made on the way into the cleanup, and it is old's.
  <2>1. pc[i] = "ca" /\ pc' = [pc EXCEPT ![i] = "cleanup"] /\ pems = {}
    BY <1>0, <1>2 DEF Ca
  <2>2. pems' \subseteq {old'}
    BY <1>2, <2>1 DEF Ca
  <2> QED
    BY <1>0, <2>1, <2>2 DEF TypeOK
<1>3. ASSUME NEW i \in Procs, Cleanup(i) PROVE PemOnlyInCleanup'
  \* The cleanup removes the one pem there may be, or fails when there is none.
  <2>1. pems' = {} /\ old' = old
    BY <1>0, <1>3 DEF Cleanup, TypeOK, Serials
  <2> QED
    BY <2>1
<1>4. ASSUME NEW i \in Procs, CliKilled(i) PROVE FALSE
  BY <1>4 DEF CliKilled
<1>5. ASSUME Tick \/ UNCHANGED vars PROVE PemOnlyInCleanup'
  BY <1>0, <1>5 DEF Tick, Files, vars
<1>6. PemOnlyInCleanup'
  <2> HIDE DEF PemOnlyInCleanup
  <2> QED
    BY <1>1, <1>2, <1>3, <1>4, <1>5 DEF Next, Step
<1>7. QED
  BY <1>0, <1>6 DEF PemIInv

(***************************************************************************)
(* When invocations do not overlap and none is killed, no <serial>.pem      *)
(* copy is left in the CA directory between invocations, for every bound   *)
(* on the clock, the runs and the serials, and whether openssl req or      *)
(* openssl ca fails.                                                       *)
(***************************************************************************)
THEOREM NoStrayPemSerial ==
    ASSUME NEW q, Procs = {q}, Killable = FALSE
    PROVE  Spec => []NoStrayPem
<1>1. Init => PemIInv
  BY TypeCorrect, BoundsAssumption DEF Init, PemIInv, PemOnlyInCleanup, TypeOK,
     Times, CsrFile, NoCsr, CertFile, NoCert, NoKey, Finished, Serials
<1>2. PemIInv => NoStrayPem
  BY DEF PemIInv, PemOnlyInCleanup, NoStrayPem, Finished
<1>3. QED
  BY <1>1, <1>2, PemStepSerial, PTL DEF Spec

----------------------------------------------------------------------------
(***************************************************************************)
(* The strengthening behind ReportedMaterialMatches.  openssl req writes a *)
(* raw CSR and its private key in one step, so a raw CSR always sits next  *)
(* to its own key (any number of invocations).  When invocations do not    *)
(* overlap, the key read out of the CSR is still the one in the private    *)
(* key file when the CSR is split and signed, and a .pem named by          *)
(* ca-serial.old at the cleanup is that of this invocation's certificate.  *)
(***************************************************************************)
KeyDrawn == \A i \in Procs : pc[i] = "req" => key[i] # NoKey

RawCsrHasPriv ==
    \A t \in Times : csr[t].kind = "raw" => csr[t].key # NoKey /\ priv[t] = csr[t].key

SplitOwnKey ==
    \A i \in Procs :
        /\ pc[i] \in {"write", "ca", "cleanup"} =>
               got[i] # NoKey /\ priv[now[i]] = got[i]
        /\ pc[i] \in {"ca", "cleanup"} =>
               /\ pub[now[i]] = got[i]
               /\ csr[now[i]] = [kind |-> "split", key |-> got[i]]
        /\ pc[i] = "cleanup" /\ old \in pems => cert[now[i]].key = got[i]

MatIInv == PemIInv /\ KeyDrawn /\ RawCsrHasPriv /\ SplitOwnKey

\* With one invocation that is never killed, every step keeps MatIInv.
LEMMA MatStepSerial ==
    ASSUME NEW q, Procs = {q}, Killable = FALSE
    PROVE  MatIInv /\ [Next]_vars => MatIInv'
<1> SUFFICES ASSUME MatIInv, [Next]_vars PROVE MatIInv'
  OBVIOUS
<1> DEFINE Inv == KeyDrawn /\ RawCsrHasPriv /\ SplitOwnKey
<1> USE DEF KeyDrawn, RawCsrHasPriv, SplitOwnKey
<1>0. /\ PemIInv' /\ TypeOK /\ TypeOK' /\ PemOnlyInCleanup /\ Inv
  BY PemStepSerial DEF MatIInv, PemIInv
<1>1. ASSUME NEW i \in Procs, Begin(i) PROVE Inv'
  \* The key pair is named by the run, counted from 1.
  <2>1. key'[i] = runs + 1 /\ runs \in Nat
    BY <1>0, <1>1 DEF Begin, TypeOK
  <2>2. key'[i] # NoKey
    BY <2>1 DEF NoKey
  <2> QED
    BY <1>0, <1>1, <2>2 DEF Begin, Files, TypeOK
<1>2. ASSUME NEW i \in Procs, Req(i) PROVE Inv'
  \* The raw CSR and the private key are written together, or neither.
  <2>1. key[i] # NoKey /\ now[i] \in Times
    BY <1>0, <1>2 DEF Req, TypeOK
  <2>2. CASE /\ csr' = [csr EXCEPT ![now[i]] = [kind |-> "raw", key |-> key[i]]]
             /\ priv' = [priv EXCEPT ![now[i]] = key[i]]
    BY <1>0, <1>2, <2>1, <2>2 DEF Req, TypeOK
  <2>3. CASE UNCHANGED <<csr, priv>>
    BY <1>0, <1>2, <2>3 DEF Req, TypeOK
  <2> QED
    BY <1>2, <2>2, <2>3 DEF Req
<1>3. ASSUME NEW i \in Procs, SplitRead(i) PROVE Inv'
  \* The key read out of a raw CSR is the one next to it.
  BY <1>0, <1>3 DEF SplitRead, Files, TypeOK
<1>4. ASSUME NEW i \in Procs, SplitWrite(i) PROVE Inv'
  <2>1. now[i] \in Times /\ pc[i] = "write"
    BY <1>0, <1>4 DEF SplitWrite, TypeOK
  <2> QED
    BY <1>0, <1>4, <2>1 DEF SplitWrite, TypeOK
<1>5. ASSUME NEW i \in Procs, Ca(i) PROVE Inv'
  \* A signed certificate is for the split CSR's key; a failed openssl ca
  \* leaves no .pem, since the invocation was not in its cleanup.
  <2>1. now[i] \in Times /\ pc[i] = "ca" /\ pems = {}
    BY <1>0, <1>5 DEF Ca, TypeOK, PemOnlyInCleanup
  <2>2. CASE /\ csr[now[i]].kind # "none"
             /\ cert' = [cert EXCEPT ![now[i]] =
                            [key |-> csr[now[i]].key, serial |-> serial]]
             /\ pems' = pems \cup {serial}
             /\ old' = serial
    BY <1>0, <1>5, <2>1, <2>2 DEF Ca, TypeOK
  <2>3. CASE UNCHANGED <<cert, pems, old, serial>>
    BY <1>0, <1>5, <2>1, <2>3 DEF Ca, TypeOK
  <2> QED
    BY <1>5, <2>2, <2>3 DEF Ca
<1>6. ASSUME NEW i \in Procs, Cleanup(i) PROVE Inv'
  BY <1>0, <1>6 DEF Cleanup, TypeOK
<1>7. ASSUME NEW i \in Procs, CliKilled(i) PROVE FALSE
  BY <1>7 DEF CliKilled
<1>8. ASSUME Tick \/ UNCHANGED vars PROVE Inv'
  BY <1>0, <1>8 DEF Tick, Files, vars
<1>9. Inv'
  <2> HIDE DEF KeyDrawn, RawCsrHasPriv, SplitOwnKey
  <2> QED
    BY <1>1, <1>2, <1>3, <1>4, <1>5, <1>6, <1>7, <1>8 DEF Next, Step
<1>10. QED
  BY <1>0, <1>9 DEF MatIInv

\* The step of ReportedMaterialMatches, as an action.
ReportStep ==
    \A i \in Procs :
        (pc[i] = "cleanup" /\ pc'[i] = "done") => MaterialMatches(now[i])'

\* Under MatIInv only a successful cleanup returns, and it reports one key pair.
LEMMA ReportStepSerial ==
    ASSUME NEW q, Procs = {q}, Killable = FALSE
    PROVE  MatIInv /\ [Next]_vars => [ReportStep]_vars
<1> SUFFICES ASSUME MatIInv, [Next]_vars, NEW i \in Procs,
                    pc[i] = "cleanup", pc'[i] = "done"
             PROVE  MaterialMatches(now[i])'
  BY DEF ReportStep
<1>0. TypeOK /\ SplitOwnKey
  BY DEF MatIInv, PemIInv
<1>1. Cleanup(i)
  \* Every other step of the one invocation starts elsewhere or ends elsewhere.
  <2>1. ~ \E j \in Procs : Begin(j) \/ Req(j) \/ SplitRead(j) \/ SplitWrite(j)
                            \/ Ca(j) \/ CliKilled(j)
    BY DEF Begin, Req, SplitRead, SplitWrite, Ca, CliKilled, Finished
  <2>2. ~ (Tick \/ UNCHANGED vars)
    BY DEF Tick, vars
  <2> QED
    BY <2>1, <2>2 DEF Next, Step
<1>2. old \in pems /\ UNCHANGED <<now, got, csr, priv, pub, cert>>
  BY <1>0, <1>1 DEF Cleanup, TypeOK
<1>3. /\ got[i] # NoKey /\ priv[now[i]] = got[i] /\ pub[now[i]] = got[i]
      /\ csr[now[i]] = [kind |-> "split", key |-> got[i]]
      /\ cert[now[i]].key = got[i]
  BY <1>0, <1>2 DEF SplitOwnKey
<1>4. QED
  BY <1>2, <1>3 DEF MaterialMatches

(***************************************************************************)
(* When invocations do not overlap and none is killed, an _execute that    *)
(* returns reports a private key, public key, CSR and certificate of one   *)
(* key pair, for every bound and whether openssl req or openssl ca fails   *)
(* on the way: a failed openssl ca leaves no .pem, so the cleanup fails.   *)
(***************************************************************************)
THEOREM ReportedMatchesSerial ==
    ASSUME NEW q, Procs = {q}, Killable = FALSE
    PROVE  Spec => ReportedMaterialMatches
<1>1. Init => MatIInv
  BY BoundsAssumption DEF Init, MatIInv, PemIInv, PemOnlyInCleanup, KeyDrawn,
     RawCsrHasPriv, SplitOwnKey, TypeOK, Times, CsrFile, NoCsr, CertFile,
     NoCert, NoKey, Finished, Serials
<1>2. QED
  BY <1>1, MatStepSerial, ReportStepSerial, PTL
     DEF Spec, ReportedMaterialMatches, ReportStep

=============================================================================
