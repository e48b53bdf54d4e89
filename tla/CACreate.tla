------------------------------ MODULE CACreate ------------------------------
(***************************************************************************)
(* CACreateCommand._execute of zato/cli/__init__.py: the CLI commands that *)
(* create a key pair, a CSR and a certificate signed by the CA kept in a   *)
(* CA directory.                                                           *)
(*                                                                         *)
(* An invocation names its files after the prefix and the time in seconds *)
(* (_get_now), runs 'openssl req' (CSR with the public key, private key),  *)
(* splits the public key off the CSR file, runs 'openssl ca' (certificate; *)
(* openssl also leaves a copy <serial>.pem in the CA directory and moves   *)
(* ca-serial to ca-serial.old), then reads ca-serial.old and removes that  *)
(* copy.  os.system's exit codes are ignored.  All invocations use the     *)
(* same prefix, so their files collide exactly when they start in the     *)
(* same second.  A key pair is named by the run of 'openssl req' that      *)
(* generated it.                                                           *)
(***************************************************************************)
EXTENDS Naturals

CONSTANTS
    Procs,      \* concurrently running CLI invocations
    MaxTime,    \* the clock, in seconds, runs from 0 to MaxTime
    MaxRuns,    \* invocations of _execute in a behaviour
    MaxSerial,  \* certificates openssl ca can issue in a behaviour
    Killable    \* whether a CLI process may be killed between two steps

ASSUME BoundsAssumption ==
    /\ MaxTime \in Nat
    /\ MaxRuns \in Nat
    /\ MaxSerial \in Nat
    /\ Killable \in BOOLEAN

VARIABLES
    clock,    \* time.gmtime() in seconds
    runs,     \* invocations begun so far; run r generates key pair r
    pc,       \* where each CLI invocation is
    now,      \* the timestamp in an invocation's file names
    key,      \* the key pair an invocation's openssl req generates
    got,      \* the public key an invocation read out of its CSR file
    csr,      \* out-csr/<prefix>-csr-<now>.pem, by timestamp
    priv,     \* out-priv/<prefix>-priv-<now>.pem
    pub,      \* out-pub/<prefix>-pub-<now>.pem
    cert,     \* out-cert/<prefix>-cert-<now>.pem
    serial,   \* ca-material/ca-serial: the serial openssl ca issues next
    old,      \* ca-material/ca-serial.old: the serial issued last (0: none)
    pems      \* serials whose <serial>.pem copy is in the CA directory

vars == <<clock, runs, pc, now, key, got, csr, priv, pub, cert, serial, old, pems>>

Times == 0..MaxTime
Keys == 1..MaxRuns
Serials == 1..MaxSerial

\* 0 stands for "no such file" and "no key".
NoKey == 0

\* A CSR file as openssl req writes it (public key block, then the request)
\* or as _execute rewrites it (the request alone).
CsrFile == [kind : {"none", "raw", "split"}, key : Keys \cup {NoKey}]
NoCsr == [kind |-> "none", key |-> NoKey]

\* A certificate file: the key pair it certifies and its serial.
CertFile == [key : Keys \cup {NoKey}, serial : Serials \cup {0}]
NoCert == [key |-> NoKey, serial |-> 0]

Finished == {"idle", "done", "failed"}

TypeOK ==
    /\ clock \in Times
    /\ runs \in 0..MaxRuns
    /\ pc \in [Procs -> Finished \cup {"req", "read", "write", "ca", "cleanup"}]
    /\ now \in [Procs -> Times]
    /\ key \in [Procs -> Keys \cup {NoKey}]
    /\ got \in [Procs -> Keys \cup {NoKey}]
    /\ csr \in [Times -> CsrFile]
    /\ priv \in [Times -> Keys \cup {NoKey}]
    /\ pub \in [Times -> Keys \cup {NoKey}]
    /\ cert \in [Times -> CertFile]
    /\ serial \in 1..(MaxSerial + 1)
    /\ old \in Serials \cup {0}
    /\ pems \subseteq Serials

\* A CA directory as the CA-creation command leaves it: no certificates yet.
Init ==
    /\ clock = 0
    /\ runs = 0
    /\ pc = [i \in Procs |-> "idle"]
    /\ now = [i \in Procs |-> 0]
    /\ key = [i \in Procs |-> NoKey]
    /\ got = [i \in Procs |-> NoKey]
    /\ csr = [t \in Times |-> NoCsr]
    /\ priv = [t \in Times |-> NoKey]
    /\ pub = [t \in Times |-> NoKey]
    /\ cert = [t \in Times |-> NoCert]
    /\ serial = 1
    /\ old = 0
    /\ pems = {}

Files == <<csr, priv, pub, cert, serial, old, pems>>

----------------------------------------------------------------------------
(***************************************************************************)
(* _execute up to the first openssl call: now = _get_now(), the openssl   *)
(* config is written to a fresh temporary file, the file names are built  *)
(* from the prefix and now.                                                *)
(***************************************************************************)
Begin(i) ==
    /\ pc[i] \in Finished
    /\ runs < MaxRuns
    /\ runs' = runs + 1
    /\ now' = [now EXCEPT ![i] = clock]
    /\ key' = [key EXCEPT ![i] = runs + 1]
    /\ got' = [got EXCEPT ![i] = NoKey]
    /\ pc' = [pc EXCEPT ![i] = "req"]
    /\ UNCHANGED <<clock, Files>>

(***************************************************************************)
(* os.system('openssl req ... -out csr -keyout priv -pubkey -newkey'):     *)
(* either openssl writes both files (over any file of the same name) or   *)
(* it fails and writes nothing; the exit code is not looked at.           *)
(***************************************************************************)
Req(i) ==
    /\ pc[i] = "req"
    /\ \/ /\ csr' = [csr EXCEPT ![now[i]] = [kind |-> "raw", key |-> key[i]]]
          /\ priv' = [priv EXCEPT ![now[i]] = key[i]]
       \/ UNCHANGED <<csr, priv>>
    /\ pc' = [pc EXCEPT ![i] = "read"]
    /\ UNCHANGED <<clock, runs, now, key, got, pub, cert, serial, old, pems>>

(***************************************************************************)
(* open(csr_name).read().split('-----END PUBLIC KEY-----'): a missing     *)
(* file raises IOError; a file without a public key block has no second   *)
(* part and csr_pub[1] raises IndexError.                                  *)
(***************************************************************************)
SplitRead(i) ==
    /\ pc[i] = "read"
    /\ \/ /\ csr[now[i]].kind = "raw"
          /\ got' = [got EXCEPT ![i] = csr[now[i]].key]
          /\ pc' = [pc EXCEPT ![i] = "write"]
       \/ /\ csr[now[i]].kind # "raw"
          /\ pc' = [pc EXCEPT ![i] = "failed"]
          /\ UNCHANGED got
    /\ UNCHANGED <<clock, runs, now, key, Files>>

\* The CSR file is rewritten without the public key, which goes to pub_key_name.
SplitWrite(i) ==
    /\ pc[i] = "write"
    /\ csr' = [csr EXCEPT ![now[i]] = [kind |-> "split", key |-> got[i]]]
    /\ pub' = [pub EXCEPT ![now[i]] = got[i]]
    /\ pc' = [pc EXCEPT ![i] = "ca"]
    /\ UNCHANGED <<clock, runs, now, key, got, priv, cert, serial, old, pems>>

(***************************************************************************)
(* os.system('openssl ca ... -out cert -in csr'): openssl signs the        *)
(* request in the CSR file (it skips a public key block before it), writes *)
(* the certificate and its <serial>.pem copy, and moves ca-serial to       *)
(* ca-serial.old; or it fails (no CSR file, a subject already issued, ...) *)
(* and changes nothing.  Either way _execute goes on.                      *)
(***************************************************************************)
Ca(i) ==
    /\ pc[i] = "ca"
    /\ \/ /\ csr[now[i]].kind # "none"
          /\ serial <= MaxSerial
          /\ cert' = [cert EXCEPT ![now[i]] =
                         [key |-> csr[now[i]].key, serial |-> serial]]
          /\ pems' = pems \cup {serial}
          /\ old' = serial
          /\ serial' = serial + 1
       \/ UNCHANGED <<cert, pems, old, serial>>
    /\ pc' = [pc EXCEPT ![i] = "cleanup"]
    /\ UNCHANGED <<clock, runs, now, key, got, csr, priv, pub>>

(***************************************************************************)
(* Mutant of Cleanup: a missing <serial>.pem is ignored (os.remove in a    *)
(* try/except OSError).                                                    *)
(***************************************************************************)
CleanupIgnoreMissing(i) ==
    /\ pc[i] = "cleanup"
    /\ \/ /\ old # 0
          /\ pems' = pems \ {old}
          /\ pc' = [pc EXCEPT ![i] = "done"]
       \/ /\ old = 0
          /\ pc' = [pc EXCEPT ![i] = "failed"]
          /\ UNCHANGED pems
    /\ UNCHANGED <<clock, runs, now, key, got, csr, priv, pub, cert, serial, old>>

(***************************************************************************)
(* Mutant of Cleanup: every <serial>.pem left in the CA directory is       *)
(* removed, not only the last one.                                         *)
(***************************************************************************)
CleanupAllPems(i) ==
    /\ pc[i] = "cleanup"
    /\ \/ /\ old \in pems
          /\ pems' = {}
          /\ pc' = [pc EXCEPT ![i] = "done"]
       \/ /\ old \notin pems
          /\ pc' = [pc EXCEPT ![i] = "failed"]
          /\ UNCHANGED pems
    /\ UNCHANGED <<clock, runs, now, key, got, csr, priv, pub, cert, serial, old>>

(***************************************************************************)
(* Mutant of Cleanup: the serial is read from ca-serial (the next one)    *)
(* instead of ca-serial.old.                                               *)
(***************************************************************************)
CleanupNextSerial(i) ==
    /\ pc[i] = "cleanup"
    /\ \/ /\ serial \in pems
          /\ pems' = pems \ {serial}
          /\ pc' = [pc EXCEPT ![i] = "done"]
       \/ /\ serial \notin pems
          /\ pc' = [pc EXCEPT ![i] = "failed"]
          /\ UNCHANGED pems
    /\ UNCHANGED <<clock, runs, now, key, got, csr, priv, pub, cert, serial, old>>

(***************************************************************************)
(* last_serial = open(ca-serial.old).read(); os.remove(<last_serial>.pem): *)
(* a missing ca-serial.old raises IOError, a missing .pem OSError; on      *)
(* success _execute logs 'OK' and returns the file names.                  *)
(***************************************************************************)
Cleanup(i) ==
    /\ pc[i] = "cleanup"
    /\ \/ /\ old \in pems
          /\ pems' = pems \ {old}
          /\ pc' = [pc EXCEPT ![i] = "done"]
       \/ /\ old \notin pems
          /\ pc' = [pc EXCEPT ![i] = "failed"]
          /\ UNCHANGED pems
    /\ UNCHANGED <<clock, runs, now, key, got, csr, priv, pub, cert, serial, old>>

----------------------------------------------------------------------------
(* Environment *)

\* A second passes.
Tick ==
    /\ clock < MaxTime
    /\ clock' = clock + 1
    /\ UNCHANGED <<runs, pc, now, key, got, Files>>

\* The CLI process is killed between two steps; its files stay.
CliKilled(i) ==
    /\ Killable
    /\ pc[i] \notin Finished
    /\ pc' = [pc EXCEPT ![i] = "failed"]
    /\ UNCHANGED <<clock, runs, now, key, got, Files>>

Step(i) ==
    \/ Begin(i)
    \/ Req(i)
    \/ SplitRead(i)
    \/ SplitWrite(i)
    \/ Ca(i)
    \/ Cleanup(i)

Next ==
    \/ \E i \in Procs : Step(i) \/ CliKilled(i)
    \/ Tick

Spec == Init /\ [][Next]_vars

----------------------------------------------------------------------------
(* Properties *)

\* The files named by timestamp t hold one key pair, certificate included.
MaterialMatches(t) ==
    /\ priv[t] # NoKey
    /\ pub[t] = priv[t]
    /\ csr[t] = [kind |-> "split", key |-> priv[t]]
    /\ cert[t].key = priv[t]

(***************************************************************************)
(* When _execute returns, the private key, public key, CSR and certificate *)
(* files it reports ("Crypto material generated and saved in: ...") exist  *)
(* and belong to one key pair.                                              *)
(***************************************************************************)
ReportedMaterialMatches ==
    [][\A i \in Procs :
         (pc[i] = "cleanup" /\ pc'[i] = "done") => MaterialMatches(now[i])']_vars

(***************************************************************************)
(* The comment before the os.remove: the <serial>.pem removed from the CA  *)
(* directory is not needed "because we have its copy in ./out-cert"; some  *)
(* out-cert file holds the certificate with that serial.                    *)
(***************************************************************************)
PemRemovalHasCopy ==
    \A s \in pems \ pems' : \E t \in Times : cert'[t].serial = s

RemovedPemHasCopy == [][PemRemovalHasCopy]_vars

(***************************************************************************)
(* When no invocation is running, no <serial>.pem copy is left in the CA   *)
(* directory: each certificate's copy was removed by its own invocation.   *)
(***************************************************************************)
NoStrayPem ==
    (\A i \in Procs : pc[i] \in Finished) => pems = {}

=============================================================================
