----------------------------- MODULE MCCACreate -----------------------------
(***************************************************************************)
(* CACreate instantiated for TLC.  The cfg files choose the invocations    *)
(* and whether a CLI process may be killed.                                *)
(***************************************************************************)
EXTENDS CACreate

\* Two seconds: invocations start in the same second or in different ones.
MCMaxTime == 1

\* Three runs: a second run can find the files of a first one, a third run
\* the ca-serial.old of a second one.
MCMaxRuns == 3

MCMaxSerial == 3

=============================================================================
