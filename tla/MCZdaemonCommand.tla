------------------------- MODULE MCZdaemonCommand --------------------------
(* Constants of ZdaemonCommand for TLC. *)
EXTENDS ZdaemonCommand

\* Three conf files, so that a failure can come in the middle of the loop.
MCPorts == {1, 2, 3}

\* Ports 10, 17 and 70 in the order sorted() gives their file names: one
\* digit shared, one leading and one trailing zero.
MCPortDigits == <<<<"1", "0">>, <<"1", "7">>, <<"7", "0">>>>

=============================================================================
