---------------------------- MODULE MCZatoManage ----------------------------
(***************************************************************************)
(* Small instances of ZatoManage for TLC.                                  *)
(***************************************************************************)
EXTENDS ZatoManage

\* Three ports, so that a stop or status loop visits several conf files.
MCPorts == {1, 2, 3}

\* Two of the four marker files: enough for none, exactly one and several.
MCCommandFiles == {"zato-server-dir", "zato-lb-dir"}

\* The concurrent runs use two ports to stay small.
MCPortsSmall == {1, 2}
=============================================================================
