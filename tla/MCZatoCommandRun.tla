--------------------------- MODULE MCZatoCommandRun -------------------------
(***************************************************************************)
(* ZatoCommandRun instantiated for TLC.                                    *)
(***************************************************************************)
EXTENDS ZatoCommandRun

\* Two password options (say --odb-password and --tech-account-password).
MCPwdOpts == {"odb_password", "tech_account_password"}

\* The empty string and two different passwords: enough for a mismatch.
MCWords == {"", "a", "b"}

\* Every combination of the three class attributes.
MCClasses == [empty : BOOLEAN, file : BOOLEAN, confirm : BOOLEAN]

\* Create commands: an empty directory needed, no marker file.
MCCreateClasses == {[empty |-> TRUE, file |-> FALSE, confirm |-> TRUE]}

\* Three invocations: a create command, a second one on the populated
\* directory, and a replay of a stored config.
MCMaxRuns == 3

=============================================================================
