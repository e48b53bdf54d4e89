---------------------------- MODULE MCConfigFile ----------------------------
(* Constants of ConfigFile for TLC. *)
EXTENDS ConfigFile

\* Two options, a and b; each name is also a character of the values.
MCOptNames == <<<<"a">>, <<"b">>>>

\* A value character, '=' and the line feed.
MCAlphabetLF == {"b", "=", LF}

=============================================================================
