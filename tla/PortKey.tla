------------------------------ MODULE PortKey ------------------------------
(***************************************************************************)
(* The ports_pids keys of ManageCommand._zdaemon_command in                *)
(* zato/cli/__init__.py.  For each globbed conf file the loop computes     *)
(*                                                                         *)
(*     port = conf_file.strip(prefix).strip('.').lstrip('0')              *)
(*                                                                         *)
(* with prefix = <component_dir>/config/zdaemon/zdaemon, and stores the    *)
(* pid zdaemon reports under that key.  str.strip(chars) removes, from     *)
(* both ends, every character that occurs in chars: it strips a set of     *)
(* characters, not a prefix.  Strings are sequences of one-character      *)
(* strings here, and a conf file is named zdaemon.<port>.conf.  ZatoManage *)
(* abstracts the key to the port; this module computes it.                 *)
(***************************************************************************)
EXTENDS PyStr

CONSTANTS
    DirChars,   \* characters the component directory's path is made of
    DirLen,     \* longest path below the root the model gives it
    Ports       \* the port numbers of the conf files, as digit strings

VARIABLES
    dir,          \* the component directory, os.path.abspath(args.component_dir)
    globbed,      \* ports whose conf file the glob returned
    todo,         \* ports whose conf file the loop has not reached yet
    ports_pids    \* the dictionary built so far, as a set of <<key, port>>

vars == <<dir, globbed, todo, ports_pids>>

\* The characters of '/config/zdaemon/zdaemon', which follows the directory.
Fixed == <<"/", "c", "o", "n", "f", "i", "g", "/",
           "z", "d", "a", "e", "m", "o", "n", "/",
           "z", "d", "a", "e", "m", "o", "n">>

Dirs == {<<"/">> \o s : s \in UNION {[1..n -> DirChars] : n \in 0..DirLen}}

\* os.path.join(self.component_dir, 'config', 'zdaemon', 'zdaemon')
Prefix(d) == d \o Fixed

\* The conf file of a port, as sorted(glob(...)) returns it.
ConfFile(d, p) == Prefix(d) \o <<".">> \o p \o <<".", "c", "o", "n", "f">>

(***************************************************************************)
(* Mutant of Key: strip('0') in place of lstrip('0'), which also eats the *)
(* trailing zeros of a port.                                               *)
(***************************************************************************)
KeyBothZeros(d, f) == Strip(Strip(Strip(f, CharsOf(Prefix(d))), {"."}), {"0"})

\* conf_file.strip(prefix).strip('.').lstrip('0')
Key(d, f) == LStrip(Strip(Strip(f, CharsOf(Prefix(d))), {"."}), {"0"})

\* Every character a conf file name can hold.
Chars == DirChars \cup CharsOf(Fixed) \cup {"."} \cup UNION {CharsOf(p) : p \in Ports}

TypeOK ==
    /\ dir \in Dirs
    /\ globbed \subseteq Ports
    /\ todo \subseteq globbed
    /\ ports_pids \subseteq Seq(Chars) \X globbed

\* Some of the ports have a conf file; the loop has not started.
Init ==
    /\ dir \in Dirs
    /\ globbed \in SUBSET Ports
    /\ todo = globbed
    /\ ports_pids = {}

(***************************************************************************)
(* One pass of the for loop: the port key of the conf file, the zdaemon    *)
(* call (its pid stands here as the port whose daemon answered), and       *)
(* ports_pids[port] = pid, which replaces an entry of the same key.  The   *)
(* conf files are taken in any order; which entry a collision keeps        *)
(* depends on it, the set of keys does not.                                *)
(***************************************************************************)
Visit ==
    \E p \in todo :
        LET k == Key(dir, ConfFile(dir, p))
        IN  /\ ports_pids' = {e \in ports_pids : e[1] # k} \cup {<<k, p>>}
            /\ todo' = todo \ {p}
            /\ UNCHANGED <<dir, globbed>>

\* When todo is empty the loop is over and _zdaemon_command returns.
Next == Visit

Spec == Init /\ [][Next]_vars

----------------------------------------------------------------------------
(* Properties *)

(***************************************************************************)
(* Every conf file the loop has handled is in ports_pids under its own     *)
(* port, and nothing else is: no port key is clipped and no daemon's pid   *)
(* is overwritten by another's.  Callers look the pids up by port.         *)
(***************************************************************************)
ReportKeyedByPort == ports_pids = {<<p, p>> : p \in globbed \ todo}

=============================================================================
