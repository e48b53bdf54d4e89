--------------------------- MODULE ZatoCommandRun ---------------------------
(***************************************************************************)
(* ZatoCommand.run of zato/cli/__init__.py, with _check_passwords,         *)
(* _get_password, store_config and FromConfigFile.execute.                 *)
(*                                                                         *)
(* Each CLI invocation is an instance of a command class, given by its     *)
(* needs_empty_dir, file_needed and needs_password_confirm attributes.     *)
(* All invocations work on one target directory.  run checks that the     *)
(* directory is empty (when the class needs it) and that the marker file  *)
(* is there (when the class names one), prompts for every password option  *)
(* that the command line left empty, and calls execute.  A create command *)
(* (needs_empty_dir) populates the directory in execute.                   *)
(***************************************************************************)
EXTENDS Naturals, FiniteSets

CONSTANTS
    Procs,    \* CLI invocations
    PwdOpts,  \* the options of self.opts whose name contains 'password'
    Words,    \* what a user can type at a getpass prompt, Empty included
    Classes,  \* command classes: [empty, file, confirm : BOOLEAN]
    Empty,    \* the empty string
    MaxRuns   \* invocations (commands and replays) in a behaviour

ASSUME ClassesAssumption ==
    /\ Empty \in Words
    /\ Classes \subseteq [empty : BOOLEAN, file : BOOLEAN, confirm : BOOLEAN]
    /\ Classes # {}
    /\ MaxRuns \in Nat

VARIABLES
    dir,      \* what is in the target directory: files of earlier work or of invocations
    marker,   \* whether the file_needed marker file exists
    pc,       \* where each invocation is
    cls,      \* each invocation's command class
    given,    \* the password options as given on the command line
    args,     \* the args namespace run works on
    todo,     \* password options _check_passwords has still to look at
    cur,      \* the option being prompted for
    p1,       \* the first getpass entry of the current prompt round
    stored,   \* the option sets in zato.<now>.config files
    runs      \* invocations begun so far

vars == <<dir, marker, pc, cls, given, args, todo, cur, p1, stored, runs>>

\* Files in the directory before any invocation runs.
Earlier == "earlier"

NoOpt == "none"

Finished == {"idle", "done", "exit2", "crashed"}

Passwords == [PwdOpts -> Words]

\* Mutant of Stored: falsy options are written too.
StoredAll(a) == [o \in PwdOpts |-> a[o]]

\* A config file keeps the truthy options only (store_config, l. 213-215).
Stored(a) == [o \in {o \in PwdOpts : a[o] # Empty} |-> a[o]]

\* What a config file can hold: some options, each with a truthy value.
StoredConfigs == UNION {[S -> Words \ {Empty}] : S \in SUBSET PwdOpts}

TypeOK ==
    /\ dir \subseteq Procs \cup {Earlier}
    /\ marker \in BOOLEAN
    /\ pc \in [Procs -> Finished \cup {"dircheck", "filecheck", "collect",
                                       "prompt1", "prompt2", "execute", "replay"}]
    /\ cls \in [Procs -> Classes]
    /\ given \in [Procs -> Passwords]
    /\ args \in [Procs -> Passwords]
    /\ todo \in [Procs -> SUBSET PwdOpts]
    /\ cur \in [Procs -> PwdOpts \cup {NoOpt}]
    /\ p1 \in [Procs -> Words]
    /\ stored \subseteq StoredConfigs
    /\ runs \in 0..MaxRuns

\* Any directory, with or without the marker file; no config file stored yet.
Init ==
    /\ dir \in {{}, {Earlier}}
    /\ marker \in BOOLEAN
    /\ pc = [i \in Procs |-> "idle"]
    /\ cls = [i \in Procs |-> CHOOSE k \in Classes : TRUE]
    /\ given = [i \in Procs |-> [o \in PwdOpts |-> Empty]]
    /\ args = given
    /\ todo = [i \in Procs |-> {}]
    /\ cur = [i \in Procs |-> NoOpt]
    /\ p1 = [i \in Procs |-> Empty]
    /\ stored = {}
    /\ runs = 0

----------------------------------------------------------------------------
(***************************************************************************)
(* An invocation of command class k starts with the passwords of its      *)
(* command line; with --store-config, __init__ saves the options first     *)
(* (store_config).  A CLI slot runs one command after another.             *)
(***************************************************************************)
Start(i, k, g, store) ==
    /\ pc[i] \in Finished
    /\ runs < MaxRuns
    /\ runs' = runs + 1
    /\ cls' = [cls EXCEPT ![i] = k]
    /\ given' = [given EXCEPT ![i] = g]
    /\ args' = [args EXCEPT ![i] = g]
    /\ stored' = IF store THEN stored \cup {Stored(g)} ELSE stored
    /\ pc' = [pc EXCEPT ![i] = "dircheck"]
    /\ UNCHANGED <<dir, marker, todo, cur, p1>>

\* if self.needs_empty_dir and os.listdir(work_dir): sys.exit(2)
DirCheck(i) ==
    /\ pc[i] = "dircheck"
    /\ pc' = [pc EXCEPT ![i] = IF cls[i].empty /\ dir # {} THEN "exit2"
                                                          ELSE "filecheck"]
    /\ UNCHANGED <<dir, marker, cls, given, args, todo, cur, p1, stored, runs>>

(***************************************************************************)
(* if self.file_needed and the file does not exist: the message comes from *)
(* self._on_file_missing(work_args).  ZatoCommand defines no such method   *)
(* and CACreateCommand's takes no argument, so the call raises instead of  *)
(* reaching sys.exit(2).  Otherwise the password options are collected.   *)
(***************************************************************************)
FileCheck(i) ==
    /\ pc[i] = "filecheck"
    /\ \/ /\ cls[i].file /\ ~marker
          /\ pc' = [pc EXCEPT ![i] = "crashed"]
          /\ UNCHANGED todo
       \/ /\ ~(cls[i].file /\ ~marker)
          /\ todo' = [todo EXCEPT ![i] = PwdOpts]
          /\ pc' = [pc EXCEPT ![i] = "collect"]
    /\ UNCHANGED <<dir, marker, cls, given, args, cur, p1, stored, runs>>

(***************************************************************************)
(* One iteration of _check_passwords: an option with a truthy value is    *)
(* kept, an empty one is prompted for.  The options are independent, so   *)
(* the model takes them in any order.                                      *)
(***************************************************************************)
Collect(i) ==
    /\ pc[i] = "collect"
    /\ \E o \in todo[i] :
         \/ /\ args[i][o] # Empty
            /\ todo' = [todo EXCEPT ![i] = @ \ {o}]
            /\ UNCHANGED <<cur, pc>>
         \/ /\ args[i][o] = Empty
            /\ cur' = [cur EXCEPT ![i] = o]
            /\ pc' = [pc EXCEPT ![i] = "prompt1"]
            /\ UNCHANGED todo
    /\ UNCHANGED <<dir, marker, cls, given, args, p1, stored, runs>>

\* _check_passwords returns; run calls self.execute(args).
CollectDone(i) ==
    /\ pc[i] = "collect"
    /\ todo[i] = {}
    /\ pc' = [pc EXCEPT ![i] = "execute"]
    /\ UNCHANGED <<dir, marker, cls, given, args, todo, cur, p1, stored, runs>>

\* setattr(args, opt_name, password), and on to the next option.
SetPassword(i, w) ==
    /\ args' = [args EXCEPT ![i][cur[i]] = w]
    /\ todo' = [todo EXCEPT ![i] = @ \ {cur[i]}]
    /\ pc' = [pc EXCEPT ![i] = "collect"]

(***************************************************************************)
(* _get_password: the first getpass.  Without confirmation it is returned  *)
(* as it is, empty or not (strip('\n') changes nothing: getpass returns a  *)
(* line without its newline).                                               *)
(***************************************************************************)
Prompt1(i, w) ==
    /\ pc[i] = "prompt1"
    /\ \/ /\ ~cls[i].confirm
          /\ SetPassword(i, w)
          /\ UNCHANGED p1
       \/ /\ cls[i].confirm
          /\ p1' = [p1 EXCEPT ![i] = w]
          /\ pc' = [pc EXCEPT ![i] = "prompt2"]
          /\ UNCHANGED <<args, todo>>
    /\ UNCHANGED <<dir, marker, cls, given, cur, stored, runs>>

\* Mutant of Prompt2: an empty password typed twice is accepted.
Prompt2AcceptEmpty(i, w) ==
    /\ pc[i] = "prompt2"
    /\ \/ /\ w # p1[i]
          /\ pc' = [pc EXCEPT ![i] = "prompt1"]
          /\ UNCHANGED <<args, todo>>
       \/ /\ w = p1[i]
          /\ SetPassword(i, p1[i])
    /\ UNCHANGED <<dir, marker, cls, given, cur, p1, stored, runs>>

(***************************************************************************)
(* The second getpass: a mismatch ('Passwords do not match') or an empty  *)
(* password ('No password entered') starts the loop again.                 *)
(***************************************************************************)
Prompt2(i, w) ==
    /\ pc[i] = "prompt2"
    /\ \/ /\ w # p1[i] \/ p1[i] = Empty
          /\ pc' = [pc EXCEPT ![i] = "prompt1"]
          /\ UNCHANGED <<args, todo>>
       \/ /\ w = p1[i] /\ p1[i] # Empty
          /\ SetPassword(i, p1[i])
    /\ UNCHANGED <<dir, marker, cls, given, cur, p1, stored, runs>>

\* The command's execute; a create command writes its files into the directory.
Execute(i) ==
    /\ pc[i] = "execute"
    /\ dir' = IF cls[i].empty THEN dir \cup {i} ELSE dir
    /\ pc' = [pc EXCEPT ![i] = "done"]
    /\ UNCHANGED <<marker, cls, given, args, todo, cur, p1, stored, runs>>

(***************************************************************************)
(* 'zato from-config-file': FromConfigFile.execute sets every option of a *)
(* stored config file on args (l. 286-295).  run has no directory, marker  *)
(* or password work for it (no file_needed, no opts).                       *)
(***************************************************************************)
Replay(i, c) ==
    /\ pc[i] \in Finished
    /\ runs < MaxRuns
    /\ runs' = runs + 1
    /\ c \in stored
    /\ args' = [args EXCEPT ![i] = [o \in PwdOpts |->
                                      IF o \in DOMAIN c THEN c[o] ELSE Empty]]
    /\ pc' = [pc EXCEPT ![i] = "replay"]
    /\ UNCHANGED <<dir, marker, cls, given, todo, cur, p1, stored>>

(***************************************************************************)
(* 'if not self.batch': no class defines batch, so this raises             *)
(* AttributeError (and check_password on the next line is undefined too); *)
(* the self.execute(args) after it would call FromConfigFile.execute       *)
(* again, not the stored command.                                           *)
(***************************************************************************)
ReplayBatch(i) ==
    /\ pc[i] = "replay"
    /\ pc' = [pc EXCEPT ![i] = "crashed"]
    /\ UNCHANGED <<dir, marker, cls, given, args, todo, cur, p1, stored, runs>>

Step(i) ==
    \/ DirCheck(i)
    \/ FileCheck(i)
    \/ Collect(i)
    \/ CollectDone(i)
    \/ Execute(i)
    \/ ReplayBatch(i)
    \/ \E w \in Words : Prompt1(i, w) \/ Prompt2(i, w)

Next ==
    \E i \in Procs :
        \/ \E k \in Classes, g \in Passwords, store \in BOOLEAN : Start(i, k, g, store)
        \/ \E c \in stored : Replay(i, c)
        \/ Step(i)

Spec == Init /\ [][Next]_vars

----------------------------------------------------------------------------
(* Properties *)

(***************************************************************************)
(* When run calls execute, every password option is filled: one given on  *)
(* the command line is passed on unchanged, and for a class with           *)
(* needs_password_confirm one prompted for is not empty.                   *)
(***************************************************************************)
ExecuteWithPasswords ==
    \A i \in Procs : pc[i] \in {"execute", "done"} =>
        \A o \in PwdOpts :
            /\ given[i][o] # Empty => args[i][o] = given[i][o]
            /\ cls[i].confirm => args[i][o] # Empty

(***************************************************************************)
(* A command that needs an empty directory (needs_empty_dir) populates the *)
(* target directory only while it is empty, as run's check and its message *)
(* 'please re-run the command in an empty directory' mean.                  *)
(***************************************************************************)
ExecuteInEmptyDir ==
    [][\A i \in Procs :
         (pc[i] = "execute" /\ pc'[i] = "done" /\ cls[i].empty) => dir = {}]_vars

(***************************************************************************)
(* A missing marker file makes run log _on_file_missing's message and exit *)
(* with status 2.                                                           *)
(***************************************************************************)
MissingMarkerExits ==
    [][\A i \in Procs :
         (pc[i] = "filecheck" /\ pc'[i] # "filecheck" /\ cls[i].file /\ ~marker)
            => pc'[i] = "exit2"]_vars

(***************************************************************************)
(* FromConfigFile.execute "runs the command with arguments read from a     *)
(* config file": once the options are read, the stored command runs.      *)
(***************************************************************************)
ReplayRunsCommand ==
    [][\A i \in Procs : pc[i] = "replay" => pc'[i] \in {"replay", "execute"}]_vars

=============================================================================
