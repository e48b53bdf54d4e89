----------------------------- MODULE ConfigFile -----------------------------
(***************************************************************************)
(* The config file round trip of zato/cli/__init__.py: ZatoCommand.        *)
(* store_config writes the options of a command to zato.<now>.config, and  *)
(* FromConfigFile.execute reads such a file back and sets every option it  *)
(* finds on its own args.                                                  *)
(*                                                                         *)
(* An option value is what argparse leaves in the Namespace: None, a bool *)
(* or a string.  Strings are sequences of one-character strings over a     *)
(* small alphabet; option names are sequences too, so that a value can     *)
(* spell one.  str(True) is abstracted to the one-character string "T",    *)
(* which is in no alphabet the model uses.                                 *)
(***************************************************************************)
EXTENDS PyStr, SequencesExt

CONSTANTS
    OptNames,   \* option names in the order args._get_kwargs() sorts them
    Alphabet,   \* characters of the string values
    MaxLen      \* longest string value

NoneV == [t |-> "none"]
FalseV == [t |-> "bool", b |-> FALSE]
TrueV == [t |-> "bool", b |-> TRUE]
StrV(s) == [t |-> "str", s |-> s]

Values == {NoneV, FalseV, TrueV} \cup {StrV(s) : s \in BoundedSeq(Alphabet, MaxLen)}

Opts == ToSet(OptNames)

\* Whitespace that str.strip() with no argument removes.
WS == {" ", LF}

VARIABLES
    args,      \* the Namespace the command was run with
    file,      \* the body of zato.<now>.config, once written
    phase,     \* "start", "stored", then "replayed" or "raised"
    replayed   \* the options FromConfigFile set, name -> string

vars == <<args, file, phase, replayed>>

\* Python truthiness: 'if value:'
Truthy(v) == v # NoneV /\ v # FalseV /\ v # StrV(<<>>)

\* '{}'.format(value)
Str(v) ==
    CASE v.t = "str" -> v.s
      [] v = TrueV -> <<"T">>
      [] v = FalseV -> <<"F">>
      [] v = NoneV -> <<"N">>

----------------------------------------------------------------------------
(* store_config *)

\* file_args.write('{}={}\n'.format(arg, value))
Line(o, v) == o \o <<"=">> \o Str(v) \o <<LF>>

(***************************************************************************)
(* Mutant of Body: 'if value is not None' in place of 'if value', so False *)
(* and '' are written too.                                                 *)
(***************************************************************************)
BodyNotNone(a) ==
    <<"#", LF>> \o
    FlattenSeq([j \in 1..Len(OptNames) |->
                  IF a[OptNames[j]] # NoneV THEN Line(OptNames[j], a[OptNames[j]])
                  ELSE <<>>])

(***************************************************************************)
(* The file: the '# <now> - <user>@<host>' header line, then one line per  *)
(* option with a truthy value, in _get_kwargs() order.                     *)
(***************************************************************************)
Body(a) ==
    <<"#", LF>> \o
    FlattenSeq([j \in 1..Len(OptNames) |->
                  IF Truthy(a[OptNames[j]]) THEN Line(OptNames[j], a[OptNames[j]])
                  ELSE <<>>])

----------------------------------------------------------------------------
(* FromConfigFile.execute *)

\* 'for line in f': each line runs up to and including its '\n'.
Starts(s) == {1} \cup {i + 1 : i \in {i \in 1..Len(s) : s[i] = LF /\ i < Len(s)}}

LineAt(s, st) == SubSeq(s, st, Min({i \in st..Len(s) : s[i] = LF} \cup {Len(s)}))

\* line.lstrip().startswith('#')
IsComment(l) == LET t == LStrip(l, WS) IN t # <<>> /\ t[1] = "#"

\* The index of the first '=', or 0: line.split('=', 1) splits there.
EqAt(l) == SelectInSeq(l, LAMBDA c : c = "=")

ArgOf(l) == Strip(SubSeq(l, 1, EqAt(l) - 1), WS)
ValueOf(l) == Strip(SubSeq(l, EqAt(l) + 1, Len(l)), WS)

Entries(s) == {st \in Starts(s) : ~IsComment(LineAt(s, st))}

\* 'arg, value = line.split(...)' raises ValueError on a line with no '='.
Raises(s) == \E st \in Entries(s) : EqAt(LineAt(s, st)) = 0

\* setattr(args, arg, value) for each line in turn: the last line wins.
Read(s) ==
    LET names == {ArgOf(LineAt(s, st)) : st \in Entries(s)}
        last(n) == Max({st \in Entries(s) : ArgOf(LineAt(s, st)) = n})
    IN  [n \in names |-> ValueOf(LineAt(s, last(n)))]

----------------------------------------------------------------------------
TypeOK ==
    /\ args \in [Opts -> Values]
    /\ file \in Seq(Alphabet \cup {"#", "=", LF, "T", "F", "N"} \cup UNION {ToSet(o) : o \in Opts})
    /\ phase \in {"start", "stored", "replayed", "raised"}

Init ==
    /\ args \in [Opts -> Values]
    /\ file = <<>>
    /\ phase = "start"
    /\ replayed = <<>>

\* store_config(args), from ZatoCommand.__init__ when --store-config is given.
StoreConfig ==
    /\ phase = "start"
    /\ file' = Body(args)
    /\ phase' = "stored"
    /\ UNCHANGED <<args, replayed>>

(***************************************************************************)
(* The loop of FromConfigFile.execute over the file; it raises at the     *)
(* first line without '='.  What follows the loop (self.batch) is          *)
(* ZatoCommandRun's ReplayBatch.                                           *)
(***************************************************************************)
ReadConfig ==
    /\ phase = "stored"
    /\ IF Raises(file)
         THEN /\ phase' = "raised"
              /\ UNCHANGED replayed
         ELSE /\ phase' = "replayed"
              /\ replayed' = Read(file)
    /\ UNCHANGED <<args, file>>

Next == StoreConfig \/ ReadConfig

Spec == Init /\ [][Next]_vars

----------------------------------------------------------------------------
(* Properties *)

\* What store_config promises to keep: each truthy option, as str() and strip() leave it.
Kept(a) == [o \in {o \in Opts : Truthy(a[o])} |-> Strip(Str(a[o]), WS)]

(***************************************************************************)
(* A replay either fails with an error or sets exactly the options that    *)
(* store_config saved, each to its own saved value (as str() and strip()   *)
(* leave it): no option is lost, added or taken from another option's line.*)
(***************************************************************************)
ReplayMatchesStored == phase = "replayed" => replayed = Kept(args)

=============================================================================
