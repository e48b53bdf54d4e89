# Formal models of the Zato CLI

TLA+ models, TLC runs and TLAPS proofs for the code under `src/`:

* `src/code/zato-cli/src/zato/cli/__init__.py`: the base of the `zato` command-line
  tool. It has four parts: `ZatoCommand`, `FromConfigFile`, `CACreateCommand` and
  `ManageCommand`.
* `src/code/zato-server/test/zato/server/test_message.py`: unit tests of
  `JSONPointerStore` and `XPathStore`. The stores' own code (`zato.server.message`) is
  not under `src/`.

## 1. Inventory

### Components

| Component | Source | State it keeps | Operations |
|---|---|---|---|
| ManageCommand (`ZatoManage`, `ZdaemonCall`, `PortKey`) | `__init__.py:416-515` | On disk: the component directory's marker file, the zdaemon conf files `config/zdaemon/zdaemon*.conf`, and the zdaemon daemons they describe. In memory: the glob snapshot and the `ports_pids` dict. | `execute` (marker-file dispatch), `_zdaemon_start`, `_zdaemon_command(stop/status)`, `_execute_zdaemon_command` |
| CACreateCommand (`CACreate`) | `__init__.py:301-414` | On disk, in the shared CA directory: `out-csr`, `out-priv`, `out-pub` and `out-cert` files; the openssl serial files `ca-serial` and `ca-serial.old`; `<serial>.pem` copies. Also a temporary openssl config file. | `_execute`: write the config, `openssl req`, split the CSR, `openssl ca`, remove the `.pem` copy |
| ZatoCommand.run and password prompts (`ZatoCommandRun`) | `__init__.py:140-279` | The parsed `args` (option values), the prompt loop's two entries | `run` (empty-directory check, marker-file check, password collection, `execute`), `_get_password`, `_check_passwords`, `_get_arg` |
| store_config / FromConfigFile (`ZatoCommandRun`, `ConfigFile`) | `__init__.py:206-223, 281-299` | The `zato.<now>.config` file | `store_config` writes the truthy options. `FromConfigFile.execute` reads them back. |
| Glue | `__init__.py:40-136, 197-204, 225-233` | none | option tables, logging template, `_get_now`, `_get_user_host`, `_get_engine`, `_get_session` |
| JSONPointerStore (`PointerStore`) | spec §4.1, tests `test_message.py:30-157` | name → pointer path | `add`, `get`, `set(in_place)` |
| XPathStore (not modelled) | spec §4.2, tests `test_message.py:159-197` | name → compiled expression | `add`, `invoke`, `replace` |

### How the parts interact

Every command is a separate OS process. Processes share nothing in memory. They
share the file system, and through it they interact with the external programs
zdaemon and openssl:

* `ManageCommand` shares with other `zato` invocations, and with the zdaemon daemons,
  the component directory. Its conf files are what `stop` and `status` enumerate.
* `CACreateCommand` invocations share the CA directory and openssl's serial files.
* `ZatoCommand.run` is the common driver. It checks directories, calls
  `_check_passwords`, and then calls the subclass's `execute`.
* The two stores are plain in-memory maps used by the server's message layer. They
  have no interaction with the CLI.

### What is hard

There is no threading in this code, but there is concurrency: several CLI processes
can work on the same directory, and nothing (no lock file, no `O_EXCL`) keeps them
apart. Several things read state in one step and act on it in a later one: a glob
snapshot, an empty-directory check, the `ca-serial.old` file. External programs can
fail, and the code either raises partway through a loop (zdaemon) or ignores the
failure (openssl, through `os.system`). A CLI process can be killed between two
steps, and whatever it has already written stays on disk.

### What makes each part correct

* ManageCommand:
  * every running daemon has its conf file, so that `stop` can find it;
  * a `stop` that returns has taken the whole component down.
* CACreateCommand: the private key, public key, CSR and certificate that `_execute`
  reports belong to one key pair, no `.pem` copy is left behind, and the `.pem` it
  removes has its certificate in `out-cert` (as the comment before `os.remove` says).
* ZatoCommand.run: `execute` runs only in an empty directory (when one is needed) and
  only with every password option filled, where a confirmed password is one the user
  typed twice. A missing marker file exits with status 2 and a message.
* store_config / FromConfigFile: replaying a stored config runs the command with the
  stored options.
* Stores (spec §8): re-adding a name overrides it, names are independent, `get`
  returns the default for a missing path or a null value but not for a falsy one, and
  `set` writes the value at its path and changes nothing beside it.

## 2. Plan

Order of work, the most important behaviour first:

1. **ZatoManage** (done): ManageCommand with concurrent CLI invocations.
   **ZatoManageProofs** (done): type correctness, and the absence of orphan daemons
   for serial invocations.
2. **CACreate** (done): `_execute` as a sequence of file-system steps per invocation,
   with openssl calls that may fail, CLI kills, and concurrent invocations in the
   same second. **CACreateProofs** (done): type correctness, and the kept copy of every
   removed `.pem`.
3. **ZatoCommandRun** (done): `run`, `_get_password`, `_check_passwords`,
   `store_config` and `FromConfigFile.execute`. **ZatoCommandRunProofs** (done): type
   correctness, and the passwords `execute` receives.
4. **ZdaemonCall** (done): one zdaemon call with its pipes, for the `wait()`-before-
   `communicate()` deadlock, with liveness under fairness and a proof that writes never
   block when the output fits. **PortKey** (done): the `strip(prefix)` port key at
   character level.
5. **ConfigFile** (done): the text of the stored config file and its parsing.
6. **PointerStore** (done, spec-modelled): `JSONPointerStore`'s path walk for `get`
   and `set`, with a run on what a copy-write changes.
7. **Proofs of the checked safety properties** (done): serial `StopLeavesNothing`,
   `NoStrayPem`, `ReportedMaterialMatches`, and `ReportKeyedByPort` both for PortKey
   and, through a refinement, for the composed ZdaemonCommand.
8. Next: ConfigFile's round trip for values without line feeds, once its parser is
   written without recursion over the lines.

## 3. ZatoManage: ManageCommand

### State

| Variable | Code |
|---|---|
| `markers` | the marker files in the component directory, as seen by `os.listdir` (`execute`, l. 497) |
| `conf` | ports whose `config/zdaemon/zdaemon.<port>.conf` exists (written l. 448, globbed l. 454, removed l. 465) |
| `running` | ports whose zdaemon daemon runs. zdaemon is external: each call either does its job and exits 0, or exits non-zero. |
| `pc`, `command`, `cur` | per CLI invocation (`Procs`): where it is, which zdaemon command it issues, and the port at hand |
| `todo`, `globbed` | the remaining and the whole sorted glob snapshot (l. 453-454, 459) |
| `ports_pids` | the dict built at l. 457-462: no entry, a pid parsed from `program running; pid=N` (l. 487-492), or None |

### Actions

| Action | Code |
|---|---|
| `InvokeBadDir` | `execute`: zero or several marker files, so print and `sys.exit(2)` |
| `InvokeStart` | `execute` dispatches to a start handler. `_zdaemon_start` writes the conf file. |
| `ExecStart` | `zdaemon -C conf start` exits 0. It needs the conf file to exist. |
| `InvokeCommand` | `_zdaemon_command`: the sorted glob |
| `LoopStop`, `RemoveConf` | one iteration for `stop`: zdaemon stop, then `os.remove`. `os.remove` raises `OSError` if the file is gone. |
| `LoopStatus` | one iteration for `status` |
| `LoopDone` | the loop ends and `ports_pids` is returned |
| `ExecFails` | `_execute_zdaemon_command` raises on a non-zero exit code (l. 479-484) |
| `CliKilled`, `DaemonDies` | the environment: a CLI process killed between steps, or a daemon dying |

Abstractions:

* Conf file names are their ports (positive numbers, visited in numeric order), and
  the key `ports_pids` uses is the port. The real key comes from a `strip` (hazard,
  plan item 4).
* The start/stop/status handlers `_on_server`, ... are not under `src/`. The model
  lets a dispatched invocation issue any of the three commands.
* `returncode is None` after `p.wait()` cannot happen, so it is not modelled.

### Runs (`MCZatoManage`)

| Run | cfg | Checks | Result |
|---|---|---|---|
| manage_serial | `ZatoManageSerial.cfg`: 1 invocation, ports {1,2,3}, 2 marker files | `TypeOK`, `NoOrphanDaemon`, `StopLeavesNothing` | pass (6,230 states) |
| manage_orphan | `ZatoManageOrphan.cfg`: 2 invocations | `NoOrphanDaemon` | violation |

Why these bounds are enough:

* Three ports let a loop fail in the middle, with conf files on both sides of the
  failure.
* Two marker files give the no-marker, one-marker and several-marker directories.
* Two invocations are the least that can overlap. Two ports keep the overlapping run
  small; the orphan needs only one.

The passing run fires every action. The `OSError` branch of `RemoveConf` needs a
second invocation that removed the file first, so only manage_orphan reaches it.
A status loop is not checked on its own: `ports_pids` belongs to one invocation, so
what it reports is the loop's bookkeeping whatever other invocations do.

The violation has five steps:

1. c1 writes conf 1;
2. c2 (stop) globs {1};
3. c2 stops daemon 1;
4. c1's `zdaemon start` brings daemon 1 back;
5. c2 removes conf 1.

Daemon 1 now runs with no conf file, and no later `stop` or `status` will find it.

No fairness is assumed and no liveness is checked. Every loop is a `for` over a finite
list, so an invocation terminates by construction. What a user does next is not
something the code schedules.

### Proofs (`ZatoManageProofs`, TLAPS)

* `TypeCorrect`: `Spec => []TypeOK`, for every value of the constants. It follows from
  the step lemma `TypeStep`, with one case per action.
* `NoOrphanSerial`: assuming `Procs = {q}`, `Spec => []NoOrphanDaemon`. The
  inductive invariant is `TypeOK /\ NoOrphanDaemon /\ StoppedBeforeRemove`.
  `StoppedBeforeRemove` says that an invocation between its `zdaemon stop` and its
  `os.remove` has its daemon down. Without it, `RemoveConf` could remove the conf
  file of a running daemon. `ExecStart` needs no extra conjunct, because zdaemon
  starts only from an existing conf file. The invariant fails for two invocations:
  the other one's `ExecStart` breaks `StoppedBeforeRemove`, which is exactly the
  manage_orphan trace.
* `StopCompleteSerial`: assuming `Procs = {q}`, `Spec => []StopLeavesNothing`. The
  invariant `StopIInv` adds `StopConfIsTodo`: during a stop loop, the conf files on
  disk are exactly those still to visit. It also carries `StatusReportsHandled` and
  `StatusCoversGlob` (lemma `StatusStep`, which holds for any number of invocations):
  `remove` only follows a stop and `start` only a start, and a status loop's
  `ports_pids` covers the part of its glob snapshot it has visited. It needs the serial hypothesis, because a
  concurrent start (`InvokeStart`) writes a conf file behind the loop.

## 4. CACreate: CACreateCommand._execute

### State

| Variable | Code |
|---|---|
| `clock` | `_get_now()` at one-second resolution (l. 315) |
| `runs`, `key` | the key pair each `openssl req -newkey` generates; run r makes key pair r |
| `now` | the timestamp in the invocation's four file names (l. 350-353). All invocations use the same prefix, the worst case for collisions. |
| `csr`, `priv`, `pub`, `cert` | the `out-*` files, indexed by timestamp. A CSR file is `raw` as openssl writes it (public key block first) or `split` as l. 383 rewrites it. A certificate file records its key pair and serial. |
| `got` | the public key read out of the CSR file (l. 377-381) |
| `serial`, `old`, `pems` | openssl's `ca-serial`, `ca-serial.old` and the `<serial>.pem` copies that `openssl ca` leaves in the CA directory |

### Actions

| Action | Code |
|---|---|
| `Begin` | l. 314-363: timestamp, temporary openssl config, file names |
| `Req` | l. 365-371: `openssl req` writes CSR and private key, or fails; the exit code is ignored |
| `SplitRead` | l. 376-381: read and split the CSR file; `IOError` if missing, `IndexError` if it has no public key block |
| `SplitWrite` | l. 383-384: rewrite the CSR, write the public key |
| `Ca` | l. 386-394: `openssl ca` signs the request in the CSR file, writes the certificate and its `.pem`, moves the serial; or fails |
| `Cleanup` | l. 396-414: read `ca-serial.old`, `os.remove` its `.pem` (`IOError`/`OSError` on a missing file), log OK, return the names |
| `Tick`, `CliKilled` | a second passes; a CLI process is killed between two steps (only when `Killable`) |

openssl itself is external: each call either does all of its job or none of it.
Which failures happen (a duplicate subject, a missing file) is left to the model's
choice. The openssl template and the option defaults are data and are left out.

### Runs (`MCCACreate`: two seconds, three runs, three serials)

| Run | cfg | Checks | Result |
|---|---|---|---|
| ca_serial | `CACreateSerial.cfg`: 1 invocation at a time, no kills | `ReportedMaterialMatches`, `NoStrayPem` | pass (376 states) |
| ca_any | `CACreateAny.cfg`: 2 invocations, kills | `RemovedPemHasCopy` | pass (64,612 states) |
| ca_overlap | `CACreateOverlap.cfg`: 2 invocations, kills | `ReportedMaterialMatches` | violation |

Why these bounds are enough:

* Two seconds give both colliding and distinct file names.
* Three runs let a run follow a killed or failed one and be followed again.
* Three serials let every run get a certificate.

The runs end when every run is used, which is a real stop for a CLI, so deadlock is
not checked.

The violating run admits two bugs; TLC reports whichever trace it reaches first:

* **Killed run.** A run is killed after `openssl ca`. The next run's `openssl ca`
  fails, but its cleanup finds the killed run's `.pem` through `ca-serial.old`,
  removes it, and reports OK. The certificate it names is missing, or belongs to the
  killed run's key.
* **Overlap.** Two runs in the same second overwrite each other's private key. The
  first one to finish reports a key that does not match its certificate.

### Proofs (`CACreateProofs`, TLAPS)

* `TypeCorrect`: `Spec => []TypeOK` for every value of the constants.
* `PemCopyKept`: `Spec => RemovedPemHasCopy` for every value of the constants, with
  any number of overlapping and killed invocations. The inductive invariant is
  `TypeOK /\ OldHasCopy`. `OldHasCopy` says that the serial in `ca-serial.old` is
  that of a certificate some out-cert file holds. It is inductive because only
  `openssl ca` writes either file, and it writes both in one step. `Cleanup` removes
  only the `.pem` of that serial. The removed `.pem` may belong to another
  invocation, but its copy exists.
* `NoStrayPemSerial`: assuming one invocation and no kills,
  `Spec => []NoStrayPem`. The inductive invariant `PemIInv` adds `PemOnlyInCleanup`:
  the only `.pem` is `old`'s, and it exists only while the invocation is at its
  cleanup step.
* `ReportedMatchesSerial`: under the same hypotheses, `Spec => ReportedMaterialMatches`
  (an action property). The invariant `MatIInv` records which key every written file
  was made from:
  * `KeyDrawn`: a request step has its key;
  * `RawCsrHasPriv`: a raw CSR's key is the private key file of its second;
  * `SplitOwnKey`: after the key files are written, the private, public and CSR
    files of the invocation's second are its own key's, and after `openssl ca` so is
    the certificate.

  The step lemma `ReportStepSerial` shows that the step reporting success reads
  matching material. The serial hypothesis matters: an overlapping run in the same
  second mixes the material (run `ca_overlap`). A kill leaves a `.pem` behind between
  copy and cleanup, so `NoStrayPem` needs the no-kill hypothesis too.

## 5. ZatoCommandRun: ZatoCommand.run, passwords, stored configs

### State and actions

An invocation is an instance of a command class. `Classes` gives the class's
`needs_empty_dir`, `file_needed` and `needs_password_confirm`. Only the password
options (those of `self.opts` whose name contains `password`, l. 270-274) are
modelled; the other options only pass through.

| Variable | Code |
|---|---|
| `dir`, `marker` | the target directory's contents (`os.listdir`, l. 257) and the `file_needed` marker (l. 265) |
| `given`, `args` | the password options on the command line, and the `args` namespace that `run` fills in |
| `todo`, `cur`, `p1` | `_check_passwords`'s loop (l. 238-242) and `_get_password`'s first entry (l. 183) |
| `stored` | the `zato.<now>.config` files `store_config` writes |
| `runs` | invocations so far, bounded by `MaxRuns` |

| Action | Code |
|---|---|
| `Start` | `__init__`, with `store_config` for `--store-config`: only truthy options are written (`Stored`) |
| `DirCheck` | l. 255-261: non-empty directory means `sys.exit(2)` |
| `FileCheck` | l. 264-268: a missing marker calls `_on_file_missing(work_args)`, which raises |
| `Collect`, `CollectDone` | one iteration of `_check_passwords`: a truthy option is kept, an empty one is prompted for |
| `Prompt1`, `Prompt2`, `SetPassword` | `_get_password`: without confirmation the first entry is returned as it is; with it, a mismatch or an empty password loops |
| `Execute` | `self.execute(args)`; a create command (`needs_empty_dir`) populates the directory |
| `Replay`, `ReplayBatch` | `FromConfigFile.execute`: set the stored options, then raise at `self.batch` |

`strip('\n')` is the identity on what `getpass` returns (a line without its newline).

### Runs (`MCZatoCommandRun`: two password options, words {"", "a", "b"}, 3 invocations)

| Run | cfg | Checks | Result |
|---|---|---|---|
| cmd_serial | one CLI slot, all eight classes | `TypeOK`, `ExecuteWithPasswords` | pass (1,302,994 states) |
| cmd_race | two slots, create commands | `ExecuteInEmptyDir` | violation |

Why these bounds are enough:

* Two options let one be given and one be prompted for.
* Three words give an empty entry, a match and a mismatch.
* Three invocations give a create command, a second command on the populated
  directory, and a replay of a stored config.

The violations:

* **cmd_race.** Two create commands both pass the empty-directory check before either
  writes. With one invocation nothing else writes the directory between the check
  and `execute`, so `ExecuteInEmptyDir` is only asked of overlapping invocations.

`MissingMarkerExits` and `ReplayRunsCommand` state what the code means to do. The code
breaks them on the first call of that kind: `_on_file_missing(work_args)` raises
TypeError instead of exiting with status 2 (l. 266). `FromConfigFile.execute` reads the
undefined `self.batch` (l. 297). Any run of the command shows this, so no TLC run is
kept for them. ConfigFile (section 8) checks the stored file itself.

### Proofs (`ZatoCommandRunProofs`, TLAPS)

* `TypeCorrect`: `Spec => []TypeOK`. It rests on the lemmas `StoredType` (what
  `store_config` writes is a config a replay reads) and `SetPasswordType`.
* `PasswordsFilled`: `Spec => []ExecuteWithPasswords` for every set of invocations,
  options, words and classes. The inductive invariant `PasswordInv` follows `run`:
  * during the checks, `args` is the command line;
  * while collecting, given options keep their values, and every option already done
    is filled when the class confirms;
  * a prompt is for an option still to do, and still empty;
  * `execute` comes with nothing left to do.

  `ExecuteWithPasswords` alone is not inductive: it says nothing about the prompt loop,
  which is where an empty or overwritten password would come from.

## 6. ZdaemonCall: one zdaemon call with its pipes (`__init__.py:451-492`)

ZatoManage treats a zdaemon call as one step that returns. ZdaemonCall opens that
step up. `_zdaemon_command` visits the globbed conf files in sorted order (`IsNext`).
For each one, `_execute_zdaemon_command` starts zdaemon with stdout and stderr on
pipes (`Spawn`), and then calls `p.wait()`. Only after that does it call
`communicate()` to drain the pipes (`WaitReturns`).

* **State.** `pc` is the CLI's place in the loop. `todo` is the rest of the snapshot
  and `cur` is the file being visited. `child` is the zdaemon process: the bytes it
  still has to write on each stream, its exit code, and whether its daemon runs.
  `outpipe` and `errpipe` are the pipe contents, each bounded by `Cap`.
* **Child steps.** `WriteOut` and `WriteErr` are enabled only while the pipe has
  room. `Exit` happens only once everything has been written.
* **Outcomes.** A non-zero exit code raises (`pc = "failed"`). On `stop` the conf file
  is then removed (`RemoveConf`).
* **Fairness.** Fairness is weak fairness of the CLI's steps and of the child's steps.
  The OS schedules both processes, and every step of either stays enabled until it is
  taken.

Runs (`MCZdaemonCommand`, section 7: the whole loop with the port key):

* `zdaemon_fits` (`Cap = MaxOut = 2`, three ports, stop and status, 35,130 states):
  `CommandReturns` holds. Every call returns or raises.
* `zdaemon_overflow` (`MaxOut = 3 > Cap`): TLC finds the deadlock. The child is stuck
  writing into a full pipe, the CLI is stuck in `wait()`, and the command never
  returns.

Proofs (`ZdaemonCallProofs`):

* `TypeCorrect`.
* `WritesFit`: for every `Cap` and `MaxOut <= Cap`, the child's writes never block.
  The inductive invariant `PipeRoom` says that what sits in a pipe, plus what the child
  still has to write to it, is at most `MaxOut`. `Spawn` empties the pipes, writes move
  bytes from the child to the pipe, and `WaitReturns` drains them.

Liveness itself (`CommandReturns`) is only model-checked.

## 7. PortKey and ZdaemonCommand: the port key and the whole loop (`__init__.py:451-467`)

`Key(d, f)` is `f.strip(prefix).strip('.').lstrip('0')` on character sequences. Here
`Strip` and `LStrip` of `PyStr` strip a *set* of characters from the ends, as Python
does. `Visit` stores the pid under the key.

`ZdaemonCommand` composes PortKey with ZdaemonCall. It extends ZdaemonCall and
instantiates PortKey, where a port of ZdaemonCall is the position of its conf file in
sorted order and `PortDigits` gives its digits. A `WaitReturns` with exit code 0 is
the same step as PortKey's `Visit` of that conf file. Every other step leaves the
component path and the keyed dictionary alone. The fairness is ZdaemonCall's:
`CmdCli` is enabled exactly when `Cli` is, and each of its steps is a `Cli` step.

* Component paths `d` are all the short paths over `DirChars`. Ports are `"17"`,
  `"10"` and `"70"`, picked so that inner and trailing zeros are both present.
* `ReportKeyedByPort` says that `ports_pids` holds one entry per visited port, keyed
  by the port.
* `zdaemon_fits` also checks `ReportKeyedByPort`, on paths over `{"/", "s"}` of
  length up to 3. The property holds.
* A path holding `"1"` and `"."` breaks it (hazard at l. 460). Under `/1.`, port
  10's key is empty. No run is kept for this.

Proofs (`PortKeyProofs`, `ZdaemonCommandProofs`). `PyStr` defines the strips through
the first and last kept index (`FirstKept`, `LastKept`), not by recursion, so TLAPS
can reason about them.

* Lemmas on the strips: `StripBetween` and `LStripFrom` give the result of a strip
  from the two kept ends. `ConfFileAt` says where the prefix, the dots, the port and
  `conf` sit in a conf file name.
* `KeyIsPort`: the key of `ConfFile(d, p)` is `p`, for every path `d` and port `p`.
  The hypotheses are: `p` is non-empty, starts with neither `.` nor `0`, and does not
  end with `.`; and either the prefix has no `.`, or it holds neither end character
  of `p`. In the first case the prefix strip stops at the two dots. In the second it
  eats the dots and stops at the port.
* `KeyedByPort`: `Spec => []ReportKeyedByPort`. It holds for every set of ports that
  are decimal numbers without a leading zero (`PortsAreNumbers`) and every path
  alphabet without `.` or without digits (`DirSeparable`). The inductive invariant
  adds the types of `dir`, `globbed` and `todo` to the property. `VisitKey` makes each
  visit's key its port. These hypotheses are the theorem's, not assumptions of the
  module, because the `/1.` path above is a real path that breaks the property.
* `CmdRefinesKey`: `CmdSpec` implements PortKey's `Spec` under the mapping of ports
  to their digit strings. A code-0 `WaitReturns` is a `Visit`, and every other step
  leaves `dir`, the keys and the remaining conf files alone.
* `CmdKeyedByPort` carries `KeyedByPort` over to the composed loop. This is the
  property `zdaemon_fits` checks, and it now holds for every number of conf files,
  pipe capacity and output bound.

## 8. ConfigFile: the stored config file (`__init__.py:206-223, 283-295`)

* **Writing.** `Body(args)` is the text `store_config` writes: a comment line, then
  `name=value\n` for every truthy option, in sorted order. `str()` of a bool or of
  None is abstracted to one character.
* **Reading.** `Read(file)` is what `FromConfigFile.execute` sets:
  * each line runs up to its line feed;
  * comment lines are skipped;
  * the line is split at the first `=`, and both sides are stripped;
  * the last line for a name wins.

  A line without `=` raises (`Raises`).
* **Property.** `ReplayMatchesStored` says that a replay that does not raise sets
  exactly the truthy options, each to its value as `strip()` leaves it.
* **Runs.**
  * `config_oneline`: option names `a` and `b`, values over `{"a", " ", "=", "#"}` up to
    length 2. This includes values holding `=`, `#` and blanks, and values that spell
    another option's name. The property holds.
  * Adding the line feed to the alphabet breaks the property (hazard at l. 214). The
    value `"\n="` turns into an empty value plus an option with an empty name. No
    run is kept for this.

## 9. PointerStore: JSONPointerStore (spec-modelled)

The code of `zato.server.message` is not in the repository. `PointerStore` follows
spec.md §4.1 and `test_message.py`:

* `Walk` follows a path through mappings and lists; a segment the node lacks leaves
  the path unresolved.
* `Put` writes through a path. A missing key of a mapping gets a new, empty mapping;
  a list index past the end, or a leaf on the way, makes the write fail.
* Both are recursive functions over the path's prefixes (`at`, `down`, `up`).
  `MCPointerStore` keeps the segment-by-segment recursion (`RefWalk`, `RefPut`), and
  its assumption `WalkPutMatchReference` has TLC check, on every run, that both forms
  agree on the test documents, every document a set writes on them, and paths through
  lists, past a list's end, through leaves and through nulls.
* `Get` returns the default for absent and null values; `Set` writes on the caller's
  document only when `in_place` is True, and otherwise returns the written copy.

**Run `pointer_writes`** (`PointerStoreWrites.cfg`): two names, the five paths of the
tests, test_get's and test_set's documents, a string and an empty mapping as values,
and probe paths beside and below the written ones (66,010 states). In-place writes
change the document between calls, so copy-writes start from documents the tests do
not list. `CopyWriteOnlyAtPath` says that a copy-write returns a document holding the
value at the path, with a mapping or list at every segment on the way, and equal to
the caller's document at every probe path that neither leads to nor lies below the
written one. Its mutant `SetFreshMaps` replaces existing mappings on the way by new
ones, losing the siblings (the list element `/a/b/0` when `/a/b/1` is written).

Nothing about the stores is proved. Their contract is written in terms of the same
walk the model uses, so a refinement proof would hold by the definitions alone.
XPathStore is not modelled: spec.md fixes it only through lxml's XPath evaluation.

## 10. What is only model-checked, and what is not modelled

* Proved only under the hypotheses of the serial runs: `StopLeavesNothing`,
  `ReportedMaterialMatches` and `NoStrayPem`. Overlapping invocations break the
  second (`ca_overlap`), and `ExecuteInEmptyDir` (`cmd_race`). A
  concurrent start breaks `StopLeavesNothing`. A kill breaks `NoStrayPem` and, even
  with one invocation, `ReportedMaterialMatches`.
* `CommandReturns` (liveness) and `ReplayMatchesStored` are only model-checked. `ConfigFile` uses `FlattenSeq` and folds over
  the lines, and what a fold computes for every input needs induction over data.
* `CopyWriteOnlyAtPath` is only model-checked.
* TLAPS proves nothing about liveness, `ENABLED`, or recursive definitions. Those stay
  with TLC. What `Walk` and `Put` compute is checked against their reference only on
  bounded inputs.
* The stores' own code is not in the repository. `PointerStore` is modelled from
  spec.md and the tests, with JSON documents as trees of nodes; XPathStore is not
  modelled.
* The option tables, the logging template and the SQLAlchemy helpers keep no state
  and are not modelled.
