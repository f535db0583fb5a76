# selfeval, verified

TLA+ models of selfeval, a local judge for programming contests: a Python
controller (`selfeval.py`, `lib/`) that compiles a contestant's program, runs it
on test data in one of two sandboxes written in C++ (`src/sandbox.cpp` and, for
trusted programs, `src/sandbox-tiny.cpp`), and scores what came out.
TLC checks the models on small instances; TLAPS proves the safety
properties for every value of the constants.

All line numbers below refer to the repository's files. `PROJECT.json` maps every
definition to the lines it stands for.

## 1. The parts of the system

| part | code | state | operations | behaviour that is hard |
|---|---|---|---|---|
| sandbox run | `lib/sandbox.py` `Sandbox`, `run`; `src/sandbox.cpp` `main`, `tracer` | three processes, job control, seccomp listener, signalfd, timerfd, result file | start, cont, wait, close; the monitor's loop; the child up to its end | two stops and two continues in a fixed order, coalesced signals, timer against exit, Ctrl-C anywhere |
| system call guard | `src/sandbox.cpp` `handle_syscall`, `_is_permitted`; `src/sandboxlib.h` | permission tree, token, privilege and its count | grant, ban, every kind of call, login, shot, logout | nested grants and bans; a count spent by every call |
| interactive run | `lib/sandbox.py` `run_interactive`, `relay` | two runs, two or four pipes, two threads | connect, release, forward, join | who holds which end; deadlock; broken pipes as evidence |
| jury and live table | `lib/jury.py` `jury`, `jury_test`, `read_checklog`; `lib/fmt.py` `LiveStream`; `selfeval.py` `main` | test and case in hand, retries left, records, a second cursor | run, retry, settle, record, skip, conclude | two cursors over the same tests; whose fault; least score |
| compile cache | `lib/utils.py` `cache_*`; `lib/jury.py` `compile_program` | one directory of archives shared by all selfevals | look up, copy, compile, file | no lock, edits between two reads, kills between two writes |
| fast sandbox | `src/sandbox-tiny.cpp` `main`, `tracer` | as sandbox run, with an alarm and its note instead of descriptors | as above; the handler | alarm against `wait4` and against the stop; a program that stops itself |
| CPU affinity | `lib/core.py` `affinity_v1`, `affinity_v2` | free CPUs | acquire, release | release before the end of use |
| configuration | `lib/ds.py`, `selfeval.py` `parse_argv2` | values given and values made of them, class-level defaults, switches | set by any of several names, convert, merge, update | shared class-level defaults, order of sources, forms that mix |
| collecting data, preparing | `lib/collect.py`; `selfeval.py` `main`; `lib/jury.py` `compile_program` | answers seen, matched; checker and interactor in use and in reserve | match, choose by time, replace what is old, compile | order of a directory, several comparisons of times, failures on the way |
| backup and restore | `lib/utils.py` `backup`, `restore` | directory and its copy | remove, unpack, roll back | failure of one step of several |
| the rest | `lib/color.py`, tables and log, `build.py`, `install.*`, `kernel.py`, `userconf.py`, constants, testlib, demos | none that is judged by | | |

How they meet: `main` collects the data and the settings, compiles through the
cache, then calls the jury for each test, which lays the test's own settings over
those of the directory; the jury calls `run` or `run_interactive` and reads verdicts from them;
both start sandboxes; each sandbox asks the guard at every trapped call; the jury
tells `LiveStream` of each case, which prints and later concludes. `InteractiveRun`
and `Jury` use a sandboxed run as the contract `RunContract` states it;
`SandboxRun` is shown to implement that contract, so the three compose.

What makes each part correct: a run is judged once, truthfully, by facts that
are final, and leaves nothing behind; the guard lets on what was granted and no
more; an interactive run loses nothing and always returns; the jury blames whom
it should and scores what was earned; the cache returns a build of the present
source; a test is judged under the settings its files ask for, and with the
checker and interactor its problem has.

## 2. The modules

| module | models | runs |
|---|---|---|
| `BoxVerdict` | status word of the monitor and the verdict read out of it (`sandbox.cpp:635-656`, `sandbox.py:160-178`) | with `SandboxRun` |
| `RunContract` | abstract: what one run promises | target of `KeepsContract` |
| `RunContractProofs` | proofs about the contract itself | |
| `SandboxController` | the state of a run, the controller, signals and exits, the steps both monitors have | with `SandboxRun` |
| `SandboxMonitor` | the monitor of `sandbox.cpp` | with `SandboxRun` |
| `SandboxTiny` | the monitor of `sandbox-tiny.cpp`, and what its child does differently | with `SandboxRun` |
| `SandboxRun` | composes the three; the child and the kernel; the properties | `sandbox_run`, `sandbox_lost_wakeup`, `sandbox_withdrawn` |
| `SandboxRunProofs` | proofs | |
| `SyscallGuard`, `MCSyscallGuard` | permission tree and `handle_syscall` | `syscall_guard`, `guard_logout` |
| `SyscallGuardProofs` | proofs | |
| `InteractiveRun` | `run_interactive` and `relay` over two runs | `interactive_run`, `interactive_direct` |
| `InteractiveRunProofs` | proofs | |
| `Jury`, `MCJury` | `jury`, `jury_test`, `LiveStream` | `jury` |
| `JuryProofs` | proofs | |
| `CompileCache`, `MCCompileCache` | the cache under several selfevals | `compile_cache` |
| `CompileCacheProofs` | proofs | |
| `Settings`, `MCSettings` | `parse_argv2`, `TestConf` and `Limit`, the updates of `main` and `jury_test` | `settings`, `settings_argv` |
| `SettingsProofs` | proofs | |
| `Collect` | `find_testcase`, `process_file` | with `Prepare` |
| `Prepare`, `MCPrepare` | `starter`, `collect_problem`, `main` up to the first case, `compile_program`; composes `Collect` | `prepare` |
| `PrepareProofs` | proofs, of `Collect`'s properties too | |

### SandboxRun

State: `cpc` is the controller's place (`popen`, `start`, `ready`, `wait`, `read`,
then `judged` or, after Ctrl-C, `close`, `grace`, `except`, `aborted`), `mpc` the
monitor's, `stage` the child's; the rest are the descriptors' states, the child's
accounts, and what is pending in the kernel. `trust` chooses the sandbox. Actions
beginning with C, M and K belong to controller, monitor, and child or kernel; those
with T to the fast sandbox's monitor.

- The handshake is modelled stop by stop: the child stops itself
  (`sandbox.cpp:585`), the monitor sees it (611), stops itself (613), `start()`
  sees that (`sandbox.py:130`), `cont()` continues the monitor, which installs
  its descriptors and continues the child.
- A signalfd has one slot for SIGCHLD: a second is lost while the first is
  pending, and its code with it. `poll` takes a snapshot; the loop serves timer,
  signal and listener in the code's order from that snapshot.
- CPU time is a small number. `KBurn` spends it; the profiling timer, RLIMIT_CPU
  and the wall clock strike when the code arms them. CPU timers act on the return
  to user mode.
- A program may withdraw its own waiting call by a real-time timer (the choice
  `timers` of `Init`):
  `setitimer` and `timer_create` are on the list of free calls.
- A monitor that dies before it stops is reaped by `start()`'s `waitpid`, and
  `Popen.wait` then reports 0: `early`.
- Between the fork and its own stop the monitor builds the permission tree
  (`sandbox.cpp:595-609`) and leaves with status 1 where a directory to grant in is not
  there (`MGrantFails`). A child that has not set its death signal by then is sent none; it
  dies of SIGPIPE when it hands its listener to a monitor that is gone
  (`sandbox.cpp:578`, `KBrokenPipe`). `LeavesNothing` rests on that for starts nobody interrupts.
- A call whose path is empty makes `fs::absolute` throw (`sandbox.cpp:200`, `207`), and
  so does one whose caller has died before its memory is read, as `read_string` then
  returns nothing. Nobody catches it: `MAborts` ends the monitor by a signal.
- The result file is written through an `ofstream` that is never checked
  (`sandbox.cpp:662-718`): `MWrite` leaves `result` `"short"` or `"whole"`, and the status is
  0 either way. `ReadVerdict` is what `wait()` makes of it, and
  `Failed` what the contract takes for a broken sandbox: a monitor gone without leaving a
  status of 0 beside a whole file. The three numbers are one
  write at the closing, far below a page, so a file cut inside the third number, which
  `sandbox.py:157` would read as a smaller one, is not among the outcomes.
- The user presses Ctrl-C at most once, at any place of the controller.
  Signals sent by others to monitor or child are not modelled.

In the fast sandbox:

- The monitor forks first and sets its handler then (`boot`, `handler`): a SIGALRM
  in between kills the monitor alone. Once handled (`Handler`) it kills the child
  and leaves a note, `alarm = "taken"`; on a stopped monitor it waits (`"pending"`)
  for the SIGCONT.
- The first `wait4` is not repeated when the handler interrupts it, so the
  monitor may stop itself with its child still on the way (`AlarmMonitor`,
  `TAwait`); the second is.
- Continued, it continues the child and only then starts the clock (`TRelease`,
  `TArm`), which is why `NeverUnwatched` allows one step more.
- `TTrace` looks at time, memory and status in the code's order. A program that
  stopped itself (`paused`) is told as a signal, `WIFSIGNALED` being applied to a stop's
  number (`sandbox-tiny.cpp:40`), and dies of the parent-death signal when the
  monitor has written its result; SIGXFSZ is a signal too.
- `TOverdue`: the note overrides whatever `tracer` returned, an ended program's
  result included.
- Process ids are not reused, so that a SIGKILL for a child already reaped does
  nothing.

### SyscallGuard

A path is the sequence of its names with the links of its parent resolved, as
`fs::canonical` leaves it; modes and requests are sets of bits. `TreeOf` is what
`add_permission` and `add_softban` build; `Walk` follows `_is_permitted` name by
name. The privilege is `login`, `shot`; `asked`, `spent` and `shown` are history.
The access mode 3, incremented like the others, meets the bit of the soft ban, so
it is called "ban" there too. Calls the BPF filter lets pass never reach the
handler and are not modelled, nor is the wording of what is reported.

Which path is walked depends on the call. `open`, `creat` and `readlink` normalise it
first (`Lexical`), so that a last `..` leaves the directory above with a final slash,
whose last name is empty; `openat` and `readlinkat` walk it as written, `..` being a name
below the directory before it (`Walked`). `..` in the middle is resolved by `fs::canonical`
in both. A relative path counts as joined to the working directory; one of dots
alone, normalised before it is joined, is left out. An empty path ends the monitor
(`abort`). `Terminal` is the grant for `ttyname(stdin)`.

`OpensAsGranted` compares the walk with the grants as the code reads them. The
documentation of the sandbox (`docs/沙箱技术文档.md`) reads them differently three times,
and the code agrees with it in none:

- line 38 makes every operation on an item directly below the root illegal; `/lib`, an
  item of the default grants, is opened, and so is any other that is granted;
- line 40 promises EPERM for an item that is itself soft-banned; the walk looks for bans
  on the directories above only (`sandbox.cpp:160`), so such an item is opened if it is
  granted too, and ends the program if not;
- lines 55-62 grant `/dev/stdout` and `/dev/stderr` for reading and writing;
  `sandbox.cpp:603-604` grants writing only.

### InteractiveRun

`main` is the place in `run_interactive`; `box` and `end` are the two runs; `near`
and `far` the pipes before and after a relay; `relay` the threads. `HeldByMain`
states which ends `run_interactive` keeps open: with echo those of both sides,
without echo those of the first sandbox. A relay that has read may raise before it has
written, as `sys.stdout.write` does on a closed output or a letter it cannot encode; the `except`
around its loop (`sandbox.py:51-52`) ends the thread with what it held (`RelayFails`). Nobody is
told: the reader waits, the writer fills its pipe, and both meet their wall clocks.
`NothingLost` allows that one message and no other. The wall clock strikes a side that computes,
or one that waits while no message can move: a second is long beside a pipe.
Ctrl-C comes after both sides have started; before that it is `SandboxRun`'s.
A standard output that blocks for good is left out.

### Jury

One step is one run (`Attempt`), one case settled, one recorded. `Settle` is the
chain of conditions of `jury` in its order; the decisions with an interactor are
`OfAborted` and `OfInteractor`. "re" also stands for ml, ol and fb. `live` is
`LiveStream`'s own cursor; `sum` its last loop. Left out: the files handed to the runs, failure to
open a checker's log, the cleaning of the working directory, `conclusion` off.
SIGHUP of a checker is a plain failure. A score that is not a number crashes the
judging, as the comparison at `jury.py:261` does.

### CompileCache

A key stands for the texts it hashes, a build for the text it was made from.
An archive reaches the disk by three steps, as CPython's buffered writer makes
them: truncation on opening, the head flushed when the body does not fit the
buffer, the body. Any process may die between them, and a full disk may cut the body. A
reader takes head and front with the first buffer and the rest later, so a writer
may come between. `newer` abstracts the comparison of modification times: a
write makes an archive newer than the source, an edit may undo that. `spoilt` is
history: keys filed for another text than they hash, and keys whose head was
torn by a Ctrl-C between its small writes. A torn head is accepted by
`cache_get`, which reads a missing length as zero. Not modelled: `--clean` while
others run, disabled caches (never filling is `NoRoom`), builds that differ for
one text, modification times in the future.

### Settings

`args` is the command line, `stderr` stands for every on/off switch, `shared` is
the one class-level `Limit` of all `TestConf`s. A `TestConf` is a record of what
it was given: no limit, a `Limit`, a dict, or anything else, with the raw value of
each field; `Limit` is what its attribute then is, and `Attr` what a raw value is
converted to. A file is read item by item in any order (`ReadField`, `ReadLimit`,
`ReadUnknown`, `ReadKeep`), each item going through `__setattr__` with its
wrappers: `WithField` for a dotted or aliased name, `WithLimit` and `Merged` for a
whole limit. `UpdateMain` and `UpdateTest` lay one model over another and convert
again. A value is told apart by its giver only: whether a time is two seconds or
three no property asks. Several data directories count as one; an empty string or list
given as `limit` is left out.

The reference is `InForce`, which looks at the two files (`said`) and never at a
model: the test's file, else the directory's, else the default. It holds while
`OneForm` does: a nested `limit` that meets any other mention of limits raises
(`Merged` reads attributes of a dict), although `docs/配置文件.md` calls the nested and the
flat form equivalent (等价的). `FailsOnlyMixed` says that nothing else raises.

The switches are modelled and no property is stated of them, since the code does not do
what its help says. Each switch has a flag to set and one to clear it; the one that agrees
with the default starts as set (`selfeval.py:84-85`), and `parse_argv2` goes through both, the clearing
one last (`:212`). So a switch that is off by default cannot be switched on: `--stderr`
(help at `:96`: echo the program's standard error), `--iso`, `-Wi,echo` and the others
have no effect then. For the same reason the loop undoes the switches that `-e` has set before it
(`:203-210`): the echo of interactions and of standard error. What holds when
these cases are left out is the truth table of `Switched`. `--name` is parsed and never
used (`selfeval.py:98`).

### Collect and Prepare

A file name is the sequence of its parts between dots, and any part may mark it.
`todo` is what the directory has not listed yet; `ListFile` takes any of it.
`Prepare` goes on from there: `Settle` chooses the newest checker and interactor
and a source in reserve, `ReadManifest` names others, `Stale` gives up an
executable not newer than the manifest, `Compile` uses or builds each of the three
programs. `kind` is the program in hand, `made` what each was made of. `found`
and `named` are history; `HelpersKept` compares them with `made`.

Several data directories are one, with the time of the latest manifest, which is
not in the future. The times
of files do not change meanwhile. A `checker_backup` given by a manifest, an
exception from a header that is not there, and the order of the tests are left out.

`BinaryNewerThanManifest` speaks of the manifest, the future and the other files of a
kind. It promises nothing against headers, because the code has it the wrong way round:
`jury.py:89` passes an executable that is *older* than all its headers and gives up one
that is newer (`Reusable`). `headers` is one list of the problem's, to which a Makefile is
appended for all programs compiled later (`jury.py:78`). And the documentation speaks of
names that contain `checker` or `chk` (`docs/配置文件.md:100`), the code of names equal to
them before the extension. `collect.py:113-114` tells the user of files that were claimed
by an input, and may have been used, that they matched no input.

## 3. The runs

| run | checks | states | what it shows |
|---|---|---|---|
| `sandbox_run` | `TypeOK` `NeverUnwatched` `ExitNoticed` `VerdictReported` `VerdictAfterDeath` `HonestIsJudged` `CpuKillIsTl` `KeepsContract` `EveryRunJudged` `LeavesNothing` | 1 220 000 | both sandboxes, a program free to set timers or not, a user free to interrupt, a result file that may be cut: safe at each step, inside the contract, always judged, swept clean; a program without timers of its own and without an unreadable path gets the verdict it earned if the result was written |
| `sandbox_lost_wakeup` | `InstructionComes`, violated | | finding 1 |
| `sandbox_withdrawn` | `OwnDeathJudged`, violated | | finding 2 |
| `syscall_guard` | `TypeOK` `PrivilegeEarned` `ShotsExact` `OpensAsGranted` | 45 000 | every subset of four nested grants and bans, with and without a terminal, every sequence of calls |
| `guard_logout` | `LogoutRevokes`, violated | | finding 3 |
| `interactive_run` | `TypeOK` `NothingLost` `NoSoloStart` `PipeBlameIsFair` `InteractorHears` `Returns` | 81 000 | both ways of connecting, two messages each way through pipes that hold one, relays that fail |
| `interactive_direct` | `DirectlyConnected`, violated | | finding 5 |
| `jury` | `TypeOK` `CursorInSync` `AcIsEarned` `BlameIsOwn` `SkippedOnlyWhenLost` `ConclusionRight` `RetriesSpent` `Finishes` | 2 150 000 | tests of one and of two cases, all problems, all outcomes, one retry or a negative number of them, Ctrl-C anywhere |
| `compile_cache` | `TypeOK` `Current` | 1 930 000 | two processes, two texts, by symmetry |
| `settings` | `TypeOK` `Overlaid` `FailsOnlyMixed` | 6 120 000 | every command line and every content of the files, in every order of items, for two tests |
| `settings_argv` | `ArgvWins`, violated | | finding 4 |
| `prepare` | `TypeOK` `LeftoversExact` `PairsRight` `HelpersKept` `BinaryNewerThanManifest` | 2 720 000 | every directory of the files and programs there are, in every order, with and without a manifest, compilations that fail |

Deadlock is not checked where the system really stops: a run, a judging, an
interaction, the reading of settings and the preparation end. `compile_cache` checks it.
Every property has a mutant of the code that
violates it under the same run.

### Bounds, and why they are enough

- `SandboxRun`: `TimeLimit = 1`, `Redundancy = 2`, `ChildSlack = 1`,
  `RlimitCpu = 3`, `MaxPre = 1`, `MaxCpu = 4`, `WallSlack = 0`. CPU time passes the limit, the
  sandbox's limit, RLIMIT_CPU and the profiling timer at different counts, and a
  program may use time before its stop. Of `WallSlack`, what the fast sandbox adds to
  its limit, only the order against `RlimitCpu` matters: with 0 both the kernel and the
  monitor can come first. One run is one program; runs do not share
  state. With a redundancy not above `MaxPre` a kill by RLIMIT_CPU
  (`sandbox.h:45`) can be told as re, which the assumption of `CpuKillIsToldSo`
  states.
- `SyscallGuard`: grants at two depths of one path with a ban between, an
  item below a granted one, directories asked for by `..` and `.`, a missing directory, the
  terminal, one item directly below the root and one banned;
  `MaxShots = 2` has a first, a last and no shot; `MaxSpent = 2` bounds only the
  history of a lasting privilege.
- `InteractiveRun`: `Cap = 1`, `MaxSent = 2`: a side can have one message in each
  pipe, one at the relay and one to write.
- `Jury`: two tests, of one and of two cases, so that a case can come before or after the
  one that is lost and a test before or after another; one retry and -1; scores
  of -1 and 1, of a full mark of 2, beside none and full.
- `Settings`: two fields, one of them `memory`, which `-e` sets; a nested limit that
  is empty, gives one field, or is no dict; two tests, so that what the first
  leaves behind would show. A field and an unknown field may be given once a file,
  as json5 keeps the last.
- `Prepare`: seven file names with marks in each of two places and in two
  directories, so that an input has two marks, a name two kinds of marks, and a
  twin lies elsewhere; three checkers, a source and an executable for the others,
  times before, at and after each other, one in the future.
- `CompileCache`: two writers and readers at any two places, two texts. Calls and
  edits are not bounded.

### Fairness

- `SandboxRun`: the operating system runs what can run, delivers SIGKILL and lets
  the wall clock (timerfd or SIGALRM) advance. Nothing is asked of the program, of the user, or of
  calls that may fail.
- `InteractiveRun`: the main thread, the relays and possible transfers go on;
  a side that would compute or wait for ever meets its wall clock, which the
  monitor keeps (strong fairness, as a computing side may be interrupted by its
  own reads and writes again and again). Nothing is asked of what programs choose.
- `Jury`: the one thread goes on; that runs end is `EveryRunJudged`.
- `Settings` and `Prepare` are sequential; their properties are of safety only.
- `CompileCache` has no liveness property: two processes that keep emptying the
  archive under each other can both miss for ever.

## 4. What is proved

Each theorem holds for all constants that meet the module's assumptions.

- `SandboxRunProofs`. `Invariance` proves `IInv`, from which the rest follow. It
  is needed because none of the properties is inductive. `Apart` keeps the places of
  the two sandboxes apart; `Handshake` ties the
  stages of the child to those of the monitor through both stops; `Leash` says
  whoever can still run is under the death signal or the clock; `Slot` says the
  continuation's SIGCHLD has left the only slot before the first call is answered,
  so the exit finds it free (`ExitNoticed`); `Ledger` gives the source of each
  decision; `Patience` that without own timers a waiting call keeps waiting;
  `Alarms` says when a SIGALRM can have come, so that a handler that ran before the
  stop has no controller left to judge by it; `Decoding` that what the fast sandbox's
  tracer says of the child is so; `Outcome` ties result file, exit status and verdict (`JudgedByReport`: a verdict about the
  program rests on a whole file and status 0). `Implements` shows initial
  states and every step map to `RunContract` under the refinement mapping of
  `Contract`. `HonestIsTold` and `CpuKillIsToldSo` assume the redundancy the
  code's constants give and a program without timers; for the fast sandbox, whose status
  does not tell a kill for CPU time, the verdict follows from the measured time.
- `RunContractProofs`, and its results brought down to `SandboxRun`. A verdict that
  is given stands: whatever happens to the run later, its facts go on justifying it
  (`VerdictsStand`), and no step takes a verdict, an abandonment, a release or a fact
  back (`FinalityHolds`). Both follow from `TakesNothingBack`, which every step of
  the contract keeps: what a verdict rests on is frozen or only grows. They are
  proved of the contract, where there are nine variables, and then hold of the three
  processes by the refinement (`VerdictsOfRunsStand`, `RunsAreFinal`).
- No circular waiting, in both sandboxes. `NeverAllWait`: until a run is over and its processes
  are gone, somebody's wait is over, a kill is on its way, or the wall
  clock runs. To `IInv` it needs `Past`, where the run stands once the
  controller has seen the monitor's stop, and `Doomed`, that whom a dying monitor
  waits for is dead or under a kill. `Unfinished` leaves out the end of a run interrupted
  before `start()` had returned, whose monitor may be stopped for good (finding 1).
- `SyscallGuardProofs`. The privilege is earned and shots are exact by the
  invariants `Earned` and `Shots`; `OpensAreGranted` shows the walk equal to the
  reference `GrantedFrom` for paths and grants of any size, by the least entry of
  the path that decides (`NatLessThanWellFounded`); `WalkedIsPath` brings the two ways of
  reading a path under it.
- `InteractiveRunProofs`. `IInv` has `Control`, `Stages` (which sandboxes and
  relays there are at each place of `run_interactive`), `Fates` and `Counts`.
  `NothingLost` needs the second half of `Counts`, no more on its way than was
  sent, to bound what a side has read; a relay that has failed goes on holding its one
  message there. `EndsFinal` lets the two runs be awaited one
  after the other: nothing changes what the first ended with. `InteractorAlwaysHears`
  rests on `NotBlockedAlone`: a side whose ends the controller has not kept is never blocked on
  a peer that has ended. `NeverAllWait` adds `Past`, whom `run_interactive` has let
  go, awaited and joined: with it whoever waits, waits in the end for a program; a program that
  waits has a wall clock, and a relay between two ended sides unwinds (`RelayUnwinds`).
- `JuryProofs`. `Places` says where both cursors are at every place of the jury,
  `InHand` what the case in hand has been through, `Skips` why what is skipped
  was; `ConclusionIsRight` goes along the loop of `print_conclusion` (`Sums`).
  `RecordsAreFinal` says no record or mark is taken back. `JudgingDescends` measures what
  is left by five numbers in lexicographic order (stage, tests, cases, place,
  attempts), shows the order well-founded and each step a descent; `WorkIsAhead`
  that until the end a step of the jury's own is possible. The two are the safety half of `Finishes`.
- `CompileCacheProofs`. `Pure`: an unspoilt archive holds pieces of its own key's
  build only. `Knows`: at each place of a call, what it knows is of the call's
  own time. Together they give `Current` for any number of processes.

- `SettingsProofs`. `Reading` says of each `TestConf` in each phase what the files
  read so far make of it (`Holds`), as long as the forms are not mixed; `Settled`
  that `force` is the update of `main`; `Flags` what the switches have become.
  `OverlayIsRight` compares the first two with `InForce`, for any set of fields
  and any shapes.
- `PrepareProofs`. Pairing rests on `ClaimedOnce`, about names of any length: a
  name with one mark replaced tells what the name was, so no file is claimed by
  two inputs. `Collected` goes along the listing, one lemma for each kind of file.
  `Chosen` follows what is in use, in reserve and made through each phase
  (`Settled`, `Reserve`, `Fresh`, `Made`) and gives `HelpersKept` and `BinaryNewerThanManifest`.

Model-checked only: the liveness properties (`EveryRunJudged`,
`LeavesNothing`, `Returns`, `Finishes`), as
fairness and ENABLED are outside the prover's reach. What can be said of them without
either is proved: `NeverAllWait` (twice), `WorkIsAhead` and `JudgingDescends`.
`SomebodyMoves` and `WorkAhead` name the guards of the fair actions instead of
saying ENABLED; that each guard named does enable a step TLC has confirmed on
small instances. What remains to TLC is that such steps are in fact taken and lead to the end.

## 5. Findings

1. `sandbox.py:88`. Ctrl-C while `start()` waits: `close()` sends SIGCONT before
   the monitor's stop, which is then for good; the comment at `sandbox.cpp:613`
   says it waits for an instruction, and none comes.
2. `sandbox.cpp:491`, `515`. RECV and SEND fail with ENOENT when the waiting call
   was withdrawn by a signal; the monitor gives up, and a program that died of its
   own alarm is called a failure of the sandbox where `demo/err/README.md` expects RE.
3. `sandbox.cpp:333`. `auth_logout` does not end a lasting privilege
   (`sandboxlib.h:23` says it does): it is answered before it is looked at.
4. `selfeval.py:267`. `-t`, `-m` and `--fsize` are set on the class-level default
   Limit, not on the command line's own settings, so they are gone as soon as a
   config.json gives any limit, even another one; `docs/配置文件.md:92` says that what
   is given at the start overrides every configuration file.
5. `sandbox.py:242`. Without echo the two sides are not connected by pipes alone:
   the controller keeps the program's ends, so a program that reads after the
   interactor's end waits for its wall clock.

Divergences without a run of their own: the three rules of the sandbox's documentation that
the walk does not follow (with `SyscallGuard` above); the flags that cannot switch
anything on (with `Settings`); the names of checkers (with `Prepare`). The fast sandbox tells a
program that died of SIGXFSZ as re, where `demo/err/README.md:7`, of the full sandbox, expects
OLE: `tracer` looks for it among stops only, which a program that is not traced never
makes of it. And the comparison with headers, of which no document speaks, is inverted (with
`Prepare`).

Two weaknesses no document speaks of are exempted by name in `Current`: an edit
between copy and hash (`jury.py:101-109`), and a head torn by Ctrl-C
(`utils.py:386-390`); either spoils an archive until its source changes.

## 6. Not modelled, and the plan

Next, in this order:

1. `--clean` during other calls, with `CompileCache`; the language flags as arguments.
2. `Restore`: `restore` step by step with failures, against its doc string.
3. The rest of `Model` (deletion, the recursive reports) and `JudgeConf`'s nested models.

The CPU affinity is not planned any more: one process runs its sandboxes one after
the other, so the list of CPUs in use is never contended, and the lock file between processes is
not reached.

Theorems worth adding with them: that `Jury`'s runs
are `RunContract`'s verdicts, that `Jury`'s settings are those of `Settings`, and
a measure for `SandboxRun` and `InteractiveRun` like `Remaining` of `Jury`, for the phases in which
no program computes.

Left out for good: text, colour and layout; build and installation scripts;
`userconf.py` and `kernel.py`, whose values are constants here; testlib and the
demos, whose programs are the nondeterministic ones of the models.
