# A TLA+ model of kint_s2e_autotestkernel

This directory is a model of the repository's shell scripts and of the way they
drive their tools. A Linux kernel is analysed with KINT, instrumented with
calls of `s2e_detect_int`, built again, and then exercised by test programs
that run inside an S2E (symbolic execution) virtual machine, one after the
other, without anybody watching. (The virtual machine is resumed from a snapshot
of the disk image, `runtest`, which the operator took; nothing ties the kernel in
it to the one that was just built.) The scripts are short. What is hard is what
they do not say: four kinds of process share a directory tree, a disk image and
a process table, nothing checks an exit status, guests need not end, and the
operator stops the work with Ctrl-C and starts it again.

Line numbers below are those of the files under `src/`.

## 1. Inventory

| part | state it keeps | operations | interacts with |
|---|---|---|---|
| `startTest.sh`, the runner | names of the files `tests/**/test` and `testdone`, the `baseDirs` line of `config/test.lua`, `$nowTest` | prerequisite checks (3-75), pick (80-86), configure (87-89), spawn timer (91), boot the snapshot `runtest` (93; `bzImage` is only looked for, 33, and its use, 92, is commented out), `sleep 2` (94), rename (95), reset loop (102-114) | starts `timer.sh` and QEMU; reads what QEMU's end says (nothing: the status is ignored) |
| `timer.sh`, the watchdog | `$waitfor`, a count of 1200 polls | `sleep 1`, count, look at `ps`, give up or go on, `kill -9` | sees and kills *every* QEMU on the image; outlives a Ctrl-C, because bash starts a script's background commands with SIGINT ignored |
| `checkKernel.sh` | the kernel tree: corrected sources, `.config`, bitcode `.ll`, `pintck.txt`, inserted calls, `include/s2e/s2e.h`, `bzImage` | gate (21-28), fix (36-40), allyesconfig (44), kint-build (45), loop over three directories (49-56), header (58-59), mrproper (63-64), defconfig and make (108-109), start tests (112) | takes `s2e.h` for the proof that all was done; starts `startTest.sh` |
| `onlykint.sh`, `onlyinsert.sh`, `insertall.sh`, `onlybzImage.sh` | the same tree | parts of the above | share the tree with each other and with `checkKernel.sh` |
| `config/test.lua` | `baseDirs`, search order, address of `__kmalloc` | rewritten by `sed`, read by S2E | |
| `config/s2e.h`, `guest_program/s2e.h` | none | enable/disable forking, make symbolic, kill state, touch loops, `s2e_range`, `s2e_get_module_info` | called by guest programs and by the instrumented kernel |
| `guest_program/**` (57 C files) | buffers, descriptors | set up a call, make some of its arguments symbolic, call, `s2e_kill_state` | run inside the machine; the machine ends when all their paths have been killed |
| `tests/syscalls/**` (LTP) | | LTP programs; 108 of the `*-test.c` have the same s2e calls added | as above |
| `get_kmalloc.sh` | none | prints an address | |
| the disk image | the snapshot `runtest`, with a kernel in it | taken by the operator, by no script | resumed by `startTest.sh` (93) |
| KINT, `insert`, S2E/QEMU, `make` | not in the repository | | |

What makes each part correct:

* **runner**: each program is given to a guest once per round; "all programs
  have been tested" (97) is true; a Ctrl-C costs at most the program in hand;
  a campaign ends whatever the guests do.
* **watchdog**: a machine that does not end is killed, but only after its full
  time, and never somebody else's machine; no timer stays for ever.
* **kernel preparation**: no directory is instrumented twice or from bitcode
  of other sources; the tree compiles when the scripts leave it; `s2e.h` means
  that all directories were instrumented, and a `bzImage` beside it, with a
  snapshot taken of it, that the tests run on an instrumented kernel.
* **guest programs**: a path ends in `s2e_kill_state`, or is known not to;
  forking neither loses nor repeats an input; what is made symbolic reaches the call, and the
  call works on a descriptor that is open.
* **guest interface**: what S2E is handed was read before; `s2e_range` leaves
  exactly its range; `s2e_get_module_info` finds the module asked for.

Which behaviours are hard: the timer of one program against the machine of the
next (only the margin between `sleep 1` and `sleep 2` keeps them apart); a
timer that outlives the runner; Ctrl-C between any two commands and a restart
on what is left; commands that fail unnoticed and half done; a snapshot older
than the kernel that was built; directory names that mean
something to `sed` and to the shell; guests that never end, paths that starve
behind them, and test programs that look as if they tested something. `PROJECT.json`
lists them as hazards, each at its line, with the properties that cover it.

## 2. The modules

| module | what it is |
|---|---|
| `TestQueue` | abstract: a queue of programs. Take one, give it to a guest, put it aside; put all back once the queue was emptied; a stop returns what was taken |
| `Campaign` | `startTest.sh`, the `timer.sh` processes, the machine and the operator, with clocks |
| `CampaignQueue` | the refinement mapping and `ImplementsQueue` |
| `MCCampaign` | instances of `Campaign` for TLC (four configurations) |
| `CampaignProofs` | proofs about the timers and the machine |
| `RoundProofs` | proofs about the round and the refinement |
| `KernelBuild` | `checkKernel.sh` and the four partial scripts as sequences of commands on one tree |
| `MCKernelBuild` | its instances for TLC (three configurations) |
| `KernelProofs` | proofs about the kernel tree |
| `Exploration` | abstract: inputs explored group by group, none twice, none forgotten, until the machine is stuck or done |
| `GuestPaths` | one guest program under S2E's depth-first search: paths, forking, the kernel's branches, the descriptor table |
| `GuestPrograms` | the catalogue: each guest program as a sequence of steps |
| `GuestTests` | catalogue and paths together: what a test has to be for its run to mean something |
| `MCGuestTests` | its instance for TLC |
| `TestDiscipline` | what the code of a program has to be like, read without running it, for its tests to mean something, and the invariant that follows |
| `MCGuestPaths` | the programs with few paths as an exploration; also evaluates the discipline of the whole catalogue |
| `GuestProofs` | proofs about the paths, for any catalogue |
| `TestProofs` | proofs about the tests, from the discipline |
| `TemplateProofs` | the discipline of the `sendmsg` template, for any fields |
| `S2EHeader` | every function of `s2e.h`: what it reads, what it hands to S2E, what may be paged out meanwhile, and the three that compute something |
| `MCS2EHeader` | its instances for TLC (three configurations) |
| `HeaderProofs` | proofs about the guest interface |

### Campaign

`pc` is the place of the runner: `idle` (not started, or exited by itself),
`check` (3-75), `scan` (80-83), `config` (87-89), `spawn` (91), `launch` (93,
QEMU not yet in `ps`), `run` (93), `sleep` (94-95), `reset` (102-114) and `off`
(killed by Ctrl-C). `file[t]` is the name of program `t`'s file, `baseDirs` what
`test.lua` serves, `vm` the directory the running machine serves. Each timer has
a place in its loop (`tpc`), its `$waitfor` (`left`) and a clock (`age`) since
its last poll; `guard` is the timer of the present attempt. `tries`, `booted`
and `cuts` are history: they record how often a program was booted, which were
really given to a guest, and how often Ctrl-C was pressed in this round.

There is one action per command or handler: `Start`, `Check`, `Pick`,
`AllTested`, `Configure`, `SpawnTimer`, `Boot`, `FailToBoot`, `GuestEnds`,
`Rename`, `ResetOne`, `ResetDone` for the runner and the machine, `Poll(i)` and
`Kill(i)` for a timer (a `Poll` is a whole turn of the loop, lines 2-17, with
the loop test after it), `Interrupt` for Ctrl-C, and `Tick` for the clock.
`Boot` is QEMU showing in `ps`; with `BootMayFail` it may go before the guest ran,
and then the program is not added to `booted`. `find | head -n 1`
returns any one of the files, so `Pick` is a choice.

The names of programs are abstracted to what the scripts tell apart: an `&` or
a `#` (special in the `sed` script of line 89) and a blank (splits the operands
of `mv`, line 95). The constants `HasAmp`, `HasHash` and `HasSpace` say which
programs have them.

Time is discrete. `Second` units are a second; `sleep 1` takes at least that
and a whole poll at most `PollMax`; `sleep 2` takes at least two seconds and has
no upper bound; QEMU shows in `ps` at most `LaunchMax` after the timer was
spawned. `Tick` is held back only by a live timer whose poll is overdue and by
a launch that is overdue: those two upper bounds are assumptions on the host.
`ClocksFit` is what the sleeps must satisfy for the rest to hold:

    LaunchMax < Second      QEMU shows before the first poll
    PollMax < 2 * Second    one poll falls within `sleep 2'
    PollMax < RestartMin    one poll falls between a Ctrl-C and a restart

The last is on the operator, and the code does nothing to ensure it; the run
`campaign_hasty` drops it, and `Guarded` and `TimeBound` are proved from the
first alone.

### KernelBuild

`Flow` gives, for each of the five scripts, the command after each command; an
action is one command (`Gate`, `Fix`, `AllYesConfig`, `KintBuild`, `Cd`,
`Pintck`, `Insert`, `Back`, `CopyHeader`, `Mrproper`, `DefConfig`, `Make`,
`StartTest`). `Launch` starts one of the scripts `Offered` on what is left;
`NotInKernel` is one started somewhere else (lines 3-19).

`Fail` is a command that fails on its way while the script goes on, because none
looks at a status; `Interrupt` is Ctrl-C before or inside a command. What such a
command has done is `CutShort`: `kint-build` has bitcode of some directories and
may or may not have got to its `bzImage` (`KintCut`), `pintck` has reported on
some (`PintckCut`), `insert` has put its calls into some (`InsertCut`), `mrproper`
has removed `.config` and `bzImage`, one of them or none (`MrproperCut`), and any
command may have done nothing (`cd` too).

`cwd` and `oldcwd` are kept because `onlyinsert.sh` returns with `cd -` and
`checkKernel.sh` with `cd $Kernel`, and names are relative. Bitcode and reports
are `current` or, once the sources have changed, `stale`; `blind` records
insertions made from a stale report. `bzImage` and `runtest` are the directories
instrumented in the image of the tree and in the kernel of the snapshot.
`TakeSnapshot` is the operator booting the one and saving it as the other, between
two scripts or never; `snapped` records that it was done with `s2e.h` in the tree.

### GuestPrograms, GuestPaths, GuestTests

A guest program is a straight line of library and S2E calls with few `if`s, so
`GuestPrograms` gives each one as a sequence of steps (`Open`, `Close`, `Dup`,
`Dup2`, `Fcntl`, `Call`, `Checked`, `Overrun`, `Enable`, `Symbolic`, `Guard`,
`Branch`, `Disable`, `Example`, `Kill`, `Leave`), each with the descriptor
variable it works on and the variables it is given. Buffers, addresses and
constant arguments are left out. Variants that the repository keeps as copies
(`one/1` to `one/9`, `two/1-2` and so on, the eleven directories of `file-rw`)
are instances of one template (`SendMsg`, `SocketTest`, `FileRw`) with the
variables that this copy makes symbolic, in the order of its text. What is
commented out in a copy is not in its sequence.

`GuestPaths` runs one program (`prog`). `stack` holds the paths, the running one
first, which is what `--use-dfs-search` (`test.lua:6`) means. A path knows where
it is (`at`, `arg`), which variables are symbolic and undecided (`raw`) or on one
side of the branch taken on them (`low`, `high`), its descriptor variables
(`fd`) and table (`open`), and whether it has forking on. `Look` is a branch on
a symbolic argument: both sides, in either order, with forking on, one side with
forking off. `PassOver` is a kernel that does not branch on it, `Hang` one that
loops, crashes or restarts. Each kind of step has its action (`DoOpen` to
`KillState`); the descriptor steps keep Unix's rule of the lowest free number.
`Exit`, `DoOpenOrExit`, `DoChecked` and `DoOverrun` can end a process whose path
goes on with nothing to run (`stuck = "left"`).

A program's inputs are the sets of variables with a value of the high side. A
path stands for a `Cube` of them; `explored` is the union of the cubes S2E was
told to kill. `Runs == INSTANCE Exploration WITH todo <- Todo` maps the paths to
the abstract exploration.

### S2EHeader

A function of `s2e.h` is the pages it reads before its opcode, the pages of the
strings and of the buffers S2E then goes to, and the opcode. `Enter` calls one,
`Touch` reads a page (a fault brings it in), `Opcode` runs when all is read
(`unread` is empty). The guest may be preempted anywhere: `PageOut` takes pages
away at any moment, and `gone` are those that went after they had been read.
`__s2e_touch_string` goes through the string, `__s2e_touch_buffer` reads the
first byte as often as there are bytes. `s2e_assert`, `s2e_range` (unsigned
comparison for start 0, signed otherwise, killing what is outside) and
`s2e_get_module_info` (the loop over `/proc/self/maps`) are modelled in full.

### External code

What the scripts use but the repository does not hold is modelled from its use:

* the machine saved as `runtest` (`-loadvm runtest`) fetches the file `test` from the
  directories in `baseDirs` and runs it. A guest served a directory whose file
  is already named `testdone` finds nothing to run: it is not added to `booted`;
* S2E exits at once if `test.lua` is not Lua. With `BootMayFail` it may do so
  for any other reason (display taken, snapshot missing);
* QEMU ends when every path has been killed, crashes, or takes a Ctrl-C for
  itself: `GuestEnds`, at any time or never;
* `kint-build` leaves bitcode of every directory it compiled and a `bzImage`, or
  stops at a file that does not compile; `pintck` reports on the bitcode below
  the working directory; `insert` adds at least one call per reported directory;
  `make mrproper` leaves the `.ll` files, which are not the kernel's own;
* the kernel under test may branch on any symbolic argument of a call or on
  none, fail any `open`, write as far as it was told to, hang, or restart.

## 3. What the runs check

| run | instance | result |
|---|---|---|
| `campaign` | 3 plain programs, 2 timers, 2 Ctrl-C per round, `ClocksFit` | all ten properties hold |
| `campaign_hasty` | 2 programs, 3 timers, the operator restarts at once, S2E may fail to boot, fairness | `GuardInStep`, `Guarded`, `TimeBound`, `AtMostOnce` still hold, and so do `CampaignEnds`, `TimersEnd`; `OwnTimerOnly` is not claimed (a timer of the stopped campaign does meet the next machine) |
| `campaign_name` | one name with `&`, one with `#` | `AllTestedMeansBooted` is **violated** |
| `campaign_blank` | one name with a blank | `CampaignEnds` is **violated** |
| `kernel_build` | all five scripts, Ctrl-C anywhere, one failing command, snapshots | all seven properties hold |
| `kernel_start` | all five scripts, one failing command | `StartsRebuilt` is **violated** |
| `kernel_snapshot` | `checkKernel.sh` only, no failing command | `TestsBzImage` is **violated** |
| `guest_tests` | all 66 programs of the catalogue | all six properties hold |
| `guest_paths` | the 59 programs with fewer paths | `Explores`, `PathsInStep` and `TestsInStep` hold, and all 66 programs are `Disciplined` |
| `s2e_header` | every function, strings of any length, buffers over two pages, pages going out at any moment | all five properties hold |
| `header_buffer` | buffers that reach over two pages | `S2EFindsBuffers` is **violated** |
| `header_module` | modules asked for by name or by path | `ModuleSpecified` is **violated** |

The properties, by what they are about:

* *timers and machines*: `OwnTimerOnly` (a machine meets no timer but its own),
  `Guarded` (it always has that one), `TimeBound` (it does not outlive the
  timer's grant), `NoEarlyKill` (it is killed only after its full time),
  `TimersEnd`, and the inductive invariants `GuardInStep` and `TimersInStep`;
* *rounds*: `AtMostOnce`, `AllTestedMeansBooted`, `CampaignEnds`, the inductive
  invariant `RoundInStep`, and the refinement `ImplementsQueue`;
* *kernel tree*: `LoopReturns`, `HeaderMeansInserted`, `InsertedOnce`,
  `CompilesAtRest`, `TestsInstrumented` (the kernel of the snapshot, where it was
  taken with `s2e.h` in the tree), and the inductive invariant `BuildInStep`;
* *paths of a guest*: `NothingLost` (what is explored and what the waiting paths
  stand for partition the inputs), `PathsInStep`, the refinement `Explores`,
  `LeavesExplained` (which programs can leave the machine idle, and why);
* *tests that test something*: `OnLiveDescriptor` (a call with a symbolic
  argument works on an open descriptor), `SymbolicReaches` (what was made
  symbolic reaches a call on every path that is ended), `DescriptorsReturned`.
  The last two name the programs that are exempt (`Stale`, `Closing`), so that a
  new one is noticed. The inductive invariant is `TestsInStep`;
* *guest interface*: `S2EFindsStrings` (a page of a string that S2E does not find was
  taken away after it had been read), `RangeExact`, `ModuleByPath`, and the
  inductive invariant `HeaderInStep`.

Each has a mutant of the code in its module (a definition commented `mutant`)
under which TLC finds it violated: no `sleep 2`, `ps` read before the sleep, a
count not decremented, a missing rename, a `sed` that matches nothing, a missing
`cd`, a file not opened again, a side of a branch dropped, and so on.

### What the exemptions of the guest runs say

* `EarlyLeavers`: `exit01` exits with its symbolic status before its
  `s2e_kill_state`; `execve01`, `execv01`, `execvp01`, `bind01` and `llseek01`
  hand `s2e_make_symbolic` a null or bad address or a number, and die in its
  touch loop. Their machines end only by the timer. So does one where `acct01`
  takes a failing `acct` for the end, where `mmap` cannot open its file, or where
  `readv` is told of ten vectors and has one.
* `Stale`: `readv&writev` copies the lengths into the vectors before it makes
  them symbolic, `gdbtest` gives the call constants, `confstr01` and `mallopt01`
  call the C library only, `memcmp01` makes a variable symbolic that nothing
  reads, and `test.c` is about no call.

### What the violated runs show

* **Names with `&` or `#`** (`campaign_name`). README:24 leaves the structure
  below `tests/` free, and the repository's own `guest_program/file-rw` has
  `dup&dup2`, `read&write` and four more. `sed` replaces `&` by the whole old
  line, `test.lua` is no longer Lua, S2E exits at once, and the program is put
  aside as tested. With a `#` `sed` refuses its script and the guest is served
  the directory of an earlier program. What makes either pass unnoticed is that
  line 93 ignores how S2E ended: an S2E that fails for any other reason (display
  taken, snapshot missing; `BootMayFail`) is put aside as tested in the same way.
* **Blanks** (`campaign_blank`). `mv $nowTest ...` is not quoted, fails, and the
  loop runs the same program for ever. The `mv` of the reset loop (109) is
  unquoted too; it is never reached with such a name, since the file never
  becomes `testdone`.
* **Not the `bzImage`** (`kernel_snapshot`). `checkKernel.sh:107` makes the
  instrumented `bzImage` "in order to start the tests with it"; `startTest.sh:93`
  resumes the snapshot `runtest`, and line 92, with `-kernel $bzImage`, is
  commented out. Started once from beginning to end, `checkKernel.sh` starts the
  tests on a kernel without calls. `TestsInstrumented` says what the operator has
  to add: a snapshot of the `bzImage` that stands beside `s2e.h`.
* **`s2e.h` without the work** (`kernel_start`). Tests are to be started directly
  on a kernel that is instrumented and recompiled (README:6). The only mark of that
  is `s2e.h`, and `checkKernel.sh:24` says "this kernel have inserted" wherever it
  lies. Three ways lead there without the work, and all are in the instance:
  `onlyinsert.sh` or `insertall.sh` before `kint-build` insert nothing and copy the
  header (TLC shows this one, the shortest); a `checkKernel.sh` stopped between the
  header and `mrproper` leaves the `bzImage` that `kint-build` made without the calls,
  with which `startTest.sh:33` is content (the one TLC shows with `Offered <-
  OnlyCheckKernel` and `MaxFaults = 0`); and after a `kint-build`, `cd`, `pintck` or
  `insert` that stopped on its way the header is copied all the same.
* **Buffers over a page boundary** (`header_buffer`). The comment at
  `config/s2e.h:41-43` says that every byte is read. The string loop does it; the
  buffer loop reads `buffer[0]` each time, and S2E is handed a page that is out.
* **Modules asked for by name** (`header_module`). Without a slash in the name,
  `modName` is the output buffer instead of the name (`guest_program/s2e.h:489`),
  and a mapping is returned that need not be the module's.

### Bounds, and why they are enough

* `MaxCuts` (2) Ctrl-C per round: one to leave a timer and a half-done round
  behind, one to do it again on what the first left. `TriesCap` is above the
  largest count the properties compare with. One, and `WaitFor` = 2, in
  `campaign_hasty`, which has liveness to check.
* 3 programs: one in hand, one put aside, one waiting. 2 timers suffice where
  the clocks fit (the own and one that has not yet given up); with a hasty
  operator there may be more, and 3 are given: two strays beside the own. A
  start that finds no free slot is not explored further.
* Clocks: `Second` = 2, `PollMax` = 3, `LaunchMax` = 1, `RestartMin` = 4 or 0
  are the smallest numbers in the order of the real ones (1 s, a little more,
  a little, and patience or none). `WaitFor` is 3 or 2 instead of 1200.
  `AgeCap` stops a machine's clock above the bound `TimeBound` checks.
* `MaxFaults` (1): one unnoticed failure; the properties that a failure could
  break are claimed for none, or hold for any number (section 4). `MaxCalls` (2):
  once and twice are what the properties tell apart. `Present`: all three
  directories; a missing one is a `cd` that fails, which `Fail` covers, and the
  first two theorems about the tree are for any `Present`. `Offered`: all scripts,
  or `checkKernel.sh` alone where the point is what it does by itself.
* `MaxFd` (6): three standard descriptors and one more than the most a program
  has open at once before a `dup2` to an unknown number. `Garbage` = {1, 4, 9}: a
  standard descriptor, one of the program's own, one beyond the table.
* Two classes of values per variable: the two sides of the first branch on it.
  More branches on one variable are more paths of the same kind. Arguments are
  looked at in the order of the call; any may be passed over.
* `guest_paths` leaves out the seven programs with the most paths (`FewPaths`);
  each is a sequence of the same stages that the others have one by one.
* `Pages` (3 or 2), `MaxSpan` (2, or 1 where buffers do not matter): a buffer or
  string beside another, and one that reaches over a boundary. `IntMax` (3):
  zero, both signs and both ends. Two module names and at most two
  mappings (`MaxLines`): the one asked for and another, in both orders.

The proofs of section 4 hold for every value of all of these.

### Fairness

`WF_vars(RunnerStep)`, `WF_vars(TimerStep(i))`, `WF_vars(Tick)`: the kernel
schedules the processes and time passes. Nothing is assumed of the guest
(`GuestEnds`), of the operator (`Start`) or of Ctrl-C (`Interrupt`): that a
campaign ends although a guest does not is the point of `timer.sh`.
`CampaignEnds` also needs `PollMax` and `LaunchMax`, without which `Tick`
would let time pass over a stuck timer.

## 4. What is proved

`tlapm` checks the following for every set of programs and timers, every value
of the clocks, every kernel tree and number of failing commands, every
catalogue of well-formed guest programs, and every number of pages, width of
`int` and length of `/proc/self/maps`.

| theorem | statement | assumption beyond the module's |
|---|---|---|
| `TypeCorrect` | `Spec => []TypeOK` | none |
| `StayInStep` | `Spec => []TimersInStep` | `ClocksFit` |
| `GuardStaysInStep` | `Spec => []GuardInStep` | `LaunchMax < Second` |
| `NoUnguardedMachine`, `NoMachineOutlives` | `[]Guarded`, `[]TimeBound` | `LaunchMax < Second` |
| `OwnTimerKillsInTime` | `NoEarlyKill` for the machine's own timer | `LaunchMax < Second` |
| `NoStrayTimer` | `[]OwnTimerOnly` | `ClocksFit` |
| `KillsInTime` | `NoEarlyKill` | `ClocksFit` |
| `NoSilentRerun` | `[]AtMostOnce` | `HasSpace = {}` |
| `AllTestedIsTrue` | `[]AllTestedMeansBooted` | `CleanSetup` |
| `RoundStaysInStep` | `[]RoundInStep` | `HasSpace = {}`, `CleanSetup` |
| `CampaignImplementsQueue` | `Spec => ImplementsQueue` | `CleanSetup` |
| `TreeTyped`, `TreeInStep` | `[]TypeOK`, `[]BuildInStep` of `KernelBuild` | none |
| `AlwaysReturns`, `HeaderIsProof` | `[]LoopReturns`, `[]HeaderMeansInserted` | none |
| `NoDoubleInsert`, `TreeAlwaysCompiles`, `SnapshotIsInstrumented` | `[]InsertedOnce`, `[]CompilesAtRest`, `[]TestsInstrumented` | `Present = Dirs` |
| `PathsTyped`, `StayInStep` | `[]TypeOK`, `[]PathsInStep` of `GuestPaths` | none |
| `NoInputLost` | `[]NothingLost` | none |
| `RunExplores` | `Spec => Explores` | none |
| `TestsStayInStep` | `[]TestsInStep` | none (`CatalogueAssumption` is the module's) |
| `LiveDescriptors`, `AllReturned`, `SymbolicsReach`, `LeavesAreExplained` | `[]OnLiveDescriptor`, `[]DescriptorsReturned`, `[]SymbolicReaches`, `[]LeavesExplained` | none (`CatalogueAssumption` is the module's) |
| `SendMsgWellFormed`, `SendMsgDisciplined` | every variant of the `sendmsg` template is a well-formed and disciplined program | it makes some field symbolic |
| `HeaderTyped`, `HeaderStaysInStep` | `[]TypeOK`, `[]HeaderInStep` of `S2EHeader` | none |
| `FindsStrings` | `[]S2EFindsStrings` | none |
| `RangeIsExact`, `ModuleFoundByPath` | `[]RangeExact`, `[]ModuleByPath` | none |

`CleanSetup` says that no name has an `&` or a `#` and that S2E boots;
the violated runs show that it is needed. `Present = Dirs` says that the kernel
has the three directories the scripts name, as 3.5.4 does: with one missing,
`checkKernel.sh` reports on the whole kernel in that turn and instruments the
other two a second time, and the `cd -` of `onlyinsert.sh` goes astray.
`GuestPaths` itself assumes that programs are `WellFormed` (TLC evaluates this on
the catalogue): they end in `Kill` or `Leave`, enable forking before they look at
a symbolic value, and make no variable symbolic twice.

**The argument for the timers.** `OwnTimerOnly` is not inductive: what keeps an
old timer away from a new machine is how its clock stands to the runner's.
`TimersInStep` says so, place by place. While the runner sleeps or is stopped, a
live timer has waited at least as long as the runner has (`Outlasted`), so it
polls, sees no machine and gives up before the sleep ends (`PollMax < Gap`), and
from the scan to the spawn no timer is alive (`NoneLeft`). While QEMU is coming
up the timer's clock is the runner's (`GuardLaunching`), so it cannot poll before
QEMU shows. While the machine runs, its age lies between the polls counted at a
second each and the polls counted at `PollMax` each (`GuardRunning`), which gives
`NoEarlyKill` from below and `TimeBound` from above. The proof goes action by
action, in two halves. `GuardInStep` (`MachineOnlyInRun`, `GuardLaunching`,
`GuardRunning`) speaks of a machine and its own timer only, and is inductive by
itself: a stray timer can end a machine, never take its timer away. So it needs
nothing of the operator, which is why `Guarded` and `TimeBound` survive a hasty
one. What keeps strays away (`NoneLeft`, `Outlasted`, `OnlyGuard`) needs the
other two inequalities.

**The argument for the round.** `AtMostOnce` needs that a program that *waits*
was run at most as often as Ctrl-C was pressed, except the one in hand
(`RetriesCounted`). `AllTestedMeansBooted` needs that what was put aside was
served, and that between `sed` and boot `test.lua` names the program in hand
(`ServedFirst`). The refinement maps each action of `Campaign` to one of
`TestQueue` or to a stutter; `Rename` maps to `PutAside`, whose guard is
`ServedFirst`.

**The argument for the kernel tree.** Hardly one of these properties is inductive:
that `s2e.h` means a finished loop depends on what each turn of the loop did, and
that on the working directory and on which bitcode is fresh. `BuildInStep` is the
conjunction of ten parts, each of which every command, failure, Ctrl-C and
restart keeps given the others: which script can be at which command (`InFlow`),
where it is (`InPlace`), what is not yet there (`BeforeHeader`), what the turns
have done (`TurnsDone`, `FreshTurns`), and what the header and the snapshot stand
for (`HeaderMeansInserted`, `HeaderFollows`, `ImageOfHeader`, `SnapshotOfHeader`).
Each part has its own lemma. A command that is stopped or fails half way could have
done many things; `CutEffects` says what all of them have in common (bitcode is
only made, calls are only added, by `insert` and where a report asks for it, `s2e.h`
does not come or go), and the other lemmas build on that.

**The argument for the paths.** The invariant is `TypeOK`, `PathsInStep` and
`NothingLost`. A fork must give two cubes that are disjoint and together the old
one: for that the variable has to be one that no decision was made on
(`PathsInStep`), and forking has to be on wherever a symbolic value is looked at,
which follows from the program being well-formed and from the path having kept
its `forking` up to date. Every other step keeps the cube of the running path, or
moves it to `explored`; so each is a step or a stutter of `Exploration`.

**The argument for the tests.** Whether a test means something is decided by the
text of its program, which is a straight line, as long as nothing goes wrong.
`TestDiscipline` says what the text must be like: what is made symbolic is given
to a call before the kill (`GivesAll`), a call with a symbolic argument comes
after the open of its descriptor and before any close (`WorksOnOpen`), a closing
program neither overwrites nor duplicates unseen what it holds (`ReturnsAll`),
and only `EarlyLeavers` have a step that ends the process (`LeavesEarly`).
`TestsInStep` says that a path has what the text up to its step gives it:
`MetInStep` (what it knows and was given, against `Given`), `LiveInStep` (open
descriptors, against `Attached`) and `HeldInStep` (nothing else open, against
`Held`). The proof steps through every action, fork, failed open and garbage
descriptor; a fork changes only what a path knows, and a variable it decides on
stays known. That every program of the catalogue is `Disciplined` is
`CatalogueAssumption`: a finite fact about constants, which TLC evaluates for all
66 on the run `guest_paths` (outside TLC it stays an assumption). For the 30
programs that `SendMsg` makes with some field symbolic it does not rest on
evaluation: `TemplateProofs` proves that every nonempty choice of fields gives a
disciplined program (that `name` and the fields are strings is left to TLC, the
provers know nothing of `STRING`).

**The argument for the guest interface.** `HeaderInStep` has one part for each
thing that can be under way. `CallInStep`: the call is one of the functions, and
each of those reads all the pages of its strings (`FunctionsReadStrings`).
`PagesInStep`: a page that was read is in memory or among those that went out
since, whatever is paged out and when. From the two follows `S2EFindsStrings`; for
buffers the first fails, as `header_buffer` shows.
`RangeInStep`: `s2e_range` goes on only with a range that is not empty, so that for
start 0 the end is positive, where unsigned and signed comparison agree on the
values that are left (`KeptIsRange`). `LoopInStep`: no line before the present one
was taken, so a line that is taken is the first, and the end of the maps means
that none fits.

**Only model-checked**: liveness (`CampaignEnds`, `TimersEnd`), which the
provers cannot reach, and the discipline of the 36 programs that `TemplateProofs`
does not cover. The violated runs are TLC's alone.

## 5. What is not modelled, and why

* LTP itself (`tests/syscalls`): vendored. Of the 108 programs with s2e calls,
  the eleven that depart from the usual form are in the catalogue, and
  `reboot01` for those that do not: setup, `s2e_enable_forking`,
  `s2e_make_symbolic` of what the one call is given, the call,
  `s2e_disable_forking`, `s2e_kill_state`. Each further one would repeat it under
  another name. Most of them have this inside a loop over test cases: the kill
  ends the path in the first, so only that case is modelled (and tested).
* `bug.c`, `bug-my.c`, `test2.c`, `cve-2013-2094.c`: samples for a kernel bug,
  not part of the automation.
* `get_kmalloc.sh`: prints an address and changes nothing.
* Two campaigns at once on one tree, image and VNC display: no document says that
  they may run together, and the scripts have nothing that would keep them apart.
* A QEMU of the same user that was started by hand: `timer.sh` kills it.
* Progress output of the scripts, the wording of messages.
* A `kill` or SIGHUP of the runner alone (QEMU would go on running under its
  timer), and `kill` of a timer.
* `pc___kmalloc` in `test.lua`: README:26 leaves its update to the operator.
* The plugins of S2E that `test.lua` configures: they are not in the repository.

## 6. Order of the work, and what could follow

The modules were built in the order of section 2: the campaign and its
refinement, the kernel tree, the guest programs and their paths, the header, and
the proofs about each after its runs.

What would extend it: the guest model in place of `Campaign`'s `GuestEnds`,
which now ends at any time or never; the initial values a guest finds in memory
(`s2e_make_concolic`, `s2e_get_example` with values); a campaign with two
runners; the discipline of the socket and file-rw templates for any variables, as
for `sendmsg`.
