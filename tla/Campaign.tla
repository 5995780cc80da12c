------------------------------ MODULE Campaign ------------------------------
(* A test campaign: startTest.sh (the runner) boots the S2E virtual machine  *)
(* once per test program, beside a timer.sh that kills the machine after     *)
(* `waitfor' polls, and the operator, who may press Ctrl-C and start again.  *)
(*                                                                           *)
(* Time is discrete.  Tick advances every clock by one unit; a second is     *)
(* Second units.  A timer polls after at least one second (sleep 1) and at   *)
(* most PollMax (sleep 1, ps and the scheduler); the runner's `sleep 2'      *)
(* lasts at least two seconds and has no upper bound; QEMU shows in `ps' at  *)
(* most LaunchMax after the timer was spawned.                               *)
(*                                                                           *)
(* A program is a directory below tests/ with a file `test' in it.  Of its   *)
(* name the scripts tell apart: an `&' or a `#' (special in the sed script   *)
(* of line 89) and a blank (splits the unquoted operands of mv, line 95).    *)

EXTENDS Naturals, FiniteSets

CONSTANTS
    Tests,        \* the test programs, named by their directories
    HasAmp,       \* those with an `&' in the directory name
    HasHash,      \* those with a `#' in the directory name
    HasSpace,     \* those with a blank in the directory name
    Second,       \* time units in one second
    PollMax,      \* longest time from one poll of a timer to the next
    LaunchMax,    \* longest time from spawning the timer to QEMU in `ps'
    RestartMin,   \* shortest time the operator leaves after Ctrl-C
    WaitFor,      \* waitfor: the polls of a timer before it kills (1200)
    Timers,       \* slots for timer.sh processes
    MaxCuts,      \* bound: Ctrl-C at most MaxCuts times in a round
    BootMayFail,  \* may S2E exit before the guest has its program?
    Shipped,      \* the directory test.lua names as checked in
    Garbled,      \* a baseDirs line that is not Lua
    None          \* no program, no machine, no timer

ASSUME NamesAssumption ==
    /\ HasAmp \subseteq Tests
    /\ HasHash \subseteq Tests
    /\ HasSpace \subseteq Tests
    /\ None \notin Tests \cup Timers \cup {Shipped, Garbled}
    /\ Shipped \notin Tests \cup {Garbled}
    /\ Garbled \notin Tests

ASSUME ClockAssumption ==
    /\ Second \in Nat \ {0}
    /\ PollMax \in Nat /\ Second <= PollMax
    /\ LaunchMax \in Nat
    /\ RestartMin \in Nat
    /\ WaitFor \in Nat \ {0}
    /\ MaxCuts \in Nat
    /\ BootMayFail \in BOOLEAN

(* What the sleeps of the scripts and the operator's patience must satisfy   *)
(* for a timer never to meet the wrong machine.                              *)
ClocksFit ==
    /\ LaunchMax < Second         \* QEMU shows before the first poll
    /\ PollMax < 2 * Second       \* a poll falls within `sleep 2'
    /\ PollMax < RestartMin       \* ... and before a restart

VARIABLES
    pc,           \* where the runner is
    nowTest,      \* $nowTest, or None
    file,         \* name of each program's file: "test" or "testdone"
    baseDirs,     \* the directory config/test.lua serves to the guest
    vm,           \* the directory the running machine serves, or None
    vmAge,        \* time since the machine was booted
    tpc,          \* state of each timer: "off", "poll" (in its loop), "kill"
    left,         \* $waitfor of each timer
    age,          \* time since each timer's last poll (or its start)
    guard,        \* the timer spawned for the present attempt, or None
    wait,         \* the runner's clock: in launch, in sleep 2, or stopped
    tries,        \* history: machines booted for each program, this round
    booted,       \* history: programs a guest was given, this round
    cuts          \* history: Ctrl-C presses, this round

runnerVars == <<pc, nowTest, file, baseDirs>>
machineVars == <<vm, vmAge>>
timerVars == <<tpc, left, age>>
roundVars == <<tries, booted, cuts>>
vars == <<pc, nowTest, file, baseDirs, vm, vmAge, tpc, left, age, guard, wait,
          tries, booted, cuts>>

NoGap == 0                           \* mutant: no sleep between programs
Gap == 2 * Second                    \* sleep 2
AgeCap == (WaitFor + 2) * PollMax    \* bound: vmAge is not counted further
TriesCap == MaxCuts + 2              \* bound: tries are not counted further
Live(i) == tpc[i] # "off"
Waiting == {t \in Tests : file[t] = "test"}

Runner == {"idle", "off", "check", "scan", "config", "spawn", "launch", "run",
           "sleep", "reset"}

(* From line 84 to line 95 the runner has one program in hand.               *)
Attempt == {"config", "spawn", "launch", "run", "sleep"}

Init ==
    /\ pc = "idle"
    /\ nowTest = None
    /\ file = [t \in Tests |-> "test"]
    /\ baseDirs = Shipped
    /\ vm = None
    /\ vmAge = 0
    /\ tpc = [i \in Timers |-> "off"]
    /\ left = [i \in Timers |-> 0]
    /\ age = [i \in Timers |-> 0]
    /\ guard = None
    /\ wait = 0
    /\ tries = [t \in Tests |-> 0]
    /\ booted = {}
    /\ cuts = 0

-----------------------------------------------------------------------------
(* The runner, startTest.sh.                                                 *)

(* The operator starts the script; after a Ctrl-C not before RestartMin.     *)
Start ==
    /\ \/ pc = "idle"
       \/ pc = "off" /\ wait = RestartMin
    /\ pc' = "check"
    /\ wait' = 0
    /\ UNCHANGED <<nowTest, file, baseDirs, machineVars, timerVars, guard,
                   roundVars>>

(* Lines 4-75: the kernel tree, bzImage, S2E, test.lua, the image and the    *)
(* tests are all there, or the script exits.                                 *)
Check ==
    /\ pc = "check"
    /\ pc' \in {"scan", "idle"}
    /\ UNCHANGED <<nowTest, file, baseDirs, machineVars, timerVars, guard,
                   wait, roundVars>>

(* Lines 80-86: the first file `find' lists, in no particular order.         *)
Pick ==
    /\ pc = "scan"
    /\ nowTest' \in Waiting
    /\ pc' = "config"
    /\ UNCHANGED <<file, baseDirs, machineVars, timerVars, guard, wait,
                   roundVars>>

(* Lines 96-98: no file `test' is left; "all test programs are done".        *)
AllTested ==
    /\ pc = "scan"
    /\ Waiting = {}
    /\ nowTest' = None
    /\ pc' = "reset"
    /\ UNCHANGED <<file, baseDirs, machineVars, timerVars, guard, wait,
                   roundVars>>

(* Line 89: sed writes the directory between `#' delimiters.  A `#' in it    *)
(* ends the replacement and sed refuses its script, an `&' is replaced by    *)
(* the whole old line.                                                       *)
NotRewritten(t, old) == old          \* mutant: sed finds no line to change
Rewritten(t, old) ==
    IF t \in HasHash THEN old ELSE IF t \in HasAmp THEN Garbled ELSE t

Configure ==
    /\ pc = "config"
    /\ baseDirs' = Rewritten(nowTest, baseDirs)
    /\ pc' = "spawn"
    /\ UNCHANGED <<nowTest, file, machineVars, timerVars, guard, wait,
                   roundVars>>

(* Line 91: timer.sh starts in the background with a full `waitfor'.         *)
SpawnTimer ==
    /\ pc = "spawn"
    /\ \E i \in Timers :
          /\ ~Live(i)
          /\ tpc' = [tpc EXCEPT ![i] = "poll"]
          /\ left' = [left EXCEPT ![i] = WaitFor]
          /\ age' = [age EXCEPT ![i] = 0]
          /\ guard' = i
    /\ wait' = 0
    /\ pc' = "launch"
    /\ UNCHANGED <<nowTest, file, baseDirs, machineVars, roundVars>>

(* Line 93: QEMU resumes the snapshot; the guest fetches `test' from the     *)
(* directory test.lua names, if there is one in it and QEMU lives to see it. *)
Boot ==
    /\ pc = "launch"
    /\ baseDirs # Garbled
    /\ vm' = baseDirs
    /\ vmAge' = 0
    /\ tries' = [tries EXCEPT ![nowTest] = IF @ < TriesCap THEN @ + 1 ELSE @]
    /\ \/ booted' = booted \cup ({baseDirs} \cap Waiting)
       \/ BootMayFail /\ UNCHANGED booted
    /\ wait' = 0
    /\ pc' = "run"
    /\ UNCHANGED <<nowTest, file, baseDirs, timerVars, guard, cuts>>

(* Line 93 returns at once: test.lua is not Lua, the VNC display is taken,   *)
(* the snapshot is missing, ...  Its exit status is not looked at.           *)
FailToBoot ==
    /\ pc = "launch"
    /\ BootMayFail \/ baseDirs = Garbled
    /\ wait' = 0
    /\ pc' = "sleep"
    /\ UNCHANGED <<nowTest, file, baseDirs, machineVars, timerVars, guard,
                   roundVars>>

(* The machine is gone, whoever ended it; line 93 returns.                   *)
MachineEnds ==
    /\ pc = "run"
    /\ vm' = None
    /\ vmAge' = 0
    /\ wait' = 0
    /\ pc' = "sleep"
    /\ UNCHANGED <<nowTest, file, baseDirs, guard, roundVars>>

(* Every path of the guest program has called s2e_kill_state (or QEMU has    *)
(* crashed, or taken a Ctrl-C as its own).                                   *)
GuestEnds == MachineEnds /\ UNCHANGED timerVars

(* Line 95.  The operands of mv are not quoted: with a blank in them mv only *)
(* prints a usage error.                                                     *)
NotRenamed(t) == file                \* mutant: the program keeps its name
Renamed(t) == IF t \in HasSpace THEN file ELSE [file EXCEPT ![t] = "testdone"]

(* Lines 94-95, at least two seconds after the machine ended.                *)
Rename ==
    /\ pc = "sleep"
    /\ wait = Gap
    /\ file' = Renamed(nowTest)
    /\ wait' = 0
    /\ pc' = "scan"
    /\ UNCHANGED <<nowTest, baseDirs, machineVars, timerVars, guard, roundVars>>

(* Lines 106-109: one more file gets its name back.                          *)
ResetOne ==
    /\ pc = "reset"
    /\ \E t \in Tests \ Waiting : file' = [file EXCEPT ![t] = "test"]
    /\ UNCHANGED <<pc, nowTest, baseDirs, machineVars, timerVars, guard, wait,
                   roundVars>>

(* Line 106: no file `testdone' is left.                                     *)
SomeBack == Waiting # {}             \* mutant: one file back is enough
AllBack == Waiting = Tests

(* Lines 111-112: all are back, the script ends and with it the round.       *)
ResetDone ==
    /\ pc = "reset"
    /\ AllBack
    /\ pc' = "idle"
    /\ tries' = [t \in Tests |-> 0]
    /\ booted' = {}
    /\ cuts' = 0
    /\ UNCHANGED <<nowTest, file, baseDirs, machineVars, timerVars, guard,
                   wait>>

-----------------------------------------------------------------------------
(* The timers, timer.sh.                                                     *)

(* Lines 2-5: sleep 1, then one second less to wait.                         *)
PollAtOnce(i) == TRUE                \* mutant: ps is read before the sleep
PollDue(i) == age[i] >= Second
NotCounted(i) == left[i]             \* mutant: waitfor is not decremented
Counted(i) == left[i] - 1
ExpiredLate(n) == n < 0              \* mutant: the loop test is -ge, not -gt
Expired(n) == n = 0

(* Lines 11-12: no QEMU process has the image open.                          *)
NeverSeen == FALSE                   \* mutant: the count includes grep itself
MachineGone == vm = None

(* One turn of the loop, lines 2-17, and the loop test that follows it.      *)
Poll(i) ==
    /\ tpc[i] = "poll"
    /\ PollDue(i)
    /\ left' = [left EXCEPT ![i] = IF MachineGone THEN 0 ELSE Counted(i)]
    /\ age' = [age EXCEPT ![i] = 0]
    /\ tpc' = [tpc EXCEPT ![i] = IF MachineGone THEN "off"
                                 ELSE IF Expired(Counted(i)) THEN "kill"
                                 ELSE "poll"]
    /\ UNCHANGED <<runnerVars, machineVars, guard, wait, roundVars>>

(* Line 19: kill -9 every QEMU on the image, whoever booted it.              *)
Retire(i) ==
    /\ tpc' = [tpc EXCEPT ![i] = "off"]
    /\ age' = [age EXCEPT ![i] = 0]
    /\ UNCHANGED left

Kill(i) ==
    /\ tpc[i] = "kill"
    /\ Retire(i)
    /\ \/ vm # None /\ MachineEnds
       \/ vm = None /\ UNCHANGED <<runnerVars, machineVars, guard, wait,
                                   roundVars>>

-----------------------------------------------------------------------------
(* The environment.                                                          *)

(* Ctrl-C: the runner and QEMU die, a timer ignores it (bash starts          *)
(* background commands of a script with SIGINT ignored).                     *)
Interrupt ==
    /\ pc \notin {"idle", "off"}
    /\ cuts < MaxCuts
    /\ pc' = "off"
    /\ vm' = None
    /\ vmAge' = 0
    /\ wait' = 0
    /\ cuts' = cuts + 1
    /\ UNCHANGED <<nowTest, file, baseDirs, timerVars, guard, tries, booted>>

(* The clock of the runner runs in these states, up to what they wait for.   *)
WaitTarget == CASE pc = "launch" -> LaunchMax
                [] pc = "sleep"  -> Gap
                [] pc = "off"    -> RestartMin
                [] OTHER         -> 0

(* One unit of time passes, unless a timer or the launch is overdue.         *)
Tick ==
    /\ \A i \in Timers : Live(i) => age[i] < PollMax
    /\ pc = "launch" => wait < LaunchMax
    /\ age' = [i \in Timers |-> IF Live(i) THEN age[i] + 1 ELSE age[i]]
    /\ wait' = IF wait < WaitTarget THEN wait + 1 ELSE wait
    /\ vmAge' = IF vm # None /\ vmAge < AgeCap THEN vmAge + 1 ELSE vmAge
    /\ UNCHANGED <<runnerVars, vm, tpc, left, guard, roundVars>>

RunnerStep ==
    \/ Check \/ Pick \/ AllTested \/ Configure \/ SpawnTimer
    \/ Boot \/ FailToBoot \/ Rename \/ ResetOne \/ ResetDone

TimerStep(i) == Poll(i) \/ Kill(i)

Next ==
    \/ Start
    \/ RunnerStep
    \/ GuestEnds
    \/ \E i \in Timers : TimerStep(i)
    \/ Interrupt
    \/ Tick

Spec == Init /\ [][Next]_vars

(* The scheduler runs the scripts and time passes; nothing makes the guest   *)
(* end, the operator start, or Ctrl-C happen.                                *)
Fairness ==
    /\ WF_vars(Tick)
    /\ WF_vars(RunnerStep)
    /\ \A i \in Timers : WF_vars(TimerStep(i))

FairSpec == Spec /\ Fairness

-----------------------------------------------------------------------------
(* What a campaign must guarantee.                                           *)

(* Every variable has its type; a bound is never exceeded.                   *)
TypeOK ==
    /\ pc \in Runner
    /\ nowTest \in Tests \cup {None}
    /\ pc \in Attempt => nowTest \in Tests
    /\ file \in [Tests -> {"test", "testdone"}]
    /\ baseDirs \in Tests \cup {Shipped, Garbled}
    /\ vm \in Tests \cup {Shipped, None}
    /\ vmAge \in Nat
    /\ tpc \in [Timers -> {"off", "poll", "kill"}]
    /\ left \in [Timers -> 0..WaitFor]
    /\ \A i \in Timers : (tpc[i] = "poll") <=> (left[i] > 0)
    /\ age \in [Timers -> 0..PollMax]
    /\ guard \in Timers \cup {None}
    /\ wait \in Nat
    /\ tries \in [Tests -> Nat]
    /\ booted \in SUBSET Tests
    /\ cuts \in 0..MaxCuts

(* A timer spawned for an earlier program is gone before the next machine    *)
(* shows in `ps': the two seconds of line 94 outlast one poll.  Otherwise    *)
(* line 19 of timer.sh would kill a machine that has barely started.         *)
OwnTimerOnly == vm # None => \A i \in Timers : Live(i) => i = guard

(* A running machine always has the timer of its attempt beside it: the      *)
(* timer does not look at `ps' before QEMU shows there and give up.          *)
Guarded == vm # None => guard \in Timers /\ Live(guard)

(* No machine outlives the time its timer grants, even if its guest program  *)
(* never calls s2e_kill_state.                                               *)
TimeBound == vm # None => vmAge <= (WaitFor + 1) * PollMax

(* A timer kills a machine only when that machine has had the full time,     *)
(* waitfor seconds less the launch.                                          *)
FullTime(i) == tpc[i] = "kill" /\ vm # None => vmAge + LaunchMax >= WaitFor * Second
NoEarlyKill == [][\A i \in Timers : Kill(i) => FullTime(i)]_vars

(* In one round a program is run again only because of a Ctrl-C.             *)
AtMostOnce == \A t \in Tests : tries[t] <= cuts + 1

(* When the script says that all programs have been tested, each of them     *)
(* has been given to a guest.                                                *)
AllTestedMeansBooted == pc = "reset" => booted = Tests

(* Every started campaign ends (unless stopped): no guest can block it.      *)
CampaignEnds == pc = "check" ~> pc \in {"idle", "off"}

(* Every timer goes away: by itself once no machine runs, or after its kill. *)
(* In particular none is left behind for ever by a Ctrl-C.                   *)
TimersEnd == \A i \in Timers : Live(i) ~> ~Live(i)

-----------------------------------------------------------------------------
(* The inductive invariant behind Guarded, TimeBound, OwnTimerOnly and       *)
(* NoEarlyKill: where the runner is says which timers may be alive, and how  *)
(* their clocks stand to the runner's and the machine's.                     *)

MachineOnlyInRun == /\ vm # None <=> pc = "run"
                    /\ vm = None => vmAge = 0

GuardLaunching == pc = "launch" =>
    /\ guard \in Timers
    /\ tpc[guard] = "poll"
    /\ left[guard] = WaitFor
    /\ age[guard] = wait
    /\ wait <= LaunchMax

Polls == WaitFor - left[guard]

GuardRunning == pc = "run" =>
    /\ guard \in Timers
    /\ Live(guard)
    /\ vmAge + LaunchMax >= Polls * Second + age[guard]
    /\ vmAge <= Polls * PollMax + age[guard]

(* A machine and its own timer are in step, whatever other timers there are: *)
(* for this it is enough that QEMU shows before the first poll.              *)
GuardInStep == MachineOnlyInRun /\ GuardLaunching /\ GuardRunning

NoneLeft == pc \in {"idle", "check", "scan", "config", "spawn", "reset"} =>
               \A i \in Timers : ~Live(i)

Outlasted == pc \in {"sleep", "off"} =>
               \A i \in Timers : Live(i) => age[i] >= wait

OnlyGuard == pc \in {"launch", "run"} =>
               \A i \in Timers : Live(i) => i = guard

(* All of the above: the timers of the campaign are in step with its runner. *)
TimersInStep ==
    /\ GuardInStep
    /\ NoneLeft
    /\ Outlasted
    /\ OnlyGuard

-----------------------------------------------------------------------------
(* The inductive invariant behind AtMostOnce, AllTestedMeansBooted and the   *)
(* refinement of TestQueue: what the history of a round has to do with the   *)
(* names of the files.  Given names without `&', `#' and blanks, and an S2E  *)
(* that boots.                                                               *)

InHand == pc \in Attempt => nowTest \in Waiting

(* A program that waits was run at most once per Ctrl-C, unless its run is   *)
(* the present one or the round is over.                                     *)
RetriesCounted ==
    \A t \in Tests :
        /\ tries[t] <= cuts + 1
        /\ t \in Waiting /\ pc # "reset" /\ ~(pc \in {"run", "sleep"} /\ t = nowTest)
              => tries[t] <= cuts

(* A program that was put aside, or is about to be, was given to a guest.    *)
ServedFirst ==
    /\ Tests \ Waiting \subseteq booted
    /\ pc \in {"spawn", "launch"} => baseDirs = nowTest
    /\ pc \in {"run", "sleep"} => nowTest \in booted
    /\ pc = "reset" => booted = Tests

(* The files and the history of the round agree.                             *)
RoundInStep == InHand /\ RetriesCounted /\ ServedFirst
=============================================================================
