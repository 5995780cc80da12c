---------------------------- MODULE KernelBuild ----------------------------
(* Preparing a kernel tree: KINT analyses the sources, `insert' adds calls   *)
(* of s2e_detect_int to three directories, and the tree is built again.      *)
(* checkKernel.sh does all of it and then starts the tests; onlykint.sh,     *)
(* onlyinsert.sh, insertall.sh and onlybzImage.sh do parts of it.  No script *)
(* looks at the exit status of a command, and the operator may stop a script *)
(* at or inside any command and start another one on what is left.           *)
(*                                                                           *)
(* The tests do not run on the bzImage in the tree: startTest.sh only asks   *)
(* whether there is one (line 33) and boots the snapshot `runtest' of the    *)
(* disk image (line 93; line 92, with -kernel $bzImage, is commented out).   *)
(* No script takes that snapshot; the operator does, and which kernel is in  *)
(* it is kept in `runtest'; at first it is one without calls.                *)
(*                                                                           *)
(* A script is a sequence of commands; Flow gives the command after each.    *)
(* make and KINT's tools are modelled by what the scripts use them for:      *)
(* kint-build leaves the bitcode of every directory, pintck turns the        *)
(* bitcode below the working directory into a report there, insert adds the  *)
(* calls the report asks for (at least one in every directory).              *)

EXTENDS Naturals

CONSTANTS
    Present,      \* which of the three directories the kernel has
    Offered,      \* which of the scripts the operator uses
    MaxFaults,    \* bound: commands that fail without being noticed
    MaxCalls      \* bound: insertions into a directory are counted so far

Dirs == {"net/ipv4", "net/core", "kernel/events"}
NoImage == {"none"}        \* there is no arch/x86/boot/bzImage

ASSUME BuildAssumption ==
    /\ Present \subseteq Dirs
    /\ MaxFaults \in Nat
    /\ MaxCalls \in Nat /\ MaxCalls >= 2

VARIABLES
    script,       \* the script that runs (or ran last)
    op,           \* its next command, "end" when none runs
    turn,         \* turn of the loop over the three directories
    cwd, oldcwd,  \* the shell's working directory, and $OLDPWD
    fixed,        \* the two kernel sources clang refuses were corrected
    config,       \* .config: "none", "allyes" or "i386"
    ll,           \* bitcode of each directory: "none", "current", "stale"
    report,       \* pintck.txt in each place, what it says of each directory
    calls,        \* how often each directory was instrumented
    header,       \* include/s2e/s2e.h is there
    bzImage,      \* the directories instrumented in bzImage, or NoImage
    runtest,      \* the same of the kernel in the snapshot
    blind,        \* history: directories instrumented from a stale report
    snapped,      \* history: the snapshot was taken with s2e.h in the tree
    torn,         \* history: a script was stopped in its delicate part
    byHand,       \* history: onlyinsert.sh or insertall.sh was used
    faults        \* history: commands that failed unnoticed

shellVars == <<turn, cwd, oldcwd>>
treeVars == <<fixed, config, ll, report, calls, header, bzImage, blind>>
snapshotVars == <<runtest, snapped>>
historyVars == <<torn, byHand, faults>>
vars == <<script, op, turn, cwd, oldcwd, fixed, config, ll, report, calls,
          header, bzImage, blind, runtest, snapped, torn, byHand, faults>>

Places == Dirs \cup {"kernel", "elsewhere"}
Freshness == {"none", "current", "stale"}

(* The scripts, command by command.  The loop over the directories is cd,    *)
(* pintck, insert, back; `loop' names the command after it.                  *)
Flow ==
    [checkKernel |-> [begin |-> "gate", gate |-> "fix", fix |-> "allyesconfig",
                      allyesconfig |-> "kint", kint |-> "cd", pintck |-> "insert",
                      insert |-> "back", loop |-> "header", header |-> "mrproper",
                      mrproper |-> "defconfig", defconfig |-> "make",
                      make |-> "start"],
     onlykint    |-> [begin |-> "gate", gate |-> "fix", fix |-> "allyesconfig",
                      allyesconfig |-> "kint", kint |-> "end"],
     onlyinsert  |-> [begin |-> "cd", pintck |-> "insert", insert |-> "back",
                      loop |-> "header", header |-> "end"],
     insertall   |-> [begin |-> "pintck", pintck |-> "insert",
                      insert |-> "header", header |-> "end"],
     onlybzImage |-> [begin |-> "mrproper", mrproper |-> "defconfig",
                      defconfig |-> "make", make |-> "end"]]

Scripts == DOMAIN Flow

ASSUME OfferedAssumption == Offered \subseteq Scripts

HeaderEarly(s, o) ==       \* mutant: checkKernel.sh copies s2e.h before the loop
    IF s # "checkKernel" THEN Flow[s][o]
    ELSE CASE o = "kint" -> "header" [] o = "header" -> "cd"
           [] o = "loop" -> "mrproper" [] OTHER -> Flow[s][o]
NoMrproper(s, o) ==        \* mutant: the tree is not built again before the tests
    IF s = "checkKernel" /\ o = "header" THEN "start" ELSE Flow[s][o]
NoHeader(s, o) ==          \* mutant: onlyinsert.sh does not copy s2e.h
    IF s = "onlyinsert" /\ o = "loop" THEN "end" ELSE Flow[s][o]
After(s, o) == Flow[s][o]

Inserted == {d \in Present : calls[d] > 0}

(* What was added calls s2e_detect_int, which s2e.h declares.                *)
Compiles(d) == calls[d] > 0 => header
TreeCompiles == \A d \in Present : Compiles(d)

Init ==
    /\ script = "checkKernel"
    /\ op = "end"
    /\ turn = 1
    /\ cwd = "kernel"
    /\ oldcwd = "elsewhere"
    /\ fixed = FALSE
    /\ config = "none"
    /\ ll = [d \in Dirs |-> "none"]
    /\ report = [p \in Places |-> [d \in Dirs |-> "none"]]
    /\ calls = [d \in Dirs |-> 0]
    /\ header = FALSE
    /\ bzImage = NoImage
    /\ blind = {}
    /\ runtest = {}
    /\ snapped = FALSE
    /\ torn = FALSE
    /\ byHand = FALSE
    /\ faults = 0

-----------------------------------------------------------------------------
(* The commands.                                                             *)

At(o) == op = o
Goes(o) == op' = After(script, o) /\ UNCHANGED script

(* The operator starts a script in the kernel tree, coming from elsewhere.   *)
Launch ==
    /\ At("end")
    /\ script' \in Offered
    /\ op' = After(script', "begin")
    /\ turn' = 1
    /\ cwd' = "kernel"
    /\ oldcwd' = "elsewhere"
    /\ byHand' = (byHand \/ script' \in {"onlyinsert", "insertall"})
    /\ UNCHANGED <<treeVars, snapshotVars, torn, faults>>

(* checkKernel.sh and onlykint.sh, lines 3-19, started somewhere else.       *)
NotInKernel ==
    /\ At("end")
    /\ script' \in Offered \cap {"checkKernel", "onlykint"}
    /\ UNCHANGED <<op, shellVars, treeVars, snapshotVars, historyVars>>

(* Between two scripts the operator boots the bzImage of the tree and saves  *)
(* the machine as snapshot runtest of the disk image.                        *)
TakeSnapshot ==
    /\ At("end")
    /\ bzImage # NoImage
    /\ runtest' = bzImage
    /\ snapped' = (snapped \/ header)
    /\ UNCHANGED <<script, op, shellVars, treeVars, historyVars>>

(* checkKernel.sh and onlykint.sh, lines 21-28: a file s2e.h in the tree     *)
(* means that all the work was done; the tests are started.                  *)
SaysInserted == header

Gate ==
    /\ At("gate")
    /\ op' = IF SaysInserted THEN "start" ELSE After(script, "gate")
    /\ UNCHANGED <<script, shellVars, treeVars, snapshotVars, historyVars>>

(* Lines 38-40.                                                              *)
Fix ==
    /\ At("fix")
    /\ fixed' = TRUE
    /\ Goes("fix")
    /\ UNCHANGED <<shellVars, config, ll, report, calls, header, bzImage, blind,
                   snapshotVars, historyVars>>

(* Line 44.                                                                  *)
AllYesConfig ==
    /\ At("allyesconfig")
    /\ config' = "allyes"
    /\ Goes("allyesconfig")
    /\ UNCHANGED <<shellVars, fixed, ll, report, calls, header, bzImage, blind,
                   snapshotVars, historyVars>>

(* Line 45: the build runs through and leaves bitcode and a bzImage, or it   *)
(* stops at a file that does not compile; some directories were built.       *)
KintBuild ==
    /\ At("kint")
    /\ \E built \in SUBSET {d \in Present : Compiles(d)} :
          /\ config = "none" => built = {}
          /\ fixed /\ TreeCompiles /\ config # "none" => built = Present
          /\ ll' = [d \in Dirs |-> IF d \in built THEN "current" ELSE ll[d]]
    /\ bzImage' = IF fixed /\ TreeCompiles /\ config # "none" THEN Inserted
                  ELSE bzImage
    /\ Goes("kint")
    /\ UNCHANGED <<shellVars, fixed, config, report, calls, header, blind,
                   snapshotVars, historyVars>>

(* Line 51: a relative name, known only in the kernel directory.             *)
Loop == [n \in 1..3 |-> IF n = 1 THEN "net/ipv4"
                        ELSE IF n = 2 THEN "net/core" ELSE "kernel/events"]

Cd ==
    /\ At("cd")
    /\ IF cwd = "kernel" /\ Loop[turn] \in Present
       THEN cwd' = Loop[turn] /\ oldcwd' = cwd
       ELSE UNCHANGED <<cwd, oldcwd>>
    /\ op' = "pintck"
    /\ UNCHANGED <<script, turn, treeVars, snapshotVars, historyVars>>

(* Line 53: the report on everything below the working directory.            *)
Below(p) == IF p = "kernel" THEN Present ELSE {p} \cap Present

PintckOf(done) ==
    report' = [report EXCEPT ![cwd] =
                  [d \in Dirs |-> IF d \in done THEN ll[d] ELSE "none"]]

Pintck ==
    /\ At("pintck")
    /\ PintckOf(Below(cwd))
    /\ Goes("pintck")
    /\ UNCHANGED <<shellVars, fixed, config, ll, calls, header, bzImage, blind,
                   snapshotVars, historyVars>>

(* Line 54: the sources change, so bitcode and reports on them are stale.    *)
Reported == {d \in Dirs : report[cwd][d] # "none"}
Aged(f) == IF f = "current" THEN "stale" ELSE f

InsertInto(done) ==
    /\ calls' = [d \in Dirs |-> IF d \in done /\ calls[d] < MaxCalls
                                THEN calls[d] + 1 ELSE calls[d]]
    /\ ll' = [d \in Dirs |-> IF d \in done THEN Aged(ll[d]) ELSE ll[d]]
    /\ report' = [p \in Places |->
                     [d \in Dirs |-> IF d \in done THEN Aged(report[p][d])
                                     ELSE report[p][d]]]
    /\ blind' = blind \cup {d \in done : report[cwd][d] = "stale"}

Insert ==
    /\ At("insert")
    /\ InsertInto(Reported)
    /\ Goes("insert")
    /\ UNCHANGED <<shellVars, fixed, config, header, bzImage, snapshotVars,
                   historyVars>>

(* Line 55 of checkKernel.sh: cd $Kernel; line 11 of onlyinsert.sh: cd -.    *)
StayThere == cwd           \* mutant: the loop does not come back
DashEverywhere == oldcwd   \* mutant: checkKernel.sh has cd - as well
CameBack == IF script = "checkKernel" THEN "kernel" ELSE oldcwd

PastLast == 4              \* mutant: the loop makes one turn too many
LastTurn == 3

Back ==
    /\ At("back")
    /\ cwd' = CameBack
    /\ oldcwd' = cwd
    /\ IF turn < LastTurn THEN op' = "cd" /\ turn' = turn + 1
       ELSE op' = After(script, "loop") /\ UNCHANGED turn
    /\ UNCHANGED <<script, treeVars, snapshotVars, historyVars>>

(* Lines 58-59: mkdir include/s2e, and cp into it.                           *)
CopyHeader ==
    /\ At("header")
    /\ header' = (header \/ cwd = "kernel")
    /\ Goes("header")
    /\ UNCHANGED <<shellVars, fixed, config, ll, report, calls, bzImage, blind,
                   snapshotVars, historyVars>>

(* Lines 63-64: cd $Kernel and make mrproper, which leaves the bitcode.      *)
Mrproper ==
    /\ At("mrproper")
    /\ cwd' = "kernel"
    /\ oldcwd' = cwd
    /\ config' = "none"
    /\ bzImage' = NoImage
    /\ Goes("mrproper")
    /\ UNCHANGED <<turn, fixed, ll, report, calls, header, blind, snapshotVars,
                   historyVars>>

(* Line 108.                                                                 *)
DefConfig ==
    /\ At("defconfig")
    /\ config' = "i386"
    /\ Goes("defconfig")
    /\ UNCHANGED <<shellVars, fixed, ll, report, calls, header, bzImage, blind,
                   snapshotVars, historyVars>>

(* Line 109.                                                                 *)
Make ==
    /\ At("make")
    /\ bzImage' = IF TreeCompiles /\ config # "none" THEN Inserted ELSE bzImage
    /\ Goes("make")
    /\ UNCHANGED <<shellVars, fixed, config, ll, report, calls, header, blind,
                   snapshotVars, historyVars>>

(* Line 112 or 26: startTest.sh takes over (Campaign).  It looks for the     *)
(* bzImage of the tree and then boots the snapshot, not the bzImage.         *)
StartTest ==
    /\ At("start")
    /\ op' = "end"
    /\ UNCHANGED <<script, shellVars, treeVars, snapshotVars, historyVars>>

(* What a command that did not run through has done: kint-build has compiled *)
(* some directories, and may have got to its bzImage; pintck has reported    *)
(* on, insert has changed some of the directories in question; mrproper has  *)
(* removed .config and bzImage, one of them, or neither.  The other commands *)
(* are done or not: a cd, a rewritten file, a new .config, a bzImage.        *)
KintCut ==
    /\ op = "kint"
    /\ \E built \in SUBSET {d \in Present : Compiles(d)} :
          /\ config = "none" => built = {}
          /\ ll' = [d \in Dirs |-> IF d \in built THEN "current" ELSE ll[d]]
          /\ \/ UNCHANGED bzImage
             \/ fixed /\ built = Present /\ config # "none" /\ bzImage' = Inserted
    /\ UNCHANGED <<shellVars, fixed, config, report, calls, header, blind>>

PintckCut ==
    /\ op = "pintck"
    /\ \E done \in SUBSET Below(cwd) : PintckOf(done)
    /\ UNCHANGED <<shellVars, fixed, config, ll, calls, header, bzImage, blind>>

InsertCut ==
    /\ op = "insert"
    /\ \E done \in SUBSET Reported : InsertInto(done)
    /\ UNCHANGED <<shellVars, fixed, config, header, bzImage>>

MrproperCut ==
    /\ op = "mrproper"
    /\ cwd' = "kernel"
    /\ oldcwd' = cwd
    /\ config' \in {config, "none"}
    /\ bzImage' \in {bzImage, NoImage}
    /\ UNCHANGED <<turn, fixed, ll, report, calls, header, blind>>

CutShort ==
    \/ KintCut \/ PintckCut \/ InsertCut \/ MrproperCut
    \/ UNCHANGED <<shellVars, treeVars>>

(* A command fails on its way, and the script goes on with the next.         *)
Fail ==
    /\ op \in {"fix", "allyesconfig", "kint", "cd", "pintck", "insert", "header",
               "mrproper", "defconfig", "make"}
    /\ faults < MaxFaults
    /\ faults' = faults + 1
    /\ CutShort
    /\ op' = IF op = "cd" THEN "pintck" ELSE After(script, op)
    /\ UNCHANGED <<script, snapshotVars, torn, byHand>>

(* Ctrl-C before or during a command.  The delicate part begins when the     *)
(* first call was inserted and ends when the old bzImage is gone.            *)
DelicateOps == {"cd", "pintck", "insert", "back", "header", "mrproper"}

Interrupt ==
    /\ ~At("end")
    /\ op' = "end"
    /\ CutShort
    /\ torn' = (torn \/ (Inserted' # {} /\ op \in DelicateOps))
    /\ UNCHANGED <<script, snapshotVars, byHand, faults>>

Next ==
    \/ Launch \/ NotInKernel \/ TakeSnapshot
    \/ Gate \/ Fix \/ AllYesConfig \/ KintBuild
    \/ Cd \/ Pintck \/ Insert \/ Back \/ CopyHeader
    \/ Mrproper \/ DefConfig \/ Make \/ StartTest
    \/ Fail \/ Interrupt

Spec == Init /\ [][Next]_vars

-----------------------------------------------------------------------------
(* What the scripts must guarantee.                                          *)

(* Every variable has its type.                                              *)
TypeOK ==
    /\ script \in Scripts
    /\ op \in {"gate", "fix", "allyesconfig", "kint", "cd", "pintck", "insert",
               "back", "header", "mrproper", "defconfig", "make", "start", "end"}
    /\ turn \in 1..3
    /\ cwd \in Places /\ oldcwd \in Places
    /\ fixed \in BOOLEAN
    /\ config \in {"none", "allyes", "i386"}
    /\ ll \in [Dirs -> Freshness]
    /\ report \in [Places -> [Dirs -> Freshness]]
    /\ calls \in [Dirs -> 0..MaxCalls]
    /\ header \in BOOLEAN
    /\ bzImage \in (SUBSET Dirs) \cup {NoImage}
    /\ blind \in SUBSET Dirs
    /\ runtest \in SUBSET Dirs
    /\ snapped \in BOOLEAN
    /\ torn \in BOOLEAN /\ byHand \in BOOLEAN
    /\ faults \in 0..MaxFaults

(* The scripts were let run where it matters, no command failed, and the     *)
(* operator left the insertion to checkKernel.sh.                            *)
Orderly == ~torn /\ ~byHand /\ faults = 0

(* The loop returns to the kernel directory, so that the relative names of   *)
(* the next turn and of the header mean what they say: checkKernel.sh always *)
(* does, whatever directory is missing and whatever failed; the cd - of      *)
(* onlyinsert.sh does if every cd before it succeeded.                       *)
LoopReturns ==
    /\ op \in {"cd", "header"}
    /\ script = "onlyinsert" => Present = Dirs /\ faults = 0
    => cwd = "kernel"

(* A file s2e.h is proof that every directory was instrumented, which is     *)
(* what lines 21-25 take it for.  Stopping a script does not matter here.    *)
HeaderMeansInserted ==
    header /\ ~byHand /\ faults = 0 => Inserted = Present

(* Stopped anywhere outside the delicate part and started again, the         *)
(* scripts instrument no directory twice, and none from a stale report.      *)
InsertedOnce == Orderly => blind = {} /\ \A d \in Dirs : calls[d] <= 1

(* The tree always compiles when no script runs.                             *)
CompilesAtRest == At("end") /\ ~torn /\ faults = 0 => TreeCompiles

(* The tests run on an instrumented kernel, if the scripts were let run      *)
(* where it matters and the operator took the snapshot with s2e.h in the     *)
(* tree: the bzImage that stands beside s2e.h was made after the insertion.  *)
TestsInstrumented == At("start") /\ Orderly /\ snapped => runtest = Present

(* Tests are started directly in a tree that is instrumented and recompiled  *)
(* (README, lines 6-8), of which checkKernel.sh says "this kernel have       *)
(* inserted" (line 24): every directory has its calls, and the bzImage that  *)
(* lets startTest.sh through its check was made from those sources.          *)
StartsRebuilt ==
    At("start") => Inserted = Present /\ bzImage \in {Present, NoImage}

(* The tests are started with the bzImage that checkKernel.sh has just made  *)
(* for that purpose (its line 107).                                          *)
TestsBzImage == At("start") /\ bzImage # NoImage => runtest = bzImage

-----------------------------------------------------------------------------
(* What holds between any two commands, and keeps the above from step to     *)
(* step.                                                                     *)

InLoop == {"cd", "pintck", "insert", "back"}

(* Each command belongs to the scripts that have it.                         *)
InFlow ==
    /\ op \in {"gate", "fix", "allyesconfig", "kint"}
          => script \in {"checkKernel", "onlykint"}
    /\ op \in {"cd", "back"} => script \in {"checkKernel", "onlyinsert"}
    /\ op \in {"pintck", "insert", "header"}
          => script \in {"checkKernel", "onlyinsert", "insertall"}
    /\ op \in {"mrproper", "defconfig", "make"}
          => script \in {"checkKernel", "onlybzImage"}
    /\ ~byHand => script \notin {"onlyinsert", "insertall"}

(* The working directory.  A turn of checkKernel.sh whose directory is       *)
(* missing works in the kernel directory.                                    *)
InPlace ==
    /\ op \in {"gate", "fix", "allyesconfig", "kint"} => cwd = "kernel" /\ turn = 1
    /\ LoopReturns
    /\ op \in {"pintck", "insert", "back"} =>
          /\ script = "insertall" => cwd = "kernel"
          /\ script = "checkKernel" /\ faults = 0 =>
                cwd = IF Loop[turn] \in Present THEN Loop[turn] ELSE "kernel"
          /\ script = "onlyinsert" /\ Present = Dirs /\ faults = 0 =>
                cwd = Loop[turn] /\ oldcwd = "kernel"

(* No s2e.h is there before it is copied, and what kint-build needs is done. *)
BeforeHeader ==
    /\ ~byHand /\ op \in InLoop \cup {"fix", "allyesconfig", "kint", "header"}
          => ~header
    /\ faults = 0 /\ op \in {"allyesconfig", "kint"} => fixed
    /\ faults = 0 /\ op = "kint" => config # "none"

(* All the directories have bitcode once one of them was instrumented, and   *)
(* the turns that are over have instrumented theirs.                         *)
TurnsDone ==
    ~byHand /\ faults = 0 =>
      /\ op \in InLoop \cup {"header"} \/ Inserted # {}
            => \A d \in Present : ll[d] # "none"
      /\ op \in InLoop =>
            \A k \in 1..(turn - 1) : Loop[k] \in Present => calls[Loop[k]] > 0
      /\ op = "insert" /\ Loop[turn] \in Present => report[cwd][Loop[turn]] # "none"
      /\ op = "back" /\ Loop[turn] \in Present => calls[Loop[turn]] > 0
      /\ op = "header" => Inserted = Present

(* Calls without the header are met only on the way to it.                   *)
HeaderFollows ==
    ~torn /\ faults = 0 /\ ~header /\ Inserted # {} => op \in InLoop \cup {"header"}

(* In an orderly tree each turn works on fresh bitcode of its own directory. *)
FreshTurns ==
    Orderly =>
      /\ op \in {"cd", "pintck", "insert"} =>
            \A d \in Dirs : calls[d] = 0 \/ \E k \in 1..(turn - 1) : d = Loop[k]
      /\ op = "back" =>
            \A d \in Dirs : calls[d] = 0 \/ \E k \in 1..turn : d = Loop[k]
      /\ op \in InLoop => \A d \in Dirs : calls[d] = 0 => ll[d] = "current"
      /\ op = "insert" =>
            \A d \in Dirs : report[cwd][d] = IF d = cwd THEN "current" ELSE "none"

(* Where the header is and mrproper is not about to remove the old kernel,   *)
(* that was made from the instrumented sources.                              *)
ImageOfHeader ==
    Orderly /\ header /\ op # "mrproper" => bzImage \in {Present, NoImage}

(* A snapshot taken with the header there is of that image.                  *)
SnapshotOfHeader == snapped => header /\ (Orderly => runtest = Present)

(* All of this together; the second part is for a kernel that has the three  *)
(* directories, as 3.5.4 does.                                               *)
BuildInStep ==
    /\ InFlow /\ InPlace /\ BeforeHeader /\ TurnsDone /\ HeaderMeansInserted
    /\ Present = Dirs =>
          /\ HeaderFollows /\ FreshTurns /\ ImageOfHeader /\ SnapshotOfHeader
          /\ InsertedOnce
=============================================================================
