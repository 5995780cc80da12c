----------------------------- MODULE GuestPaths ------------------------------
(***************************************************************************)
(* One run of a guest program under S2E.  A branch on a symbolic value     *)
(* forks the whole machine into two paths; config/test.lua asks for a      *)
(* depth-first search, so one path runs until it is killed, then the one   *)
(* forked last.  The kernel under test decides which of the symbolic       *)
(* arguments it branches on.  The values of a variable fall into two       *)
(* classes, the two sides of the branch taken on it: the inputs of a       *)
(* program are the sets of variables that have a value of the high side.   *)
(***************************************************************************)
EXTENDS Integers, Sequences, FiniteSets

CONSTANTS Programs,   \* the programs, records [name, code]
          MaxFd,      \* the highest number a descriptor can have
          Garbage     \* what an int that was never assigned may hold

Ops == {"enable", "disable", "symbolic", "example", "open", "openexit", "close",
        "dup", "dup2", "fcntl", "call", "checked", "overrun", "branch", "guard",
        "leave", "kill"}

\* The steps that look at their arguments, and those of them the kernel makes.
Looking == {"open", "close", "dup2", "fcntl", "call", "checked", "overrun", "branch",
            "guard"}
InKernel == Looking \ {"branch", "guard"}

Steps == [op : Ops, fd : STRING, args : Seq(STRING)]

FdVar == {"s", "fd", "stdout", "creat_fd", "dup_fd", "dup2_fd", "open_fd"}

ArgSet(step) == {step.args[i] : i \in DOMAIN step.args}

\* The variables a program makes symbolic.
SymbolicVars(code) ==
  UNION {ArgSet(code[i]) : i \in {j \in DOMAIN code : code[j].op = "symbolic"}}

\* The variables it has made symbolic before step i.
SymbolicBefore(code, i) ==
  UNION {ArgSet(code[k]) : k \in {j \in 1..(i - 1) : code[j].op = "symbolic"}}

\* Whether a program that has come to step i has forking enabled.
ForkingAt(code, i) ==
  \E e \in 1..(i - 1) : /\ code[e].op = "enable"
                       /\ \A k \in (e + 1)..(i - 1) : code[k].op # "disable"

\* What every program of the catalogue keeps to: its last step ends its path,
\* a guard stands before a call, forking is on wherever a symbolic value is
\* looked at, and no variable is made symbolic twice.
WellFormed(code) ==
  /\ code # <<>> /\ code[Len(code)].op \in {"kill", "leave"}
  /\ \A i \in DOMAIN code :
       /\ code[i].op \in Ops
       /\ code[i].op = "guard" => /\ i + 1 \in DOMAIN code
                                 /\ code[i + 1].op \in InKernel \ {"close"}
       /\ code[i].op \in Looking /\ ArgSet(code[i]) \cap SymbolicVars(code) # {}
            => ForkingAt(code, i)
       /\ code[i].op = "symbolic" => ArgSet(code[i]) \cap SymbolicBefore(code, i) = {}

ASSUME ProgramsAssumption ==
  \A c \in Programs : c.code \in Seq(Steps) /\ WellFormed(c.code)

ASSUME FdAssumption == MaxFd \in Nat /\ MaxFd >= 2 /\ Garbage \subseteq Int

VARIABLES prog,       \* the program the machine runs
          stack,      \* its paths, the one that runs first
          explored,   \* inputs of the paths S2E was told are at their end
          stuck       \* "no", "hung" in the kernel, or "left" the program

vars == <<prog, stack, explored, stuck>>

NoFd == -1
Std  == 0..2

\* The inputs the symbolic variables of the program stand for.
Inputs == SUBSET SymbolicVars(prog.code)

\* A path: the step it is at and the argument its call has come to; the
\* variables that are symbolic and undecided, known low and known high; the
\* descriptor variables and the open descriptors; whether forking is on; the
\* variables a call was given or a guard kept from it; whether no open or
\* checked call failed and no memory was overrun.
FirstPath ==
  [ at |-> 1, arg |-> 1, raw |-> {}, low |-> {}, high |-> {},
    fd |-> [d \in FdVar |-> IF d = "stdout" THEN 1 ELSE NoFd], open |-> Std,
    forking |-> FALSE, met |-> {}, sound |-> TRUE ]

Init ==
  /\ prog \in Programs
  /\ stack = <<FirstPath>>
  /\ explored = {}
  /\ stuck = "no"

-----------------------------------------------------------------------------
Running == stack # <<>> /\ stuck = "no"
Path == Head(stack)
StepAt(p) == prog.code[p.at]
At(op) == Running /\ StepAt(Path).op = op

\* The inputs a path stands for.
Cube(p) == {a \in Inputs : p.high \subseteq a /\ a \cap p.low = {}}

\* The arguments of the step that are symbolic and not looked at yet.  An &&
\* is decided by its first high argument.
Undecided(p) ==
  LET s == StepAt(p)
  IN  IF s.op = "guard" /\ ArgSet(s) \cap p.high # {} THEN {}
      ELSE {i \in DOMAIN s.args : i >= p.arg /\ s.args[i] \in p.raw}

First(S) == CHOOSE i \in S : \A j \in S : i <= j

Low(p)  == LET i == First(Undecided(p))
               v == StepAt(p).args[i]
           IN  [p EXCEPT !.raw = @ \ {v}, !.low = @ \cup {v}, !.arg = i + 1]
High(p) == LET i == First(Undecided(p))
               v == StepAt(p).args[i]
           IN  [p EXCEPT !.raw = @ \ {v}, !.high = @ \cup {v}, !.arg = i + 1]

\* Mutant: the other side of the branch is dropped.
OneSide(p) == {<<Low(p)>>, <<High(p)>>}

\* Where a branch on a symbolic value leaves the machine: with both paths, or,
\* when forking is off, on the one side that the current values take.
Sides(p) ==
  IF p.forking THEN {<<Low(p), High(p)>>, <<High(p), Low(p)>>}
               ELSE {<<Low(p)>>, <<High(p)>>}

Look ==
  /\ Running /\ StepAt(Path).op \in Looking
  /\ Undecided(Path) # {}
  /\ \E sides \in Sides(Path) : stack' = sides \o Tail(stack)
  /\ UNCHANGED <<prog, explored, stuck>>

\* The running path becomes p.
Becomes(p) ==
  /\ stack' = <<p>> \o Tail(stack)
  /\ UNCHANGED <<prog, explored, stuck>>

\* The kernel need not branch on an argument.
PassOver ==
  /\ Running /\ StepAt(Path).op \in InKernel
  /\ Undecided(Path) # {}
  /\ Becomes([Path EXCEPT !.arg = First(Undecided(Path)) + 1])

\* The arguments of a step that are symbolic, or were before they were decided.
SymbolicArgs(p, step) == ArgSet(step) \cap (p.raw \cup p.low \cup p.high)

\* A call that takes the kernel into an endless loop or an oops, or restarts it.
Hang ==
  /\ Running /\ StepAt(Path).op \in InKernel
  /\ SymbolicArgs(Path, StepAt(Path)) # {}
  /\ stuck' = "hung"
  /\ UNCHANGED <<prog, stack, explored>>

-----------------------------------------------------------------------------
\* The path p past its step, which was given its arguments.
Past(p) ==
  [p EXCEPT !.at = @ + 1, !.arg = 1,
            !.met = IF StepAt(p).op \in InKernel
                    THEN @ \cup SymbolicArgs(p, StepAt(p)) ELSE @]

Ready(op) == At(op) /\ Undecided(Path) = {}

\* A new descriptor takes the lowest free number, if the table has one.
Free(open) == (0..MaxFd) \ open
LowestFree(open) == First(Free(open))

\* Mutant: nothing is switched on.
EnableNothing == At("enable") /\ Becomes(Past(Path))

EnableForking == At("enable") /\ Becomes([Past(Path) EXCEPT !.forking = TRUE])

DisableForking == At("disable") /\ Becomes([Past(Path) EXCEPT !.forking = FALSE])

MakeSymbolic ==
  /\ At("symbolic")
  /\ Becomes([Past(Path) EXCEPT !.raw = @ \cup ArgSet(StepAt(Path))])

\* s2e_get_example leaves concrete values in memory and the path as wide as
\* it was.
GetExample ==
  /\ At("example")
  /\ Becomes([Past(Path) EXCEPT !.raw = @ \ ArgSet(StepAt(Path))])

OpenFd(p, d) ==
  LET n == LowestFree(p.open)
  IN  [Past(p) EXCEPT !.fd = [@ EXCEPT ![d] = n], !.open = @ \cup {n}]
FailFd(p, d) == [Past(p) EXCEPT !.fd = [@ EXCEPT ![d] = NoFd], !.sound = FALSE]

DoOpen ==
  /\ Ready("open")
  /\ \/ /\ Free(Path.open) # {}
        /\ Becomes(OpenFd(Path, StepAt(Path).fd))
     \/ Becomes(FailFd(Path, StepAt(Path).fd))

LeaveIdle(p) ==
  /\ stack' = <<p>> \o Tail(stack)
  /\ stuck' = "left"
  /\ UNCHANGED <<prog, explored>>

DoOpenOrExit ==
  /\ At("openexit")
  /\ \/ /\ Free(Path.open) # {}
        /\ Becomes(OpenFd(Path, StepAt(Path).fd))
     \/ LeaveIdle([Path EXCEPT !.sound = FALSE])

\* The number in a variable stays when its descriptor is closed.
\* Mutant: close fails and the number stays taken.
DoCloseKeeps == Ready("close") /\ Becomes(Past(Path))

DoClose ==
  /\ Ready("close")
  /\ Becomes([Past(Path) EXCEPT !.open = @ \ {Path.fd[StepAt(Path).fd]}])

DoDup ==
  /\ At("dup")
  /\ Becomes(LET old == Path.fd[StepAt(Path).fd]
             IN  IF old \in Path.open /\ Free(Path.open) # {} THEN OpenFd(Path, "dup_fd")
                 ELSE FailFd(Path, "dup_fd"))

\* Mutant: a number beyond the table is taken.
DoDup2Beyond ==
  /\ Ready("dup2")
  /\ \E n \in Garbage :
       Becomes([Past(Path) EXCEPT
                  !.fd["dup2_fd"] = n,
                  !.open = IF Path.fd[StepAt(Path).fd] \in @ THEN @ \cup {n} ELSE @])

\* dup2_fd was never assigned, or is symbolic.
DoDup2 ==
  /\ Ready("dup2")
  /\ \E n \in Garbage :
       Becomes([Past(Path) EXCEPT
                  !.fd["dup2_fd"] = n,
                  !.open = IF n \in 0..MaxFd /\ Path.fd[StepAt(Path).fd] \in @
                           THEN @ \cup {n} ELSE @])

\* The low side of fcntl_cmd is F_DUPFD, 0: it duplicates an open descriptor.
DoFcntl ==
  /\ Ready("fcntl")
  /\ LET p == Path
         duplicates == /\ "fcntl_cmd" \in p.low
                       /\ p.fd[StepAt(p).fd] \in p.open
                       /\ Free(p.open) # {}
     IN  Becomes(IF duplicates
                 THEN [Past(p) EXCEPT !.open = @ \cup {LowestFree(@)}]
                 ELSE Past(p))

DoCall == Ready("call") /\ Becomes(Past(Path))

\* A call whose failure ends the process, with its path where it is.
DoChecked ==
  /\ Ready("checked")
  /\ \/ Becomes(Past(Path))
     \/ LeaveIdle([Path EXCEPT !.sound = FALSE])

\* The kernel writes past the end of a buffer on the stack or the heap: no
\* harm, a descriptor variable spoilt, or a crash of the program.
DoOverrun ==
  /\ Ready("overrun")
  /\ \/ Becomes(Past(Path))
     \/ Becomes([Past(Path) EXCEPT !.fd["open_fd"] = NoFd, !.sound = FALSE])
     \/ LeaveIdle([Path EXCEPT !.sound = FALSE])

DoBranch == Ready("branch") /\ Becomes(Past(Path))

\* A guard that is false skips the call it stands before.
DoGuard ==
  /\ Ready("guard")
  /\ LET skipped == prog.code[Path.at + 1]
     IN  Becomes(IF ArgSet(StepAt(Path)) \cap Path.high = {} THEN Past(Path)
                 ELSE [Past(Path) EXCEPT !.at = @ + 1,
                                         !.met = @ \cup SymbolicArgs(Path, skipped)])

Exit == At("leave") /\ LeaveIdle(Path)

\* Mutant: all paths are ended with the running one.
KillMachine ==
  /\ At("kill")
  /\ stack' = <<>>
  /\ explored' = explored \cup Cube(Path)
  /\ UNCHANGED <<prog, stuck>>

\* s2e_kill_state ends the running path; S2E goes on with the one forked last.
KillState ==
  /\ At("kill")
  /\ stack' = Tail(stack)
  /\ explored' = explored \cup Cube(Path)
  /\ UNCHANGED <<prog, stuck>>

Next ==
  \/ Look \/ PassOver \/ Hang
  \/ EnableForking \/ DisableForking \/ MakeSymbolic \/ GetExample
  \/ DoOpen \/ DoOpenOrExit \/ DoClose \/ DoDup \/ DoDup2 \/ DoFcntl
  \/ DoCall \/ DoChecked \/ DoOverrun
  \/ DoBranch \/ DoGuard \/ Exit \/ KillState

Spec == Init /\ [][Next]_vars
-----------------------------------------------------------------------------
Tables == [FdVar -> 0..MaxFd \cup {NoFd} \cup Garbage]

Paths(code) ==
  [ at : 1..Len(code), arg : Nat,
    raw : SUBSET SymbolicVars(code), low : SUBSET SymbolicVars(code),
    high : SUBSET SymbolicVars(code),
    fd : Tables, open : SUBSET (0..MaxFd),
    forking : BOOLEAN, met : SUBSET SymbolicVars(code), sound : BOOLEAN ]

\* Every path is inside its program, and its descriptors are inside the table.
TypeOK ==
  /\ prog \in Programs
  /\ stack \in Seq(Paths(prog.code))
  /\ explored \subseteq Inputs
  /\ stuck \in {"no", "hung", "left"}

\* A path knows of no variable that was not made symbolic before, of each at
\* most one thing, and has forking on where its program had it turned on.
InStep(p) ==
  /\ p.raw \cup p.low \cup p.high \subseteq SymbolicBefore(prog.code, p.at)
  /\ p.raw \cap (p.low \cup p.high) = {} /\ p.low \cap p.high = {}
  /\ ForkingAt(prog.code, p.at) => p.forking

\* All the paths are in step with their program: what makes forking split the
\* inputs of a path, and no path stand for none.
PathsInStep == \A i \in DOMAIN stack : InStep(stack[i])

\* The inputs of the waiting paths.
Todo == UNION {Cube(stack[i]) : i \in DOMAIN stack}

\* The inputs explored and those of the waiting paths are all the inputs, and
\* no input belongs to two of them: forking neither loses nor repeats a test.
NothingLost ==
  /\ Inputs = explored \cup Todo
  /\ \A i \in DOMAIN stack :
       /\ Cube(stack[i]) \cap explored = {}
       /\ \A j \in DOMAIN stack : i # j => Cube(stack[i]) \cap Cube(stack[j]) = {}

\* One run as an exploration of inputs.
Runs == INSTANCE Exploration
          WITH todo <- Todo

\* The search explores group after group, each once, and forgets none.
Explores == Runs!Spec
=============================================================================
