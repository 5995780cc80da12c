------------------------------ MODULE TestProofs ------------------------------
(***************************************************************************)
(* Proofs about the guest programs of the catalogue as tests: what follows *)
(* for all their paths from the discipline their code keeps to, for every  *)
(* size of the descriptor table and whatever a variable never assigned     *)
(* holds.                                                                  *)
(***************************************************************************)
EXTENDS TestDiscipline, GuestProofs, SequenceTheorems

-----------------------------------------------------------------------------
(***************************************************************************)
(* What a step makes of the running path p.                                *)
(***************************************************************************)

(* It stays at its step, and at most learns something or is left idle.       *)
Waits(p, q) ==
  /\ q.at = p.at /\ Known(q) = Known(p) /\ q.met = p.met
  /\ q.fd = p.fd /\ q.open = p.open
  /\ q.sound => p.sound

(* A descriptor variable is assigned: an open descriptor, but for dup2_fd.   *)
Takes(p, q) ==
  \E d, n :
    /\ \/ StepAt(p).op \in {"open", "openexit"} /\ d = StepAt(p).fd
       \/ StepAt(p).op = "dup" /\ d = "dup_fd"
       \/ StepAt(p).op = "dup2" /\ d = "dup2_fd"
    /\ q.fd = [p.fd EXCEPT ![d] = n]
    /\ p.open \subseteq q.open /\ q.open \subseteq p.open \cup {n}
    /\ d # "dup2_fd" => n \in q.open

Shuts(p, q) ==
  /\ StepAt(p).op = "close"
  /\ q.fd = p.fd /\ q.open = p.open \ {p.fd[StepAt(p).fd]}

Doubles(p, q) ==
  /\ StepAt(p).op = "fcntl"
  /\ q.fd = p.fd /\ p.open \subseteq q.open
  /\ "fcntl_cmd" \notin SymbolicVars(prog.code) => q.open = p.open

LeavesTable(p, q) ==
  /\ StepAt(p).op \notin {"open", "openexit", "dup", "dup2", "close"}
  /\ q.fd = p.fd /\ q.open = p.open

(* It goes on to the next step, sound unless the step went wrong.            *)
GoesOn(p, q) ==
  /\ StepAt(p).op \notin {"kill", "leave"} /\ q.at = p.at + 1
  /\ Known(p) \subseteq Known(q) \cup (IF StepAt(p).op = "example" THEN ArgSet(StepAt(p)) ELSE {})
  /\ StepAt(p).op = "symbolic" => ArgSet(StepAt(p)) \subseteq Known(q)
  /\ p.met \subseteq q.met
  /\ StepAt(p).op \in InKernel => SymbolicArgs(p, StepAt(p)) \subseteq q.met
  /\ q.sound => p.sound /\ (Takes(p, q) \/ Shuts(p, q) \/ Doubles(p, q) \/ LeavesTable(p, q))

(* A guard takes it past the call after it.                                  *)
Skips(p, q) ==
  /\ StepAt(p).op = "guard" /\ q.at = p.at + 2
  /\ Known(q) = Known(p)
  /\ p.met \cup SymbolicArgs(p, prog.code[p.at + 1]) \subseteq q.met
  /\ q.fd = p.fd /\ q.open = p.open /\ q.sound = p.sound

Follows(p, q) == Waits(p, q) \/ GoesOn(p, q) \/ Skips(p, q)

(* The running path is followed by a path, or by the two sides of a branch,  *)
(* or is taken off: every path of the stack is an old one or follows it.     *)
Followed ==
  /\ prog' = prog
  /\ \A i \in DOMAIN stack' :
       \/ \E j \in DOMAIN stack : stack'[i] = stack[j]
       \/ Follows(Path, stack'[i])

(***************************************************************************)
(* When the path q, which follows the running path, takes its place, all   *)
(* is as said.                                                             *)
(***************************************************************************)
LEMMA FollowedByOne ==
  ASSUME TypeOK, stack # <<>>, prog' = prog,
         NEW q, Follows(Path, q), stack' = <<q>> \o Tail(stack)
  PROVE  Followed
<1> DEFINE S == Paths(prog.code) \cup {q}
<1>1. stack \in Seq(S)
  <2>1. stack \in Seq(Paths(prog.code)) /\ Paths(prog.code) \subseteq S
    BY DEF TypeOK
  <2> HIDE DEF S
  <2> QED
    BY <2>1, SeqMonotonic
<1>2. q \in S
  OBVIOUS
<1> HIDE DEF S
<1>3. /\ DOMAIN stack' = DOMAIN stack /\ stack'[1] = q /\ DOMAIN stack = 1..Len(stack)
      /\ \A i \in 2..Len(stack) : stack'[i] = stack[i]
  BY <1>1, <1>2, TopReplaced
<1>4. \A i \in DOMAIN stack : i = 1 \/ i \in 2..Len(stack)
  BY <1>1, <1>3
<1> QED
  BY <1>3, <1>4, Zenon DEF Followed

(***************************************************************************)
(* So it is when the two sides of a branch do.                             *)
(***************************************************************************)
LEMMA FollowedByTwo ==
  ASSUME TypeOK, stack # <<>>, prog' = prog,
         NEW p, NEW q, Follows(Path, p), Follows(Path, q),
         stack' = <<p, q>> \o Tail(stack)
  PROVE  Followed
<1> DEFINE S == Paths(prog.code) \cup {p, q}
           n == Len(stack)
<1>1. stack \in Seq(S)
  <2>1. stack \in Seq(Paths(prog.code)) /\ Paths(prog.code) \subseteq S
    BY DEF TypeOK
  <2> HIDE DEF S
  <2> QED
    BY <2>1, SeqMonotonic
<1>2. p \in S /\ q \in S
  OBVIOUS
<1> HIDE DEF S
<1>3. /\ stack' \in Seq(S) /\ Len(stack') = n + 1 /\ stack'[1] = p /\ stack'[2] = q
      /\ \A i \in 3..(n + 1) : stack'[i] = stack[i - 1]
  BY <1>1, <1>2, TopSplit
<1>4. n \in Nat /\ DOMAIN stack = 1..n /\ DOMAIN stack' = 1..(n + 1)
  BY <1>1, <1>3
<1> HIDE DEF n
<1>5. \A i \in 1..(n + 1) : i = 1 \/ i = 2 \/ (i \in 3..(n + 1) /\ i - 1 \in 1..n)
  BY <1>4
<1> QED
  BY <1>3, <1>4, <1>5, Zenon DEF Followed

(***************************************************************************)
(* So it is when the running path is taken off.                            *)
(***************************************************************************)
LEMMA FollowedByNone ==
  ASSUME TypeOK, stack # <<>>, prog' = prog, stack' = Tail(stack)
  PROVE  Followed
<1> DEFINE n == Len(stack)
<1>1. stack \in Seq(Paths(prog.code))
  BY DEF TypeOK
<1>2. /\ stack' \in Seq(Paths(prog.code)) /\ Len(stack') = n - 1
      /\ \A i \in 1..(n - 1) : stack'[i] = stack[i + 1]
  BY <1>1, TopTaken
<1>3. n \in Nat /\ DOMAIN stack = 1..n /\ DOMAIN stack' = 1..(n - 1)
  BY <1>1, <1>2
<1> HIDE DEF n
<1>4. \A i \in 1..(n - 1) : i + 1 \in 1..n
  BY <1>3
<1> QED
  BY <1>2, <1>3, <1>4, Zenon DEF Followed

-----------------------------------------------------------------------------
(***************************************************************************)
(* The path past its step, before the step does anything else.             *)
(***************************************************************************)
LEMMA PastOf ==
  ASSUME AtStep, StepAt(Path).op \notin {"kill", "leave"}
  PROVE  LET r == Past(Path)
         IN  /\ r \in Paths(prog.code) /\ r.at = Path.at + 1
             /\ Known(r) = Known(Path)
             /\ r.fd = Path.fd /\ r.open = Path.open /\ r.sound = Path.sound
             /\ Path.met \subseteq r.met
             /\ StepAt(Path).op \in InKernel => SymbolicArgs(Path, StepAt(Path)) \subseteq r.met
<1> DEFINE r == Past(Path)
<1>1. r \in Paths(prog.code) /\ r.at = Path.at + 1 /\ Known(r) = Known(Path)
  BY PastIsPath DEF AtStep, Known
<1>2. /\ r.fd = Path.fd /\ r.open = Path.open /\ r.sound = Path.sound
      /\ r.met = IF StepAt(Path).op \in InKernel
                 THEN Path.met \cup SymbolicArgs(Path, StepAt(Path)) ELSE Path.met
  BY DEF AtStep, Past, Paths
<1> HIDE DEF r
<1> QED
  BY <1>1, <1>2 DEF r

(***************************************************************************)
(* A path that has gone on and changed at most its table goes on as the    *)
(* table says, and one that is not sound any more goes on whatever the     *)
(* table says.                                                             *)
(***************************************************************************)
LEMMA GoesOnWith ==
  ASSUME AtStep, StepAt(Path).op \notin {"kill", "leave", "symbolic"},
         NEW t, NEW fds
  PROVE  LET r == Past(Path)
             q == [r EXCEPT !.fd = t, !.open = fds]
         IN  /\ Takes(Path, q) \/ Shuts(Path, q) \/ Doubles(Path, q) \/ LeavesTable(Path, q)
                => GoesOn(Path, q)
             /\ q.fd = t /\ q.open = fds
             /\ GoesOn(Path, [r EXCEPT !.fd = t, !.sound = FALSE])
<1> DEFINE r == Past(Path)
           q == [r EXCEPT !.fd = t, !.open = fds]
           b == [r EXCEPT !.fd = t, !.sound = FALSE]
<1>1. /\ r \in Paths(prog.code) /\ r.at = Path.at + 1 /\ Known(r) = Known(Path)
      /\ r.sound = Path.sound /\ Path.met \subseteq r.met
      /\ StepAt(Path).op \in InKernel => SymbolicArgs(Path, StepAt(Path)) \subseteq r.met
  BY PastOf
<1> HIDE DEF r
<1>2. /\ q.at = r.at /\ Known(q) = Known(r) /\ q.met = r.met /\ q.sound = r.sound
      /\ q.fd = t /\ q.open = fds
  BY <1>1 DEF Paths, Known
<1>3. b.at = r.at /\ Known(b) = Known(r) /\ b.met = r.met /\ b.sound = FALSE
  BY <1>1 DEF Paths, Known
<1> HIDE DEF q, b
<1>4. Takes(Path, q) \/ Shuts(Path, q) \/ Doubles(Path, q) \/ LeavesTable(Path, q)
        => GoesOn(Path, q)
  BY <1>1, <1>2 DEF GoesOn
<1>5. GoesOn(Path, b)
  BY <1>1, <1>3 DEF GoesOn
<1> QED
  BY <1>2, <1>4, <1>5 DEF r, q, b

(***************************************************************************)
(* A path that does no more than go past its step.                         *)
(***************************************************************************)
LEMMA GoesPast ==
  ASSUME AtStep, StepAt(Path).op \notin {"kill", "leave", "symbolic", "open", "openexit",
                                        "dup", "dup2", "close"}
  PROVE  GoesOn(Path, Past(Path))
BY PastOf DEF GoesOn, LeavesTable

(***************************************************************************)
(* A path left idle where it is, sound or not.                             *)
(***************************************************************************)
LEMMA WaitsIdle ==
  ASSUME AtStep
  PROVE  Waits(Path, Path) /\ Waits(Path, [Path EXCEPT !.sound = FALSE])
BY DEF AtStep, Paths, Waits, Known

(***************************************************************************)
(* The steps that change what a path knows.                                *)
(***************************************************************************)
LEMMA KnowledgeFollows ==
  ASSUME TypeOK, AtStep, stack # <<>>,
         Look \/ PassOver \/ EnableForking \/ DisableForking \/ MakeSymbolic \/ GetExample
  PROVE  Followed
<1> DEFINE s == StepAt(Path)
           r == Past(Path)
<1>1. ASSUME NEW q, Follows(Path, q), Becomes(q) PROVE Followed
  BY <1>1, FollowedByOne DEF Becomes
<1>2. CASE Look
  <2> DEFINE k == First(Undecided(Path))
             v == s.args[k]
             raw == Path.raw \ {v}
  <2>1. s.op \in Looking /\ Undecided(Path) # {}
    BY <1>2 DEF Look
  <2>2. v \in Path.raw /\ Path.forking
    BY <2>1, LooksAtRaw DEF AtStep
  <2>3. /\ Low(Path) = [Path EXCEPT !.raw = raw, !.low = Path.low \cup {v}, !.arg = k + 1]
        /\ High(Path) = [Path EXCEPT !.raw = raw, !.high = Path.high \cup {v}, !.arg = k + 1]
    BY DEF AtStep, Low, High, Paths
  <2> HIDE DEF k, v
  <2>4. Waits(Path, Low(Path)) /\ Waits(Path, High(Path))
    BY <2>2, <2>3 DEF AtStep, Paths, Waits, Known
  <2>5. \/ stack' = <<Low(Path), High(Path)>> \o Tail(stack)
        \/ stack' = <<High(Path), Low(Path)>> \o Tail(stack)
    <3>1. Sides(Path) = {<<Low(Path), High(Path)>>, <<High(Path), Low(Path)>>}
      BY <2>1, SidesSplit, Zenon DEF AtStep
    <3> QED
      BY <1>2, <3>1, Zenon DEF Look
  <2>6. prog' = prog
    BY <1>2 DEF Look
  <2> QED
    BY <2>4, <2>5, <2>6, FollowedByTwo DEF Follows
<1>3. CASE PassOver
  <2> DEFINE n == First(Undecided(Path)) + 1
  <2>1. Becomes([Path EXCEPT !.arg = n])
    BY <1>3 DEF PassOver
  <2> HIDE DEF n
  <2>2. Waits(Path, [Path EXCEPT !.arg = n])
    BY DEF AtStep, Paths, Waits, Known
  <2> QED
    BY <1>1, <2>1, <2>2 DEF Follows
<1>4. ASSUME s.op \in {"enable", "disable", "symbolic", "example"}
      PROVE  /\ r \in Paths(prog.code) /\ r.at = Path.at + 1 /\ r.raw = Path.raw
             /\ r.low = Path.low /\ r.high = Path.high
             /\ r.fd = Path.fd /\ r.open = Path.open /\ r.sound = Path.sound
             /\ Path.met \subseteq r.met
             /\ s.op \notin InKernel
  BY <1>4, PastOf, PastIsPath DEF AtStep, InKernel, Looking
<1>5. CASE EnableForking
  <2>1. s.op = "enable"
    BY <1>5 DEF EnableForking, At
  <2> DEFINE q == [r EXCEPT !.forking = TRUE]
  <2>2. Becomes(q)
    BY <1>5 DEF EnableForking
  <2> HIDE DEF r
  <2>3. GoesOn(Path, q)
    BY <1>4, <2>1 DEF Paths, GoesOn, LeavesTable, Known
  <2> QED
    BY <1>1, <2>2, <2>3 DEF Follows
<1>6. CASE DisableForking
  <2>1. s.op = "disable"
    BY <1>6 DEF DisableForking, At
  <2> DEFINE q == [r EXCEPT !.forking = FALSE]
  <2>2. Becomes(q)
    BY <1>6 DEF DisableForking
  <2> HIDE DEF r
  <2>3. GoesOn(Path, q)
    BY <1>4, <2>1 DEF Paths, GoesOn, LeavesTable, Known
  <2> QED
    BY <1>1, <2>2, <2>3 DEF Follows
<1>7. CASE MakeSymbolic
  <2>1. s.op = "symbolic"
    BY <1>7 DEF MakeSymbolic, At
  <2> DEFINE raw == Path.raw \cup ArgSet(s)
             q == [r EXCEPT !.raw = raw]
  <2>2. Becomes(q)
    BY <1>4, <1>7, <2>1 DEF MakeSymbolic
  <2> HIDE DEF r
  <2>3. GoesOn(Path, q)
    BY <1>4, <2>1 DEF Paths, GoesOn, LeavesTable, Known
  <2> QED
    BY <1>1, <2>2, <2>3 DEF Follows
<1>8. CASE GetExample
  <2>1. s.op = "example"
    BY <1>8 DEF GetExample, At
  <2> DEFINE raw == Path.raw \ ArgSet(s)
             q == [r EXCEPT !.raw = raw]
  <2>2. Becomes(q)
    BY <1>4, <1>8, <2>1 DEF GetExample
  <2> HIDE DEF r
  <2>3. GoesOn(Path, q)
    BY <1>4, <2>1 DEF Paths, GoesOn, LeavesTable, Known
  <2> QED
    BY <1>1, <2>2, <2>3 DEF Follows
<1> QED
  BY <1>2, <1>3, <1>5, <1>6, <1>7, <1>8

(***************************************************************************)
(* An open that succeeds assigns an open descriptor, and one that fails    *)
(* leaves the path unsound.                                                *)
(***************************************************************************)
LEMMA OpenFollows ==
  ASSUME AtStep, NEW d,
         \/ StepAt(Path).op \in {"open", "openexit"} /\ d = StepAt(Path).fd
         \/ StepAt(Path).op = "dup" /\ d = "dup_fd"
  PROVE  GoesOn(Path, OpenFd(Path, d)) /\ GoesOn(Path, FailFd(Path, d))
<1> DEFINE r == Past(Path)
           n == LowestFree(Path.open)
           t == [Path.fd EXCEPT ![d] = n]
           fds == Path.open \cup {n}
           none == [Path.fd EXCEPT ![d] = NoFd]
<1>1. StepAt(Path).op \notin {"kill", "leave", "symbolic"}
  OBVIOUS
<1>2. r \in Paths(prog.code) /\ r.fd = Path.fd /\ r.open = Path.open
  BY <1>1, PastOf
<1>3. OpenFd(Path, d) = [r EXCEPT !.fd = t, !.open = fds]
  BY <1>2 DEF OpenFd
<1>4. FailFd(Path, d) = [r EXCEPT !.fd = none, !.sound = FALSE]
  BY <1>2 DEF FailFd
<1> DEFINE q == [r EXCEPT !.fd = t, !.open = fds]
<1> HIDE DEF t, n, fds, none
<1>5. q.fd = t /\ q.open = fds
  BY <1>1, GoesOnWith
<1> HIDE DEF q
<1>6. Takes(Path, q)
  BY <1>5 DEF Takes, t, fds
<1>7. GoesOn(Path, q)
  BY <1>1, <1>6, GoesOnWith DEF q
<1>8. GoesOn(Path, [r EXCEPT !.fd = none, !.sound = FALSE])
  BY <1>1, GoesOnWith
<1> QED
  BY <1>3, <1>4, <1>7, <1>8 DEF q

(***************************************************************************)
(* The steps on descriptors.                                               *)
(***************************************************************************)
LEMMA DescriptorFollows ==
  ASSUME TypeOK, AtStep, stack # <<>>,
         DoOpen \/ DoOpenOrExit \/ DoClose \/ DoDup \/ DoDup2 \/ DoFcntl
  PROVE  Followed
<1> DEFINE s == StepAt(Path)
           r == Past(Path)
<1>1. ASSUME NEW q, GoesOn(Path, q), Becomes(q) PROVE Followed
  BY <1>1, FollowedByOne DEF Becomes, Follows
<1>2. ASSUME s.op \notin {"kill", "leave"}
      PROVE  /\ r \in Paths(prog.code) /\ r.fd = Path.fd /\ r.open = Path.open
             /\ \A fds : [r EXCEPT !.open = fds] = [r EXCEPT !.fd = Path.fd, !.open = fds]
  <2>1. r \in Paths(prog.code) /\ r.fd = Path.fd /\ r.open = Path.open
    BY <1>2, PastOf
  <2> HIDE DEF r
  <2> QED
    BY <2>1 DEF Paths
<1>3. CASE DoOpen
  <2>1. s.op = "open"
    BY <1>3 DEF DoOpen, Ready, At
  <2>2. GoesOn(Path, OpenFd(Path, s.fd)) /\ GoesOn(Path, FailFd(Path, s.fd))
    BY <2>1, OpenFollows
  <2> QED
    BY <1>1, <1>3, <2>2 DEF DoOpen
<1>4. CASE DoOpenOrExit
  <2>1. s.op = "openexit"
    BY <1>4 DEF DoOpenOrExit, At
  <2>2. GoesOn(Path, OpenFd(Path, s.fd))
    BY <2>1, OpenFollows
  <2>3. CASE LeaveIdle([Path EXCEPT !.sound = FALSE])
    BY <2>3, WaitsIdle, FollowedByOne DEF LeaveIdle, Follows
  <2> QED
    BY <1>1, <1>4, <2>2, <2>3 DEF DoOpenOrExit
<1>5. CASE DoClose
  <2>1. s.op = "close"
    BY <1>5 DEF DoClose, Ready, At
  <2> DEFINE fds == Path.open \ {Path.fd[s.fd]}
             q == [r EXCEPT !.fd = Path.fd, !.open = fds]
  <2>2. Becomes(q)
    <3>1. Becomes([r EXCEPT !.open = fds])
      BY <1>2, <1>5, <2>1 DEF DoClose
    <3> QED
      BY <1>2, <2>1, <3>1
  <2>3. q.fd = Path.fd /\ q.open = fds
    BY <2>1, GoesOnWith
  <2> HIDE DEF q
  <2>4. Shuts(Path, q)
    BY <2>1, <2>3 DEF Shuts
  <2>5. GoesOn(Path, q)
    BY <2>1, <2>4, GoesOnWith DEF q
  <2> QED
    BY <1>1, <2>2, <2>5
<1>6. CASE DoDup
  <2>1. s.op = "dup"
    BY <1>6 DEF DoDup, At
  <2>2. GoesOn(Path, OpenFd(Path, "dup_fd")) /\ GoesOn(Path, FailFd(Path, "dup_fd"))
    BY <2>1, OpenFollows
  <2> QED
    BY <1>1, <1>6, <2>2 DEF DoDup
<1>7. CASE DoDup2
  <2>1. s.op = "dup2"
    BY <1>7 DEF DoDup2, Ready, At
  <2>2. PICK n \in Garbage :
          Becomes([r EXCEPT !.fd["dup2_fd"] = n,
                            !.open = IF n \in 0..MaxFd /\ Path.fd[s.fd] \in @
                                     THEN @ \cup {n} ELSE @])
    BY <1>7 DEF DoDup2
  <2> DEFINE t == [Path.fd EXCEPT !["dup2_fd"] = n]
             fds == IF n \in 0..MaxFd /\ Path.fd[s.fd] \in Path.open
                     THEN Path.open \cup {n} ELSE Path.open
             q == [r EXCEPT !.fd = t, !.open = fds]
  <2>3. Becomes(q)
    BY <1>2, <2>1, <2>2
  <2>4. Path.open \subseteq fds /\ fds \subseteq Path.open \cup {n}
    OBVIOUS
  <2> HIDE DEF t, fds
  <2>5. q.fd = t /\ q.open = fds
    BY <2>1, GoesOnWith
  <2> HIDE DEF q
  <2>6. Takes(Path, q)
    BY <2>1, <2>4, <2>5 DEF Takes, t
  <2>7. GoesOn(Path, q)
    BY <2>1, <2>6, GoesOnWith DEF q
  <2> QED
    BY <1>1, <2>3, <2>7
<1>8. CASE DoFcntl
  <2>1. s.op = "fcntl"
    BY <1>8 DEF DoFcntl, Ready, At
  <2>2. CASE Becomes(r)
    BY <1>1, <2>1, <2>2, GoesPast
  <2> DEFINE n == LowestFree(Path.open)
             fds == Path.open \cup {n}
             q == [r EXCEPT !.fd = Path.fd, !.open = fds]
  <2>3. CASE "fcntl_cmd" \in Path.low /\ Becomes([r EXCEPT !.open = fds])
    <3>1. Becomes(q)
      BY <1>2, <2>1, <2>3
    <3>2. q.fd = Path.fd /\ q.open = fds
      BY <2>1, GoesOnWith
    <3>3. "fcntl_cmd" \in SymbolicVars(prog.code)
      BY <2>3 DEF AtStep, Paths
    <3> HIDE DEF q, n
    <3>4. Doubles(Path, q)
      BY <2>1, <3>2, <3>3 DEF Doubles
    <3>5. GoesOn(Path, q)
      BY <2>1, <3>4, GoesOnWith DEF q
    <3> QED
      BY <1>1, <3>1, <3>5
  <2> QED
    BY <1>2, <1>8, <2>1, <2>2, <2>3 DEF DoFcntl
<1> QED
  BY <1>3, <1>4, <1>5, <1>6, <1>7, <1>8

(***************************************************************************)
(* The steps that are calls, guards and branches, and the end of a process *)
(* or of its path.                                                         *)
(***************************************************************************)
LEMMA CallFollows ==
  ASSUME TypeOK, AtStep, stack # <<>>,
         \/ DoCall \/ DoChecked \/ DoOverrun \/ DoBranch \/ DoGuard \/ Exit
         \/ Hang \/ KillState
  PROVE  Followed
<1> DEFINE s == StepAt(Path)
           r == Past(Path)
           code == prog.code
<1>1. ASSUME NEW q, Follows(Path, q), Becomes(q) PROVE Followed
  BY <1>1, FollowedByOne DEF Becomes
<1>2. ASSUME NEW q, Waits(Path, q), LeaveIdle(q) PROVE Followed
  BY <1>2, FollowedByOne DEF LeaveIdle, Follows
<1>3. CASE DoCall \/ DoBranch
  <2>1. s.op \in {"call", "branch"} /\ Becomes(r)
    BY <1>3 DEF DoCall, DoBranch, Ready, At
  <2> QED
    BY <1>1, <2>1, GoesPast DEF Follows
<1>4. CASE DoChecked
  <2>1. s.op = "checked"
    BY <1>4 DEF DoChecked, Ready, At
  <2>2. GoesOn(Path, r)
    BY <2>1, GoesPast
  <2> QED
    BY <1>1, <1>2, <1>4, <2>2, WaitsIdle DEF DoChecked, Follows
<1>5. CASE DoOverrun
  <2>1. s.op = "overrun"
    BY <1>5 DEF DoOverrun, Ready, At
  <2>2. GoesOn(Path, r)
    BY <2>1, GoesPast
  <2> DEFINE t == [Path.fd EXCEPT !["open_fd"] = NoFd]
  <2>3. CASE Becomes([r EXCEPT !.fd["open_fd"] = NoFd, !.sound = FALSE])
    <3>1. Becomes([r EXCEPT !.fd = t, !.sound = FALSE])
      BY <2>1, <2>3, PastOf
    <3>2. GoesOn(Path, [r EXCEPT !.fd = t, !.sound = FALSE])
      BY <2>1, GoesOnWith
    <3> QED
      BY <1>1, <3>1, <3>2 DEF Follows
  <2> QED
    BY <1>1, <1>2, <1>5, <2>2, <2>3, WaitsIdle DEF DoOverrun, Follows
<1>6. CASE DoGuard
  <2> DEFINE more == SymbolicArgs(Path, code[Path.at + 1])
             met == r.met \cup more
             q == [r EXCEPT !.at = Path.at + 2, !.met = met]
  <2>1. s.op = "guard"
    BY <1>6 DEF DoGuard, Ready, At
  <2>2. /\ r \in Paths(code) /\ r.at = Path.at + 1 /\ Known(r) = Known(Path)
        /\ r.fd = Path.fd /\ r.open = Path.open /\ r.sound = Path.sound
        /\ Path.met \subseteq r.met
    BY <2>1, PastOf
  <2>3. (Path.at + 1) + 1 = Path.at + 2
    BY <2>1, PathInCode DEF AtStep
  <2>4. \/ Becomes(r)
        \/ Becomes([r EXCEPT !.at = @ + 1, !.met = @ \cup more])
    BY <1>6, Zenon DEF DoGuard
  <2>5. CASE Becomes(r)
    BY <1>1, <2>1, <2>5, GoesPast DEF Follows
  <2> HIDE DEF r, more
  <2>6. CASE Becomes([r EXCEPT !.at = @ + 1, !.met = @ \cup more])
    <3>1. Becomes(q)
      BY <2>2, <2>3, <2>6 DEF Paths
    <3>2. /\ q.at = Path.at + 2 /\ Known(q) = Known(r) /\ q.met = met
          /\ q.fd = r.fd /\ q.open = r.open /\ q.sound = r.sound
      BY <2>2 DEF Paths, Known
    <3> HIDE DEF q
    <3>3. Skips(Path, q)
      BY <2>1, <2>2, <3>2 DEF Skips, more
    <3> QED
      BY <1>1, <3>1, <3>3 DEF Follows
  <2> QED
    BY <2>4, <2>5, <2>6
<1>7. CASE Exit
  BY <1>2, <1>7, WaitsIdle DEF Exit
<1>8. CASE Hang
  BY <1>8, Zenon DEF Hang, Followed
<1>9. CASE KillState
  BY <1>9, FollowedByNone DEF KillState
<1> QED
  BY <1>3, <1>4, <1>5, <1>6, <1>7, <1>8, <1>9

(***************************************************************************)
(* Whatever step is taken, every path there then is was there before or    *)
(* follows the running one.                                                *)
(***************************************************************************)
LEMMA StepFollowed ==
  ASSUME RunInv, Next
  PROVE  Followed /\ AtStep /\ stack # <<>> /\ stuck = "no"
<1>1. Running
  BY DEF Next, Look, PassOver, Hang, EnableForking, DisableForking, MakeSymbolic,
         GetExample, DoOpen, DoOpenOrExit, DoClose, DoDup, DoDup2, DoFcntl, DoCall,
         DoChecked, DoOverrun, DoBranch, DoGuard, Exit, KillState, Ready, At
<1>2. TypeOK /\ stack # <<>> /\ stuck = "no" /\ AtStep
  BY <1>1, TopPath DEF RunInv, TypeOK, Running, AtStep
<1> QED
  BY <1>2, KnowledgeFollows, DescriptorFollows, CallFollows DEF Next

-----------------------------------------------------------------------------
(***************************************************************************)
(* What one step of the code adds to what was made symbolic, to what calls *)
(* were given, to what is attached and to what is held.                    *)
(***************************************************************************)
LEMMA SymbolicAdded ==
  ASSUME NEW code, NEW i \in Nat \ {0}
  PROVE  SymbolicBefore(code, i + 1) \subseteq
           SymbolicBefore(code, i) \cup (IF code[i].op = "symbolic" THEN ArgSet(code[i]) ELSE {})
<1>1. (i + 1) - 1 = i /\ \A k \in 1..i : k = i \/ k \in 1..(i - 1)
  OBVIOUS
<1>2. ASSUME NEW v \in SymbolicBefore(code, i + 1)
      PROVE  \/ v \in SymbolicBefore(code, i)
             \/ code[i].op = "symbolic" /\ v \in ArgSet(code[i])
  <2>1. PICK k \in 1..i : code[k].op = "symbolic" /\ v \in ArgSet(code[k])
    BY <1>1, <1>2, Zenon DEF SymbolicBefore
  <2>2. CASE k = i
    BY <2>1, <2>2
  <2>3. CASE k \in 1..(i - 1)
    BY <2>1, <2>3, Zenon DEF SymbolicBefore
  <2> QED
    BY <1>1, <2>1, <2>2, <2>3, Zenon
<1> QED
  BY <1>2

(***************************************************************************)
(* A step inside the kernel adds its arguments to what was given, and no   *)
(* other step adds anything.                                               *)
(***************************************************************************)
LEMMA GivenAdded ==
  ASSUME NEW code, NEW i \in Nat \ {0}
  PROVE  Given(code, i + 1) \subseteq
           Given(code, i) \cup
             (IF code[i].op \in InKernel
              THEN Lasting(code) \cap ArgSet(code[i]) \cap SymbolicBefore(code, i) ELSE {})
<1>1. (i + 1) - 1 = i /\ \A k \in 1..i : k = i \/ k \in 1..(i - 1)
  OBVIOUS
<1>2. ASSUME NEW v \in Given(code, i + 1)
      PROVE  \/ v \in Given(code, i)
             \/ /\ code[i].op \in InKernel /\ v \in Lasting(code)
                /\ v \in ArgSet(code[i]) /\ v \in SymbolicBefore(code, i)
  <2>1. v \in Lasting(code)
    BY <1>2, Zenon DEF Given
  <2>2. PICK k \in 1..i : /\ code[k].op \in InKernel
                         /\ v \in ArgSet(code[k]) /\ v \in SymbolicBefore(code, k)
    BY <1>1, <1>2, Zenon DEF Given
  <2>3. CASE k = i
    BY <2>1, <2>2, <2>3
  <2>4. CASE k \in 1..(i - 1)
    <3>1. v \in UNION {ArgSet(code[j]) \cap SymbolicBefore(code, j) :
                        j \in {m \in 1..(i - 1) : code[m].op \in InKernel}}
      <4>1. k \in {m \in 1..(i - 1) : code[m].op \in InKernel}
        BY <2>2, <2>4
      <4>2. v \in ArgSet(code[k]) \cap SymbolicBefore(code, k)
        BY <2>2
      <4> QED
        BY <4>1, <4>2, Zenon
    <3> QED
      BY <2>1, <3>1, Zenon DEF Given
  <2> QED
    BY <1>1, <2>2, <2>3, <2>4, Zenon
<1> QED
  BY <1>2

(***************************************************************************)
(* A variable attached where a step is over was attached before it, and    *)
(* the step closed nothing, or the step opened it, with no guard before.   *)
(***************************************************************************)
LEMMA AttachedAdded ==
  ASSUME NEW code, NEW i \in Nat \ {0}, NEW d, Attached(code, i + 1, d)
  PROVE  /\ d \in FdVar /\ d # "dup2_fd"
         /\ code[i].op # "close"
         /\ \/ Attached(code, i, d)
            \/ /\ code[i].op \in {"open", "openexit"} /\ code[i].fd = d
               /\ i > 1 => code[i - 1].op # "guard"
<1>1. PICK j \in 0..i :
        /\ IF j = 0 THEN d = "stdout"
           ELSE /\ code[j].op \in {"open", "openexit"} /\ code[j].fd = d
                /\ j > 1 => code[j - 1].op # "guard"
        /\ \A k \in (j + 1)..i : code[k].op # "close"
  BY DEF Attached
<1>2. CASE j = i
  <2>1. /\ code[i].op \in {"open", "openexit"} /\ code[i].fd = d
        /\ i > 1 => code[i - 1].op # "guard"
    BY <1>1, <1>2
  <2> QED
    BY <2>1 DEF Attached
<1>3. CASE j # i
  <2>1. j \in 0..(i - 1) /\ i \in (j + 1)..i /\ (j + 1)..(i - 1) \subseteq (j + 1)..i
    BY <1>3
  <2>2. Attached(code, i, d)
    BY <1>1, <2>1 DEF Attached
  <2> QED
    BY <1>1, <2>1, <2>2 DEF Attached
<1> QED
  BY <1>2, <1>3

(***************************************************************************)
(* A step holds what it assigns, and keeps hold of what it does not close. *)
(***************************************************************************)
LEMMA HeldAdded ==
  ASSUME NEW code, NEW i \in Nat \ {0}, NEW d \in FdVar
  PROVE  /\ d \in Assigned(code[i]) => d \in Held(code, i + 1)
         /\ d \in Held(code, i) /\ (code[i].op # "close" \/ code[i].fd # d)
              => d \in Held(code, i + 1)
<1>1. (i + 1) - 1 = i /\ i \in 1..i /\ \A k \in (i + 1)..i : FALSE
  OBVIOUS
<1>2. d \in Assigned(code[i]) => d \in Held(code, i + 1)
  BY <1>1, Zenon DEF Held
<1>3. ASSUME d \in Held(code, i), code[i].op # "close" \/ code[i].fd # d
      PROVE  d \in Held(code, i + 1)
  <2>1. PICK j \in 1..(i - 1) :
          /\ d \in Assigned(code[j])
          /\ \A k \in (j + 1)..(i - 1) : code[k].op # "close" \/ code[k].fd # d
    BY <1>3 DEF Held
  <2>2. j \in 1..i /\ \A k \in (j + 1)..i : k = i \/ k \in (j + 1)..(i - 1)
    OBVIOUS
  <2>3. \A k \in (j + 1)..i : code[k].op # "close" \/ code[k].fd # d
    BY <1>3, <2>1, <2>2
  <2> QED
    BY <1>1, <2>1, <2>2, <2>3, Zenon DEF Held
<1> QED
  BY <1>2, <1>3

(***************************************************************************)
(* An example leaves the lasting variables alone.                          *)
(***************************************************************************)
LEMMA LastingKept ==
  ASSUME NEW code, NEW i \in DOMAIN code, code[i].op = "example"
  PROVE  ArgSet(code[i]) \cap Lasting(code) = {}
<1>1. ArgSet(code[i]) \subseteq
        UNION {ArgSet(code[j]) : j \in {k \in DOMAIN code : code[k].op = "example"}}
  BY Zenon
<1> QED
  BY <1>1 DEF Lasting

-----------------------------------------------------------------------------
(***************************************************************************)
(* Where the running path stands in its code.                              *)
(***************************************************************************)
LEMMA PathPlace ==
  ASSUME AtStep
  PROVE  /\ Path.at \in Nat \ {0} /\ Path.at \in DOMAIN prog.code
         /\ StepAt(Path) = prog.code[Path.at]
         /\ (Path.at + 1) + 1 = Path.at + 2 /\ (Path.at + 1) - 1 = Path.at
         /\ Path.at + 1 \in Nat \ {0} /\ Path.at + 1 > 1
         /\ StepAt(Path).op = "guard" => prog.code[Path.at + 1].op \in InKernel \ {"close"}
<1>1. prog.code \in Codes /\ Path.at \in 1..Len(prog.code)
  BY PathInCode DEF AtStep
<1>2. Path.at \in Nat \ {0} /\ Path.at \in DOMAIN prog.code
  BY <1>1 DEF Codes
<1>3. StepAt(Path).op = "guard" => prog.code[Path.at + 1].op \in InKernel \ {"close"}
  BY PathInCode DEF AtStep
<1> QED
  BY <1>2, <1>3 DEF StepAt

(***************************************************************************)
(* What follows a path knows of every lasting variable made symbolic, and  *)
(* its calls were given what the code gives them.                          *)
(***************************************************************************)
LEMMA MetFollows ==
  ASSUME AtStep, MetInStep(Path), NEW q, Follows(Path, q)
  PROVE  MetInStep(q)
<1> DEFINE code == prog.code
           i == Path.at
           s == StepAt(Path)
<1>1. /\ i \in Nat \ {0} /\ i \in DOMAIN code /\ s = code[i]
      /\ (i + 1) + 1 = i + 2 /\ i + 1 \in Nat \ {0}
      /\ s.op = "guard" => code[i + 1].op \in InKernel \ {"close"}
  BY PathPlace
<1>2. /\ Lasting(code) \cap SymbolicBefore(code, i) \subseteq Known(Path)
      /\ Given(code, i) \subseteq Path.met
  BY DEF MetInStep
<1>3. SymbolicBefore(code, i + 1) \subseteq
        SymbolicBefore(code, i) \cup (IF s.op = "symbolic" THEN ArgSet(s) ELSE {})
  BY <1>1, SymbolicAdded
<1>4. Given(code, i + 1) \subseteq
        Given(code, i) \cup (IF s.op \in InKernel
                            THEN Lasting(code) \cap ArgSet(s) \cap SymbolicBefore(code, i) ELSE {})
  BY <1>1, GivenAdded
<1>5. CASE Waits(Path, q)
  BY <1>2, <1>5 DEF Waits, MetInStep
<1>6. CASE GoesOn(Path, q)
  <2>1. s.op = "example" => ArgSet(s) \cap Lasting(code) = {}
    BY <1>1, LastingKept
  <2>2. Lasting(code) \cap SymbolicBefore(code, i) \subseteq Known(q)
    BY <1>2, <1>6, <2>1 DEF GoesOn
  <2>3. Lasting(code) \cap SymbolicBefore(code, i + 1) \subseteq Known(q)
    BY <1>3, <1>6, <2>2 DEF GoesOn
  <2>4. s.op \in InKernel =>
          Lasting(code) \cap ArgSet(s) \cap SymbolicBefore(code, i) \subseteq q.met
    <3>1. Lasting(code) \cap ArgSet(s) \cap SymbolicBefore(code, i) \subseteq SymbolicArgs(Path, s)
      BY <1>2 DEF SymbolicArgs, Known
    <3> QED
      BY <1>6, <3>1 DEF GoesOn
  <2>5. Given(code, i + 1) \subseteq q.met
    BY <1>2, <1>4, <1>6, <2>4 DEF GoesOn
  <2> QED
    BY <1>6, <2>3, <2>5 DEF GoesOn, MetInStep
<1>7. CASE Skips(Path, q)
  <2> DEFINE c == code[i + 1]
  <2>1. s.op = "guard" /\ c.op \in InKernel /\ s.op \notin InKernel /\ c.op # "symbolic"
    BY <1>1, <1>7 DEF Skips, InKernel, Looking
  <2>2. SymbolicBefore(code, i + 1) \subseteq SymbolicBefore(code, i)
    BY <1>3, <2>1
  <2>3. SymbolicBefore(code, i + 2) \subseteq SymbolicBefore(code, i + 1)
    BY <1>1, <2>1, SymbolicAdded
  <2>4. Given(code, i + 1) \subseteq Given(code, i)
    BY <1>4, <2>1
  <2>5. Given(code, i + 2) \subseteq
          Given(code, i + 1) \cup (Lasting(code) \cap ArgSet(c) \cap SymbolicBefore(code, i + 1))
    BY <1>1, <2>1, GivenAdded
  <2>6. Lasting(code) \cap ArgSet(c) \cap SymbolicBefore(code, i + 1) \subseteq SymbolicArgs(Path, c)
    BY <1>2, <2>2 DEF SymbolicArgs, Known
  <2>7. /\ q.at = i + 2 /\ Known(q) = Known(Path)
        /\ Path.met \cup SymbolicArgs(Path, c) \subseteq q.met
    BY <1>7 DEF Skips
  <2> QED
    BY <1>2, <2>2, <2>3, <2>4, <2>5, <2>6, <2>7 DEF MetInStep
<1> QED
  BY <1>5, <1>6, <1>7 DEF Follows

(***************************************************************************)
(* What follows a path has an open descriptor in every attached variable.  *)
(***************************************************************************)
LEMMA LiveFollows ==
  ASSUME AtStep, LiveInStep(Path), NEW q, Follows(Path, q)
  PROVE  LiveInStep(q)
<1> DEFINE code == prog.code
           i == Path.at
           s == StepAt(Path)
<1>1. /\ i \in Nat \ {0} /\ s = code[i]
      /\ (i + 1) + 1 = i + 2 /\ (i + 1) - 1 = i /\ i + 1 \in Nat \ {0} /\ i + 1 > 1
      /\ s.op = "guard" => code[i + 1].op \in InKernel \ {"close"}
  BY PathPlace
<1>2. CASE Waits(Path, q)
  BY <1>2 DEF Waits, LiveInStep
<1>3. ASSUME GoesOn(Path, q), q.sound, NEW d \in FdVar, Attached(code, i + 1, d)
      PROVE  q.fd[d] \in q.open
  <2>1. Path.sound /\ \A e \in FdVar : Attached(code, i, e) => Path.fd[e] \in Path.open
    BY <1>3 DEF GoesOn, LiveInStep
  <2>2. /\ d # "dup2_fd" /\ s.op # "close"
        /\ \/ Attached(code, i, d)
           \/ s.op \in {"open", "openexit"} /\ s.fd = d
    BY <1>1, <1>3, AttachedAdded
  <2>3. Path.fd \in Tables
    BY DEF AtStep, Paths
  <2>4. CASE Takes(Path, q)
    <3>1. PICK e, n :
            /\ \/ s.op \in {"open", "openexit"} /\ e = s.fd
               \/ s.op = "dup" /\ e = "dup_fd"
               \/ s.op = "dup2" /\ e = "dup2_fd"
            /\ q.fd = [Path.fd EXCEPT ![e] = n]
            /\ Path.open \subseteq q.open
            /\ e # "dup2_fd" => n \in q.open
      BY <2>4 DEF Takes
    <3>2. CASE d = e
      BY <2>2, <2>3, <3>1, <3>2 DEF Tables
    <3>3. CASE d # e
      <4>1. q.fd[d] = Path.fd[d]
        BY <2>3, <3>1, <3>3 DEF Tables
      <4>2. Attached(code, i, d)
        BY <2>2, <3>1, <3>3
      <4> QED
        BY <2>1, <3>1, <4>1, <4>2
    <3> QED
      BY <3>2, <3>3
  <2>5. CASE Doubles(Path, q) \/ LeavesTable(Path, q)
    <3>1. Attached(code, i, d)
      BY <2>2, <2>5 DEF Doubles, LeavesTable
    <3> QED
      BY <2>1, <2>5, <3>1 DEF Doubles, LeavesTable
  <2> QED
    BY <1>3, <2>2, <2>4, <2>5 DEF GoesOn, Shuts
<1>4. ASSUME Skips(Path, q), q.sound, NEW d \in FdVar, Attached(code, i + 2, d)
      PROVE  q.fd[d] \in q.open
  <2>1. s.op = "guard"
    BY <1>4 DEF Skips
  <2>2. Attached(code, i + 1, d)
    BY <1>1, <1>4, <2>1, AttachedAdded
  <2>3. Attached(code, i, d)
    BY <1>1, <2>1, <2>2, AttachedAdded
  <2> QED
    BY <1>4, <2>3 DEF Skips, LiveInStep
<1>5. CASE GoesOn(Path, q)
  BY <1>3, <1>5 DEF GoesOn, LiveInStep
<1>6. CASE Skips(Path, q)
  BY <1>4, <1>6 DEF Skips, LiveInStep
<1> QED
  BY <1>2, <1>5, <1>6 DEF Follows

(***************************************************************************)
(* What follows a path of a closing program has no descriptor open that no *)
(* variable holds: none is overwritten while it is held.                   *)
(***************************************************************************)
LEMMA HeldFollows ==
  ASSUME AtStep, prog \in Closing => ReturnsAll(prog), HeldInStep(Path),
         NEW q, Follows(Path, q)
  PROVE  HeldInStep(q)
<1> DEFINE code == prog.code
           i == Path.at
           s == StepAt(Path)
<1>1. /\ i \in Nat \ {0} /\ i \in DOMAIN code /\ s = code[i]
      /\ (i + 1) + 1 = i + 2 /\ i + 1 \in Nat \ {0}
      /\ s.op = "guard" => code[i + 1].op \in InKernel \ {"close"}
  BY PathPlace
<1>2. SUFFICES ASSUME q.sound, prog \in Closing, NEW x \in q.open, x \notin Std
               PROVE  \E d \in Held(code, q.at) : x = q.fd[d]
  BY Zenon DEF HeldInStep
<1>3. /\ s.op \in {"open", "openexit"} => s.fd \in FdVar
      /\ Assigned(s) \cap Held(code, i) = {}
      /\ s.op = "fcntl" => "fcntl_cmd" \notin SymbolicVars(code)
  BY <1>1, <1>2 DEF ReturnsAll
<1>4. ASSUME Path.sound, x \in Path.open
      PROVE  \E d \in Held(code, i) : x = Path.fd[d]
  BY <1>2, <1>4, Zenon DEF HeldInStep
<1>5. \A k : Held(code, k) \subseteq FdVar
  BY DEF Held
<1>6. Path.fd \in Tables
  BY DEF AtStep, Paths
<1>7. CASE Waits(Path, q)
  BY <1>2, <1>4, <1>7 DEF Waits
<1>8. ASSUME q.at = i + 1, q.fd = Path.fd, Path.sound, x \in Path.open,
             s.op # "close" \/ x # Path.fd[s.fd]
      PROVE  \E d \in Held(code, q.at) : x = q.fd[d]
  <2>1. PICK d \in Held(code, i) : x = Path.fd[d]
    BY <1>4, <1>8
  <2>2. d \in Held(code, i + 1)
    BY <1>1, <1>5, <1>8, <2>1, HeldAdded
  <2> QED
    BY <1>8, <2>1, <2>2
<1>9. CASE GoesOn(Path, q)
  <2>1. /\ q.at = i + 1 /\ Path.sound
        /\ Takes(Path, q) \/ Shuts(Path, q) \/ Doubles(Path, q) \/ LeavesTable(Path, q)
    BY <1>2, <1>9 DEF GoesOn
  <2>2. CASE Takes(Path, q)
    <3>1. PICK e, n :
            /\ \/ s.op \in {"open", "openexit"} /\ e = s.fd
               \/ s.op = "dup" /\ e = "dup_fd"
               \/ s.op = "dup2" /\ e = "dup2_fd"
            /\ q.fd = [Path.fd EXCEPT ![e] = n]
            /\ q.open \subseteq Path.open \cup {n}
      BY <2>2 DEF Takes
    <3>2. e \in FdVar /\ e \in Assigned(s) /\ s.op # "close"
      BY <1>3, <3>1 DEF Assigned, FdVar
    <3>3. CASE x = n
      <4>1. e \in Held(code, i + 1)
        BY <1>1, <3>2, HeldAdded
      <4>2. q.fd[e] = n
        BY <1>6, <3>1, <3>2 DEF Tables
      <4> QED
        BY <2>1, <3>3, <4>1, <4>2
    <3>4. CASE x # n
      <4>1. x \in Path.open
        BY <1>2, <3>1, <3>4
      <4>2. PICK d \in Held(code, i) : x = Path.fd[d]
        BY <1>4, <2>1, <4>1
      <4>3. d # e /\ d \in FdVar
        BY <1>3, <1>5, <3>2, <4>2
      <4>4. d \in Held(code, i + 1)
        BY <1>1, <3>2, <4>2, <4>3, HeldAdded
      <4>5. q.fd[d] = Path.fd[d]
        BY <1>6, <3>1, <4>3 DEF Tables
      <4> QED
        BY <2>1, <4>2, <4>4, <4>5
    <3> QED
      BY <3>3, <3>4
  <2>3. CASE Shuts(Path, q)
    BY <1>2, <1>8, <2>1, <2>3 DEF Shuts
  <2>4. CASE Doubles(Path, q)
    BY <1>2, <1>3, <1>8, <2>1, <2>4 DEF Doubles
  <2>5. CASE LeavesTable(Path, q)
    BY <1>2, <1>8, <2>1, <2>5 DEF LeavesTable
  <2> QED
    BY <2>1, <2>2, <2>3, <2>4, <2>5
<1>10. CASE Skips(Path, q)
  <2>1. /\ s.op = "guard" /\ q.at = i + 2 /\ q.fd = Path.fd /\ x \in Path.open /\ Path.sound
        /\ code[i + 1].op # "close"
    BY <1>1, <1>2, <1>10 DEF Skips, InKernel, Looking
  <2>2. PICK d \in Held(code, i) : x = Path.fd[d]
    BY <1>4, <2>1
  <2>3. d \in FdVar /\ d \in Held(code, i + 1)
    BY <1>1, <1>5, <2>1, <2>2, HeldAdded
  <2>4. d \in Held(code, i + 2)
    BY <1>1, <2>1, <2>3, HeldAdded
  <2> QED
    BY <2>1, <2>2, <2>4
<1> QED
  BY <1>7, <1>9, <1>10 DEF Follows

-----------------------------------------------------------------------------
(***************************************************************************)
(* The catalogue keeps to its discipline, so the running program does.     *)
(***************************************************************************)
LEMMA ProgramDisciplined ==
  ASSUME prog \in Programs
  PROVE  Disciplined(prog)
BY CatalogueAssumption

(***************************************************************************)
(* At the start nothing is symbolic, given, attached but stdout, or held.  *)
(***************************************************************************)
LEMMA TestsInit ==
  ASSUME Init
  PROVE  TestsInStep
<1> DEFINE p == FirstPath
           code == prog.code
<1>1. /\ p.at = 1 /\ p.open = Std /\ p.fd["stdout"] = 1
      /\ 1 - 1 = 0 /\ \A k \in 1..0 : FALSE
  BY DEF FirstPath, FdVar
<1>2. stack = <<p>>
  BY DEF Init
<1> HIDE DEF p
<1>3. SymbolicBefore(code, 1) = {} /\ Given(code, 1) = {} /\ Held(code, 1) = {}
  BY <1>1 DEF SymbolicBefore, Given, Held
<1>4. \A d \in FdVar : Attached(code, 1, d) => d = "stdout"
  BY DEF Attached
<1>5. MetInStep(p)
  BY <1>1, <1>3 DEF MetInStep
<1>6. LiveInStep(p)
  BY <1>1, <1>4 DEF LiveInStep, Std
<1>7. HeldInStep(p)
  BY <1>1, <1>3 DEF HeldInStep
<1>8. DOMAIN stack = {1} /\ stack[1] = p
  BY <1>2
<1> QED
  BY <1>5, <1>6, <1>7, <1>8 DEF TestsInStep

(***************************************************************************)
(* Every step keeps the paths in step with what their code promises.       *)
(***************************************************************************)
LEMMA TestsStep ==
  ASSUME RunInv, TestsInStep, [Next]_vars
  PROVE  TestsInStep'
<1>1. CASE UNCHANGED vars
  BY <1>1 DEF vars, TestsInStep, MetInStep, LiveInStep, HeldInStep, Known
<1>2. CASE Next
  <2>1. Followed /\ AtStep /\ stack # <<>>
    BY <1>2, StepFollowed
  <2>2. /\ prog' = prog
        /\ \A i \in DOMAIN stack' : \/ \E j \in DOMAIN stack : stack'[i] = stack[j]
                                   \/ Follows(Path, stack'[i])
    BY <2>1 DEF Followed
  <2>3. Path = stack[1] /\ 1 \in DOMAIN stack
    BY <2>1, TopPath DEF RunInv
  <2>4. MetInStep(Path) /\ LiveInStep(Path) /\ HeldInStep(Path)
    BY <2>3 DEF TestsInStep
  <2>5. prog \in Closing => ReturnsAll(prog)
    BY <2>1, ProgramDisciplined DEF AtStep, Disciplined
  <2>6. ASSUME NEW i \in DOMAIN stack'
        PROVE  MetInStep(stack'[i]) /\ LiveInStep(stack'[i]) /\ HeldInStep(stack'[i])
    <3>1. CASE \E j \in DOMAIN stack : stack'[i] = stack[j]
      BY <3>1, Zenon DEF TestsInStep
    <3>2. CASE Follows(Path, stack'[i])
      BY <2>1, <2>4, <2>5, <3>2, MetFollows, LiveFollows, HeldFollows
    <3> QED
      BY <2>2, <3>1, <3>2
  <2>7. ASSUME NEW i \in DOMAIN stack'
        PROVE  (MetInStep(stack[i]) /\ LiveInStep(stack[i]) /\ HeldInStep(stack[i]))'
    BY <2>2, <2>6 DEF MetInStep, LiveInStep, HeldInStep, Known
  <2> QED
    BY <2>7, Zenon DEF TestsInStep
<1> QED
  BY <1>1, <1>2

(***************************************************************************)
(* On every path of every run, what is symbolic was given on, what is      *)
(* attached is open, and what is open is held, as far as the code has      *)
(* come.                                                                   *)
(***************************************************************************)
THEOREM TestsStayInStep == Spec => [](RunInv /\ TestsInStep)
<1>1. RunInv /\ TestsInStep /\ [Next]_vars => TestsInStep'
  BY TestsStep
<1> QED
  BY <1>1, TestsInit, RunInvariant, PTL DEF Spec

(***************************************************************************)
(* A path of the stack is a path of its program, in step with it.          *)
(***************************************************************************)
LEMMA PathOfStack ==
  ASSUME RunInv, TestsInStep, NEW i \in DOMAIN stack
  PROVE  /\ stack[i] \in Paths(prog.code) /\ InStep(stack[i])
         /\ stack[i].at \in DOMAIN prog.code /\ StepAt(stack[i]) = prog.code[stack[i].at]
         /\ MetInStep(stack[i]) /\ LiveInStep(stack[i]) /\ HeldInStep(stack[i])
         /\ prog \in Programs
<1>1. stack[i] \in Paths(prog.code) /\ prog \in Programs
  BY DEF RunInv, TypeOK
<1>2. stack[i].at \in DOMAIN prog.code
  BY <1>1, PathInCode DEF Codes
<1> QED
  BY <1>1, <1>2 DEF RunInv, PathsInStep, TestsInStep, StepAt

(***************************************************************************)
(* No program of the catalogue gives a symbolic argument to a call on a    *)
(* descriptor that is closed, unless the open before it failed.            *)
(***************************************************************************)
THEOREM LiveDescriptors == Spec => []OnLiveDescriptor
<1>1. ASSUME RunInv, TestsInStep, NEW i \in DOMAIN stack,
             StepAt(stack[i]).op \in {"fcntl", "call", "overrun"},
             StepAt(stack[i]).fd # "none",
             SymbolicArgs(stack[i], StepAt(stack[i])) # {}, stack[i].sound
      PROVE  stack[i].fd[StepAt(stack[i]).fd] \in stack[i].open
  <2> DEFINE p == stack[i]
             s == StepAt(p)
  <2>1. /\ InStep(p) /\ p.at \in DOMAIN prog.code /\ s = prog.code[p.at]
        /\ LiveInStep(p) /\ Disciplined(prog)
    BY <1>1, PathOfStack, ProgramDisciplined
  <2>2. ArgSet(s) \cap SymbolicBefore(prog.code, p.at) # {}
    BY <1>1, <2>1 DEF SymbolicArgs, InStep
  <2>3. Attached(prog.code, p.at, s.fd)
    BY <1>1, <2>1, <2>2 DEF Disciplined, WorksOnOpen
  <2>4. s.fd \in FdVar
    BY <2>3 DEF Attached
  <2> QED
    BY <1>1, <2>1, <2>3, <2>4 DEF LiveInStep
<1>2. RunInv /\ TestsInStep => OnLiveDescriptor
  BY <1>1 DEF OnLiveDescriptor
<1> QED
  BY <1>2, TestsStayInStep, PTL

(***************************************************************************)
(* Every program that is to close what it opens ends each of its paths     *)
(* with the standard descriptors only, unless a call went wrong.           *)
(***************************************************************************)
THEOREM AllReturned == Spec => []DescriptorsReturned
<1>1. ASSUME RunInv, TestsInStep, NEW i \in DOMAIN stack, prog \in Closing,
             StepAt(stack[i]).op = "kill", stack[i].sound
      PROVE  stack[i].open \subseteq Std
  <2>1. /\ stack[i].at \in DOMAIN prog.code /\ prog.code[stack[i].at].op = "kill"
        /\ HeldInStep(stack[i]) /\ Disciplined(prog)
    BY <1>1, PathOfStack, ProgramDisciplined
  <2>2. Held(prog.code, stack[i].at) = {}
    BY <1>1, <2>1 DEF Disciplined, ReturnsAll
  <2> QED
    BY <1>1, <2>1, <2>2 DEF HeldInStep
<1>2. RunInv /\ TestsInStep => DescriptorsReturned
  BY <1>1 DEF DescriptorsReturned
<1> QED
  BY <1>2, TestsStayInStep, PTL

(***************************************************************************)
(* On every path a program ends, each variable it made symbolic was given  *)
(* to a system call or kept from it by a guard, but for the stale ones.    *)
(***************************************************************************)
THEOREM SymbolicsReach == Spec => []SymbolicReaches
<1>1. ASSUME RunInv, TestsInStep, NEW i \in DOMAIN stack, StepAt(stack[i]).op = "kill"
      PROVE  SymbolicVars(prog.code) \ stack[i].met \subseteq Stale
  <2>1. /\ stack[i].at \in DOMAIN prog.code /\ prog.code[stack[i].at].op = "kill"
        /\ MetInStep(stack[i]) /\ Disciplined(prog)
    BY <1>1, PathOfStack, ProgramDisciplined
  <2>2. SymbolicVars(prog.code) \ StaleIn(prog) \subseteq Given(prog.code, stack[i].at)
    BY <2>1 DEF Disciplined, GivesAll
  <2> QED
    BY <2>1, <2>2 DEF MetInStep, Stale
<1>2. RunInv /\ TestsInStep => SymbolicReaches
  BY <1>1 DEF SymbolicReaches
<1> QED
  BY <1>2, TestsStayInStep, PTL

(***************************************************************************)
(* A machine that idles was left by a program that ends early, or with a   *)
(* path on which a call went wrong.                                        *)
(***************************************************************************)
THEOREM LeavesAreExplained == Spec => []LeavesExplained
<1>1. Init => LeavesExplained
  BY DEF Init, LeavesExplained
<1>2. ASSUME RunInv, LeavesExplained, [Next]_vars
      PROVE  LeavesExplained'
  <2>1. CASE UNCHANGED vars
    BY <1>2, <2>1 DEF vars, LeavesExplained
  <2>2. CASE Next
    <3>1. AtStep /\ stuck = "no"
      BY <1>2, <2>2, StepFollowed
    <3>2. ASSUME NEW q, LeaveIdle(q), ~q.sound
          PROVE  LeavesExplained'
      <4>1. Head(stack') = q
        BY <3>2 DEF LeaveIdle
      <4> QED
        BY <3>2, <4>1, Zenon DEF LeavesExplained
    <3>3. ~[Path EXCEPT !.sound = FALSE].sound
      BY <3>1 DEF AtStep, Paths
    <3>4. CASE Exit
      <4>1. StepAt(Path).op = "leave" /\ prog' = prog
        BY <3>4 DEF Exit, At, LeaveIdle
      <4>2. prog \in EarlyLeavers
        BY <3>1, <4>1, PathPlace, ProgramDisciplined DEF AtStep, Disciplined, LeavesEarly
      <4> QED
        BY <4>1, <4>2 DEF LeavesExplained
    <3>5. CASE DoOpenOrExit \/ DoChecked \/ DoOverrun
      <4>1. UNCHANGED stuck \/ LeaveIdle([Path EXCEPT !.sound = FALSE])
        BY <3>5 DEF DoOpenOrExit, DoChecked, DoOverrun, Becomes
      <4> QED
        BY <3>1, <3>2, <3>3, <4>1 DEF LeavesExplained
    <3>6. CASE stuck' # "left"
      BY <3>6 DEF LeavesExplained
    <3>7. ASSUME ~Exit, ~DoOpenOrExit, ~DoChecked, ~DoOverrun
          PROVE  stuck' # "left"
      BY <2>2, <3>1, <3>7 DEF Next, Look, PassOver, Hang, EnableForking, DisableForking,
         MakeSymbolic, GetExample, DoOpen, DoClose, DoDup, DoDup2, DoFcntl, DoCall,
         DoBranch, DoGuard, KillState, Becomes
    <3> QED
      BY <3>4, <3>5, <3>6, <3>7
  <2> QED
    BY <1>2, <2>1, <2>2
<1> QED
  BY <1>1, <1>2, RunInvariant, PTL DEF Spec
=============================================================================
