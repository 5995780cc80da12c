----------------------------- MODULE GuestProofs -----------------------------
(***************************************************************************)
(* Proofs about the paths of a guest program, for every set of well-formed *)
(* programs and every size of the descriptor table.                        *)
(***************************************************************************)
EXTENDS GuestPaths, WellFoundedInduction, TLAPS

(* A nonempty set of natural numbers has a first one. *)
LEMMA FirstIsLeast ==
  ASSUME NEW S \in SUBSET Nat, S # {}
  PROVE  First(S) \in S /\ \A j \in S : First(S) <= j
<1>1. \E x \in S : \A y \in S : ~ (<<y, x>> \in OpToRel(<, Nat))
  BY NatLessThanWellFounded, WFMin, S \subseteq Nat
<1>2. \A x, y \in S : y < x => <<y, x>> \in OpToRel(<, Nat)
  BY DEF OpToRel
<1>3. \E x \in S : \A y \in S : ~ (y < x)
  BY <1>1, <1>2, Zenon
<1>4. \E x \in S : \A y \in S : x <= y
  BY <1>3
<1> QED
  BY <1>4 DEF First

Codes == Seq(Steps)

(* The code of a program, and what its being well-formed says of a step. *)
LEMMA CodeOfProgram ==
  ASSUME prog \in Programs
  PROVE  prog.code \in Codes /\ WellFormed(prog.code)
BY ProgramsAssumption DEF Codes

(* A step of it has a next one unless it ends the path; a guard has two.     *)
LEMMA StepOfCode ==
  ASSUME NEW code \in Codes, WellFormed(code), NEW i \in 1..Len(code)
  PROVE  /\ code[i] \in Steps
         /\ code[i].op \notin {"kill", "leave"} => i + 1 \in 1..Len(code)
         /\ code[i].op = "guard" => /\ code[i + 1].op \in InKernel \ {"close"}
                                   /\ i + 2 \in 1..Len(code)
<1>1. /\ DOMAIN code = 1..Len(code) /\ Len(code) \in Nat
      /\ code[i] \in Steps
  BY DEF Codes
<1>2. code[i].op \notin {"kill", "leave"} => i + 1 \in 1..Len(code)
  <2>1. code[Len(code)].op \in {"kill", "leave"}
    BY DEF WellFormed
  <2> QED
    BY <2>1 DEF Codes
<1>3. ASSUME code[i].op = "guard"
      PROVE  code[i + 1].op \in InKernel \ {"close"} /\ i + 2 \in 1..Len(code)
  <2>1. i + 1 \in DOMAIN code /\ code[i + 1].op \in InKernel \ {"close"}
    BY <1>1, <1>3 DEF WellFormed
  <2>2. code[Len(code)].op \in {"kill", "leave"}
    BY DEF WellFormed
  <2>3. i + 1 # Len(code)
    BY <2>1, <2>2 DEF InKernel, Looking
  <2>4. \A n \in Nat : i + 1 \in 1..n /\ i + 1 # n => i + 2 \in 1..n
    OBVIOUS
  <2>5. i + 2 \in 1..Len(code)
    BY <1>1, <2>1, <2>3, <2>4, Zenon
  <2> QED
    BY <2>1, <2>5
<1> QED
  BY <1>1, <1>2, <1>3

(* One step of code: forking that is enabled after it was enabled before it, *)
(* unless the step enables it, and the step does not disable it.             *)
LEMMA ForkingBefore ==
  ASSUME NEW code, NEW i \in Nat \ {0},
         ForkingAt(code, i + 1), code[i].op # "enable"
  PROVE  ForkingAt(code, i) /\ code[i].op # "disable"
<1>1. PICK e \in 1..i : /\ code[e].op = "enable"
                        /\ \A k \in (e + 1)..i : code[k].op # "disable"
  BY DEF ForkingAt
<1>2. e # i
  BY <1>1
<1>3. e \in 1..(i - 1) /\ i \in (e + 1)..i /\ (e + 1)..(i - 1) \subseteq (e + 1)..i
  BY <1>2
<1> QED
  BY <1>1, <1>3 DEF ForkingAt

(* What was made symbolic before a step was before the next, and no more      *)
(* than the program makes symbolic at all.                                    *)
LEMMA SymbolicGrows ==
  ASSUME NEW code \in Codes, NEW i \in 1..Len(code)
  PROVE  /\ SymbolicBefore(code, i) \subseteq SymbolicBefore(code, i + 1)
         /\ code[i].op = "symbolic" => ArgSet(code[i]) \subseteq SymbolicBefore(code, i + 1)
         /\ SymbolicBefore(code, i) \subseteq SymbolicVars(code)
         /\ code[i].op = "symbolic" => ArgSet(code[i]) \subseteq SymbolicVars(code)
<1>1. DOMAIN code = 1..Len(code) /\ Len(code) \in Nat
  BY DEF Codes
<1>2. 1..(i - 1) \subseteq 1..i /\ i \in 1..i /\ (i + 1) - 1 = i
      /\ 1..(i - 1) \subseteq 1..Len(code)
  BY <1>1
<1>3. SymbolicBefore(code, i) \subseteq SymbolicBefore(code, i + 1)
  BY <1>2, Zenon DEF SymbolicBefore
<1>4. code[i].op = "symbolic" => ArgSet(code[i]) \subseteq SymbolicBefore(code, i + 1)
  BY <1>2, Zenon DEF SymbolicBefore
<1>5. SymbolicBefore(code, i) \subseteq SymbolicVars(code)
  BY <1>1, <1>2, Zenon DEF SymbolicBefore, SymbolicVars
<1>6. code[i].op = "symbolic" => ArgSet(code[i]) \subseteq SymbolicVars(code)
  BY <1>1, Zenon DEF SymbolicVars
<1> QED
  BY <1>3, <1>4, <1>5, <1>6

-----------------------------------------------------------------------------
(* Stacks: the running path becomes another, becomes two, or is taken off.   *)
LEMMA TopReplaced ==
  ASSUME NEW S, NEW s \in Seq(S), s # <<>>, NEW p \in S
  PROVE  LET t == <<p>> \o Tail(s)
         IN  /\ t \in Seq(S) /\ Len(t) = Len(s) /\ t[1] = p
             /\ \A i \in 2..Len(s) : t[i] = s[i]
OBVIOUS

LEMMA TopSplit ==
  ASSUME NEW S, NEW s \in Seq(S), s # <<>>, NEW p \in S, NEW q \in S
  PROVE  LET t == <<p, q>> \o Tail(s)
         IN  /\ t \in Seq(S) /\ Len(t) = Len(s) + 1 /\ t[1] = p /\ t[2] = q
             /\ \A i \in 3..(Len(s) + 1) : t[i] = s[i - 1]
OBVIOUS

LEMMA TopTaken ==
  ASSUME NEW S, NEW s \in Seq(S), s # <<>>
  PROVE  LET t == Tail(s)
         IN  /\ t \in Seq(S) /\ Len(t) = Len(s) - 1
             /\ \A i \in 1..(Len(s) - 1) : t[i] = s[i + 1]
OBVIOUS

(* The running path is one of the paths, and in step.                        *)
LEMMA TopPath ==
  ASSUME TypeOK, stack # <<>>
  PROVE  /\ Len(stack) \in Nat /\ 1 \in DOMAIN stack /\ DOMAIN stack = 1..Len(stack)
         /\ Path = stack[1] /\ Path \in Paths(prog.code)
         /\ PathsInStep => InStep(Path)
<1>1. stack \in Seq(Paths(prog.code))
  BY DEF TypeOK
<1>2. /\ Len(stack) \in Nat /\ 1 \in DOMAIN stack /\ DOMAIN stack = 1..Len(stack)
      /\ Head(stack) = stack[1] /\ stack[1] \in Paths(prog.code)
  BY <1>1
<1> QED
  BY <1>2, Zenon DEF Path, PathsInStep

(* A path in step at a step has its place in a well-formed code.             *)
LEMMA PathInCode ==
  ASSUME prog \in Programs, NEW p \in Paths(prog.code)
  PROVE  /\ prog.code \in Codes /\ WellFormed(prog.code)
         /\ p.at \in 1..Len(prog.code) /\ StepAt(p) \in Steps
         /\ StepAt(p).op \notin {"kill", "leave"} => p.at + 1 \in 1..Len(prog.code)
         /\ StepAt(p).op = "guard" => /\ prog.code[p.at + 1].op \in InKernel \ {"close"}
                                      /\ p.at + 2 \in 1..Len(prog.code)
<1>1. prog.code \in Codes /\ WellFormed(prog.code)
  BY CodeOfProgram
<1>2. p.at \in 1..Len(prog.code)
  BY DEF Paths
<1> QED
  BY <1>1, <1>2, StepOfCode, Zenon DEF StepAt

(* A path past its step is a path of the program.                            *)
LEMMA PastIsPath ==
  ASSUME prog \in Programs, NEW p \in Paths(prog.code),
         StepAt(p).op \notin {"kill", "leave"}
  PROVE  /\ Past(p) \in Paths(prog.code)
         /\ Past(p).at = p.at + 1 /\ Past(p).raw = p.raw /\ Past(p).low = p.low
         /\ Past(p).high = p.high /\ Past(p).forking = p.forking
<1>1. p.at + 1 \in 1..Len(prog.code)
  BY PathInCode
<1>2. SymbolicArgs(p, StepAt(p)) \subseteq SymbolicVars(prog.code)
  BY DEF SymbolicArgs, Paths
<1> DEFINE met == IF StepAt(p).op \in InKernel
                  THEN p.met \cup SymbolicArgs(p, StepAt(p)) ELSE p.met
<1>3. met \in SUBSET SymbolicVars(prog.code)
  BY <1>2 DEF Paths
<1>4. Past(p) = [p EXCEPT !.at = p.at + 1, !.arg = 1, !.met = met]
  BY DEF Past, Paths
<1> HIDE DEF met
<1>5. \A n \in 1..Len(prog.code) :
        LET q == [p EXCEPT !.at = n, !.arg = 1, !.met = met]
        IN  /\ q \in Paths(prog.code)
            /\ q.at = n /\ q.raw = p.raw /\ q.low = p.low /\ q.high = p.high
            /\ q.forking = p.forking
  BY <1>3 DEF Paths
<1> QED
  BY <1>1, <1>4, <1>5, Zenon

(* A path that goes one step on and learns nothing stays in step, unless the *)
(* step is the one that enables forking.                                     *)
LEMMA NextInStep ==
  ASSUME prog \in Programs, NEW p \in Paths(prog.code), InStep(p),
         NEW q \in Paths(prog.code), StepAt(p).op # "enable",
         q.at = p.at + 1, q.raw \subseteq p.raw, q.low = p.low, q.high = p.high,
         StepAt(p).op = "disable" \/ q.forking = p.forking
  PROVE  InStep(q)
<1> DEFINE code == prog.code
           i == p.at
<1>1. code \in Codes /\ i \in 1..Len(code) /\ i \in Nat \ {0} /\ Len(code) \in Nat
  BY PathInCode DEF Codes
<1>2. SymbolicBefore(code, i) \subseteq SymbolicBefore(code, i + 1)
  BY <1>1, SymbolicGrows
<1>3. ForkingAt(code, i + 1) => ForkingAt(code, i) /\ StepAt(p).op # "disable"
  BY <1>1, ForkingBefore DEF StepAt
<1> QED
  BY <1>2, <1>3 DEF InStep

-----------------------------------------------------------------------------
(* The running path becomes one that stands for the same inputs: the others  *)
(* stay as they are, and so does what is to do.                              *)
LEMMA BecomesKeeps ==
  ASSUME TypeOK, PathsInStep, NothingLost, stack # <<>>,
         NEW q \in Paths(prog.code), InStep(q),
         q.low = Path.low, q.high = Path.high,
         stack' = <<q>> \o Tail(stack), UNCHANGED <<prog, explored>>
  PROVE  /\ stack' \in Seq(Paths(prog.code)) /\ stack' # <<>>
         /\ PathsInStep' /\ NothingLost' /\ Todo' = Todo
<1>1. /\ Len(stack) \in Nat /\ 1 \in DOMAIN stack /\ DOMAIN stack = 1..Len(stack)
      /\ Path = stack[1] /\ stack \in Seq(Paths(prog.code))
  BY TopPath DEF TypeOK
<1>2. /\ stack' \in Seq(Paths(prog.code)) /\ Len(stack') = Len(stack)
      /\ stack'[1] = q /\ \A i \in 2..Len(stack) : stack'[i] = stack[i]
  BY <1>1, TopReplaced
<1>3. DOMAIN stack' = DOMAIN stack /\ stack' # <<>>
  BY <1>1, <1>2
<1>4. \A i \in DOMAIN stack : i # 1 => stack'[i] = stack[i]
  BY <1>1, <1>2
<1>5. \A i \in DOMAIN stack : (Cube(stack[i]))' = Cube(stack[i])
  BY <1>1, <1>2, <1>4, Zenon DEF Cube, Inputs
<1>6. PathsInStep'
  <2>1. ASSUME NEW i \in DOMAIN stack
        PROVE  (InStep(stack[i]))'
    <3>1. CASE i = 1
      BY <1>1, <1>2, <3>1 DEF InStep
    <3>2. CASE i # 1
      <4>1. stack'[i] = stack[i] /\ InStep(stack[i])
        BY <1>4, <3>2 DEF PathsInStep
      <4> QED
        BY <4>1 DEF InStep
    <3> QED
      BY <3>1, <3>2
  <2> QED
    BY <2>1, <1>3, Zenon DEF PathsInStep
<1>7. Todo' = Todo
  BY <1>3, <1>5, Zenon DEF Todo
<1>8. NothingLost'
  <2>1. \A i \in DOMAIN stack :
          /\ (Cube(stack[i]))' \cap explored' = {}
          /\ \A j \in DOMAIN stack :
                i # j => (Cube(stack[i]))' \cap (Cube(stack[j]))' = {}
    BY <1>5 DEF NothingLost
  <2>2. Inputs' = explored' \cup Todo'
    BY <1>7 DEF NothingLost, Inputs
  <2> QED
    BY <1>3, <2>1, <2>2, Zenon DEF NothingLost
<1> QED
  BY <1>2, <1>3, <1>6, <1>7, <1>8

(* The running path forks into two that share its inputs between them.       *)
LEMMA SplitKeeps ==
  ASSUME TypeOK, PathsInStep, NothingLost, stack # <<>>,
         NEW p \in Paths(prog.code), NEW q \in Paths(prog.code), InStep(p), InStep(q),
         Cube(p) \cup Cube(q) = Cube(Path), Cube(p) \cap Cube(q) = {},
         stack' = <<p, q>> \o Tail(stack), UNCHANGED <<prog, explored>>
  PROVE  /\ stack' \in Seq(Paths(prog.code)) /\ stack' # <<>>
         /\ PathsInStep' /\ NothingLost' /\ Todo' = Todo
<1> DEFINE n == Len(stack)
<1>1. /\ n \in Nat /\ 1 \in 1..n /\ DOMAIN stack = 1..n
      /\ Path = stack[1] /\ stack \in Seq(Paths(prog.code))
  BY TopPath DEF TypeOK
<1>2. /\ stack' \in Seq(Paths(prog.code)) /\ Len(stack') = n + 1
      /\ stack'[1] = p /\ stack'[2] = q /\ \A i \in 3..(n + 1) : stack'[i] = stack[i - 1]
  BY <1>1, TopSplit
<1>3. DOMAIN stack' = 1..(n + 1) /\ stack' # <<>>
  BY <1>1, <1>2
<1> HIDE DEF n
<1>4. \A i \in 1..(n + 1) : i # 1 /\ i # 2 => i \in 3..(n + 1) /\ i - 1 \in 2..n
  BY <1>1
<1>5. /\ (Cube(stack[1]))' = Cube(p) /\ (Cube(stack[2]))' = Cube(q)
      /\ \A i \in 3..(n + 1) : (Cube(stack[i]))' = Cube(stack[i - 1])
  BY <1>2 DEF Cube, Inputs
<1>6. PathsInStep'
  <2>1. ASSUME NEW i \in 1..(n + 1)
        PROVE  (InStep(stack[i]))'
    <3>1. CASE i = 1
      BY <1>2, <3>1 DEF InStep
    <3>2. CASE i = 2
      BY <1>2, <3>2 DEF InStep
    <3>3. CASE i # 1 /\ i # 2
      <4>1. stack'[i] = stack[i - 1] /\ i - 1 \in 1..n
        BY <1>1, <1>2, <1>4, <3>3
      <4>2. InStep(stack[i - 1])
        BY <4>1, <1>1 DEF PathsInStep
      <4> QED
        BY <4>1, <4>2 DEF InStep
    <3> QED
      BY <3>1, <3>2, <3>3
  <2> QED
    BY <2>1, <1>3, Zenon DEF PathsInStep
<1>7. Todo' = Todo
  <2>1. \A a : a \in Todo' <=> \E i \in 1..(n + 1) : a \in (Cube(stack[i]))'
    BY <1>3, Zenon DEF Todo
  <2>2. \A a : a \in Todo <=> \E i \in 1..n : a \in Cube(stack[i])
    BY <1>1, Zenon DEF Todo
  <2>3. \A a : a \in Cube(stack[1]) <=> a \in Cube(p) \/ a \in Cube(q)
    BY <1>1
  <2>4. ASSUME NEW a, a \in Todo PROVE a \in Todo'
    <3>1. PICK i \in 1..n : a \in Cube(stack[i])
      BY <2>2, <2>4
    <3>2. CASE i = 1
      BY <1>1, <1>5, <2>1, <2>3, <3>1, <3>2, 1 \in 1..(n + 1), 2 \in 1..(n + 1)
    <3>3. CASE i # 1
      <4>1. i + 1 \in 3..(n + 1) /\ i + 1 \in 1..(n + 1) /\ (i + 1) - 1 = i
        BY <1>1, <3>3
      <4> QED
        BY <1>5, <2>1, <3>1, <4>1
    <3> QED
      BY <3>2, <3>3
  <2>5. ASSUME NEW a, a \in Todo' PROVE a \in Todo
    <3>1. PICK i \in 1..(n + 1) : a \in (Cube(stack[i]))'
      BY <2>1, <2>5
    <3>2. CASE i = 1 \/ i = 2
      BY <1>1, <1>5, <2>2, <2>3, <3>1, <3>2
    <3>3. CASE i # 1 /\ i # 2
      <4>1. i - 1 \in 1..n /\ a \in Cube(stack[i - 1])
        BY <1>1, <1>4, <1>5, <3>1, <3>3
      <4> QED
        BY <2>2, <4>1
    <3> QED
      BY <3>2, <3>3
  <2> QED
    BY <2>4, <2>5
<1>8. NothingLost'
  <2>1. Inputs' = explored' \cup Todo'
    BY <1>7 DEF NothingLost, Inputs
  <2>2. \A i \in 1..n : Cube(stack[i]) \cap explored = {}
    BY <1>1, Zenon DEF NothingLost
  <2>3. \A i, j \in 1..n : i # j => Cube(stack[i]) \cap Cube(stack[j]) = {}
    BY <1>1, Zenon DEF NothingLost
  <2>4. /\ (Cube(stack[1]))' \subseteq Cube(stack[1])
        /\ (Cube(stack[2]))' \subseteq Cube(stack[1])
    BY <1>1, <1>5
  <2>5. ASSUME NEW i \in 1..(n + 1) PROVE (Cube(stack[i]))' \cap explored' = {}
    BY <1>1, <1>4, <1>5, <2>2, <2>4
  <2>6. ASSUME NEW i \in 1..(n + 1), NEW j \in 1..(n + 1), i # j
        PROVE  (Cube(stack[i]))' \cap (Cube(stack[j]))' = {}
    <3>1. CASE i \in {1, 2} /\ j \in {1, 2}
      BY <1>5, <2>6, <3>1
    <3>2. CASE i \in {1, 2} /\ j \notin {1, 2}
      BY <1>1, <1>4, <1>5, <2>3, <2>4, <3>2
    <3>3. CASE j \in {1, 2} /\ i \notin {1, 2}
      BY <1>1, <1>4, <1>5, <2>3, <2>4, <3>3
    <3>4. CASE i \notin {1, 2} /\ j \notin {1, 2}
      <4>1. i - 1 \in 1..n /\ j - 1 \in 1..n /\ i - 1 # j - 1
        BY <1>1, <1>4, <2>6, <3>4
      <4> QED
        BY <1>4, <1>5, <2>3, <3>4, <4>1
    <3> QED
      BY <2>6, <3>1, <3>2, <3>3, <3>4
  <2> QED
    BY <1>3, <2>1, <2>5, <2>6, Zenon DEF NothingLost
<1> QED
  BY <1>2, <1>3, <1>6, <1>7, <1>8

(* The running path is explored: what it stood for moves from what is to do  *)
(* to what is explored.                                                      *)
LEMMA KillKeeps ==
  ASSUME TypeOK, PathsInStep, NothingLost, stack # <<>>,
         stack' = Tail(stack), explored' = explored \cup Cube(Path), prog' = prog
  PROVE  /\ stack' \in Seq(Paths(prog.code))
         /\ PathsInStep' /\ NothingLost' /\ Todo' = Todo \ explored'
<1> DEFINE n == Len(stack)
<1>1. /\ n \in Nat /\ 1 \in 1..n /\ DOMAIN stack = 1..n
      /\ Path = stack[1] /\ stack \in Seq(Paths(prog.code))
  BY TopPath DEF TypeOK
<1>2. /\ stack' \in Seq(Paths(prog.code)) /\ Len(stack') = n - 1
      /\ \A i \in 1..(n - 1) : stack'[i] = stack[i + 1]
  BY <1>1, TopTaken
<1>3. DOMAIN stack' = 1..(n - 1)
  BY <1>1, <1>2
<1> HIDE DEF n
<1>4. \A i \in 1..(n - 1) : i + 1 \in 1..n /\ i + 1 # 1
  BY <1>1
<1>5. \A i \in 1..(n - 1) : (Cube(stack[i]))' = Cube(stack[i + 1])
  BY <1>2 DEF Cube, Inputs
<1>6. PathsInStep'
  <2>1. ASSUME NEW i \in 1..(n - 1)
        PROVE  (InStep(stack[i]))'
    <3>1. stack'[i] = stack[i + 1] /\ InStep(stack[i + 1])
      BY <1>1, <1>2, <1>4 DEF PathsInStep
    <3> QED
      BY <3>1 DEF InStep
  <2> QED
    BY <2>1, <1>3, Zenon DEF PathsInStep
<1>7. /\ \A i \in 1..n : Cube(stack[i]) \cap explored = {}
      /\ \A i, j \in 1..n : i # j => Cube(stack[i]) \cap Cube(stack[j]) = {}
      /\ Inputs = explored \cup Todo
  BY <1>1, Zenon DEF NothingLost
<1>8. \A a : a \in Todo <=> \E i \in 1..n : a \in Cube(stack[i])
  BY <1>1, Zenon DEF Todo
<1>9. \A a : a \in Todo' <=> \E i \in 1..(n - 1) : a \in Cube(stack[i + 1])
  BY <1>3, <1>5, Zenon DEF Todo
<1>10. Todo' = Todo \ explored'
  <2>1. ASSUME NEW a, a \in Todo' PROVE a \in Todo /\ a \notin explored'
    <3>1. PICK i \in 1..(n - 1) : a \in Cube(stack[i + 1])
      BY <1>9, <2>1
    <3> QED
      BY <1>1, <1>4, <1>7, <1>8, <3>1
  <2>2. ASSUME NEW a, a \in Todo, a \notin explored' PROVE a \in Todo'
    <3>1. PICK i \in 1..n : a \in Cube(stack[i])
      BY <1>8, <2>2
    <3>2. i - 1 \in 1..(n - 1) /\ (i - 1) + 1 = i
      BY <1>1, <2>2, <3>1
    <3> QED
      BY <1>9, <3>1, <3>2
  <2> QED
    BY <2>1, <2>2
<1>11. NothingLost'
  <2>1. Inputs' = explored' \cup Todo'
    <3>1. Cube(Path) \subseteq Todo
      BY <1>1, <1>8
    <3> QED
      BY <1>7, <1>10, <3>1 DEF Inputs
  <2>2. ASSUME NEW i \in 1..(n - 1) PROVE (Cube(stack[i]))' \cap explored' = {}
    BY <1>1, <1>4, <1>5, <1>7
  <2>3. ASSUME NEW i \in 1..(n - 1), NEW j \in 1..(n - 1), i # j
        PROVE  (Cube(stack[i]))' \cap (Cube(stack[j]))' = {}
    BY <1>4, <1>5, <1>7, <2>3, i + 1 # j + 1
  <2> QED
    BY <1>3, <2>1, <2>2, <2>3, Zenon DEF NothingLost
<1> QED
  BY <1>2, <1>6, <1>10, <1>11

-----------------------------------------------------------------------------
(* A branch is on a variable that is symbolic and undecided, and forking is  *)
(* on there.                                                                 *)
LEMMA LooksAtRaw ==
  ASSUME prog \in Programs, NEW p \in Paths(prog.code), InStep(p),
         StepAt(p).op \in Looking, Undecided(p) # {}
  PROVE  /\ First(Undecided(p)) \in Nat \ {0}
         /\ StepAt(p).args[First(Undecided(p))] \in p.raw
         /\ p.forking
<1> DEFINE U == Undecided(p)
           s == StepAt(p)
<1>1. s \in Steps /\ s = prog.code[p.at] /\ p.at \in DOMAIN prog.code
      /\ WellFormed(prog.code)
  BY PathInCode DEF StepAt, Codes
<1>2. DOMAIN s.args \subseteq Nat \ {0}
  BY <1>1 DEF Steps
<1>3. \A i \in U : i \in DOMAIN s.args /\ s.args[i] \in p.raw
  BY DEF Undecided
<1>4. First(U) \in U
  BY <1>2, <1>3, FirstIsLeast
<1>5. s.args[First(U)] \in ArgSet(s) \cap SymbolicVars(prog.code)
  BY <1>3, <1>4 DEF ArgSet, Paths
<1>6. ForkingAt(prog.code, p.at)
  BY <1>1, <1>5 DEF WellFormed
<1> QED
  BY <1>2, <1>3, <1>4, <1>6 DEF InStep

(* The two sides of a branch are paths of the program in step, and share the *)
(* inputs of the path between them.                                          *)
LEMMA SidesSplit ==
  ASSUME prog \in Programs, NEW p \in Paths(prog.code), InStep(p),
         StepAt(p).op \in Looking, Undecided(p) # {}
  PROVE  /\ Low(p) \in Paths(prog.code) /\ InStep(Low(p))
         /\ High(p) \in Paths(prog.code) /\ InStep(High(p))
         /\ Cube(Low(p)) \cup Cube(High(p)) = Cube(p)
         /\ Cube(Low(p)) \cap Cube(High(p)) = {}
         /\ Sides(p) = {<<Low(p), High(p)>>, <<High(p), Low(p)>>}
<1> DEFINE k == First(Undecided(p))
           v == StepAt(p).args[k]
<1>1. k \in Nat /\ v \in p.raw /\ p.forking
  BY LooksAtRaw
<1> DEFINE raw  == p.raw \ {v}
           low  == p.low \cup {v}
           high == p.high \cup {v}
           next == k + 1
<1>2. /\ Low(p) = [p EXCEPT !.raw = raw, !.low = low, !.arg = next]
      /\ High(p) = [p EXCEPT !.raw = raw, !.high = high, !.arg = next]
  BY DEF Low, High, Paths
<1>3. {raw, low, high} \subseteq SUBSET SymbolicVars(prog.code) /\ next \in Nat
  BY <1>1 DEF Paths
<1> HIDE DEF k, v, raw, low, high, next
<1>4. /\ Low(p) \in Paths(prog.code) /\ Low(p).at = p.at /\ Low(p).raw = raw
      /\ Low(p).low = low /\ Low(p).high = p.high /\ Low(p).forking = p.forking
  BY <1>2, <1>3 DEF Paths
<1>5. /\ High(p) \in Paths(prog.code) /\ High(p).at = p.at /\ High(p).raw = raw
      /\ High(p).high = high /\ High(p).low = p.low /\ High(p).forking = p.forking
  BY <1>2, <1>3 DEF Paths
<1>6. InStep(Low(p)) /\ InStep(High(p))
  BY <1>1, <1>4, <1>5 DEF InStep, raw, low, high
<1>7. /\ Cube(Low(p)) = {a \in Cube(p) : v \notin a}
      /\ Cube(High(p)) = {a \in Cube(p) : v \in a}
  BY <1>4, <1>5 DEF Cube, low, high
<1> QED
  BY <1>1, <1>4, <1>5, <1>6, <1>7 DEF Sides

(* A branch loses no input and repeats none.                                 *)
LEMMA LookKeeps ==
  ASSUME TypeOK, PathsInStep, NothingLost, Look
  PROVE  TypeOK' /\ PathsInStep' /\ NothingLost' /\ Todo' = Todo
<1>1. /\ prog \in Programs /\ stack # <<>> /\ Path \in Paths(prog.code) /\ InStep(Path)
      /\ StepAt(Path).op \in Looking /\ Undecided(Path) # {}
      /\ UNCHANGED <<prog, explored, stuck>>
  BY TopPath DEF TypeOK, Look, Running
<1>2. \/ stack' = <<Low(Path), High(Path)>> \o Tail(stack)
      \/ stack' = <<High(Path), Low(Path)>> \o Tail(stack)
  <2>1. Sides(Path) = {<<Low(Path), High(Path)>>, <<High(Path), Low(Path)>>}
    BY <1>1, SidesSplit, Zenon
  <2> QED
    BY <2>1, Zenon DEF Look
<1>3. /\ Low(Path) \in Paths(prog.code) /\ InStep(Low(Path))
      /\ High(Path) \in Paths(prog.code) /\ InStep(High(Path))
      /\ Cube(Low(Path)) \cup Cube(High(Path)) = Cube(Path)
      /\ Cube(High(Path)) \cup Cube(Low(Path)) = Cube(Path)
      /\ Cube(Low(Path)) \cap Cube(High(Path)) = {}
      /\ Cube(High(Path)) \cap Cube(Low(Path)) = {}
  BY <1>1, SidesSplit
<1>4. /\ stack' \in Seq(Paths(prog.code))
      /\ PathsInStep' /\ NothingLost' /\ Todo' = Todo
  BY <1>1, <1>2, <1>3, SplitKeeps, Zenon
<1> QED
  BY <1>1, <1>4 DEF TypeOK, Inputs

-----------------------------------------------------------------------------
(* A path the running one may become without its inputs being touched.       *)
Keeps(q) ==
  q \in Paths(prog.code) /\ InStep(q) /\ q.low = Path.low /\ q.high = Path.high

(* What is known of the running path where it takes a step.                  *)
AtStep ==
  /\ prog \in Programs /\ Path \in Paths(prog.code) /\ InStep(Path)

(* The running path past its step keeps its inputs, whatever becomes of its  *)
(* descriptors.                                                              *)
LEMMA PastKeeps ==
  ASSUME AtStep, StepAt(Path).op \notin {"kill", "leave", "enable"},
         NEW t \in Tables, NEW open \in SUBSET (0..MaxFd), NEW sound \in BOOLEAN
  PROVE  /\ Keeps([Past(Path) EXCEPT !.fd = t, !.open = open, !.sound = sound])
         /\ Keeps([Past(Path) EXCEPT !.fd = t, !.open = open])
         /\ Keeps([Past(Path) EXCEPT !.fd = t, !.sound = sound])
         /\ Keeps([Past(Path) EXCEPT !.open = open])
         /\ Keeps(Past(Path))
<1> DEFINE r == Past(Path)
<1>1. /\ r \in Paths(prog.code) /\ r.at = Path.at + 1 /\ r.raw = Path.raw
      /\ r.low = Path.low /\ r.high = Path.high /\ r.forking = Path.forking
  BY PastIsPath DEF AtStep
<1> HIDE DEF r
<1>2. ASSUME NEW q \in Paths(prog.code), q.at = r.at, q.raw = r.raw,
             q.low = r.low, q.high = r.high, q.forking = r.forking
      PROVE  Keeps(q)
  BY <1>1, <1>2, NextInStep DEF AtStep, Keeps
<1>3. Keeps([r EXCEPT !.fd = t, !.open = open, !.sound = sound])
  BY <1>1, <1>2 DEF Paths
<1>4. Keeps([r EXCEPT !.fd = t, !.open = open])
  BY <1>1, <1>2 DEF Paths
<1>5. Keeps([r EXCEPT !.fd = t, !.sound = sound])
  BY <1>1, <1>2 DEF Paths
<1>6. Keeps([r EXCEPT !.open = open])
  BY <1>1, <1>2 DEF Paths
<1>7. Keeps(r)
  BY <1>1, <1>2
<1> QED
  BY <1>3, <1>4, <1>5, <1>6, <1>7 DEF r

(* The lowest free descriptor is in the table.                               *)
LEMMA FreeInTable ==
  ASSUME NEW open, Free(open) # {}
  PROVE  LowestFree(open) \in 0..MaxFd
<1>1. Free(open) \in SUBSET Nat /\ Free(open) \subseteq 0..MaxFd
  BY FdAssumption DEF Free
<1> QED
  BY <1>1, FirstIsLeast DEF LowestFree

(* An open that succeeds and one that fails.                                 *)
LEMMA OpenKeeps ==
  ASSUME AtStep, StepAt(Path).op \notin {"kill", "leave", "enable"}, NEW d
  PROVE  /\ Free(Path.open) # {} => Keeps(OpenFd(Path, d))
         /\ Keeps(FailFd(Path, d))
<1>1. /\ Past(Path) \in Paths(prog.code) /\ Past(Path).fd = Path.fd
      /\ Past(Path).open = Path.open /\ Path.fd \in Tables
      /\ Path.open \in SUBSET (0..MaxFd)
  BY PastIsPath DEF AtStep, Past, Paths
<1>2. ASSUME Free(Path.open) # {} PROVE Keeps(OpenFd(Path, d))
  <2> DEFINE n == LowestFree(Path.open)
  <2>1. n \in 0..MaxFd
    BY <1>2, FreeInTable
  <2> HIDE DEF n
  <2>2. [Path.fd EXCEPT ![d] = n] \in Tables /\ Path.open \cup {n} \in SUBSET (0..MaxFd)
    BY <1>1, <2>1 DEF Tables
  <2>3. OpenFd(Path, d) = [Past(Path) EXCEPT !.fd = [Path.fd EXCEPT ![d] = n],
                                             !.open = Path.open \cup {n}]
    BY <1>1 DEF OpenFd, n
  <2> QED
    BY <2>2, <2>3, PastKeeps
<1>3. Keeps(FailFd(Path, d))
  <2>1. [Path.fd EXCEPT ![d] = NoFd] \in Tables
    BY <1>1 DEF Tables
  <2>2. FailFd(Path, d) = [Past(Path) EXCEPT !.fd = [Path.fd EXCEPT ![d] = NoFd],
                                             !.sound = FALSE]
    BY <1>1 DEF FailFd
  <2> QED
    BY <2>1, <2>2, PastKeeps
<1> QED
  BY <1>2, <1>3

(* The path goes on by a step that leaves its inputs alone, or the machine   *)
(* is left idle with it.                                                     *)
Moves ==
  /\ \E q : Keeps(q) /\ stack' = <<q>> \o Tail(stack)
  /\ UNCHANGED <<prog, explored>>
  /\ stuck' \in {stuck, "left"}

(* The steps that change what a path knows.                                  *)
LEMMA KnowledgeMoves ==
  ASSUME AtStep,
         PassOver \/ EnableForking \/ DisableForking \/ MakeSymbolic \/ GetExample
  PROVE  Moves
<1> DEFINE code == prog.code
           s == StepAt(Path)
<1>1. ASSUME NEW q, Keeps(q), Becomes(q) PROVE Moves
  BY <1>1, Zenon DEF Moves, Becomes
<1>2. CASE PassOver
  <2>1. s.op \in Looking /\ Undecided(Path) # {}
    BY <1>2 DEF PassOver, InKernel
  <2> DEFINE n == First(Undecided(Path)) + 1
  <2>2. n \in Nat
    BY <2>1, LooksAtRaw DEF AtStep
  <2> HIDE DEF n
  <2>3. Keeps([Path EXCEPT !.arg = n])
    BY <2>2 DEF AtStep, Keeps, Paths, InStep
  <2> QED
    BY <1>1, <1>2, <2>3 DEF PassOver, n
<1>3. ASSUME s.op \in {"enable", "disable", "symbolic", "example"}
      PROVE  /\ Past(Path) \in Paths(code) /\ Past(Path).at = Path.at + 1
             /\ Past(Path).raw = Path.raw /\ Past(Path).low = Path.low
             /\ Past(Path).high = Path.high /\ Past(Path).forking = Path.forking
             /\ SymbolicBefore(code, Path.at) \subseteq SymbolicBefore(code, Path.at + 1)
             /\ Path.at \in 1..Len(code) /\ code \in Codes /\ WellFormed(code)
  BY <1>3, PastIsPath, PathInCode, SymbolicGrows DEF AtStep
<1> DEFINE r == Past(Path)
<1>4. CASE EnableForking
  <2>1. s.op = "enable"
    BY <1>4 DEF EnableForking, At
  <2> DEFINE q == [r EXCEPT !.forking = TRUE]
  <2> HIDE DEF r
  <2>2. /\ q \in Paths(code) /\ q.at = r.at /\ q.raw = r.raw /\ q.low = r.low
        /\ q.high = r.high /\ q.forking = TRUE
    BY <1>3, <2>1 DEF Paths, r
  <2>3. Keeps(q)
    BY <1>3, <2>1, <2>2 DEF AtStep, Keeps, InStep, r
  <2> QED
    BY <1>1, <1>4, <2>3 DEF EnableForking, r
<1>5. CASE DisableForking
  <2>1. s.op = "disable"
    BY <1>5 DEF DisableForking, At
  <2> DEFINE q == [r EXCEPT !.forking = FALSE]
  <2> HIDE DEF r
  <2>2. /\ q \in Paths(code) /\ q.at = r.at /\ q.raw = r.raw /\ q.low = r.low
        /\ q.high = r.high
    BY <1>3, <2>1 DEF Paths, r
  <2>3. Keeps(q)
    BY <1>3, <2>1, <2>2, NextInStep DEF AtStep, Keeps, r
  <2> QED
    BY <1>1, <1>5, <2>3 DEF DisableForking, r
<1>6. CASE MakeSymbolic
  <2>1. s.op = "symbolic"
    BY <1>6 DEF MakeSymbolic, At
  <2> DEFINE raw == Path.raw \cup ArgSet(s)
             q == [r EXCEPT !.raw = raw]
  <2>2. /\ s = code[Path.at] /\ Path.at \in DOMAIN code
        /\ ArgSet(s) \subseteq SymbolicBefore(code, Path.at + 1)
        /\ ArgSet(s) \subseteq SymbolicVars(code)
    BY <1>3, <2>1, SymbolicGrows DEF StepAt, Codes
  <2>3. ArgSet(s) \cap SymbolicBefore(code, Path.at) = {}
    BY <1>3, <2>1, <2>2 DEF WellFormed
  <2>4. raw \in SUBSET SymbolicVars(code)
    BY <2>2 DEF AtStep, Paths
  <2>5. ~ForkingAt(code, Path.at + 1) \/ Path.forking
    BY <1>3, <2>1, ForkingBefore DEF AtStep, InStep, StepAt
  <2> HIDE DEF raw, r
  <2>6. /\ q \in Paths(code) /\ q.at = r.at /\ q.raw = raw /\ q.low = r.low
        /\ q.high = r.high /\ q.forking = r.forking
    BY <1>3, <2>1, <2>4 DEF Paths, r
  <2>7. Keeps(q)
    BY <1>3, <2>1, <2>2, <2>3, <2>5, <2>6 DEF AtStep, Keeps, InStep, r, raw
  <2>8. Becomes(q)
    BY <1>3, <1>6, <2>1 DEF MakeSymbolic, r, raw
  <2> QED
    BY <1>1, <2>7, <2>8
<1>7. CASE GetExample
  <2>1. s.op = "example"
    BY <1>7 DEF GetExample, At
  <2> DEFINE raw == Path.raw \ ArgSet(s)
             q == [r EXCEPT !.raw = raw]
  <2>2. raw \in SUBSET SymbolicVars(code) /\ raw \subseteq Path.raw
    BY DEF AtStep, Paths
  <2> HIDE DEF raw, r
  <2>3. /\ q \in Paths(code) /\ q.at = r.at /\ q.raw = raw /\ q.low = r.low
        /\ q.high = r.high /\ q.forking = r.forking
    BY <1>3, <2>1, <2>2 DEF Paths, r
  <2>4. Keeps(q)
    BY <1>3, <2>1, <2>2, <2>3, NextInStep DEF AtStep, Keeps, r
  <2>5. Becomes(q)
    BY <1>3, <1>7, <2>1 DEF GetExample, r, raw
  <2> QED
    BY <1>1, <2>4, <2>5
<1> QED
  BY <1>2, <1>4, <1>5, <1>6, <1>7

(* The steps on descriptors.                                                 *)
LEMMA DescriptorMoves ==
  ASSUME AtStep, DoOpen \/ DoOpenOrExit \/ DoClose \/ DoDup \/ DoDup2 \/ DoFcntl
  PROVE  Moves
<1> DEFINE s == StepAt(Path)
<1>1. ASSUME NEW q, Keeps(q), Becomes(q) PROVE Moves
  BY <1>1, Zenon DEF Moves, Becomes
<1>2. /\ Path.fd \in Tables /\ Path.open \in SUBSET (0..MaxFd)
  BY DEF AtStep, Paths
<1>3. ASSUME s.op \notin {"kill", "leave", "enable"}
      PROVE  /\ Past(Path).fd = Path.fd /\ Past(Path).open = Path.open
             /\ Past(Path) \in Paths(prog.code)
  BY <1>3, PastIsPath DEF AtStep, Past, Paths
<1>4. CASE DoOpen
  <2>1. s.op \notin {"kill", "leave", "enable"}
    BY <1>4 DEF DoOpen, Ready, At
  <2> QED
    BY <1>1, <1>4, <2>1, OpenKeeps DEF DoOpen
<1>5. CASE DoOpenOrExit
  <2>1. s.op \notin {"kill", "leave", "enable"}
    BY <1>5 DEF DoOpenOrExit, At
  <2>2. CASE LeaveIdle([Path EXCEPT !.sound = FALSE])
    <3>1. Keeps([Path EXCEPT !.sound = FALSE])
      BY DEF AtStep, Keeps, InStep, Paths
    <3> QED
      BY <2>2, <3>1, Zenon DEF LeaveIdle, Moves
  <2> QED
    BY <1>1, <1>5, <2>1, <2>2, OpenKeeps DEF DoOpenOrExit
<1>6. CASE DoClose
  <2>1. s.op \notin {"kill", "leave", "enable"}
    BY <1>6 DEF DoClose, Ready, At
  <2> DEFINE open == Path.open \ {Path.fd[s.fd]}
  <2>2. open \in SUBSET (0..MaxFd)
    BY <1>2
  <2>3. Becomes([Past(Path) EXCEPT !.open = open])
    BY <1>3, <1>6, <2>1 DEF DoClose
  <2> QED
    BY <1>1, <1>2, <2>1, <2>2, <2>3, PastKeeps
<1>7. CASE DoDup
  <2>1. s.op \notin {"kill", "leave", "enable"}
    BY <1>7 DEF DoDup, At
  <2> QED
    BY <1>1, <1>7, <2>1, OpenKeeps DEF DoDup
<1>8. CASE DoDup2
  <2>1. s.op \notin {"kill", "leave", "enable"}
    BY <1>8 DEF DoDup2, Ready, At
  <2>2. PICK n \in Garbage :
          Becomes([Past(Path) EXCEPT
                     !.fd["dup2_fd"] = n,
                     !.open = IF n \in 0..MaxFd /\ Path.fd[s.fd] \in @
                              THEN @ \cup {n} ELSE @])
    BY <1>8 DEF DoDup2
  <2> DEFINE t == [Path.fd EXCEPT !["dup2_fd"] = n]
             open == IF n \in 0..MaxFd /\ Path.fd[s.fd] \in Path.open
                     THEN Path.open \cup {n} ELSE Path.open
  <2>3. t \in Tables /\ open \in SUBSET (0..MaxFd)
    BY <1>2 DEF Tables
  <2>4. Becomes([Past(Path) EXCEPT !.fd = t, !.open = open])
    BY <1>3, <2>1, <2>2
  <2> QED
    BY <1>1, <2>1, <2>3, <2>4, PastKeeps
<1>9. CASE DoFcntl
  <2>1. s.op \notin {"kill", "leave", "enable"}
    BY <1>9 DEF DoFcntl, Ready, At
  <2> DEFINE n == LowestFree(Path.open)
             open == Path.open \cup {n}
  <2>2. CASE Becomes(Past(Path))
    BY <1>1, <1>2, <2>1, <2>2, PastKeeps
  <2>3. CASE Free(Path.open) # {} /\ Becomes([Past(Path) EXCEPT !.open = open])
    <3>1. open \in SUBSET (0..MaxFd)
      BY <1>2, <2>3, FreeInTable
    <3> QED
      BY <1>1, <1>2, <2>1, <2>3, <3>1, PastKeeps
  <2> QED
    BY <1>3, <1>9, <2>1, <2>2, <2>3 DEF DoFcntl
<1> QED
  BY <1>4, <1>5, <1>6, <1>7, <1>8, <1>9

(* The steps that are calls, guards and branches, and the end of a process.  *)
LEMMA CallMoves ==
  ASSUME AtStep, DoCall \/ DoChecked \/ DoOverrun \/ DoBranch \/ DoGuard \/ Exit
  PROVE  Moves
<1> DEFINE code == prog.code
           s == StepAt(Path)
<1>1. ASSUME NEW q, Keeps(q), Becomes(q) PROVE Moves
  BY <1>1, Zenon DEF Moves, Becomes
<1>2. ASSUME NEW q, Keeps(q), LeaveIdle(q) PROVE Moves
  BY <1>2, Zenon DEF Moves, LeaveIdle
<1>3. Path.fd \in Tables /\ Path.open \in SUBSET (0..MaxFd)
  BY DEF AtStep, Paths
<1>4. ASSUME s.op \notin {"kill", "leave", "enable"}
      PROVE  Keeps(Past(Path)) /\ Past(Path).fd = Path.fd
  BY <1>3, <1>4, PastKeeps DEF AtStep, Past, Paths
<1>5. CASE DoCall
  BY <1>1, <1>4, <1>5 DEF DoCall, Ready, At
<1>6. CASE DoOverrun
  <2>1. s.op \notin {"kill", "leave", "enable"}
    BY <1>6 DEF DoOverrun, Ready, At
  <2>2. CASE Becomes([Past(Path) EXCEPT !.fd["open_fd"] = NoFd, !.sound = FALSE])
    <3> DEFINE t == [Path.fd EXCEPT !["open_fd"] = NoFd]
    <3>1. t \in Tables
      BY <1>3 DEF Tables
    <3>2. Becomes([Past(Path) EXCEPT !.fd = t, !.sound = FALSE])
      BY <1>4, <2>1, <2>2
    <3> QED
      BY <1>1, <1>3, <2>1, <3>1, <3>2, PastKeeps
  <2>3. CASE LeaveIdle([Path EXCEPT !.sound = FALSE])
    <3>1. Keeps([Path EXCEPT !.sound = FALSE])
      BY DEF AtStep, Keeps, InStep, Paths
    <3> QED
      BY <1>2, <2>3, <3>1
  <2> QED
    BY <1>1, <1>4, <1>6, <2>1, <2>2, <2>3 DEF DoOverrun
<1>7. CASE DoBranch
  BY <1>1, <1>4, <1>7 DEF DoBranch, Ready, At
<1>8. CASE DoGuard
  <2> DEFINE r == Past(Path)
             i == Path.at
             met == r.met \cup SymbolicArgs(Path, code[i + 1])
             q == [r EXCEPT !.at = i + 2, !.met = met]
  <2>1. s.op = "guard"
    BY <1>8 DEF DoGuard, Ready, At
  <2>2. /\ code \in Codes /\ i \in 1..Len(code) /\ s = code[i]
        /\ i + 1 \in 1..Len(code) /\ i + 2 \in 1..Len(code) /\ (i + 1) + 1 = i + 2
        /\ code[i + 1].op \in InKernel \ {"close"} /\ i \in Nat \ {0} /\ i + 1 \in Nat \ {0}
    BY <2>1, PathInCode DEF AtStep, StepAt
  <2>3. /\ r \in Paths(code) /\ r.at = i + 1 /\ r.raw = Path.raw /\ r.low = Path.low
        /\ r.high = Path.high /\ r.forking = Path.forking
    BY <2>1, PastIsPath DEF AtStep
  <2>4. SymbolicBefore(code, i) \subseteq SymbolicBefore(code, i + 2)
    BY <2>2, SymbolicGrows
  <2>5. ForkingAt(code, i + 2) => ForkingAt(code, i)
    <3>1. ForkingAt(code, i + 2) => ForkingAt(code, i + 1)
      BY <2>2, ForkingBefore DEF InKernel, Looking
    <3>2. ForkingAt(code, i + 1) => ForkingAt(code, i)
      BY <2>1, <2>2, ForkingBefore
    <3> QED
      BY <3>1, <3>2
  <2>6. met \in SUBSET SymbolicVars(code)
    BY <2>3 DEF SymbolicArgs, Paths, AtStep
  <2>7. CASE Becomes(Past(Path))
    BY <1>1, <1>4, <2>1, <2>7
  <2>8. CASE Becomes([r EXCEPT !.at = @ + 1, !.met = met])
    <3>1. Becomes(q)
      BY <2>2, <2>3, <2>8
    <3> HIDE DEF r, met
    <3>2. /\ q \in Paths(code) /\ q.at = i + 2 /\ q.raw = r.raw /\ q.low = r.low
          /\ q.high = r.high /\ q.forking = r.forking
      BY <2>2, <2>3, <2>6 DEF Paths
    <3>3. Keeps(q)
      BY <2>3, <2>4, <2>5, <3>2 DEF Keeps, InStep, AtStep
    <3> QED
      BY <1>1, <3>1, <3>3
  <2>9. DoGuard => \/ Becomes(Past(Path))
                  \/ Becomes([r EXCEPT !.at = @ + 1, !.met = @ \cup SymbolicArgs(Path, code[i + 1])])
    BY Zenon DEF DoGuard
  <2> QED
    BY <1>8, <2>3, <2>7, <2>8, <2>9 DEF Paths
<1>10. CASE DoChecked
  <2>1. s.op \notin {"kill", "leave", "enable"}
    BY <1>10 DEF DoChecked, Ready, At
  <2>2. Keeps([Path EXCEPT !.sound = FALSE])
    BY DEF AtStep, Keeps, InStep, Paths
  <2> QED
    BY <1>1, <1>2, <1>4, <1>10, <2>1, <2>2 DEF DoChecked
<1>9. CASE Exit
  <2>1. Keeps(Path)
    BY DEF Keeps, AtStep
  <2> QED
    BY <1>2, <1>9, <2>1 DEF Exit
<1> QED
  BY <1>5, <1>6, <1>7, <1>8, <1>9, <1>10

-----------------------------------------------------------------------------
(* Types hold, paths are in step, and no input is lost or repeated: the      *)
(* inductive invariant of one run.                                           *)
RunInv == TypeOK /\ PathsInStep /\ NothingLost

(* It holds where a run starts.                                              *)
LEMMA RunInit == Init => RunInv
<1> SUFFICES ASSUME Init PROVE RunInv
  OBVIOUS
<1> DEFINE p == FirstPath
<1>1. /\ prog \in Programs /\ prog.code \in Codes /\ Len(prog.code) \in Nat
      /\ 1 \in 1..Len(prog.code)
  BY CodeOfProgram DEF Init, Codes, WellFormed
<1>2. /\ p \in Paths(prog.code) /\ p.at = 1 /\ p.raw = {} /\ p.low = {} /\ p.high = {}
  <2>1. [d \in FdVar |-> IF d = "stdout" THEN 1 ELSE NoFd] \in Tables
    BY FdAssumption DEF Tables
  <2>2. Std \in SUBSET (0..MaxFd)
    BY FdAssumption DEF Std
  <2> QED
    BY <1>1, <2>1, <2>2 DEF FirstPath, Paths
<1>3. stack = <<p>> /\ explored = {} /\ stuck = "no"
  BY DEF Init
<1> HIDE DEF p
<1>4. /\ stack \in Seq(Paths(prog.code)) /\ DOMAIN stack = {1} /\ stack[1] = p
  BY <1>2, <1>3
<1>5. InStep(p)
  BY <1>2 DEF InStep, ForkingAt
<1>6. Cube(p) = Inputs
  BY <1>2 DEF Cube
<1>7. Todo = Inputs
  BY <1>4, <1>6 DEF Todo
<1> QED
  BY <1>1, <1>3, <1>4, <1>5, <1>7 DEF RunInv, TypeOK, PathsInStep, NothingLost

(* A path in step stands for at least one input.                             *)
LEMMA PathsHaveInputs ==
  ASSUME AtStep
  PROVE  Cube(Path) # {}
<1>1. Path.high \in Inputs /\ Path.high \cap Path.low = {}
  BY DEF AtStep, InStep, Paths, Inputs
<1> QED
  BY <1>1 DEF Cube

(* A step keeps the invariant, and is a step of the abstract exploration.    *)
LEMMA RunStep ==
  ASSUME RunInv, Next
  PROVE  RunInv' /\ [Runs!Next]_Runs!vars
<1>1. /\ prog \in Programs /\ stack # <<>> /\ stuck = "no" /\ AtStep
  <2>1. Running
    BY DEF Next, Look, PassOver, Hang, EnableForking, DisableForking, MakeSymbolic,
           GetExample, DoOpen, DoOpenOrExit, DoClose, DoDup, DoDup2, DoFcntl, DoCall,
           DoChecked, DoOverrun, DoBranch, DoGuard, Exit, KillState, Ready, At
  <2> QED
    BY <2>1, TopPath DEF RunInv, TypeOK, Running, AtStep
<1>2. Todo # {}
  <2>1. Cube(Path) # {} /\ Path = stack[1] /\ 1 \in DOMAIN stack
    BY <1>1, PathsHaveInputs, TopPath DEF RunInv
  <2> QED
    BY <2>1 DEF Todo
<1>3. CASE Look
  BY <1>3, LookKeeps DEF RunInv, Look, Runs!vars
<1>4. CASE Moves
  <2>1. PICK q : Keeps(q) /\ stack' = <<q>> \o Tail(stack)
    BY <1>4 DEF Moves
  <2>2. /\ stack' \in Seq(Paths(prog.code)) /\ PathsInStep' /\ NothingLost'
        /\ Todo' = Todo
    BY <1>1, <1>4, <2>1, BecomesKeeps DEF RunInv, Keeps, Moves
  <2>3. RunInv'
    BY <1>1, <1>4, <2>2 DEF RunInv, TypeOK, Moves, Inputs
  <2>4. CASE stuck' = stuck
    BY <1>4, <2>2, <2>3, <2>4 DEF Moves, Runs!vars
  <2>5. CASE stuck' = "left"
    BY <1>1, <1>2, <1>4, <2>2, <2>3, <2>5 DEF Moves, Runs!Next, Runs!Stick
  <2> QED
    BY <1>4, <2>4, <2>5 DEF Moves
<1>5. CASE Hang
  <2>1. UNCHANGED <<prog, stack, explored>> /\ stuck' = "hung"
    BY <1>5 DEF Hang
  <2>2. PathsInStep' /\ NothingLost' /\ Todo' = Todo
    BY <2>1 DEF RunInv, PathsInStep, InStep, NothingLost, Todo, Cube, Inputs
  <2>3. TypeOK'
    BY <2>1 DEF RunInv, TypeOK, Inputs
  <2> QED
    BY <1>1, <1>2, <2>1, <2>2, <2>3 DEF RunInv, Runs!Next, Runs!Stick
<1>6. CASE KillState
  <2>1. /\ stack' = Tail(stack) /\ explored' = explored \cup Cube(Path)
        /\ prog' = prog /\ stuck' = stuck
    BY <1>6 DEF KillState
  <2>2. /\ stack' \in Seq(Paths(prog.code)) /\ PathsInStep' /\ NothingLost'
        /\ Todo' = Todo \ explored'
    BY <1>1, <2>1, KillKeeps DEF RunInv
  <2>3. Cube(Path) \subseteq Inputs
    BY DEF Cube
  <2>4. RunInv'
    BY <2>1, <2>2, <2>3 DEF RunInv, TypeOK, Inputs
  <2>5. /\ Cube(Path) \subseteq Todo /\ Cube(Path) \cap explored = {}
        /\ Cube(Path) # {}
    <3>1. Path = stack[1] /\ 1 \in DOMAIN stack
      BY <1>1, TopPath DEF RunInv
    <3> QED
      BY <1>1, <3>1, PathsHaveInputs, Zenon DEF RunInv, NothingLost, Todo
  <2>6. Runs!Explore
    BY <1>1, <2>1, <2>2, <2>5 DEF Runs!Explore
  <2> QED
    BY <2>4, <2>6 DEF Runs!Next
<1> QED
  BY <1>1, <1>3, <1>4, <1>5, <1>6, KnowledgeMoves, DescriptorMoves, CallMoves DEF Next

(* It holds where nothing changes, and throughout a run.                     *)
LEMMA RunStutter ==
  ASSUME RunInv, UNCHANGED vars
  PROVE  RunInv' /\ UNCHANGED Runs!vars
<1>1. prog' = prog /\ stack' = stack /\ explored' = explored /\ stuck' = stuck
  BY DEF vars
<1>2. TypeOK'
  BY <1>1 DEF RunInv, TypeOK, Inputs
<1>3. PathsInStep'
  BY <1>1 DEF RunInv, PathsInStep, InStep
<1>4. NothingLost' /\ Todo' = Todo
  BY <1>1 DEF RunInv, NothingLost, Todo, Cube, Inputs
<1> QED
  BY <1>1, <1>2, <1>3, <1>4 DEF RunInv, Runs!vars

(* The invariant holds in every state of a run.                              *)
LEMMA RunInvariant == Spec => []RunInv
<1>1. RunInv /\ [Next]_vars => RunInv'
  BY RunStep, RunStutter
<1> QED
  BY <1>1, RunInit, PTL DEF Spec

(* Every path is inside its program and its descriptors inside the table.    *)
THEOREM PathsTyped == Spec => []TypeOK
<1>1. RunInv => TypeOK
  BY DEF RunInv
<1> QED
  BY <1>1, RunInvariant, PTL

(* All the paths are in step with their program.                             *)
THEOREM StayInStep == Spec => []PathsInStep
<1>1. RunInv => PathsInStep
  BY DEF RunInv
<1> QED
  BY <1>1, RunInvariant, PTL

(* Forking neither loses nor repeats an input, whatever the kernel branches  *)
(* on and in whatever order the paths are run to their end.                  *)
THEOREM NoInputLost == Spec => []NothingLost
<1>1. RunInv => NothingLost
  BY DEF RunInv
<1> QED
  BY <1>1, RunInvariant, PTL

(* A run explores its inputs group by group, each once, and forgets none.    *)
THEOREM RunExplores == Spec => Explores
<1>1. Init => Runs!Init
  BY DEF Init, Runs!Init
<1>2. RunInv /\ [Next]_vars => [Runs!Next]_Runs!vars
  BY RunStep, RunStutter
<1> QED
  BY <1>1, <1>2, RunInvariant, PTL DEF Spec, Explores, Runs!Spec
=============================================================================
