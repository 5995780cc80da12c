--------------------------- MODULE TemplateProofs ----------------------------
(***************************************************************************)
(* What holds of every program made from a template of the catalogue,      *)
(* whichever variables it makes symbolic: also of the variants nobody has  *)
(* written yet.                                                            *)
(***************************************************************************)
EXTENDS TestDiscipline, SequenceTheorems, TLAPS

(***************************************************************************)
(* The steps of a sendmsg program that makes something symbolic.           *)
(***************************************************************************)
LEMMA SendMsgCode ==
  ASSUME NEW name, NEW V, NEW fields \in Seq(V), fields # <<>>
  PROVE  LET code == SendMsg(name, fields).code
         IN  /\ Len(code) = 7 /\ DOMAIN code = 1..7
             /\ code[1] = Step("open", "s", <<>>)
             /\ code[2] = Step("call", "s", <<>>)
             /\ code[3] = Step("enable", "none", <<>>)
             /\ code[4] = Step("symbolic", "none", fields)
             /\ code[5] = Step("call", "s", fields)
             /\ code[6] = Step("disable", "none", <<>>)
             /\ code[7] = Step("kill", "none", <<>>)
<1> DEFINE setup == << Step("open", "s", <<>>), Step("call", "s", <<>>),
                       Step("enable", "none", <<>>) >>
           chosen == << Step("symbolic", "none", fields) >>
           rest == << Step("call", "s", fields), Step("disable", "none", <<>>),
                      Step("kill", "none", <<>>) >>
           first == setup \o chosen
           code == first \o rest
           S == { setup[1], setup[2], setup[3], chosen[1], rest[1], rest[2], rest[3] }
<1>1. SendMsg(name, fields).code = code
  BY DEF SendMsg, Program, Open, Call, Enable, Symbolic, Disable, Kill
<1>2. /\ setup[1] = Step("open", "s", <<>>) /\ setup[2] = Step("call", "s", <<>>)
      /\ setup[3] = Step("enable", "none", <<>>)
      /\ chosen[1] = Step("symbolic", "none", fields)
      /\ rest[1] = Step("call", "s", fields) /\ rest[2] = Step("disable", "none", <<>>)
      /\ rest[3] = Step("kill", "none", <<>>)
  OBVIOUS
<1>3. /\ setup \in Seq(S) /\ Len(setup) = 3
      /\ chosen \in Seq(S) /\ Len(chosen) = 1
      /\ rest \in Seq(S) /\ Len(rest) = 3
  OBVIOUS
<1> HIDE DEF setup, chosen, rest, S
<1>4. /\ first \in Seq(S)
      /\ Len(first) = Len(setup) + Len(chosen)
      /\ \A i \in 1..(Len(setup) + Len(chosen)) :
           first[i] = IF i <= Len(setup) THEN setup[i] ELSE chosen[i - Len(setup)]
  BY ONLY <1>3, ConcatProperties, Zenon
<1> HIDE DEF first
<1>5. /\ code \in Seq(S)
      /\ Len(code) = Len(first) + Len(rest)
      /\ \A i \in 1..(Len(first) + Len(rest)) :
           code[i] = IF i <= Len(first) THEN first[i] ELSE rest[i - Len(first)]
  <2>1. first \in Seq(S) /\ rest \in Seq(S)
    BY <1>3, <1>4
  <2> QED
    BY <2>1, ConcatProperties, Zenon
<1> HIDE DEF code
<1>6. /\ code[1] = setup[1] /\ code[2] = setup[2] /\ code[3] = setup[3]
      /\ code[4] = chosen[1]
      /\ code[5] = rest[1] /\ code[6] = rest[2] /\ code[7] = rest[3]
      /\ Len(code) = 7 /\ DOMAIN code = 1..7
  BY <1>3, <1>4, <1>5
<1> QED
  BY <1>1, <1>2, <1>6

(***************************************************************************)
(* Every variant of sendmsg is a well-formed program: forking is on when   *)
(* the kernel looks at its fields, they are made symbolic once, and it     *)
(* ends in s2e_kill_state.                                                 *)
(***************************************************************************)
THEOREM SendMsgWellFormed ==
  ASSUME NEW name, NEW V, NEW fields \in Seq(V), fields # <<>>
  PROVE  WellFormed(SendMsg(name, fields).code)
<1> DEFINE code == SendMsg(name, fields).code
<1>0. /\ Len(code) = 7 /\ DOMAIN code = 1..7
      /\ code[1] = Step("open", "s", <<>>) /\ code[2] = Step("call", "s", <<>>)
      /\ code[3] = Step("enable", "none", <<>>)
      /\ code[4] = Step("symbolic", "none", fields)
      /\ code[5] = Step("call", "s", fields)
      /\ code[6] = Step("disable", "none", <<>>)
      /\ code[7] = Step("kill", "none", <<>>)
  BY SendMsgCode
<1> HIDE DEF code
<1>1. /\ Len(code) = 7 /\ DOMAIN code = 1..7
      /\ code[1].op = "open" /\ code[2].op = "call" /\ code[3].op = "enable"
      /\ code[4].op = "symbolic" /\ code[5].op = "call" /\ code[6].op = "disable"
      /\ code[7].op = "kill"
      /\ ArgSet(code[1]) = {} /\ ArgSet(code[2]) = {}
  BY <1>0 DEF Step, ArgSet
<1>e. code # <<>>
  <2>1. Len(<<>>) = 0
    OBVIOUS
  <2>2. Len(code) # 0
    BY <1>1
  <2> QED
    BY <2>1, <2>2, Zenon
<1>2. ForkingAt(code, 5)
  BY <1>1 DEF ForkingAt
<1>3. SymbolicBefore(code, 4) = {}
  BY <1>1 DEF SymbolicBefore
<1>4. \A i \in 1..7 : code[i].op \in Ops
  BY <1>1 DEF Ops
<1>5. \A i \in 1..7 : code[i].op \in Looking => i \in {1, 2, 5}
  BY <1>1 DEF Looking
<1>6. \A i \in 1..7 : code[i].op # "guard" /\ (code[i].op = "symbolic" => i = 4)
  BY <1>1
<1>7. WellFormed(code)
  BY <1>1, <1>e, <1>2, <1>3, <1>4, <1>5, <1>6 DEF WellFormed
<1> QED
  BY <1>7 DEF code

(***************************************************************************)
(* And a disciplined one, as far as a program that closes nothing can be:  *)
(* its call with symbolic fields works on the socket it opened, is given   *)
(* every field made symbolic, and its path is killed.                      *)
(***************************************************************************)
THEOREM SendMsgDisciplined ==
  ASSUME NEW name, NEW V, NEW fields \in Seq(V), fields # <<>>
  PROVE  LET c == SendMsg(name, fields)
         IN  LeavesEarly(c) /\ GivesAll(c) /\ WorksOnOpen(c)
<1> DEFINE c == SendMsg(name, fields)
           code == c.code
<1>0. /\ Len(code) = 7 /\ DOMAIN code = 1..7
      /\ code[1] = Step("open", "s", <<>>) /\ code[2] = Step("call", "s", <<>>)
      /\ code[3] = Step("enable", "none", <<>>)
      /\ code[4] = Step("symbolic", "none", fields)
      /\ code[5] = Step("call", "s", fields)
      /\ code[6] = Step("disable", "none", <<>>)
      /\ code[7] = Step("kill", "none", <<>>)
  BY SendMsgCode
<1> HIDE DEF c
<1>1. /\ Len(code) = 7 /\ DOMAIN code = 1..7
      /\ code[1].op = "open" /\ code[2].op = "call" /\ code[3].op = "enable"
      /\ code[4].op = "symbolic" /\ code[5].op = "call" /\ code[6].op = "disable"
      /\ code[7].op = "kill"
      /\ code[1].fd = "s" /\ code[5].fd = "s"
      /\ ArgSet(code[2]) = {} /\ ArgSet(code[4]) = ArgSet(code[5])
  BY <1>0 DEF Step, ArgSet
<1>2. LeavesEarly(c)
  BY <1>1 DEF LeavesEarly
<1>3. SymbolicVars(code) = ArgSet(code[5])
  <2>1. {j \in DOMAIN code : code[j].op = "symbolic"} = {4}
    BY <1>1
  <2> QED
    BY <2>1, <1>1 DEF SymbolicVars
<1>4. Lasting(code) = ArgSet(code[5])
  <2>1. {j \in DOMAIN code : code[j].op = "example"} = {}
    BY <1>1
  <2> QED
    BY <2>1, <1>3 DEF Lasting
<1>5. SymbolicBefore(code, 5) = ArgSet(code[5])
  <2>1. {j \in 1..(5 - 1) : code[j].op = "symbolic"} = {4}
    BY <1>1
  <2> QED
    BY <2>1, <1>1 DEF SymbolicBefore
<1>6. Given(code, 7) = ArgSet(code[5])
  <2>1. 5 \in {j \in 1..(7 - 1) : code[j].op \in InKernel}
    BY <1>1 DEF InKernel, Looking
  <2> QED
    BY <2>1, <1>4, <1>5 DEF Given
<1>7. GivesAll(c)
  BY <1>1, <1>3, <1>6 DEF GivesAll
<1>8. Attached(code, 5, "s")
  BY <1>1 DEF Attached, FdVar
<1>9. WorksOnOpen(c)
  <2>1. \A i \in 1..7 : code[i].op \in {"fcntl", "call", "overrun"} => i \in {2, 5}
    BY <1>1
  <2> QED
    BY <2>1, <1>1, <1>8 DEF WorksOnOpen
<1> QED
  BY <1>2, <1>7, <1>9 DEF c
=============================================================================
