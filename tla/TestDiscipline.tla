--------------------------- MODULE TestDiscipline ----------------------------
(***************************************************************************)
(* What the code of a guest program has to be like, read from top to       *)
(* bottom and without running it, for its tests to mean something; and     *)
(* what then holds of its paths between any two steps.                     *)
(***************************************************************************)
EXTENDS GuestTests

\* The variables made symbolic that no s2e_get_example makes concrete again.
Lasting(code) ==
  SymbolicVars(code) \
    UNION {ArgSet(code[i]) : i \in {j \in DOMAIN code : code[j].op = "example"}}

\* Those of them that a call before step i is given.
Given(code, i) ==
  Lasting(code) \cap
    UNION {ArgSet(code[k]) \cap SymbolicBefore(code, k) :
             k \in {j \in 1..(i - 1) : code[j].op \in InKernel}}

\* The descriptor variable d is opened before step i, or is the open stdout,
\* and nothing is closed since.  A guard might skip the open.
Attached(code, i, d) ==
  /\ d \in FdVar \ {"dup2_fd"}
  /\ \E j \in 0..(i - 1) :
       /\ IF j = 0 THEN d = "stdout"
          ELSE /\ code[j].op \in {"open", "openexit"} /\ code[j].fd = d
               /\ j > 1 => code[j - 1].op # "guard"
       /\ \A k \in (j + 1)..(i - 1) : code[k].op # "close"

\* The descriptor variables a step assigns.
Assigned(step) ==
  { d \in FdVar : \/ step.op \in {"open", "openexit"} /\ d = step.fd
                  \/ step.op = "dup" /\ d = "dup_fd"
                  \/ step.op = "dup2" /\ d = "dup2_fd" }

\* The descriptor variables assigned before step i and not closed since.
Held(code, i) ==
  { d \in FdVar : \E j \in 1..(i - 1) :
                    /\ d \in Assigned(code[j])
                    /\ \A k \in (j + 1)..(i - 1) : code[k].op # "close" \/ code[k].fd # d }

-----------------------------------------------------------------------------
\* Only an early leaver has a step that ends the process and not the path.
LeavesEarly(c) ==
  \A i \in DOMAIN c.code : c.code[i].op = "leave" => c \in EarlyLeavers

\* What is made symbolic is given to a call before the path is ended.
GivesAll(c) ==
  \A i \in DOMAIN c.code :
    c.code[i].op = "kill" => SymbolicVars(c.code) \ StaleIn(c) \subseteq Given(c.code, i)

\* A call with a symbolic argument works on a descriptor that is attached.
WorksOnOpen(c) ==
  \A i \in DOMAIN c.code :
    LET s == c.code[i]
    IN  /\ s.op \in {"fcntl", "call", "overrun"} /\ s.fd # "none"
        /\ ArgSet(s) \cap SymbolicBefore(c.code, i) # {}
        => Attached(c.code, i, s.fd)

\* No held descriptor is overwritten or duplicated unseen, and none is held at
\* the end.
ReturnsAll(c) ==
  \A i \in DOMAIN c.code :
    LET s == c.code[i]
    IN  /\ s.op \in {"open", "openexit"} => s.fd \in FdVar
        /\ Assigned(s) \cap Held(c.code, i) = {}
        /\ s.op = "kill" => Held(c.code, i) = {}
        /\ s.op = "fcntl" => "fcntl_cmd" \notin SymbolicVars(c.code)

Disciplined(c) ==
  /\ LeavesEarly(c) /\ GivesAll(c) /\ WorksOnOpen(c)
  /\ c \in Closing => ReturnsAll(c)

\* The programs of the repository are.
ASSUME CatalogueAssumption ==
  /\ Programs \subseteq Catalogue
  /\ \A c \in Catalogue : Disciplined(c)

-----------------------------------------------------------------------------
Known(p) == p.raw \cup p.low \cup p.high

\* A path knows of every lasting variable made symbolic before, and its calls
\* were given what its code gives them.
MetInStep(p) ==
  /\ Lasting(prog.code) \cap SymbolicBefore(prog.code, p.at) \subseteq Known(p)
  /\ Given(prog.code, p.at) \subseteq p.met

\* While no open has failed, an attached variable holds an open descriptor.
LiveInStep(p) ==
  p.sound => \A d \in FdVar : Attached(prog.code, p.at, d) => p.fd[d] \in p.open

\* Nor has a closing program a descriptor open that no variable holds.
HeldInStep(p) ==
  p.sound /\ prog \in Closing
    => p.open \subseteq Std \cup {p.fd[d] : d \in Held(prog.code, p.at)}

TestsInStep ==
  \A i \in DOMAIN stack :
    MetInStep(stack[i]) /\ LiveInStep(stack[i]) /\ HeldInStep(stack[i])
=============================================================================
