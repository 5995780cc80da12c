----------------------------- MODULE GuestTests ------------------------------
(***************************************************************************)
(* The guest programs of the catalogue under S2E: what a test has to be    *)
(* for its run to mean something.                                          *)
(***************************************************************************)
EXTENDS GuestPaths, GuestPrograms

\* A call that is given a symbolic argument works on a descriptor that is open,
\* unless the open before it failed: on a closed one the kernel answers EBADF
\* and the symbolic argument is never looked at.
OnLiveDescriptor ==
  \A i \in DOMAIN stack :
    LET p == stack[i]
        s == StepAt(p)
    IN  ( /\ s.op \in {"fcntl", "call", "overrun"}
          /\ s.fd # "none"
          /\ SymbolicArgs(p, s) # {}
          /\ p.sound )
        => p.fd[s.fd] \in p.open

\* The programs that close what they open.  fcntl may be told to duplicate its
\* descriptor; mmap is killed before its close, as sendmsg is without one.
Closing == (FileRwPrograms \ {fcntl}) \cup SocketPrograms \cup {mmap_sym}

\* A path of a closing program ends with no descriptor but standard ones.
DescriptorsReturned ==
  \A i \in DOMAIN stack :
    LET p == stack[i]
    IN  prog \in Closing /\ StepAt(p).op = "kill" /\ p.sound => p.open \subseteq Std

\* The variables that are made symbolic and never reach a system call: the
\* lengths copied into the vectors beforehand, the two arguments gdbtest
\* replaces by constants, what test.c and the C library test themselves, and
\* a variable of memcmp01 that nothing reads.
StaleIn(c) ==
  IF c = readv_writev THEN {"writev_iov_len", "readv_iov_len"}
  ELSE IF c = setsockopt_gdbtest THEN {"level", "options"}
  ELSE IF c = test THEN {"str0", "str1"}
  ELSE IF c \in {confstr01, mallopt01, memcmp01} THEN SymbolicVars(c.code)
  ELSE {}

Stale == StaleIn(prog)

\* On every path that comes to its end, each variable made symbolic was given
\* to a system call or kept from it by a guard: otherwise the test forks over
\* values that test nothing.
SymbolicReaches ==
  \A i \in DOMAIN stack :
    StepAt(stack[i]).op = "kill"
      => SymbolicVars(prog.code) \ stack[i].met \subseteq Stale

\* A program that leaves the machine idle is one of the LTP programs that end
\* before their s2e_kill_state, or one in which an open or a checked call
\* failed or memory was overrun.
LeavesExplained ==
  stuck = "left" => ~Head(stack).sound \/ prog \in EarlyLeavers
=============================================================================
