---------------------------- MODULE GuestPrograms ----------------------------
(***************************************************************************)
(* The guest programs: each runs inside the machine S2E boots, makes some  *)
(* of the arguments of a system call symbolic and issues the call.  A      *)
(* program is the sequence of its steps that S2E, or the descriptor table  *)
(* of the process, can tell apart; buffers, addresses and messages are     *)
(* left out.  A call lists every argument that some variant of the         *)
(* program makes symbolic: an argument that is concrete where the call is  *)
(* reached plays no part in it.                                            *)
(***************************************************************************)
EXTENDS Naturals, Sequences

(***************************************************************************)
(* Steps.  op says what the step does, fd which descriptor variable it     *)
(* reads or assigns, args which variables it is given, in the order they   *)
(* are looked at.                                                          *)
(***************************************************************************)
Step(op, fd, args) == [op |-> op, fd |-> fd, args |-> args]

Enable          == Step("enable",   "none", <<>>)
Disable         == Step("disable",  "none", <<>>)
Symbolic(vs)    == Step("symbolic", "none", vs)
Example(vs)     == Step("example",  "none", vs)
Kill            == Step("kill",     "none", <<>>)
Leave           == Step("leave",    "none", <<>>)   \* the process ends; its path does not
Branch(vs)      == Step("branch",   "none", vs)     \* an if that both sides come back from
Guard(vs)       == Step("guard",    "none", vs)     \* if (v1 < 100 && ...) before one call
Open(d, vs)     == Step("open",     d, vs)          \* d = open(...), creat(...), socket(...)
OpenOrExit(d)   == Step("openexit", d, <<>>)        \* d = open(...); if (d == -1) exit(0)
Close(d, vs)    == Step("close",    d, vs)
Dup(d)          == Step("dup",      d, <<>>)        \* dup_fd = dup(d)
Dup2(d, vs)     == Step("dup2",     d, vs)          \* dup2(d, dup2_fd)
Fcntl(d, vs)    == Step("fcntl",    d, vs)
Call(d, vs)     == Step("call",     d, vs)
Checked(vs)     == Step("checked",  "none", vs)     \* a call whose failure ends the process
Overrun(d, vs)  == Step("overrun",  d, vs)          \* a call told of more memory than there is

\* The calls of s2e_make_symbolic that this variant has not commented out.
Symbolics(vs, sym) ==
  LET chosen == SelectSeq(vs, LAMBDA v : v \in sym)
  IN  IF chosen = <<>> THEN <<>> ELSE <<Symbolic(chosen)>>

Program(name, code) == [name |-> name, code |-> code]

-----------------------------------------------------------------------------
\* Mutant: main returns without s2e_kill_state.
SendMsgReturns(name, fields) ==
  Program(name,
    << Open("s", <<>>), Call("s", <<>>), Enable >> \o
    (IF fields = <<>> THEN <<>> ELSE <<Symbolic(fields)>>) \o
    << Call("s", fields), Disable, Leave >>)

(***************************************************************************)
(* sendmsg-detail and socket/sendmsg-*: a connected datagram socket, its   *)
(* message header built, forking enabled, the named fields made symbolic,  *)
(* and one sendmsg.                                                        *)
(***************************************************************************)
SendMsg(name, fields) ==
  Program(name,
    << Open("s", <<>>), Call("s", <<>>), Enable >> \o
    (IF fields = <<>> THEN <<>> ELSE <<Symbolic(fields)>>) \o
    << Call("s", fields), Disable, Kill >>)

one_1 == SendMsg("one/1", <<"flags">>)
one_2 == SendMsg("one/2", <<"msg_namelen">>)
one_3 == SendMsg("one/3", <<>>)
one_4 == SendMsg("one/4", <<"msg_iovlen">>)
one_5 == SendMsg("one/5", <<"msg_flags">>)
one_6 == SendMsg("one/6", <<"cmsg_len">>)
one_7 == SendMsg("one/7", <<"cmsg_level">>)
one_8 == SendMsg("one/8", <<"cmsg_type">>)
one_9 == SendMsg("one/9", <<"iov_len">>)

two_1_2 == SendMsg("two/1-2", <<"flags", "msg_namelen">>)
two_1_4 == SendMsg("two/1-4", <<"flags", "msg_iovlen">>)
two_1_6 == SendMsg("two/1-6", <<"flags", "cmsg_len">>)
two_1_7 == SendMsg("two/1-7", <<"flags", "cmsg_level">>)
two_1_8 == SendMsg("two/1-8", <<"flags", "cmsg_type">>)
two_2_4 == SendMsg("two/2-4", <<"msg_namelen", "msg_iovlen">>)
two_2_6 == SendMsg("two/2-6", <<"msg_namelen", "cmsg_len">>)
two_2_7 == SendMsg("two/2-7", <<"msg_namelen", "cmsg_level">>)
two_2_8 == SendMsg("two/2-8", <<"msg_namelen", "cmsg_type">>)
two_4_6 == SendMsg("two/4-6", <<"msg_iovlen", "cmsg_len">>)
two_4_7 == SendMsg("two/4-7", <<"msg_iovlen", "cmsg_level">>)
two_4_8 == SendMsg("two/4-8", <<"msg_iovlen", "cmsg_type">>)
two_6_7 == SendMsg("two/6-7", <<"cmsg_len", "cmsg_level">>)
two_6_8 == SendMsg("two/6-8", <<"cmsg_len", "cmsg_type">>)
two_7_8 == SendMsg("two/7-8", <<"cmsg_level", "cmsg_type">>)
two_6_7_6 == SendMsg("two/6-7/6", <<"cmsg_len">>)

CmsgFields == <<"cmsg_len", "cmsg_level", "cmsg_type">>
Cm2Fields  == <<"cm2_len", "cm2_level", "cm2_type">>

sendmsg_2cm    == SendMsg("sendmsg-2cm", CmsgFields \o Cm2Fields)
sendmsg_2flags == SendMsg("sendmsg-2flags", <<"msg_flags", "flags">>)
sendmsg_2len   == SendMsg("sendmsg-2len", <<"msg_namelen", "msg_iovlen">>)
sendmsg_cm1    == SendMsg("sendmsg-cm1", CmsgFields)
sendmsg_cm2    == SendMsg("sendmsg-cm2", Cm2Fields)
sendmsg_bug    == SendMsg("sendmsg-bug", <<"cmsg">>)   \* its first 100 bytes as one

SendMsgPrograms ==
  { one_1, one_2, one_3, one_4, one_5, one_6, one_7, one_8, one_9,
    two_1_2, two_1_4, two_1_6, two_1_7, two_1_8, two_2_4, two_2_6, two_2_7,
    two_2_8, two_4_6, two_4_7, two_4_8, two_6_7, two_6_8, two_7_8, two_6_7_6,
    sendmsg_2cm, sendmsg_2flags, sendmsg_2len, sendmsg_cm1, sendmsg_cm2,
    sendmsg_bug }

-----------------------------------------------------------------------------
(***************************************************************************)
(* socket/*: the calls on one socket in the order a server would make      *)
(* them.  The program of a call comments out everything after it and makes *)
(* only that call's arguments symbolic, just before the call.              *)
(***************************************************************************)
SocketCall(n) ==
  << Open("s",  <<"socket1", "sockettype", "socket3">>),
     Call("s",  <<"level", "options", "setlen">>),
     Call("s",  <<"alen">>),
     Call("s",  <<"addr_size">>),
     Call("s",  <<"qlen">>),
     Call("s",  <<"addr_size2">>),
     Call("s",  <<"nbytes", "flags">>),
     Call("s",  <<"nbytes2", "flags2", "buf", "clen">>) >>[n]

\* Mutant: the socket is not closed.
SocketEndOpen == << Disable, Kill >>

SocketEnd == << Close("s", <<>>), Disable, Kill >>

SocketTest(name, n, sym, last) ==
  Program(name,
    <<Enable>> \o [i \in 1..(n - 1) |-> SocketCall(i)]
      \o <<Symbolic(sym)>> \o <<last>> \o SocketEnd)

LastCall(name, n) == SocketTest(name, n, SocketCall(n).args, SocketCall(n))

socket     == LastCall("socket", 1)
setsockopt == LastCall("setsockopt", 2)
bind       == LastCall("bind", 3)
connect    == LastCall("connect", 4)
listen     == LastCall("listen", 5)
accept     == LastCall("accept", 6)
send       == LastCall("send", 7)
sendto     == LastCall("sendto", 8)

\* gdbtest makes the same three symbolic, and passes the constants 2 and 12.
setsockopt_gdbtest ==
  SocketTest("gdbtest", 2, SocketCall(2).args, Call("s", <<"setlen">>))

SocketPrograms ==
  { socket, setsockopt, setsockopt_gdbtest, bind, connect, listen, accept,
    send, sendto }

-----------------------------------------------------------------------------
(***************************************************************************)
(* file-rw: every file call in turn on one file; the program of a call     *)
(* makes only the arguments of that call symbolic.  sym is the set of      *)
(* variables it makes symbolic.                                            *)
(***************************************************************************)
\* The call, under the guard the variants with a symbolic length put before it.
Guarded(vs, sym, call) ==
  IF \E i \in DOMAIN vs : vs[i] \in sym THEN <<Guard(vs), call>> ELSE <<call>>

\* dup2_fd is given to dup2 without ever being assigned.
CreatStage(sym) ==
  Symbolics(<<"creat_perm">>, sym) \o
  << Open("creat_fd", <<"creat_perm">>), Dup("creat_fd") >> \o
  Symbolics(<<"dup2_fd">>, sym) \o
  << Dup2("creat_fd", <<"dup2_fd">>),
     Close("creat_fd", <<>>), Close("dup_fd", <<>>),
     Close("dup2_fd", <<"dup2_fd">>) >>

OpenStage(sym) ==
  Symbolics(<<"open_flag", "open_mode">>, sym) \o
  << Open("open_fd", <<"open_flag", "open_mode">>), Close("open_fd", <<>>),
     Open("open_fd", <<"open_flag">>), Close("open_fd", <<>>) >>

\* The fields of fcntl_lock, which travel together, are one variable.
FcntlCalls ==
  << Fcntl("open_fd", <<"fcntl_cmd">>),
     Fcntl("open_fd", <<"fcntl_cmd", "fcntl_arg">>),
     Fcntl("open_fd", <<"fcntl_cmd", "fcntl_lock">>) >>

\* A file opened, one call on it, and the file closed.
RwStage(sym, vs, call) ==
  Symbolics(vs, sym) \o << Open("open_fd", <<>>) >>
    \o Guarded(vs, sym, call) \o << Close("open_fd", <<>>) >>

\* Mutant: the arguments are made symbolic after the call.
PositionedLate(sym, vs, call) ==
  << Open("open_fd", <<>>), call >> \o Symbolics(vs, sym) \o << Close("open_fd", <<>>) >>

\* The same, with the arguments made symbolic once the file is open.
PositionedStage(sym, vs, call) ==
  << Open("open_fd", <<>>) >> \o Symbolics(vs, sym)
    \o Guarded(vs, sym, call) \o << Close("open_fd", <<>>) >>

\* A read whose length a guard bounds by 100 may fill more than its buffer of
\* 10 or 30 bytes.  A count of vectors reaches writev and readv; the length of
\* the vector was copied before the variable it came from is made symbolic.
\* The base program already tells readv of 10 vectors where there is one.
Bounded(sym, v, call, overrun) == IF v \in sym THEN overrun ELSE call

TransferStages(sym) ==
  RwStage(sym, <<"write_len">>, Call("open_fd", <<"write_len">>)) \o
  RwStage(sym, <<"read_len">>,
          Bounded(sym, "read_len", Call("open_fd", <<"read_len">>),
                                   Overrun("open_fd", <<"read_len">>))) \o
  RwStage(sym, <<"writev_iov_len", "writev_cont">>,
          Call("open_fd", <<"writev_cont">>)) \o
  RwStage(sym, <<"readv_iov_len", "readv_cont">>,
          Overrun("open_fd", <<"readv_cont">>)) \o
  PositionedStage(sym, <<"pwrite_count", "pwrite_offset">>,
          Call("open_fd", <<"pwrite_count", "pwrite_offset">>)) \o
  PositionedStage(sym, <<"pread_count", "pread_offset">>,
          Bounded(sym, "pread_count",
                  Call("open_fd", <<"pread_count", "pread_offset">>),
                  Overrun("open_fd", <<"pread_count", "pread_offset">>)))

TruncateStage(sym) ==
  << Open("open_fd", <<>>), Call("open_fd", <<>>) >> \o
  Symbolics(<<"truncate_offset">>, sym) \o
  << Call("open_fd", <<"truncate_offset">>), Close("open_fd", <<>>),
     Open("open_fd", <<>>), Call("open_fd", <<>>), Close("open_fd", <<>>),
     Call("none", <<"truncate_offset">>) >>

FlockStage(sym) ==
  Symbolics(<<"flock_op">>, sym) \o
  << Call("open_fd", <<"flock_op">>), Close("open_fd", <<>>) >>

FileRw(name, sym, fcntl, flockOpen) ==
  Program(name,
    <<Enable>> \o CreatStage(sym) \o OpenStage(sym) \o fcntl
      \o TransferStages(sym) \o TruncateStage(sym)
      \o flockOpen \o FlockStage(sym) \o << Disable, Kill >>)

Plain(name, sym) == FileRw(name, sym, FcntlCalls, << Open("open_fd", <<>>) >>)

file_rw            == Plain("file-rw", {})
creat              == Plain("creat", {"creat_perm"})
dup_dup2           == Plain("dup&dup2", {"dup2_fd"})
open               == Plain("open", {"open_flag", "open_mode"})
flock              == Plain("flock", {"flock_op"})
read_write         == Plain("read&write", {"write_len", "read_len"})
readv_writev       == Plain("readv&writev", {"writev_iov_len", "writev_cont",
                                             "readv_iov_len", "readv_cont"})
pread_pwrite       == Plain("pread&pwrite", {"pwrite_count", "pwrite_offset",
                                             "pread_count", "pread_offset"})
truncate_ftruncate == Plain("truncate&ftruncate", {"truncate_offset"})

\* Mutant: the file is not opened again for fcntl.
fcntl_closed ==
  FileRw("fcntl", {},
         << Symbolic(<<"fcntl_cmd", "fcntl_arg", "fcntl_lock">>) >> \o FcntlCalls,
         << Open("open_fd", <<>>) >>)

\* The only variant in which fcntl works on an open file.
fcntl ==
  FileRw("fcntl", {},
         << Symbolic(<<"fcntl_cmd", "fcntl_arg", "fcntl_lock">>),
            Open("open_fd", <<>>) >> \o FcntlCalls \o << Close("open_fd", <<>>) >>,
         << Open("open_fd", <<>>) >>)

open_flock ==
  FileRw("open&flock", {"flock_op"}, FcntlCalls,
         << Symbolic(<<"open_flag">>), Open("open_fd", <<"open_flag">>) >>)

FileRwPrograms ==
  { file_rw, creat, dup_dup2, open, flock, read_write, readv_writev,
    pread_pwrite, truncate_ftruncate, fcntl, open_flock }

-----------------------------------------------------------------------------
\* mmap: mmap.c would close its file only after s2e_kill_state.
MmapArgs == << "length", "prot", "flags", "offset" >>

MmapBody ==
  << OpenOrExit("fd"), Enable, Symbolic(MmapArgs), Call("fd", MmapArgs),
     Call("stdout", <<"length">>), Disable >>

mmap     == Program("mmap", MmapBody \o << Kill >>)
mmap_sym == Program("mmap-sym", MmapBody \o << Close("fd", <<>>), Kill >>)

\* test.c branches on two characters itself and prints an example of each path.
test ==
  Program("test", << Enable, Symbolic(<<"str0", "str1">>),
                     Branch(<<"str0", "str1">>), Disable,
                     Example(<<"str0", "str1">>), Kill >>)

-----------------------------------------------------------------------------
(***************************************************************************)
(* LTP programs with s2e calls added.  Their setup, and some calls, are    *)
(* checked: a failure ends the process (tst_brkm).                         *)
(***************************************************************************)
Setup == Checked(<<>>)

\* The usual form: reboot01 makes its flag symbolic and issues one call.
reboot01 ==
  Program("reboot01", << Setup, Enable, Symbolic(<<"flag">>), Call("none", <<"flag">>),
                         Disable, Kill >>)

\* access01 goes through its four modes before its paths are ended.
AccessMode(m) == << Enable, Symbolic(<<m>>), Call("none", <<m>>) >>

access01 ==
  Program("access01",
    << Setup >> \o AccessMode("F_OK") \o AccessMode("X_OK") \o AccessMode("W_OK")
      \o AccessMode("R_OK") \o << Disable, Kill >>)

\* A failure of acct on a symbolic file name is taken for the end of the test.
acct01 ==
  Program("acct01", << Setup, Enable, Symbolic(<<"tmpbuf">>), Checked(<<"tmpbuf">>),
                       Disable, Kill >>)

\* What confstr and mallopt are given is tested by the C library alone; the
\* variable of memcmp01, whose setup cannot fail, is no argument of anything.
confstr01 ==
  Program("confstr01", << Setup, Enable, Symbolic(<<"confstr_var_vals">>),
                          Branch(<<"confstr_var_vals">>), Disable, Kill >>)

mallopt01 ==
  Program("mallopt01", << Setup, Enable, Symbolic(<<"a", "b">>), Branch(<<"a", "b">>),
                          Disable, Kill >>)

memcmp01 == Program("memcmp01", << Enable, Symbolic(<<"xyj">>), Disable, Kill >>)

\* The child of exit01 exits with a symbolic status and its parent compares it.
exit01 ==
  Program("exit01", << Enable, Symbolic(<<"exno">>), Call("none", <<"exno">>),
                       Branch(<<"exno">>), Leave >>)

\* s2e_make_symbolic touches what it is told of: the processes that give it the
\* null args[1], the bad address of the first case of bind01 or the number
\* BUFSIZ end there, with forking enabled.
Execs(name) == Program(name, << Setup, Enable, Symbolic(<<"args0">>), Leave >>)

execve01 == Execs("execve01")
execv01  == Execs("execv01")
execvp01 == Execs("execvp01")
bind01   == Program("bind01", << Setup, Enable, Leave >>)
llseek01 == Program("llseek01", << Setup, Enable, Leave >>)

\* The programs with no s2e_kill_state on their way.
EarlyLeavers == { exit01, execve01, execv01, execvp01, bind01, llseek01 }

SyscallPrograms ==
  EarlyLeavers \cup { reboot01, access01, acct01, confstr01, mallopt01, memcmp01 }

OtherPrograms == { mmap, mmap_sym, test }

Catalogue ==
  SendMsgPrograms \cup SocketPrograms \cup FileRwPrograms \cup OtherPrograms
    \cup SyscallPrograms
=============================================================================
