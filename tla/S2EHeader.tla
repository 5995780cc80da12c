------------------------------ MODULE S2EHeader -------------------------------
(***************************************************************************)
(* s2e.h, the interface of a guest program (and, cut down, of the kernel)  *)
(* to S2E.  A function reads its strings and buffers, so that their pages  *)
(* are in memory, and executes an opcode S2E takes over; S2E cannot page   *)
(* memory in by itself.  Three functions do more: _s2e_assert, s2e_range   *)
(* and s2e_get_module_info.                                                *)
(***************************************************************************)
EXTENDS Integers, Sequences, FiniteSets

CONSTANTS Pages,      \* pages of the program, 1..Pages
          MaxSpan,    \* the most pages a buffer spans
          IntMax,     \* the largest int
          Names,      \* names of modules
          MaxLines    \* the most lines of /proc/self/maps

None == "none"

ASSUME HeaderAssumption ==
  /\ Pages \in Nat /\ MaxLines \in Nat
  /\ MaxSpan \in Nat \ {0}
  /\ IntMax \in Nat
  /\ None \notin Names

VARIABLES present,    \* the pages in memory
          call,       \* the function that has not executed its opcode yet
          unread,     \* the pages it has still to read
          gone,       \* those it has read that went out again
          switch,     \* what the opcodes have switched on
          alive,      \* whether the path has not been killed
          range,      \* the s2e_range of the program
          info        \* its s2e_get_module_info

callVars == <<call, unread, gone>>
vars == <<present, call, unread, gone, switch, alive, range, info>>

-----------------------------------------------------------------------------
(***************************************************************************)
(* Functions.  A string or a buffer is the set of pages it spans, {} for a *)
(* buffer of no bytes; a function is the name of its opcode, the pages it  *)
(* reads beforehand, and the pages of the strings and of the buffers that  *)
(* S2E goes to.                                                            *)
(***************************************************************************)
Strings == {lo..hi : lo, hi \in 1..Pages} \ {{}}
Buffers == {b \in {lo..hi : lo, hi \in 1..Pages} : Cardinality(b) <= MaxSpan}

\* Mutant: the first character only.
touch_first(string) == {i \in string : \A j \in string : i <= j}

\* Every character up to the end of the string.
touch_string(string) == string

\* Mutant: the byte after the last is read.
touch_after(buf) == {i + 1 : i \in {k \in buf : \A j \in buf : j <= k}}

\* The first byte, as often as there are bytes.
touch_buffer(buf) == {i \in buf : \A j \in buf : i <= j}

Fn(op, reads, strings, buffers) ==
  [op |-> op, reads |-> reads, strings |-> strings, buffers |-> buffers]
Plain(op) == Fn(op, {}, {}, {})
OnString(op, s) == Fn(op, touch_string(s), s, {})
OnBuffer(op, b) == Fn(op, touch_buffer(b), {}, b)
OnNamedBuffer(op, b, name) == Fn(op, touch_string(name) \cup touch_buffer(b), name, b)

s2e_version          == Plain("version")
s2e_message(m)       == OnString("message", m)
s2e_warning(m)       == OnString("warning", m)
s2e_print_expression(name) == OnString("print_expression", name)
s2e_enable_forking   == Plain("enable_forking")
s2e_disable_forking  == Plain("disable_forking")
s2e_get_path_id      == Plain("get_path_id")

s2e_make_symbolic(buf, name) == OnNamedBuffer("make_symbolic", buf, name)
s2e_make_concolic(buf, name) == OnNamedBuffer("make_concolic", buf, name)

\* One byte is read and one byte is asked about.
s2e_is_symbolic(byte)  == OnBuffer("is_symbolic", byte)
s2e_concretize(buf)    == OnBuffer("concretize", buf)
s2e_get_example(buf)   == OnBuffer("get_example", buf)

\* The value was just stored in a variable on the stack.
s2e_get_example_uint(local) == Fn("get_example", local, {}, local)

s2e_kill_state(m) == OnString("kill_state", m)

s2e_disable_timer_interrupt     == Plain("disable_timer_interrupt")
s2e_enable_timer_interrupt      == Plain("enable_timer_interrupt")
s2e_disable_all_apic_interrupts == Plain("disable_all_apic_interrupts")
s2e_enable_all_apic_interrupts  == Plain("enable_all_apic_interrupts")
s2e_get_ram_object_bits         == Plain("get_ram_object_bits")
s2e_merge_point                 == Plain("merge_point")

s2e_open(fname)     == OnString("open", fname)
s2e_close           == Plain("close")
s2e_read(buf)       == OnBuffer("read", buf)

s2e_rawmon_loadmodule(name) == OnString("loadmodule", name)

\* cfg is filled in on the stack, and its address and that of the name passed.
s2e_rawmon_loadmodule2(name, cfg) ==
  Fn("loadmodule2", cfg \cup touch_string(name), name, cfg)

s2e_codeselector_enable_address_space  == Plain("enable_address_space")
s2e_codeselector_disable_address_space == Plain("disable_address_space")
s2e_codeselector_select_module(id) == OnString("select_module", id)

s2e_moduleexec_add_module(id, name) ==
  Fn("add_module", touch_string(id) \cup touch_string(name), id \cup name, {})

\* The kernel's opcode, which compares two results of one size.
s2e_detect_int(buf1, buf2) ==
  Fn("detect_int", touch_buffer(buf1) \cup touch_buffer(buf2), {}, buf1 \cup buf2)

Locals == {{i} : i \in 1..Pages}

WithoutMemory ==
  { s2e_version, s2e_enable_forking, s2e_disable_forking, s2e_get_path_id,
    s2e_disable_timer_interrupt, s2e_enable_timer_interrupt,
    s2e_disable_all_apic_interrupts, s2e_enable_all_apic_interrupts,
    s2e_get_ram_object_bits, s2e_merge_point, s2e_close,
    s2e_codeselector_enable_address_space,
    s2e_codeselector_disable_address_space }

OfString(s) == { s2e_message(s), s2e_warning(s), s2e_print_expression(s),
                 s2e_kill_state(s), s2e_open(s), s2e_rawmon_loadmodule(s),
                 s2e_codeselector_select_module(s) }
OfStrings(s, t) == {s2e_rawmon_loadmodule2(s, t), s2e_moduleexec_add_module(s, t)}
OfBuffer(b) == {s2e_concretize(b), s2e_get_example(b), s2e_read(b)}
OfLocal(l) == {s2e_is_symbolic(l), s2e_get_example_uint(l)}
OfNamedBuffer(b, s) == {s2e_make_symbolic(b, s), s2e_make_concolic(b, s)}

Functions ==
  WithoutMemory
  \cup (UNION {OfString(s) : s \in Strings})
  \cup (UNION {OfStrings(s, t) : s, t \in Strings})
  \cup (UNION {OfBuffer(b) : b \in Buffers})
  \cup (UNION {OfLocal(l) : l \in Locals})
  \cup (UNION {OfNamedBuffer(b, s) : b \in Buffers, s \in Strings})
  \cup {s2e_detect_int(b, c) : b, c \in Buffers}

-----------------------------------------------------------------------------
(***************************************************************************)
(* One call.                                                               *)
(***************************************************************************)
\* No call, no range and no request for a module are under way.
Idle    == Plain("none")
NoRange == [on |-> FALSE, start |-> 0, end |-> 0, values |-> {}]
NoInfo  == [on |-> FALSE]

Ints  == (-IntMax - 1)..IntMax

\* What an opcode turns on and what another turns off again.
SwitchOn  == [ forking |-> "enable_forking", timer |-> "enable_timer_interrupt",
               apic |-> "enable_all_apic_interrupts",
               selected |-> "enable_address_space" ]
SwitchOff == [ forking |-> "disable_forking", timer |-> "disable_timer_interrupt",
               apic |-> "disable_all_apic_interrupts",
               selected |-> "disable_address_space" ]
Switches == DOMAIN SwitchOn

Init ==
  /\ present \in SUBSET (1..Pages)
  /\ call = Idle /\ unread = {} /\ gone = {}
  /\ switch = [s \in Switches |-> s \in {"timer", "apic"}]
  /\ alive = TRUE
  /\ range = NoRange
  /\ info = NoInfo

Free == alive /\ call = Idle /\ ~range.on /\ ~info.on

\* f is called: it has everything still to read.
Begin(f) == call' = f /\ unread' = f.reads /\ gone' = {}

Enter ==
  /\ Free
  /\ \E f \in Functions : Begin(f)
  /\ UNCHANGED <<present, switch, alive, range, info>>

\* A read of a page that is out faults, and the guest's kernel pages it in.
Touch ==
  /\ \E i \in unread : present' = present \cup {i} /\ unread' = unread \ {i}
  /\ UNCHANGED <<call, gone, switch, alive, range, info>>

\* The opcode, once everything to be read beforehand was.
Opcode ==
  /\ call # Idle /\ unread = {}
  /\ switch' = [s \in Switches |-> \/ call.op = SwitchOn[s]
                                   \/ switch[s] /\ call.op # SwitchOff[s]]
  /\ alive' = (call.op # "kill_state")
  /\ Begin(Idle)
  /\ UNCHANGED <<present, range, info>>

\* The guest's kernel takes a page away: between two calls, or during one.
PageOut ==
  /\ alive
  /\ \E i \in present :
       /\ present' = present \ {i}
       /\ gone' = gone \cup ({i} \cap (call.reads \ unread))
  /\ UNCHANGED <<call, unread, switch, alive, range, info>>

\* _s2e_assert of an expression that is false.
s2e_assert ==
  /\ Free
  /\ \E expression \in Strings : Begin(s2e_kill_state(expression))
  /\ UNCHANGED <<present, switch, alive, range, info>>

-----------------------------------------------------------------------------
(***************************************************************************)
(* s2e_range(start, end, name): x is made symbolic and the paths on which  *)
(* it is not in the range are killed.  values is what x can be where the   *)
(* function returns.                                                       *)
(***************************************************************************)
Unsigned(x) == x % (2 * (IntMax + 1))

RangeCall(start, end, values) ==
  [on |-> TRUE, start |-> start, end |-> end, values |-> values]

\* Mutant: the comparison for start = 0 is signed.
KeptSigned(start, end) ==
  IF start = 0 THEN {x \in Ints : x < end}
  ELSE {x \in Ints : start <= x /\ x < end}

\* The values on which the function does not kill the path.
Kept(start, end) ==
  IF start = 0 THEN {x \in Ints : Unsigned(x) < Unsigned(end)}
  ELSE {x \in Ints : start <= x /\ x < end}

s2e_range ==
  /\ Free
  /\ \E start, end \in Ints, local \in Locals, s \in Strings :
       IF start >= end
       THEN /\ range' = RangeCall(start, end, {})
            /\ Begin(s2e_kill_state(s))
       ELSE IF start + 1 = end
       THEN /\ range' = RangeCall(start, end, {start})
            /\ UNCHANGED callVars
       ELSE /\ range' = RangeCall(start, end, {})
            /\ Begin(s2e_make_symbolic(local, s))
  /\ UNCHANGED <<present, switch, alive, info>>

\* x is compared: a path for each outcome when forking is on, otherwise the
\* outcome for one value that x gets there.
Constrain ==
  /\ alive /\ call = Idle /\ range.on /\ range.values = {}
  /\ LET kept == Kept(range.start, range.end)
     IN  \/ /\ \/ switch["forking"] /\ range' = [range EXCEPT !.values = kept]
               \/ /\ ~switch["forking"]
                  /\ \E x \in kept : range' = [range EXCEPT !.values = {x}]
            /\ UNCHANGED callVars
         \/ /\ Ints \ kept # {}
            /\ \E s \in Strings : Begin(s2e_kill_state(s))
            /\ UNCHANGED range
  /\ UNCHANGED <<present, switch, alive, info>>

RangeReturns ==
  /\ range.on /\ range.values # {}
  /\ range' = NoRange
  /\ UNCHANGED <<present, callVars, switch, alive, info>>

-----------------------------------------------------------------------------
(***************************************************************************)
(* s2e_get_module_info(moduleToRetrieve, name, ...): the lines of          *)
(* /proc/self/maps one after the other.  A mapping is whether it is        *)
(* executable, whether it has a path, and which names its path contains.   *)
(* The module asked for is null, or a name with or without a directory;    *)
(* junk is what the output buffer name held before the call.               *)
(***************************************************************************)
Mappings == [exec : BOOLEAN, named : {TRUE}, has : SUBSET Names]
              \cup [exec : BOOLEAN, named : {FALSE}, has : {{}}]
Maps == UNION {[1..n -> Mappings] : n \in 0..MaxLines}
Modules == [given : {TRUE}, slash : BOOLEAN, base : Names]
             \cup {[given |-> FALSE, slash |-> FALSE, base |-> None]}

\* Mutant: the name is never looked for a slash.
ModNameJunk(module, junk) == IF module.given THEN junk ELSE None

ModName(module, junk) ==
  IF ~module.given THEN None ELSE IF module.slash THEN module.base ELSE junk

\* Mutant: the permissions of the mapping are not looked at.
TakenAny(m, modName) == m.named /\ (modName # None => modName \in m.has)

\* Whether the loop stops at the line.  executable is 'x' or '-', never 0.
Taken(m, modName) ==
  m.named /\ (modName # None => m.exec /\ modName \in m.has)

s2e_get_module_info ==
  /\ Free
  /\ \E module \in Modules, junk \in Names, maps \in Maps :
       info' \in { [on |-> TRUE, module |-> module, modName |-> ModName(module, junk),
                    maps |-> maps, line |-> 1, found |-> FALSE,
                    opened |-> o, open |-> o] : o \in BOOLEAN }
  /\ UNCHANGED <<present, callVars, switch, alive, range>>

ReadLine ==
  /\ info.on /\ info.open /\ info.line <= Len(info.maps)
  /\ LET m == info.maps[info.line]
     IN  info' = IF Taken(m, info.modName)
                 THEN [info EXCEPT !.found = TRUE, !.open = FALSE]
                 ELSE [info EXCEPT !.line = @ + 1]
  /\ UNCHANGED <<present, callVars, switch, alive, range>>

EndOfMaps ==
  /\ info.on /\ info.open /\ info.line > Len(info.maps)
  /\ info' = [info EXCEPT !.open = FALSE]
  /\ UNCHANGED <<present, callVars, switch, alive, range>>

InfoReturns ==
  /\ info.on /\ ~info.open
  /\ info' = NoInfo
  /\ UNCHANGED <<present, callVars, switch, alive, range>>

-----------------------------------------------------------------------------
Next ==
  \/ Enter \/ Touch \/ Opcode \/ PageOut \/ s2e_assert
  \/ s2e_range \/ Constrain \/ RangeReturns
  \/ s2e_get_module_info \/ ReadLine \/ EndOfMaps \/ InfoReturns

Spec == Init /\ [][Next]_vars

-----------------------------------------------------------------------------
TypeOK ==
  /\ present \subseteq 1..Pages
  /\ (call.reads \cup call.strings \cup call.buffers) \subseteq 1..Pages
  /\ unread \cup gone \subseteq 1..Pages
  /\ switch \in [Switches -> BOOLEAN]
  /\ alive \in BOOLEAN
  /\ range \in [on : BOOLEAN, start : Ints, end : Ints, values : SUBSET Ints]
  /\ info.on => info.line \in 1..(Len(info.maps) + 1)

\* Where the opcode is executed, S2E finds every page of the strings, whatever
\* pages they cross, but for those that were read and went out again.
S2EFindsStrings == unread = {} => call.strings \ gone \subseteq present

\* Where s2e_range returns, x is in [start, end); with forking on it can be
\* any value in there.
RangeExact ==
  range.on /\ range.values # {} =>
    /\ range.values \subseteq range.start..(range.end - 1)
    /\ switch["forking"] => range.values = range.start..(range.end - 1)

\* Asked for a module by its path, s2e_get_module_info answers with the first
\* executable mapping whose path contains the name of the file, and with -1
\* only when there is none.
ModuleByPath ==
  LET Fits(i) == /\ info.maps[i].exec /\ info.maps[i].named
                 /\ info.module.base \in info.maps[i].has
      fitting == {i \in DOMAIN info.maps : Fits(i)}
  IN  info.on /\ info.opened /\ ~info.open /\ info.module.slash =>
        \/ ~info.found /\ fitting = {}
        \/ /\ info.found /\ info.line \in fitting
           /\ \A i \in fitting : info.line <= i

-----------------------------------------------------------------------------
(***************************************************************************)
(* What holds between any two steps, and keeps the above from step to step.*)
(***************************************************************************)

\* The call under way is one of s2e.h, and its path has not been killed.
CallInStep == call \in Functions \cup {Idle} /\ (alive \/ call = Idle)

\* What the call has read is in memory, or has gone out since.
PagesInStep ==
  /\ unread \subseteq call.reads /\ gone \subseteq call.reads
  /\ call.reads \ unread \subseteq present \cup gone

\* s2e_range goes on only with a range that is not empty: what it has done
\* before it returns leaves no call under way, and a path on which the range is
\* empty is about to be killed.
RangeInStep ==
  range.on =>
    /\ range.values # {} => call = Idle
    /\ range.values # {} \/ (alive /\ call.op # "kill_state") => range.start < range.end

\* The loop over the maps stops at the first line it takes, and comes to the end
\* when it takes none.
LoopInStep(i) ==
  /\ i.line \in 1..(Len(i.maps) + 1)
  /\ i.module.slash => i.modName = i.module.base
  /\ i.open => i.opened /\ ~i.found
  /\ \A k \in 1..(i.line - 1) : ~Taken(i.maps[k], i.modName)
  /\ i.found => i.line <= Len(i.maps) /\ Taken(i.maps[i.line], i.modName)
  /\ i.opened /\ ~i.open /\ ~i.found => i.line = Len(i.maps) + 1

InfoInStep ==
  \/ info = NoInfo
  \/ /\ info \in [on : {TRUE}, module : Modules, modName : Names \cup {None},
                  maps : Maps, line : Int, found : BOOLEAN, opened : BOOLEAN,
                  open : BOOLEAN]
     /\ LoopInStep(info)

HeaderInStep == CallInStep /\ PagesInStep /\ RangeInStep /\ InfoInStep

-----------------------------------------------------------------------------
(***************************************************************************)
(* What the comments of s2e.h say, and the code does not do.               *)
(***************************************************************************)

\* "makes sure the memory pages occupied by the string are paged in before
\* passing them to S2E": of buffers on more than one page, too.
S2EFindsBuffers == unread = {} => call.buffers \ gone \subseteq present

\* "get the name, load address, and the size of the specified module": what is
\* found has the name that was asked for.
ModuleSpecified ==
  info.on /\ info.module.given /\ info.found
    => info.module.base \in info.maps[info.line].has
=============================================================================
