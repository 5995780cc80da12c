----------------------------- MODULE HeaderProofs ------------------------------
(***************************************************************************)
(* Proofs about s2e.h, for any number of pages, any width of int, any      *)
(* names and maps of any length.                                           *)
(***************************************************************************)
EXTENDS S2EHeader, FiniteSetTheorems, SequenceTheorems, TLAPS

(***************************************************************************)
(* A variable on the stack is a buffer on one page, and its first byte is  *)
(* on that page.                                                           *)
(***************************************************************************)
LEMMA LocalIsBuffer ==
  ASSUME NEW l \in Locals
  PROVE  l \in Buffers /\ touch_buffer(l) = l
<1>1. PICK i \in 1..Pages : l = {i}
  BY DEF Locals
<1>2. l = i..i
  BY <1>1, HeaderAssumption
<1>3. Cardinality(l) = 1
  BY <1>1, FS_Singleton
<1>4. l \in Buffers
  BY <1>2, <1>3, HeaderAssumption DEF Buffers
<1> QED
  BY <1>1, <1>4, HeaderAssumption DEF touch_buffer

(***************************************************************************)
(* A function reads its strings to their ends, and reads and hands over    *)
(* pages of the program only.                                              *)
(***************************************************************************)
ReadsStrings(f) == /\ f.strings \subseteq f.reads
                   /\ f.reads \subseteq 1..Pages /\ f.buffers \subseteq 1..Pages

LEMMA FunctionsReadStrings ==
  ASSUME NEW f \in Functions \cup {Idle}
  PROVE  ReadsStrings(f)
<1>1. ASSUME NEW op, NEW reads \in SUBSET (1..Pages), NEW strings \in SUBSET reads,
             NEW buffers \in SUBSET (1..Pages)
      PROVE  ReadsStrings(Fn(op, reads, strings, buffers))
  BY DEF Fn, ReadsStrings
<1>2. \A s \in Strings : s \in SUBSET (1..Pages) /\ touch_string(s) = s
  BY HeaderAssumption DEF Strings, touch_string
<1>3. \A b \in Buffers \cup Locals : /\ b \in SUBSET (1..Pages)
                                   /\ touch_buffer(b) \in SUBSET (1..Pages)
  BY HeaderAssumption DEF Buffers, Locals, touch_buffer
<1>4. ASSUME NEW op, f = Plain(op)
      PROVE  ReadsStrings(f)
  BY <1>4, <1>1 DEF Plain
<1>5. ASSUME NEW op, NEW s \in Strings, f = OnString(op, s)
      PROVE  ReadsStrings(f)
  BY <1>5, <1>1, <1>2 DEF OnString
<1>6. ASSUME NEW op, NEW b \in Buffers \cup Locals, f = OnBuffer(op, b)
      PROVE  ReadsStrings(f)
  BY <1>6, <1>1, <1>3 DEF OnBuffer
<1>7. ASSUME NEW op, NEW b \in Buffers, NEW s \in Strings, f = OnNamedBuffer(op, b, s)
      PROVE  ReadsStrings(f)
  <2>1. /\ touch_string(s) \cup touch_buffer(b) \in SUBSET (1..Pages)
        /\ s \in SUBSET (touch_string(s) \cup touch_buffer(b))
    BY <1>2, <1>3
  <2> QED
    BY <1>7, <1>1, <1>3, <2>1 DEF OnNamedBuffer
<1>8. ASSUME f \in WithoutMemory \cup {Idle}
      PROVE  \E op : f = Plain(op)
  BY <1>8 DEF WithoutMemory, Idle,
     s2e_version, s2e_enable_forking, s2e_disable_forking, s2e_get_path_id,
     s2e_disable_timer_interrupt, s2e_enable_timer_interrupt,
     s2e_disable_all_apic_interrupts, s2e_enable_all_apic_interrupts,
     s2e_get_ram_object_bits, s2e_merge_point, s2e_close,
     s2e_codeselector_enable_address_space, s2e_codeselector_disable_address_space
<1>9. ASSUME NEW s \in Strings, f \in OfString(s)
      PROVE  \E op : f = OnString(op, s)
  BY <1>9 DEF OfString, s2e_message, s2e_warning, s2e_print_expression,
     s2e_kill_state, s2e_open, s2e_rawmon_loadmodule, s2e_codeselector_select_module
<1>10. ASSUME NEW s \in Strings, NEW t \in Strings, f \in OfStrings(s, t)
       PROVE  ReadsStrings(f)
  <2>1. CASE f = s2e_rawmon_loadmodule2(s, t)
    <3>1. /\ t \cup touch_string(s) \in SUBSET (1..Pages)
          /\ s \in SUBSET (t \cup touch_string(s))
      BY <1>2
    <3> QED
      BY <1>1, <1>2, <2>1, <3>1 DEF s2e_rawmon_loadmodule2
  <2>2. CASE f = s2e_moduleexec_add_module(s, t)
    <3>1. /\ touch_string(s) \cup touch_string(t) \in SUBSET (1..Pages)
          /\ s \cup t \in SUBSET (touch_string(s) \cup touch_string(t))
      BY <1>2
    <3> QED
      BY <1>1, <2>2, <3>1 DEF s2e_moduleexec_add_module
  <2> QED
    BY <1>10, <2>1, <2>2 DEF OfStrings
<1>11. ASSUME NEW b \in Buffers, f \in OfBuffer(b)
       PROVE  \E op : f = OnBuffer(op, b)
  BY <1>11 DEF OfBuffer, s2e_concretize, s2e_get_example, s2e_read
<1>12. ASSUME NEW l \in Locals, f \in OfLocal(l)
       PROVE  ReadsStrings(f)
  <2>1. CASE f = s2e_is_symbolic(l)
    BY <1>6, <2>1 DEF s2e_is_symbolic
  <2>2. CASE f = s2e_get_example_uint(l)
    BY <1>1, <1>3, <2>2 DEF s2e_get_example_uint
  <2> QED
    BY <1>12, <2>1, <2>2 DEF OfLocal
<1>13. ASSUME NEW b \in Buffers, NEW s \in Strings, f \in OfNamedBuffer(b, s)
       PROVE  \E op : f = OnNamedBuffer(op, b, s)
  BY <1>13 DEF OfNamedBuffer, s2e_make_symbolic, s2e_make_concolic
<1>14. ASSUME NEW b \in Buffers, NEW c \in Buffers, f = s2e_detect_int(b, c)
       PROVE  ReadsStrings(f)
  <2>1. /\ touch_buffer(b) \cup touch_buffer(c) \in SUBSET (1..Pages)
        /\ {} \in SUBSET (touch_buffer(b) \cup touch_buffer(c))
        /\ b \cup c \in SUBSET (1..Pages)
    BY <1>3
  <2> QED
    BY <1>1, <1>14, <2>1 DEF s2e_detect_int
<1>15. \/ f \in WithoutMemory \cup {Idle}
       \/ \E s \in Strings : f \in OfString(s)
       \/ \E s, t \in Strings : f \in OfStrings(s, t)
       \/ \E b \in Buffers : f \in OfBuffer(b)
       \/ \E l \in Locals : f \in OfLocal(l)
       \/ \E b \in Buffers, s \in Strings : f \in OfNamedBuffer(b, s)
       \/ \E b, c \in Buffers : f = s2e_detect_int(b, c)
  <2> DEFINE S1 == UNION {OfString(s) : s \in Strings}
             S2 == UNION {OfStrings(s, t) : s, t \in Strings}
             B1 == UNION {OfBuffer(b) : b \in Buffers}
             L1 == UNION {OfLocal(l) : l \in Locals}
             BS == UNION {OfNamedBuffer(b, s) : b \in Buffers, s \in Strings}
             B2 == {s2e_detect_int(b, c) : b, c \in Buffers}
  <2>1. Functions = WithoutMemory \cup S1 \cup S2 \cup B1 \cup L1 \cup BS \cup B2
    BY DEF Functions
  <2>2. f \in S1 => \E s \in Strings : f \in OfString(s)
    OBVIOUS
  <2>3. f \in S2 => \E s, t \in Strings : f \in OfStrings(s, t)
    OBVIOUS
  <2>4. f \in B1 => \E b \in Buffers : f \in OfBuffer(b)
    OBVIOUS
  <2>5. f \in L1 => \E l \in Locals : f \in OfLocal(l)
    OBVIOUS
  <2>6. f \in BS => \E b \in Buffers, s \in Strings : f \in OfNamedBuffer(b, s)
    OBVIOUS
  <2>7. f \in B2 => \E b, c \in Buffers : f = s2e_detect_int(b, c)
    OBVIOUS
  <2> HIDE DEF S1, S2, B1, L1, BS, B2
  <2> QED
    BY <2>1, <2>2, <2>3, <2>4, <2>5, <2>6, <2>7
<1> QED
  BY <1>4, <1>5, <1>6, <1>7, <1>8, <1>9, <1>10, <1>11, <1>12, <1>13, <1>14, <1>15

(***************************************************************************)
(* The two functions s2e_range calls and the one s2e_assert calls.         *)
(***************************************************************************)
LEMMA CalledFunctions ==
  ASSUME NEW s \in Strings
  PROVE  /\ s2e_kill_state(s) \in Functions
         /\ s2e_kill_state(s).op = "kill_state"
         /\ \A l \in Locals : /\ s2e_make_symbolic(l, s) \in Functions
                              /\ s2e_make_symbolic(l, s).op = "make_symbolic"
<1>1. s2e_kill_state(s) \in OfString(s)
  BY DEF OfString
<1>2. \A l \in Locals : l \in Buffers /\ s2e_make_symbolic(l, s) \in OfNamedBuffer(l, s)
  BY LocalIsBuffer DEF OfNamedBuffer
<1>3. s2e_kill_state(s) \in Functions
  BY <1>1 DEF Functions
<1>4. ASSUME NEW l \in Locals
      PROVE  s2e_make_symbolic(l, s) \in Functions
  <2> DEFINE Named == {OfNamedBuffer(b, r) : b \in Buffers, r \in Strings}
  <2>1. OfNamedBuffer(l, s) \in Named
    BY <1>2
  <2> DEFINE Before == WithoutMemory
                \cup (UNION {OfString(r) : r \in Strings})
                \cup (UNION {OfStrings(r, t) : r, t \in Strings})
                \cup (UNION {OfBuffer(b) : b \in Buffers})
                \cup (UNION {OfLocal(k) : k \in Locals})
             After == {s2e_detect_int(b, c) : b, c \in Buffers}
  <2>2. Functions = Before \cup (UNION Named) \cup After
    BY DEF Functions
  <2> HIDE DEF Before, After
  <2> HIDE DEF Named
  <2> QED
    BY <1>2, <2>1, <2>2
<1> QED
  BY <1>3, <1>4 DEF s2e_kill_state, s2e_make_symbolic, OnString, OnNamedBuffer, Fn

(***************************************************************************)
(* Where the range is not empty, what s2e_range keeps is the range: the    *)
(* unsigned comparison it makes for start = 0 sees every negative value    *)
(* above end.                                                              *)
(***************************************************************************)
LEMMA KeptIsRange ==
  ASSUME NEW start \in Ints, NEW end \in Ints, start < end
  PROVE  Kept(start, end) = start..(end - 1)
<1> DEFINE W == 2 * (IntMax + 1)
<1>1. W \in Nat /\ W > 0
  BY HeaderAssumption
<1>2. \A x \in Ints : Unsigned(x) = IF x >= 0 THEN x ELSE x + W
  BY HeaderAssumption, <1>1 DEF Ints, Unsigned
<1>3. CASE start = 0
  <2>1. \A x \in Ints : Unsigned(x) < Unsigned(end) <=> x \in start..(end - 1)
    BY <1>2, <1>3, HeaderAssumption DEF Ints
  <2>2. start..(end - 1) \subseteq Ints
    BY HeaderAssumption DEF Ints
  <2> QED
    BY <1>3, <2>1, <2>2 DEF Kept
<1>4. CASE start # 0
  BY <1>4, HeaderAssumption DEF Kept, Ints
<1> QED
  BY <1>3, <1>4

-----------------------------------------------------------------------------
(***************************************************************************)
(* One step.                                                               *)
(***************************************************************************)

(***************************************************************************)
(* The call under way after a step is one of s2e.h, and it is made on a    *)
(* path that is alive.                                                     *)
(***************************************************************************)
LEMMA CallStaysInStep ==
  ASSUME CallInStep, [Next]_vars
  PROVE  CallInStep'
<1>1. CASE Enter
  BY <1>1 DEF CallInStep, Begin, callVars, Enter, Free
<1>2. CASE Opcode
  BY <1>2 DEF CallInStep, Begin, callVars, Opcode
<1>3. CASE s2e_assert
  BY <1>3, CalledFunctions DEF CallInStep, Begin, callVars, s2e_assert, Free
<1>4. CASE s2e_range
  BY <1>4, CalledFunctions DEF CallInStep, Begin, callVars, s2e_range, Free
<1>5. CASE Constrain
  BY <1>5, CalledFunctions DEF CallInStep, Begin, callVars, Constrain
<1>6. CASE UNCHANGED <<call, alive>>
  BY <1>6 DEF CallInStep
<1> QED
  BY <1>1, <1>2, <1>3, <1>4, <1>5, <1>6 DEF Next, vars, callVars, Touch, PageOut,
     RangeReturns, s2e_get_module_info, ReadLine, EndOfMaps, InfoReturns

(***************************************************************************)
(* What a call has read stays in memory, or has gone out since.            *)
(***************************************************************************)
LEMMA PagesStayInStep ==
  ASSUME PagesInStep, [Next]_vars
  PROVE  PagesInStep'
<1>1. ASSUME NEW f, Begin(f)
      PROVE  PagesInStep'
  BY <1>1 DEF Begin, PagesInStep
<1>2. CASE Touch
  BY <1>2 DEF PagesInStep, Touch
<1>3. CASE PageOut
  BY <1>3 DEF PagesInStep, PageOut
<1>4. CASE UNCHANGED <<present, callVars>>
  BY <1>4 DEF PagesInStep, callVars
<1>5. CASE Enter \/ Opcode \/ s2e_assert \/ s2e_range \/ Constrain
  BY <1>1, <1>4, <1>5, Zenon DEF Enter, Opcode, s2e_assert, s2e_range, Constrain
<1>6. CASE \/ RangeReturns \/ s2e_get_module_info \/ ReadLine \/ EndOfMaps \/ InfoReturns
          \/ UNCHANGED vars
  BY <1>4, <1>6 DEF vars, callVars, RangeReturns, s2e_get_module_info, ReadLine, EndOfMaps,
     InfoReturns
<1> QED
  BY <1>2, <1>3, <1>5, <1>6 DEF Next

(***************************************************************************)
(* What s2e_range holds after a step is again a range of ints, and only a  *)
(* range that is not empty is gone on with.                                *)
(***************************************************************************)
Ranges == [on : BOOLEAN, start : Ints, end : Ints, values : SUBSET Ints]

LEMMA RangeStaysInStep ==
  ASSUME CallInStep, range \in Ranges, RangeInStep, [Next]_vars
  PROVE  range' \in Ranges /\ RangeInStep'
<1> USE DEF RangeInStep
<1>1. CASE Opcode
  <2>1. range.on => range.values = {}
    BY <1>1 DEF Opcode
  <2>2. alive' => alive /\ call.op # "kill_state"
    BY <1>1, Zenon DEF Opcode, CallInStep
  <2> QED
    BY <1>1, <2>1, <2>2 DEF Opcode
<1>2. CASE s2e_range
  <2>1. PICK start, end \in Ints, local \in Locals, s \in Strings :
          IF start >= end
          THEN range' = RangeCall(start, end, {}) /\ call' = s2e_kill_state(s)
          ELSE IF start + 1 = end
          THEN range' = RangeCall(start, end, {start}) /\ call' = call
          ELSE /\ range' = RangeCall(start, end, {})
               /\ call' = s2e_make_symbolic(local, s)
    BY <1>2 DEF s2e_range, Begin, callVars
  <2>2. start \in Int /\ end \in Int
    BY HeaderAssumption DEF Ints
  <2>3. \A v \in SUBSET Ints :
          LET r == RangeCall(start, end, v)
          IN  r \in Ranges /\ r.start = start /\ r.end = end /\ r.values = v
    BY DEF Ranges, RangeCall
  <2>4. CASE start >= end
    <3>1. range' \in Ranges /\ range'.values = {} /\ call'.op = "kill_state"
      BY <2>1, <2>3, <2>4, CalledFunctions
    <3> QED
      BY <3>1
  <2>5. CASE ~(start >= end) /\ start + 1 = end
    <3>1. range' \in Ranges /\ range'.start = start /\ range'.end = end
      BY <2>1, <2>3, <2>5
    <3>2. call' = Idle
      BY <1>2, <2>1, <2>5 DEF s2e_range, Free
    <3> QED
      BY <2>2, <2>5, <3>1, <3>2
  <2>6. CASE ~(start >= end) /\ start + 1 # end
    <3>1. /\ range' \in Ranges /\ range'.start = start /\ range'.end = end
          /\ range'.values = {}
      BY <2>1, <2>3, <2>6
    <3> QED
      BY <2>2, <2>6, <3>1
  <2> QED
    BY <2>4, <2>5, <2>6
<1>3. CASE Constrain
  <2>1. range.on /\ range.values = {} /\ alive /\ call = Idle /\ alive' = alive
    BY <1>3 DEF Constrain
  <2>2. range.start < range.end
    BY <2>1 DEF Idle, Plain, Fn
  <2>3. Kept(range.start, range.end) \subseteq Ints
    BY DEF Kept
  <2>4. ASSUME NEW values \in SUBSET Ints,
               range' = [range EXCEPT !.values = values], UNCHANGED call
        PROVE  range' \in Ranges /\ RangeInStep'
    <3>1. /\ range' \in Ranges
          /\ range'.start = range.start /\ range'.end = range.end
      BY <2>4 DEF Ranges
    <3> QED
      BY <2>1, <2>2, <2>4, <3>1
  <2>5. ASSUME NEW s \in Strings, call' = s2e_kill_state(s), UNCHANGED range
        PROVE  range' \in Ranges /\ RangeInStep'
    <3>1. call'.op = "kill_state" /\ range'.values = {} /\ range' \in Ranges
      BY <2>1, <2>5, CalledFunctions
    <3> QED
      BY <3>1
  <2>6. \/ \E values \in SUBSET Ints :
              range' = [range EXCEPT !.values = values] /\ UNCHANGED call
        \/ \E s \in Strings : call' = s2e_kill_state(s) /\ UNCHANGED range
    <3> DEFINE kept == Kept(range.start, range.end)
    <3>1. \/ /\ \/ range' = [range EXCEPT !.values = kept]
                \/ \E x \in kept : range' = [range EXCEPT !.values = {x}]
             /\ UNCHANGED call
          \/ \E s \in Strings : call' = s2e_kill_state(s) /\ UNCHANGED range
      BY <1>3, Zenon DEF Constrain, Begin, callVars
    <3>2. kept \in SUBSET Ints /\ \A x \in kept : {x} \in SUBSET Ints
      BY <2>3
    <3> HIDE DEF kept
    <3> QED
      BY <3>1, <3>2
  <2> QED
    BY <2>4, <2>5, <2>6
<1>4. CASE RangeReturns
  BY <1>4, HeaderAssumption DEF RangeReturns, NoRange, Ranges, Ints
<1>5. CASE Enter \/ s2e_assert
  BY <1>5 DEF Enter, s2e_assert, Free, Ranges
<1>6. CASE UNCHANGED <<call, alive, range>>
  BY <1>6
<1> QED
  BY <1>1, <1>2, <1>3, <1>4, <1>5, <1>6 DEF Next, vars, callVars, Touch, PageOut,
     s2e_get_module_info, ReadLine, EndOfMaps, InfoReturns

(***************************************************************************)
(* A map of n lines has the length n.                                      *)
(***************************************************************************)
LEMMA LinesOfMaps ==
  ASSUME NEW maps \in Maps
  PROVE  Len(maps) \in Nat /\ DOMAIN maps = 1..Len(maps)
<1>1. PICK n \in 0..MaxLines : maps \in [1..n -> Mappings]
  BY DEF Maps
<1>2. maps \in Seq(Mappings)
  BY <1>1, SeqDef, HeaderAssumption
<1> QED
  BY <1>2, LenProperties

(***************************************************************************)
(* A module that is asked for has a name; only a path has a slash.         *)
(***************************************************************************)
LEMMA NamesOfModules ==
  ASSUME NEW m \in Modules
  PROVE  \/ m.given = TRUE /\ m.base \in Names
         \/ m.given = FALSE /\ m.slash = FALSE
<1>1. CASE m \in [given : {TRUE}, slash : BOOLEAN, base : Names]
  BY <1>1
<1>2. CASE m = [given |-> FALSE, slash |-> FALSE, base |-> None]
  BY <1>2, Zenon
<1> QED
  BY <1>1, <1>2, Zenon DEF Modules

(***************************************************************************)
(* While a request is under way its loop is in step.                       *)
(***************************************************************************)
Infos == [on : {TRUE}, module : Modules, modName : Names \cup {None},
          maps : Maps, line : Int, found : BOOLEAN, opened : BOOLEAN, open : BOOLEAN]

LEMMA InfoUnderWay ==
  ASSUME InfoInStep, info.on
  PROVE  /\ info \in Infos /\ LoopInStep(info)
         /\ Len(info.maps) \in Nat /\ DOMAIN info.maps = 1..Len(info.maps)
<1>1. NoInfo.on = FALSE
  BY Zenon DEF NoInfo
<1>2. info # NoInfo
  BY <1>1, Zenon
<1>3. info \in Infos /\ LoopInStep(info)
  BY <1>2, Zenon DEF InfoInStep, Infos
<1>4. info.maps \in Maps
  BY <1>3 DEF Infos
<1> QED
  BY <1>3, <1>4, LinesOfMaps

(***************************************************************************)
(* The loop over /proc/self/maps goes on past the lines it does not take,  *)
(* and stops at the one it takes.                                          *)
(***************************************************************************)
LEMMA InfoStaysInStep ==
  ASSUME InfoInStep, [Next]_vars
  PROVE  InfoInStep'
<1>1. CASE s2e_get_module_info
  <2>1. PICK module \in Modules, junk \in Names, maps \in Maps, o \in BOOLEAN :
          info' = [on |-> TRUE, module |-> module, modName |-> ModName(module, junk),
                   maps |-> maps, line |-> 1, found |-> FALSE, opened |-> o, open |-> o]
    BY <1>1 DEF s2e_get_module_info
  <2>2. Len(maps) \in Nat
    BY LinesOfMaps
  <2>3. /\ ModName(module, junk) \in Names \cup {None}
        /\ module.slash => ModName(module, junk) = module.base
    <3>1. \/ module.given = TRUE /\ module.base \in Names
          \/ module.given = FALSE /\ module.slash = FALSE
      BY NamesOfModules, Zenon
    <3>2. CASE module.given = TRUE /\ module.base \in Names
      BY <3>2, Zenon DEF ModName
    <3>3. CASE module.given = FALSE /\ module.slash = FALSE
      BY <3>3, Zenon DEF ModName
    <3> QED
      BY <3>1, <3>2, <3>3
  <2>4. info' \in Infos
    BY <2>1, <2>3 DEF Infos
  <2>5. LoopInStep(info')
    BY <2>1, <2>2, <2>3 DEF LoopInStep
  <2> QED
    BY <2>4, <2>5 DEF InfoInStep, Infos
<1>2. CASE ReadLine
  <2>1. info \in Infos /\ LoopInStep(info)
    BY <1>2, InfoUnderWay DEF ReadLine
  <2>2. Len(info.maps) \in Nat
    BY <1>2, InfoUnderWay DEF ReadLine
  <2>3. /\ info.open /\ info.line \in 1..Len(info.maps)
    BY <1>2, <2>1, <2>2 DEF ReadLine, LoopInStep
  <2>4. CASE Taken(info.maps[info.line], info.modName)
    <3>1. info' = [info EXCEPT !.found = TRUE, !.open = FALSE]
      BY <1>2, <2>4 DEF ReadLine
    <3>2. info' \in Infos
      BY <2>1, <3>1 DEF Infos
    <3>3. LoopInStep(info')
      BY <2>1, <2>2, <2>3, <2>4, <3>1 DEF LoopInStep
    <3> QED
      BY <3>2, <3>3 DEF InfoInStep, Infos
  <2>5. CASE ~Taken(info.maps[info.line], info.modName)
    <3>1. info' = [info EXCEPT !.line = @ + 1]
      BY <1>2, <2>5 DEF ReadLine
    <3>2. info' \in Infos
      <4>1. info.line + 1 \in Int
        BY <2>3
      <4> QED
        BY <2>1, <3>1, <4>1 DEF Infos
    <3>3. LoopInStep(info')
      BY <2>1, <2>2, <2>3, <2>5, <3>1 DEF LoopInStep
    <3> QED
      BY <3>2, <3>3 DEF InfoInStep, Infos
  <2> QED
    BY <2>4, <2>5
<1>3. CASE EndOfMaps
  <2>1. info \in Infos /\ LoopInStep(info)
    BY <1>3, InfoUnderWay DEF EndOfMaps
  <2>2. Len(info.maps) \in Nat
    BY <1>3, InfoUnderWay DEF EndOfMaps
  <2>3. info' = [info EXCEPT !.open = FALSE] /\ info.line > Len(info.maps)
    BY <1>3 DEF EndOfMaps
  <2>4. info' \in Infos
    BY <2>1, <2>3 DEF Infos
  <2>5. LoopInStep(info')
    BY <2>1, <2>2, <2>3 DEF LoopInStep
  <2> QED
    BY <2>4, <2>5 DEF InfoInStep, Infos
<1>4. CASE InfoReturns
  BY <1>4 DEF InfoReturns, InfoInStep
<1>5. CASE UNCHANGED info
  BY <1>5 DEF InfoInStep, LoopInStep
<1> QED
  BY <1>1, <1>2, <1>3, <1>4, <1>5 DEF Next, vars, Enter, Touch, Opcode, PageOut,
     s2e_assert, s2e_range, Constrain, RangeReturns

(***************************************************************************)
(* The rest of the state keeps its type.                                   *)
(***************************************************************************)
Rest == present \subseteq 1..Pages /\ switch \in [Switches -> BOOLEAN] /\ alive \in BOOLEAN

LEMMA RestStays ==
  ASSUME Rest, CallInStep, PagesInStep, [Next]_vars
  PROVE  Rest'
<1>1. CASE Touch
  <2>1. unread \subseteq 1..Pages
    BY FunctionsReadStrings DEF CallInStep, PagesInStep, ReadsStrings
  <2> QED
    BY <1>1, <2>1 DEF Touch, Rest
<1>2. CASE Opcode
  BY <1>2 DEF Opcode, Rest, CallInStep
<1>3. CASE PageOut
  BY <1>3 DEF PageOut, Rest
<1>4. CASE UNCHANGED <<present, switch, alive>>
  BY <1>4 DEF Rest
<1> QED
  BY <1>1, <1>2, <1>3, <1>4 DEF Next, vars, Enter, s2e_assert, s2e_range, Constrain,
     RangeReturns, s2e_get_module_info, ReadLine, EndOfMaps, InfoReturns

-----------------------------------------------------------------------------
(***************************************************************************)
(* The inductive invariant.                                                *)
(***************************************************************************)
HeaderInv == HeaderInStep /\ range \in Ranges /\ Rest

(***************************************************************************)
(* It holds at the start, when nothing is under way.                       *)
(***************************************************************************)
LEMMA HeaderInit ==
  ASSUME Init
  PROVE  HeaderInv
<1>1. CallInStep /\ PagesInStep /\ RangeInStep /\ InfoInStep
  BY DEF Init, CallInStep, PagesInStep, RangeInStep, InfoInStep, NoRange, Idle, Plain, Fn
<1>2. range \in Ranges
  BY HeaderAssumption DEF Init, NoRange, Ranges, Ints
<1>3. Rest
  BY DEF Init, Rest
<1> QED
  BY <1>1, <1>2, <1>3 DEF HeaderInv, HeaderInStep

(***************************************************************************)
(* Every step keeps it.                                                    *)
(***************************************************************************)
LEMMA HeaderStep ==
  ASSUME HeaderInv, [Next]_vars
  PROVE  HeaderInv'
BY CallStaysInStep, PagesStayInStep, RangeStaysInStep, InfoStaysInStep, RestStays
   DEF HeaderInv, HeaderInStep

(***************************************************************************)
(* The calls of s2e.h, s2e_range and the loop of s2e_get_module_info stay  *)
(* in step in every execution.                                             *)
(***************************************************************************)
LEMMA HeaderInvariant == Spec => []HeaderInv
<1>1. Init => HeaderInv
  BY HeaderInit
<1>2. HeaderInv /\ [Next]_vars => HeaderInv'
  BY HeaderStep
<1> QED
  BY <1>1, <1>2, PTL DEF Spec

(***************************************************************************)
(* Only functions of s2e.h are under way and none on a killed path,        *)
(* s2e_range goes on only where its range is not empty, and the loop of    *)
(* s2e_get_module_info has passed no line that it takes.                   *)
(***************************************************************************)
THEOREM HeaderStaysInStep == Spec => []HeaderInStep
<1>1. HeaderInv => HeaderInStep
  BY DEF HeaderInv
<1> QED
  BY <1>1, HeaderInvariant, PTL

(***************************************************************************)
(* Every function of s2e.h, s2e_range and s2e_get_module_info keep their   *)
(* variables in their types: pages of the program, ints, lines of the map. *)
(***************************************************************************)
THEOREM HeaderTyped == Spec => []TypeOK
<1>1. HeaderInv => TypeOK
  <2> SUFFICES ASSUME HeaderInv
               PROVE  TypeOK
    OBVIOUS
  <2>1. /\ call.reads \cup call.strings \cup call.buffers \subseteq 1..Pages
        /\ unread \cup gone \subseteq 1..Pages
    BY FunctionsReadStrings DEF HeaderInv, HeaderInStep, CallInStep, PagesInStep, ReadsStrings
  <2>2. info.on => info.line \in 1..(Len(info.maps) + 1)
    BY InfoUnderWay DEF HeaderInv, HeaderInStep, LoopInStep
  <2> QED
    BY <2>1, <2>2 DEF HeaderInv, Rest, Ranges, TypeOK
<1> QED
  BY <1>1, HeaderInvariant, PTL

(***************************************************************************)
(* Where a function of s2e.h executes its opcode, S2E finds every page of  *)
(* its strings, however many pages they cross, but for those the guest's   *)
(* kernel took away after the string was read.                             *)
(***************************************************************************)
THEOREM FindsStrings == Spec => []S2EFindsStrings
<1>1. HeaderInv => S2EFindsStrings
  <2>1. CallInStep => call.strings \subseteq call.reads
    BY FunctionsReadStrings DEF CallInStep, ReadsStrings
  <2> QED
    BY <2>1 DEF HeaderInv, HeaderInStep, PagesInStep, S2EFindsStrings
<1> QED
  BY <1>1, HeaderInvariant, PTL

(***************************************************************************)
(* s2e_range returns in [start, end) only, and with forking on leaves all  *)
(* of it open, whatever the width of an int and whatever start and end.    *)
(***************************************************************************)
THEOREM RangeIsExact == Spec => []RangeExact
<1>1. Init => RangeExact
  BY DEF Init, NoRange, RangeExact
<1>2. ASSUME HeaderInv, RangeExact, [Next]_vars
      PROVE  RangeExact'
  <2>1. /\ range \in Ranges
        /\ range.on /\ range.values # {} => call = Idle
        /\ range.on /\ alive /\ call.op # "kill_state" => range.start < range.end
    <3>1. range \in Ranges /\ RangeInStep
      BY <1>2 DEF HeaderInv, HeaderInStep
    <3> QED
      BY <3>1, Zenon DEF RangeInStep
  <2>2. CASE Opcode
    BY <2>1, <2>2 DEF Opcode, RangeExact
  <2>3. CASE s2e_range
    <3>1. PICK start, end \in Ints :
            \/ range' = RangeCall(start, end, {})
            \/ range' = RangeCall(start, end, {start}) /\ start + 1 = end
      BY <2>3 DEF s2e_range
    <3>2. start + 1 = end => {start} = start..(end - 1)
      BY HeaderAssumption DEF Ints
    <3>3. \A v : LET r == RangeCall(start, end, v)
                IN  r.start = start /\ r.end = end /\ r.values = v
      BY DEF RangeCall
    <3>4. CASE range' = RangeCall(start, end, {})
      BY <3>3, <3>4 DEF RangeExact
    <3>5. CASE range' = RangeCall(start, end, {start}) /\ start + 1 = end
      <4>1. range'.values = range'.start..(range'.end - 1)
        BY <3>2, <3>3, <3>5
      <4> QED
        BY <4>1 DEF RangeExact
    <3> QED
      BY <3>1, <3>4, <3>5
  <2>4. CASE Constrain
    <3>1. range.on /\ range.values = {} /\ range.start < range.end
      BY <2>1, <2>4 DEF Constrain, Idle, Plain, Fn
    <3>2. Kept(range.start, range.end) = range.start..(range.end - 1)
      BY <2>1, <3>1, KeptIsRange DEF Ranges
    <3>3. CASE range' = [range EXCEPT !.values = Kept(range.start, range.end)]
      BY <2>1, <3>2, <3>3 DEF RangeExact, Ranges
    <3>4. CASE \E x \in Kept(range.start, range.end) : /\ ~switch["forking"]
                                                     /\ range' = [range EXCEPT !.values = {x}]
                                                     /\ UNCHANGED switch
      BY <2>1, <3>2, <3>4 DEF RangeExact, Ranges
    <3>5. CASE UNCHANGED range
      BY <3>1, <3>5 DEF RangeExact
    <3> QED
      BY <2>4, <3>3, <3>4, <3>5 DEF Constrain
  <2>5. CASE RangeReturns
    BY <2>5 DEF RangeReturns, NoRange, RangeExact
  <2>6. CASE UNCHANGED <<switch, range>>
    BY <1>2, <2>6 DEF RangeExact
  <2>7. CASE \/ Enter \/ Touch \/ PageOut \/ s2e_assert \/ UNCHANGED vars
             \/ s2e_get_module_info \/ ReadLine \/ EndOfMaps \/ InfoReturns
    <3>1. UNCHANGED <<switch, range>>
      BY <2>7 DEF vars, Enter, Touch, PageOut, s2e_assert, s2e_get_module_info,
         ReadLine, EndOfMaps, InfoReturns
    <3> QED
      BY <2>6, <3>1
  <2> QED
    BY <1>2, <2>2, <2>3, <2>4, <2>5, <2>7 DEF Next
<1> QED
  BY <1>1, <1>2, HeaderInvariant, PTL DEF Spec

(***************************************************************************)
(* s2e_get_module_info, asked for a module by its path, answers with the   *)
(* first executable mapping whose path contains the file's name, however   *)
(* long the map, and with -1 only when there is none.                      *)
(***************************************************************************)
THEOREM ModuleFoundByPath == Spec => []ModuleByPath
<1>1. ASSUME HeaderInv, info.on, info.opened, ~info.open, info.module.slash
      PROVE  ModuleByPath
  <2>1. info.module \in Modules /\ info.found \in BOOLEAN /\ LoopInStep(info)
    BY <1>1, InfoUnderWay DEF HeaderInv, HeaderInStep, Infos
  <2>2. info.module.base \in Names /\ info.modName = info.module.base
    <3>1. info.module.base \in Names
      BY <1>1, <2>1, NamesOfModules, Zenon
    <3> QED
      BY <1>1, <2>1, <3>1, Zenon DEF LoopInStep
  <2>3. Len(info.maps) \in Nat /\ DOMAIN info.maps = 1..Len(info.maps)
    BY <1>1, InfoUnderWay DEF HeaderInv, HeaderInStep
  <2> DEFINE Fits(i) == /\ info.maps[i].exec /\ info.maps[i].named
                        /\ info.module.base \in info.maps[i].has
             fitting == {i \in DOMAIN info.maps : Fits(i)}
  <2>4. \A i : Taken(info.maps[i], info.modName) <=> Fits(i)
    BY <2>2, HeaderAssumption, Zenon DEF Taken
  <2> HIDE DEF Fits
  <2>5. CASE info.found
    <3>1. info.line \in fitting
      BY <2>1, <2>3, <2>4, <2>5 DEF LoopInStep
    <3>2. \A i \in fitting : info.line <= i
      BY <2>1, <2>3, <2>4 DEF LoopInStep
    <3> QED
      BY <2>5, <3>1, <3>2 DEF ModuleByPath, Fits
  <2>6. CASE ~info.found
    <3>1. fitting = {}
      BY <1>1, <2>1, <2>3, <2>4, <2>6 DEF LoopInStep
    <3> QED
      BY <2>6, <3>1 DEF ModuleByPath, Fits
  <2> QED
    BY <2>5, <2>6
<1>2. HeaderInv => ModuleByPath
  BY <1>1 DEF ModuleByPath
<1> QED
  BY <1>2, HeaderInvariant, PTL
=============================================================================
