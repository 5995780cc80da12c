--------------------------- MODULE CampaignProofs ---------------------------
(* Campaign, for every set of tests, every number of timers and every value  *)
(* of the clock constants: the types, then the timers' agreement with the    *)
(* runner, from which the four properties of the timers follow.              *)

EXTENDS CampaignQueue, TLAPS

-----------------------------------------------------------------------------
(* Types                                                                     *)

(* TypeOK holds initially and every step of the campaign preserves it.       *)
LEMMA TypeInit == Init => TypeOK
BY NamesAssumption, ClockAssumption DEF Init, TypeOK, Runner, Attempt

LEMMA TypeNext == TypeOK /\ [Next]_vars => TypeOK'
<1> SUFFICES ASSUME TypeOK, [Next]_vars
             PROVE  TypeOK'
  OBVIOUS
<1> USE NamesAssumption, ClockAssumption
<1>1. CASE Start
  BY <1>1 DEF Start, TypeOK, Runner, Attempt, machineVars, timerVars, roundVars
<1>2. CASE Check
  BY <1>2 DEF Check, TypeOK, Runner, Attempt, machineVars, timerVars, roundVars
<1>3. CASE Pick
  BY <1>3 DEF Pick, TypeOK, Runner, Attempt, machineVars, timerVars, roundVars, Waiting
<1>4. CASE AllTested
  BY <1>4 DEF AllTested, TypeOK, Runner, Attempt, machineVars, timerVars, roundVars
<1>5. CASE Configure
  <2>1. baseDirs' \in Tests \cup {Shipped, Garbled}
    BY <1>5 DEF Configure, TypeOK, Attempt, Rewritten
  <2> QED
    BY <1>5, <2>1 DEF Configure, TypeOK, Runner, Attempt, machineVars, timerVars, roundVars
<1>6. CASE SpawnTimer
  BY <1>6 DEF SpawnTimer, TypeOK, Runner, Attempt, machineVars, roundVars
<1>7. CASE Boot
  BY <1>7 DEF Boot, TypeOK, Runner, Attempt, timerVars, Waiting, TriesCap
<1>8. CASE FailToBoot
  BY <1>8 DEF FailToBoot, TypeOK, Runner, Attempt, machineVars, timerVars, roundVars
<1>9. CASE GuestEnds
  BY <1>9 DEF GuestEnds, MachineEnds, TypeOK, Runner, Attempt, timerVars, roundVars
<1>10. CASE Rename
  BY <1>10 DEF Rename, Renamed, TypeOK, Runner, Attempt, machineVars, timerVars, roundVars
<1>11. CASE ResetOne
  BY <1>11 DEF ResetOne, TypeOK, Runner, Attempt, machineVars, timerVars, roundVars
<1>12. CASE ResetDone
  BY <1>12 DEF ResetDone, TypeOK, Runner, Attempt, machineVars, timerVars
<1>13. ASSUME NEW i \in Timers, Poll(i) PROVE TypeOK'
  <2>1. tpc[i] = "poll" /\ left[i] \in 1..WaitFor
    BY <1>13 DEF Poll, TypeOK
  <2>2. left' \in [Timers -> 0..WaitFor] /\ age' \in [Timers -> 0..PollMax]
    BY <1>13, <2>1 DEF Poll, Counted, TypeOK
  <2>3. tpc' \in [Timers -> {"off", "poll", "kill"}]
    BY <1>13 DEF Poll, TypeOK
  <2>4. \A j \in Timers : (tpc'[j] = "poll") <=> (left'[j] > 0)
    BY <1>13, <2>1 DEF Poll, Counted, Expired, TypeOK
  <2> QED
    BY <1>13, <2>2, <2>3, <2>4
    DEF Poll, TypeOK, Attempt, runnerVars, machineVars, roundVars
<1>14. ASSUME NEW i \in Timers, Kill(i) PROVE TypeOK'
  BY <1>14 DEF Kill, Retire, MachineEnds, TypeOK, Runner, Attempt, runnerVars,
              machineVars, roundVars
<1>15. CASE Interrupt
  BY <1>15 DEF Interrupt, TypeOK, Runner, Attempt, timerVars
<1>16. CASE Tick
  BY <1>16 DEF Tick, TypeOK, Attempt, Live, WaitTarget, runnerVars, roundVars
<1>17. CASE UNCHANGED vars
  BY <1>17 DEF vars, TypeOK, Attempt
<1> QED
  BY <1>1, <1>2, <1>3, <1>4, <1>5, <1>6, <1>7, <1>8, <1>9, <1>10, <1>11,
     <1>12, <1>13, <1>14, <1>15, <1>16, <1>17
  DEF Next, RunnerStep, TimerStep

(* Every variable keeps its type, and vmAge, age, left and cuts their bound. *)
THEOREM TypeCorrect == Spec => []TypeOK
<1> QED BY TypeInit, TypeNext, PTL DEF Spec

-----------------------------------------------------------------------------
(* Timers                                                                    *)

(* Multiplication by a natural number is monotone.                           *)
LEMMA TimesMonotone == \A a, b, c \in Nat : a <= b => a * c <= b * c
BY SMT

(* A machine beside its timer has not reached the cap of its clock.          *)
LEMMA AgeBelowCap ==
  ASSUME TypeOK, GuardInStep, pc = "run"
  PROVE  /\ vmAge <= (WaitFor + 1) * PollMax
         /\ vmAge < AgeCap
<1> USE NamesAssumption, ClockAssumption
<1>1. guard \in Timers /\ vmAge <= Polls * PollMax + age[guard]
  BY DEF GuardInStep, GuardRunning
<1>2. left[guard] \in 0..WaitFor /\ age[guard] \in 0..PollMax /\ vmAge \in Nat
  BY <1>1 DEF TypeOK
<1>3. Polls \in Nat /\ Polls <= WaitFor
  BY <1>2 DEF Polls
<1>4. Polls * PollMax <= WaitFor * PollMax
  BY <1>3, TimesMonotone
<1>5. /\ (WaitFor + 1) * PollMax = WaitFor * PollMax + PollMax
      /\ (WaitFor + 2) * PollMax = WaitFor * PollMax + 2 * PollMax
      /\ WaitFor * PollMax \in Nat /\ Polls * PollMax \in Nat
  BY <1>3
<1> QED
  BY <1>1, <1>2, <1>4, <1>5 DEF AgeCap

(* What TypeOK says of the clocks and the timers.                            *)
LEMMA ClocksTyped ==
  ASSUME TypeOK
  PROVE  /\ wait \in Nat /\ vmAge \in Nat
         /\ tpc \in [Timers -> {"off", "poll", "kill"}]
         /\ left \in [Timers -> 0..WaitFor] /\ age \in [Timers -> 0..PollMax]
         /\ \A i \in Timers : (tpc[i] = "poll") <=> (left[i] > 0)
BY DEF TypeOK

(* A machine and its timer are in step initially, ...                        *)
LEMMA GuardInit == Init => GuardInStep
BY NamesAssumption, ClockAssumption
DEF Init, GuardInStep, MachineOnlyInRun, GuardLaunching, GuardRunning

(* ... and stay so, if QEMU shows in `ps' before the timer's first poll.     *)
(* Another timer's poll does not touch the guard, its kill ends the machine. *)
LEMMA GuardNext ==
  ASSUME LaunchMax < Second, TypeOK, GuardInStep, [Next]_vars
  PROVE  GuardInStep'
<1> USE NamesAssumption, ClockAssumption
<1> USE DEF GuardInStep, MachineOnlyInRun, GuardLaunching, GuardRunning, Live
<1>0. /\ wait \in Nat /\ vmAge \in Nat /\ tpc \in [Timers -> {"off", "poll", "kill"}]
      /\ left \in [Timers -> 0..WaitFor] /\ age \in [Timers -> 0..PollMax]
      /\ \A i \in Timers : (tpc[i] = "poll") <=> (left[i] > 0)
  BY ClocksTyped
<1>1. CASE Start
  BY <1>1 DEF Start, machineVars, timerVars
<1>2. CASE Check
  BY <1>2 DEF Check, machineVars, timerVars
<1>3. CASE Pick
  BY <1>3 DEF Pick, machineVars, timerVars
<1>4. CASE AllTested
  BY <1>4 DEF AllTested, machineVars, timerVars
<1>5. CASE Configure
  BY <1>5 DEF Configure, machineVars, timerVars
<1>6. CASE SpawnTimer
  BY <1>0, <1>6 DEF SpawnTimer, machineVars
<1>7. CASE Boot
  BY <1>0, <1>7 DEF Boot, timerVars, Polls, TypeOK
<1>8. CASE FailToBoot
  BY <1>8 DEF FailToBoot, machineVars, timerVars
<1>9. CASE GuestEnds
  BY <1>9 DEF GuestEnds, MachineEnds, timerVars
<1>10. CASE Rename
  BY <1>10 DEF Rename, machineVars, timerVars
<1>11. CASE ResetOne
  BY <1>11 DEF ResetOne, machineVars, timerVars
<1>12. CASE ResetDone
  BY <1>12 DEF ResetDone, machineVars, timerVars
<1>13. ASSUME NEW i \in Timers, Poll(i) PROVE GuardInStep'
  <2> USE <1>0, <1>13 DEF Poll, PollDue, MachineGone, Counted, Expired,
                          runnerVars, machineVars
  <2>1. CASE pc = "run" /\ i = guard
    <3>1. vm # None /\ vm' # None /\ pc' = "run"
      BY <2>1
    <3>2. /\ left'[guard] = left[guard] - 1
          /\ age'[guard] = 0 /\ guard' = guard
          /\ vmAge' = vmAge
          /\ tpc'[guard] # "off"
      BY <2>1, <3>1
    <3>3. Polls \in Nat /\ Polls' = Polls + 1
      BY <2>1, <3>2 DEF Polls
    <3>4. /\ Polls' * Second = Polls * Second + Second
          /\ Polls' * PollMax = Polls * PollMax + PollMax
          /\ Polls * Second \in Nat /\ Polls * PollMax \in Nat
      BY <3>3
    <3>5. GuardRunning'
      BY <2>1, <3>1, <3>2, <3>4
    <3> QED
      BY <2>1, <3>1, <3>5
  <2>2. CASE pc = "run" /\ i # guard
    BY <2>2 DEF Polls
  <2>3. CASE pc = "launch"
    <3>1. age[guard] < Second
      BY <2>3
    <3>2. i # guard
      BY <3>1
    <3> QED
      BY <2>3, <3>2
  <2>4. CASE pc \notin {"run", "launch"}
    BY <2>4
  <2> QED
    BY <2>1, <2>2, <2>3, <2>4
<1>14. ASSUME NEW i \in Timers, Kill(i) PROVE GuardInStep'
  BY <1>0, <1>14 DEF Kill, Retire, MachineEnds, runnerVars, machineVars
<1>15. CASE Interrupt
  BY <1>15 DEF Interrupt, timerVars
<1>16. CASE Tick
  <2> USE <1>0, <1>16 DEF Tick, runnerVars
  <2>1. CASE pc = "run"
    <3>1. vmAge' = vmAge + 1
      BY <2>1, AgeBelowCap
    <3>2. guard' = guard /\ age'[guard] = age[guard] + 1 /\ Polls' = Polls
      BY <2>1 DEF Polls
    <3>3. Polls * Second \in Nat /\ Polls * PollMax \in Nat
      BY <2>1 DEF Polls
    <3>4. GuardRunning'
      BY <2>1, <3>1, <3>2, <3>3
    <3> QED
      BY <2>1, <3>4
  <2>2. CASE pc = "launch"
    <3>1. wait' = wait + 1 /\ age'[guard] = age[guard] + 1
      BY <2>2 DEF WaitTarget
    <3> QED
      BY <2>2, <3>1
  <2>3. CASE pc \notin {"run", "launch"}
    BY <2>3
  <2> QED
    BY <2>1, <2>2, <2>3
<1>17. CASE UNCHANGED vars
  BY <1>17 DEF vars, Polls
<1> QED
  BY <1>1, <1>2, <1>3, <1>4, <1>5, <1>6, <1>7, <1>8, <1>9, <1>10, <1>11,
     <1>12, <1>13, <1>14, <1>15, <1>16, <1>17
  DEF Next, RunnerStep, TimerStep

(* Timers and runner are in step initially ...                               *)
LEMMA InStepInit == Init => TimersInStep
BY NamesAssumption, ClockAssumption, GuardInit
DEF Init, TimersInStep, NoneLeft, Outlasted, OnlyGuard, Live

(* ... and every step keeps them so.                                         *)
LEMMA InStepNext ==
  ASSUME ClocksFit, TypeOK, TimersInStep, [Next]_vars
  PROVE  TimersInStep'
<1> USE NamesAssumption, ClockAssumption
<1>g. GuardInStep'
  BY GuardNext DEF TimersInStep, ClocksFit
<1> SUFFICES NoneLeft' /\ Outlasted' /\ OnlyGuard'
  BY <1>g DEF TimersInStep
<1>m. vm # None <=> pc = "run"
  BY DEF TimersInStep, GuardInStep, MachineOnlyInRun
<1>l. pc = "launch" => guard \in Timers /\ age[guard] = wait /\ wait <= LaunchMax
  BY DEF TimersInStep, GuardInStep, GuardLaunching
<1> USE DEF TimersInStep, NoneLeft, Outlasted, OnlyGuard, Live
<1>0. /\ wait \in Nat /\ tpc \in [Timers -> {"off", "poll", "kill"}]
      /\ left \in [Timers -> 0..WaitFor] /\ age \in [Timers -> 0..PollMax]
      /\ \A i \in Timers : (tpc[i] = "poll") <=> (left[i] > 0)
  BY ClocksTyped
<1>1. CASE Start
  BY <1>0, <1>1 DEF Start, ClocksFit, machineVars, timerVars
<1>2. CASE Check
  BY <1>2 DEF Check, machineVars, timerVars
<1>3. CASE Pick
  BY <1>3 DEF Pick, machineVars, timerVars
<1>4. CASE AllTested
  BY <1>4 DEF AllTested, machineVars, timerVars
<1>5. CASE Configure
  BY <1>5 DEF Configure, machineVars, timerVars
<1>6. CASE SpawnTimer
  BY <1>0, <1>6 DEF SpawnTimer, machineVars
<1>7. CASE Boot
  BY <1>0, <1>7 DEF Boot, timerVars
<1>8. CASE FailToBoot
  BY <1>0, <1>8 DEF FailToBoot, machineVars, timerVars
<1>9. CASE GuestEnds
  BY <1>0, <1>9 DEF GuestEnds, MachineEnds, timerVars
<1>10. CASE Rename
  BY <1>0, <1>10 DEF Rename, ClocksFit, Gap, machineVars, timerVars
<1>11. CASE ResetOne
  BY <1>11 DEF ResetOne, machineVars, timerVars
<1>12. CASE ResetDone
  BY <1>12 DEF ResetDone, machineVars, timerVars
<1>13. ASSUME NEW i \in Timers, Poll(i)
       PROVE  NoneLeft' /\ Outlasted' /\ OnlyGuard'
  <2> USE <1>0, <1>13, <1>m, <1>l DEF Poll, PollDue, MachineGone, Counted, Expired,
                          runnerVars, machineVars
  <2>1. CASE pc \in {"run", "launch"}
    BY <2>1
  <2>2. CASE pc \notin {"run", "launch"}
    BY <2>2
  <2> QED
    BY <2>1, <2>2
<1>14. ASSUME NEW i \in Timers, Kill(i)
       PROVE  NoneLeft' /\ Outlasted' /\ OnlyGuard'
  BY <1>0, <1>14, <1>m DEF Kill, Retire, MachineEnds, runnerVars, machineVars
<1>15. CASE Interrupt
  BY <1>0, <1>15 DEF Interrupt, timerVars
<1>16. CASE Tick
  <2> USE <1>0, <1>16 DEF Tick, runnerVars
  <2>1. CASE pc \in {"sleep", "off"}
    <3>1. wait' <= wait + 1 /\ wait' \in Nat
      OBVIOUS
    <3>2. \A i \in Timers : Live(i) => age'[i] = age[i] + 1
      OBVIOUS
    <3> QED
      BY <2>1, <3>1, <3>2
  <2>2. CASE pc \notin {"sleep", "off"}
    BY <2>2
  <2> QED
    BY <2>1, <2>2
<1>17. CASE UNCHANGED vars
  BY <1>17 DEF vars
<1> QED
  BY <1>1, <1>2, <1>3, <1>4, <1>5, <1>6, <1>7, <1>8, <1>9, <1>10, <1>11,
     <1>12, <1>13, <1>14, <1>15, <1>16, <1>17
  DEF Next, RunnerStep, TimerStep

(* If QEMU shows before the first poll, a machine and its own timer stay in  *)
(* step: also beside timers of a campaign the operator stopped a moment ago. *)
THEOREM GuardStaysInStep ==
  ASSUME LaunchMax < Second PROVE Spec => [](TypeOK /\ GuardInStep)
<1>1. Init => TypeOK /\ GuardInStep
  BY TypeInit, GuardInit
<1>2. TypeOK /\ GuardInStep /\ [Next]_vars => (TypeOK /\ GuardInStep)'
  BY TypeNext, GuardNext
<1> QED BY <1>1, <1>2, PTL DEF Spec

(* Given clocks that fit, timers and runner stay in step.                    *)
THEOREM StayInStep == ASSUME ClocksFit PROVE Spec => [](TypeOK /\ TimersInStep)
<1>1. Init => TypeOK /\ TimersInStep
  BY TypeInit, InStepInit
<1>2. TypeOK /\ TimersInStep /\ [Next]_vars => (TypeOK /\ TimersInStep)'
  BY TypeNext, InStepNext
<1> QED BY <1>1, <1>2, PTL DEF Spec

(* No timer of an earlier attempt, or of a campaign stopped by Ctrl-C, is    *)
(* alive beside a running machine: startTest.sh:94 against timer.sh:4.       *)
THEOREM NoStrayTimer == ASSUME ClocksFit PROVE Spec => []OwnTimerOnly
<1>1. TypeOK /\ TimersInStep => OwnTimerOnly
  BY DEF TimersInStep, GuardInStep, MachineOnlyInRun, OnlyGuard, OwnTimerOnly
<1> QED BY <1>1, StayInStep, PTL

(* No machine runs without its timer: timer.sh:4 against the time that QEMU  *)
(* takes to show in ps.  How soon the operator starts again is no matter.    *)
THEOREM NoUnguardedMachine == ASSUME LaunchMax < Second PROVE Spec => []Guarded
<1>1. TypeOK /\ GuardInStep => Guarded
  BY DEF GuardInStep, MachineOnlyInRun, GuardRunning, Guarded
<1> QED BY <1>1, GuardStaysInStep, PTL

(* No machine outlives what its timer grants, whatever its guest does and    *)
(* whatever timers were left behind.                                         *)
THEOREM NoMachineOutlives == ASSUME LaunchMax < Second PROVE Spec => []TimeBound
<1>1. TypeOK /\ GuardInStep => TimeBound
  BY AgeBelowCap DEF GuardInStep, MachineOnlyInRun, TimeBound
<1> QED BY <1>1, GuardStaysInStep, PTL

(* The timer of a machine that is about to kill it has given it its time.    *)
LEMMA GuardGivesTime ==
  ASSUME TypeOK, GuardInStep, guard \in Timers
  PROVE  FullTime(guard)
<1> SUFFICES ASSUME tpc[guard] = "kill", vm # None
             PROVE  vmAge + LaunchMax >= WaitFor * Second
  BY DEF FullTime
<1>1. pc = "run"
  BY DEF GuardInStep, MachineOnlyInRun
<1>2. left[guard] = 0 /\ age[guard] \in Nat /\ WaitFor \in Nat /\ Second \in Nat
  BY ClockAssumption DEF TypeOK
<1>3. Polls * Second = WaitFor * Second /\ WaitFor * Second \in Nat
  BY <1>2 DEF Polls
<1>4. vmAge + LaunchMax >= Polls * Second + age[guard]
  BY <1>1 DEF GuardInStep, GuardRunning
<1>5. vmAge + LaunchMax \in Nat
  BY ClockAssumption DEF TypeOK
<1> QED
  BY <1>2, <1>3, <1>4, <1>5

(* A machine's own timer does not kill it early, however soon the operator   *)
(* starts again: only a timer that was left behind can.                      *)
THEOREM OwnTimerKillsInTime ==
  ASSUME LaunchMax < Second
  PROVE  Spec => [][\A i \in Timers : Kill(i) /\ i = guard => FullTime(i)]_vars
<1>1. TypeOK /\ GuardInStep => \A i \in Timers : Kill(i) /\ i = guard => FullTime(i)
  BY GuardGivesTime
<1> QED BY <1>1, GuardStaysInStep, PTL

(* No machine is killed before it had its time: timer.sh:19 only ends the    *)
(* machine whose timer has counted waitfor down to 0.                        *)
THEOREM KillsInTime == ASSUME ClocksFit PROVE Spec => NoEarlyKill
<1>1. ASSUME TypeOK, TimersInStep, NEW i \in Timers
      PROVE  FullTime(i)
  <2>1. CASE tpc[i] = "kill" /\ vm # None
    <3>1. i = guard
      BY <1>1, <2>1 DEF TimersInStep, GuardInStep, MachineOnlyInRun, OnlyGuard, Live
    <3> QED
      BY <1>1, <3>1, GuardGivesTime DEF TimersInStep
  <2>2. CASE ~(tpc[i] = "kill" /\ vm # None)
    BY <2>2 DEF FullTime
  <2> QED
    BY <2>1, <2>2
<1>2. TypeOK /\ TimersInStep => \A i \in Timers : Kill(i) => FullTime(i)
  BY <1>1
<1> QED BY <1>2, StayInStep, PTL DEF NoEarlyKill
=============================================================================
