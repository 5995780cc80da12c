---------------------------- MODULE RoundProofs ----------------------------
(* Campaign, what a round does to the test programs: no program is run twice *)
(* without a Ctrl-C, "all tested" means that every program was given to a    *)
(* guest, and the campaign implements the queue of TestQueue.                *)

EXTENDS CampaignProofs

-----------------------------------------------------------------------------
(* The program in hand still has its name `test'.                            *)

LEMMA InHandNext ==
  ASSUME TypeOK, InHand, [Next]_vars
  PROVE  InHand'
<1> USE NamesAssumption
<1> USE DEF InHand, Attempt, Waiting
<1>0. nowTest \in Tests \cup {None} /\ file \in [Tests -> {"test", "testdone"}]
  BY DEF TypeOK
<1>1. CASE Start \/ Check \/ AllTested \/ Interrupt
  BY <1>1 DEF Start, Check, AllTested, Interrupt
<1>2. CASE Pick
  BY <1>2 DEF Pick
<1>3. CASE Configure \/ SpawnTimer \/ Boot \/ FailToBoot \/ GuestEnds
  BY <1>3 DEF Configure, SpawnTimer, Boot, FailToBoot, GuestEnds, MachineEnds
<1>4. CASE Rename
  BY <1>4 DEF Rename
<1>5. CASE ResetOne \/ ResetDone
  BY <1>5 DEF ResetOne, ResetDone
<1>6. ASSUME NEW i \in Timers, Poll(i) \/ Kill(i) PROVE InHand'
  BY <1>6 DEF Poll, Kill, Retire, MachineEnds, runnerVars
<1>7. CASE Tick \/ UNCHANGED vars
  BY <1>7 DEF Tick, vars, runnerVars
<1> QED
  BY <1>1, <1>2, <1>3, <1>4, <1>5, <1>6, <1>7 DEF Next, RunnerStep, TimerStep

-----------------------------------------------------------------------------
(* Retries                                                                   *)

LEMMA RetriesNext ==
  ASSUME HasSpace = {}, TypeOK, InHand, RetriesCounted, [Next]_vars
  PROVE  RetriesCounted'
<1> USE NamesAssumption, ClockAssumption
<1> USE DEF RetriesCounted, Waiting
<1>0. /\ nowTest \in Tests \cup {None} /\ file \in [Tests -> {"test", "testdone"}]
      /\ tries \in [Tests -> Nat] /\ cuts \in Nat
      /\ pc \in Attempt => nowTest \in Tests
  BY DEF TypeOK
<1>1. CASE Start \/ Check
  BY <1>0, <1>1 DEF Start, Check, roundVars
<1>2. CASE Pick \/ AllTested
  BY <1>0, <1>2 DEF Pick, AllTested, roundVars
<1>3. CASE Configure \/ SpawnTimer \/ FailToBoot \/ GuestEnds
  BY <1>0, <1>3 DEF Configure, SpawnTimer, FailToBoot, GuestEnds, MachineEnds,
                    roundVars
<1>4. CASE Boot
  <2>1. /\ nowTest \in Tests /\ nowTest \in Waiting /\ tries[nowTest] <= cuts
        /\ pc = "launch" /\ pc' = "run" /\ cuts' = cuts
        /\ file' = file /\ nowTest' = nowTest
    BY <1>0, <1>4 DEF Boot, Attempt, InHand
  <2>2. \A t \in Tests : \/ tries'[t] = tries[t]
                         \/ t = nowTest /\ tries'[t] <= cuts + 1
    BY <1>0, <1>4, <2>1 DEF Boot
  <2> QED
    BY <1>0, <2>1, <2>2
<1>5. CASE Rename
  <2>1. /\ pc = "sleep" /\ pc' = "scan" /\ nowTest \in Tests
        /\ file' = [file EXCEPT ![nowTest] = "testdone"]
        /\ tries' = tries /\ cuts' = cuts /\ nowTest' = nowTest
    BY <1>0, <1>5 DEF Rename, Renamed, roundVars, Attempt
  <2> QED
    BY <1>0, <2>1
<1>6. CASE ResetOne
  BY <1>0, <1>6 DEF ResetOne, roundVars
<1>7. CASE ResetDone
  BY <1>0, <1>7 DEF ResetDone
<1>8. ASSUME NEW i \in Timers, Poll(i) \/ Kill(i) PROVE RetriesCounted'
  BY <1>0, <1>8 DEF Poll, Kill, Retire, MachineEnds, runnerVars, roundVars
<1>9. CASE Interrupt
  BY <1>0, <1>9 DEF Interrupt
<1>10. CASE Tick \/ UNCHANGED vars
  BY <1>0, <1>10 DEF Tick, vars, runnerVars, roundVars
<1> QED
  BY <1>1, <1>2, <1>3, <1>4, <1>5, <1>6, <1>7, <1>8, <1>9, <1>10
  DEF Next, RunnerStep, TimerStep

(* Without blanks in the names (mv never fails), no program is booted more   *)
(* often in a round than Ctrl-C was pressed, plus once: startTest.sh:84-95.  *)
THEOREM NoSilentRerun == ASSUME HasSpace = {} PROVE Spec => []AtMostOnce
<1>1. Init => InHand /\ RetriesCounted
  BY DEF Init, InHand, Attempt, RetriesCounted
<1>2. TypeOK /\ InHand /\ RetriesCounted /\ [Next]_vars
        => InHand' /\ RetriesCounted'
  BY InHandNext, RetriesNext
<1>3. RetriesCounted => AtMostOnce
  BY DEF RetriesCounted, AtMostOnce
<1> QED BY <1>1, <1>2, <1>3, TypeCorrect, PTL DEF Spec

-----------------------------------------------------------------------------
(* Guests                                                                    *)

(* What must be true of names and of S2E for line 89 to serve the right      *)
(* directory and line 93 to boot it.                                         *)
CleanSetup == HasAmp = {} /\ HasHash = {} /\ ~BootMayFail

LEMMA ServedNext ==
  ASSUME CleanSetup, TypeOK, InHand, ServedFirst, [Next]_vars
  PROVE  ServedFirst'
<1> USE NamesAssumption, ClockAssumption
<1> USE DEF ServedFirst, Waiting
<1>0. /\ nowTest \in Tests \cup {None} /\ file \in [Tests -> {"test", "testdone"}]
      /\ pc \in Attempt => nowTest \in Tests
      /\ booted \subseteq Tests
  BY DEF TypeOK
<1>1. CASE Start \/ Check \/ Pick
  BY <1>0, <1>1 DEF Start, Check, Pick, roundVars
<1>2. CASE AllTested
  BY <1>0, <1>2 DEF AllTested, roundVars
<1>3. CASE Configure
  BY <1>0, <1>3 DEF Configure, Rewritten, CleanSetup, roundVars
<1>4. CASE SpawnTimer
  BY <1>0, <1>4 DEF SpawnTimer, roundVars
<1>5. CASE Boot
  BY <1>0, <1>5 DEF Boot, CleanSetup, Attempt, InHand
<1>6. CASE FailToBoot
  BY <1>0, <1>6 DEF FailToBoot, CleanSetup, Attempt
<1>7. CASE GuestEnds
  BY <1>0, <1>7 DEF GuestEnds, MachineEnds, roundVars
<1>8. CASE Rename
  BY <1>0, <1>8 DEF Rename, Renamed, roundVars
<1>9. CASE ResetOne
  BY <1>0, <1>9 DEF ResetOne, roundVars
<1>10. CASE ResetDone
  BY <1>0, <1>10 DEF ResetDone, AllBack
<1>11. ASSUME NEW i \in Timers, Poll(i) \/ Kill(i) PROVE ServedFirst'
  BY <1>0, <1>11 DEF Poll, Kill, Retire, MachineEnds, runnerVars, roundVars
<1>12. CASE Interrupt
  BY <1>0, <1>12 DEF Interrupt
<1>13. CASE Tick \/ UNCHANGED vars
  BY <1>0, <1>13 DEF Tick, vars, runnerVars, roundVars
<1> QED
  BY <1>1, <1>2, <1>3, <1>4, <1>5, <1>6, <1>7, <1>8, <1>9, <1>10, <1>11,
     <1>12, <1>13
  DEF Next, RunnerStep, TimerStep

LEMMA Served ==
  ASSUME CleanSetup PROVE Spec => [](TypeOK /\ InHand /\ ServedFirst)
<1>1. Init => InHand /\ ServedFirst
  BY DEF Init, InHand, Attempt, ServedFirst, Waiting
<1>2. TypeOK /\ InHand /\ ServedFirst /\ [Next]_vars => InHand' /\ ServedFirst'
  BY InHandNext, ServedNext
<1> QED BY <1>1, <1>2, TypeCorrect, PTL DEF Spec

(* The files and the history of a round agree (Campaign's RoundInStep).      *)
THEOREM RoundStaysInStep ==
  ASSUME HasSpace = {}, CleanSetup PROVE Spec => []RoundInStep
<1>1. Init => RoundInStep
  BY DEF Init, InHand, Attempt, RetriesCounted, ServedFirst, Waiting, RoundInStep
<1>2. TypeOK /\ RoundInStep /\ [Next]_vars => RoundInStep'
  BY InHandNext, RetriesNext, ServedNext DEF RoundInStep
<1> QED BY <1>1, <1>2, TypeCorrect, PTL DEF Spec

(* When startTest.sh:97 says that all programs have been tested, every one   *)
(* of them has been given to a guest in this round.                          *)
THEOREM AllTestedIsTrue == ASSUME CleanSetup PROVE Spec => []AllTestedMeansBooted
<1>1. ServedFirst => AllTestedMeansBooted
  BY DEF ServedFirst, AllTestedMeansBooted
<1> QED BY <1>1, Served, PTL

-----------------------------------------------------------------------------
(* The refinement                                                            *)

(* Every step of the campaign is a step of the queue, or leaves it as it is. *)
LEMMA StepSimulation ==
  ASSUME CleanSetup, TypeOK, InHand, ServedFirst, [Next]_vars
  PROVE  [Queue!QueueNext]_Queue!queueVars
<1> USE NamesAssumption, ClockAssumption
<1> USE DEF Waiting, Current, Attempt, Queue!queueVars
<1>0. /\ nowTest \in Tests \cup {None} /\ file \in [Tests -> {"test", "testdone"}]
      /\ pc \in Attempt => nowTest \in Tests
      /\ None \notin Tests
  BY DEF TypeOK
<1>1. CASE Start \/ Check \/ Configure \/ SpawnTimer \/ GuestEnds
  BY <1>0, <1>1 DEF Start, Check, Configure, SpawnTimer, GuestEnds,
                    MachineEnds, roundVars
<1>2. CASE Pick
  <2>1. PICK t \in Tests : t = nowTest' /\ t \in Waiting
    BY <1>0, <1>2 DEF Pick
  <2>2. Queue!Take(t)
    BY <1>0, <1>2, <2>1 DEF Pick, Queue!Take, roundVars
  <2> QED
    BY <2>2 DEF Queue!QueueNext
<1>3. CASE AllTested
  <2>1. Queue!EndRound
    BY <1>0, <1>3 DEF AllTested, Queue!EndRound, roundVars
  <2> QED
    BY <2>1 DEF Queue!QueueNext
<1>4. CASE Boot
  <2>1. Queue!Serve
    BY <1>0, <1>4 DEF Boot, CleanSetup, InHand, ServedFirst, Queue!Serve
  <2> QED
    BY <2>1 DEF Queue!QueueNext
<1>5. CASE FailToBoot
  BY <1>0, <1>5 DEF FailToBoot, CleanSetup, ServedFirst
<1>6. CASE Rename
  <2>1. CASE nowTest \in HasSpace
    <3>1. Queue!Abandon
      BY <1>0, <1>6, <2>1 DEF Rename, Renamed, Queue!Abandon, roundVars
    <3> QED
      BY <3>1 DEF Queue!QueueNext
  <2>2. CASE nowTest \notin HasSpace
    <3>1. Queue!PutAside
      BY <1>0, <1>6, <2>2 DEF Rename, Renamed, ServedFirst, Queue!PutAside,
                              roundVars
    <3> QED
      BY <3>1 DEF Queue!QueueNext
  <2> QED
    BY <2>1, <2>2
<1>7. CASE ResetOne
  <2>1. PICK t \in Tests \ Waiting : file' = [file EXCEPT ![t] = "test"]
    BY <1>7 DEF ResetOne
  <2>2. Queue!PutBack(t)
    BY <1>0, <1>7, <2>1 DEF ResetOne, Queue!PutBack, roundVars
  <2> QED
    BY <2>1, <2>2 DEF Queue!QueueNext
<1>8. CASE ResetDone
  <2>1. Queue!NewRound
    BY <1>0, <1>8 DEF ResetDone, AllBack, Queue!NewRound
  <2> QED
    BY <2>1 DEF Queue!QueueNext
<1>9. ASSUME NEW i \in Timers, Poll(i) \/ Kill(i)
      PROVE  UNCHANGED Queue!queueVars
  BY <1>0, <1>9 DEF Poll, Kill, Retire, MachineEnds, runnerVars, roundVars
<1>10. CASE Interrupt
  <2>1. Queue!Abandon
    BY <1>0, <1>10 DEF Interrupt, Queue!Abandon
  <2> QED
    BY <2>1 DEF Queue!QueueNext
<1>11. CASE Tick \/ UNCHANGED vars
  BY <1>0, <1>11 DEF Tick, vars, runnerVars, roundVars
<1> QED
  BY <1>1, <1>2, <1>3, <1>4, <1>5, <1>6, <1>7, <1>8, <1>9, <1>10, <1>11
  DEF Next, RunnerStep, TimerStep

(* The campaign implements the queue.  Blanks in names do not harm this (an  *)
(* mv that fails abandons the program), they only keep a round from ending.  *)
THEOREM CampaignImplementsQueue == ASSUME CleanSetup PROVE Spec => ImplementsQueue
<1>1. Init => Queue!QueueInit
  BY DEF Init, Queue!QueueInit, Waiting, Current, Attempt
<1>2. TypeOK /\ InHand /\ ServedFirst /\ [Next]_vars
        => [Queue!QueueNext]_Queue!queueVars
  BY StepSimulation
<1> QED BY <1>1, <1>2, Served, PTL DEF Spec, ImplementsQueue, Queue!QueueSpec
=============================================================================
