---------------------------- MODULE KernelProofs ----------------------------
(* Proofs about the preparation of a kernel tree: every variable keeps its   *)
(* type, and BuildInStep is inductive.  Each of its parts has a lemma that   *)
(* every command, failure, Ctrl-C and restart keeps it, given the parts it   *)
(* rests on; the properties of KernelBuild follow from the whole.            *)

EXTENDS KernelBuild, TLAPS

(* The commands of each script, one after the other.                         *)
LEMMA FlowOfScripts ==
  /\ Scripts = {"checkKernel", "onlykint", "onlyinsert", "insertall", "onlybzImage"}
  /\ After("checkKernel", "begin") = "gate" /\ After("checkKernel", "gate") = "fix"
  /\ After("checkKernel", "fix") = "allyesconfig"
  /\ After("checkKernel", "allyesconfig") = "kint" /\ After("checkKernel", "kint") = "cd"
  /\ After("checkKernel", "pintck") = "insert" /\ After("checkKernel", "insert") = "back"
  /\ After("checkKernel", "loop") = "header"
  /\ After("checkKernel", "header") = "mrproper"
  /\ After("checkKernel", "mrproper") = "defconfig"
  /\ After("checkKernel", "defconfig") = "make" /\ After("checkKernel", "make") = "start"
  /\ After("onlykint", "begin") = "gate" /\ After("onlykint", "gate") = "fix"
  /\ After("onlykint", "fix") = "allyesconfig"
  /\ After("onlykint", "allyesconfig") = "kint" /\ After("onlykint", "kint") = "end"
  /\ After("onlyinsert", "begin") = "cd" /\ After("onlyinsert", "pintck") = "insert"
  /\ After("onlyinsert", "insert") = "back" /\ After("onlyinsert", "loop") = "header"
  /\ After("onlyinsert", "header") = "end"
  /\ After("insertall", "begin") = "pintck" /\ After("insertall", "pintck") = "insert"
  /\ After("insertall", "insert") = "header" /\ After("insertall", "header") = "end"
  /\ After("onlybzImage", "begin") = "mrproper"
  /\ After("onlybzImage", "mrproper") = "defconfig"
  /\ After("onlybzImage", "defconfig") = "make" /\ After("onlybzImage", "make") = "end"
<1>1. Scripts = {"checkKernel", "onlykint", "onlyinsert", "insertall", "onlybzImage"}
  BY DEF Scripts, Flow
<1> QED
  BY <1>1 DEF After, Flow

-----------------------------------------------------------------------------
(* Types, and which script has which command.                                *)
TypeFlow == TypeOK /\ InFlow

LEMMA TypeFlowInit == Init => TypeFlow
<1> SUFFICES ASSUME Init PROVE TypeFlow
  OBVIOUS
<1>1. script \in Scripts /\ cwd \in Places /\ oldcwd \in Places
  BY FlowOfScripts DEF Init, Places
<1>2. ll \in [Dirs -> Freshness]
  BY DEF Init, Freshness
<1>3. report \in [Places -> [Dirs -> Freshness]]
  BY DEF Init, Freshness
<1>4. calls \in [Dirs -> 0..MaxCalls]
  BY BuildAssumption DEF Init
<1>5. /\ op = "end" /\ fixed = FALSE /\ config = "none" /\ header = FALSE
      /\ torn = FALSE /\ byHand = FALSE /\ turn = 1 /\ snapped = FALSE
  BY Zenon DEF Init
<1>6. /\ bzImage \in (SUBSET Dirs) \cup {NoImage} /\ blind \in SUBSET Dirs
      /\ runtest \in SUBSET Dirs
  BY Zenon DEF Init
<1>7. faults \in 0..MaxFaults
  BY BuildAssumption DEF Init
<1>8. InFlow
  BY DEF Init, InFlow
<1>9. /\ fixed \in BOOLEAN /\ header \in BOOLEAN /\ torn \in BOOLEAN
      /\ byHand \in BOOLEAN /\ snapped \in BOOLEAN
  BY <1>5, Zenon
<1>10. turn \in 1..3
  BY DEF Init
<1>11. /\ op \in {"gate", "fix", "allyesconfig", "kint", "cd", "pintck", "insert",
                   "back", "header", "mrproper", "defconfig", "make", "start", "end"}
       /\ config \in {"none", "allyes", "i386"}
  BY <1>5
<1>12. TypeOK
  BY <1>1, <1>2, <1>3, <1>4, <1>6, <1>7, <1>9, <1>11, <1>10, Zenon DEF TypeOK
<1> QED
  BY <1>8, <1>12 DEF TypeFlow

(* The command after each command, and what a new script begins with.        *)
LEMMA NextCommand ==
  ASSUME TypeFlow
  PROVE  /\ op = "gate" => After(script, op) = "fix"
         /\ op = "fix" => After(script, op) = "allyesconfig"
         /\ op = "allyesconfig" => After(script, op) = "kint"
         /\ op = "kint" => After(script, op) =
               IF script = "checkKernel" THEN "cd" ELSE "end"
         /\ op = "pintck" => After(script, op) = "insert"
         /\ op = "insert" => After(script, op) =
               IF script = "insertall" THEN "header" ELSE "back"
         /\ op = "back" => After(script, "loop") = "header"
         /\ op = "header" => After(script, op) =
               IF script = "checkKernel" THEN "mrproper" ELSE "end"
         /\ op = "mrproper" => After(script, op) = "defconfig"
         /\ op = "defconfig" => After(script, op) = "make"
         /\ op = "make" => After(script, op) =
               IF script = "checkKernel" THEN "start" ELSE "end"
BY FlowOfScripts DEF TypeFlow, InFlow

LEMMA Launched ==
  ASSUME Launch
  PROVE  /\ script' = "checkKernel" \/ script' = "onlykint" => op' = "gate"
         /\ script' = "onlyinsert" => op' = "cd"
         /\ script' = "insertall" => op' = "pintck"
         /\ script' = "onlybzImage" => op' = "mrproper"
         /\ script' \in {"checkKernel", "onlykint", "onlyinsert", "insertall",
                         "onlybzImage"}
         /\ cwd' = "kernel" /\ turn' = 1
BY FlowOfScripts, OfferedAssumption DEF Launch

(* What a command that was cut short may have done.                          *)
LEMMA CutEffects ==
  ASSUME TypeFlow, CutShort
  PROVE  /\ ll' \in [Dirs -> Freshness]
         /\ report' \in [Places -> [Dirs -> Freshness]]
         /\ calls' \in [Dirs -> 0..MaxCalls]
         /\ config' \in {"none", "allyes", "i386"}
         /\ bzImage' \in (SUBSET Dirs) \cup {NoImage} /\ blind' \in SUBSET Dirs
         /\ cwd' \in Places /\ oldcwd' \in Places
         /\ turn' = turn /\ fixed' = fixed /\ header' = header
         /\ op # "mrproper" => cwd' = cwd /\ oldcwd' = oldcwd /\ config' = config
         /\ op # "insert" => calls' = calls /\ blind' = blind
         /\ \A d \in Dirs : calls[d] > 0 => calls'[d] > 0
         /\ \A d \in Dirs : ll[d] # "none" => ll'[d] # "none"
         /\ op \notin {"kint", "mrproper"} => bzImage' = bzImage
<1> USE BuildAssumption DEF TypeFlow, TypeOK, shellVars, treeVars
<1>1. CASE KintCut
  <2>1. ll' \in [Dirs -> Freshness] /\ \A d \in Dirs : ll[d] # "none" => ll'[d] # "none"
    BY <1>1 DEF KintCut, Freshness
  <2>2. bzImage' \in (SUBSET Dirs) \cup {NoImage}
    BY <1>1 DEF KintCut, Inserted
  <2> QED
    BY <1>1, <2>1, <2>2 DEF KintCut
<1>2. CASE PintckCut
  <2>1. report' \in [Places -> [Dirs -> Freshness]]
    BY <1>2 DEF PintckCut, PintckOf, Freshness
  <2> QED
    BY <1>2, <2>1 DEF PintckCut
<1>3. CASE InsertCut
  <2>1. PICK done \in SUBSET Reported : InsertInto(done)
    BY <1>3 DEF InsertCut
  <2>2. \A f \in Freshness : Aged(f) \in Freshness /\ (f # "none" => Aged(f) # "none")
    BY DEF Aged, Freshness
  <2>3. report' \in [Places -> [Dirs -> Freshness]] /\ ll' \in [Dirs -> Freshness]
    BY <2>1, <2>2 DEF InsertInto
  <2>4. calls' \in [Dirs -> 0..MaxCalls] /\ \A d \in Dirs : calls[d] > 0 => calls'[d] > 0
    BY <2>1 DEF InsertInto
  <2>5. \A d \in Dirs : ll[d] # "none" => ll'[d] # "none"
    BY <2>1, <2>2 DEF InsertInto
  <2>6. blind' \in SUBSET Dirs
    BY <2>1 DEF InsertInto, Reported
  <2> QED
    BY <1>3, <2>3, <2>4, <2>5, <2>6 DEF InsertCut
<1>4. CASE MrproperCut
  BY <1>4 DEF MrproperCut, Places
<1>5. CASE UNCHANGED <<shellVars, treeVars>>
  BY <1>5
<1> QED
  BY <1>1, <1>2, <1>3, <1>4, <1>5 DEF CutShort

LEMMA TypeFlowNext == TypeFlow /\ [Next]_vars => TypeFlow'
<1> SUFFICES ASSUME TypeFlow, [Next]_vars PROVE TypeFlow'
  OBVIOUS
<1> USE BuildAssumption, FlowOfScripts DEF TypeFlow, TypeOK, InFlow
<1>1. CASE Launch
  <2>1. op' \in {"gate", "cd", "pintck", "mrproper"}
    <3>1. script' \in {"checkKernel", "onlykint", "onlyinsert", "insertall",
                       "onlybzImage"} /\ op' = After(script', "begin")
      BY <1>1, Launched DEF Launch
    <3> QED
      BY <3>1
  <2>2. /\ op' = "gate" => script' \in {"checkKernel", "onlykint"}
        /\ op' = "cd" => script' = "onlyinsert"
        /\ op' = "pintck" => script' = "insertall"
        /\ op' = "mrproper" => script' = "onlybzImage"
    <3>1. script' \in {"checkKernel", "onlykint", "onlyinsert", "insertall",
                       "onlybzImage"} /\ op' = After(script', "begin")
      BY <1>1, Launched DEF Launch
    <3> QED
      BY <3>1
  <2>3. cwd' \in Places /\ oldcwd' \in Places
    BY <1>1 DEF Launch, Places
  <2>4. TypeOK'
    BY <1>1, <2>1, <2>3, Launched DEF Launch, treeVars, snapshotVars
  <2>5. byHand' = (byHand \/ script' \in {"onlyinsert", "insertall"})
    BY <1>1 DEF Launch
  <2>6. InFlow'
    BY <2>1, <2>2, <2>5
  <2> QED
    BY <2>4, <2>6
<1>2. CASE Gate
  BY <1>2 DEF Gate, At, SaysInserted, shellVars, treeVars, snapshotVars, historyVars
<1>3. CASE Fix
  BY <1>3 DEF Fix, At, Goes, shellVars, snapshotVars, historyVars
<1>4. CASE AllYesConfig
  BY <1>4 DEF AllYesConfig, At, Goes, shellVars, snapshotVars, historyVars
<1>5. CASE KintBuild
  <2>1. ll' \in [Dirs -> Freshness]
    BY <1>5 DEF KintBuild, Freshness
  <2>2. bzImage' \in (SUBSET Dirs) \cup {NoImage}
    BY <1>5 DEF KintBuild, Inserted
  <2> QED
    BY <1>5, <2>1, <2>2 DEF KintBuild, At, Goes, shellVars, snapshotVars, historyVars
<1>6. CASE Cd
  <2>1. Loop[turn] \in Places
    BY DEF Loop, Places, Dirs
  <2> QED
    BY <1>6, <2>1 DEF Cd, At, treeVars, snapshotVars, historyVars, Places
<1>7. CASE Pintck
  <2>1. report' \in [Places -> [Dirs -> Freshness]]
    BY <1>7 DEF Pintck, PintckOf, Freshness
  <2> QED
    BY <1>7, <2>1 DEF Pintck, At, Goes, shellVars, snapshotVars, historyVars
<1>8. CASE Insert
  <2>1. \A f \in Freshness : Aged(f) \in Freshness
    BY DEF Aged, Freshness
  <2>2. report' \in [Places -> [Dirs -> Freshness]] /\ ll' \in [Dirs -> Freshness]
    BY <1>8, <2>1 DEF Insert, InsertInto
  <2>3. calls' \in [Dirs -> 0..MaxCalls]
    BY <1>8 DEF Insert, InsertInto
  <2> QED
    BY <1>8, <2>2, <2>3
    DEF Insert, InsertInto, Reported, At, Goes, shellVars, snapshotVars, historyVars
<1>9. CASE Back
  <2>1. cwd' \in Places
    BY <1>9 DEF Back, CameBack, Places
  <2>2. /\ script' = script /\ oldcwd' = cwd
        /\ turn' \in 1..3 /\ op' \in {"cd", "header"}
        /\ script \in {"checkKernel", "onlyinsert"}
    BY <1>9 DEF Back, At, LastTurn
  <2> QED
    BY <1>9, <2>1, <2>2 DEF Back, treeVars, snapshotVars, historyVars
<1>10. CASE CopyHeader
  BY <1>10 DEF CopyHeader, At, Goes, shellVars, snapshotVars, historyVars
<1>11. CASE Mrproper
  BY <1>11 DEF Mrproper, At, Goes, snapshotVars, historyVars, Places
<1>12. CASE DefConfig
  BY <1>12 DEF DefConfig, At, Goes, shellVars, snapshotVars, historyVars
<1>13. CASE Make
  <2>1. bzImage' \in (SUBSET Dirs) \cup {NoImage}
    BY <1>13 DEF Make, Inserted
  <2> QED
    BY <1>13, <2>1 DEF Make, At, Goes, shellVars, snapshotVars, historyVars
<1>14. CASE StartTest
  BY <1>14 DEF StartTest, At, shellVars, treeVars, snapshotVars, historyVars
<1>15. CASE Fail
  <2>1. op' = IF op = "cd" THEN "pintck" ELSE After(script, op)
    BY <1>15 DEF Fail
  <2> QED
    BY <1>15, <2>1, CutEffects, NextCommand DEF Fail, snapshotVars
<1>16. CASE Interrupt
  BY <1>16, CutEffects DEF Interrupt, At, snapshotVars
<1>18. CASE NotInKernel
  BY <1>18, OfferedAssumption
  DEF NotInKernel, At, shellVars, treeVars, snapshotVars, historyVars
<1>19. CASE TakeSnapshot
  <2>1. runtest' \in SUBSET Dirs
    BY <1>19 DEF TakeSnapshot
  <2> QED
    BY <1>19, <2>1 DEF TakeSnapshot, At, shellVars, treeVars, historyVars
<1>17. CASE UNCHANGED vars
  BY <1>17 DEF vars
<1> QED
  BY <1>1, <1>2, <1>3, <1>4, <1>5, <1>6, <1>7, <1>8, <1>9, <1>10, <1>11, <1>12,
     <1>13, <1>14, <1>15, <1>16, <1>17, <1>18, <1>19 DEF Next

LEMMA TypeFlowHolds == Spec => []TypeFlow
BY TypeFlowInit, TypeFlowNext, PTL DEF Spec

(* Every variable of the tree keeps its type, for any kernel.                *)
THEOREM TreeTyped == Spec => []TypeOK
<1>1. TypeFlow => TypeOK
  BY DEF TypeFlow
<1> QED
  BY <1>1, TypeFlowHolds, PTL

(* The working directory.                                                    *)
LEMMA InPlaceNext ==
  ASSUME TypeFlow, InPlace, [Next]_vars
  PROVE  InPlace'
<1> USE NextCommand
    DEF InPlace, LoopReturns, TypeFlow, InFlow, At, Goes, shellVars, treeVars,
        snapshotVars, historyVars
<1>1. CASE Launch
  BY <1>1, Launched DEF Launch
<1>18. CASE NotInKernel
  BY <1>18 DEF NotInKernel
<1>19. CASE TakeSnapshot
  BY <1>19 DEF TakeSnapshot
<1>2. CASE Gate
  BY <1>2 DEF Gate, SaysInserted
<1>3. CASE Fix
  BY <1>3 DEF Fix
<1>4. CASE AllYesConfig
  BY <1>4 DEF AllYesConfig
<1>5. CASE KintBuild
  BY <1>5 DEF KintBuild
<1>6. CASE Cd
  <2>1. Present = Dirs => Loop[turn] \in Present
    BY DEF Loop, Dirs, TypeOK
  <2> QED
    BY <1>6, <2>1 DEF Cd
<1>7. CASE Pintck
  BY <1>7 DEF Pintck
<1>8. CASE Insert
  BY <1>8 DEF Insert
<1>9. CASE Back
  <2>1. (script = "onlyinsert" => Present = Dirs /\ faults = 0) => cwd' = "kernel"
    BY <1>9 DEF Back, CameBack
  <2> QED
    BY <1>9, <2>1 DEF Back, LastTurn
<1>10. CASE CopyHeader
  BY <1>10 DEF CopyHeader
<1>11. CASE Mrproper
  BY <1>11 DEF Mrproper
<1>12. CASE DefConfig
  BY <1>12 DEF DefConfig
<1>13. CASE Make
  BY <1>13 DEF Make
<1>14. CASE StartTest
  BY <1>14 DEF StartTest
<1>15. CASE Fail
  <2>1. faults' # 0
    BY <1>15 DEF Fail, TypeOK
  <2>2. op' = IF op = "cd" THEN "pintck" ELSE After(script, op)
    BY <1>15 DEF Fail
  <2>3. /\ CutShort /\ script' = script
        /\ op \in {"fix", "allyesconfig", "kint", "cd", "pintck", "insert", "header",
                  "mrproper", "defconfig", "make"}
    BY <1>15 DEF Fail
  <2>4. op # "mrproper" => cwd' = cwd /\ turn' = turn
    BY <2>3, CutEffects
  <2> QED
    BY <2>1, <2>2, <2>3, <2>4
<1>16. CASE Interrupt
  BY <1>16, CutEffects DEF Interrupt
<1>17. CASE UNCHANGED vars
  BY <1>17 DEF vars
<1> QED
  BY <1>1, <1>2, <1>3, <1>4, <1>5, <1>6, <1>7, <1>8, <1>9, <1>10, <1>11, <1>12,
     <1>13, <1>14, <1>15, <1>16, <1>17, <1>18, <1>19 DEF Next

(* The header comes last, and kint-build is prepared.                        *)
LEMMA BeforeHeaderNext ==
  ASSUME TypeFlow, InPlace, BeforeHeader, [Next]_vars
  PROVE  BeforeHeader'
<1> USE NextCommand
    DEF BeforeHeader, InLoop, TypeOK, TypeFlow, InFlow, At, Goes, shellVars,
        treeVars, snapshotVars, historyVars
<1>1. CASE Launch
  BY <1>1, Launched DEF Launch
<1>18. CASE NotInKernel
  BY <1>18 DEF NotInKernel
<1>19. CASE TakeSnapshot
  BY <1>19 DEF TakeSnapshot
<1>2. CASE Gate
  BY <1>2 DEF Gate, SaysInserted
<1>3. CASE Fix
  BY <1>3 DEF Fix
<1>4. CASE AllYesConfig
  BY <1>4 DEF AllYesConfig
<1>5. CASE KintBuild
  BY <1>5 DEF KintBuild
<1>6. CASE Cd
  BY <1>6 DEF Cd
<1>7. CASE Pintck
  BY <1>7 DEF Pintck
<1>8. CASE Insert
  BY <1>8 DEF Insert
<1>9. CASE Back
  BY <1>9 DEF Back, LastTurn
<1>10. CASE CopyHeader
  BY <1>10 DEF CopyHeader
<1>11. CASE Mrproper
  BY <1>11 DEF Mrproper
<1>12. CASE DefConfig
  BY <1>12 DEF DefConfig
<1>13. CASE Make
  BY <1>13 DEF Make
<1>14. CASE StartTest
  BY <1>14 DEF StartTest
<1>15. CASE Fail
  <2>1. faults' # 0
    BY <1>15 DEF Fail
  <2>2. op' = IF op = "cd" THEN "pintck" ELSE After(script, op)
    BY <1>15 DEF Fail
  <2>3. header' = header /\ script' = script /\ byHand' = byHand
    BY <1>15, CutEffects DEF Fail
  <2>4. op \in {"fix", "allyesconfig", "kint", "cd", "pintck", "insert", "header",
               "mrproper", "defconfig", "make"}
    BY <1>15 DEF Fail
  <2> QED
    BY <2>1, <2>2, <2>3, <2>4
<1>16. CASE Interrupt
  BY <1>16, CutEffects DEF Interrupt
<1>17. CASE UNCHANGED vars
  BY <1>17 DEF vars
<1> QED
  BY <1>1, <1>2, <1>3, <1>4, <1>5, <1>6, <1>7, <1>8, <1>9, <1>10, <1>11, <1>12,
     <1>13, <1>14, <1>15, <1>16, <1>17, <1>18, <1>19 DEF Next

(* The turns of the loop that are over.                                      *)
LEMMA TurnsDoneNext ==
  ASSUME TypeFlow, InPlace, BeforeHeader, TurnsDone, [Next]_vars
  PROVE  TurnsDone'
<1> USE NextCommand
    DEF TurnsDone, InLoop, Inserted, TypeFlow, InFlow, At, Goes, shellVars,
        treeVars, snapshotVars, historyVars
<1>1. CASE Launch
  BY <1>1, Launched DEF Launch
<1>18. CASE NotInKernel
  BY <1>18 DEF NotInKernel
<1>19. CASE TakeSnapshot
  BY <1>19 DEF TakeSnapshot
<1>2. CASE Gate
  BY <1>2 DEF Gate, SaysInserted
<1>3. CASE Fix
  BY <1>3 DEF Fix
<1>4. CASE AllYesConfig
  BY <1>4 DEF AllYesConfig
<1>5. CASE KintBuild
  <2> SUFFICES ASSUME ~byHand, faults = 0
               PROVE  (\A d \in Present : ll'[d] # "none") /\ turn = 1
    BY <1>5 DEF KintBuild, InPlace
  <2>1. turn = 1 /\ ~header /\ fixed /\ config # "none"
    BY <1>5 DEF KintBuild, InPlace, BeforeHeader
  <2>2. CASE Inserted = {}
    <3>1. TreeCompiles
      BY <2>2 DEF TreeCompiles, Compiles
    <3> QED
      BY <1>5, <2>1, <3>1, BuildAssumption DEF KintBuild
  <2>3. CASE Inserted # {}
    <3>1. \A d \in Present : ll[d] # "none"
      BY <2>3
    <3> QED
      BY <1>5, <2>1, <3>1, BuildAssumption DEF KintBuild
  <2> QED
    BY <2>2, <2>3
<1>6. CASE Cd
  BY <1>6 DEF Cd
<1>7. CASE Pintck
  <2> SUFFICES ASSUME ~byHand, faults = 0, Loop[turn] \in Present
               PROVE  report'[cwd][Loop[turn]] # "none"
    BY <1>7 DEF Pintck
  <2>1. script = "checkKernel" /\ cwd = Loop[turn]
    BY <1>7 DEF Pintck, InPlace
  <2>2. cwd \in Dirs /\ cwd # "kernel"
    BY <2>1 DEF Loop, Dirs, TypeOK
  <2>3. cwd \in Places /\ Below(cwd) = {cwd}
    BY <2>1, <2>2 DEF Places, Below
  <2>4. report'[cwd][cwd] = ll[cwd]
    BY <1>7, <2>2, <2>3 DEF Pintck, PintckOf, TypeOK
  <2> QED
    BY <1>7, <2>1, <2>2, <2>4 DEF Pintck
<1>8. CASE Insert
  <2> SUFFICES ASSUME ~byHand, faults = 0
               PROVE  /\ \A d \in Present : ll'[d] # "none"
                      /\ \A k \in 1..(turn - 1) : Loop[k] \in Present => calls'[Loop[k]] > 0
                      /\ op' = "back"
                      /\ Loop[turn] \in Present => calls'[Loop[turn]] > 0
    BY <1>8 DEF Insert
  <2>1. op' = "back"
    BY <1>8 DEF Insert
  <2>2. Present \subseteq Dirs
    BY BuildAssumption
  <2>3. Loop[turn] \in Present => Loop[turn] \in Reported
    BY <1>8, <2>2 DEF Insert, Reported, TypeOK
  <2>4. \A d \in Present : ll[d] # "none" /\ Aged(ll[d]) # "none"
    BY <1>8 DEF Insert, Aged
  <2>5. \A d \in Present : ll'[d] # "none"
    BY <1>8, <2>2, <2>4 DEF Insert, InsertInto
  <2>6. \A d \in Dirs : calls[d] > 0 => calls'[d] > 0
    BY <1>8 DEF Insert, InsertInto, TypeOK
  <2>7. \A k \in 1..(turn - 1) : Loop[k] \in Present => calls[Loop[k]] > 0
    BY <1>8 DEF Insert
  <2>8. Loop[turn] \in Present => calls'[Loop[turn]] > 0
    BY <1>8, <2>2, <2>3, BuildAssumption DEF Insert, InsertInto, TypeOK
  <2> QED
    BY <2>1, <2>2, <2>5, <2>6, <2>7, <2>8
<1>9. CASE Back
  <2> SUFFICES ASSUME ~byHand, faults = 0
               PROVE  /\ \A d \in Present : ll[d] # "none"
                      /\ op' = "cd" => \A k \in 1..(turn' - 1) :
                            Loop[k] \in Present => calls[Loop[k]] > 0
                      /\ op' = "header" => Inserted = Present
    BY <1>9 DEF Back, LastTurn
  <2>2. \A k \in 1..turn : Loop[k] \in Present => calls[Loop[k]] > 0
    BY <1>9 DEF Back, TypeOK
  <2>3. op' = "cd" => turn' - 1 = turn
    BY <1>9 DEF Back, TypeOK
  <2>4. op' = "header" => turn = 3
    BY <1>9 DEF Back, LastTurn, TypeOK
  <2>5. ASSUME turn = 3 PROVE Inserted = Present
    <3>1. \A k \in 1..3 : Loop[k] \in Present => calls[Loop[k]] > 0
      BY <2>2, <2>5
    <3>2. \A d \in Present : \E k \in 1..3 : d = Loop[k]
      BY BuildAssumption DEF Loop, Dirs
    <3> QED
      BY <3>1, <3>2
  <2> QED
    BY <1>9, <2>2, <2>3, <2>4, <2>5 DEF Back
<1>10. CASE CopyHeader
  BY <1>10 DEF CopyHeader
<1>11. CASE Mrproper
  BY <1>11 DEF Mrproper
<1>12. CASE DefConfig
  BY <1>12 DEF DefConfig
<1>13. CASE Make
  BY <1>13 DEF Make
<1>14. CASE StartTest
  BY <1>14 DEF StartTest
<1>15. CASE Fail
  <2>1. faults' # 0
    BY <1>15 DEF Fail, TypeOK
  <2> QED
    BY <2>1
<1>16. CASE Interrupt
  <2>1. op' = "end" /\ byHand' = byHand /\ faults' = faults /\ CutShort
    BY <1>16 DEF Interrupt
  <2> SUFFICES ASSUME ~byHand, faults = 0, Inserted' # {}
               PROVE  \A d \in Present : ll'[d] # "none"
    BY <2>1
  <2>2. Present \subseteq Dirs
    BY BuildAssumption
  <2>3. op = "insert" \/ Inserted # {}
    BY <2>1, CutEffects
  <2>4. \A d \in Present : ll[d] # "none"
    BY <2>3
  <2> QED
    BY <2>1, <2>2, <2>4, CutEffects
<1>17. CASE UNCHANGED vars
  BY <1>17 DEF vars
<1> QED
  BY <1>1, <1>2, <1>3, <1>4, <1>5, <1>6, <1>7, <1>8, <1>9, <1>10, <1>11, <1>12,
     <1>13, <1>14, <1>15, <1>16, <1>17, <1>18, <1>19 DEF Next

(* What the header means.                                                    *)
LEMMA HeaderMeansNext ==
  ASSUME TypeFlow, InPlace, BeforeHeader, TurnsDone, HeaderMeansInserted, [Next]_vars
  PROVE  HeaderMeansInserted'
<1> USE NextCommand
    DEF HeaderMeansInserted, BeforeHeader, TurnsDone, InPlace, InLoop,
        Inserted, TypeFlow, InFlow, At, Goes, shellVars, treeVars,
        snapshotVars, historyVars
<1>1. CASE Launch
  BY <1>1, Launched DEF Launch
<1>18. CASE NotInKernel
  BY <1>18 DEF NotInKernel
<1>19. CASE TakeSnapshot
  BY <1>19 DEF TakeSnapshot
<1>2. CASE Gate
  BY <1>2 DEF Gate, SaysInserted
<1>3. CASE Fix
  BY <1>3 DEF Fix
<1>4. CASE AllYesConfig
  BY <1>4 DEF AllYesConfig
<1>5. CASE KintBuild
  BY <1>5 DEF KintBuild
<1>6. CASE Cd
  BY <1>6 DEF Cd
<1>7. CASE Pintck
  BY <1>7 DEF Pintck
<1>8. CASE Insert
  <2>1. \A d \in Dirs : calls[d] > 0 => calls'[d] > 0
    BY <1>8 DEF Insert, InsertInto, TypeOK
  <2> QED
    BY <1>8, <2>1, BuildAssumption DEF Insert
<1>9. CASE Back
  BY <1>9 DEF Back, LastTurn
<1>10. CASE CopyHeader
  BY <1>10 DEF CopyHeader
<1>11. CASE Mrproper
  BY <1>11 DEF Mrproper
<1>12. CASE DefConfig
  BY <1>12 DEF DefConfig
<1>13. CASE Make
  BY <1>13 DEF Make
<1>14. CASE StartTest
  BY <1>14 DEF StartTest
<1>15. CASE Fail
  <2>1. faults' # 0
    BY <1>15 DEF Fail, TypeOK
  <2> QED
    BY <2>1
<1>16. CASE Interrupt
  <2>1. /\ op' = "end" /\ byHand' = byHand /\ faults' = faults
        /\ CutShort
    BY <1>16 DEF Interrupt
  <2>2. header' = header /\ \A d \in Dirs : calls[d] > 0 => calls'[d] > 0
    BY <2>1, CutEffects
  <2> QED
    BY <2>1, <2>2, BuildAssumption
<1>17. CASE UNCHANGED vars
  BY <1>17 DEF vars
<1> QED
  BY <1>1, <1>2, <1>3, <1>4, <1>5, <1>6, <1>7, <1>8, <1>9, <1>10, <1>11, <1>12,
     <1>13, <1>14, <1>15, <1>16, <1>17, <1>18, <1>19 DEF Next

(* Calls without the header.                                                 *)
LEMMA HeaderFollowsNext ==
  ASSUME Present = Dirs, TypeFlow, InPlace, HeaderFollows, [Next]_vars
  PROVE  HeaderFollows'
<1> USE NextCommand
    DEF HeaderFollows, InPlace, LoopReturns, InLoop, DelicateOps, Inserted,
        TypeFlow, InFlow, At, Goes, shellVars, treeVars, snapshotVars,
        historyVars
<1>1. CASE Launch
  BY <1>1, Launched DEF Launch
<1>18. CASE NotInKernel
  BY <1>18 DEF NotInKernel
<1>19. CASE TakeSnapshot
  BY <1>19 DEF TakeSnapshot
<1>2. CASE Gate
  BY <1>2 DEF Gate, SaysInserted
<1>3. CASE Fix
  BY <1>3 DEF Fix
<1>4. CASE AllYesConfig
  BY <1>4 DEF AllYesConfig
<1>5. CASE KintBuild
  BY <1>5 DEF KintBuild
<1>6. CASE Cd
  BY <1>6 DEF Cd
<1>7. CASE Pintck
  BY <1>7 DEF Pintck
<1>8. CASE Insert
  <2>1. op' \in {"back", "header"}
    BY <1>8 DEF Insert
  <2> QED
    BY <2>1
<1>9. CASE Back
  BY <1>9 DEF Back, LastTurn
<1>10. CASE CopyHeader
  BY <1>10 DEF CopyHeader
<1>11. CASE Mrproper
  BY <1>11 DEF Mrproper
<1>12. CASE DefConfig
  BY <1>12 DEF DefConfig
<1>13. CASE Make
  BY <1>13 DEF Make
<1>14. CASE StartTest
  BY <1>14 DEF StartTest
<1>15. CASE Fail
  <2>1. faults' # 0
    BY <1>15 DEF Fail, TypeOK
  <2> QED
    BY <2>1
<1>16. CASE Interrupt
  <2>1. /\ op' = "end" /\ byHand' = byHand /\ faults' = faults
        /\ torn' = (torn \/ (Inserted' # {} /\ op \in DelicateOps))
        /\ CutShort /\ script' = script /\ runtest' = runtest /\ snapped' = snapped
    BY <1>16 DEF Interrupt, snapshotVars
  <2>2. op # "insert" => calls' = calls
    BY <2>1, CutEffects
  <2>3. header' = header
    BY <2>1, CutEffects
  <2>4. CASE op = "insert"
    BY <2>1, <2>4
  <2>5. CASE op # "insert"
    <3>1. Inserted' = Inserted
      BY <2>2, <2>5
    <3> HIDE DEF Inserted
    <3> QED
      BY <2>1, <2>3, <3>1
  <2> QED
    BY <2>4, <2>5
<1>17. CASE UNCHANGED vars
  BY <1>17 DEF vars
<1> QED
  BY <1>1, <1>2, <1>3, <1>4, <1>5, <1>6, <1>7, <1>8, <1>9, <1>10, <1>11, <1>12,
     <1>13, <1>14, <1>15, <1>16, <1>17, <1>18, <1>19 DEF Next

(* The image of an instrumented tree.                                        *)
LEMMA ImageNext ==
  ASSUME Present = Dirs, TypeFlow, BeforeHeader, HeaderMeansInserted,
         ImageOfHeader, [Next]_vars
  PROVE  ImageOfHeader'
<1> USE NextCommand
    DEF ImageOfHeader, BeforeHeader, HeaderMeansInserted, Orderly, InLoop,
        DelicateOps, Inserted, Dirs, TypeFlow, InFlow, At, Goes, shellVars,
        treeVars, snapshotVars, historyVars
<1>1. CASE Launch
  BY <1>1, Launched DEF Launch
<1>18. CASE NotInKernel
  BY <1>18 DEF NotInKernel
<1>19. CASE TakeSnapshot
  BY <1>19 DEF TakeSnapshot
<1>2. CASE Gate
  BY <1>2 DEF Gate, SaysInserted
<1>3. CASE Fix
  BY <1>3 DEF Fix
<1>4. CASE AllYesConfig
  BY <1>4 DEF AllYesConfig
<1>5. CASE KintBuild
  BY <1>5 DEF KintBuild
<1>6. CASE Cd
  BY <1>6 DEF Cd
<1>7. CASE Pintck
  BY <1>7 DEF Pintck
<1>8. CASE Insert
  BY <1>8 DEF Insert
<1>9. CASE Back
  BY <1>9 DEF Back, LastTurn
<1>10. CASE CopyHeader
  BY <1>10 DEF CopyHeader
<1>11. CASE Mrproper
  BY <1>11 DEF Mrproper
<1>12. CASE DefConfig
  BY <1>12 DEF DefConfig
<1>13. CASE Make
  BY <1>13 DEF Make
<1>14. CASE StartTest
  BY <1>14 DEF StartTest
<1>15. CASE Fail
  <2>1. faults' # 0
    BY <1>15 DEF Fail, TypeOK
  <2> QED
    BY <2>1
<1>16. CASE Interrupt
  <2>1. /\ op' = "end" /\ byHand' = byHand /\ faults' = faults
        /\ torn' = (torn \/ (Inserted' # {} /\ op \in DelicateOps))
        /\ CutShort /\ script' = script /\ runtest' = runtest /\ snapped' = snapped
    BY <1>16 DEF Interrupt, snapshotVars
  <2> SUFFICES ASSUME Orderly', header
               PROVE  bzImage' \in {Present, NoImage}
    BY <2>1, CutEffects
  <2>2. op \notin {"kint", "insert", "mrproper"}
    <3>1. Inserted = Present /\ ~byHand
      BY <2>1
    <3>2. op # "insert" => Inserted' = Inserted
      BY <2>1, CutEffects
    <3>3. op # "kint"
      BY <3>1
    <3>4. op = "mrproper" => torn'
      BY <2>1, <3>1, <3>2
    <3> QED
      BY <2>1, <3>3, <3>4
  <2>3. bzImage' = bzImage
    BY <2>1, <2>2, CutEffects
  <2> QED
    BY <2>1, <2>2, <2>3
<1>17. CASE UNCHANGED vars
  BY <1>17 DEF vars
<1> QED
  BY <1>1, <1>2, <1>3, <1>4, <1>5, <1>6, <1>7, <1>8, <1>9, <1>10, <1>11, <1>12,
     <1>13, <1>14, <1>15, <1>16, <1>17, <1>18, <1>19 DEF Next

(* The snapshot of an instrumented tree.                                     *)
LEMMA SnapshotNext ==
  ASSUME Present = Dirs, TypeFlow, ImageOfHeader, SnapshotOfHeader, [Next]_vars
  PROVE  SnapshotOfHeader'
<1> USE NextCommand
    DEF SnapshotOfHeader, Orderly, TypeFlow, InFlow, At, Goes, shellVars,
        treeVars, snapshotVars, historyVars
<1>1. CASE Launch
  BY <1>1, Launched DEF Launch
<1>18. CASE NotInKernel
  BY <1>18 DEF NotInKernel
<1>19. CASE TakeSnapshot
  BY <1>19 DEF TakeSnapshot, ImageOfHeader
<1>2. CASE Gate
  BY <1>2 DEF Gate, SaysInserted
<1>3. CASE Fix
  BY <1>3 DEF Fix
<1>4. CASE AllYesConfig
  BY <1>4 DEF AllYesConfig
<1>5. CASE KintBuild
  BY <1>5 DEF KintBuild
<1>6. CASE Cd
  BY <1>6 DEF Cd
<1>7. CASE Pintck
  BY <1>7 DEF Pintck
<1>8. CASE Insert
  BY <1>8 DEF Insert
<1>9. CASE Back
  BY <1>9 DEF Back, LastTurn
<1>10. CASE CopyHeader
  BY <1>10 DEF CopyHeader
<1>11. CASE Mrproper
  BY <1>11 DEF Mrproper
<1>12. CASE DefConfig
  BY <1>12 DEF DefConfig
<1>13. CASE Make
  BY <1>13 DEF Make
<1>14. CASE StartTest
  BY <1>14 DEF StartTest
<1>15. CASE Fail
  <2>1. faults' # 0
    BY <1>15 DEF Fail, TypeOK
  <2>2. header' = header /\ snapped' = snapped
    BY <1>15, CutEffects DEF Fail
  <2> QED
    BY <2>1, <2>2
<1>16. CASE Interrupt
  <2>1. /\ byHand' = byHand /\ faults' = faults /\ (torn => torn')
        /\ CutShort /\ runtest' = runtest /\ snapped' = snapped
    BY <1>16, Zenon DEF Interrupt, snapshotVars
  <2>2. header' = header
    BY <2>1, CutEffects
  <2>3. (~torn' /\ ~byHand' /\ faults' = 0) => (~torn /\ ~byHand /\ faults = 0)
    BY <2>1, Zenon
  <2> QED
    BY <2>1, <2>2, <2>3, Zenon
<1>17. CASE UNCHANGED vars
  BY <1>17 DEF vars
<1> QED
  BY <1>1, <1>2, <1>3, <1>4, <1>5, <1>6, <1>7, <1>8, <1>9, <1>10, <1>11, <1>12,
     <1>13, <1>14, <1>15, <1>16, <1>17, <1>18, <1>19 DEF Next

(* What insert finds in an orderly tree: a current report of its own         *)
(* directory, which has no calls yet.                                        *)
Fresh(done) == \A d \in done : calls[d] = 0 /\ report[cwd][d] = "current"

LEMMA FreshInsert ==
  ASSUME Present = Dirs, TypeFlow, InPlace, FreshTurns, Orderly, op = "insert"
  PROVE  Fresh(Reported)
<1>1. script = "checkKernel" /\ cwd = Loop[turn]
  BY DEF TypeFlow, InFlow, Orderly, InPlace, Loop, Dirs, TypeOK
<1>2. \A d \in Dirs : report[cwd][d] = IF d = cwd THEN "current" ELSE "none"
  BY DEF FreshTurns
<1>3. \A k \in 1..(turn - 1) : cwd # Loop[k]
  BY <1>1 DEF Loop, TypeFlow, TypeOK
<1>4. cwd \in Dirs => calls[cwd] = 0
  BY <1>3 DEF FreshTurns
<1> QED
  BY <1>2, <1>4 DEF Fresh, Reported

LEMMA FreshKeeps ==
  ASSUME TypeFlow, InsertedOnce, Orderly,
         NEW done, Fresh(done), InsertInto(done)
  PROVE  blind' = {} /\ \A d \in Dirs : calls'[d] <= 1
BY DEF TypeFlow, TypeOK, InsertedOnce, Fresh, InsertInto

(* No directory twice, none from a stale report.                             *)
LEMMA InsertedOnceNext ==
  ASSUME Present = Dirs, TypeFlow, InPlace, FreshTurns, InsertedOnce, [Next]_vars
  PROVE  InsertedOnce'
<1> USE NextCommand
    DEF InsertedOnce, Orderly, TypeFlow, InFlow, At, Goes, shellVars,
        treeVars, snapshotVars, historyVars
<1>1. CASE Launch
  BY <1>1, Launched DEF Launch
<1>18. CASE NotInKernel
  BY <1>18 DEF NotInKernel
<1>19. CASE TakeSnapshot
  BY <1>19 DEF TakeSnapshot
<1>2. CASE Gate
  BY <1>2 DEF Gate, SaysInserted
<1>3. CASE Fix
  BY <1>3 DEF Fix
<1>4. CASE AllYesConfig
  BY <1>4 DEF AllYesConfig
<1>5. CASE KintBuild
  BY <1>5 DEF KintBuild
<1>6. CASE Cd
  BY <1>6 DEF Cd
<1>7. CASE Pintck
  BY <1>7 DEF Pintck
<1>8. CASE Insert
  <2> SUFFICES ASSUME Orderly PROVE blind' = {} /\ \A d \in Dirs : calls'[d] <= 1
    BY <1>8 DEF Insert
  <2>1. Fresh(Reported)
    BY <1>8, FreshInsert DEF Insert
  <2> QED
    BY <1>8, <2>1, FreshKeeps DEF Insert
<1>9. CASE Back
  BY <1>9 DEF Back, LastTurn
<1>10. CASE CopyHeader
  BY <1>10 DEF CopyHeader
<1>11. CASE Mrproper
  BY <1>11 DEF Mrproper
<1>12. CASE DefConfig
  BY <1>12 DEF DefConfig
<1>13. CASE Make
  BY <1>13 DEF Make
<1>14. CASE StartTest
  BY <1>14 DEF StartTest
<1>15. CASE Fail
  <2>1. faults' # 0
    BY <1>15 DEF Fail, TypeOK
  <2> QED
    BY <2>1
<1>16. CASE Interrupt
  <2>1. /\ op' = "end" /\ byHand' = byHand /\ faults' = faults
        /\ torn' = (torn \/ (Inserted' # {} /\ op \in DelicateOps))
        /\ CutShort /\ script' = script /\ runtest' = runtest /\ snapped' = snapped
    BY <1>16 DEF Interrupt, snapshotVars
  <2> SUFFICES ASSUME Orderly' PROVE blind' = {} /\ \A d \in Dirs : calls'[d] <= 1
    OBVIOUS
  <2>2. Orderly
    BY <2>1
  <2>3. CASE op # "insert"
    BY <2>1, <2>2, <2>3, CutEffects
  <2>4. CASE op = "insert"
    <3>1. CASE InsertCut
      <4>1. PICK done \in SUBSET Reported : InsertInto(done)
        BY <3>1 DEF InsertCut
      <4>2. Fresh(done)
        BY <2>2, <2>4, FreshInsert DEF Fresh
      <4> QED
        BY <2>2, <4>1, <4>2, FreshKeeps
    <3>2. CASE UNCHANGED <<shellVars, treeVars>>
      BY <2>2, <3>2
    <3> QED
      BY <2>1, <2>4, <3>1, <3>2 DEF CutShort, KintCut, PintckCut, MrproperCut
  <2> QED
    BY <2>3, <2>4
<1>17. CASE UNCHANGED vars
  BY <1>17 DEF vars
<1> QED
  BY <1>1, <1>2, <1>3, <1>4, <1>5, <1>6, <1>7, <1>8, <1>9, <1>10, <1>11, <1>12,
     <1>13, <1>14, <1>15, <1>16, <1>17, <1>18, <1>19 DEF Next

(* Each turn finds fresh bitcode.                                            *)
LEMMA FreshTurnsNext ==
  ASSUME Present = Dirs, TypeFlow, InPlace, BeforeHeader, HeaderFollows, FreshTurns,
         [Next]_vars
  PROVE  FreshTurns'
<1> USE NextCommand
    DEF FreshTurns, Orderly, InLoop, TypeFlow, InFlow, At, Goes, shellVars,
        treeVars, snapshotVars, historyVars
<1>1. CASE Launch
  BY <1>1, Launched DEF Launch
<1>18. CASE NotInKernel
  BY <1>18 DEF NotInKernel
<1>19. CASE TakeSnapshot
  BY <1>19 DEF TakeSnapshot
<1>2. CASE Gate
  BY <1>2 DEF Gate, SaysInserted
<1>3. CASE Fix
  BY <1>3 DEF Fix
<1>4. CASE AllYesConfig
  BY <1>4 DEF AllYesConfig
<1>5. CASE KintBuild
  <2> SUFFICES ASSUME Orderly
               PROVE  \A d \in Dirs : calls[d] = 0 /\ ll'[d] = "current"
    BY <1>5 DEF KintBuild
  <2>1. ~header /\ fixed /\ config # "none"
    BY <1>5 DEF KintBuild, BeforeHeader
  <2>2. \A d \in Dirs : calls[d] = 0
    BY <1>5, <2>1 DEF KintBuild, HeaderFollows, Inserted, TypeOK
  <2>3. TreeCompiles
    BY <2>2 DEF TreeCompiles, Compiles
  <2> QED
    BY <1>5, <2>1, <2>2, <2>3 DEF KintBuild
<1>6. CASE Cd
  BY <1>6 DEF Cd
<1>7. CASE Pintck
  <2> SUFFICES ASSUME Orderly
               PROVE  \A d \in Dirs :
                         report'[cwd][d] = IF d = cwd THEN "current" ELSE "none"
    BY <1>7 DEF Pintck
  <2>1. cwd = Loop[turn]
    BY <1>7 DEF Pintck, InPlace, Loop, Dirs, TypeOK
  <2>2. cwd \in Dirs /\ cwd # "kernel" /\ \A k \in 1..(turn - 1) : cwd # Loop[k]
    BY <2>1 DEF Loop, Dirs, TypeOK
  <2>3. cwd \in Places /\ Below(cwd) = {cwd}
    BY <2>2 DEF Places, Below
  <2>4. ll[cwd] = "current"
    BY <1>7, <2>2 DEF Pintck
  <2> QED
    BY <1>7, <2>2, <2>3, <2>4 DEF Pintck, PintckOf, TypeOK
<1>8. CASE Insert
  <2> SUFFICES ASSUME Orderly
               PROVE  /\ \A d \in Dirs : calls'[d] = 0 \/ \E k \in 1..turn : d = Loop[k]
                      /\ \A d \in Dirs : calls'[d] = 0 => ll'[d] = "current"
                      /\ op' = "back"
    BY <1>8 DEF Insert
  <2>1. cwd = Loop[turn] /\ op' = "back"
    BY <1>8 DEF Insert, InPlace, Loop, Dirs, TypeOK
  <2>2. cwd \in Dirs
    BY <2>1 DEF Loop, Dirs, TypeOK
  <2>3. Reported = {cwd}
    BY <1>8, <2>2 DEF Insert, Reported
  <2>4. \A d \in Dirs : d # cwd => calls'[d] = calls[d] /\ ll'[d] = ll[d]
    BY <1>8, <2>3 DEF Insert, InsertInto, TypeOK
  <2>5. calls'[cwd] # 0
    BY <1>8, <2>2, <2>3, BuildAssumption DEF Insert, InsertInto, TypeOK
  <2>6. turn \in 1..turn /\ 1..(turn - 1) \subseteq 1..turn
    BY DEF TypeOK
  <2> QED
    BY <1>8, <2>1, <2>4, <2>5, <2>6 DEF Insert
<1>9. CASE Back
  <2>1. op' = "cd" => turn' - 1 = turn
    BY <1>9 DEF Back, TypeOK
  <2> QED
    BY <1>9, <2>1 DEF Back, LastTurn
<1>10. CASE CopyHeader
  BY <1>10 DEF CopyHeader
<1>11. CASE Mrproper
  BY <1>11 DEF Mrproper
<1>12. CASE DefConfig
  BY <1>12 DEF DefConfig
<1>13. CASE Make
  BY <1>13 DEF Make
<1>14. CASE StartTest
  BY <1>14 DEF StartTest
<1>15. CASE Fail
  <2>1. faults' # 0
    BY <1>15 DEF Fail, TypeOK
  <2> QED
    BY <2>1
<1>16. CASE Interrupt
  <2>1. op' = "end"
    BY <1>16 DEF Interrupt
  <2> QED
    BY <2>1
<1>17. CASE UNCHANGED vars
  BY <1>17 DEF vars
<1> QED
  BY <1>1, <1>2, <1>3, <1>4, <1>5, <1>6, <1>7, <1>8, <1>9, <1>10, <1>11, <1>12,
     <1>13, <1>14, <1>15, <1>16, <1>17, <1>18, <1>19 DEF Next

-----------------------------------------------------------------------------
(* All the parts together.                                                   *)

LEMMA BuildInit == Init => BuildInStep
<1> SUFFICES ASSUME Init PROVE BuildInStep
  OBVIOUS
<1>1. /\ op = "end" /\ header = FALSE /\ script = "checkKernel" /\ blind = {}
      /\ snapped = FALSE
  BY Zenon DEF Init
<1>2. \A d \in Dirs : calls[d] = 0
  BY DEF Init
<1>3. Inserted = {}
  BY <1>2, BuildAssumption DEF Inserted
<1>4. InFlow /\ InPlace /\ BeforeHeader /\ HeaderFollows
  BY <1>1, <1>3, TypeFlowInit
  DEF TypeFlow, InPlace, LoopReturns, BeforeHeader, HeaderFollows, InLoop
<1>5. TurnsDone /\ FreshTurns
  BY <1>1, <1>3 DEF TurnsDone, FreshTurns, InLoop
<1>6. ImageOfHeader /\ HeaderMeansInserted /\ SnapshotOfHeader
  BY <1>1 DEF ImageOfHeader, HeaderMeansInserted, SnapshotOfHeader
<1>7. InsertedOnce
  BY <1>1, <1>2 DEF InsertedOnce
<1> QED
  BY <1>4, <1>5, <1>6, <1>7 DEF BuildInStep

LEMMA BuildNext == TypeFlow /\ BuildInStep /\ [Next]_vars => BuildInStep'
<1> SUFFICES ASSUME TypeFlow, BuildInStep, [Next]_vars
             PROVE  BuildInStep'
  OBVIOUS
<1>1. InFlow /\ InPlace /\ BeforeHeader /\ TurnsDone /\ HeaderMeansInserted
  BY DEF BuildInStep
<1>2. InFlow' /\ InPlace'
  BY <1>1, TypeFlowNext, InPlaceNext DEF TypeFlow
<1>3. BeforeHeader' /\ TurnsDone' /\ HeaderMeansInserted'
  BY <1>1, BeforeHeaderNext, TurnsDoneNext, HeaderMeansNext
<1>4. ASSUME Present = Dirs
      PROVE  /\ HeaderFollows' /\ FreshTurns' /\ ImageOfHeader'
             /\ SnapshotOfHeader' /\ InsertedOnce'
  <2>1. /\ HeaderFollows /\ FreshTurns /\ ImageOfHeader /\ SnapshotOfHeader
        /\ InsertedOnce
    BY <1>4 DEF BuildInStep
  <2>2. HeaderFollows' /\ FreshTurns'
    BY <1>1, <1>4, <2>1, HeaderFollowsNext, FreshTurnsNext
  <2>3. ImageOfHeader' /\ SnapshotOfHeader'
    BY <1>1, <1>4, <2>1, ImageNext, SnapshotNext
  <2>4. InsertedOnce'
    BY <1>1, <1>4, <2>1, InsertedOnceNext
  <2> QED
    BY <2>2, <2>3, <2>4
<1> QED
  BY <1>2, <1>3, <1>4 DEF BuildInStep

(* The scripts keep the tree in step, however often they are stopped and     *)
(* started, whatever a stopped or failing command has done: the inductive    *)
(* invariant of checkKernel.sh:21-112.                                       *)
THEOREM TreeInStep == Spec => []BuildInStep
BY BuildInit, BuildNext, TypeFlowHolds, PTL DEF Spec

(* The loop of checkKernel.sh:51-56 always comes back to the kernel          *)
(* directory, for any kernel and any failures; that of onlyinsert.sh:7-12    *)
(* does if no cd fails.                                                      *)
THEOREM AlwaysReturns == Spec => []LoopReturns
<1>1. BuildInStep => LoopReturns
  BY DEF BuildInStep, InPlace
<1> QED
  BY <1>1, TreeInStep, PTL

(* A file s2e.h in the tree means that every directory the kernel has was    *)
(* instrumented, which checkKernel.sh:21-25 takes it for.                    *)
THEOREM HeaderIsProof == Spec => []HeaderMeansInserted
<1>1. BuildInStep => HeaderMeansInserted
  BY DEF BuildInStep
<1> QED
  BY <1>1, TreeInStep, PTL

(* Left to checkKernel.sh and not stopped in its delicate part, no directory *)
(* is instrumented twice or from a stale report (checkKernel.sh:53-54).      *)
THEOREM NoDoubleInsert == ASSUME Present = Dirs PROVE Spec => []InsertedOnce
<1>1. BuildInStep => InsertedOnce
  BY DEF BuildInStep
<1> QED
  BY <1>1, TreeInStep, PTL

(* Whenever a script has ended the tree compiles: the calls of               *)
(* s2e_detect_int are never left without s2e.h (checkKernel.sh:54-59).       *)
THEOREM TreeAlwaysCompiles == ASSUME Present = Dirs PROVE Spec => []CompilesAtRest
<1>1. BuildInStep => CompilesAtRest
  BY DEF BuildInStep, HeaderFollows, CompilesAtRest, InLoop, At, TreeCompiles,
         Compiles, Inserted
<1> QED
  BY <1>1, TreeInStep, PTL

(* A snapshot taken of the bzImage that stands beside s2e.h is of an         *)
(* instrumented kernel, and so are the tests started on it                   *)
(* (startTest.sh:93) in an orderly tree.                                     *)
THEOREM SnapshotIsInstrumented ==
  ASSUME Present = Dirs PROVE Spec => []TestsInstrumented
<1>1. BuildInStep => TestsInstrumented
  BY DEF BuildInStep, SnapshotOfHeader, TestsInstrumented
<1> QED
  BY <1>1, TreeInStep, PTL
=============================================================================
