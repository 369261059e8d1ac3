------------------------- MODULE ReplaceFilesProofs -------------------------
(***************************************************************************)
(* What replaceFiles guarantees for every set of files, every contents and *)
(* any number of saves by somebody else.                                   *)
(***************************************************************************)
EXTENDS ReplaceFiles, TLAPS

(* The groups of variables, expanded wherever an action is. *)
USE DEF local, disk, walk, history, Target

(* The initial states are well typed and satisfy the invariant. *)
LEMMA InitInv == Init => TypeOK /\ Inv
BY ContentAssumption, FileAssumption DEF Init, TypeOK, Inv, TreeParts, Phases, Temporaries

(* Every step keeps the types: a rename, because its temporary is complete. *)
LEMMA TypeStep == TypeOK /\ Inv /\ [Next]_vars => TypeOK'
<1> SUFFICES ASSUME TypeOK, Inv, [Next]_vars
             PROVE  TypeOK'
  OBVIOUS
<1> USE ContentAssumption, FileAssumption
<1>1. ASSUME NEW f \in File, Compare(f) PROVE TypeOK'
  BY <1>1 DEF Compare, TypeOK, Fail
<1>2. ASSUME NEW f \in File, CreateTemp(f) PROVE TypeOK'
  BY <1>2 DEF CreateTemp, TypeOK
<1>3. ASSUME NEW f \in File, WriteTemp(f) PROVE TypeOK'
  BY <1>3 DEF WriteTemp, TypeOK
<1>4. ASSUME NEW f \in File, Rename(f) PROVE TypeOK'
  BY <1>4 DEF Rename, TypeOK, Inv, Phases, Temporaries
<1>5. ASSUME NEW f \in File, RenameFails(f) PROVE TypeOK'
  BY <1>5 DEF RenameFails, TypeOK
<1>6. ASSUME NEW f \in File, RestoreOpen(f) PROVE TypeOK'
  BY <1>6 DEF RestoreOpen, TypeOK
<1>7. ASSUME NEW f \in File, RestoreWrite(f) PROVE TypeOK'
  BY <1>7 DEF RestoreWrite, TypeOK
<1>8. ASSUME NEW f \in File, RestoreFails(f) PROVE TypeOK'
  BY <1>8 DEF RestoreFails, TypeOK
<1>9. ASSUME NEW f \in File, RemoveTemp(f) PROVE TypeOK'
  BY <1>9 DEF RemoveTemp, TypeOK
<1>10. ASSUME NEW f \in File, RemoveTempFails(f) PROVE TypeOK'
  BY <1>10 DEF RemoveTempFails, TypeOK
<1>11. CASE PrepareFails
  BY <1>11 DEF PrepareFails, Fail, TypeOK
<1>12. CASE Prepared
  BY <1>12 DEF Prepared, TypeOK
<1>13. CASE Committed
  BY <1>13 DEF Committed, TypeOK
<1>14. CASE RolledBack
  BY <1>14 DEF RolledBack, TypeOK
<1>15. CASE Return
  BY <1>15 DEF Return, TypeOK
<1>16. CASE Crash
  BY <1>16 DEF Crash, TypeOK, Running
<1>17. ASSUME NEW f \in File, NEW c \in Content, Edit(f, c) PROVE TypeOK'
  BY <1>17, BoundAssumption DEF Edit, Running, TypeOK
<1>18. CASE UNCHANGED vars
  BY <1>18 DEF vars, TypeOK
<1> QED
  BY <1>1, <1>2, <1>3, <1>4, <1>5, <1>6, <1>7, <1>8, <1>9, <1>10, <1>11, <1>12,
     <1>13, <1>14, <1>15, <1>16, <1>17, <1>18 DEF Next, Step

(* Every step keeps the account of what each destination holds. *)
LEMMA TreeStep == TypeOK /\ Inv /\ [Next]_vars => TreeParts'
<1> SUFFICES ASSUME TypeOK, Inv, [Next]_vars
             PROVE  TreeParts'
  OBVIOUS
<1> USE ContentAssumption, FileAssumption
<1>1. ASSUME NEW f \in File, Compare(f) PROVE TreeParts'
  BY <1>1 DEF Compare, TypeOK, Inv, TreeParts, Phases, Temporaries, Fail
<1>2. ASSUME NEW f \in File, CreateTemp(f) PROVE TreeParts'
  BY <1>2 DEF CreateTemp, TypeOK, Inv, TreeParts, Phases, Temporaries
<1>3. ASSUME NEW f \in File, WriteTemp(f) PROVE TreeParts'
  BY <1>3 DEF WriteTemp, TypeOK, Inv, TreeParts, Phases, Temporaries
<1>4. ASSUME NEW f \in File, Rename(f) PROVE TreeParts'
  BY <1>4 DEF Rename, TypeOK, Inv, TreeParts, Phases, Temporaries
<1>5. ASSUME NEW f \in File, RenameFails(f) PROVE TreeParts'
  BY <1>5 DEF RenameFails, TypeOK, Inv, TreeParts, Phases, Temporaries
<1>6. ASSUME NEW f \in File, RestoreOpen(f) PROVE TreeParts'
  BY <1>6 DEF RestoreOpen, TypeOK, Inv, TreeParts, Phases, Temporaries
<1>7. ASSUME NEW f \in File, RestoreWrite(f) PROVE TreeParts'
  BY <1>7 DEF RestoreWrite, TypeOK, Inv, TreeParts, Phases, Temporaries
<1>8. ASSUME NEW f \in File, RestoreFails(f) PROVE TreeParts'
  BY <1>8 DEF RestoreFails, TypeOK, Inv, TreeParts, Phases, Temporaries
<1>9. ASSUME NEW f \in File, RemoveTemp(f) PROVE TreeParts'
  BY <1>9 DEF RemoveTemp, TypeOK, Inv, TreeParts, Phases, Temporaries
<1>10. ASSUME NEW f \in File, RemoveTempFails(f) PROVE TreeParts'
  BY <1>10 DEF RemoveTempFails, TypeOK, Inv, TreeParts, Phases, Temporaries
<1>11. CASE PrepareFails
  BY <1>11 DEF PrepareFails, Fail, TypeOK, Inv, TreeParts, Phases, Temporaries
<1>12. CASE Prepared
  BY <1>12 DEF Prepared, TypeOK, Inv, TreeParts, Phases, Temporaries
<1>13. CASE Committed
  BY <1>13 DEF Committed, TypeOK, Inv, TreeParts, Phases, Temporaries
<1>14. CASE RolledBack
  BY <1>14 DEF RolledBack, TypeOK, Inv, TreeParts, Phases, Temporaries
<1>15. CASE Return
  BY <1>15 DEF Return, TypeOK, Inv, TreeParts, Phases, Temporaries
<1>16. CASE Crash
  BY <1>16 DEF Crash, TypeOK, Inv, TreeParts, Phases, Temporaries, Running
<1>17. ASSUME NEW f \in File, NEW c \in Content, Edit(f, c) PROVE TreeParts'
  BY <1>17, BoundAssumption DEF Edit, Running, TypeOK, Inv, TreeParts, Phases, Temporaries
<1>18. CASE UNCHANGED vars
  BY <1>18 DEF vars, TypeOK, Inv, TreeParts
<1> QED
  BY <1>1, <1>2, <1>3, <1>4, <1>5, <1>6, <1>7, <1>8, <1>9, <1>10, <1>11, <1>12,
     <1>13, <1>14, <1>15, <1>16, <1>17, <1>18 DEF Next, Step

(* Every step keeps the account of how far the loops are. *)
LEMMA PhasesStep == TypeOK /\ Inv /\ [Next]_vars => Phases'
<1> SUFFICES ASSUME TypeOK, Inv, [Next]_vars
             PROVE  Phases'
  OBVIOUS
<1> USE ContentAssumption, FileAssumption
<1>1. ASSUME NEW f \in File, Compare(f) PROVE Phases'
  BY <1>1 DEF Compare, TypeOK, Inv, Phases, Fail
<1>2. ASSUME NEW f \in File, CreateTemp(f) PROVE Phases'
  BY <1>2 DEF CreateTemp, TypeOK, Inv, Phases
<1>3. ASSUME NEW f \in File, WriteTemp(f) PROVE Phases'
  BY <1>3 DEF WriteTemp, TypeOK, Inv, Phases
<1>4. ASSUME NEW f \in File, Rename(f) PROVE Phases'
  BY <1>4 DEF Rename, TypeOK, Inv, Phases
<1>5. ASSUME NEW f \in File, RenameFails(f) PROVE Phases'
  BY <1>5 DEF RenameFails, TypeOK, Inv, Phases
<1>6. ASSUME NEW f \in File, RestoreOpen(f) PROVE Phases'
  BY <1>6 DEF RestoreOpen, TypeOK, Inv, Phases
<1>7. ASSUME NEW f \in File, RestoreWrite(f) PROVE Phases'
  BY <1>7 DEF RestoreWrite, TypeOK, Inv, Phases
<1>8. ASSUME NEW f \in File, RestoreFails(f) PROVE Phases'
  BY <1>8 DEF RestoreFails, TypeOK, Inv, Phases
<1>9. ASSUME NEW f \in File, RemoveTemp(f) PROVE Phases'
  BY <1>9 DEF RemoveTemp, TypeOK, Inv, Phases
<1>10. ASSUME NEW f \in File, RemoveTempFails(f) PROVE Phases'
  BY <1>10 DEF RemoveTempFails, TypeOK, Inv, Phases
<1>11. CASE PrepareFails
  BY <1>11 DEF PrepareFails, Fail, TypeOK, Inv, Phases
<1>12. CASE Prepared
  BY <1>12 DEF Prepared, TypeOK, Inv, Phases
<1>13. CASE Committed
  BY <1>13 DEF Committed, TypeOK, Inv, Phases
<1>14. CASE RolledBack
  BY <1>14 DEF RolledBack, TypeOK, Inv, Phases
<1>15. CASE Return
  BY <1>15 DEF Return, TypeOK, Inv, Phases
<1>16. CASE Crash
  BY <1>16 DEF Crash, TypeOK, Inv, Phases, Running
<1>17. ASSUME NEW f \in File, NEW c \in Content, Edit(f, c) PROVE Phases'
  BY <1>17, BoundAssumption DEF Edit, Running, TypeOK, Inv, Phases
<1>18. CASE UNCHANGED vars
  BY <1>18 DEF vars, TypeOK, Inv, Phases
<1> QED
  BY <1>1, <1>2, <1>3, <1>4, <1>5, <1>6, <1>7, <1>8, <1>9, <1>10, <1>11, <1>12,
     <1>13, <1>14, <1>15, <1>16, <1>17, <1>18 DEF Next, Step

(* Every step keeps the account of the temporaries. *)
LEMMA TemporariesStep == TypeOK /\ Inv /\ [Next]_vars => Temporaries'
<1> SUFFICES ASSUME TypeOK, Inv, [Next]_vars
             PROVE  Temporaries'
  OBVIOUS
<1> USE ContentAssumption, FileAssumption
<1>1. ASSUME NEW f \in File, Compare(f) PROVE Temporaries'
  BY <1>1 DEF Compare, TypeOK, Inv, Phases, Temporaries, Fail
<1>2. ASSUME NEW f \in File, CreateTemp(f) PROVE Temporaries'
  BY <1>2 DEF CreateTemp, TypeOK, Inv, Phases, Temporaries
<1>3. ASSUME NEW f \in File, WriteTemp(f) PROVE Temporaries'
  BY <1>3 DEF WriteTemp, TypeOK, Inv, Phases, Temporaries
<1>4. ASSUME NEW f \in File, Rename(f) PROVE Temporaries'
  BY <1>4 DEF Rename, TypeOK, Inv, Phases, Temporaries
<1>5. ASSUME NEW f \in File, RenameFails(f) PROVE Temporaries'
  BY <1>5 DEF RenameFails, TypeOK, Inv, Phases, Temporaries
<1>6. ASSUME NEW f \in File, RestoreOpen(f) PROVE Temporaries'
  BY <1>6 DEF RestoreOpen, TypeOK, Inv, Phases, Temporaries
<1>7. ASSUME NEW f \in File, RestoreWrite(f) PROVE Temporaries'
  BY <1>7 DEF RestoreWrite, TypeOK, Inv, Phases, Temporaries
<1>8. ASSUME NEW f \in File, RestoreFails(f) PROVE Temporaries'
  BY <1>8 DEF RestoreFails, TypeOK, Inv, Phases, Temporaries
<1>9. ASSUME NEW f \in File, RemoveTemp(f) PROVE Temporaries'
  BY <1>9 DEF RemoveTemp, TypeOK, Inv, Phases, Temporaries
<1>10. ASSUME NEW f \in File, RemoveTempFails(f) PROVE Temporaries'
  BY <1>10 DEF RemoveTempFails, TypeOK, Inv, Phases, Temporaries
<1>11. CASE PrepareFails
  BY <1>11 DEF PrepareFails, Fail, TypeOK, Inv, Phases, Temporaries
<1>12. CASE Prepared
  BY <1>12 DEF Prepared, TypeOK, Inv, Phases, Temporaries
<1>13. CASE Committed
  BY <1>13 DEF Committed, TypeOK, Inv, Phases, Temporaries
<1>14. CASE RolledBack
  BY <1>14 DEF RolledBack, TypeOK, Inv, Phases, Temporaries
<1>15. CASE Return
  BY <1>15 DEF Return, TypeOK, Inv, Phases, Temporaries
<1>16. CASE Crash
  BY <1>16 DEF Crash, TypeOK, Inv, Phases, Temporaries, Running
<1>17. ASSUME NEW f \in File, NEW c \in Content, Edit(f, c) PROVE Temporaries'
  BY <1>17, BoundAssumption DEF Edit, Running, TypeOK, Inv, Phases, Temporaries
<1>18. CASE UNCHANGED vars
  BY <1>18 DEF vars, TypeOK, Inv, Temporaries
<1> QED
  BY <1>1, <1>2, <1>3, <1>4, <1>5, <1>6, <1>7, <1>8, <1>9, <1>10, <1>11, <1>12,
     <1>13, <1>14, <1>15, <1>16, <1>17, <1>18 DEF Next, Step

-----------------------------------------------------------------------------
(* In every reachable state the variables have their types and the         *)
(* invariant holds.                                                        *)
THEOREM Invariance == Spec => [](TypeOK /\ Inv)
<1>1. Init => TypeOK /\ Inv
  BY InitInv
<1>2. TypeOK /\ Inv /\ [Next]_vars => TypeOK' /\ Inv'
  BY TypeStep, TreeStep, PhasesStep, TemporariesStep DEF Inv
<1> QED
  BY <1>1, <1>2, PTL DEF Spec

(* A run of replaceFiles that returns an error leaves every file as the    *)
(* others left it, but for renamed files saved in between and files whose  *)
(* restoring write failed.                                                 *)
THEOREM FailureUntouched == Spec => []FailureLeavesCheckout
<1>1. TypeOK /\ Inv => FailureLeavesCheckout
  <2> SUFFICES ASSUME TypeOK, Inv, pc = "returned", result = "error", NEW f \in File,
                      f \in committed, f \notin late, f \notin unrestored
               PROVE  tree[f] = users[f]
    BY DEF FailureLeavesCheckout, Inv, TreeParts
  <2>1. f \in restored /\ f \in compared
    BY DEF Inv, Phases
  <2>2. tree[f] = originals[f] /\ users[f] = originals[f]
    BY <2>1 DEF Inv, TreeParts
  <2> QED
    BY <2>2
<1> QED
  BY <1>1, Invariance, PTL

(* A run that returns without an error has installed every update that     *)
(* nobody saved over, and touched nothing else.                            *)
THEOREM SuccessComplete == Spec => []SuccessInstallsAll
<1>1. TypeOK /\ Inv => SuccessInstallsAll
  <2> SUFFICES ASSUME TypeOK, Inv, pc = "returned", result = "ok", NEW f \in File
               PROVE  IF f \in Target THEN tree[f] = updates[f] \/ f \in late
                                      ELSE tree[f] = users[f]
    BY DEF SuccessInstallsAll
  <2>1. committed = Target /\ restored = {} /\ restoring = NoFile
    BY DEF Inv, Phases
  <2> QED
    BY <2>1, FileAssumption DEF Inv, TreeParts
<1> QED
  BY <1>1, Invariance, PTL

(* Only an unfinished restoring write leaves a half-written destination,   *)
(* and a process killed in mid-run leaves at worst a mixture.              *)
THEOREM NeverTorn == Spec => []OnlyRollbackTears
<1>1. Inv => OnlyRollbackTears
  BY DEF Inv, TreeParts, OnlyRollbackTears
<1> QED
  BY <1>1, Invariance, PTL

(* A process killed before it decided leaves a mixture of the two versions *)
(* of the files, and nothing else.                                         *)
THEOREM CrashMixture == Spec => []CrashLeavesMixture
<1>1. TypeOK /\ Inv => CrashLeavesMixture
  <2> SUFFICES ASSUME TypeOK, Inv, pc = "crashed", result = "none", NEW f \in File \ late
               PROVE  tree[f] = users[f] \/ (f \in Target /\ tree[f] = updates[f])
    BY DEF CrashLeavesMixture
  <2>1. restored = {} /\ restoring \notin committed
    BY FileAssumption DEF TypeOK, Inv, Phases
  <2> QED
    BY <2>1 DEF TypeOK, Inv, TreeParts
<1> QED
  BY <1>1, Invariance, PTL

(* The deferred cleanup leaves no temporary it was able to remove.         *)
THEOREM CleanReturn == Spec => []NoTemporaryLeft
<1>1. Inv => NoTemporaryLeft
  BY DEF Inv, Phases, Temporaries, NoTemporaryLeft
<1> QED
  BY <1>1, Invariance, PTL

(* Outside Edit, only the second loop writes destinations: what it         *)
(* replaces was compared, or written by itself, or saved since.            *)
THEOREM OverwritesCompared == Spec => OverwritesOnlyComparedBytes
<1> DEFINE Replaces(f) == f \in Target /\ (tree[f] \in {originals[f], updates[f], Torn} \/ f \in late)
           A == edits' = edits => \A f \in File : tree'[f] # tree[f] => Replaces(f)
<1>1. TypeOK /\ Inv /\ [Next]_vars => A
  <2> SUFFICES ASSUME TypeOK, Inv, [Next]_vars, edits' = edits,
                      NEW f \in File, tree'[f] # tree[f]
               PROVE  Replaces(f)
    OBVIOUS
  <2>1. tree' # tree
    OBVIOUS
  <2>2. \E g \in File : Rename(g) \/ RestoreOpen(g) \/ RestoreWrite(g)
    BY <2>1, BoundAssumption DEF TypeOK, vars, Next, Step, Edit, Compare, CreateTemp,
       WriteTemp, RenameFails, RestoreFails, RemoveTemp,
       RemoveTempFails, PrepareFails, Fail, Prepared, Committed, RolledBack, Return, Crash
  <2>3. ASSUME NEW g \in File, Rename(g) PROVE Replaces(f)
    <3>1. f = g /\ f \in Target \ committed /\ f \in compared
      BY <2>3 DEF Rename, TypeOK, Inv, Phases
    <3> QED
      BY <3>1 DEF Inv, TreeParts
  <2>4. ASSUME NEW g \in File, RestoreOpen(g) PROVE Replaces(f)
    <3>1. f = g /\ f \in committed \ restored /\ restoring # f
      BY <2>4, FileAssumption DEF RestoreOpen, TypeOK
    <3> QED
      BY <3>1 DEF TypeOK, Inv, TreeParts
  <2>5. ASSUME NEW g \in File, RestoreWrite(g) PROVE Replaces(f)
    <3>1. f = g /\ f \in committed \ restored /\ restoring = f
      BY <2>5, FileAssumption DEF RestoreWrite, TypeOK, Inv, Phases
    <3> QED
      BY <3>1 DEF TypeOK, Inv, TreeParts
  <2> QED
    BY <2>2, <2>3, <2>4, <2>5
<1> QED
  BY <1>1, Invariance, PTL DEF Spec, OverwritesOnlyComparedBytes

(* No destination is renamed before the temporary of every one of them is  *)
(* complete.                                                               *)
THEOREM PreparedFirst == Spec => FirstRenameHasAllTemporaries
<1>1. TypeOK /\ Inv /\ [Next]_vars
        => (committed = {} /\ committed' # {} => \A f \in Target : temp[f] = updates[f])
  <2> SUFFICES ASSUME TypeOK, Inv, [Next]_vars, committed = {}, committed' # {}
               PROVE  \A f \in Target : temp[f] = updates[f]
    OBVIOUS
  <2>1. \E g \in File : Rename(g)
    BY DEF vars, Next, Step, Edit, Compare, CreateTemp,
       WriteTemp, RenameFails, RestoreOpen, RestoreWrite,
       RestoreFails, RemoveTemp, RemoveTempFails, PrepareFails, Fail, Prepared, Committed, RolledBack, Return, Crash
  <2> QED
    BY <2>1 DEF Rename, Inv, Temporaries
<1> QED
  BY <1>1, Invariance, PTL DEF Spec, FirstRenameHasAllTemporaries

=============================================================================
