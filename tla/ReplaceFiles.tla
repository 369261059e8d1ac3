---------------------------- MODULE ReplaceFiles ----------------------------
(***************************************************************************)
(* replaceFiles of internal/releasewatcher/apply.go: the step in which the *)
(* release watcher changes the checkout.  It compares every destination    *)
(* with the bytes read at the start of the run, writes one temporary file  *)
(* beside each of them, renames the temporaries one by one, and, when a    *)
(* rename fails, writes the original bytes back over the files it already  *)
(* renamed.  Both loops range over Go maps, so their order is arbitrary.   *)
(*                                                                         *)
(* Around it the model has what the code cannot control: every system call *)
(* may fail, the process may die between any two of them, and somebody     *)
(* else may save a file of the same checkout at any moment.                *)
(***************************************************************************)
EXTENDS Naturals, FiniteSets

CONSTANTS
  File,       \* the files of the checkout that may be replaced
  Content,    \* the complete contents a file may have
  Torn,       \* the content of a file whose writing stopped half-way
  NoTemp,     \* there is no temporary file
  NoFile,     \* the preparing loop is between two files
  MaxEdits,   \* bound: saves by somebody else
  MayCrash    \* may the process be killed?

ASSUME ContentAssumption == Torn \notin Content /\ NoTemp \notin Content /\ Torn # NoTemp
ASSUME FileAssumption == NoFile \notin File
ASSUME BoundAssumption == MaxEdits \in Nat /\ MayCrash \in BOOLEAN

VARIABLES
  pc,         \* prepare, commit, rollback, cleanup, returned, crashed
  result,     \* none until the function decides, then ok or error
  originals,  \* the bytes read when the run began
  updates,    \* the bytes to install
  tree,       \* the checkout
  temp,       \* the temporary file beside each destination
  temporary,  \* the map of temporaries the deferred cleanup walks
  current,    \* the file the preparing loop is working on
  committed,  \* destinations renamed so far
  restored,   \* committed destinations the rollback is done with
  restoring,  \* the destination os.WriteFile has truncated
  (* history: only Edit reads it, for its bound *)
  edits,      \* saves by somebody else so far
  users,      \* the checkout as it would be had the watcher never written
  compared,   \* destinations already found equal to the originals
  late,       \* destinations saved by somebody else after their comparison
  unrestored, \* destinations whose restoring write failed
  unremoved   \* destinations whose temporary could not be removed

local == <<originals, updates>>
disk == <<tree, temp>>
walk == <<temporary, current, committed, restored, restoring>>
history == <<edits, users, compared, late, unrestored, unremoved>>
vars == <<pc, result, local, disk, walk, history>>

Target == DOMAIN updates

Init ==
  /\ pc = "prepare" /\ result = "none"
  /\ \E T \in SUBSET File : originals \in [T -> Content] /\ updates \in [T -> Content]
  /\ tree \in [File -> Content]
  /\ users = tree /\ edits = 0
  /\ temp = [f \in File |-> NoTemp]
  /\ temporary = {} /\ current = NoFile /\ committed = {} /\ restored = {} /\ restoring = NoFile
  /\ compared = {} /\ late = {} /\ unrestored = {} /\ unremoved = {}

-----------------------------------------------------------------------------
(* The first loop: one temporary per destination, no destination touched.  *)

Fail == pc' = "cleanup" /\ result' = "error"

(* Mutant of Compare: the comparison with the original is dropped. *)
CompareSkipped(f) ==
  /\ pc = "prepare" /\ current = NoFile /\ f \in Target \ temporary
  /\ current' = f /\ compared' = compared \cup {f}
  /\ UNCHANGED <<pc, result, local, disk, temporary, committed, restored, restoring, edits, users, late, unrestored, unremoved>>

(* Read a destination and compare it with the original; any difference     *)
(* ends the run.                                                           *)
Compare(f) ==
  /\ pc = "prepare" /\ current = NoFile /\ f \in Target \ temporary
  /\ IF tree[f] = originals[f]
       THEN current' = f /\ compared' = compared \cup {f} /\ UNCHANGED <<pc, result>>
       ELSE Fail /\ UNCHANGED <<current, compared>>
  /\ UNCHANGED <<local, disk, temporary, committed, restored, restoring, edits, users, late, unrestored, unremoved>>

(* os.CreateTemp makes an empty file, and the deferred cleanup knows of it *)
(* from here on.                                                           *)
CreateTemp(f) ==
  /\ pc = "prepare" /\ current = f /\ f \in Target \ temporary
  /\ temp' = [temp EXCEPT ![f] = Torn]
  /\ temporary' = temporary \cup {f}
  /\ UNCHANGED <<pc, result, local, tree, current, committed, restored, restoring, history>>

(* Mutant of WriteTemp: a short write is not reported. *)
WriteTempErrorIgnored(f) ==
  /\ pc = "prepare" /\ current = f /\ f \in temporary
  /\ current' = NoFile
  /\ UNCHANGED <<pc, result, local, disk, temporary, committed, restored, restoring, history>>

WriteTemp(f) ==
  /\ pc = "prepare" /\ current = f /\ f \in temporary
  /\ temp' = [temp EXCEPT ![f] = updates[f]]
  /\ current' = NoFile
  /\ UNCHANGED <<pc, result, local, tree, temporary, committed, restored, restoring, history>>

(* Reading a destination, creating its temporary or writing it fails.      *)
PrepareFails ==
  /\ pc = "prepare" /\ ~(current = NoFile /\ temporary = Target)
  /\ Fail
  /\ UNCHANGED <<local, disk, walk, history>>

Prepared ==
  /\ pc = "prepare" /\ current = NoFile /\ temporary = Target
  /\ pc' = "commit"
  /\ UNCHANGED <<result, local, disk, walk, history>>

-----------------------------------------------------------------------------
(* The second loop: rename, and roll back on the first failure.            *)

Rename(f) ==
  /\ pc = "commit" /\ f \in temporary \ committed
  /\ tree' = [tree EXCEPT ![f] = temp[f]]
  /\ temp' = [temp EXCEPT ![f] = NoTemp]
  /\ committed' = committed \cup {f}
  /\ UNCHANGED <<pc, result, local, temporary, current, restored, restoring, history>>

RenameFails(f) ==
  /\ pc = "commit" /\ f \in temporary \ committed
  /\ pc' = "rollback" /\ result' = "error"
  /\ UNCHANGED <<local, disk, walk, history>>

(* Mutant of Committed: the loop stops after the first rename. *)
CommittedEarly ==
  /\ pc = "commit" /\ committed # {}
  /\ pc' = "cleanup" /\ result' = "ok"
  /\ UNCHANGED <<local, disk, walk, history>>

Committed ==
  /\ pc = "commit" /\ committed = temporary
  /\ pc' = "cleanup" /\ result' = "ok"
  /\ UNCHANGED <<local, disk, walk, history>>

(* os.WriteFile opens with O_TRUNC and then writes: not a rename.          *)
RestoreOpen(f) ==
  /\ pc = "rollback" /\ restoring = NoFile /\ f \in committed \ restored
  /\ tree' = [tree EXCEPT ![f] = Torn]
  /\ restoring' = f
  /\ UNCHANGED <<pc, result, local, temp, temporary, current, committed, restored, history>>

(* Mutant of RestoreWrite: the rollback writes the wrong map's bytes. *)
RestoreUpdates(f) ==
  /\ pc = "rollback" /\ restoring = f
  /\ tree' = [tree EXCEPT ![f] = updates[f]]
  /\ restoring' = NoFile /\ restored' = restored \cup {f}
  /\ UNCHANGED <<pc, result, local, temp, temporary, current, committed, history>>

RestoreWrite(f) ==
  /\ pc = "rollback" /\ restoring = f
  /\ tree' = [tree EXCEPT ![f] = originals[f]]
  /\ restoring' = NoFile /\ restored' = restored \cup {f}
  /\ UNCHANGED <<pc, result, local, temp, temporary, current, committed, history>>

(* The write fails before or after the truncation; the error is joined to  *)
(* the others and the loop goes on with the next file.                     *)
RestoreFails(f) ==
  /\ pc = "rollback"
  /\ \/ restoring = NoFile /\ f \in committed \ restored
     \/ restoring = f
  /\ restoring' = NoFile /\ restored' = restored \cup {f}
  /\ unrestored' = unrestored \cup {f}
  /\ UNCHANGED <<pc, result, local, disk, temporary, current, committed, edits, users, compared, late, unremoved>>

RolledBack ==
  /\ pc = "rollback" /\ restored = committed
  /\ pc' = "cleanup"
  /\ UNCHANGED <<result, local, disk, walk, history>>

-----------------------------------------------------------------------------
(* The deferred removal of every temporary in the map; errors are ignored. *)

RemoveTemp(f) ==
  /\ pc = "cleanup" /\ f \in temporary
  /\ temp' = [temp EXCEPT ![f] = NoTemp]
  /\ temporary' = temporary \ {f}
  /\ UNCHANGED <<pc, result, local, tree, current, committed, restored, restoring, history>>

RemoveTempFails(f) ==
  /\ pc = "cleanup" /\ f \in temporary /\ temp[f] # NoTemp
  /\ temporary' = temporary \ {f}
  /\ unremoved' = unremoved \cup {f}
  /\ UNCHANGED <<pc, result, local, disk, current, committed, restored, restoring, edits, users, compared, late, unrestored>>

Return ==
  /\ pc = "cleanup" /\ temporary = {}
  /\ pc' = "returned"
  /\ UNCHANGED <<result, local, disk, walk, history>>

-----------------------------------------------------------------------------
(* The environment.                                                        *)

Running == pc \notin {"returned", "crashed"}

(* Deferred functions do not run when the process is killed.               *)
Crash ==
  /\ MayCrash /\ Running
  /\ pc' = "crashed"
  /\ UNCHANGED <<result, local, disk, walk, history>>

(* Somebody else saves a file of the checkout.                             *)
Edit(f, c) ==
  /\ Running /\ edits < MaxEdits
  /\ edits' = edits + 1
  /\ tree' = [tree EXCEPT ![f] = c]
  /\ users' = [users EXCEPT ![f] = c]
  /\ late' = IF f \in compared THEN late \cup {f} ELSE late
  /\ UNCHANGED <<pc, result, local, temp, walk, compared, unrestored, unremoved>>

Step ==
  \/ \E f \in File :
       \/ Compare(f) \/ CreateTemp(f) \/ WriteTemp(f)
       \/ Rename(f) \/ RenameFails(f)
       \/ RestoreOpen(f) \/ RestoreWrite(f) \/ RestoreFails(f)
       \/ RemoveTemp(f) \/ RemoveTempFails(f)
  \/ PrepareFails \/ Prepared \/ Committed \/ RolledBack \/ Return

Next == Step \/ Crash \/ \E f \in File, c \in Content : Edit(f, c)

Spec == Init /\ [][Next]_vars

-----------------------------------------------------------------------------
(* Properties.                                                             *)

TypeOK ==
  /\ pc \in {"prepare", "commit", "rollback", "cleanup", "returned", "crashed"}
  /\ result \in {"none", "ok", "error"}
  /\ Target \subseteq File
  /\ originals \in [Target -> Content] /\ updates \in [Target -> Content]
  /\ tree \in [File -> Content \cup {Torn}] /\ users \in [File -> Content]
  /\ temp \in [File -> Content \cup {Torn, NoTemp}]
  /\ temporary \subseteq Target /\ committed \subseteq Target /\ restored \subseteq Target
  /\ current \in Target \cup {NoFile} /\ restoring \in Target \cup {NoFile}
  /\ edits \in Nat
  /\ compared \subseteq Target /\ late \subseteq Target
  /\ unrestored \subseteq Target /\ unremoved \subseteq Target

(* "Network, generator and test failures leave it untouched" (apply.go:25) *)
(* for the last step, the one that does write: when replaceFiles returns   *)
(* an error, every file of the checkout holds what it would hold had the   *)
(* watcher never run.  The exceptions are exactly two, both among files    *)
(* already renamed: one saved by somebody else after its comparison, and   *)
(* one whose restoring write failed.                                       *)
FailureLeavesCheckout ==
  pc = "returned" /\ result = "error" =>
    \A f \in File : tree[f] = users[f] \/ f \in committed \cap (late \cup unrestored)

(* When replaceFiles returns without an error, every destination holds its *)
(* update unless somebody saved it after its comparison, and no other file *)
(* of the checkout was touched.                                            *)
SuccessInstallsAll ==
  pc = "returned" /\ result = "ok" =>
    \A f \in File : IF f \in Target THEN tree[f] = updates[f] \/ f \in late
                                    ELSE tree[f] = users[f]

(* A half-written destination is one that a rollback truncated and did not *)
(* finish, by an error or because the process died there: the renames      *)
(* themselves never expose one.                                            *)
OnlyRollbackTears ==
  \A f \in File : tree[f] = Torn => f \in committed /\ (restoring = f \/ f \in unrestored)

(* A process killed before the function decided leaves each file either as *)
(* its other writers left it or with its complete update: the checkout may *)
(* be a mixture of the two, but of nothing else.                           *)
CrashLeavesMixture ==
  pc = "crashed" /\ result = "none" =>
    \A f \in File \ late : tree[f] = users[f] \/ (f \in Target /\ tree[f] = updates[f])

(* When replaceFiles returns, no temporary is left in the checkout but     *)
(* those whose removal failed: `git status` in the worktree must not find  *)
(* a stray .release-watcher file.                                          *)
NoTemporaryLeft ==
  pc = "returned" => \A f \in File : temp[f] # NoTemp => f \in unremoved

(* The watcher's own writes replace only bytes it compared or wrote: a     *)
(* save by somebody else is lost only if it came after the comparison.     *)
OverwritesOnlyComparedBytes ==
  [][edits' = edits =>
       \A f \in File : tree'[f] # tree[f] =>
         f \in Target /\ (tree[f] \in {originals[f], updates[f], Torn} \/ f \in late)]_vars

(* "Prepare every rename before mutating destinations" (apply.go:292): at  *)
(* the first rename every temporary is complete.                           *)
FirstRenameHasAllTemporaries ==
  [][committed = {} /\ committed' # {} => \A f \in Target : temp[f] = updates[f]]_vars

(* The inductive invariant behind the properties above, part by part.      *)

(* What a destination holds, by how far the process is with it.            *)
TreeParts ==
  \A f \in File :
    /\ f \notin committed => tree[f] = users[f]
    /\ f \in compared \ late => users[f] = originals[f]
    /\ f \in committed \ (late \cup restored \cup {restoring}) => tree[f] = updates[f]
    /\ f \in restored \ (late \cup unrestored) => tree[f] = originals[f]
    /\ restoring = f => tree[f] = Torn \/ f \in late
    /\ tree[f] = Torn => f \in committed /\ (restoring = f \/ f \in unrestored)

(* How far the loops are in each phase.                                    *)
Phases ==
  /\ late \subseteq compared /\ committed \subseteq compared
  /\ restored \subseteq committed /\ unrestored \subseteq restored
  /\ restoring # NoFile =>
       pc \in {"rollback", "crashed"} /\ result = "error" /\ restoring \in committed \ restored
  /\ pc = "prepare" => committed = {} /\ (current # NoFile => current \in compared)
  /\ pc \in {"prepare", "commit"} => result = "none" /\ restored = {} /\ temporary \subseteq compared
  /\ pc = "rollback" => result = "error"
  /\ pc \in {"cleanup", "returned"} => result # "none"
  /\ pc = "commit" => temporary = Target
  /\ pc = "returned" => temporary = {}
  /\ result = "ok" => committed = Target /\ restored = {}
  /\ result = "error" /\ pc # "crashed" /\ pc # "rollback" => restored = committed
  /\ result = "none" => restored = {}

(* The temporaries: complete once their file is done with, and known to    *)
(* the deferred cleanup for as long as they exist.                         *)
Temporaries ==
  /\ pc = "prepare" => \A f \in temporary : f # current => temp[f] = updates[f]
  /\ pc = "commit" => \A f \in Target \ committed : temp[f] = updates[f]
  /\ \A f \in File : temp[f] # NoTemp => f \in temporary \cup unremoved

(* Every state satisfies the three parts.                                  *)
Inv == TreeParts /\ Phases /\ Temporaries
=============================================================================
