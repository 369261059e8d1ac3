---------------------------- MODULE SourceStore -----------------------------
(***************************************************************************)
(* WriteDirectory and ReadDirectory of template/files.go: writing a        *)
(* template source into a new directory so that it survives a crash of the *)
(* machine, and reading it, at any time.  What a process sees of the file  *)
(* system is ahead of what the disk holds: a file keeps its bytes only     *)
(* once it is synced, and its name only once the directory that holds the  *)
(* name is synced.                                                         *)
(***************************************************************************)
EXTENDS Integers, FiniteSets, Sequences, SequencesExt

CONSTANTS
  Source,     \* the files, as paths below the parent directory of root
  Root,       \* the path of the new directory
  Writer,     \* calls of WriteDirectory for this root
  Clean,      \* is the root argument what filepath.Clean makes of it?
  MaxCrashes  \* bound: crashes of the machine

Top == <<>>   \* the parent directory of root, which exists

(* The names in those paths. *)
Part == UNION {ToSet(f) : f \in Source \cup {Root}}

ASSUME SourceAssumption ==
  /\ Source \cup {Root} \subseteq Seq(Part)
  /\ Len(Root) = 1 /\ Source # {} /\ IsFiniteSet(Source)
  /\ \A f \in Source : Len(f) > 1 /\ f[1] = Root[1]
  /\ \A f, g \in Source : ~IsStrictPrefix(f, g)
ASSUME BoundAssumption == Clean \in BOOLEAN /\ MaxCrashes \in Nat

VARIABLES
  entries,      \* the paths that exist, as processes see it
  data,         \* of each file: who wrote it and how far
  lasting,      \* paths whose name is on disk
  synced,       \* files whose bytes are on disk
  pc,           \* of each call
  todo,         \* of each call: files not yet written
  file,         \* of each call: the one being written
  dir,          \* of each call: the loop variable of line 160
  directories,  \* of each call: what to sync at the end
  reader,       \* a call of ReadDirectory: its phase, what it has still to
                \* visit, the files it has, and whether a call that writes
                \* had returned before it began
  crashes

disk == <<entries, data, lasting, synced>>
local == <<todo, file, dir, directories>>
vars == <<disk, pc, local, reader, crashes>>

Idle == [phase |-> "idle", listed |-> {}, files |-> <<>>, after |-> FALSE]

(* filepath.Dir, whose fixpoint, "/" or ".", stands at Top here.           *)
Dir(x) == IF x = Top THEN Top ELSE Front(x)
Above(x) == {SubSeq(x, 1, n) : n \in 1..(Len(x) - 1)}

Init ==
  /\ entries = {} /\ data = <<>> /\ lasting = {} /\ synced = {}
  /\ pc = [w \in Writer |-> "mkdir"]
  /\ todo = [w \in Writer |-> Source] /\ file = [w \in Writer |-> Root]
  /\ dir = [w \in Writer |-> Top] /\ directories = [w \in Writer |-> {}]
  /\ reader = Idle /\ crashes = 0

Goto(w, l) == pc' = [pc EXCEPT ![w] = l]
SetData(f, d) == data' = [x \in DOMAIN data \cup {f} |-> IF x = f THEN d ELSE data[x]]

-----------------------------------------------------------------------------

(* Mutant of Mkdir: os.MkdirAll, which accepts a directory that exists. *)
MkdirExisting(w) ==
  /\ pc[w] = "mkdir"
  /\ entries' = entries \cup {Root}
  /\ directories' = [directories EXCEPT ![w] = {Root, Top}] /\ Goto(w, "next")
  /\ UNCHANGED <<data, lasting, synced, todo, file, dir, reader, crashes>>

(* Mutant of Mkdir: the parent directory is not among those to sync. *)
MkdirUnsynced(w) ==
  /\ pc[w] = "mkdir" /\ Root \notin entries
  /\ entries' = entries \cup {Root}
  /\ directories' = [directories EXCEPT ![w] = {Root}] /\ Goto(w, "next")
  /\ UNCHANGED <<data, lasting, synced, todo, file, dir, reader, crashes>>

(* The source's digest is computed, then os.Mkdir refuses a root that      *)
(* exists.                                                                 *)
Mkdir(w) ==
  /\ pc[w] = "mkdir"
  /\ IF Root \in entries
       THEN Goto(w, "failed") /\ UNCHANGED <<entries, directories>>
       ELSE /\ entries' = entries \cup {Root}
            /\ directories' = [directories EXCEPT ![w] = {Root, Top}]
            /\ Goto(w, "next")
  /\ UNCHANGED <<data, lasting, synced, todo, file, dir, reader, crashes>>

(* The next file: its missing directories are made, all in one step, for a *)
(* crash may lose any of them anyway.                                      *)
NextFile(w, f) ==
  /\ pc[w] = "next" /\ f \in todo[w]
  /\ entries' = entries \cup Above(f)
  /\ file' = [file EXCEPT ![w] = f] /\ todo' = [todo EXCEPT ![w] = @ \ {f}]
  /\ dir' = [dir EXCEPT ![w] = Dir(f)]
  /\ Goto(w, "collect")
  /\ UNCHANGED <<data, lasting, synced, directories, reader, crashes>>

(* Mutant of AtRoot: the loop does not recognise root. *)
AtRootNever(w) == FALSE

(* The loop recognises root by its spelling; Dir returns clean paths only. *)
AtRoot(w) == Clean /\ dir[w] = Root

(* Lines 160 to 162, from the file's directory up to root.                 *)
Collect(w) ==
  /\ pc[w] = "collect"
  /\ IF AtRoot(w)
       THEN Goto(w, "open") /\ UNCHANGED <<dir, directories>>
       ELSE /\ directories' = [directories EXCEPT ![w] = @ \cup {dir[w]}]
            /\ dir' = [dir EXCEPT ![w] = Dir(@)] /\ UNCHANGED pc
  /\ UNCHANGED <<disk, todo, file, reader, crashes>>

(* O_CREATE|O_EXCL: a file that exists is an error.                        *)
Open(w) ==
  /\ pc[w] = "open"
  /\ IF file[w] \in entries
       THEN Goto(w, "failed") /\ UNCHANGED <<entries, data>>
       ELSE /\ entries' = entries \cup {file[w]}
            /\ SetData(file[w], [by |-> w, bytes |-> "none"])
            /\ Goto(w, "write")
  /\ UNCHANGED <<lasting, synced, local, reader, crashes>>

Write(w) ==
  /\ pc[w] = "write"
  /\ \/ SetData(file[w], [by |-> w, bytes |-> "all"]) /\ Goto(w, "sync")
     \/ SetData(file[w], [by |-> w, bytes |-> "some"]) /\ Goto(w, "failed")
  /\ UNCHANGED <<entries, lasting, synced, local, reader, crashes>>

(* Sync and close.                                                         *)
Sync(w) ==
  /\ pc[w] = "sync"
  /\ synced' = synced \cup {file[w]}
  /\ Goto(w, IF todo[w] = {} THEN "flush" ELSE "next")
  /\ UNCHANGED <<entries, data, lasting, local, reader, crashes>>

Longest(D) == {d \in D : \A e \in D : Len(e) <= Len(d)}

(* Sync the directories, the longest path first, then return.              *)
Flush(w) ==
  /\ pc[w] = "flush"
  /\ IF directories[w] = {}
       THEN Goto(w, "written") /\ UNCHANGED <<lasting, directories>>
       ELSE \E d \in Longest(directories[w]) :
              /\ lasting' = lasting \cup {x \in entries : Dir(x) = d}
              /\ directories' = [directories EXCEPT ![w] = @ \ {d}]
              /\ UNCHANGED pc
  /\ UNCHANGED <<entries, data, synced, todo, file, dir, reader, crashes>>

(* Any system call may fail; what was written stays behind.                *)
Fail(w) ==
  /\ pc[w] \notin {"written", "failed"} /\ Goto(w, "failed")
  /\ UNCHANGED <<disk, local, reader, crashes>>

-----------------------------------------------------------------------------
(* ReadDirectory.  WalkDir lists a directory when it comes to it.          *)

Listing(d) == {x \in entries : x # Top /\ Dir(x) = d}

(* os.Lstat of root, and its listing.                                      *)
Look ==
  /\ reader.phase = "idle"
  /\ reader' = IF Root \in entries
                 THEN [phase |-> "walking", listed |-> Listing(Root), files |-> <<>>,
                       after |-> \E w \in Writer : pc[w] = "written"]
                 ELSE [Idle EXCEPT !.phase = "failed"]
  /\ UNCHANGED <<disk, pc, local, crashes>>

(* A directory is entered; a file is read as far as it is written.         *)
Visit(x) ==
  /\ reader.phase = "walking" /\ x \in reader.listed
  /\ reader' = IF x \in Source
                 THEN [reader EXCEPT !.listed = @ \ {x},
                                     !.files = [f \in DOMAIN @ \cup {x} |-> IF f = x THEN data[x].bytes ELSE @[f]]]
                 ELSE [reader EXCEPT !.listed = (@ \ {x}) \cup Listing(x)]
  /\ UNCHANGED <<disk, pc, local, crashes>>

(* Digest at the end refuses a source without files.                       *)
Finish ==
  /\ reader.phase = "walking" /\ reader.listed = {}
  /\ reader' = IF reader.files = <<>> THEN [Idle EXCEPT !.phase = "failed"]
               ELSE [reader EXCEPT !.phase = "read"]
  /\ UNCHANGED <<disk, pc, local, crashes>>

(* Mutant of ReadFails: a file that cannot be read is left out. *)
ReadFailsOn ==
  /\ reader.phase = "walking"
  /\ \E x \in reader.listed : reader' = [reader EXCEPT !.listed = @ \ {x}]
  /\ UNCHANGED <<disk, pc, local, crashes>>

(* A system call fails, and the whole reading with it.                     *)
ReadFails ==
  /\ reader.phase = "walking"
  /\ reader' = [Idle EXCEPT !.phase = "failed"]
  /\ UNCHANGED <<disk, pc, local, crashes>>

ReadDirectory == Look \/ Finish \/ ReadFails \/ \E x \in reader.listed : Visit(x)

-----------------------------------------------------------------------------

(* The machine goes down.  Of the names not yet on disk any may have got   *)
(* there, and of the bytes of a file not synced any part.                  *)
Crash ==
  /\ crashes < MaxCrashes /\ crashes' = crashes + 1
  /\ \E extra \in SUBSET (entries \ lasting), torn \in SUBSET (DOMAIN data \ synced) :
       LET kept == lasting \cup extra
           reachable == {x \in kept : Above(x) \subseteq kept}
       IN /\ entries' = reachable /\ lasting' = reachable
          /\ data' = [f \in DOMAIN data \cap reachable |->
                       IF f \in torn THEN [data[f] EXCEPT !.bytes = "some"] ELSE data[f]]
          /\ synced' = DOMAIN data'
  /\ pc' = [w \in Writer |-> IF pc[w] \in {"mkdir", "written"} THEN pc[w] ELSE "failed"]
  /\ reader' = Idle
  /\ UNCHANGED local

Step(w) ==
  \/ Mkdir(w) \/ Collect(w) \/ Open(w) \/ Write(w) \/ Sync(w) \/ Flush(w)
  \/ \E f \in Source : NextFile(w, f)

Next == Crash \/ ReadDirectory \/ \E w \in Writer : Step(w) \/ Fail(w)

Spec == Init /\ [][Next]_vars

(* A call that runs takes its next step; the disk answers.                 *)
FairSpec == Spec /\ \A w \in Writer : WF_vars(Step(w))

-----------------------------------------------------------------------------
(* Properties.                                                             *)

(* A source WriteDirectory reported as written is there, each file with    *)
(* all its bytes, and stays so whenever the machine goes down: that is     *)
(* what the syncs of lines 172 and 194 are for.                            *)
WrittenIsDurable ==
  \A w \in Writer : pc[w] = "written" =>
    \A f \in Source : f \in entries /\ data[f] = [by |-> w, bytes |-> "all"]

(* "It never overwrites an existing source" (files.go:146): the files      *)
(* under root all come from one call; the others leave it alone, even when *)
(* they race or run after a failure or a crash.                            *)
OneCallWrites ==
  \A f, g \in DOMAIN data : data[f].by = data[g].by

(* A reading that begins after a call has returned sees the whole source   *)
(* and nothing else, also after the machine went down and while other      *)
(* calls fail for the same root; one of half of it is never returned for   *)
(* the whole.                                                              *)
ReadBack ==
  reader.phase = "read" /\ reader.after => reader.files = [f \in Source |-> "all"]

(* A call that is not cut off by a crash returns.  (Line 160 recognises    *)
(* root by its spelling: for a root that is not clean, such as "./x" or    *)
(* "x/", the loop never ends.)                                             *)
Returns == \A w \in Writer : <>(pc[w] \in {"written", "failed"})
=============================================================================
