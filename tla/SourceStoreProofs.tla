------------------------- MODULE SourceStoreProofs --------------------------
(***************************************************************************)
(* What WriteDirectory and ReadDirectory guarantee for any source, any     *)
(* number of calls for one root, and any number of crashes.                *)
(***************************************************************************)
EXTENDS SourceStore, TLAPS

USE DEF disk, local

-----------------------------------------------------------------------------
(* Paths.                                                                  *)

(* The first n parts of a path.                                            *)
Upto(f, n) == SubSeq(f, 1, n)

LEMMA Shortened ==
  ASSUME NEW S, NEW f \in Seq(S), NEW n \in 0..Len(f)
  PROVE  /\ Upto(f, n) \in Seq(S) /\ Len(Upto(f, n)) = n
         /\ \A i \in 1..n : Upto(f, n)[i] = f[i]
         /\ \A m \in 0..n : Upto(Upto(f, n), m) = Upto(f, m)
<1>1. Upto(f, n) \in Seq(S) /\ Len(Upto(f, n)) = n /\ \A i \in 1..n : Upto(f, n)[i] = f[i]
  BY DEF Upto
<1>2. ASSUME NEW m \in 0..n PROVE Upto(Upto(f, n), m) = Upto(f, m)
  <2> DEFINE g == Upto(f, n)
  <2>1. /\ g \in Seq(S) /\ Len(g) = n /\ \A i \in 1..n : g[i] = f[i]
    BY <1>1
  <2> HIDE DEF g
  <2>2. Upto(g, m) \in Seq(S) /\ Len(Upto(g, m)) = m /\ \A i \in 1..m : Upto(g, m)[i] = g[i]
    BY <2>1 DEF Upto
  <2>3. Upto(f, m) \in Seq(S) /\ Len(Upto(f, m)) = m /\ \A i \in 1..m : Upto(f, m)[i] = f[i]
    BY DEF Upto
  <2>4. \A i \in 1..m : Upto(g, m)[i] = Upto(f, m)[i]
    BY <2>1, <2>2, <2>3
  <2>5. Upto(g, m) = Upto(f, m)
    BY <2>2, <2>3, <2>4
  <2> QED
    BY <2>5 DEF g
<1> QED
  BY <1>1, <1>2

(* The paths above a file are its shorter prefixes, the first is root.     *)
LEMMA Paths ==
  ASSUME NEW f \in Source
  PROVE  /\ Len(f) \in Nat /\ Len(f) > 1 /\ Upto(f, Len(f)) = f
         /\ Upto(f, 0) = Top /\ Upto(f, 1) = Root
         /\ Above(f) = {Upto(f, n) : n \in 1..(Len(f) - 1)}
         /\ \A n \in 0..Len(f) : Len(Upto(f, n)) = n
         /\ \A n \in 1..Len(f) : /\ Upto(f, n) # Top /\ Dir(Upto(f, n)) = Upto(f, n - 1)
                                 /\ Above(Upto(f, n)) = {Upto(f, m) : m \in 1..(n - 1)}
<1>1. f \in Seq(Part) /\ Len(f) \in Nat /\ Len(f) > 1 /\ f[1] = Root[1]
  BY SourceAssumption
<1>2. Upto(f, Len(f)) = f
  BY <1>1 DEF Upto
<1>3. Upto(f, 0) = Top
  BY <1>1 DEF Upto, Top
<1>4. Upto(f, 1) = Root
  <2>1. Root \in Seq(Part) /\ Len(Root) = 1
    BY SourceAssumption
  <2>2. Upto(f, 1) \in Seq(Part) /\ Len(Upto(f, 1)) = 1 /\ Upto(f, 1)[1] = f[1]
    BY <1>1 DEF Upto
  <2> QED
    BY <2>1, <2>2, <1>1
<1>5. ASSUME NEW n \in 0..Len(f)
      PROVE  Len(Upto(f, n)) = n /\ \A m \in 0..n : Upto(Upto(f, n), m) = Upto(f, m)
  BY <1>1, Shortened
<1>6. ASSUME NEW n \in 1..Len(f)
      PROVE  /\ Upto(f, n) # Top /\ Dir(Upto(f, n)) = Upto(f, n - 1)
             /\ Above(Upto(f, n)) = {Upto(f, m) : m \in 1..(n - 1)}
  <2>1. Len(Upto(f, n)) = n /\ n \in 0..Len(f)
    BY <1>1, <1>5
  <2>2. Upto(f, n) # Top
    <3>1. Len(Top) = 0
      BY DEF Top
    <3> QED
      BY <2>1, <3>1
  <2>3. \A m \in 0..n : Upto(Upto(f, n), m) = Upto(f, m)
    BY <2>1, <1>5
  <2>4. Dir(Upto(f, n)) = Upto(f, n - 1)
    <3>1. Dir(Upto(f, n)) = Upto(Upto(f, n), n - 1)
      BY <2>1, <2>2 DEF Dir, Front, Upto
    <3>2. n - 1 \in 0..n
      OBVIOUS
    <3> QED
      BY <2>3, <3>1, <3>2
  <2>5. Above(Upto(f, n)) = {Upto(Upto(f, n), m) : m \in 1..(n - 1)}
    BY <2>1 DEF Above, Upto
  <2>6. \A m \in 1..(n - 1) : Upto(Upto(f, n), m) = Upto(f, m)
    BY <2>3
  <2> QED
    BY <2>2, <2>4, <2>5, <2>6
<1>7. Above(f) = {Upto(f, n) : n \in 1..(Len(f) - 1)}
  BY <1>1 DEF Above, Upto
<1> QED
  BY <1>1, <1>2, <1>3, <1>4, <1>5, <1>6, <1>7

-----------------------------------------------------------------------------
(* The invariant, in parts.                                                *)

Busy == {"next", "collect", "open", "write", "sync", "flush"}
Holder(w) == pc[w] \in Busy \cup {"written"}

TypeOK ==
  /\ pc \in [Writer -> {"mkdir", "written", "failed"} \cup Busy]
  /\ todo \in [Writer -> SUBSET Source] /\ file \in [Writer -> Source \cup {Root}]
  /\ dir = [w \in Writer |-> dir[w]] /\ directories = [w \in Writer |-> directories[w]]
  /\ data = [f \in DOMAIN data |-> data[f]]
  /\ DOMAIN data \subseteq Source /\ DOMAIN data \subseteq entries
  /\ lasting \subseteq entries

(* At most one call has the directory.                                     *)
One ==
  /\ \A v, w \in Writer : Holder(v) /\ Holder(w) => v = w
  /\ \A w \in Writer : Holder(w) => Root \in entries /\ \A f \in DOMAIN data : data[f].by = w
  /\ Root \notin entries => DOMAIN data = {}
  /\ OneCallWrites

Whole(w) == [by |-> w, bytes |-> "all"]

(* A file that is there with all its bytes, in directories that are there. *)
Complete(w, f) ==
  /\ f \in DOMAIN data /\ data[f] = Whole(w) /\ f \in synced
  /\ \A n \in 1..Len(f) : Upto(f, n) \in entries

(* The directories that hold a path of f with n parts or more.             *)
Collected(w, f, k) == \A n \in k..Len(f) : Upto(f, n - 1) \in directories[w]

Progress(w) ==
  /\ pc[w] = "mkdir" => todo[w] = Source
  /\ pc[w] \in Busy \ {"flush"} => Root \in directories[w] /\ Top \in directories[w]
  /\ pc[w] = "next" => \A f \in Source \ todo[w] : Complete(w, f) /\ Collected(w, f, 1)
  /\ pc[w] \in {"collect", "open", "write", "sync"} =>
       /\ file[w] \in Source \ todo[w]
       /\ \A n \in 1..(Len(file[w]) - 1) : Upto(file[w], n) \in entries
       /\ \A f \in Source \ todo[w] : f # file[w] => Complete(w, f) /\ Collected(w, f, 1)
  /\ pc[w] = "collect" =>
       \E n \in 0..(Len(file[w]) - 1) : dir[w] = Upto(file[w], n) /\ Collected(w, file[w], n + 2)
  /\ pc[w] \in {"open", "write", "sync"} => Collected(w, file[w], 1)
  /\ pc[w] \in {"write", "sync"} => file[w] \in DOMAIN data
  /\ pc[w] = "sync" => data[file[w]] = Whole(w)
  /\ pc[w] = "flush" =>
       \A f \in Source : /\ Complete(w, f)
                         /\ \A n \in 1..Len(f) : Upto(f, n) \in lasting \/ Upto(f, n - 1) \in directories[w]
  /\ pc[w] = "written" =>
       \A f \in Source : Complete(w, f) /\ \A n \in 1..Len(f) : Upto(f, n) \in lasting

Inv == TypeOK /\ One /\ \A w \in Writer : Progress(w)

-----------------------------------------------------------------------------
(* One call at a time.                                                     *)

LEMMA InitInv == Init => Inv
<1> SUFFICES ASSUME Init PROVE Inv
  OBVIOUS
<1>1. TypeOK
  BY DEF Init, TypeOK
<1>2. One
  BY DEF Init, One, OneCallWrites, Holder, Busy
<1>3. \A w \in Writer : Progress(w)
  BY DEF Init, Progress, Busy
<1> QED
  BY <1>1, <1>2, <1>3 DEF Inv

(* What a call does not touch.                                             *)
LEMMA Untouched ==
  ASSUME NEW w \in Writer, Progress(w), UNCHANGED <<disk, pc[w], todo[w], file[w], dir[w], directories[w]>>
  PROVE  Progress(w)'
  BY DEF Progress, Complete, Collected, Busy

(* A call that has the directory is alone: its step need only keep what is *)
(* known of itself.                                                        *)
LEMMA Alone ==
  ASSUME Inv, NEW w \in Writer, Holder(w), NEW l, Goto(w, l), Progress(w)',
         \A v \in Writer : v # w => todo'[v] = todo[v],
         entries \subseteq entries', \A f \in DOMAIN data' : data'[f].by = w
  PROVE  One' /\ \A v \in Writer : Progress(v)'
<1>1. ASSUME NEW v \in Writer, v # w PROVE pc'[v] = pc[v] /\ ~Holder(v) /\ ~Holder(v)'
  BY <1>1 DEF Inv, TypeOK, One, Goto, Holder
<1>2. ASSUME NEW v \in Writer PROVE Progress(v)'
  BY <1>1, <1>2 DEF Inv, Progress, Holder, Busy
<1>3. Root \in entries /\ Root \in entries'
  BY DEF Inv, One
<1>4. One'
  BY <1>1, <1>3 DEF One, OneCallWrites
<1> QED
  BY <1>2, <1>4

(* A call that gives up where it stands disturbs nobody.                   *)
LEMMA GivingUp ==
  ASSUME Inv, NEW w \in Writer, Goto(w, "failed"), UNCHANGED <<disk, local>>
  PROVE  One' /\ \A v \in Writer : Progress(v)'
<1>1. ASSUME NEW v \in Writer, v # w PROVE pc'[v] = pc[v]
  BY <1>1 DEF Inv, TypeOK, Goto
<1>2. pc'[w] = "failed"
  BY DEF Inv, TypeOK, Goto
<1>3. ASSUME NEW v \in Writer PROVE Progress(v)'
  <2>1. CASE v = w
    BY <1>2, <2>1 DEF Progress, Busy
  <2>2. CASE v # w
    BY <1>1, <2>2, Untouched DEF Inv
  <2> QED
    BY <2>1, <2>2
<1>4. One'
  BY <1>1, <1>2 DEF Inv, One, OneCallWrites, Holder, Busy
<1> QED
  BY <1>3, <1>4

(* What is complete stays so while the file system only grows.             *)
LEMMA StaysComplete ==
  ASSUME NEW w, NEW f \in Source, Complete(w, f),
         entries \subseteq entries', synced \subseteq synced', f \in DOMAIN data', data'[f] = data[f]
  PROVE  Complete(w, f)'
BY DEF Complete

(* Every step of a call keeps the types.                                   *)
LEMMA TypesKept == Inv /\ [Next]_vars => TypeOK'
<1> SUFFICES ASSUME Inv, [Next]_vars PROVE TypeOK'
  OBVIOUS
<1>0. TypeOK
  BY DEF Inv
<1> USE <1>0 DEF Busy, Goto
<1>1. ASSUME NEW w \in Writer, Mkdir(w) PROVE TypeOK'
  BY <1>1 DEF TypeOK, Mkdir
<1>2. ASSUME NEW w \in Writer, NEW f \in Source, NextFile(w, f) PROVE TypeOK'
  BY <1>2 DEF TypeOK, NextFile
<1>3. ASSUME NEW w \in Writer, Collect(w) PROVE TypeOK'
  BY <1>3 DEF TypeOK, Collect
<1>4. ASSUME NEW w \in Writer, Open(w) PROVE TypeOK'
  <2>1. pc[w] = "open" /\ UNCHANGED <<lasting, synced, local, reader, crashes>>
    BY <1>4 DEF Open
  <2>2. CASE Goto(w, "failed") /\ UNCHANGED <<entries, data>>
    BY <2>1, <2>2 DEF TypeOK
  <2>3. CASE /\ entries' = entries \cup {file[w]} /\ Goto(w, "write")
             /\ SetData(file[w], [by |-> w, bytes |-> "none"])
    <3>1. file[w] \in Source
      BY <2>1 DEF Inv, Progress
    <3> QED
      BY <2>1, <2>3, <3>1 DEF TypeOK, SetData
  <2> QED
    BY <1>4, <2>2, <2>3 DEF Open
<1>5. ASSUME NEW w \in Writer, Write(w) PROVE TypeOK'
  <2>1. file[w] \in DOMAIN data
    BY <1>5 DEF Inv, Progress, Write
  <2> QED
    BY <1>5, <2>1 DEF TypeOK, Write, SetData
<1>6. ASSUME NEW w \in Writer, Sync(w) \/ Fail(w) PROVE TypeOK'
  BY <1>6 DEF TypeOK, Sync, Fail
<1>7. ASSUME NEW w \in Writer, Flush(w) PROVE TypeOK'
  BY <1>7 DEF TypeOK, Flush
<1>8. CASE ReadDirectory \/ UNCHANGED vars
  BY <1>8 DEF TypeOK, vars, ReadDirectory, Look, Finish, ReadFails, Visit
<1>9. CASE Crash
  BY <1>9 DEF TypeOK, Crash
<1> QED
  BY <1>1, <1>2, <1>3, <1>4, <1>5, <1>6, <1>7, <1>8, <1>9 DEF Next, Step

-----------------------------------------------------------------------------
(* Each step of a call, and a crash.                                       *)

LEMMA MkdirKeeps ==
  ASSUME Inv, NEW w \in Writer, Mkdir(w)
  PROVE  One' /\ \A v \in Writer : Progress(v)'
<1>1. TypeOK /\ One /\ Progress(w) /\ pc[w] = "mkdir"
  BY DEF Inv, Mkdir
<1>2. CASE Goto(w, "failed") /\ UNCHANGED <<entries, directories>>
  BY <1>2, GivingUp DEF Mkdir
<1>3. CASE /\ Root \notin entries /\ entries' = entries \cup {Root} /\ Goto(w, "next")
           /\ directories' = [directories EXCEPT ![w] = {Root, Top}]
  <2>1. UNCHANGED <<data, lasting, synced, todo, file, dir>>
    BY DEF Mkdir
  <2>2. DOMAIN data = {}
    BY <1>1, <1>3 DEF One
  <2>3. \A v \in Writer : ~Holder(v)
    BY <1>1, <1>3 DEF One
  <2>4. \A v \in Writer : v # w => pc'[v] = pc[v]
    BY <1>1, <1>3 DEF TypeOK, Goto
  <2>5. pc'[w] = "next" /\ directories'[w] = {Root, Top}
    BY <1>1, <1>3 DEF TypeOK, Goto
  <2>6. One'
    BY <1>3, <2>1, <2>2, <2>3, <2>4 DEF One, OneCallWrites, Holder
  <2>7. Progress(w)'
    <3>1. Source \ todo'[w] = {}
      BY <1>1, <2>1 DEF Progress, TypeOK
    <3> QED
      BY <2>5, <3>1 DEF Progress, Busy
  <2>8. ASSUME NEW v \in Writer PROVE Progress(v)'
    <3>1. CASE v # w
      <4>1. todo'[v] = Source \/ pc'[v] # "mkdir"
        BY <2>1, <2>4, <3>1 DEF Inv, Progress
      <4> QED
        BY <2>3, <2>4, <3>1, <4>1 DEF Progress, Holder, Busy
    <3> QED
      BY <2>7, <3>1
  <2> QED
    BY <2>6, <2>8
<1> QED
  BY <1>2, <1>3 DEF Mkdir

LEMMA NextFileKeeps ==
  ASSUME Inv, NEW w \in Writer, NEW f \in Source, NextFile(w, f)
  PROVE  One' /\ \A v \in Writer : Progress(v)'
<1>1. TypeOK /\ One /\ Progress(w) /\ pc[w] = "next" /\ f \in todo[w] /\ Holder(w)
  BY DEF Inv, NextFile, Holder, Busy
<1>2. /\ entries' = entries \cup Above(f) /\ file'[w] = f /\ todo'[w] = todo[w] \ {f}
      /\ dir'[w] = Dir(f) /\ pc'[w] = "collect" /\ UNCHANGED <<data, lasting, synced, directories>>
      /\ \A v \in Writer : v # w => todo'[v] = todo[v]
  BY <1>1 DEF TypeOK, NextFile, Goto
<1>3. Len(f) \in Nat /\ Len(f) > 1 /\ Dir(f) = Upto(f, Len(f) - 1)
  <2>1. Len(f) \in 1..Len(f)
    BY Paths
  <2> QED
    BY <2>1, Paths
<1>4. file'[w] \in Source \ todo'[w]
  BY <1>2
<1>5. \A n \in 1..(Len(f) - 1) : Upto(f, n) \in entries'
  BY <1>2, Paths
<1>6. ASSUME NEW g \in Source \ todo'[w], g # f
      PROVE  Complete(w, g)' /\ Collected(w, g, 1)'
  <2>1. Complete(w, g) /\ Collected(w, g, 1)
    BY <1>1, <1>2, <1>6 DEF Progress
  <2>2. Complete(w, g)'
    BY <1>2, <2>1, StaysComplete DEF Complete
  <2> QED
    BY <1>2, <2>1, <2>2 DEF Collected
<1>7. \E n \in 0..(Len(f) - 1) : dir'[w] = Upto(f, n) /\ Collected(w, f, n + 2)'
  <2>1. Len(f) - 1 \in 0..(Len(f) - 1) /\ (Len(f) - 1) + 2 = Len(f) + 1
    BY <1>3
  <2>2. Collected(w, f, Len(f) + 1)'
    BY <1>3 DEF Collected
  <2> QED
    BY <1>2, <1>3, <2>1, <2>2
<1>8. Root \in directories'[w] /\ Top \in directories'[w]
  BY <1>1, <1>2 DEF Progress, Busy
<1>9. Progress(w)'
  BY <1>2, <1>4, <1>5, <1>6, <1>7, <1>8 DEF Progress, Busy
<1>10. \A g \in DOMAIN data' : data'[g].by = w
  BY <1>1, <1>2 DEF One
<1>11. Goto(w, "collect")
  BY DEF NextFile
<1> QED
  BY <1>1, <1>2, <1>9, <1>10, <1>11, Alone

LEMMA CollectKeeps ==
  ASSUME Inv, NEW w \in Writer, Collect(w)
  PROVE  One' /\ \A v \in Writer : Progress(v)'
<1>1. TypeOK /\ One /\ Progress(w) /\ pc[w] = "collect" /\ Holder(w)
  BY DEF Inv, Collect, Holder, Busy
<1>2. UNCHANGED <<disk, todo, file>>
  BY DEF Collect
<1>3. PICK f \in Source \ todo[w] : f = file[w]
  BY <1>1 DEF Progress
<1>4. PICK n \in 0..(Len(f) - 1) : dir[w] = Upto(f, n) /\ Collected(w, f, n + 2)
  BY <1>1, <1>3 DEF Progress
<1>5. Root \in directories[w] /\ Top \in directories[w]
  BY <1>1 DEF Progress, Busy
<1>6. \A g \in DOMAIN data' : data'[g].by = w
  BY <1>1, <1>2 DEF One
<1>7. CASE AtRoot(w) /\ Goto(w, "open") /\ UNCHANGED <<dir, directories>>
  <2>1. pc'[w] = "open"
    BY <1>1, <1>7 DEF TypeOK, Goto
  <2>2. n = 1
    <3>1. dir[w] = Root /\ Len(Root) = 1
      BY <1>7, SourceAssumption DEF AtRoot
    <3>2. Len(Upto(f, n)) = n
      BY <1>3, <1>4, Paths
    <3> QED
      BY <1>4, <3>1, <3>2
  <2>3. Collected(w, f, 1)
    <3>1. ASSUME NEW m \in 1..Len(f) PROVE Upto(f, m - 1) \in directories[w]
      <4>1. CASE m = 1
        BY <1>3, <1>5, <4>1, Paths
      <4>2. CASE m = 2
        BY <1>3, <1>5, <4>2, Paths
      <4>3. CASE m \in 3..Len(f)
        BY <1>4, <2>2, <4>3 DEF Collected
      <4> QED
        BY <1>3, <4>1, <4>2, <4>3, Paths
    <3> QED
      BY <3>1 DEF Collected
  <2>4. Progress(w)'
    BY <1>1, <1>2, <1>3, <1>7, <2>1, <2>3 DEF Progress, Collected, Complete, Busy
  <2> QED
    BY <1>1, <1>2, <1>6, <1>7, <2>4, Alone
<1>8. CASE /\ directories' = [directories EXCEPT ![w] = @ \cup {dir[w]}]
           /\ dir' = [dir EXCEPT ![w] = Dir(@)] /\ UNCHANGED pc
  <2>1. directories'[w] = directories[w] \cup {dir[w]} /\ dir'[w] = Dir(dir[w]) /\ pc'[w] = "collect"
    BY <1>1, <1>8 DEF TypeOK
  <2>2. \A g \in Source, k \in Nat : Collected(w, g, k) => Collected(w, g, k)'
    BY <2>1 DEF Collected
  <2>3. \E m \in 0..(Len(f) - 1) : dir'[w] = Upto(f, m) /\ Collected(w, f, m + 2)'
    <3>1. CASE n = 0
      <4>1. dir'[w] = Upto(f, 0)
        BY <1>3, <1>4, <2>1, <3>1, Paths DEF Dir
      <4> QED
        BY <1>3, <1>4, <2>2, <3>1, <4>1
    <3>2. CASE n \in 1..(Len(f) - 1)
      <4>1. n \in 1..Len(f) /\ n - 1 \in 0..(Len(f) - 1)
        BY <1>3, <3>2, Paths
      <4>2. dir'[w] = Upto(f, n - 1)
        BY <1>3, <1>4, <2>1, <4>1, Paths
      <4>3. Collected(w, f, (n - 1) + 2)'
        <5>1. ASSUME NEW m \in ((n - 1) + 2)..Len(f) PROVE Upto(f, m - 1) \in directories'[w]
          <6>1. CASE m = n + 1
            BY <1>4, <2>1, <6>1, <3>2
          <6>2. CASE m \in (n + 2)..Len(f)
            BY <1>4, <2>1, <6>2 DEF Collected
          <6> QED
            BY <1>3, <3>2, <6>1, <6>2, Paths
        <5> QED
          BY <5>1 DEF Collected
      <4> QED
        BY <4>1, <4>2, <4>3
    <3> QED
      BY <1>3, <1>4, <3>1, <3>2, Paths
  <2>4. Progress(w)'
    <3>1. \A g \in Source \ todo[w] : g # f => Complete(w, g)' /\ Collected(w, g, 1)'
      BY <1>1, <1>2, <1>3, <2>2 DEF Progress, Complete
    <3>2. \A m \in 1..(Len(f) - 1) : Upto(f, m) \in entries
      BY <1>1, <1>3 DEF Progress
    <3> QED
      BY <1>2, <1>3, <1>5, <2>1, <2>3, <3>1, <3>2 DEF Progress, Busy
  <2>5. Goto(w, "collect")
    BY <1>1, <1>8 DEF TypeOK, Goto
  <2> QED
    BY <1>1, <1>2, <1>6, <2>4, <2>5, Alone
<1> QED
  BY <1>7, <1>8 DEF Collect

(* The facts about the file a call is writing.                             *)
LEMMA AtWork ==
  ASSUME Inv, NEW w \in Writer, pc[w] \in {"open", "write", "sync"}
  PROVE  /\ TypeOK /\ One /\ Progress(w) /\ Holder(w)
         /\ Root \in directories[w] /\ Top \in directories[w]
         /\ file[w] \in Source \ todo[w] /\ Collected(w, file[w], 1)
         /\ \A n \in 1..(Len(file[w]) - 1) : Upto(file[w], n) \in entries
         /\ \A f \in Source \ todo[w] : f # file[w] => Complete(w, f) /\ Collected(w, f, 1)
         /\ \A f \in DOMAIN data : data[f].by = w
BY DEF Inv, Progress, Holder, Busy, One

LEMMA OpenKeeps ==
  ASSUME Inv, NEW w \in Writer, Open(w)
  PROVE  One' /\ \A v \in Writer : Progress(v)'
<1>1. pc[w] = "open" /\ UNCHANGED <<lasting, synced, local>>
  BY DEF Open
<1>2. PICK f \in Source \ todo[w] : f = file[w]
  BY <1>1, AtWork
<1>3. CASE Goto(w, "failed") /\ UNCHANGED <<entries, data>>
  BY <1>1, <1>3, GivingUp
<1>4. CASE /\ f \notin entries /\ entries' = entries \cup {f} /\ Goto(w, "write")
           /\ SetData(f, [by |-> w, bytes |-> "none"])
  <2>1. pc'[w] = "write"
    BY <1>1, <1>4, AtWork DEF TypeOK, Goto
  <2>2. /\ DOMAIN data' = DOMAIN data \cup {f} /\ data'[f] = [by |-> w, bytes |-> "none"]
        /\ \A g \in DOMAIN data : g # f => data'[g] = data[g]
    BY <1>4 DEF SetData
  <2>3. \A g \in DOMAIN data' : data'[g].by = w
    BY <1>1, <2>2, AtWork
  <2>4. ASSUME NEW g \in Source \ todo[w], g # f PROVE Complete(w, g)' /\ Collected(w, g, 1)'
    <3>1. Complete(w, g) /\ Collected(w, g, 1)
      BY <1>1, <1>2, <2>4, AtWork
    <3>2. g \in DOMAIN data' /\ data'[g] = data[g]
      BY <2>2, <2>4, <3>1 DEF Complete
    <3>3. Complete(w, g)'
      BY <1>1, <1>4, <3>1, <3>2, StaysComplete
    <3> QED
      BY <1>1, <3>1, <3>3 DEF Collected
  <2>5. Collected(w, f, 1)' /\ \A n \in 1..(Len(f) - 1) : Upto(f, n) \in entries'
    BY <1>1, <1>2, <1>4, AtWork DEF Collected
  <2>6. Progress(w)'
    BY <1>1, <1>2, <2>1, <2>2, <2>4, <2>5, AtWork DEF Progress, Busy
  <2> QED
    BY <1>1, <1>4, <2>3, <2>6, Alone, AtWork
<1> QED
  BY <1>2, <1>3, <1>4 DEF Open

LEMMA WriteKeeps ==
  ASSUME Inv, NEW w \in Writer, Write(w)
  PROVE  One' /\ \A v \in Writer : Progress(v)'
<1>1. pc[w] = "write" /\ UNCHANGED <<entries, lasting, synced, local>>
  BY DEF Write
<1>2. PICK f \in Source \ todo[w] : f = file[w]
  BY <1>1, AtWork
<1>3. PICK d : /\ d \in {[by |-> w, bytes |-> "all"], [by |-> w, bytes |-> "some"]} /\ SetData(f, d)
               /\ Goto(w, IF d = [by |-> w, bytes |-> "all"] THEN "sync" ELSE "failed")
  BY <1>2 DEF Write
<1>4. /\ DOMAIN data' = DOMAIN data \cup {f} /\ data'[f] = d
      /\ \A g \in DOMAIN data : g # f => data'[g] = data[g]
  BY <1>3 DEF SetData
<1>5. \A g \in DOMAIN data' : data'[g].by = w
  BY <1>1, <1>3, <1>4, AtWork
<1>6. ASSUME NEW g \in Source \ todo[w], g # f PROVE Complete(w, g)' /\ Collected(w, g, 1)'
  <2>1. Complete(w, g) /\ Collected(w, g, 1)
    BY <1>1, <1>2, <1>6, AtWork
  <2>2. g \in DOMAIN data' /\ data'[g] = data[g]
    BY <1>4, <1>6, <2>1 DEF Complete
  <2>3. Complete(w, g)'
    BY <1>1, <2>1, <2>2, StaysComplete
  <2> QED
    BY <1>1, <2>1, <2>3 DEF Collected
<1>7. Collected(w, f, 1)' /\ \A n \in 1..(Len(f) - 1) : Upto(f, n) \in entries'
  BY <1>1, <1>2, AtWork DEF Collected
<1>8. Progress(w)'
  <2>1. CASE d = [by |-> w, bytes |-> "all"]
    <3>1. pc'[w] = "sync"
      BY <1>1, <1>3, <2>1, AtWork DEF TypeOK, Goto
    <3> QED
      BY <1>1, <1>2, <1>4, <1>6, <1>7, <2>1, <3>1, AtWork DEF Progress, Busy, Whole
  <2>2. CASE d # [by |-> w, bytes |-> "all"]
    <3>1. pc'[w] = "failed"
      BY <1>1, <1>3, <2>2, AtWork DEF TypeOK, Goto
    <3> QED
      BY <3>1 DEF Progress, Busy
  <2> QED
    BY <2>1, <2>2
<1> QED
  BY <1>1, <1>3, <1>5, <1>8, Alone, AtWork

LEMMA SyncKeeps ==
  ASSUME Inv, NEW w \in Writer, Sync(w)
  PROVE  One' /\ \A v \in Writer : Progress(v)'
<1>1. pc[w] = "sync" /\ UNCHANGED <<entries, data, lasting, local>>
  BY DEF Sync
<1>2. PICK f \in Source \ todo[w] : f = file[w]
  BY <1>1, AtWork
<1>3. synced' = synced \cup {f}
  BY <1>2 DEF Sync
<1>4. f \in DOMAIN data /\ data[f] = Whole(w) /\ f \in entries
  BY <1>1, <1>2, AtWork DEF Progress, TypeOK
<1>5. ASSUME NEW g \in Source \ todo[w] PROVE Complete(w, g)' /\ Collected(w, g, 1)'
  <2>1. CASE g = f
    <3>1. Collected(w, g, 1) /\ \A n \in 1..(Len(f) - 1) : Upto(f, n) \in entries
      BY <1>1, <1>2, <2>1, AtWork
    <3>2. \A n \in 1..Len(f) : Upto(f, n) \in entries
      BY <1>4, <3>1, Paths
    <3> QED
      BY <1>1, <1>3, <1>4, <2>1, <3>1, <3>2 DEF Complete, Collected, Whole
  <2>2. CASE g # f
    <3>1. Complete(w, g) /\ Collected(w, g, 1)
      BY <1>1, <1>2, <2>2, AtWork
    <3> QED
      BY <1>1, <1>3, <3>1 DEF Complete, Collected, Whole
  <2> QED
    BY <2>1, <2>2
<1>6. Progress(w)'
  <2>1. CASE todo[w] = {}
    <3>1. pc'[w] = "flush"
      BY <1>1, <2>1, AtWork DEF Sync, TypeOK, Goto
    <3> QED
      BY <1>5, <2>1, <3>1 DEF Progress, Busy, Collected
  <2>2. CASE todo[w] # {}
    <3>1. pc'[w] = "next"
      BY <1>1, <2>2, AtWork DEF Sync, TypeOK, Goto
    <3> QED
      BY <1>1, <1>5, <3>1, AtWork DEF Progress, Busy
  <2> QED
    BY <2>1, <2>2
<1>7. Goto(w, IF todo[w] = {} THEN "flush" ELSE "next")
  BY DEF Sync
<1> QED
  BY <1>1, <1>6, <1>7, Alone, AtWork

LEMMA FlushKeeps ==
  ASSUME Inv, NEW w \in Writer, Flush(w)
  PROVE  One' /\ \A v \in Writer : Progress(v)'
<1>1. TypeOK /\ One /\ Progress(w) /\ pc[w] = "flush" /\ Holder(w)
  BY DEF Inv, Flush, Holder, Busy
<1>2. UNCHANGED <<entries, data, synced, todo, file, dir>>
  BY DEF Flush
<1>3. ASSUME NEW f \in Source
      PROVE  /\ Complete(w, f) /\ Complete(w, f)'
             /\ \A n \in 1..Len(f) : Upto(f, n) \in lasting \/ Upto(f, n - 1) \in directories[w]
  BY <1>1, <1>2 DEF Progress, Complete, Whole
<1>4. \A f \in DOMAIN data' : data'[f].by = w
  BY <1>1, <1>2 DEF One
<1>5. CASE directories[w] = {} /\ Goto(w, "written") /\ UNCHANGED <<lasting, directories>>
  <2>1. pc'[w] = "written"
    BY <1>1, <1>5 DEF TypeOK, Goto
  <2>2. Progress(w)'
    BY <1>3, <1>5, <2>1 DEF Progress, Busy
  <2> QED
    BY <1>1, <1>2, <1>4, <1>5, <2>2, Alone
<1>6. ASSUME NEW d \in directories[w], UNCHANGED pc,
             lasting' = lasting \cup {x \in entries : Dir(x) = d},
             directories' = [directories EXCEPT ![w] = @ \ {d}]
      PROVE  One' /\ \A v \in Writer : Progress(v)'
  <2>1. pc'[w] = "flush" /\ directories'[w] = directories[w] \ {d}
    BY <1>1, <1>6 DEF TypeOK
  <2>2. ASSUME NEW f \in Source, NEW n \in 1..Len(f)
        PROVE  Upto(f, n) \in lasting' \/ Upto(f, n - 1) \in directories'[w]
    <3>1. CASE Upto(f, n - 1) = d
      <4>1. Upto(f, n) \in entries
        BY <1>3 DEF Complete
      <4>2. Dir(Upto(f, n)) = d
        BY <3>1, Paths
      <4> QED
        BY <1>6, <4>1, <4>2
    <3>2. CASE Upto(f, n - 1) # d
      BY <1>3, <1>6, <2>1, <3>2
    <3> QED
      BY <3>1, <3>2
  <2>3. Progress(w)'
    BY <1>3, <2>1, <2>2 DEF Progress, Busy
  <2>4. Goto(w, "flush")
    BY <1>1, <1>6 DEF TypeOK, Goto
  <2> QED
    BY <1>1, <1>2, <1>4, <2>3, <2>4, Alone
<1>7. CASE /\ UNCHANGED pc
           /\ \E d \in Longest(directories[w]) :
                /\ lasting' = lasting \cup {x \in entries : Dir(x) = d}
                /\ directories' = [directories EXCEPT ![w] = @ \ {d}]
  <2>1. Longest(directories[w]) \subseteq directories[w]
    BY DEF Longest
  <2> QED
    BY <1>6, <1>7, <2>1
<1> QED
  BY <1>5, <1>7 DEF Flush

(* A crash leaves nobody at work, and what is whole on disk as it was.     *)
LEMMA CrashKeeps ==
  ASSUME Inv, Crash
  PROVE  One' /\ \A v \in Writer : Progress(v)'
<1>1. TypeOK /\ One
  BY DEF Inv
<1>2. PICK extra \in SUBSET (entries \ lasting), torn \in SUBSET (DOMAIN data \ synced) :
        LET kept == lasting \cup extra
            reachable == {x \in kept : Above(x) \subseteq kept}
        IN /\ entries' = reachable /\ lasting' = reachable
           /\ data' = [f \in DOMAIN data \cap reachable |->
                        IF f \in torn THEN [data[f] EXCEPT !.bytes = "some"] ELSE data[f]]
           /\ synced' = DOMAIN data'
  BY DEF Crash
<1> DEFINE kept == lasting \cup extra
           reachable == {x \in kept : Above(x) \subseteq kept}
<1>3. /\ entries' = reachable /\ lasting' = reachable /\ synced' = DOMAIN data'
      /\ DOMAIN data' = DOMAIN data \cap reachable
      /\ \A f \in DOMAIN data' : data'[f] = IF f \in torn THEN [data[f] EXCEPT !.bytes = "some"] ELSE data[f]
  BY <1>2
<1>4. \A x : x \in reachable <=> x \in kept /\ Above(x) \subseteq kept
  OBVIOUS
<1>5. lasting \subseteq kept /\ kept \subseteq entries
  BY <1>1 DEF TypeOK
<1> HIDE DEF reachable, kept
<1>6. UNCHANGED todo
  BY DEF Crash
<1>7. \A w \in Writer : pc'[w] = IF pc[w] \in {"mkdir", "written"} THEN pc[w] ELSE "failed"
  BY DEF Crash
<1>8. ASSUME NEW f \in DOMAIN data' PROVE data'[f].by = data[f].by
  <2>1. CASE f \in torn
    <3>1. data'[f] = [data[f] EXCEPT !.bytes = "some"]
      BY <1>3, <2>1
    <3> QED
      BY <3>1, <1>1, <1>3 DEF TypeOK
  <2>2. CASE f \notin torn
    BY <1>3, <2>2
  <2> QED
    BY <2>1, <2>2
<1>9. ASSUME NEW w \in Writer, pc[w] = "written", NEW f \in Source
      PROVE  Complete(w, f)' /\ \A n \in 1..Len(f) : Upto(f, n) \in lasting'
  <2>1. Complete(w, f) /\ \A n \in 1..Len(f) : Upto(f, n) \in lasting
    BY <1>9 DEF Inv, Progress
  <2>2. ASSUME NEW n \in 1..Len(f) PROVE Upto(f, n) \in reachable
    <3>1. Above(Upto(f, n)) = {Upto(f, m) : m \in 1..(n - 1)}
      BY Paths
    <3>2. \A m \in 1..(n - 1) : m \in 1..Len(f)
      BY Paths
    <3>3. Above(Upto(f, n)) \subseteq kept
      BY <1>5, <2>1, <3>1, <3>2
    <3> QED
      BY <1>4, <1>5, <2>1, <3>3
  <2>3. f \in reachable
    <3>1. Len(f) \in 1..Len(f) /\ Upto(f, Len(f)) = f
      BY Paths
    <3> QED
      BY <2>2, <3>1
  <2>4. f \in DOMAIN data' /\ data'[f] = data[f] /\ f \in synced'
    BY <1>2, <1>3, <2>1, <2>3 DEF Complete
  <2>5. Complete(w, f)'
    BY <1>3, <2>1, <2>2, <2>4 DEF Complete, Whole
  <2> QED
    BY <1>3, <2>2, <2>5
<1>10. ASSUME NEW w \in Writer PROVE Progress(w)'
  <2>1. CASE pc[w] = "mkdir"
    BY <1>6, <1>7, <2>1 DEF Inv, Progress, Busy
  <2>2. CASE pc[w] = "written"
    BY <1>7, <1>9, <2>2 DEF Progress, Busy
  <2>3. CASE pc[w] \notin {"mkdir", "written"}
    BY <1>7, <2>3 DEF Progress, Busy
  <2> QED
    BY <2>1, <2>2, <2>3
<1>11. \A w \in Writer : Holder(w)' => Holder(w) /\ pc[w] = "written"
  BY <1>7 DEF Holder, Busy
<1>12. ASSUME NEW f \in DOMAIN data' PROVE Root \in entries' /\ f \in DOMAIN data
  <2>1. f \in Source /\ f \in reachable
    BY <1>1, <1>3 DEF TypeOK
  <2>2. Root \in Above(f)
    <3>1. 1 \in 1..(Len(f) - 1) /\ Upto(f, 1) = Root /\ Above(f) = {Upto(f, n) : n \in 1..(Len(f) - 1)}
      BY <2>1, Paths
    <3> QED
      BY <3>1
  <2>3. Above(Root) = {}
    BY SourceAssumption DEF Above
  <2> QED
    BY <1>3, <1>4, <2>1, <2>2, <2>3
<1>13. ASSUME NEW w \in Writer, Holder(w)' PROVE Root \in entries'
  <2>1. PICK f \in Source : TRUE
    BY SourceAssumption
  <2>2. Complete(w, f)'
    BY <1>9, <1>11, <1>13, <2>1
  <2> QED
    BY <1>12, <2>2 DEF Complete
<1>14. One'
  <2>1. \A v, w \in Writer : Holder(v)' /\ Holder(w)' => v = w
    BY <1>1, <1>11 DEF One
  <2>2. \A w \in Writer : Holder(w)' => \A f \in DOMAIN data' : data'[f].by = w
    BY <1>1, <1>8, <1>11, <1>12 DEF One
  <2>3. OneCallWrites'
    BY <1>1, <1>8, <1>12 DEF One, OneCallWrites
  <2>4. Root \notin entries' => DOMAIN data' = {}
    BY <1>12
  <2> QED
    BY <1>13, <2>1, <2>2, <2>3, <2>4 DEF One
<1> QED
  BY <1>10, <1>14

-----------------------------------------------------------------------------
(* Inv holds in every state that can be reached.                           *)
THEOREM Invariance == Spec => []Inv
<1>1. Inv /\ [Next]_vars => Inv'
  <2> SUFFICES ASSUME Inv, [Next]_vars PROVE One' /\ \A v \in Writer : Progress(v)'
    BY TypesKept DEF Inv
  <2>1. ASSUME NEW w \in Writer, Step(w) PROVE One' /\ \A v \in Writer : Progress(v)'
    BY <2>1, MkdirKeeps, NextFileKeeps, CollectKeeps, OpenKeeps, WriteKeeps, SyncKeeps, FlushKeeps DEF Step
  <2>2. ASSUME NEW w \in Writer, Fail(w) PROVE One' /\ \A v \in Writer : Progress(v)'
    BY <2>2, GivingUp DEF Fail
  <2>3. CASE ReadDirectory \/ UNCHANGED vars
    <3>1. UNCHANGED <<disk, pc, local>>
      BY <2>3 DEF ReadDirectory, Look, Finish, ReadFails, Visit, vars
    <3>2. \A v \in Writer : Progress(v)'
      BY <3>1, Untouched DEF Inv
    <3> QED
      BY <3>1, <3>2 DEF Inv, One, OneCallWrites, Holder
  <2>4. CASE Crash
    BY <2>4, CrashKeeps
  <2> QED
    BY <2>1, <2>2, <2>3, <2>4 DEF Next
<1> QED
  BY <1>1, InitInv, PTL DEF Spec

(* The files under root all come from one call: files.go:146 "It never     *)
(* overwrites an existing source", for any number of calls and crashes.    *)
THEOREM OneCall == Spec => []OneCallWrites
<1>1. Inv => OneCallWrites
  BY DEF Inv, One
<1> QED
  BY <1>1, Invariance, PTL

(* What WriteDirectory reported as written survives every crash.           *)
THEOREM Durability == Spec => []WrittenIsDurable
<1>1. ASSUME Inv PROVE WrittenIsDurable
  <2>1. ASSUME NEW w \in Writer, pc[w] = "written", NEW f \in Source
        PROVE  f \in entries /\ data[f] = [by |-> w, bytes |-> "all"]
    <3>1. Complete(w, f)
      BY <1>1, <2>1 DEF Inv, Progress
    <3>2. Len(f) \in 1..Len(f) /\ Upto(f, Len(f)) = f
      BY Paths
    <3> QED
      BY <3>1, <3>2 DEF Complete, Whole
  <2> QED
    BY <2>1 DEF WrittenIsDurable
<1> QED
  BY <1>1, Invariance, PTL

-----------------------------------------------------------------------------
(* Reading.                                                                *)

(* A reading that began after a call had returned has so far only whole    *)
(* files, and every other file is still ahead of it.                       *)
Reading ==
  /\ reader = [phase |-> reader.phase, listed |-> reader.listed,
               files |-> reader.files, after |-> reader.after]
  /\ reader.files = [f \in DOMAIN reader.files |-> reader.files[f]]
  /\ reader.phase \in {"walking", "read"} /\ reader.after =>
       /\ \E w \in Writer : pc[w] = "written"
       /\ DOMAIN reader.files \subseteq Source
       /\ \A f \in DOMAIN reader.files : reader.files[f] = "all"
       /\ \A f \in Source \ DOMAIN reader.files :
            reader.phase = "walking" /\ \E n \in 2..Len(f) : Upto(f, n) \in reader.listed

(* No file's path goes through another file.                               *)
LEMMA FilesAreLeaves ==
  ASSUME NEW f \in Source, NEW n \in 1..Len(f), Upto(f, n) \in Source
  PROVE  Upto(f, n) = f
<1> DEFINE g == Upto(f, n)
<1>1. g \in Source /\ Len(g) = n /\ Len(f) \in Nat /\ Upto(g, Len(g)) = g
  BY Paths
<1> SUFFICES ASSUME g # f PROVE FALSE
  OBVIOUS
<1>2. SubSeq(g, 1, Len(g)) = SubSeq(f, 1, Len(g))
  BY <1>1 DEF Upto
<1>3. IsStrictPrefix(g, f)
  BY <1>1, <1>2 DEF IsStrictPrefix, IsPrefix
<1> QED
  BY <1>1, <1>3, SourceAssumption

(* What a returned call wrote is on the walk's way.                        *)
LEMMA OnTheWay ==
  ASSUME Inv, \E w \in Writer : pc[w] = "written", NEW f \in Source
  PROVE  /\ f \in DOMAIN data /\ data[f].bytes = "all"
         /\ \A n \in 2..Len(f) : Upto(f, n) \in Listing(Upto(f, n - 1))
<1>1. PICK w \in Writer : Complete(w, f)
  BY DEF Inv, Progress
<1>2. f \in DOMAIN data /\ data[f].bytes = "all"
  BY <1>1 DEF Complete, Whole
<1>3. ASSUME NEW n \in 2..Len(f) PROVE Upto(f, n) \in Listing(Upto(f, n - 1))
  <2>1. n \in 1..Len(f)
    BY Paths
  <2>2. Upto(f, n) # Top /\ Dir(Upto(f, n)) = Upto(f, n - 1) /\ Upto(f, n) \in entries
    BY <1>1, <2>1, Paths DEF Complete
  <2> QED
    BY <2>2 DEF Listing
<1> QED
  BY <1>2, <1>3

LEMMA ReturnedStays ==
  ASSUME Inv, [Next]_vars, NEW w \in Writer, pc[w] = "written"
  PROVE  pc'[w] = "written"
<1>1. TypeOK
  BY DEF Inv
<1>2. ASSUME NEW v \in Writer, Step(v) \/ Fail(v) PROVE pc'[w] = "written"
  BY <1>1, <1>2 DEF TypeOK, Step, Mkdir, Collect, Open, Write, Sync, Flush, NextFile, Fail, Goto
<1>3. CASE ReadDirectory \/ UNCHANGED vars
  BY <1>3 DEF ReadDirectory, Look, Finish, ReadFails, Visit, vars
<1>4. CASE Crash
  BY <1>4 DEF Crash
<1> QED
  BY <1>2, <1>3, <1>4 DEF Next

LEMMA FailureReads ==
  ASSUME reader' = [Idle EXCEPT !.phase = "failed"]
  PROVE  Reading'
<1>1. reader' = [phase |-> "failed", listed |-> {}, files |-> <<>>, after |-> FALSE]
  BY DEF Idle
<1>2. reader'.phase = "failed" /\ reader'.listed = {} /\ reader'.files = <<>> /\ reader'.after = FALSE
  BY <1>1
<1>3. reader'.files = [f \in DOMAIN reader'.files |-> reader'.files[f]]
  BY <1>2
<1> QED
  BY <1>1, <1>2, <1>3 DEF Reading

LEMMA LookReads ==
  ASSUME Inv, Reading, Look
  PROVE  Reading'
<1>1. UNCHANGED <<disk, pc, local>>
  BY DEF Look
<1>2. CASE reader' = [Idle EXCEPT !.phase = "failed"]
  BY <1>2, FailureReads
<1>3. CASE reader' = [phase |-> "walking", listed |-> Listing(Root), files |-> <<>>,
                      after |-> \E w \in Writer : pc[w] = "written"]
  <2>1. /\ reader'.phase = "walking" /\ reader'.listed = Listing(Root) /\ reader'.files = <<>>
        /\ reader'.after = \E w \in Writer : pc[w] = "written"
        /\ reader' = [phase |-> reader'.phase, listed |-> reader'.listed,
                      files |-> reader'.files, after |-> reader'.after]
    BY <1>3
  <2>2. DOMAIN reader'.files = {} /\ reader'.files = [f \in DOMAIN reader'.files |-> reader'.files[f]]
    BY <2>1
  <2>3. ASSUME \E w \in Writer : pc[w] = "written", NEW f \in Source
        PROVE  \E n \in 2..Len(f) : Upto(f, n) \in reader'.listed
    <3>1. 2 \in 2..Len(f) /\ Upto(f, 1) = Root
      BY Paths
    <3>2. Upto(f, 2) \in Listing(Upto(f, 2 - 1))
      BY <2>3, <3>1, OnTheWay
    <3> QED
      BY <2>1, <3>1, <3>2
  <2> QED
    BY <1>1, <2>1, <2>2, <2>3 DEF Reading
<1> QED
  BY <1>2, <1>3 DEF Look

LEMMA VisitReads ==
  ASSUME Inv, Reading, NEW x \in reader.listed, Visit(x)
  PROVE  Reading'
<1>1. reader.phase = "walking" /\ UNCHANGED <<disk, pc, local>>
  BY DEF Visit
<1>2. CASE /\ x \in Source
           /\ reader' = [reader EXCEPT !.listed = @ \ {x},
                !.files = [f \in DOMAIN @ \cup {x} |-> IF f = x THEN data[x].bytes ELSE @[f]]]
  <2>1. /\ reader'.phase = "walking" /\ reader'.listed = reader.listed \ {x}
        /\ reader'.files = [f \in DOMAIN reader.files \cup {x} |->
                             IF f = x THEN data[x].bytes ELSE reader.files[f]]
        /\ reader'.after = reader.after
        /\ reader' = [phase |-> reader'.phase, listed |-> reader'.listed,
                      files |-> reader'.files, after |-> reader'.after]
    BY <1>1, <1>2 DEF Reading
  <2>2. /\ DOMAIN reader'.files = DOMAIN reader.files \cup {x}
        /\ reader'.files = [f \in DOMAIN reader'.files |-> reader'.files[f]]
    BY <2>1
  <2>3. ASSUME reader.after
        PROVE  /\ \E w \in Writer : pc'[w] = "written"
               /\ DOMAIN reader'.files \subseteq Source
               /\ \A f \in DOMAIN reader'.files : reader'.files[f] = "all"
               /\ \A f \in Source \ DOMAIN reader'.files :
                    \E n \in 2..Len(f) : Upto(f, n) \in reader'.listed
    <3>1. /\ \E w \in Writer : pc[w] = "written"
          /\ DOMAIN reader.files \subseteq Source
          /\ \A f \in DOMAIN reader.files : reader.files[f] = "all"
          /\ \A f \in Source \ DOMAIN reader.files : \E n \in 2..Len(f) : Upto(f, n) \in reader.listed
      BY <1>1, <2>3 DEF Reading
    <3>2. data[x].bytes = "all"
      BY <1>2, <3>1, OnTheWay
    <3>3. ASSUME NEW f \in Source \ DOMAIN reader'.files
          PROVE  \E n \in 2..Len(f) : Upto(f, n) \in reader'.listed
      <4>1. PICK n \in 2..Len(f) : Upto(f, n) \in reader.listed
        BY <2>2, <3>1, <3>3
      <4>2. n \in 1..Len(f)
        BY Paths
      <4>3. Upto(f, n) # x
        BY <1>2, <2>2, <3>3, <4>2, FilesAreLeaves
      <4> QED
        BY <2>1, <4>1, <4>3
    <3> QED
      BY <1>1, <1>2, <2>1, <2>2, <3>1, <3>2, <3>3
  <2> QED
    BY <2>1, <2>2, <2>3 DEF Reading
<1>3. CASE x \notin Source /\ reader' = [reader EXCEPT !.listed = (@ \ {x}) \cup Listing(x)]
  <2>1. /\ reader'.phase = "walking" /\ reader'.listed = (reader.listed \ {x}) \cup Listing(x)
        /\ reader'.files = reader.files /\ reader'.after = reader.after
        /\ reader' = [phase |-> reader'.phase, listed |-> reader'.listed,
                      files |-> reader'.files, after |-> reader'.after]
    BY <1>1, <1>3 DEF Reading
  <2>2. ASSUME reader.after, NEW f \in Source \ DOMAIN reader.files
        PROVE  \E n \in 2..Len(f) : Upto(f, n) \in reader'.listed
    <3>1. \E w \in Writer : pc[w] = "written"
      BY <1>1, <2>2 DEF Reading
    <3>2. PICK n \in 2..Len(f) : Upto(f, n) \in reader.listed
      BY <1>1, <2>2 DEF Reading
    <3>3. CASE Upto(f, n) # x
      BY <2>1, <3>2, <3>3
    <3>4. CASE Upto(f, n) = x
      <4>1. n # Len(f)
        BY <1>3, <3>4, Paths
      <4>2. n + 1 \in 2..Len(f) /\ (n + 1) - 1 = n
        BY <4>1, Paths
      <4>3. Upto(f, n + 1) \in Listing(Upto(f, (n + 1) - 1))
        BY <3>1, <4>2, OnTheWay
      <4>4. Upto(f, n + 1) \in Listing(x)
        BY <3>4, <4>2, <4>3
      <4> QED
        BY <2>1, <4>2, <4>4
    <3> QED
      BY <3>3, <3>4
  <2> QED
    BY <1>1, <2>1, <2>2 DEF Reading
<1> QED
  BY <1>2, <1>3 DEF Visit

(* Reading holds in every state that can be reached.                       *)
LEMMA ReadingInvariance == Spec => []Reading
<1>1. Init => Reading
  BY DEF Init, Reading, Idle
<1>2. Inv /\ Reading /\ [Next]_vars => Reading'
  <2> SUFFICES ASSUME Inv, Reading, [Next]_vars PROVE Reading'
    OBVIOUS
  <2>1. CASE UNCHANGED reader
    BY <2>1, ReturnedStays DEF Reading
  <2>2. CASE Look
    BY <2>2, LookReads
  <2>3. ASSUME NEW x \in reader.listed, Visit(x) PROVE Reading'
    BY <2>3, VisitReads
  <2>4. CASE Finish
    <3>1. CASE reader' = [Idle EXCEPT !.phase = "failed"]
      BY <3>1, FailureReads
    <3>2. CASE reader' = [reader EXCEPT !.phase = "read"]
      <4>1. /\ reader'.phase = "read" /\ reader'.files = reader.files /\ reader'.after = reader.after
            /\ reader' = [phase |-> reader'.phase, listed |-> reader'.listed,
                          files |-> reader'.files, after |-> reader'.after]
        BY <3>2 DEF Reading
      <4>2. reader.phase = "walking" /\ reader.listed = {} /\ UNCHANGED pc
        BY <2>4 DEF Finish
      <4> QED
        BY <4>1, <4>2 DEF Reading
    <3> QED
      BY <2>4, <3>1, <3>2 DEF Finish
  <2>5. CASE ReadFails
    BY <2>5, FailureReads DEF ReadFails
  <2>6. CASE Crash
    BY <2>6 DEF Crash, Reading, Idle
  <2>7. UNCHANGED reader \/ ReadDirectory \/ Crash
    BY DEF Next, vars, Step, Mkdir, Collect, Open, Write, Sync, Flush, NextFile, Fail
  <2> QED
    BY <2>1, <2>2, <2>3, <2>4, <2>5, <2>6, <2>7 DEF ReadDirectory
<1> QED
  BY <1>1, <1>2, Invariance, PTL DEF Spec

(* ReadDirectory returns the whole source or nothing, once a call of       *)
(* WriteDirectory has returned.                                            *)
THEOREM WholeReadings == Spec => []ReadBack
<1>1. Reading => ReadBack
  BY DEF Reading, ReadBack
<1> QED
  BY <1>1, ReadingInvariance, PTL
=============================================================================
