---- MODULE AppConfigProofs ----
(***************************************************************************)
(* Proofs about AppConfig, for any number of uploads and archives of any   *)
(* size: its types, that a mixture is served only of uploads that ran next *)
(* to each other, that an upload that ran alone is served, and that the    *)
(* workers come to have what is served.                                    *)
(***************************************************************************)
EXTENDS AppConfig, SequenceTheorems, TLAPS

UploadT == [pc : Steps, at : Nat, seen : Seq(Block), saved : BOOLEAN]

Typed ==
    /\ upload \in [Uploads -> UploadT]
    /\ disk \in Seq(Block) /\ libZip \in Seq(Block) /\ fetched \in Seq(Block)
    /\ stale \in BOOLEAN
    /\ overlapped \subseteq Uploads /\ last \subseteq Uploads
    /\ crashes \in 0..MaxCrashes

(* How far an upload has come, what it has written and what it has read. *)
Progress(u) ==
    /\ upload[u].pc \in {"new", "create"} => upload[u].at = 0
    /\ upload[u].pc \in {"new", "create", "copy"} => upload[u].seen = <<>>
    /\ upload[u].pc = "copy" => upload[u].at < Size[u]
    /\ upload[u].saved <=> upload[u].at = Size[u]

RunningApart == \A u, v \in Running : u # v => u \in overlapped

(* The first blocks of an archive. *)
Begins(file, u) == \A j \in 1..Len(file) : file[j] = <<u, j>>
Prefix(s, t)    == Len(s) <= Len(t) /\ \A j \in 1..Len(s) : s[j] = t[j]

(* Blocks of uploads that ran alone. *)
Clean(file) == {i \in 1..Len(file) : file[i][1] \in Uploads \ overlapped}

(* A block of an upload that ran alone is in a file of its own, which nobody else is
   writing. *)
DiskOK ==
    /\ \A i \in Clean(disk) : Begins(disk, disk[i][1])
    /\ \A u \in Uploads : upload[u].pc = "copy" => \A i \in Clean(disk) : disk[i][1] = u
    /\ \A u \in Uploads \ overlapped :
           upload[u].pc = "copy" => Len(disk) = upload[u].at /\ Begins(disk, u)

(* An upload that reads such a file back has read nothing else before. *)
SeenOK(u) ==
    upload[u].pc \in {"read", "serve"} =>
        /\ \A i \in Clean(upload[u].seen) :
               \A j \in 1..i : upload[u].seen[j] = <<upload[u].seen[i][1], j>>
        /\ Clean(disk) # {} => Prefix(upload[u].seen, disk)

AloneOK(u) ==
    /\ Running \subseteq {u}
    /\ upload[u].pc \in {"read", "serve"} /\ upload[u].saved => disk = Archive(u)
    /\ upload[u].pc = "serve" /\ upload[u].saved => upload[u].seen = Archive(u)
    /\ upload[u].pc \in {"publish", "done"} /\ upload[u].saved =>
           libZip = Archive(u) /\ disk = Archive(u)

WorkersOK == fetched = libZip \/ stale \/ \E u \in Uploads : upload[u].pc = "publish"

IInv == /\ Typed /\ (\A u \in Uploads : Progress(u)) /\ RunningApart
        /\ DiskOK /\ (\A u \in Uploads : SeenOK(u)) /\ TornOnlyIfOverlapped
        /\ (\A u \in last \ overlapped : AloneOK(u)) /\ WorkersOK
----
LEMMA SizeIsPositive == \A u \in Uploads : Size[u] \in Nat /\ Size[u] >= 1
BY AppConfigAssumption

LEMMA InvImplies == IInv => TypeOK /\ TornOnlyIfOverlapped /\ WorkersHaveTheLast
<1> SUFFICES ASSUME IInv PROVE TypeOK /\ WorkersHaveTheLast
    BY DEF IInv
<1>1. TypeOK
    BY DEF IInv, Typed, UploadT, TypeOK, Progress
<1>2. WorkersHaveTheLast
    BY DEF IInv, WorkersOK, WorkersHaveTheLast, Running, Ended
<1> QED
    BY <1>1, <1>2

LEMMA InitEstablishes == Init => IInv
<1> SUFFICES ASSUME Init PROVE IInv
    OBVIOUS
<1>1. <<>> \in Seq(Block) /\ Len(<<>>) = 0
    OBVIOUS
<1>2. Typed
    <2>1. NewUpload \in UploadT
        BY <1>1 DEF UploadT, NewUpload, Steps, Ended
    <2>2. 0 \in 0..MaxCrashes
        BY AppConfigAssumption
    <2> QED
        BY <1>1, <2>1, <2>2 DEF Init, Typed
<1>3. \A u \in Uploads : Progress(u) /\ SeenOK(u) /\ upload[u].pc = "new"
    BY SizeIsPositive DEF Init, NewUpload, Progress, SeenOK
<1>4. Running = {}
    BY <1>3 DEF Running, Ended
<1> QED
    BY <1>1, <1>2, <1>3, <1>4
       DEF Init, IInv, RunningApart, DiskOK, Clean, TornOnlyIfOverlapped, WorkersOK
----
(* Files. *)

(* All the blocks of an archive are the archive. *)
LEMMA Whole ==
    ASSUME NEW file \in Seq(Block), NEW u \in Uploads, Begins(file, u), Len(file) = Size[u]
    PROVE  file = Archive(u)
<1>1. file \in [1..Size[u] -> Block]
    BY LenProperties
<1>2. \A j \in 1..Size[u] : file[j] = Archive(u)[j]
    BY DEF Begins, Archive
<1> QED
    BY <1>1, <1>2 DEF Archive

LEMMA ArchiveIsFile ==
    ASSUME NEW u \in Uploads
    PROVE  /\ Len(Archive(u)) = Size[u] /\ Archive(u)[Size[u]] = <<u, Size[u]>>
           /\ \A j \in 1..Size[u] : Archive(u)[j] = <<u, j>>
           /\ Archive(u) # <<>> /\ Parses(Archive(u))
<1>1. Archive(u) \in Seq(Nat \X Nat) \/ Len(Archive(u)) = Size[u]
    BY SizeIsPositive DEF Archive
<1>2. Len(Archive(u)) = Size[u] /\ \A j \in 1..Size[u] : Archive(u)[j] = <<u, j>>
    BY SizeIsPositive DEF Archive
<1>3. Archive(u) # <<>>
    BY <1>2, SizeIsPositive
<1> QED
    BY <1>2, <1>3, SizeIsPositive DEF Parses

(* A file that parses is of an upload that ran next to another, or an archive if its
   last block comes with those before it. *)
LEMMA ParsedFile ==
    ASSUME NEW file \in Seq(Block), Parses(file),
           \A i \in Clean(file) : \A j \in 1..i : file[j] = <<file[i][1], j>>
    PROVE  file[Len(file)][1] \in overlapped \/ \E u \in Uploads : file = Archive(u)
<1>1. PICK w \in Uploads : file # <<>> /\ file[Len(file)] = <<w, Size[w]>>
    BY DEF Parses
<1>2. Len(file) \in Nat /\ Len(file) >= 1
    BY <1>1, EmptySeq, LenProperties
<1>3. CASE w \notin overlapped
    <2>1. Len(file) \in Clean(file)
        BY <1>1, <1>2, <1>3 DEF Clean
    <2>2. \A j \in 1..Len(file) : file[j] = <<w, j>>
        BY <1>1, <2>1
    <2>3. Len(file) = Size[w]
        BY <1>1, <1>2, <2>2
    <2> QED
        BY <2>2, <2>3, Whole DEF Begins
<1> QED
    BY <1>1, <1>3

(* A block written at position i. *)
LEMMA Written ==
    ASSUME IInv, NEW i \in Nat \ {0}, NEW b \in Block
    PROVE  /\ WriteAt(i, b) \in Seq(Block)
           /\ Len(WriteAt(i, b)) = Max2(i, Len(disk))
           /\ \A j \in 1..Max2(i, Len(disk)) :
                  WriteAt(i, b)[j] = IF j = i THEN b
                                     ELSE IF j <= Len(disk) THEN disk[j] ELSE <<Hole, j>>
<1>1. disk \in Seq(Block) /\ Len(disk) \in Nat
    BY DEF IInv, Typed
<1>2. Max2(i, Len(disk)) \in Nat
    BY <1>1 DEF Max2
<1>3. \A j \in 1..Max2(i, Len(disk)) :
          (IF j = i THEN b ELSE IF j <= Len(disk) THEN disk[j] ELSE <<Hole, j>>) \in Block
    BY <1>1, <1>2 DEF Block
<1> QED
    BY <1>1, <1>2, <1>3 DEF WriteAt
----
(* Most steps move one upload on. *)

Moved(u, pc) ==
    /\ upload' \in [Uploads -> UploadT]
    /\ \A v \in Uploads \ {u} : upload'[v] = upload[v]
    /\ upload'[u].pc = pc

Kept(u) == /\ upload'[u].at = upload[u].at /\ upload'[u].seen = upload[u].seen
           /\ upload'[u].saved = upload[u].saved

LEMMA GotoMoves ==
    ASSUME IInv, NEW u \in Uploads, NEW pc \in Steps, Goto(u, pc)
    PROVE  Moved(u, pc) /\ Kept(u)
BY DEF IInv, Typed, UploadT, Goto, Moved, Kept

(* What an upload has read stays as it was while nothing is written. *)
LEMMA SeenStays ==
    ASSUME NEW v \in Uploads, SeenOK(v), disk' = disk, overlapped' = overlapped,
           upload'[v].seen = upload[v].seen,
           upload'[v].pc \in {"read", "serve"} => upload[v].pc \in {"read", "serve"}
    PROVE  SeenOK(v)'
<1>1. Clean(disk)' = Clean(disk)
    BY DEF Clean
<1>2. Clean(upload[v].seen)' = Clean(upload[v].seen)
    BY DEF Clean
<1>3. Prefix(upload[v].seen, disk)' <=> Prefix(upload[v].seen, disk)
    BY DEF Prefix
<1> QED
    BY <1>1, <1>2, <1>3 DEF SeenOK

LEMMA OneMoveSeen ==
    ASSUME IInv, NEW u \in Uploads, NEW pc, Moved(u, pc), Kept(u),
           disk' = disk, overlapped' = overlapped,
           pc \in {"read", "serve"} => upload[u].pc \in {"read", "serve"}
    PROVE  \A v \in Uploads : SeenOK(v)'
<1> SUFFICES ASSUME NEW v \in Uploads PROVE SeenOK(v)'
    OBVIOUS
<1>1. SeenOK(v)
    BY DEF IInv
<1>2. CASE v = u
    BY <1>1, <1>2, SeenStays DEF Moved, Kept
<1>3. CASE v # u
    <2>1. upload'[v] = upload[v]
        BY <1>3 DEF Moved
    <2> QED
        BY <1>1, <2>1, SeenStays
<1> QED
    BY <1>2, <1>3

(* The files are as they were while nothing is written and nobody comes to write. *)
LEMMA OneMoveDisk ==
    ASSUME IInv, NEW u \in Uploads, NEW pc, Moved(u, pc), pc # "copy",
           disk' = disk, overlapped' = overlapped
    PROVE  DiskOK'
<1>1. Clean(disk)' = Clean(disk) /\ DiskOK
    BY DEF Clean, IInv
<1>2. \A v \in Uploads : upload'[v].pc = "copy" => upload[v].pc = "copy" /\ upload'[v] = upload[v]
    BY DEF Moved
<1>3. \A i \in Clean(disk)' : Begins(disk', disk'[i][1])
    BY <1>1 DEF DiskOK, Begins
<1>4. \A v \in Uploads : upload'[v].pc = "copy" => \A i \in Clean(disk)' : disk'[i][1] = v
    BY <1>1, <1>2 DEF DiskOK
<1>5. \A v \in Uploads \ overlapped' :
          upload'[v].pc = "copy" => Len(disk') = upload'[v].at /\ Begins(disk', v)
    BY <1>1, <1>2 DEF DiskOK, Begins
<1> QED
    BY <1>3, <1>4, <1>5 DEF DiskOK

(* Who runs next to an upload that ran alone: nobody. *)
LEMMA AloneRuns ==
    ASSUME IInv, NEW u \in Running, NEW v \in last \ overlapped
    PROVE  v = u
BY DEF IInv, AloneOK

LEMMA ReadBodyPreserves == ASSUME IInv, NEW u \in Uploads, ReadBody(u) PROVE IInv'
<1>1. PICK pc \in {"create", "read"} : Goto(u, pc)
    BY DEF ReadBody
<1>2. /\ upload[u].pc = "new" /\ last' = {u}
      /\ overlapped' = IF Running = {} THEN overlapped ELSE overlapped \cup Running \cup {u}
      /\ UNCHANGED <<disk, libZip, fetched, stale, crashes>>
    BY DEF ReadBody, At
<1>3. Moved(u, pc) /\ Kept(u)
    BY <1>1, GotoMoves DEF Steps
<1>4. Running' = Running \cup {u} /\ Running \subseteq Uploads
    BY <1>3 DEF Moved, Running, Ended
<1>5. overlapped \subseteq overlapped' /\ overlapped' \subseteq Uploads
    BY <1>2, <1>4 DEF IInv, Typed
<1>6. Typed'
    BY <1>2, <1>3, <1>5 DEF IInv, Typed, Moved
<1>7. Progress(u) /\ ~upload[u].saved
    BY <1>2, SizeIsPositive DEF IInv, Progress
<1>8. \A v \in Uploads : Progress(v)'
    BY <1>2, <1>3, <1>7 DEF IInv, Progress, Moved, Kept
<1>9. RunningApart'
    BY <1>2, <1>4 DEF RunningApart
<1>10. Clean(disk)' \subseteq Clean(disk) /\ \A v \in Uploads : Clean(upload[v].seen)' \subseteq Clean(upload'[v].seen)
    BY <1>2, <1>5 DEF Clean
<1>11. DiskOK'
    BY <1>2, <1>3, <1>5, <1>10 DEF IInv, DiskOK, Begins, Moved
<1>12. ASSUME NEW v \in Uploads PROVE SeenOK(v)'
    <2>1. CASE v = u
        <3>1. upload'[u].seen = <<>>
            BY <1>2, <1>3, <1>7 DEF Progress, Kept
        <3> QED
            BY <1>2, <2>1, <3>1 DEF SeenOK, Clean, Prefix, IInv, Typed
    <2>2. CASE v # u
        BY <1>2, <1>3, <1>5, <1>10, <2>2 DEF IInv, SeenOK, Moved, Clean, Prefix
    <2> QED
        BY <2>1, <2>2
<1>13. TornOnlyIfOverlapped'
    BY <1>2, <1>5 DEF IInv, TornOnlyIfOverlapped
<1>14. \A v \in last' \ overlapped' : AloneOK(v)'
    BY <1>2, <1>3, <1>4, <1>7 DEF AloneOK, Moved, Kept
<1>15. WorkersOK'
    BY <1>2, <1>3 DEF IInv, WorkersOK, Moved
<1> QED
    BY <1>6, <1>8, <1>9, <1>11, <1>12, <1>13, <1>14, <1>15 DEF IInv

(* A step of a running upload. *)
LEMMA RunningStep ==
    ASSUME IInv, NEW u \in Running, NEW pc, Moved(u, pc), pc # "new", pc \in Ended \cup {"copy", "read", "serve", "publish"},
           UNCHANGED <<overlapped, last, crashes>>
    PROVE  /\ Running' \subseteq Running /\ u \in Uploads
           /\ RunningApart'
           /\ (u \in last \ overlapped => AloneOK(u)') => \A v \in last' \ overlapped' : AloneOK(v)'
<1>1. u \in Uploads /\ Running' \subseteq Running
    BY DEF Running, Moved
<1>2. RunningApart'
    BY <1>1 DEF IInv, RunningApart
<1>3. \A v \in last' \ overlapped' : v = u
    BY AloneRuns
<1> QED
    BY <1>1, <1>2, <1>3

LEMMA CreatePreserves == ASSUME IInv, NEW u \in Uploads, Create(u) PROVE IInv'
<1>1. /\ upload[u].pc = "create" /\ u \in Running
      /\ UNCHANGED <<libZip, fetched, stale, overlapped, last, crashes>>
    BY DEF Create, At, Running, Ended
<1>2. PICK pc \in {"copy", "read"} : /\ Goto(u, pc)
                                   /\ IF pc = "copy" THEN disk' = <<>> ELSE disk' = disk
    BY DEF Create
<1>3. Moved(u, pc) /\ Kept(u)
    BY <1>2, GotoMoves DEF Steps
<1>4. /\ Running' \subseteq Running /\ RunningApart'
      /\ (u \in last \ overlapped => AloneOK(u)') => \A v \in last' \ overlapped' : AloneOK(v)'
    BY <1>1, <1>3, RunningStep
<1>5. /\ upload[u].at = 0 /\ upload[u].seen = <<>> /\ ~upload[u].saved
      /\ Size[u] \in Nat /\ Size[u] >= 1
    BY <1>1, SizeIsPositive DEF IInv, Progress
<1>6. Typed'
    <2>1. disk' \in Seq(Block)
        BY <1>2, EmptySeq DEF IInv, Typed
    <2> QED
        BY <1>1, <1>3, <2>1 DEF IInv, Typed, Moved
<1>7. \A v \in Uploads : Progress(v)'
    BY <1>3, <1>5 DEF IInv, Progress, Moved, Kept
<1>8. Clean(disk)' \subseteq Clean(disk) /\ (pc = "copy" => Clean(disk)' = {} /\ Len(disk') = 0)
    BY <1>1, <1>2 DEF Clean
<1>9. DiskOK'
    <2>1. CASE pc = "copy"
        <3>1. ASSUME NEW v \in Uploads \ overlapped, upload'[v].pc = "copy"
              PROVE  Len(disk') = upload'[v].at /\ Begins(disk', v)
            <4>1. v = u
                <5>1. CASE v # u
                    <6>1. v \in Running
                        BY <1>3, <3>1, <5>1 DEF Moved, Running, Ended
                    <6> QED
                        BY <1>1, <3>1, <5>1, <6>1 DEF IInv, RunningApart
                <5> QED
                    BY <5>1
            <4> QED
                BY <1>3, <1>5, <1>8, <2>1, <4>1 DEF Kept, Begins
        <3> QED
            BY <1>1, <1>8, <2>1, <3>1 DEF DiskOK, Begins
    <2>2. CASE pc = "read"
        BY <1>1, <1>2, <1>3, <1>8, <2>2 DEF IInv, DiskOK, Begins, Moved
    <2> QED
        BY <2>1, <2>2
<1>10. ASSUME NEW v \in Uploads PROVE SeenOK(v)'
    <2>1. CASE v = u
        BY <1>2, <1>3, <1>5, <2>1 DEF SeenOK, Clean, Prefix, Kept, IInv, Typed
    <2>2. CASE v # u
        <3>1. upload'[v] = upload[v] /\ SeenOK(v)
            BY <1>3, <2>2 DEF Moved, IInv
        <3> QED
            BY <1>1, <1>2, <1>8, <3>1 DEF SeenOK, Clean, Prefix
    <2> QED
        BY <2>1, <2>2
<1>11. AloneOK(u)' \/ u \in overlapped
    <2>1. u \notin overlapped => Running \subseteq {u}
        BY <1>1 DEF IInv, RunningApart
    <2> QED
        BY <1>3, <1>4, <1>5, <2>1 DEF AloneOK, Moved, Kept
<1>12. TornOnlyIfOverlapped' /\ WorkersOK'
    BY <1>1, <1>3 DEF IInv, TornOnlyIfOverlapped, WorkersOK, Moved
<1> QED
    BY <1>4, <1>6, <1>7, <1>9, <1>10, <1>11, <1>12 DEF IInv

LEMMA CopyFailurePreserves ==
    ASSUME IInv, NEW u \in Uploads, upload[u].pc = "copy", Goto(u, "read"),
           UNCHANGED <<disk, libZip, fetched, stale, overlapped, last, crashes>>
    PROVE  IInv'
<1>1. u \in Running
    BY DEF Running, Ended
<1>2. Moved(u, "read") /\ Kept(u)
    BY GotoMoves DEF Steps
<1>3. /\ Running' \subseteq Running /\ RunningApart'
      /\ (u \in last \ overlapped => AloneOK(u)') => \A v \in last' \ overlapped' : AloneOK(v)'
    BY <1>1, <1>2, RunningStep
<1>4. /\ upload[u].seen = <<>> /\ ~upload[u].saved
    BY SizeIsPositive DEF IInv, Progress, Typed, UploadT
<1>5. Typed'
    BY <1>2 DEF IInv, Typed, Moved
<1>6. \A v \in Uploads : Progress(v)'
    BY <1>2, <1>4 DEF IInv, Progress, Moved, Kept
<1>7. Clean(disk)' = Clean(disk)
    BY DEF Clean
<1>8. DiskOK'
    BY <1>2, <1>7 DEF IInv, DiskOK, Begins, Moved
<1>9. ASSUME NEW v \in Uploads PROVE SeenOK(v)'
    <2>1. CASE v = u
        BY <1>2, <1>4, <2>1 DEF SeenOK, Clean, Prefix, Kept, IInv, Typed
    <2>2. CASE v # u
        <3>1. upload'[v] = upload[v] /\ SeenOK(v)
            BY <1>2, <2>2 DEF Moved, IInv
        <3> QED
            BY <1>7, <3>1 DEF SeenOK, Clean, Prefix
    <2> QED
        BY <2>1, <2>2
<1>10. AloneOK(u)' \/ u \in overlapped
    <2>1. u \notin overlapped => Running \subseteq {u}
        BY <1>1 DEF IInv, RunningApart
    <2> QED
        BY <1>2, <1>3, <1>4, <2>1 DEF AloneOK, Moved, Kept
<1>11. TornOnlyIfOverlapped' /\ WorkersOK'
    BY <1>2 DEF IInv, TornOnlyIfOverlapped, WorkersOK, Moved
<1> QED
    BY <1>3, <1>5, <1>6, <1>8, <1>9, <1>10, <1>11 DEF IInv

(* A block of an upload that runs alone continues its archive; of one that does not it
   comes where no clean block is. *)
LEMMA CopyBlockPreserves ==
    ASSUME IInv, NEW u \in Uploads, upload[u].pc = "copy", CopyBlock(u),
           UNCHANGED <<libZip, fetched, stale, overlapped, last, crashes>>
    PROVE  IInv'
<1> DEFINE i  == upload[u].at + 1
           pc == IF i = Size[u] THEN "read" ELSE "copy"
<1>1. /\ u \in Running /\ upload[u].at \in Nat /\ upload[u].at < Size[u] /\ Size[u] \in Nat
      /\ upload[u].seen = <<>> /\ upload[u] \in UploadT
    BY SizeIsPositive DEF Running, Ended, IInv, Progress, Typed, UploadT
<1>2. /\ upload' = [upload EXCEPT ![u].pc = pc, ![u].at = i, ![u].saved = i = Size[u]]
      /\ disk' = WriteAt(i, <<u, i>>)
    BY DEF CopyBlock
<1>3. Moved(u, pc) /\ upload'[u].at = i /\ upload'[u].seen = <<>>
    <2>1. /\ upload \in [Uploads -> UploadT] /\ pc \in Steps /\ i \in Nat
          /\ (i = Size[u]) \in BOOLEAN
        BY <1>1 DEF IInv, Typed, Steps
    <2> DEFINE moved == [upload[u] EXCEPT !.pc = pc, !.at = i, !.saved = i = Size[u]]
    <2> HIDE DEF i, pc
    <2>2. upload' \in [Uploads -> UploadT]
        <3>1. upload[u] \in UploadT
            BY <2>1
        <3>2. moved \in UploadT
            BY <2>1, <3>1 DEF UploadT
        <3>3. upload' = [upload EXCEPT ![u] = moved]
            BY <1>2
        <3> HIDE DEF moved
        <3> QED
            BY <2>1, <3>2, <3>3
    <2>3. upload'[u].pc = pc /\ upload'[u].at = i /\ upload'[u].seen = <<>>
        BY <1>1, <1>2, <2>1 DEF UploadT
    <2>4. \A v \in Uploads \ {u} : upload'[v] = upload[v]
        BY <1>2, <2>1
    <2> QED
        BY <2>2, <2>3, <2>4 DEF Moved
<1>4. upload'[u].saved <=> i = Size[u]
    BY <1>1, <1>2 DEF IInv, Typed, UploadT
<1>5. /\ disk' \in Seq(Block) /\ Len(disk') = Max2(i, Len(disk))
      /\ \A j \in 1..Max2(i, Len(disk)) :
             disk'[j] = IF j = i THEN <<u, i>> ELSE IF j <= Len(disk) THEN disk[j] ELSE <<Hole, j>>
    <2>1. i \in Nat \ {0}
        BY <1>1
    <2> HIDE DEF i
    <2>2. <<u, i>> \in Block
        BY <2>1 DEF Block
    <2> QED
        BY <1>2, <2>1, <2>2, Written
<1>6. i \in Nat /\ i >= 1 /\ i <= Size[u] /\ (pc = "copy" => i < Size[u]) /\ pc \in {"read", "copy"}
    BY <1>1
<1>7. Len(disk) \in Nat
    BY DEF IInv, Typed
<1> HIDE DEF i, pc
<1>8. /\ Running' \subseteq Running /\ RunningApart'
      /\ (u \in last \ overlapped => AloneOK(u)') => \A v \in last' \ overlapped' : AloneOK(v)'
    BY <1>1, <1>3, <1>6, RunningStep
<1>9. Typed'
    BY <1>3, <1>5 DEF IInv, Typed, Moved
<1>10. \A v \in Uploads : Progress(v)'
    BY <1>3, <1>4, <1>6 DEF IInv, Progress, Moved
<1>11. u \notin overlapped => Len(disk') = i /\ Begins(disk', u) /\ Running \subseteq {u}
    <2> SUFFICES ASSUME u \notin overlapped PROVE Len(disk') = i /\ Begins(disk', u) /\ Running \subseteq {u}
        OBVIOUS
    <2>1. Len(disk) = upload[u].at /\ Begins(disk, u)
        BY DEF IInv, DiskOK
    <2>2. Max2(i, Len(disk)) = i /\ i = Len(disk) + 1
        BY <1>1, <2>1 DEF Max2, i
    <2>3. Begins(disk', u)
        <3> SUFFICES ASSUME NEW j \in 1..Len(disk') PROVE disk'[j] = <<u, j>>
            BY DEF Begins
        <3>1. CASE j = i
            BY <1>5, <3>1
        <3>2. CASE j # i
            <4>1. j \in 1..Len(disk)
                BY <1>5, <1>7, <2>2, <3>2
            <4> QED
                BY <1>5, <2>1, <3>2, <4>1 DEF Begins
        <3> QED
            BY <3>1, <3>2
    <2> QED
        BY <1>1, <1>5, <2>2, <2>3 DEF IInv, RunningApart
<1>12. u \in overlapped => Clean(disk)' = {}
    <2> SUFFICES ASSUME u \in overlapped, NEW j \in 1..Len(disk'), disk'[j][1] \in Uploads \ overlapped
                 PROVE  FALSE
        BY DEF Clean
    <2>1. Clean(disk) = {}
        BY DEF IInv, DiskOK, Clean
    <2>2. CASE j = i
        BY <1>5, <2>2
    <2>3. CASE j # i /\ j <= Len(disk)
        BY <1>5, <1>7, <2>1, <2>3 DEF Clean
    <2>4. CASE j # i /\ ~(j <= Len(disk))
        BY <1>5, <2>4, AppConfigAssumption
    <2> QED
        BY <2>2, <2>3, <2>4
<1>13. DiskOK'
    <2>1. CASE u \notin overlapped
        <3>1. \A j \in Clean(disk)' : disk'[j][1] = u
            BY <1>11, <2>1 DEF Clean, Begins
        <3>2. \A v \in Uploads : upload'[v].pc = "copy" => v = u
            BY <1>3, <1>11, <2>1 DEF Moved, Running, Ended
        <3> QED
            BY <1>3, <1>11, <2>1, <3>1, <3>2 DEF DiskOK
    <2>2. CASE u \in overlapped
        <3>1. \A v \in Uploads \ overlapped : upload'[v].pc # "copy"
            BY <1>1, <1>3, <2>2 DEF Moved, Running, Ended, IInv, RunningApart
        <3> QED
            BY <1>12, <2>2, <3>1 DEF DiskOK
    <2> QED
        BY <2>1, <2>2
<1>14. ASSUME NEW v \in Uploads PROVE SeenOK(v)'
    <2>1. CASE v = u
        BY <1>3, <1>5, <1>7, <1>6, <2>1 DEF SeenOK, Clean, Prefix, Max2
    <2>2. CASE v # u
        <3>1. upload'[v] = upload[v] /\ SeenOK(v)
            BY <1>3, <2>2 DEF Moved, IInv
        <3>2. upload[v].pc \in {"read", "serve"} => u \in overlapped
            BY <1>1, <2>2 DEF Running, Ended, IInv, RunningApart
        <3> QED
            BY <1>12, <3>1, <3>2 DEF SeenOK, Clean
    <2> QED
        BY <2>1, <2>2
<1>15. AloneOK(u)' \/ u \in overlapped
    <2> SUFFICES ASSUME u \notin overlapped PROVE AloneOK(u)'
        OBVIOUS
    <2>1. i = Size[u] => disk' = Archive(u)
        BY <1>5, <1>11, Whole
    <2>2. Running' \subseteq {u} /\ upload'[u].pc \in {"read", "copy"}
        BY <1>3, <1>6, <1>8, <1>11 DEF Moved
    <2> QED
        BY <1>4, <2>1, <2>2 DEF AloneOK
<1>16. TornOnlyIfOverlapped' /\ WorkersOK'
    BY <1>3 DEF IInv, TornOnlyIfOverlapped, WorkersOK, Moved
<1> QED
    BY <1>8, <1>9, <1>10, <1>13, <1>14, <1>15, <1>16 DEF IInv

LEMMA ReadFilePreserves == ASSUME IInv, NEW u \in Uploads, ReadFile(u) PROVE IInv'
<1> DEFINE n == Len(upload[u].seen)
<1>1. /\ upload[u].pc = "read" /\ u \in Running /\ upload[u] \in UploadT /\ n \in Nat
      /\ upload[u].seen \in Seq(Block) /\ disk \in Seq(Block) /\ Len(disk) \in Nat
      /\ UNCHANGED <<disk, libZip, fetched, stale, overlapped, last, crashes>>
    BY DEF ReadFile, At, Running, Ended, IInv, Typed, UploadT
<1>2. CASE n < Len(disk)
    <2>1. /\ upload' = [upload EXCEPT ![u].seen = Append(@, disk[n + 1])] /\ disk[n + 1] \in Block
        BY <1>1, <1>2 DEF ReadFile
    <2>2. /\ Moved(u, "read") /\ upload'[u].seen = Append(upload[u].seen, disk[n + 1])
          /\ upload'[u].at = upload[u].at /\ upload'[u].saved = upload[u].saved
        <3>1. Append(upload[u].seen, disk[n + 1]) \in Seq(Block) /\ upload \in [Uploads -> UploadT]
            BY <1>1, <2>1 DEF IInv, Typed
        <3>2. upload' \in [Uploads -> UploadT]
            BY <2>1, <3>1 DEF UploadT
        <3>3. /\ upload'[u].pc = "read" /\ upload'[u].seen = Append(upload[u].seen, disk[n + 1])
              /\ upload'[u].at = upload[u].at /\ upload'[u].saved = upload[u].saved
            BY <1>1, <2>1, <3>1 DEF UploadT
        <3>4. \A v \in Uploads \ {u} : upload'[v] = upload[v]
            BY <2>1, <3>1
        <3> QED
            BY <3>2, <3>3, <3>4 DEF Moved
    <2> DEFINE seen == upload'[u].seen
    <2>3. /\ Len(seen) = n + 1 /\ seen[n + 1] = disk[n + 1]
          /\ \A j \in 1..n : seen[j] = upload[u].seen[j]
        BY <1>1, <2>1, <2>2
    <2> HIDE DEF seen
    <2>4. /\ Running' \subseteq Running /\ RunningApart'
          /\ (u \in last \ overlapped => AloneOK(u)') => \A v \in last' \ overlapped' : AloneOK(v)'
        BY <1>1, <2>2, RunningStep
    <2>5. Typed'
        BY <1>1, <2>2 DEF IInv, Typed, Moved
    <2>6. \A v \in Uploads : Progress(v)'
        BY <2>2 DEF IInv, Progress, Moved
    <2>7. Clean(disk)' = Clean(disk)
        BY <1>1 DEF Clean
    <2>8. DiskOK'
        BY <1>1, <2>2, OneMoveDisk
    <2>9. SeenOK(u)'
        <3>1. SeenOK(u)
            BY DEF IInv
        <3>2. Clean(disk) # {} => Prefix(seen, disk)
            BY <1>1, <1>2, <2>3, <3>1 DEF SeenOK, Prefix
        <3>3. ASSUME NEW i \in 1..(n + 1), seen[i][1] \in Uploads \ overlapped, NEW j \in 1..i
              PROVE  seen[j] = <<seen[i][1], j>>
            <4>1. CASE i \in 1..n
                <5>1. seen[i] = upload[u].seen[i] /\ seen[j] = upload[u].seen[j] /\ i \in 1..n
                    BY <1>1, <2>3, <4>1
                <5>2. i \in Clean(upload[u].seen)
                    BY <3>3, <5>1 DEF Clean
                <5> QED
                    BY <1>1, <3>1, <3>3, <5>1, <5>2 DEF SeenOK
            <4>2. CASE i = n + 1
                <5>1. i \in Clean(disk)
                    BY <1>1, <1>2, <2>3, <3>3, <4>2 DEF Clean
                <5>2. Begins(disk, seen[i][1]) /\ Prefix(seen, disk)
                    BY <2>3, <3>2, <4>2, <5>1 DEF IInv, DiskOK
                <5>3. Len(disk) \in Nat /\ Len(seen) = n + 1 /\ n + 1 =< Len(disk)
                    BY <1>1, <1>2, <2>3
                <5>4. j \in 1..Len(disk) /\ j \in 1..Len(seen)
                    BY <1>1, <4>2, <5>3
                <5>5. seen[j] = disk[j]
                    BY <5>2, <5>4 DEF Prefix
                <5>6. disk[j] = <<seen[i][1], j>>
                    BY <5>2, <5>4 DEF Begins
                <5> QED
                    BY <5>5, <5>6
            <4> QED
                BY <1>1, <4>1, <4>2
        <3> QED
            BY <1>1, <2>3, <2>7, <3>2, <3>3 DEF SeenOK, Clean, seen
    <2>10. \A v \in Uploads : SeenOK(v)'
        <3>1. ASSUME NEW v \in Uploads, v # u PROVE SeenOK(v)'
            <4>1. upload'[v] = upload[v] /\ SeenOK(v)
                BY <2>2, <3>1 DEF Moved, IInv
            <4> QED
                BY <1>1, <4>1, SeenStays
        <3> QED
            BY <2>9, <3>1
    <2>11. u \in last \ overlapped => AloneOK(u)'
        BY <1>1, <2>2, <2>4 DEF IInv, AloneOK, Moved
    <2>12. TornOnlyIfOverlapped' /\ WorkersOK'
        BY <1>1, <2>2 DEF IInv, TornOnlyIfOverlapped, WorkersOK, Moved
    <2> QED
        BY <2>4, <2>5, <2>6, <2>8, <2>10, <2>11, <2>12 DEF IInv
<1>3. CASE ~(n < Len(disk))
    <2>1. Goto(u, "serve")
        BY <1>3 DEF ReadFile
    <2>2. Moved(u, "serve") /\ Kept(u)
        BY <2>1, GotoMoves DEF Steps
    <2>3. /\ Running' \subseteq Running /\ RunningApart'
          /\ (u \in last \ overlapped => AloneOK(u)') => \A v \in last' \ overlapped' : AloneOK(v)'
        BY <1>1, <2>2, RunningStep
    <2>4. Typed'
        BY <1>1, <2>2 DEF IInv, Typed, Moved
    <2>5. \A v \in Uploads : Progress(v)'
        BY <2>2 DEF IInv, Progress, Moved, Kept
    <2>7. DiskOK'
        BY <1>1, <2>2, OneMoveDisk
    <2>8. \A v \in Uploads : SeenOK(v)'
        BY <1>1, <2>2, OneMoveSeen
    <2>9. u \in last \ overlapped => AloneOK(u)'
        <3> SUFFICES ASSUME u \in last \ overlapped, upload[u].saved PROVE upload[u].seen = Archive(u)
            BY <1>1, <2>2, <2>3 DEF IInv, AloneOK, Moved, Kept
        <3>1. disk = Archive(u)
            BY <1>1 DEF IInv, AloneOK
        <3>2. Len(disk) = Size[u] /\ Begins(disk, u) /\ Size[u] >= 1 /\ disk[1] = <<u, 1>>
            BY <3>1, ArchiveIsFile, SizeIsPositive DEF Begins
        <3>3. 1 \in Clean(disk)
            BY <1>1, <3>2 DEF Clean
        <3>4. Prefix(upload[u].seen, disk)
            BY <1>1, <3>3 DEF IInv, SeenOK
        <3>5. n = Size[u] /\ Begins(upload[u].seen, u)
            BY <1>1, <1>3, <3>2, <3>4 DEF Prefix, Begins
        <3> QED
            BY <1>1, <3>5, Whole
    <2>10. TornOnlyIfOverlapped' /\ WorkersOK'
        BY <1>1, <2>2 DEF IInv, TornOnlyIfOverlapped, WorkersOK, Moved
    <2> QED
        BY <2>3, <2>4, <2>5, <2>7, <2>8, <2>9, <2>10 DEF IInv
<1> QED
    BY <1>2, <1>3

LEMMA ServePreserves == ASSUME IInv, NEW u \in Uploads, Serve(u) PROVE IInv'
<1>1. /\ upload[u].pc = "serve" /\ u \in Running /\ Goto(u, "publish")
      /\ libZip' = IF Parses(upload[u].seen) THEN upload[u].seen ELSE libZip
      /\ UNCHANGED <<disk, fetched, stale, overlapped, last, crashes>>
      /\ upload[u].seen \in Seq(Block)
    BY DEF Serve, At, Running, Ended, IInv, Typed, UploadT
<1>2. Moved(u, "publish") /\ Kept(u)
    BY <1>1, GotoMoves DEF Steps
<1>3. /\ Running' \subseteq Running /\ RunningApart'
      /\ (u \in last \ overlapped => AloneOK(u)') => \A v \in last' \ overlapped' : AloneOK(v)'
    BY <1>1, <1>2, RunningStep
<1>4. Typed'
    BY <1>1, <1>2 DEF IInv, Typed, Moved
<1>5. \A v \in Uploads : Progress(v)'
    BY <1>2 DEF IInv, Progress, Moved, Kept
<1>7. DiskOK'
    BY <1>1, <1>2, OneMoveDisk
<1>8. \A v \in Uploads : SeenOK(v)'
    BY <1>1, <1>2, OneMoveSeen
<1>9. u \in last \ overlapped => AloneOK(u)'
    BY <1>1, <1>2, <1>3, ArchiveIsFile DEF IInv, AloneOK, Moved, Kept
<1>10. TornOnlyIfOverlapped'
    <2>1. CASE Parses(upload[u].seen)
        <3>1. SeenOK(u)
            BY DEF IInv
        <3>2. upload[u].seen[Len(upload[u].seen)][1] \in overlapped \/ \E v \in Uploads : upload[u].seen = Archive(v)
            BY <1>1, <2>1, <3>1, ParsedFile DEF SeenOK
        <3> QED
            BY <1>1, <2>1, <3>2 DEF TornOnlyIfOverlapped, Archive
    <2>2. CASE ~Parses(upload[u].seen)
        BY <1>1, <2>2 DEF IInv, TornOnlyIfOverlapped
    <2> QED
        BY <2>1, <2>2
<1>11. WorkersOK'
    BY <1>2 DEF WorkersOK, Moved
<1> QED
    BY <1>3, <1>4, <1>5, <1>7, <1>8, <1>9, <1>10, <1>11 DEF IInv

LEMMA PublishPreserves == ASSUME IInv, NEW u \in Uploads, Publish(u) PROVE IInv'
<1>1. /\ upload[u].pc = "publish" /\ u \in Running /\ Goto(u, "done") /\ stale' = TRUE
      /\ UNCHANGED <<disk, libZip, fetched, overlapped, last, crashes>>
    BY DEF Publish, At, Running, Ended
<1>2. Moved(u, "done") /\ Kept(u)
    BY <1>1, GotoMoves DEF Steps, Ended
<1>3. /\ Running' \subseteq Running /\ RunningApart'
      /\ (u \in last \ overlapped => AloneOK(u)') => \A v \in last' \ overlapped' : AloneOK(v)'
    BY <1>1, <1>2, RunningStep DEF Ended
<1>4. Typed'
    BY <1>1, <1>2 DEF IInv, Typed, Moved
<1>5. \A v \in Uploads : Progress(v)'
    BY <1>2 DEF IInv, Progress, Moved, Kept
<1>7. DiskOK'
    BY <1>1, <1>2, OneMoveDisk
<1>8. \A v \in Uploads : SeenOK(v)'
    BY <1>1, <1>2, OneMoveSeen
<1>9. u \in last \ overlapped => AloneOK(u)'
    BY <1>1, <1>2, <1>3 DEF IInv, AloneOK, Moved, Kept
<1>10. TornOnlyIfOverlapped' /\ WorkersOK'
    BY <1>1 DEF IInv, TornOnlyIfOverlapped, WorkersOK
<1> QED
    BY <1>3, <1>4, <1>5, <1>7, <1>8, <1>9, <1>10 DEF IInv
----
(* Steps of others. *)

LEMMA Unmoved ==
    ASSUME IInv, UNCHANGED <<upload, disk, libZip, overlapped, last, crashes>>
    PROVE  /\ (\A u \in Uploads : Progress(u)') /\ RunningApart' /\ DiskOK'
           /\ (\A u \in Uploads : SeenOK(u)') /\ TornOnlyIfOverlapped'
           /\ (\A u \in last' \ overlapped' : AloneOK(u)')
<1>1. Clean(disk)' = Clean(disk) /\ Running' = Running
    BY DEF Clean, Running
<1>2. \A u \in Uploads : Clean(upload[u].seen)' = Clean(upload[u].seen)
    BY DEF Clean
<1>3. DiskOK'
    BY <1>1 DEF IInv, DiskOK, Begins
<1>4. \A u \in Uploads : SeenOK(u)'
    BY <1>1, <1>2 DEF IInv, SeenOK, Prefix
<1> QED
    BY <1>1, <1>3, <1>4 DEF IInv, Progress, RunningApart, TornOnlyIfOverlapped, AloneOK

LEMMA FetchPreserves == ASSUME IInv, libHandler PROVE IInv'
<1>1. /\ UNCHANGED <<upload, disk, libZip, overlapped, last, crashes>>
      /\ fetched' = libZip /\ stale' = FALSE
    BY DEF libHandler
<1>2. Typed' /\ WorkersOK'
    BY <1>1 DEF IInv, Typed, WorkersOK
<1> QED
    BY <1>1, <1>2, Unmoved DEF IInv

LEMMA RestartPreserves == ASSUME IInv, Restart PROVE IInv'
<1>1. /\ crashes < MaxCrashes /\ crashes' = crashes + 1
      /\ upload' = [u \in Uploads |-> IF u \in Running THEN [upload[u] EXCEPT !.pc = "lost"] ELSE upload[u]]
      /\ libZip' = IF Parses(disk) THEN disk ELSE <<>>
      /\ stale' = TRUE
      /\ UNCHANGED <<disk, fetched, overlapped, last>>
    BY DEF Restart
<1>2. upload \in [Uploads -> UploadT] /\ "lost" \in Steps /\ disk \in Seq(Block)
    BY DEF IInv, Typed, Steps, Ended
<1>3. \A u \in Uploads :
          /\ upload'[u].pc = IF u \in Running THEN "lost" ELSE upload[u].pc
          /\ upload'[u].at = upload[u].at /\ upload'[u].seen = upload[u].seen
          /\ upload'[u].saved = upload[u].saved
    BY <1>1, <1>2 DEF UploadT
<1>4. upload' \in [Uploads -> UploadT]
    BY <1>1, <1>2 DEF UploadT
<1>5. Typed'
    <2>1. libZip' \in Seq(Block)
        BY <1>1, <1>2, EmptySeq
    <2>2. crashes' \in 0..MaxCrashes
        BY <1>1, AppConfigAssumption DEF IInv, Typed
    <2> QED
        BY <1>1, <1>4, <2>1, <2>2 DEF IInv, Typed
<1>6. Running' = {} /\ \A u \in Uploads : upload'[u].pc \in Ended
    BY <1>3 DEF Running, Ended
<1>7. \A u \in Uploads : Progress(u)'
    BY <1>3 DEF IInv, Progress, Running, Ended
<1>8. Clean(disk)' = Clean(disk)
    BY <1>1 DEF Clean
<1>9. DiskOK'
    BY <1>1, <1>6, <1>8 DEF IInv, DiskOK, Begins, Ended
<1>10. \A u \in Uploads : SeenOK(u)'
    BY <1>6 DEF SeenOK, Ended
<1>11. TornOnlyIfOverlapped'
    <2>1. CASE Parses(disk)
        <3>1. \A i \in Clean(disk) : \A j \in 1..i : disk[j] = <<disk[i][1], j>>
            BY <1>2 DEF IInv, DiskOK, Begins, Clean
        <3>2. disk[Len(disk)][1] \in overlapped \/ \E v \in Uploads : disk = Archive(v)
            BY <1>2, <2>1, <3>1, ParsedFile
        <3> QED
            BY <1>1, <2>1, <3>2 DEF TornOnlyIfOverlapped, Archive
    <2>2. CASE ~Parses(disk)
        BY <1>1, <2>2 DEF TornOnlyIfOverlapped
    <2> QED
        BY <2>1, <2>2
<1>12. ASSUME NEW u \in last' \ overlapped' PROVE AloneOK(u)'
    <2>1. AloneOK(u) /\ u \in Uploads
        BY <1>1, <1>12 DEF IInv, Typed
    <2>2. upload'[u].pc = "done" => upload[u].pc = "done"
        BY <1>3, <2>1
    <2>3. disk = Archive(u) => libZip' = disk
        BY <1>1, <2>1, ArchiveIsFile
    <2>4. upload'[u].pc \in Ended /\ upload'[u].saved = upload[u].saved
        BY <1>3, <1>6, <2>1
    <2> QED
        BY <1>1, <1>6, <2>1, <2>2, <2>3, <2>4 DEF AloneOK, Ended
<1>13. RunningApart' /\ WorkersOK'
    BY <1>1, <1>6 DEF RunningApart, WorkersOK
<1> QED
    BY <1>5, <1>7, <1>9, <1>10, <1>11, <1>12, <1>13 DEF IInv

LEMMA NextPreserves == IInv /\ [Next]_vars => IInv'
<1> SUFFICES ASSUME IInv, [Next]_vars PROVE IInv'
    OBVIOUS
<1>1. ASSUME NEW u \in Uploads, Copy(u) PROVE IInv'
    BY <1>1, CopyBlockPreserves, CopyFailurePreserves DEF Copy, At
<1>2. ASSUME NEW u \in Uploads, Upload(u) PROVE IInv'
    BY <1>1, <1>2, ReadBodyPreserves, CreatePreserves, ReadFilePreserves, ServePreserves, PublishPreserves
       DEF Upload
<1>3. CASE libHandler
    BY <1>3, FetchPreserves
<1>4. CASE Restart
    BY <1>4, RestartPreserves
<1>5. CASE UNCHANGED vars
    <2>1. Typed' /\ WorkersOK'
        BY <1>5 DEF vars, IInv, Typed, WorkersOK
    <2> QED
        BY <1>5, <2>1, Unmoved DEF IInv, vars
<1> QED
    BY <1>2, <1>3, <1>4, <1>5 DEF Next

LEMMA Invariance == Spec => []IInv
<1> QED
    BY InitEstablishes, NextPreserves, PTL DEF Spec
----
(* What is served against what is on disk.  An upload that runs alone reads the file as it
   is, and serves it if it parses. *)
ReadsOK ==
    \A u \in Uploads \ overlapped :
        /\ upload[u].pc = "read" => Prefix(upload[u].seen, disk)
        /\ upload[u].pc = "serve" => upload[u].seen = disk

AgreesOK ==
    \A u \in last \ overlapped :
        upload[u].pc \in {"publish", "done"} /\ Parses(disk) => libZip = disk

(* Who runs next to an upload that is not known to overlap: nobody. *)
LEMMA OthersStep ==
    ASSUME IInv, NEW v \in Uploads, Upload(v), NEW u \in Uploads \ overlapped', u # v
    PROVE  u \notin Running /\ upload'[u] = upload[u] /\ u \notin overlapped
<1>1. upload \in [Uploads -> UploadT] /\ u \in Uploads /\ Running \subseteq Uploads
    BY DEF IInv, Typed, Running
<1>2. CASE ReadBody(v)
    <2>1. upload'[u] = upload[u]
        BY <1>1, <1>2 DEF ReadBody, Goto
    <2> QED
        BY <1>2, <2>1 DEF ReadBody
<1>3. CASE ~ReadBody(v)
    <2>1. v \in Running /\ overlapped' = overlapped
        BY <1>3 DEF Upload, Create, Copy, ReadFile, Serve, Publish, At, Running, Ended
    <2>2. upload'[u] = upload[u]
        BY <1>1, <1>3 DEF Upload, Create, Copy, CopyBlock, ReadFile, Serve, Publish, Goto
    <2> QED
        BY <2>1, <2>2 DEF IInv, RunningApart
<1> QED
    BY <1>2, <1>3

LEMMA ReadsStep == IInv /\ ReadsOK /\ Next => ReadsOK'
<1> SUFFICES ASSUME IInv, ReadsOK, Next, NEW u \in Uploads \ overlapped', u \in Uploads
             PROVE  /\ upload'[u].pc = "read" => Prefix(upload'[u].seen, disk')
                    /\ upload'[u].pc = "serve" => upload'[u].seen = disk'
    BY DEF ReadsOK, Prefix
<1>1. upload[u] \in UploadT /\ upload \in [Uploads -> UploadT] /\ disk \in Seq(Block)
    BY DEF IInv, Typed
<1>2. Prefix(<<>>, disk')
    BY DEF Prefix
<1>3. CASE libHandler
    BY <1>3 DEF libHandler, ReadsOK
<1>4. CASE Restart
    <2>1. upload'[u].pc \in Ended
        BY <1>1, <1>4 DEF Restart, Running, Ended, UploadT
    <2> QED
        BY <2>1 DEF Ended
<1>5. ASSUME NEW v \in Uploads, Upload(v), u # v
      PROVE  upload'[u].pc \notin {"read", "serve"}
    BY <1>5, OthersStep DEF Running, Ended
<1>6. ASSUME ReadBody(u) \/ Create(u)
      PROVE  upload'[u].pc # "serve" /\ upload'[u].seen = <<>>
    <2>1. upload[u].seen = <<>> /\ \E pc \in {"create", "read", "copy"} : Goto(u, pc)
        BY <1>6 DEF ReadBody, Create, At, IInv, Progress
    <2> QED
        BY <1>1, <2>1 DEF Goto, UploadT
<1>7. ASSUME Copy(u) PROVE upload'[u].pc # "serve" /\ upload'[u].seen = <<>>
    <2>1. upload[u].seen = <<>>
        BY <1>7 DEF Copy, At, IInv, Progress
    <2>2. CASE Goto(u, "read")
        BY <1>1, <2>1, <2>2 DEF Goto, UploadT
    <2>3. CASE CopyBlock(u)
        BY <1>1, <2>1, <2>3 DEF CopyBlock, UploadT
    <2> QED
        BY <1>7, <2>2, <2>3 DEF Copy
<1>8. CASE ReadFile(u)
    <2> DEFINE seen == upload[u].seen
               n    == Len(seen)
    <2>1. /\ upload[u].pc = "read" /\ overlapped' = overlapped /\ disk' = disk
          /\ seen \in Seq(Block) /\ n \in Nat /\ Len(disk) \in Nat
        BY <1>1, <1>8 DEF ReadFile, At, UploadT
    <2>2. Prefix(seen, disk)
        BY <2>1 DEF ReadsOK
    <2>3. CASE n < Len(disk)
        <3>1. upload'[u].pc = "read" /\ upload'[u].seen = Append(seen, disk[n + 1])
            BY <1>1, <1>8, <2>1, <2>3 DEF ReadFile, UploadT
        <3>2. /\ Len(Append(seen, disk[n + 1])) = n + 1
              /\ Append(seen, disk[n + 1])[n + 1] = disk[n + 1]
              /\ \A j \in 1..n : Append(seen, disk[n + 1])[j] = seen[j]
            BY <2>1
        <3> HIDE DEF n, seen
        <3>3. Prefix(Append(seen, disk[n + 1]), disk)
            BY <2>1, <2>2, <2>3, <3>2 DEF Prefix, n
        <3> QED
            BY <2>1, <3>1, <3>3
    <2>4. CASE ~(n < Len(disk))
        <3>1. upload'[u].pc = "serve" /\ upload'[u].seen = seen
            BY <1>1, <1>8, <2>1, <2>4 DEF ReadFile, Goto, UploadT
        <3>2. n = Len(disk) /\ \A j \in 1..n : seen[j] = disk[j]
            BY <2>1, <2>2, <2>4 DEF Prefix
        <3>3. seen = disk
            BY <1>1, <2>1, <3>2, SeqEqual
        <3> QED
            BY <2>1, <3>1, <3>3
    <2> QED
        BY <2>3, <2>4
<1>9. ASSUME Serve(u) \/ Publish(u) PROVE upload'[u].pc \notin {"read", "serve"}
    BY <1>1, <1>9 DEF Serve, Publish, Goto, UploadT
<1> QED
    BY <1>2, <1>3, <1>4, <1>5, <1>6, <1>7, <1>8, <1>9 DEF Next, Upload

LEMMA AgreesStep == IInv /\ ReadsOK /\ AgreesOK /\ Next => AgreesOK'
<1> SUFFICES ASSUME IInv, ReadsOK, AgreesOK, Next, NEW u \in last' \ overlapped',
                    upload'[u].pc \in {"publish", "done"}, Parses(disk')
             PROVE  libZip' = disk'
    BY DEF AgreesOK, Parses
<1>1. upload \in [Uploads -> UploadT] /\ last \subseteq Uploads
    BY DEF IInv, Typed
<1>2. CASE libHandler
    BY <1>2 DEF libHandler, AgreesOK
<1>3. CASE Restart
    BY <1>3 DEF Restart, Parses
<1>4. ASSUME NEW v \in Uploads, ReadBody(v) PROVE FALSE
    BY <1>1, <1>4 DEF ReadBody, Goto, UploadT
<1>5. ASSUME NEW v \in Uploads, Create(v) \/ Copy(v) \/ ReadFile(v) \/ Serve(v) \/ Publish(v)
      PROVE  v = u /\ overlapped' = overlapped /\ last' = last
    <2>1. v \in Running /\ overlapped' = overlapped /\ last' = last
        BY <1>5 DEF Create, Copy, ReadFile, Serve, Publish, At, Running, Ended
    <2> QED
        BY <2>1, AloneRuns
<1>6. u \in Uploads
    BY <1>1, <1>2, <1>3, <1>4, <1>5 DEF Next, Upload, libHandler, Restart
<1>7. ASSUME Create(u) \/ Copy(u) \/ ReadFile(u) PROVE FALSE
    <2>1. CASE Create(u)
        BY <1>1, <1>6, <2>1 DEF Create, Goto, UploadT
    <2>2. CASE Copy(u)
        BY <1>1, <1>6, <2>2 DEF Copy, CopyBlock, Goto, UploadT
    <2>3. CASE ReadFile(u)
        BY <1>1, <1>6, <2>3 DEF ReadFile, At, Goto, UploadT
    <2> QED
        BY <1>7, <2>1, <2>2, <2>3
<1>8. CASE Serve(u)
    <2>1. upload[u].seen = disk /\ disk' = disk
        BY <1>5, <1>6, <1>8 DEF Serve, At, ReadsOK
    <2> QED
        BY <1>8, <2>1 DEF Serve, Parses
<1>9. CASE Publish(u)
    BY <1>5, <1>6, <1>9 DEF Publish, At, AgreesOK
<1> QED
    BY <1>2, <1>3, <1>4, <1>5, <1>7, <1>8, <1>9 DEF Next, Upload

(* What parses and begins the archive of an upload that ran alone is all of it. *)
LEMMA WholeIfParses ==
    ASSUME NEW w \in Uploads, NEW file \in Seq(Block), Prefix(file, Archive(w)), Parses(file)
    PROVE  file = Archive(w)
<1>1. PICK x \in Uploads : file # <<>> /\ file[Len(file)] = <<x, Size[x]>>
    BY DEF Parses
<1>2. Len(file) \in Nat /\ Len(file) >= 1 /\ Len(file) <= Size[w]
    BY <1>1, EmptySeq, LenProperties, ArchiveIsFile DEF Prefix
<1>3. \A j \in 1..Len(file) : file[j] = <<w, j>>
    BY <1>2, ArchiveIsFile, SizeIsPositive DEF Prefix
<1>4. Len(file) = Size[w]
    BY <1>1, <1>2, <1>3
<1> QED
    BY <1>3, <1>4, Whole DEF Begins

LEMMA KeptStep == IInv /\ ReadsOK /\ AloneIsKept /\ Next => AloneIsKept'
<1> SUFFICES ASSUME IInv, ReadsOK, AloneIsKept, Next, NEW w \in Uploads \ overlapped',
                    w \in Uploads, disk' = Archive(w), upload'[w].pc \notin {"read", "serve"}
             PROVE  libZip' = disk'
    BY DEF AloneIsKept, At, Archive
<1>1. upload \in [Uploads -> UploadT] /\ disk \in Seq(Block)
    BY DEF IInv, Typed
<1>2. /\ Len(Archive(w)) = Size[w] /\ Archive(w) # <<>> /\ Parses(Archive(w))
      /\ \A j \in 1..Size[w] : Archive(w)[j] = <<w, j>>
      /\ Size[w] \in Nat /\ Size[w] >= 1
    BY ArchiveIsFile, SizeIsPositive
<1> HIDE DEF Archive
<1>3. ASSUME disk' = disk, libZip' = libZip, w \notin overlapped,
             upload[w].pc \notin {"read", "serve"}
      PROVE  libZip' = disk'
    BY <1>3 DEF AloneIsKept, At
<1>4. CASE libHandler
    BY <1>3, <1>4 DEF libHandler
<1>5. CASE Restart
    BY <1>2, <1>5 DEF Restart
<1>6. ASSUME NEW v \in Uploads, Upload(v), v # w
      PROVE  w \notin overlapped /\ upload[w].pc \notin {"read", "serve"}
    BY <1>6, OthersStep
<1>7. ASSUME Upload(w) PROVE w \notin overlapped
    BY <1>7 DEF Upload, ReadBody, Create, Copy, ReadFile, Serve, Publish
<1>8. ASSUME NEW v \in Uploads, ReadBody(v) PROVE libZip' = disk'
    <2>1. w \notin overlapped /\ upload[w].pc \notin {"read", "serve"}
        BY <1>6, <1>7, <1>8 DEF Upload, ReadBody, At
    <2> QED
        BY <1>3, <1>8, <2>1 DEF ReadBody
<1>9. ASSUME NEW v \in Uploads, Create(v) PROVE libZip' = disk'
    <2>1. w \notin overlapped /\ upload[w].pc \notin {"read", "serve"}
        BY <1>6, <1>7, <1>9 DEF Upload, Create, At
    <2>2. disk' = disk
        BY <1>2, <1>9 DEF Create
    <2> QED
        BY <1>3, <1>9, <2>1, <2>2 DEF Create
<1>10. ASSUME NEW v \in Uploads, Copy(v) PROVE libZip' = disk'
    <2>1. w \notin overlapped /\ upload[w].pc \notin {"read", "serve"}
        BY <1>6, <1>7, <1>10 DEF Upload, Copy, At
    <2>2. ASSUME CopyBlock(v) PROVE FALSE
        <3> DEFINE i == upload[v].at + 1
        <3>1. upload[v].at \in Nat /\ upload[v].at < Size[v]
            BY <1>1, <1>10 DEF Copy, At, IInv, Progress, UploadT
        <3>2. i \in Nat \ {0} /\ <<v, i>> \in Block
            BY <3>1 DEF Block
        <3>3. disk' = WriteAt(i, <<v, i>>)
            BY <2>2 DEF CopyBlock
        <3>4. upload'[v].pc = IF i = Size[v] THEN "read" ELSE "copy"
            BY <1>1, <2>2 DEF CopyBlock, UploadT
        <3> HIDE DEF i
        <3>5. /\ Len(disk') = Max2(i, Len(disk)) /\ Len(disk) \in Nat
              /\ i \in 1..Max2(i, Len(disk)) /\ disk'[i] = <<v, i>>
            <4>1. Len(disk) \in Nat
                BY <1>1
            <4>2. i \in 1..Max2(i, Len(disk))
                BY <3>2, <4>1 DEF Max2
            <4> QED
                BY <3>2, <3>3, <4>1, <4>2, Written
        <3>6. v = w
            BY <1>2, <3>5
        <3>7. Len(disk) = upload[v].at
            BY <1>10, <2>1, <3>6 DEF Copy, At, IInv, DiskOK
        <3>8. Size[w] = i
            BY <1>2, <3>1, <3>5, <3>7 DEF Max2, i
        <3> QED
            BY <3>4, <3>6, <3>8
    <2> QED
        BY <1>3, <1>10, <2>1, <2>2 DEF Copy
<1>11. ASSUME NEW v \in Uploads, ReadFile(v) PROVE libZip' = disk'
    <2>1. v # w
        BY <1>1, <1>11 DEF ReadFile, At, Goto, UploadT
    <2> QED
        BY <1>3, <1>6, <1>11, <2>1 DEF Upload, ReadFile
<1>12. ASSUME NEW v \in Uploads, Serve(v) PROVE libZip' = disk'
    <2>1. /\ libZip' = IF Parses(upload[v].seen) THEN upload[v].seen ELSE libZip
          /\ disk' = disk /\ upload[v].pc = "serve" /\ upload[v].seen \in Seq(Block)
        BY <1>1, <1>12 DEF Serve, At, UploadT
    <2>2. CASE v = w
        BY <1>2, <1>7, <1>12, <2>1, <2>2 DEF Upload, ReadsOK
    <2>3. CASE v # w
        <3>1. w \notin overlapped /\ libZip = disk
            BY <1>6, <1>12, <2>1, <2>3 DEF Upload, AloneIsKept, At
        <3>2. 1 \in Clean(disk)
            BY <1>2, <2>1, <3>1 DEF Clean
        <3>3. Prefix(upload[v].seen, Archive(w))
            BY <2>1, <3>2 DEF IInv, SeenOK
        <3> QED
            BY <2>1, <3>1, <3>3, WholeIfParses
    <2> QED
        BY <2>2, <2>3
<1>13. ASSUME NEW v \in Uploads, Publish(v) PROVE libZip' = disk'
    <2>1. w \notin overlapped /\ upload[w].pc \notin {"read", "serve"}
        BY <1>6, <1>7, <1>13 DEF Upload, Publish, At
    <2> QED
        BY <1>3, <1>13, <2>1 DEF Publish
<1> QED
    BY <1>4, <1>5, <1>8, <1>9, <1>10, <1>11, <1>12, <1>13 DEF Next, Upload

(* The types, and that an upload was saved if and only if it has written every block. *)
THEOREM TypeCorrect == Spec => []TypeOK
<1> QED
    BY Invariance, InvImplies, PTL

(* makeLibFS serves a mixture only of an upload that ran next to another: one that fails
   or is cut off by a stop of the process does not cause it. *)
THEOREM TornByOverlap == Spec => []TornOnlyIfOverlapped
<1> QED
    BY Invariance, InvImplies, PTL

(* postLibHandler: when an upload that ran alone is through, what is served is what is on
   disk, if that parses, and it is its archive, if all of it was written; such an archive
   is served over failing uploads and restarts, until the file is created again. *)
THEOREM ServedAlone == Spec => []AloneIsServed
<1> DEFINE Served == ReadsOK /\ AgreesOK /\ AloneIsKept
<1>1. Init => Served
    <2> SUFFICES ASSUME Init PROVE Served
        OBVIOUS
    <2>1. disk = <<>> /\ overlapped = {} /\ last = {} /\ \A u \in Uploads : upload[u].pc = "new"
        BY DEF Init, NewUpload
    <2> QED
        BY <2>1, ArchiveIsFile DEF ReadsOK, AgreesOK, AloneIsKept
<1>2. IInv /\ Served /\ [Next]_vars => Served'
    <2>1. IInv /\ Served /\ Next => Served'
        BY ReadsStep, AgreesStep, KeptStep
    <2>2. Served /\ UNCHANGED vars => Served'
        BY DEF vars, ReadsOK, AgreesOK, AloneIsKept, At, Prefix, Parses
    <2> QED
        BY <2>1, <2>2
<1>3. IInv /\ Served => AloneIsServed
    BY DEF IInv, AloneOK, AgreesOK, AloneIsServed, AloneAgrees, At
<1> QED
    BY <1>1, <1>2, <1>3, Invariance, PTL DEF Spec

(* The event after each upload is enough for the workers to have what is served. *)
THEOREM WorkersCatchUp == Spec => []WorkersHaveTheLast
<1> QED
    BY Invariance, InvImplies, PTL
====
