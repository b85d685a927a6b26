---- MODULE AppConfig ----
(***************************************************************************)
(* The library of the application (package appconfig): POST /lib/lib.zip   *)
(* of the intranet replaces lib.zip on disk, then the copy in memory that  *)
(* /lib/ serves, then tells the workers, who fetch it.  Uploads share the  *)
(* file; only the copy in memory has a lock.  assets.zip goes the same way *)
(* without the last step.                                                  *)
(*                                                                         *)
(* A file is a sequence of blocks, block i of the archive of upload u is   *)
(* <<u, i>>, and the last block of an archive holds its directory.         *)
(***************************************************************************)
EXTENDS Integers, Sequences, FiniteSets, Functions

CONSTANTS Uploads,
          Size,        \* Size[u]: blocks of the archive of u
          Hole,        \* writer of the zeroes of a gap
          MaxCrashes   \* restarts (a bound)

ASSUME AppConfigAssumption ==
    /\ Size \in [Uploads -> Nat \ {0}]
    /\ Hole \notin Uploads
    /\ MaxCrashes \in Nat

VARIABLES
    upload,            \* the uploads
    disk,              \* lib.zip; no file is an empty one
    libZip,            \* what is served
    fetched, stale,    \* what the workers have; whether they were told to fetch
    overlapped, last,  \* uploads that ran next to another; the last ones begun
    crashes

vars == <<upload, disk, libZip, fetched, stale, overlapped, last, crashes>>

Block      == (Uploads \cup {Hole}) \X (Nat \ {0})
Archive(u) == [i \in 1..Size[u] |-> <<u, i>>]

(* Where an upload is; blocks written; what it has read back; whether all of it was
   written. *)
NewUpload == [pc |-> "new", at |-> 0, seen |-> <<>>, saved |-> FALSE]

Ended   == {"new", "done", "lost"}
Running == {u \in Uploads : upload[u].pc \notin Ended}
Steps   == Ended \cup {"create", "copy", "read", "serve", "publish"}

TypeOK ==
    /\ upload \in [Uploads -> [pc : Steps, at : Nat, seen : Seq(Block), saved : BOOLEAN]]
    /\ {disk, libZip, fetched} \subseteq Seq(Block)
    /\ stale \in BOOLEAN
    /\ overlapped \subseteq Uploads /\ last \subseteq Uploads
    /\ crashes \in 0..MaxCrashes
    /\ \A u \in Uploads :
           /\ upload[u].pc = "copy" => upload[u].at < Size[u]
           /\ upload[u].saved <=> upload[u].at = Size[u]

Init ==
    /\ upload = [u \in Uploads |-> NewUpload]
    /\ disk = <<>> /\ libZip = <<>> /\ fetched = <<>> /\ stale = FALSE
    /\ overlapped = {} /\ last = {} /\ crashes = 0

At(u, pc)   == upload[u].pc = pc
Goto(u, pc) == upload' = [upload EXCEPT ![u].pc = pc]

----
(* postLibHandler.  What goes wrong is answered with 500, and the rest of the handler
   runs all the same. *)

ReadBody(u) ==
    /\ At(u, "new")
    /\ Goto(u, "create") \/ Goto(u, "read")
    /\ overlapped' = IF Running = {} THEN overlapped
                                     ELSE overlapped \cup Running \cup {u}
    /\ last' = {u}
    /\ UNCHANGED <<disk, libZip, fetched, stale, crashes>>

(* Mutant: the file is opened without being truncated. *)
CreateKeeps(u) ==
    /\ At(u, "create")
    /\ Goto(u, "copy") \/ Goto(u, "read")
    /\ UNCHANGED <<disk, libZip, fetched, stale, overlapped, last, crashes>>

(* os.Create truncates. *)
Create(u) ==
    /\ At(u, "create")
    /\ \/ Goto(u, "copy") /\ disk' = <<>>
       \/ Goto(u, "read") /\ UNCHANGED disk
    /\ UNCHANGED <<libZip, fetched, stale, overlapped, last, crashes>>

(* A writer writes at its own offset. *)
Max2(i, j) == IF i < j THEN j ELSE i
WriteAt(i, block) ==
    [j \in 1..Max2(i, Len(disk)) |-> IF j = i THEN block
                                     ELSE IF j <= Len(disk) THEN disk[j] ELSE <<Hole, j>>]

CopyBlock(u) ==
    LET i == upload[u].at + 1
    IN  /\ disk' = WriteAt(i, <<u, i>>)
        /\ upload' = [upload EXCEPT ![u].pc = IF i = Size[u] THEN "read" ELSE "copy",
                                    ![u].at = i, ![u].saved = i = Size[u]]

(* Mutant: the error of io.Copy is dropped. *)
CopyIgnoresError(u) ==
    /\ At(u, "copy")
    /\ \/ CopyBlock(u)
       \/ /\ upload' = [upload EXCEPT ![u].pc = "read", ![u].saved = TRUE]
          /\ UNCHANGED disk
    /\ UNCHANGED <<libZip, fetched, stale, overlapped, last, crashes>>

Copy(u) ==
    /\ At(u, "copy")
    /\ CopyBlock(u) \/ (Goto(u, "read") /\ UNCHANGED disk)
    /\ UNCHANGED <<libZip, fetched, stale, overlapped, last, crashes>>

----
(* makeLibFS *)

(* zip.NewReader looks for the directory at the end of the file. *)
Parses(file) == file # <<>> /\ \E u \in Uploads : file[Len(file)] = <<u, Size[u]>>

ReadFile(u) ==
    /\ At(u, "read")
    /\ LET n == Len(upload[u].seen)
       IN  IF n < Len(disk)
           THEN upload' = [upload EXCEPT ![u].seen = Append(@, disk[n + 1])]
           ELSE Goto(u, "serve")
    /\ UNCHANGED <<disk, libZip, fetched, stale, overlapped, last, crashes>>

(* Mutant: the archive is served without a look at it. *)
ServeUnparsed(u) ==
    /\ At(u, "serve")
    /\ libZip' = IF upload[u].seen # <<>> THEN upload[u].seen ELSE libZip
    /\ Goto(u, "publish")
    /\ UNCHANGED <<disk, fetched, stale, overlapped, last, crashes>>

Serve(u) ==
    /\ At(u, "serve")
    /\ libZip' = IF Parses(upload[u].seen) THEN upload[u].seen ELSE libZip
    /\ Goto(u, "publish")
    /\ UNCHANGED <<disk, fetched, stale, overlapped, last, crashes>>

----
(* The route's handler goes on to publish "assets-update", whatever has happened. *)

(* Mutant: it publishes when the upload has succeeded. *)
PublishSuccess(u) ==
    /\ At(u, "publish")
    /\ stale' = (stale \/ upload[u].saved)
    /\ Goto(u, "done")
    /\ UNCHANGED <<disk, libZip, fetched, overlapped, last, crashes>>

Publish(u) ==
    /\ At(u, "publish")
    /\ stale' = TRUE
    /\ Goto(u, "done")
    /\ UNCHANGED <<disk, libZip, fetched, overlapped, last, crashes>>

(* A worker asks for /lib/. *)
libHandler ==
    /\ stale
    /\ fetched' = libZip /\ stale' = FALSE
    /\ UNCHANGED <<upload, disk, libZip, overlapped, last, crashes>>

(* The process stops and starts again: init serves what is on disk, if it parses.  The
   workers connect again, and fetch. *)
Restart ==
    /\ crashes < MaxCrashes
    /\ crashes' = crashes + 1
    /\ upload' = [u \in Uploads |-> IF u \in Running THEN [upload[u] EXCEPT !.pc = "lost"]
                                                     ELSE upload[u]]
    /\ libZip' = IF Parses(disk) THEN disk ELSE <<>>
    /\ stale' = TRUE
    /\ UNCHANGED <<disk, fetched, overlapped, last>>

Upload(u) == ReadBody(u) \/ Create(u) \/ Copy(u) \/ ReadFile(u) \/ Serve(u) \/ Publish(u)

Next == (\E u \in Uploads : Upload(u)) \/ libHandler \/ Restart

Spec == Init /\ [][Next]_vars

----
(* Nothing keeps uploads apart but the lock of the copy in memory; what zip.NewReader
   accepts may be a mixture, even with what an upload has left that failed or was cut off
   by a restart.  That takes the directory of an upload that ran next to others: a failed
   upload, or a stop in the middle of one, does not by itself make the process serve a
   part of an archive. *)
TornOnlyIfOverlapped ==
    \/ libZip = <<>>
    \/ \E u \in Uploads : libZip = Archive(u)
    \/ libZip[Len(libZip)][1] \in overlapped

(* When an upload that ran alone is through, its archive is on disk if all of it was
   written, and what is served is what is on disk if that parses, so that a restart serves
   the same: also after an upload that failed, and whatever those before have left. *)
AloneAgrees ==
    \A u \in last \ overlapped :
        At(u, "done") => /\ upload[u].saved => disk = Archive(u)
                         /\ Parses(disk) => libZip = disk

(* An archive that an upload left on disk that ran alone is served from then on, for as
   long as nobody creates the file again: uploads that fail before that, next to each
   other or not, and a restart change nothing that is served. *)
AloneIsKept ==
    \A u \in Uploads \ overlapped :
        disk = Archive(u) /\ ~At(u, "read") /\ ~At(u, "serve") => libZip = disk

AloneIsServed == AloneAgrees /\ AloneIsKept

(* When all is quiet the workers have what is served: every change of it is followed by
   an event, though the uploads do not wait for each other. *)
WorkersHaveTheLast == Running = {} /\ ~stale => fetched = libZip
====
