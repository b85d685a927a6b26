---- MODULE ConfigProofs ----
(***************************************************************************)
(* Proofs about Config, for any number of uploads, stores, versions and    *)
(* restarts: its types, that an upload that ran alone is installed, and    *)
(* that only uploads that ran next to each other migrate a store twice.    *)
(***************************************************************************)
EXTENDS Config, SequenceTheorems, TLAPS

UploadT == [pc : Steps, saved : BOOLEAN, of : Configs, left : Rests, stores : SUBSET Stores,
            store : {{}} \cup {{s} : s \in Stores}]
BootT   == [at : {"new", "ready", "append", "up"}, saw : Orders]

Typed ==
    /\ upload \in [Uploads -> UploadT]
    /\ config \in Configs /\ disk \in Configs /\ cron \in Configs /\ told \in Configs
    /\ handlers \in Orders /\ boot \in [Servers -> BootT]
    /\ mounted \subseteq Stores /\ overlapped \subseteq Uploads
    /\ outcome \in [Migrations -> {"none", "pending", "answered"}]
    /\ \A m \in migrated : m = <<m[1], m[2]>> /\ m[1] \in Uploads
    /\ crashes \in Nat

(* How far an upload has come, and what it waits for. *)
Progress(u) ==
    /\ upload[u].pc = "new" => upload[u] = NewUpload
    /\ upload[u].pc \in {"save", "write"} => ~upload[u].saved
    /\ upload[u].pc = "migrate" => upload[u].left # <<>> /\ Head(upload[u].left) = "intranet"
    /\ upload[u].pc # "migrate" => upload[u].store = {}
    /\ \A s \in Stores : outcome[<<u, s>>] = "pending" => upload[u].store = {s}
    /\ upload[u].pc \notin Ended => boot["intranet"].at = "up"

RunningApart == \A u, v \in Running : u # v => u \in overlapped

(* A server's handler is lost only when the other's was appended after it. *)
BootOK ==
    /\ \A g \in Servers :
           /\ g \in Range(handlers) => boot[g].at = "up"
           /\ boot[g].at = "append" =>
                  \A h \in Servers \cap Range(boot[g].saw) : h # g /\ boot[h].at = "up"
    /\ boot["intranet"].at = "up" /\ "intranet" \notin Range(handlers) => boot["internet"].at = "up"

(* What was migrated is recorded, or its upload is about to record it. *)
Recorded ==
    \A m \in migrated :
        \/ m[2] \in processed
        \/ \E s \in Stores : /\ upload[m[1]].store = {s} /\ outcome[<<m[1], s>>] = "answered"
                             /\ m[2] = VersionOf(m[1], s)

(* Nobody has done the migration that an upload waits for, but uploads next to it. *)
AwaitedIsUndone ==
    \A u, w \in Uploads, s \in Stores :
        outcome[<<u, s>>] = "pending" /\ u # w =>
            (<<w, VersionOf(u, s)>> \in migrated => {u, w} \subseteq overlapped)

(* What an upload that runs alone has come to, step by step. *)
Settled(u) ==
    /\ upload[u].pc # "new"
    /\ upload[u].pc = "write" => disk = Empty
    /\ upload[u].pc \notin {"save", "write", "lost"} => (upload[u].saved => disk = u)
    /\ upload[u].pc \in {"update", "handlers", "migrate"} => config = u
    /\ upload[u].pc \in {"handlers", "migrate"} =>
           /\ upload[u].of = u
           /\ cron = u \/ (upload[u].left # <<>> /\ Head(upload[u].left) = "scheduler")
           /\ "intranet" \in Range(handlers) => told = u \/ "intranet" \in Range(upload[u].left)
    /\ upload[u].pc = "migrate" => told = u
    /\ upload[u].pc \in {"panicked", "done"} =>
           (config = u \/ (crashes > 0 /\ config = disk)) /\ cron = config
    /\ upload[u].pc = "done" =>
           \/ told = u
           \/ told = Empty /\ crashes > 0
           \/ "intranet" \notin Range(handlers) /\ boot["intranet"].at = "up"

AloneOK == \A u \in Uploads \ overlapped : u = last => Running \subseteq {u} /\ Settled(u)

MigrationsOK == Recorded /\ AwaitedIsUndone /\ MigratedTwiceOnlyIfOverlapped

IInv == /\ Typed /\ (\A u \in Uploads : Progress(u)) /\ RunningApart /\ BootOK
        /\ MigrationsOK /\ AloneOK
----
LEMMA InvImplies == IInv => TypeOK /\ AloneIsInstalled /\ MigratedTwiceOnlyIfOverlapped
<1> SUFFICES ASSUME IInv PROVE TypeOK /\ AloneIsInstalled
    BY DEF IInv, MigrationsOK
<1>1. TypeOK
    <2>1. \A u \in Uploads : \A s \in Stores : outcome[<<u, s>>] = "pending" =>
              upload[u].pc = "migrate" /\ upload[u].store = {s}
        BY DEF IInv, Progress
    <2> QED
        BY <2>1 DEF IInv, Typed, TypeOK, UploadT, BootT
<1>2. AloneIsInstalled
    <2> SUFFICES ASSUME NEW u \in Uploads \ overlapped, u = last
                 PROVE  /\ At(u, "panicked") \/ At(u, "done") => Installed(u)
                        /\ At(u, "done") => Announced(u)
        BY DEF AloneIsInstalled
    <2>1. Settled(u) /\ Progress(u)
        BY DEF IInv, AloneOK
    <2>2. At(u, "panicked") \/ At(u, "done") => Installed(u)
        BY <2>1 DEF Settled, Installed, At
    <2>3. ASSUME At(u, "done"), NEW m \in migrated, m[1] = u PROVE m[2] \in processed
        BY <2>1, <2>3 DEF IInv, MigrationsOK, Recorded, Progress, At
    <2>4. At(u, "done") => Announced(u)
        BY <2>1, <2>3 DEF Settled, Announced, At
    <2> QED
        BY <2>2, <2>4
<1> QED
    BY <1>1, <1>2

----
(* The handlers: who is in a list, and who is left when the first has been called. *)

Names == {"scheduler", "internet", "intranet"}

LEMMA Tuples ==
    ASSUME NEW a \in Names, NEW b \in Names, NEW c \in Names
    PROVE  /\ <<a>> \in Seq(Names) /\ Head(<<a>>) = a /\ Tail(<<a>>) = <<>>
           /\ <<a, b>> \in Seq(Names) /\ Head(<<a, b>>) = a /\ Tail(<<a, b>>) = <<b>>
           /\ <<a, b, c>> \in Seq(Names) /\ Head(<<a, b, c>>) = a /\ Tail(<<a, b, c>>) = <<b, c>>
<1>1. <<a>> \in Seq(Names) /\ Head(<<a>>) = a /\ Tail(<<a>>) = <<>>
    OBVIOUS
<1>2. <<a, b>> \in Seq(Names) /\ Head(<<a, b>>) = a
    OBVIOUS
<1>3. Tail(<<a, b>>) = <<b>>
    OBVIOUS
<1>4. <<a, b, c>> \in Seq(Names) /\ Head(<<a, b, c>>) = a
    OBVIOUS
<1>5. Tail(<<a, b, c>>) = <<b, c>>
    OBVIOUS
<1> QED
    BY <1>1, <1>2, <1>3, <1>4, <1>5

LEMMA OrderIs ==
    ASSUME NEW o \in Orders
    PROVE  /\ o \in Seq(Names) /\ Head(o) = "scheduler" /\ o # <<>> /\ o \in Rests
           /\ Tail(o) \in {<<>>, <<"internet">>, <<"intranet">>,
                           <<"internet", "intranet">>, <<"intranet", "internet">>}
<1> DEFINE Good == /\ o \in Seq(Names) /\ Head(o) = "scheduler"
                   /\ Tail(o) \in {<<>>, <<"internet">>, <<"intranet">>,
                                   <<"internet", "intranet">>, <<"intranet", "internet">>}
<1>1. o \in Rests /\ o # <<>>
    BY DEF Orders, Rests
<1>2. "scheduler" \in Names /\ "internet" \in Names /\ "intranet" \in Names
    BY DEF Names
<1>3. ASSUME o = <<"scheduler">> PROVE Good
    BY <1>2, <1>3, Tuples
<1>4. ASSUME o = <<"scheduler", "internet">> PROVE Good
    BY <1>2, <1>4, Tuples
<1>5. ASSUME o = <<"scheduler", "intranet">> PROVE Good
    BY <1>2, <1>5, Tuples
<1>6. ASSUME o = <<"scheduler", "internet", "intranet">> PROVE Good
    BY <1>2, <1>6, Tuples
<1>7. ASSUME o = <<"scheduler", "intranet", "internet">> PROVE Good
    BY <1>2, <1>7, Tuples
<1> HIDE DEF Good
<1>8. Good
    BY <1>3, <1>4, <1>5, <1>6, <1>7 DEF Orders
<1> QED
    BY <1>1, <1>8 DEF Good

LEMMA RestIs ==
    ASSUME NEW o \in Rests
    PROVE  \/ o \in Orders
           \/ o \in {<<>>, <<"internet">>, <<"intranet">>,
                     <<"internet", "intranet">>, <<"intranet", "internet">>}
BY OrderIs DEF Rests

LEMMA RangeTail ==
    ASSUME NEW S, NEW q \in Seq(S), q # <<>>
    PROVE  Range(q) = {Head(q)} \cup Range(Tail(q))
<1>1. /\ Len(q) \in Nat /\ Len(q) >= 1 /\ Head(q) = q[1] /\ DOMAIN q = 1..Len(q)
      /\ Tail(q) \in Seq(S) /\ Len(Tail(q)) = Len(q) - 1
      /\ \A i \in 1..Len(Tail(q)) : Tail(q)[i] = q[i + 1]
    BY HeadTailProperties, LenProperties, EmptySeq
<1>2. DOMAIN Tail(q) = 1..(Len(q) - 1)
    BY <1>1
<1>3. \A i \in DOMAIN q : i = 1 \/ (i - 1 \in DOMAIN Tail(q) /\ Tail(q)[i - 1] = q[i])
    BY <1>1, <1>2
<1>4. \A i \in DOMAIN Tail(q) : i + 1 \in DOMAIN q /\ q[i + 1] = Tail(q)[i]
    BY <1>1, <1>2
<1>5. 1 \in DOMAIN q
    BY <1>1
<1>6. Range(q) \subseteq {Head(q)} \cup Range(Tail(q))
    <2> SUFFICES ASSUME NEW i \in DOMAIN q PROVE q[i] \in {Head(q)} \cup Range(Tail(q))
        BY DEF Range
    <2>1. CASE i = 1
        BY <1>1, <2>1
    <2>2. CASE i - 1 \in DOMAIN Tail(q) /\ Tail(q)[i - 1] = q[i]
        BY <2>2 DEF Range
    <2> QED
        BY <1>3, <2>1, <2>2
<1>7. {Head(q)} \cup Range(Tail(q)) \subseteq Range(q)
    BY <1>1, <1>4, <1>5 DEF Range
<1> QED
    BY <1>6, <1>7

LEMMA RestTail ==
    ASSUME NEW o \in Rests, o # <<>>
    PROVE  /\ Tail(o) \in Rests
           /\ Range(o) = {Head(o)} \cup Range(Tail(o))
<1>1. CASE o \in Orders
    BY <1>1, OrderIs, RangeTail DEF Rests
<1>2. <<"scheduler">> \in Orders /\ <<>> = Tail(<<"scheduler">>) /\ <<>> \in Rests
    BY DEF Orders, Rests
<1>3. <<"internet">> \in Rests /\ <<"intranet">> \in Rests
    BY DEF Rests
<1>n. "internet" \in Names /\ "intranet" \in Names
    BY DEF Names
<1>4. CASE o = <<"internet">> \/ o = <<"intranet">>
    <2>1. o \in Seq(Names) /\ Tail(o) = <<>>
        BY <1>n, <1>4, Tuples
    <2> QED
        BY <1>2, <2>1, RangeTail
<1>5. CASE o = <<"internet", "intranet">>
    <2>1. o \in Seq(Names) /\ Tail(o) = <<"intranet">>
        BY <1>n, <1>5, Tuples
    <2> QED
        BY <1>3, <2>1, RangeTail
<1>6. CASE o = <<"intranet", "internet">>
    <2>1. o \in Seq(Names) /\ Tail(o) = <<"internet">>
        BY <1>n, <1>6, Tuples
    <2> QED
        BY <1>3, <2>1, RangeTail
<1> QED
    BY <1>1, <1>4, <1>5, <1>6, RestIs

LEMMA InitEstablishes == Init => IInv
<1> SUFFICES ASSUME Init PROVE IInv
    OBVIOUS
<1> USE DEF Init
<1>1. <<"scheduler">> \in Orders /\ <<>> \in Rests
    <2>1. <<"scheduler">> \in Orders
        BY DEF Orders
    <2>2. Tail(<<"scheduler">>) = <<>>
        BY Tuples DEF Names
    <2>3. <<>> \in {Tail(o) : o \in Orders}
        BY <2>1, <2>2
    <2> QED
        BY <2>1, <2>3 DEF Rests
<1>2. Typed
    <2>1. NewUpload \in UploadT
        BY <1>1 DEF NewUpload, UploadT, Steps, Ended, Configs
    <2>2. boot \in [Servers -> BootT]
        BY <1>1 DEF Boot, BootT
    <2>3. outcome \in [Migrations -> {"none", "pending", "answered"}]
        BY DEF Queue!Init
    <2> QED
        BY <1>1, <2>1, <2>2, <2>3 DEF Typed, Configs
<1>3. \A u \in Uploads : upload[u] = NewUpload /\ upload[u].pc = "new" /\ upload[u].store = {}
    BY DEF NewUpload
<1>4. \A u \in Uploads : Progress(u)
    BY <1>3 DEF Progress, Queue!Init, Migrations, Ended
<1>5. Running = {}
    BY <1>3 DEF Running, Ended
<1>6. BootOK
    <2>1. \A g \in Servers : boot[g].at \in {"new", "ready"} /\ g \notin Range(handlers)
        BY DEF Boot, Servers, Range
    <2> QED
        BY <2>1 DEF BootOK, Servers
<1>7. MigrationsOK
    BY DEF MigrationsOK, Recorded, AwaitedIsUndone, MigratedTwiceOnlyIfOverlapped
<1>8. AloneOK
    BY ConfigAssumption DEF AloneOK
<1> QED
    BY <1>2, <1>4, <1>5, <1>6, <1>7, <1>8 DEF IInv, RunningApart

----
(* Most steps move one upload on. *)

Moved(u, r) ==
    /\ upload' \in [Uploads -> UploadT] /\ upload'[u] = r
    /\ \A v \in Uploads \ {u} : upload'[v] = upload[v]

LEMMA Moves ==
    ASSUME IInv, NEW u \in Uploads, NEW r \in UploadT, upload' = [upload EXCEPT ![u] = r]
    PROVE  Moved(u, r)
BY DEF IInv, Typed, Moved

(* What one upload knows of itself is not touched by the steps of another. *)
LEMMA OthersProgress ==
    ASSUME IInv, NEW v \in Uploads, upload'[v] = upload[v],
           \A s \in Stores : outcome'[<<v, s>>] = "pending" => outcome[<<v, s>>] = "pending",
           boot["intranet"].at = "up" => boot'["intranet"].at = "up"
    PROVE  Progress(v)'
BY DEF IInv, Progress

(* A running upload that goes on, or ends: only what is said of it alone can change. *)
LEMMA RunsOn ==
    ASSUME IInv, NEW u \in Running, NEW r \in UploadT, Moved(u, r), r.pc # "new",
           UNCHANGED <<overlapped, last>>,
           Settled(u) => Settled(u)'
    PROVE  RunningApart' /\ AloneOK'
<1>1. Running' \subseteq Running
    BY DEF Running, Moved, Ended
<1>2. RunningApart'
    BY <1>1 DEF IInv, RunningApart
<1>3. ASSUME NEW v \in Uploads \ overlapped, v = last PROVE Running' \subseteq {v} /\ Settled(v)'
    <2>1. Running \subseteq {v} /\ Settled(v)
        BY <1>3 DEF IInv, AloneOK
    <2> QED
        BY <1>1, <2>1
<1> QED
    BY <1>2, <1>3 DEF AloneOK

(* Nothing is migrated or recorded, and the upload that moves waits for no migration. *)
LEMMA NothingMigrates ==
    ASSUME IInv, NEW u \in Uploads, NEW r \in UploadT, Moved(u, r),
           upload[u].store = {}, r.store = {},
           UNCHANGED migrations, overlapped \subseteq overlapped'
    PROVE  MigrationsOK'
<1>1. UNCHANGED <<processed, migrated, outcome>>
    BY DEF migrations
<1>2. Recorded'
    <2> SUFFICES ASSUME NEW m \in migrated, m[2] \notin processed,
                        NEW s \in Stores, upload[m[1]].store = {s}, outcome[<<m[1], s>>] = "answered",
                        m[2] = VersionOf(m[1], s)
                 PROVE  upload'[m[1]].store = {s} /\ m[2] = VersionOf(m[1], s)'
        BY <1>1 DEF IInv, MigrationsOK, Recorded
    <2>1. m[1] \in Uploads \ {u}
        BY DEF IInv, Typed
    <2> QED
        BY <2>1 DEF Moved, VersionOf
<1>3. AwaitedIsUndone'
    <2> SUFFICES ASSUME NEW v \in Uploads, NEW w \in Uploads, NEW s \in Stores,
                        outcome[<<v, s>>] = "pending", v # w, <<w, VersionOf(v, s)'>> \in migrated
                 PROVE  {v, w} \subseteq overlapped
        BY <1>1 DEF AwaitedIsUndone
    <2>1. v # u
        BY DEF IInv, Progress
    <2>2. VersionOf(v, s)' = VersionOf(v, s)
        BY <2>1 DEF Moved, VersionOf
    <2> QED
        BY <2>2 DEF IInv, MigrationsOK, AwaitedIsUndone
<1>4. MigratedTwiceOnlyIfOverlapped'
    BY <1>1 DEF IInv, MigrationsOK, MigratedTwiceOnlyIfOverlapped
<1> QED
    BY <1>2, <1>3, <1>4 DEF MigrationsOK

(* The steps of ReloadConfig and of the handlers, migrations aside. *)
LEMMA Goes ==
    ASSUME IInv, NEW u \in Running, NEW r \in UploadT, Moved(u, r), r.pc # "new",
           upload[u].store = {}, r.store = {},
           r.pc \in {"save", "write"} => ~r.saved,
           r.pc = "migrate" => r.left # <<>> /\ Head(r.left) = "intranet",
           UNCHANGED <<start, migrations, history>>,
           config' \in Configs, disk' \in Configs, cron' \in Configs, told' \in Configs,
           mounted' \subseteq Stores,
           Settled(u) => Settled(u)'
    PROVE  IInv'
<1>1. UNCHANGED <<handlers, boot, processed, migrated, outcome, overlapped, last, crashes>>
    BY DEF start, migrations, history
<1>2. u \in Uploads /\ boot["intranet"].at = "up"
    BY DEF Running, IInv, Progress
<1>3. Typed'
    BY <1>1 DEF IInv, Typed, Moved
<1>4. ASSUME NEW v \in Uploads PROVE Progress(v)'
    <2>1. CASE v # u
        BY <1>1, <2>1, OthersProgress DEF Moved
    <2>2. \A s \in Stores : outcome[<<u, s>>] # "pending"
        BY <1>2 DEF IInv, Progress
    <2>3. CASE v = u
        BY <1>1, <1>2, <2>2, <2>3 DEF Progress, Moved
    <2> QED
        BY <2>1, <2>3
<1>5. RunningApart' /\ AloneOK'
    BY <1>1, RunsOn
<1>6. MigrationsOK'
    BY <1>1, <1>2, NothingMigrates
<1>7. BootOK'
    BY <1>1 DEF IInv, BootOK
<1> QED
    BY <1>3, <1>4, <1>5, <1>6, <1>7 DEF IInv

Gone(u, pc) == [upload[u] EXCEPT !.pc = pc]

LEMMA GotoMoves ==
    ASSUME IInv, NEW u \in Uploads, NEW pc \in Steps, Goto(u, pc)
    PROVE  /\ Gone(u, pc) \in UploadT /\ Moved(u, Gone(u, pc))
           /\ Gone(u, pc).pc = pc /\ Gone(u, pc).saved = upload[u].saved
           /\ Gone(u, pc).of = upload[u].of /\ Gone(u, pc).left = upload[u].left
           /\ Gone(u, pc).stores = upload[u].stores /\ Gone(u, pc).store = upload[u].store
<1>1. upload[u] \in UploadT
    BY DEF IInv, Typed
<1>2. /\ Gone(u, pc) \in UploadT
      /\ Gone(u, pc).pc = pc /\ Gone(u, pc).saved = upload[u].saved
      /\ Gone(u, pc).of = upload[u].of /\ Gone(u, pc).left = upload[u].left
      /\ Gone(u, pc).stores = upload[u].stores /\ Gone(u, pc).store = upload[u].store
    BY <1>1 DEF UploadT, Gone
<1>3. upload' = [upload EXCEPT ![u] = Gone(u, pc)]
    BY DEF Goto, Gone
<1> QED
    BY <1>2, <1>3, Moves

(* Where an upload is when it takes a step of ReloadConfig. *)
LEMMA OnItsWay ==
    ASSUME IInv, NEW u \in Uploads, upload[u].pc \in {"save", "write", "set", "update", "handlers"}
    PROVE  /\ u \in Running /\ upload[u] \in UploadT /\ upload[u].store = {} /\ Progress(u)
           /\ config \in Configs /\ disk \in Configs /\ cron \in Configs /\ told \in Configs
           /\ mounted \subseteq Stores /\ u \in Configs
BY DEF IInv, Typed, Running, Ended, Progress, Configs

LEMMA TruncateFileKeeps == ASSUME IInv, NEW u \in Uploads, TruncateFile(u) PROVE IInv'
<1>1. /\ upload[u].pc = "save" /\ config' = config
      /\ UNCHANGED <<start, heard, migrations, history>>
    BY DEF TruncateFile, At
<1>2. PICK pc \in {"write", "set"} :
          Goto(u, pc) /\ disk' = IF pc = "write" THEN Empty ELSE disk
    BY DEF TruncateFile
<1>3. /\ Gone(u, pc) \in UploadT /\ Moved(u, Gone(u, pc))
      /\ Gone(u, pc).pc = pc /\ Gone(u, pc).saved = upload[u].saved /\ Gone(u, pc).store = upload[u].store
    BY <1>2, GotoMoves DEF Steps
<1>4. ~upload[u].saved /\ Empty \in Configs
    BY <1>1 DEF IInv, Progress, Configs
<1>5. cron' = cron /\ told' = told /\ mounted' = mounted
    BY <1>1 DEF heard
<1>6. Settled(u)'
    BY <1>2, <1>3, <1>4 DEF Settled, Moved
<1> QED
    BY <1>1, <1>2, <1>3, <1>4, <1>5, <1>6, OnItsWay, Goes

LEMMA WriteFileKeeps == ASSUME IInv, NEW u \in Uploads, WriteFile(u) PROVE IInv'
<1>1. /\ upload[u].pc = "write" /\ config' = config
      /\ UNCHANGED <<start, heard, migrations, history>>
    BY DEF WriteFile, At
<1>2. ~upload[u].saved /\ {u, Torn} \subseteq Configs
    BY <1>1 DEF IInv, Progress, Configs
<1>3. cron' = cron /\ told' = told /\ mounted' = mounted
    BY <1>1 DEF heard
<1>4. CASE /\ disk' \in IF disk = Empty THEN {u} ELSE {u, Torn}
           /\ upload' = [upload EXCEPT ![u].pc = "set", ![u].saved = TRUE]
    <2> DEFINE r == [upload[u] EXCEPT !.pc = "set", !.saved = TRUE]
    <2>1. upload[u] \in UploadT /\ upload[u].store = {} /\ "set" \in Steps
        BY <1>1, OnItsWay DEF Steps
    <2>2. r \in UploadT /\ r.pc = "set" /\ r.saved /\ r.store = {}
        BY <2>1 DEF UploadT
    <2>3. upload' = [upload EXCEPT ![u] = r]
        BY <1>4
    <2> HIDE DEF r
    <2>4. Moved(u, r)
        BY <2>2, <2>3, Moves
    <2>5. Settled(u) => Settled(u)'
        BY <1>1, <1>4, <2>2, <2>4 DEF Settled, Moved
    <2> QED
        BY <1>1, <1>2, <1>3, <1>4, <2>1, <2>2, <2>4, <2>5, OnItsWay, Goes
<1>5. CASE Goto(u, "set") /\ disk' = Torn
    <2>1. /\ Gone(u, "set") \in UploadT /\ Moved(u, Gone(u, "set")) /\ Gone(u, "set").pc = "set"
          /\ Gone(u, "set").saved = upload[u].saved /\ Gone(u, "set").store = upload[u].store
        BY <1>5, GotoMoves DEF Steps
    <2>2. Settled(u)'
        BY <1>2, <2>1 DEF Settled, Moved
    <2> QED
        BY <1>1, <1>2, <1>3, <1>5, <2>1, <2>2, OnItsWay, Goes
<1> QED
    BY <1>4, <1>5 DEF WriteFile

LEMMA SetConfigKeeps == ASSUME IInv, NEW u \in Uploads, SetConfig(u) PROVE IInv'
<1>1. /\ upload[u].pc = "set" /\ config' = u /\ disk' = disk /\ Goto(u, "update")
      /\ UNCHANGED <<start, heard, migrations, history>>
    BY DEF SetConfig, At
<1>2. cron' = cron /\ told' = told /\ mounted' = mounted
    BY <1>1 DEF heard
<1>3. /\ Gone(u, "update") \in UploadT /\ Moved(u, Gone(u, "update")) /\ Gone(u, "update").pc = "update"
      /\ Gone(u, "update").saved = upload[u].saved /\ Gone(u, "update").store = upload[u].store
    BY <1>1, GotoMoves DEF Steps
<1>4. Settled(u) => Settled(u)'
    BY <1>1, <1>3 DEF Settled, Moved
<1> QED
    BY <1>1, <1>2, <1>3, <1>4, OnItsWay, Goes

(* An upload that runs alone reads its own configuration; everybody who has a handler
   by then is called. *)
LEMMA UpdatedKeeps == ASSUME IInv, NEW u \in Uploads, Updated(u) PROVE IInv'
<1> DEFINE r == [upload[u] EXCEPT !.pc = "handlers", !.of = config, !.left = handlers]
<1>1. /\ upload[u].pc = "update" /\ upload' = [upload EXCEPT ![u] = r]
      /\ UNCHANGED <<files, start, heard, migrations, history>>
    BY DEF Updated, At
<1>2. UNCHANGED <<config, disk, cron, told, mounted, handlers, boot>>
    BY <1>1 DEF files, heard, start
<1>3. handlers \in Orders /\ handlers \in Rests /\ handlers # <<>> /\ Head(handlers) = "scheduler"
    BY OrderIs DEF IInv, Typed
<1>4. upload[u] \in UploadT /\ upload[u].store = {} /\ "handlers" \in Steps /\ config \in Configs
    BY <1>1, OnItsWay DEF Steps
<1>5. /\ r \in UploadT /\ r.pc = "handlers" /\ r.saved = upload[u].saved /\ r.of = config
      /\ r.left = handlers /\ r.store = {}
    BY <1>3, <1>4 DEF UploadT
<1> HIDE DEF r
<1>6. Moved(u, r)
    BY <1>1, <1>5, Moves
<1>7. Settled(u) => Settled(u)'
    BY <1>1, <1>2, <1>3, <1>5, <1>6 DEF Settled, Moved
<1> QED
    BY <1>1, <1>2, <1>5, <1>6, <1>7, OnItsWay, Goes

(* The handler of a name was called. *)
LEMMA NextHandler ==
    ASSUME IInv, NEW u \in Uploads, NEW name, Next1(u, name)
    PROVE  /\ upload[u].pc = "handlers" /\ upload[u].left \in Rests /\ upload[u].left # <<>>
           /\ Head(upload[u].left) = name /\ Rest(u) \in Rests
           /\ Range(upload[u].left) = {name} \cup Range(Rest(u))
<1>1. /\ upload[u].pc = "handlers" /\ upload[u].left # <<>> /\ Head(upload[u].left) = name
      /\ upload[u].left \in Rests
    BY OnItsWay DEF Next1, At, UploadT
<1> QED
    BY <1>1, RestTail DEF Rest

Passed(u) == [upload[u] EXCEPT !.left = Rest(u)]

LEMMA HandlerPassed ==
    ASSUME IInv, NEW u \in Uploads, NEW name, Next1(u, name),
           upload' = [upload EXCEPT ![u].left = Rest(u)]
    PROVE  /\ Passed(u) \in UploadT /\ Moved(u, Passed(u)) /\ Passed(u).pc = "handlers"
           /\ Passed(u).saved = upload[u].saved /\ Passed(u).of = upload[u].of
           /\ Passed(u).left = Rest(u) /\ Passed(u).store = {}
<1>1. Rest(u) \in Rests /\ upload[u].pc = "handlers" /\ upload[u] \in UploadT /\ upload[u].store = {}
    BY NextHandler, OnItsWay
<1>2. /\ Passed(u) \in UploadT /\ Passed(u).pc = "handlers"
      /\ Passed(u).saved = upload[u].saved /\ Passed(u).of = upload[u].of
      /\ Passed(u).left = Rest(u) /\ Passed(u).store = {}
    BY <1>1 DEF Passed, UploadT
<1>3. upload' = [upload EXCEPT ![u] = Passed(u)]
    BY DEF Passed
<1> QED
    BY <1>2, <1>3, Moves

LEMMA SchedulerHandlerKeeps == ASSUME IInv, NEW u \in Uploads, SchedulerHandler(u) PROVE IInv'
<1>1. /\ Next1(u, "scheduler") /\ upload' = [upload EXCEPT ![u].left = Rest(u)]
      /\ cron' = upload[u].of /\ told' = told /\ mounted' = mounted
      /\ UNCHANGED <<files, start, migrations, history>>
    BY DEF SchedulerHandler
<1>2. UNCHANGED <<config, disk, handlers, boot>>
    BY <1>1 DEF files, start
<1>3. /\ upload[u].pc = "handlers" /\ Head(upload[u].left) = "scheduler"
      /\ Range(upload[u].left) = {"scheduler"} \cup Range(Rest(u))
    BY <1>1, NextHandler
<1>4. /\ Passed(u) \in UploadT /\ Moved(u, Passed(u)) /\ Passed(u).pc = "handlers"
      /\ Passed(u).saved = upload[u].saved /\ Passed(u).of = upload[u].of
      /\ Passed(u).left = Rest(u) /\ Passed(u).store = {}
    BY <1>1, HandlerPassed
<1>5. upload[u].of \in Configs
    BY <1>3, OnItsWay DEF UploadT
<1>6. Settled(u) => Settled(u)'
    BY <1>1, <1>2, <1>3, <1>4 DEF Settled, Moved
<1> QED
    BY <1>1, <1>2, <1>3, <1>4, <1>5, <1>6, OnItsWay, Goes

LEMMA GivenAreStores ==
    ASSUME IInv, NEW u \in Uploads
    PROVE  Given(u) \subseteq Stores
BY ConfigAssumption DEF IInv, Typed, UploadT, Given

LEMMA InternetHandlerKeeps == ASSUME IInv, NEW u \in Uploads, InternetHandler(u) PROVE IInv'
<1>1. /\ Next1(u, "internet") /\ cron' = cron /\ told' = told
      /\ UNCHANGED <<files, start, migrations, history>>
    BY DEF InternetHandler
<1>2. UNCHANGED <<config, disk, handlers, boot>>
    BY <1>1 DEF files, start
<1>3. /\ upload[u].pc = "handlers" /\ Head(upload[u].left) = "internet"
      /\ Range(upload[u].left) = {"internet"} \cup Range(Rest(u))
    BY <1>1, NextHandler
<1>4. mounted' \subseteq Stores
    BY <1>3, OnItsWay, GivenAreStores DEF InternetHandler
<1>5. CASE upload' = [upload EXCEPT ![u].left = Rest(u)]
    <2>1. /\ Passed(u) \in UploadT /\ Moved(u, Passed(u)) /\ Passed(u).pc = "handlers"
          /\ Passed(u).saved = upload[u].saved /\ Passed(u).of = upload[u].of
          /\ Passed(u).left = Rest(u) /\ Passed(u).store = {}
        BY <1>1, <1>5, HandlerPassed
    <2>2. Settled(u) => Settled(u)'
        BY <1>1, <1>2, <1>3, <2>1 DEF Settled, Moved
    <2> QED
        BY <1>1, <1>2, <1>3, <1>4, <2>1, <2>2, OnItsWay, Goes
<1>6. CASE Goto(u, "panicked")
    <2>1. /\ Gone(u, "panicked") \in UploadT /\ Moved(u, Gone(u, "panicked"))
          /\ Gone(u, "panicked").pc = "panicked" /\ Gone(u, "panicked").saved = upload[u].saved
          /\ Gone(u, "panicked").store = upload[u].store
        BY <1>6, GotoMoves DEF Steps, Ended
    <2>2. Settled(u) => Settled(u)'
        BY <1>1, <1>2, <1>3, <2>1 DEF Settled, Moved
    <2> QED
        BY <1>1, <1>2, <1>3, <1>4, <2>1, <2>2, OnItsWay, Goes
<1> QED
    BY <1>5, <1>6 DEF InternetHandler

LEMMA IntranetHandlerKeeps == ASSUME IInv, NEW u \in Uploads, IntranetHandler(u) PROVE IInv'
<1> DEFINE r == [upload[u] EXCEPT !.pc = "migrate", !.stores = Given(u) \cap Migrating]
<1>1. /\ Next1(u, "intranet") /\ cron' = cron /\ mounted' = mounted /\ told' = upload[u].of
      /\ upload' = [upload EXCEPT ![u] = r]
      /\ UNCHANGED <<files, start, migrations, history>>
    BY DEF IntranetHandler
<1>2. UNCHANGED <<config, disk, handlers, boot>>
    BY <1>1 DEF files, start
<1>3. /\ upload[u].pc = "handlers" /\ upload[u].left # <<>> /\ Head(upload[u].left) = "intranet"
    BY <1>1, NextHandler
<1>4. /\ upload[u] \in UploadT /\ upload[u].store = {} /\ "migrate" \in Steps
      /\ Given(u) \cap Migrating \subseteq Stores
    BY <1>3, OnItsWay, GivenAreStores DEF Steps
<1>5. /\ r \in UploadT /\ r.pc = "migrate" /\ r.saved = upload[u].saved /\ r.of = upload[u].of
      /\ r.left = upload[u].left /\ r.store = {}
    BY <1>4 DEF UploadT
<1>6. upload[u].of \in Configs
    BY <1>4 DEF UploadT
<1> HIDE DEF r
<1>7. Moved(u, r)
    BY <1>1, <1>5, Moves
<1>8. Settled(u) => Settled(u)'
    BY <1>1, <1>2, <1>3, <1>5, <1>7 DEF Settled, Moved
<1> QED
    BY <1>1, <1>2, <1>3, <1>5, <1>6, <1>7, <1>8, OnItsWay, Goes

(* Whoever was to be called was called. *)
LEMMA UpdateDoneKeeps == ASSUME IInv, NEW u \in Uploads, UpdateDone(u) PROVE IInv'
<1>1. /\ upload[u].pc = "handlers" /\ upload[u].left = <<>> /\ Goto(u, "done")
      /\ UNCHANGED <<files, start, heard, migrations, history>>
    BY DEF UpdateDone, At
<1>2. UNCHANGED <<config, disk, cron, told, mounted, handlers, boot>>
    BY <1>1 DEF files, start, heard
<1>3. /\ Gone(u, "done") \in UploadT /\ Moved(u, Gone(u, "done")) /\ Gone(u, "done").pc = "done"
      /\ Gone(u, "done").saved = upload[u].saved /\ Gone(u, "done").store = upload[u].store
    BY <1>1, GotoMoves DEF Steps, Ended
<1>4. boot["intranet"].at = "up"
    BY <1>1, OnItsWay DEF Progress, Ended
<1>5. Range(upload[u].left) = {}
    BY <1>1 DEF Range
<1>6. Settled(u) => Settled(u)'
    BY <1>1, <1>2, <1>3, <1>4, <1>5 DEF Settled, Moved
<1> QED
    BY <1>1, <1>2, <1>3, <1>6, OnItsWay, Goes

LEMMA MigratedKeeps == ASSUME IInv, NEW u \in Uploads, Migrated(u) PROVE IInv'
<1> DEFINE r == [upload[u] EXCEPT !.pc = "handlers", !.left = Rest(u)]
<1>1. /\ upload[u].pc = "migrate" /\ upload[u].store = {} /\ upload' = [upload EXCEPT ![u] = r]
      /\ UNCHANGED <<files, start, heard, migrations, history>>
    BY DEF Migrated, At
<1>2. UNCHANGED <<config, disk, cron, told, mounted, handlers, boot>>
    BY <1>1 DEF files, start, heard
<1>3. /\ upload[u] \in UploadT /\ u \in Running /\ Progress(u) /\ "handlers" \in Steps
      /\ config \in Configs /\ disk \in Configs /\ cron \in Configs /\ told \in Configs
      /\ mounted \subseteq Stores
    BY <1>1 DEF IInv, Typed, Running, Ended, Steps
<1>4. Rest(u) \in Rests
    BY <1>1, <1>3, RestTail DEF Progress, Rest, UploadT
<1>5. /\ r \in UploadT /\ r.pc = "handlers" /\ r.saved = upload[u].saved /\ r.of = upload[u].of
      /\ r.store = {}
    BY <1>1, <1>3, <1>4 DEF UploadT
<1>6. Head(upload[u].left) # "scheduler"
    BY <1>1, <1>3 DEF Progress
<1> HIDE DEF r
<1>7. Moved(u, r)
    BY <1>1, <1>5, Moves
<1>8. Settled(u) => Settled(u)'
    BY <1>1, <1>2, <1>5, <1>6, <1>7 DEF Settled, Moved
<1> QED
    BY <1>1, <1>2, <1>3, <1>5, <1>7, <1>8, Goes

(* An upload arrives: next to others it is one of those that overlap, and it is the last
   one from now on. *)
LEMMA PostConfigHandlerKeeps ==
    ASSUME IInv, NEW u \in Uploads, PostConfigHandler(u)
    PROVE  IInv'
<1>1. /\ upload[u].pc = "new" /\ boot["intranet"].at = "up"
      /\ UNCHANGED <<files, start, heard, migrations, crashes>>
    BY DEF PostConfigHandler, At
<1>2. UNCHANGED <<config, disk, handlers, boot, cron, told, mounted, processed, migrated, outcome>>
    BY <1>1 DEF files, start, heard, migrations
<1>3. PICK pc \in {"refused", "save"} :
          /\ Goto(u, pc)
          /\ pc = "refused" => UNCHANGED <<overlapped, last>>
          /\ pc = "save" => /\ overlapped' = IF Running = {} THEN overlapped
                                                             ELSE overlapped \cup Running \cup {u}
                            /\ last' = u
    BY DEF PostConfigHandler
<1> DEFINE r == Gone(u, pc)
<1>4. /\ r \in UploadT /\ Moved(u, r) /\ r.pc = pc /\ r.saved = upload[u].saved /\ r.store = upload[u].store
    BY <1>3, GotoMoves DEF Steps, Ended
<1> HIDE DEF r
<1>5. upload[u].store = {} /\ ~upload[u].saved /\ \A s \in Stores : outcome[<<u, s>>] # "pending"
    BY <1>1 DEF IInv, Progress, NewUpload
<1>6. Running \subseteq Uploads \ {u} /\ Running' = IF pc = "save" THEN Running \cup {u} ELSE Running
    BY <1>1, <1>3, <1>4 DEF Running, Moved, Ended
<1>7. overlapped \subseteq overlapped' /\ overlapped' \subseteq Uploads
    BY <1>3, <1>6 DEF IInv, Typed
<1>8. Typed'
    BY <1>1, <1>2, <1>4, <1>7 DEF IInv, Typed, Moved
<1>9. ASSUME NEW v \in Uploads PROVE Progress(v)'
    <2>1. CASE v # u
        BY <1>2, <1>4, <2>1, OthersProgress DEF Moved
    <2>2. CASE v = u
        BY <1>1, <1>2, <1>3, <1>4, <1>5, <2>2 DEF Progress, Moved
    <2> QED
        BY <2>1, <2>2
<1>10. RunningApart'
    BY <1>3, <1>6 DEF IInv, RunningApart
<1>11. BootOK'
    BY <1>2 DEF IInv, BootOK
<1>12. MigrationsOK'
    BY <1>1, <1>4, <1>5, <1>7, NothingMigrates
<1>13. AloneOK'
    <2>1. CASE pc = "save"
        <3> SUFFICES ASSUME u \notin overlapped' PROVE Running' \subseteq {u} /\ Settled(u)'
            BY <1>3, <2>1 DEF AloneOK
        <3>1. Running = {}
            BY <1>3, <2>1
        <3> QED
            BY <1>4, <1>6, <2>1, <3>1 DEF Settled, Moved
    <2>2. CASE pc = "refused"
        <3> SUFFICES ASSUME NEW v \in Uploads \ overlapped, v = last
                     PROVE  Running' \subseteq {v} /\ Settled(v)'
            BY <1>3, <2>2 DEF AloneOK
        <3>1. Running \subseteq {v} /\ Settled(v)
            BY DEF IInv, AloneOK
        <3>2. v # u
            BY <1>1, <3>1 DEF Settled
        <3>3. upload'[v] = upload[v]
            BY <1>4, <3>2 DEF Moved
        <3> QED
            BY <1>1, <1>2, <1>6, <2>2, <3>1, <3>3 DEF Settled
    <2> QED
        BY <1>3, <2>1, <2>2
<1> QED
    BY <1>8, <1>9, <1>10, <1>11, <1>12, <1>13 DEF IInv

----
(* The migrations. *)

Waits(u, r) ==
    /\ r.pc = "migrate" /\ r.saved = upload[u].saved /\ r.of = upload[u].of
    /\ r.left = upload[u].left

(* An upload that goes through its migrations stays where it is otherwise. *)
LEMMA StaysThere ==
    ASSUME IInv, NEW u \in Uploads, upload[u].pc = "migrate", NEW r \in UploadT, Moved(u, r),
           Waits(u, r), UNCHANGED <<files, start, heard, history>>
    PROVE  /\ RunningApart' /\ BootOK' /\ AloneOK' /\ u \in Running
           /\ \A v, s : VersionOf(v, s)' = VersionOf(v, s) \/ v \notin Uploads
           /\ outcome' \in [Migrations -> {"none", "pending", "answered"}]
              /\ (\A m \in migrated' : m = <<m[1], m[2]>> /\ m[1] \in Uploads) => Typed'
<1>1. UNCHANGED <<config, disk, handlers, boot, cron, told, mounted, overlapped, last, crashes>>
    BY DEF files, start, heard, history
<1>2. u \in Running
    BY DEF Running, Ended
<1>3. Settled(u) => Settled(u)'
    BY <1>1 DEF Settled, Moved, Waits
<1>4. RunningApart' /\ AloneOK'
    BY <1>1, <1>2, <1>3, RunsOn DEF Waits
<1>5. BootOK'
    BY <1>1 DEF IInv, BootOK
<1>6. \A v \in Uploads : upload'[v].of = upload[v].of
    BY DEF Moved, Waits
<1>7. ASSUME outcome' \in [Migrations -> {"none", "pending", "answered"}],
             \A m \in migrated' : m = <<m[1], m[2]>> /\ m[1] \in Uploads
      PROVE  Typed'
    BY <1>1, <1>7 DEF IInv, Typed, Moved
<1> QED
    BY <1>2, <1>4, <1>5, <1>6, <1>7 DEF VersionOf

LEMMA MigrateKeeps ==
    ASSUME IInv, NEW u \in Uploads, NEW s \in Stores, Migrate(u, s)
    PROVE  IInv'
<1>1. /\ upload[u].pc = "migrate" /\ upload[u].store = {} /\ <<u, s>> \in Migrations
      /\ UNCHANGED <<files, start, heard, processed, migrated, history>>
    BY DEF Migrate, At, Migrations
<1>2. upload[u] \in UploadT /\ Progress(u) /\ \A q \in Stores : outcome[<<u, q>>] # "pending"
    BY <1>1 DEF IInv, Typed, Progress
<1>3. CASE /\ upload' = [upload EXCEPT ![u].stores = @ \ {s}]
           /\ UNCHANGED <<outcome, started>>
    <2> DEFINE r == [upload[u] EXCEPT !.stores = @ \ {s}]
    <2>1. r \in UploadT /\ Waits(u, r) /\ r.store = {}
        BY <1>1, <1>2 DEF UploadT, Waits
    <2>2. upload' = [upload EXCEPT ![u] = r]
        BY <1>3
    <2> HIDE DEF r
    <2>3. Moved(u, r)
        BY <2>1, <2>2, Moves
    <2>4. UNCHANGED migrations
        BY <1>1, <1>3 DEF migrations
    <2>5. UNCHANGED <<config, disk, handlers, boot, cron, told, mounted>> /\ u \in Running
        BY <1>1, <2>1, <2>3, StaysThere DEF files, start, heard
    <2>6. Settled(u) => Settled(u)'
        BY <1>1, <2>1, <2>3, <2>5 DEF Settled, Moved, Waits, history
    <2>7. r.pc = "migrate" /\ r.left # <<>> /\ Head(r.left) = "intranet"
        BY <1>1, <1>2, <2>1 DEF Waits, Progress
    <2>8. /\ config \in Configs /\ disk \in Configs /\ cron \in Configs /\ told \in Configs
          /\ mounted \subseteq Stores
        BY DEF IInv, Typed
    <2> QED
        BY <1>1, <2>1, <2>3, <2>4, <2>5, <2>6, <2>7, <2>8, Goes
<1>4. CASE /\ VersionOf(u, s) \notin processed
           /\ upload' = [upload EXCEPT ![u].stores = @ \ {s}, ![u].store = {s}]
           /\ Queue!Submit(<<u, s>>)
    <2> DEFINE r == [upload[u] EXCEPT !.stores = @ \ {s}, !.store = {s}]
    <2>1. r \in UploadT /\ Waits(u, r) /\ r.store = {s}
        BY <1>1, <1>2 DEF UploadT, Waits
    <2>2. upload' = [upload EXCEPT ![u] = r]
        BY <1>4
    <2> HIDE DEF r
    <2>3. Moved(u, r)
        BY <2>1, <2>2, Moves
    <2>4. outcome' = [outcome EXCEPT ![<<u, s>>] = "pending"] /\ outcome[<<u, s>>] = "none"
        BY <1>4 DEF Queue!Submit
    <2>5. outcome \in [Migrations -> {"none", "pending", "answered"}]
        BY DEF IInv, Typed
    <2>6. /\ outcome'[<<u, s>>] = "pending"
          /\ \A v \in Uploads, q \in Stores :
                 <<v, q>> # <<u, s>> => outcome'[<<v, q>>] = outcome[<<v, q>>]
          /\ outcome' \in [Migrations -> {"none", "pending", "answered"}]
        BY <1>1, <2>4, <2>5 DEF Migrations
    <2>7. /\ RunningApart' /\ BootOK' /\ AloneOK' /\ u \in Running
          /\ \A v \in Uploads, q \in Stores : VersionOf(v, q)' = VersionOf(v, q)
        BY <1>1, <2>1, <2>3, StaysThere
    <2>8. Typed'
        BY <1>1, <2>1, <2>3, <2>6, StaysThere DEF IInv, Typed
    <2>9. ASSUME NEW v \in Uploads PROVE Progress(v)'
        <3>1. CASE v # u
            BY <1>1, <2>3, <2>6, <3>1, OthersProgress DEF Moved, start
        <3>2. CASE v = u
            BY <1>1, <1>2, <2>1, <2>3, <2>6, <3>2 DEF Progress, Moved, Waits, Ended, start
        <3> QED
            BY <3>1, <3>2
    <2>10. Recorded'
        <3> SUFFICES ASSUME NEW m \in migrated, m[2] \notin processed,
                            NEW q \in Stores, upload[m[1]].store = {q},
                            outcome[<<m[1], q>>] = "answered", m[2] = VersionOf(m[1], q)
                     PROVE  /\ upload'[m[1]].store = {q} /\ outcome'[<<m[1], q>>] = "answered"
                            /\ m[2] = VersionOf(m[1], q)'
            BY <1>1 DEF IInv, MigrationsOK, Recorded
        <3>1. m[1] \in Uploads \ {u}
            BY <1>1 DEF IInv, Typed
        <3> QED
            BY <2>3, <2>6, <2>7, <3>1 DEF Moved
    <2>11. AwaitedIsUndone'
        <3> SUFFICES ASSUME NEW v \in Uploads, NEW w \in Uploads, NEW q \in Stores,
                            outcome'[<<v, q>>] = "pending", v # w, <<w, VersionOf(v, q)>> \in migrated
                     PROVE  {v, w} \subseteq overlapped
            BY <1>1, <2>7 DEF AwaitedIsUndone, history
        <3>1. CASE <<v, q>> # <<u, s>>
            BY <2>6, <3>1 DEF IInv, MigrationsOK, AwaitedIsUndone
        <3>2. CASE <<v, q>> = <<u, s>>
            <4> DEFINE m == <<w, VersionOf(u, s)>>
            <4>0. v = u /\ q = s
                BY <3>2
            <4>1. m \in migrated /\ m[1] = w /\ m[2] \notin processed
                BY <1>4, <4>0
            <4>2. \E p \in Stores : upload[w].store = {p}
                BY <4>1 DEF IInv, MigrationsOK, Recorded
            <4>3. w \in Running
                BY <4>2 DEF IInv, Progress, Running, Ended
            <4> QED
                BY <2>7, <4>0, <4>3 DEF IInv, RunningApart
        <3> QED
            BY <3>1, <3>2
    <2>12. MigratedTwiceOnlyIfOverlapped'
        BY <1>1 DEF IInv, MigrationsOK, MigratedTwiceOnlyIfOverlapped, history
    <2> QED
        BY <2>7, <2>8, <2>9, <2>10, <2>11, <2>12 DEF IInv, MigrationsOK
<1> QED
    BY <1>3, <1>4 DEF Migrate

LEMMA SetProcessedKeeps == ASSUME IInv, NEW u \in Uploads, SetProcessed(u) PROVE IInv'
<1> DEFINE r == [upload[u] EXCEPT !.store = {}]
<1>1. /\ upload' = [upload EXCEPT ![u] = r]
      /\ UNCHANGED <<files, start, heard, migrated, outcome, started, history>>
    BY DEF SetProcessed
<1>2. PICK s \in upload[u].store :
          /\ outcome[<<u, s>>] = "answered"
          /\ processed' = IF <<u, VersionOf(u, s)>> \in migrated
                          THEN processed \cup {VersionOf(u, s)} ELSE processed
    BY DEF SetProcessed
<1>3. /\ upload[u] \in UploadT /\ Progress(u) /\ upload[u].pc = "migrate"
      /\ s \in Stores /\ upload[u].store = {s}
    <2>1. upload[u] \in UploadT /\ Progress(u)
        BY DEF IInv, Typed
    <2>2. upload[u].store \in {{}} \cup {{q} : q \in Stores}
        BY <2>1 DEF UploadT
    <2> QED
        BY <1>2, <2>1, <2>2 DEF Progress
<1>4. r \in UploadT /\ Waits(u, r) /\ r.store = {}
    BY <1>3 DEF UploadT, Waits
<1> HIDE DEF r
<1>5. Moved(u, r)
    BY <1>1, <1>4, Moves
<1>6. /\ RunningApart' /\ BootOK' /\ AloneOK'
      /\ \A v \in Uploads, q \in Stores : VersionOf(v, q)' = VersionOf(v, q)
    BY <1>1, <1>3, <1>4, <1>5, StaysThere
<1>7. Typed'
    BY <1>1, <1>3, <1>4, <1>5, StaysThere DEF IInv, Typed
<1>8. \A q \in Stores : outcome[<<u, q>>] # "pending"
    <2>1. ASSUME NEW q \in Stores, outcome[<<u, q>>] = "pending" PROVE FALSE
        <3>1. upload[u].store = {q}
            BY <1>3, <2>1 DEF Progress
        <3>2. q = s
            BY <1>3, <3>1
        <3> QED
            BY <1>2, <2>1, <3>2
    <2> QED
        BY <2>1
<1>9. ASSUME NEW v \in Uploads PROVE Progress(v)'
    <2>1. CASE v # u
        BY <1>1, <1>5, <2>1, OthersProgress DEF Moved, start
    <2>2. CASE v = u
        BY <1>1, <1>3, <1>4, <1>5, <1>8, <2>2 DEF Progress, Moved, Waits, Ended, start
    <2> QED
        BY <2>1, <2>2
<1>10. Recorded'
    <2> SUFFICES ASSUME NEW m \in migrated, m[2] \notin processed'
                 PROVE  \E q \in Stores : /\ upload'[m[1]].store = {q}
                                          /\ outcome[<<m[1], q>>] = "answered"
                                          /\ m[2] = VersionOf(m[1], q)'
        BY <1>1 DEF Recorded
    <2>1. m = <<m[1], m[2]>> /\ m[1] \in Uploads /\ m[2] \notin processed
        BY <1>2 DEF IInv, Typed
    <2>2. PICK q \in Stores : /\ upload[m[1]].store = {q} /\ outcome[<<m[1], q>>] = "answered"
                              /\ m[2] = VersionOf(m[1], q)
        BY <2>1 DEF IInv, MigrationsOK, Recorded
    <2>3. m[1] # u
        <3> SUFFICES ASSUME m[1] = u PROVE FALSE
            OBVIOUS
        <3>1. q = s
            BY <1>3, <2>2
        <3>2. m = <<u, VersionOf(u, s)>>
            BY <2>1, <2>2, <3>1
        <3> QED
            BY <1>2, <2>2, <3>1, <3>2
    <2>4. upload'[m[1]] = upload[m[1]]
        BY <1>5, <2>1, <2>3 DEF Moved
    <2> QED
        BY <1>6, <2>1, <2>2, <2>4
<1>11. AwaitedIsUndone'
    BY <1>1, <1>6 DEF IInv, MigrationsOK, AwaitedIsUndone, history
<1>12. MigratedTwiceOnlyIfOverlapped'
    BY <1>1 DEF IInv, MigrationsOK, MigratedTwiceOnlyIfOverlapped, history
<1> QED
    BY <1>6, <1>7, <1>9, <1>10, <1>11, <1>12 DEF IInv, MigrationsOK

(* The worker has nothing to say about uploads, files and handlers. *)
LEMMA WorkerStays ==
    ASSUME IInv, UNCHANGED <<upload, files, start, heard, history>>
    PROVE  /\ RunningApart' /\ BootOK' /\ AloneOK'
           /\ \A v, s : VersionOf(v, s)' = VersionOf(v, s)
           /\ outcome' \in [Migrations -> {"none", "pending", "answered"}]
              /\ (\A m \in migrated' : m = <<m[1], m[2]>> /\ m[1] \in Uploads) => Typed'
           /\ overlapped' = overlapped
<1>1. UNCHANGED <<upload, config, disk, handlers, boot, cron, told, mounted, overlapped, last, crashes>>
    BY DEF files, start, heard, history
<1>2. Running' = Running
    BY <1>1 DEF Running
<1>3. \A v : Settled(v)' = Settled(v)
    BY <1>1 DEF Settled
<1>4. RunningApart' /\ AloneOK'
    BY <1>1, <1>2, <1>3 DEF IInv, RunningApart, AloneOK
<1>5. BootOK'
    BY <1>1 DEF IInv, BootOK
<1>6. \A v, s : VersionOf(v, s)' = VersionOf(v, s)
    BY <1>1 DEF VersionOf
<1>7. ASSUME outcome' \in [Migrations -> {"none", "pending", "answered"}],
             \A m \in migrated' : m = <<m[1], m[2]>> /\ m[1] \in Uploads
      PROVE  Typed'
    BY <1>1, <1>7 DEF IInv, Typed
<1> QED
    BY <1>1, <1>4, <1>5, <1>6, <1>7

LEMMA StartMigrationKeeps ==
    ASSUME IInv, NEW t \in Migrations, StartMigration(t)
    PROVE  IInv'
<1>1. UNCHANGED <<upload, files, start, heard, processed, migrated, outcome, history>>
    BY DEF StartMigration, Queue!Start
<1>2. /\ RunningApart' /\ BootOK' /\ AloneOK' /\ overlapped' = overlapped
      /\ \A v, s : VersionOf(v, s)' = VersionOf(v, s)
    BY <1>1, WorkerStays
<1>3. Typed'
    BY <1>1, WorkerStays DEF IInv, Typed
<1>4. \A v \in Uploads : Progress(v)'
    BY <1>1, OthersProgress DEF start
<1>5. Recorded'
    BY <1>1, <1>2 DEF IInv, MigrationsOK, Recorded
<1>6. AwaitedIsUndone'
    BY <1>1, <1>2 DEF IInv, MigrationsOK, AwaitedIsUndone
<1>7. MigratedTwiceOnlyIfOverlapped'
    BY <1>1, <1>2 DEF IInv, MigrationsOK, MigratedTwiceOnlyIfOverlapped
<1> QED
    BY <1>2, <1>3, <1>4, <1>5, <1>6, <1>7 DEF IInv, MigrationsOK

(* A migration that was waited for is done: nobody else has done it, and nobody else
   waits for it, but uploads next to this one. *)
LEMMA FinishMigrationKeeps ==
    ASSUME IInv, NEW t \in Migrations, FinishMigration(t)
    PROVE  IInv'
<1>1. PICK u \in Uploads, s \in Stores : t = <<u, s>>
    BY DEF Migrations
<1> DEFINE new == <<u, VersionOf(u, s)>>
<1>2. /\ outcome[<<u, s>>] = "pending" /\ outcome' = [outcome EXCEPT ![<<u, s>>] = "answered"]
      /\ UNCHANGED <<upload, files, start, heard, processed, history>>
      /\ migrated' \in {migrated, migrated \cup {new}}
    BY <1>1 DEF FinishMigration, Queue!Answer
<1>3. /\ outcome'[<<u, s>>] = "answered"
      /\ \A v \in Uploads, q \in Stores :
             <<v, q>> # <<u, s>> => outcome'[<<v, q>>] = outcome[<<v, q>>]
      /\ outcome' \in [Migrations -> {"none", "pending", "answered"}]
    BY <1>2 DEF IInv, Typed, Migrations
<1>4. upload[u].store = {s} /\ u \in Running
    BY <1>2 DEF IInv, Progress, Running, Ended
<1>5. new[1] = u /\ new[2] = VersionOf(u, s) /\ new = <<new[1], new[2]>>
    OBVIOUS
<1> HIDE DEF new
<1>6. /\ RunningApart' /\ BootOK' /\ AloneOK' /\ overlapped' = overlapped
      /\ \A v, q : VersionOf(v, q)' = VersionOf(v, q)
    BY <1>2, WorkerStays
<1>7. Typed'
    <2>1. \A m \in migrated' : m = <<m[1], m[2]>> /\ m[1] \in Uploads
        BY <1>2, <1>5 DEF IInv, Typed
    <2> QED
        BY <1>2, <1>3, <2>1, WorkerStays
<1>8. \A v \in Uploads : Progress(v)'
    <2> SUFFICES ASSUME NEW v \in Uploads PROVE Progress(v)'
        OBVIOUS
    <2>1. \A q \in Stores : outcome'[<<v, q>>] = "pending" => outcome[<<v, q>>] = "pending"
        BY <1>3
    <2> QED
        BY <1>2, <2>1, OthersProgress DEF start
<1>9. Recorded'
    <2> SUFFICES ASSUME NEW m \in migrated', m[2] \notin processed
                 PROVE  \E q \in Stores : /\ upload[m[1]].store = {q}
                                          /\ outcome'[<<m[1], q>>] = "answered"
                                          /\ m[2] = VersionOf(m[1], q)
        BY <1>2, <1>6 DEF Recorded
    <2>1. CASE m = new
        BY <1>3, <1>4, <1>5, <2>1
    <2>2. CASE m \in migrated
        <3>1. PICK q \in Stores : /\ upload[m[1]].store = {q} /\ outcome[<<m[1], q>>] = "answered"
                                  /\ m[2] = VersionOf(m[1], q)
            BY <2>2 DEF IInv, MigrationsOK, Recorded
        <3>2. m[1] \in Uploads /\ <<m[1], q>> # <<u, s>>
            BY <1>2, <2>2, <3>1 DEF IInv, Typed
        <3> QED
            BY <1>3, <3>1, <3>2
    <2> QED
        BY <1>2, <2>1, <2>2
<1>10. AwaitedIsUndone'
    <2> SUFFICES ASSUME NEW v \in Uploads, NEW w \in Uploads, NEW q \in Stores,
                        outcome'[<<v, q>>] = "pending", v # w, <<w, VersionOf(v, q)>> \in migrated'
                 PROVE  {v, w} \subseteq overlapped
        BY <1>6 DEF AwaitedIsUndone
    <2>1. outcome[<<v, q>>] = "pending"
        BY <1>3
    <2>2. CASE <<w, VersionOf(v, q)>> \in migrated
        BY <2>1, <2>2 DEF IInv, MigrationsOK, AwaitedIsUndone
    <2>3. CASE <<w, VersionOf(v, q)>> = new
        <3>1. w = u
            BY <1>5, <2>3
        <3>2. v \in Running
            BY <2>1 DEF IInv, Progress, Running, Ended
        <3> QED
            BY <1>4, <3>1, <3>2 DEF IInv, RunningApart
    <2> QED
        BY <1>2, <2>2, <2>3
<1>11. MigratedTwiceOnlyIfOverlapped'
    <2>1. ASSUME NEW m \in migrated, m[2] = new[2], m # new PROVE {m[1], u} \subseteq overlapped
        <3>1. m = <<m[1], VersionOf(u, s)>> /\ m[1] \in Uploads
            BY <1>5, <2>1 DEF IInv, Typed
        <3>2. m[1] # u
            BY <2>1, <3>1 DEF new
        <3>3. <<m[1], VersionOf(u, s)>> \in migrated
            BY <3>1
        <3> QED
            BY <1>2, <3>1, <3>2, <3>3 DEF IInv, MigrationsOK, AwaitedIsUndone
    <2>2. \A m, n \in migrated : m[2] = n[2] /\ m # n => {m[1], n[1]} \subseteq overlapped
        BY DEF IInv, MigrationsOK, MigratedTwiceOnlyIfOverlapped
    <2> QED
        BY <1>2, <1>5, <1>6, <2>1, <2>2 DEF MigratedTwiceOnlyIfOverlapped
<1> QED
    BY <1>6, <1>7, <1>8, <1>9, <1>10, <1>11 DEF IInv, MigrationsOK

----
(* The start of the servers. *)

LEMMA BootStays ==
    ASSUME IInv, UNCHANGED <<upload, config, disk, cron, told, migrations, history>>,
           handlers' \in Orders, boot' \in [Servers -> BootT], mounted' \subseteq Stores,
           boot["intranet"].at = "up" => boot'["intranet"].at = "up",
           boot["intranet"].at = "up" =>
               ("intranet" \in Range(handlers') => "intranet" \in Range(handlers)),
           BootOK'
    PROVE  IInv'
<1>1. UNCHANGED <<upload, processed, migrated, outcome, overlapped, last, crashes>>
    BY DEF migrations, history
<1>2. Typed'
    BY <1>1 DEF IInv, Typed
<1>3. \A v \in Uploads : Progress(v)'
    BY <1>1, OthersProgress
<1>4. Running' = Running
    BY <1>1 DEF Running
<1>5. RunningApart'
    BY <1>1, <1>4 DEF IInv, RunningApart
<1>6. MigrationsOK'
    <2>1. \A v, s : VersionOf(v, s)' = VersionOf(v, s)
        BY <1>1 DEF VersionOf
    <2>2. Recorded'
        BY <1>1, <2>1 DEF IInv, MigrationsOK, Recorded
    <2>3. AwaitedIsUndone'
        BY <1>1, <2>1 DEF IInv, MigrationsOK, AwaitedIsUndone
    <2>4. MigratedTwiceOnlyIfOverlapped'
        BY <1>1 DEF IInv, MigrationsOK, MigratedTwiceOnlyIfOverlapped
    <2> QED
        BY <2>2, <2>3, <2>4 DEF MigrationsOK
<1>7. ASSUME NEW u \in Uploads, Settled(u) PROVE Settled(u)'
    <2>1. upload[u].pc \in {"handlers", "migrate"} => boot["intranet"].at = "up"
        BY DEF IInv, Progress, Ended
    <2> QED
        BY <1>1, <1>7, <2>1 DEF Settled
<1>8. AloneOK'
    BY <1>1, <1>4, <1>7 DEF IInv, AloneOK
<1> QED
    BY <1>2, <1>3, <1>5, <1>6, <1>8 DEF IInv

LEMMA BuildRoutesKeeps == ASSUME IInv, BuildRoutes PROVE IInv'
<1>1. /\ boot["internet"].at = "new" /\ boot' = [boot EXCEPT !["internet"].at = "ready"]
      /\ mounted' = DOMAIN Version[config] /\ handlers' = handlers
      /\ UNCHANGED <<upload, config, disk, cron, told, migrations, history>>
    BY DEF BuildRoutes, files
<1>2. /\ handlers \in Orders /\ boot \in [Servers -> BootT] /\ "internet" \in Servers
      /\ mounted' \subseteq Stores
    BY <1>1, ConfigAssumption DEF IInv, Typed, Servers
<1>3. /\ boot' \in [Servers -> BootT] /\ boot'["internet"].at = "ready"
      /\ \A g \in Servers \ {"internet"} : boot'[g] = boot[g]
    BY <1>1, <1>2 DEF BootT
<1>4. BootOK'
    <2>1. \A g \in Servers : boot[g].at = "up" => boot'[g].at = "up"
        BY <1>1, <1>3
    <2>2. \A g \in Servers : boot'[g].at = "append" => boot[g].at = "append" /\ boot'[g].saw = boot[g].saw
        BY <1>3
    <2>3. boot'["intranet"].at = "up" => boot["intranet"].at = "up"
        BY <1>3 DEF Servers
    <2> QED
        BY <1>1, <1>2, <2>1, <2>2, <2>3 DEF IInv, BootOK
<1>5. boot["intranet"].at = "up" => boot'["intranet"].at = "up"
    BY <1>3 DEF Servers
<1> QED
    BY <1>1, <1>2, <1>3, <1>4, <1>5, BootStays

(* Who is in the slice that a server reads has finished appending. *)
LEMMA ReadHandlersKeeps == ASSUME IInv, NEW g \in Servers, ReadHandlers(g) PROVE IInv'
<1>1. /\ boot[g].at = "ready" /\ handlers' = handlers /\ mounted' = mounted
      /\ boot' = [boot EXCEPT ![g] = [at |-> "append", saw |-> handlers]]
      /\ UNCHANGED <<upload, config, disk, cron, told, migrations, history>>
    BY DEF ReadHandlers, files, heard
<1>2. handlers \in Orders /\ boot \in [Servers -> BootT] /\ mounted \subseteq Stores
    BY DEF IInv, Typed
<1>3. /\ boot' \in [Servers -> BootT] /\ boot'[g].at = "append" /\ boot'[g].saw = handlers
      /\ \A h \in Servers \ {g} : boot'[h] = boot[h]
    <2>1. [at |-> "append", saw |-> handlers] \in BootT
        BY <1>2 DEF BootT
    <2> QED
        BY <1>1, <1>2, <2>1
<1>4. \A h \in Servers : boot'[h].at = "up" <=> boot[h].at = "up"
    BY <1>1, <1>3
<1>5. BootOK'
    <2>1. ASSUME NEW h \in Servers PROVE h \in Range(handlers) => boot'[h].at = "up"
        BY <1>4 DEF IInv, BootOK
    <2>2. ASSUME NEW f \in Servers, boot'[f].at = "append", NEW h \in Servers \cap Range(boot'[f].saw)
          PROVE  h # f /\ boot'[h].at = "up"
        <3>1. CASE f = g
            BY <1>1, <1>3, <1>4, <2>1, <2>2, <3>1
        <3>2. CASE f # g
            BY <1>3, <1>4, <2>2, <3>2 DEF IInv, BootOK
        <3> QED
            BY <3>1, <3>2
    <2>3. "intranet" \in Servers /\ "internet" \in Servers
        BY DEF Servers
    <2> QED
        BY <1>1, <1>4, <2>1, <2>2, <2>3 DEF IInv, BootOK
<1>6. boot["intranet"].at = "up" => boot'["intranet"].at = "up"
    BY <1>4 DEF Servers
<1> QED
    BY <1>1, <1>2, <1>3, <1>5, <1>6, BootStays

LEMMA RangeAppend ==
    ASSUME NEW S, NEW q \in Seq(S), NEW x \in S
    PROVE  Range(Append(q, x)) = Range(q) \cup {x}
<1> DEFINE a == Append(q, x)
<1>1. /\ DOMAIN q = 1..Len(q) /\ DOMAIN a = 1..(Len(q) + 1) /\ Len(q) \in Nat
      /\ \A i \in 1..Len(q) : a[i] = q[i]
      /\ a[Len(q) + 1] = x
    BY AppendProperties, LenProperties
<1> HIDE DEF a
<1>2. Range(a) \subseteq Range(q) \cup {x}
    <2> SUFFICES ASSUME NEW i \in DOMAIN a PROVE a[i] \in Range(q) \cup {x}
        BY DEF Range
    <2>1. CASE i \in DOMAIN q
        BY <1>1, <2>1 DEF Range
    <2>2. CASE i = Len(q) + 1
        BY <1>1, <2>2
    <2> QED
        BY <1>1, <2>1, <2>2
<1>3. Range(q) \subseteq Range(a) /\ x \in Range(a)
    BY <1>1 DEF Range
<1> QED
    BY <1>2, <1>3 DEF a

LEMMA AppendPair ==
    ASSUME NEW S, NEW a \in S, NEW b \in S
    PROVE  Append(<<a>>, b) = <<a, b>>
<1> DEFINE p == Append(<<a>>, b)
           q == <<a, b>>
<1>1. /\ <<a>> \in Seq(S) /\ Len(<<a>>) = 1 /\ <<a>>[1] = a
      /\ q \in Seq(S) /\ Len(q) = 2 /\ q[1] = a /\ q[2] = b
    OBVIOUS
<1>2. p \in Seq(S) /\ Len(p) = 2 /\ p[1] = a /\ p[2] = b
    BY <1>1, AppendProperties
<1> HIDE DEF p, q
<1>3. p = q
    BY <1>1, <1>2, SeqEqual
<1> QED
    BY <1>3 DEF p, q

LEMMA AppendTriple ==
    ASSUME NEW S, NEW a \in S, NEW b \in S, NEW c \in S
    PROVE  Append(<<a, b>>, c) = <<a, b, c>>
<1> DEFINE p == Append(<<a, b>>, c)
           q == <<a, b, c>>
<1>1. /\ <<a, b>> \in Seq(S) /\ Len(<<a, b>>) = 2 /\ <<a, b>>[1] = a /\ <<a, b>>[2] = b
      /\ q \in Seq(S) /\ Len(q) = 3 /\ q[1] = a /\ q[2] = b /\ q[3] = c
    OBVIOUS
<1>2. p \in Seq(S) /\ Len(p) = 3 /\ p[1] = a /\ p[2] = b /\ p[3] = c
    BY <1>1, AppendProperties
<1> HIDE DEF p, q
<1>3. p = q
    BY <1>1, <1>2, SeqEqual
<1> QED
    BY <1>3 DEF p, q

LEMMA AppendServer ==
    ASSUME NEW o \in Orders, NEW g \in Servers, g \notin Range(o)
    PROVE  Append(o, g) \in Orders /\ Range(Append(o, g)) = Range(o) \cup {g}
<1>1. Range(Append(o, g)) = Range(o) \cup {g}
    BY OrderIs, RangeAppend DEF Servers, Names
<1>n. {"scheduler", "internet", "intranet", g} \subseteq Names
    BY DEF Names, Servers
<1>2. CASE o = <<"scheduler">>
    <2>1. Append(o, g) = <<"scheduler", g>>
        BY <1>2, <1>n, AppendPair
    <2> QED
        BY <1>1, <2>1 DEF Orders, Servers
<1>3. CASE o = <<"scheduler", "internet">>
    <2>1. Append(o, g) = <<"scheduler", "internet", g>>
        BY <1>3, <1>n, AppendTriple
    <2>2. o[2] \in Range(o) /\ o[2] = "internet"
        BY <1>3 DEF Range
    <2> QED
        BY <1>1, <2>1, <2>2 DEF Orders, Servers
<1>4. CASE o = <<"scheduler", "intranet">>
    <2>1. Append(o, g) = <<"scheduler", "intranet", g>>
        BY <1>4, <1>n, AppendTriple
    <2>2. o[2] \in Range(o) /\ o[2] = "intranet"
        BY <1>4 DEF Range
    <2> QED
        BY <1>1, <2>1, <2>2 DEF Orders, Servers
<1>5. CASE o = <<"scheduler", "internet", "intranet">> \/ o = <<"scheduler", "intranet", "internet">>
    <2>1. {o[2], o[3]} \subseteq Range(o) /\ {o[2], o[3]} = Servers
        BY <1>5 DEF Range, Servers
    <2> QED
        BY <2>1
<1> QED
    BY <1>2, <1>3, <1>4, <1>5 DEF Orders

(* What a server appends to may be what the other one has replaced meanwhile. *)
LEMMA OnUpdateKeeps == ASSUME IInv, NEW g \in Servers, OnUpdate(g) PROVE IInv'
<1>1. /\ boot[g].at = "append" /\ handlers' = Append(boot[g].saw, g) /\ mounted' = mounted
      /\ boot' = [boot EXCEPT ![g].at = "up"]
      /\ UNCHANGED <<upload, config, disk, cron, told, migrations, history>>
    BY DEF OnUpdate, files, heard
<1>2. boot \in [Servers -> BootT] /\ boot[g].saw \in Orders /\ mounted \subseteq Stores
    BY DEF IInv, Typed, BootT
<1>3. \A h \in Servers \cap Range(boot[g].saw) : h # g /\ boot[h].at = "up"
    BY <1>1 DEF IInv, BootOK
<1>4. handlers' \in Orders /\ Range(handlers') = Range(boot[g].saw) \cup {g}
    BY <1>1, <1>2, <1>3, AppendServer
<1>5. /\ boot' \in [Servers -> BootT] /\ boot'[g].at = "up" /\ boot'[g].saw = boot[g].saw
      /\ \A h \in Servers \ {g} : boot'[h] = boot[h]
    BY <1>1, <1>2 DEF BootT
<1>6. \A h \in Servers : boot[h].at = "up" => boot'[h].at = "up"
    BY <1>5
<1>7. "intranet" \in Servers /\ "internet" \in Servers /\ Servers = {"intranet", "internet"}
    BY DEF Servers
<1>8. boot["intranet"].at = "up" => g = "internet" /\ "intranet" \in Range(handlers)
    <2> SUFFICES ASSUME boot["intranet"].at = "up"
                 PROVE  g = "internet" /\ "intranet" \in Range(handlers)
        OBVIOUS
    <2>1. g = "internet" /\ boot["internet"].at # "up"
        BY <1>1, <1>7
    <2> QED
        BY <2>1 DEF IInv, BootOK
<1>9. BootOK'
    <2>1. ASSUME NEW h \in Servers PROVE h \in Range(handlers') => boot'[h].at = "up"
        BY <1>3, <1>4, <1>5, <1>6
    <2>2. ASSUME NEW f \in Servers, boot'[f].at = "append", NEW h \in Servers \cap Range(boot'[f].saw)
          PROVE  h # f /\ boot'[h].at = "up"
        <3>1. f # g /\ boot'[f] = boot[f]
            BY <1>5, <2>2
        <3> QED
            BY <1>6, <2>2, <3>1 DEF IInv, BootOK
    <2>3. CASE g = "internet"
        BY <1>5, <2>1, <2>2, <2>3 DEF BootOK
    <2>4. CASE g = "intranet"
        BY <1>4, <2>1, <2>2, <2>4 DEF BootOK
    <2> QED
        BY <1>7, <2>3, <2>4
<1>10. boot["intranet"].at = "up" => boot'["intranet"].at = "up"
    BY <1>6, <1>7
<1> QED
    BY <1>1, <1>2, <1>4, <1>5, <1>8, <1>9, <1>10, BootStays

(* Whatever the restart comes upon, no upload runs afterwards; the one that ran alone
   and was through is what config.json has, if it could be written. *)
LEMMA RestartKeeps == ASSUME IInv, Restart PROVE IInv'
<1>1. /\ crashes' = crashes + 1 /\ config' = disk /\ cron' = disk
      /\ upload' = [u \in Uploads |-> IF u \in Running
                                      THEN [NewUpload EXCEPT !.pc = "lost"] ELSE upload[u]]
      /\ handlers' = <<"scheduler">> /\ boot' = Boot
      /\ told' = Empty /\ mounted' = {} /\ processed' = {} /\ migrated' = {}
      /\ outcome' = [t \in Migrations |-> "none"]
      /\ UNCHANGED <<disk, overlapped, last>>
    BY DEF Restart
<1> DEFINE lost == [NewUpload EXCEPT !.pc = "lost"]
<1>2. /\ <<"scheduler">> \in Orders /\ <<>> \in Rests /\ Range(<<"scheduler">>) = {"scheduler"}
    <2>1. <<"scheduler">> \in Orders
        BY DEF Orders
    <2>2. Tail(<<"scheduler">>) = <<>>
        BY Tuples DEF Names
    <2>3. <<>> \in {Tail(o) : o \in Orders}
        BY <2>1, <2>2
    <2> QED
        BY <2>1, <2>3 DEF Rests, Range
<1>3. /\ lost \in UploadT /\ lost.pc = "lost" /\ lost.store = {} /\ lost.saved = FALSE
    BY <1>2 DEF NewUpload, UploadT, Steps, Ended, Configs
<1>4. \A u \in Uploads : IF u \in Running THEN upload'[u] = lost ELSE upload'[u] = upload[u]
    BY <1>1
<1> HIDE DEF lost
<1>5. upload' \in [Uploads -> UploadT]
    BY <1>1, <1>3 DEF IInv, Typed, lost
<1>6. Running' = {}
    BY <1>3, <1>4 DEF Running, Ended
<1>7. Typed'
    <2>1. boot' \in [Servers -> BootT]
        BY <1>1, <1>2 DEF Boot, BootT
    <2>2. crashes' \in Nat
        BY <1>1 DEF IInv, Typed
    <2> QED
        BY <1>1, <1>2, <1>5, <2>1, <2>2 DEF IInv, Typed, Configs
<1>8. \A v \in Uploads : Progress(v)'
    <2> SUFFICES ASSUME NEW v \in Uploads PROVE Progress(v)'
        OBVIOUS
    <2>1. \A s \in Stores : outcome'[<<v, s>>] = "none"
        BY <1>1 DEF Migrations
    <2>2. CASE v \in Running
        BY <1>3, <1>4, <2>1, <2>2 DEF Progress, Ended
    <2>3. CASE v \notin Running
        BY <1>4, <2>1, <2>3 DEF IInv, Progress, Running, Ended
    <2> QED
        BY <2>2, <2>3
<1>9. RunningApart'
    BY <1>6 DEF RunningApart
<1>10. BootOK'
    <2>1. \A g \in Servers : boot'[g].at \in {"new", "ready"} /\ g \notin Range(handlers')
        BY <1>1, <1>2 DEF Boot, Servers
    <2> QED
        BY <2>1 DEF BootOK, Servers
<1>11. MigrationsOK'
    BY <1>1 DEF MigrationsOK, Recorded, AwaitedIsUndone, MigratedTwiceOnlyIfOverlapped
<1>12. AloneOK'
    <2> SUFFICES ASSUME NEW u \in Uploads \ overlapped, u = last PROVE Settled(u)'
        BY <1>1, <1>6 DEF AloneOK
    <2>1. Settled(u)
        BY DEF IInv, AloneOK
    <2>2. crashes' > 0
        BY <1>1 DEF IInv, Typed
    <2>3. CASE u \in Running
        BY <1>3, <1>4, <2>3 DEF Settled
    <2>4. CASE u \notin Running
        <3>1. upload'[u] = upload[u] /\ upload[u].pc \in Ended
            BY <1>4, <2>4 DEF Running
        <3> QED
            BY <1>1, <2>1, <2>2, <3>1 DEF Settled, Ended
    <2> QED
        BY <2>3, <2>4
<1> QED
    BY <1>7, <1>8, <1>9, <1>10, <1>11, <1>12 DEF IInv

----
LEMMA ReloadKeeps == ASSUME IInv, NEW u \in Uploads, Reload(u) PROVE IInv'
BY PostConfigHandlerKeeps, TruncateFileKeeps, WriteFileKeeps, SetConfigKeeps, UpdatedKeeps,
   SchedulerHandlerKeeps, InternetHandlerKeeps, IntranetHandlerKeeps, MigrateKeeps,
   SetProcessedKeeps, MigratedKeeps, UpdateDoneKeeps DEF Reload

LEMMA NextKeeps == ASSUME IInv, [Next]_vars PROVE IInv'
<1>1. CASE BuildRoutes
    BY <1>1, BuildRoutesKeeps
<1>2. CASE \E g \in Servers : ReadHandlers(g) \/ OnUpdate(g)
    BY <1>2, ReadHandlersKeeps, OnUpdateKeeps
<1>3. CASE \E u \in Uploads : Reload(u)
    BY <1>3, ReloadKeeps
<1>4. CASE \E t \in Migrations : StartMigration(t) \/ FinishMigration(t)
    BY <1>4, StartMigrationKeeps, FinishMigrationKeeps
<1>5. CASE Restart
    BY <1>5, RestartKeeps
<1>6. CASE UNCHANGED vars
    <2>1. UNCHANGED <<upload, files, start, heard, migrations, history>>
        BY <1>6 DEF vars
    <2>2. /\ RunningApart' /\ BootOK' /\ AloneOK' /\ overlapped' = overlapped
          /\ \A v, s : VersionOf(v, s)' = VersionOf(v, s)
        BY <2>1, WorkerStays
    <2>3. UNCHANGED <<processed, migrated, outcome>>
        BY <2>1 DEF migrations
    <2>4. Typed'
        BY <2>1, <2>3, WorkerStays DEF IInv, Typed
    <2>5. \A v \in Uploads : Progress(v)'
        BY <2>1, <2>3, OthersProgress DEF start
    <2>6. Recorded'
        BY <2>1, <2>2, <2>3 DEF IInv, MigrationsOK, Recorded
    <2>7. AwaitedIsUndone'
        BY <2>1, <2>2, <2>3 DEF IInv, MigrationsOK, AwaitedIsUndone
    <2>8. MigratedTwiceOnlyIfOverlapped'
        BY <2>2, <2>3 DEF IInv, MigrationsOK, MigratedTwiceOnlyIfOverlapped
    <2> QED
        BY <2>2, <2>4, <2>5, <2>6, <2>7, <2>8 DEF IInv, MigrationsOK
<1> QED
    BY <1>1, <1>2, <1>3, <1>4, <1>5, <1>6 DEF Next

(* The invariant holds of every state of the program. *)
THEOREM Invariance == Spec => []IInv
<1>1. Init => IInv
    BY InitEstablishes
<1>2. IInv /\ [Next]_vars => IInv'
    BY NextKeeps
<1> QED
    BY <1>1, <1>2, PTL DEF Spec

(* Every variable has its type, and a migration is in the queue only while its upload
   waits for it. *)
THEOREM TypeCorrect == Spec => []TypeOK
BY Invariance, InvImplies, PTL

(* A configuration that was uploaded alone is installed when its upload is through, and
   stays so: in the process, in config.json, in the scheduler, with the workers. *)
THEOREM AloneInstalled == Spec => []AloneIsInstalled
BY Invariance, InvImplies, PTL

(* Only uploads that ran next to each other can do a migration twice, in one life of the
   process, although nothing makes the look at the version and its record atomic. *)
THEOREM MigratedByOverlap == Spec => []MigratedTwiceOnlyIfOverlapped
BY Invariance, InvImplies, PTL

----
(* A store that an upload has gone through is not gone through again: the handlers have
   the intranet's once. *)
Past(u, s) ==
    \/ upload[u].pc = "migrate" /\ s \notin upload[u].stores
    \/ upload[u].pc = "handlers" /\ "intranet" \notin Range(upload[u].left)
    \/ upload[u].pc \in {"panicked", "done"}

LEMMA IntranetOnce ==
    ASSUME NEW o \in Rests, o # <<>>, Head(o) = "intranet"
    PROVE  "intranet" \notin Range(Tail(o))
<1>1. o \notin Orders
    BY OrderIs
<1>2. {"intranet", "internet"} \subseteq Names
    BY DEF Names
<1>3. CASE o = <<"intranet">>
    BY <1>2, <1>3, Tuples DEF Range
<1>4. CASE o = <<"intranet", "internet">>
    <2>1. Tail(o) = <<"internet">>
        BY <1>2, <1>4, Tuples
    <2>2. \A i \in DOMAIN <<"internet">> : <<"internet">>[i] = "internet"
        OBVIOUS
    <2> QED
        BY <2>1, <2>2 DEF Range
<1>5. CASE o = <<"internet">> \/ o = <<"internet", "intranet">>
    BY <1>2, <1>5, Tuples
<1> QED
    BY <1>1, <1>3, <1>4, <1>5, RestIs

LEMMA PastStays ==
    ASSUME IInv, NEW v \in Uploads, Reload(v), NEW u \in Uploads, NEW s \in Stores, Past(u, s)
    PROVE  Past(u, s)'
<1> DEFINE w == upload[u]
<1>1. upload \in [Uploads -> UploadT] /\ w \in UploadT /\ w.left \in Rests
    BY DEF IInv, Typed, UploadT
<1>2. Reload(v) => v = u \/ upload'[u] = upload[u]
    <2>1. ASSUME NEW pc, Goto(v, pc) PROVE v = u \/ upload'[u] = upload[u]
        BY <1>1, <2>1 DEF Goto
    <2>2. CASE PostConfigHandler(v) \/ TruncateFile(v) \/ SetConfig(v) \/ UpdateDone(v)
        BY <2>1, <2>2 DEF PostConfigHandler, TruncateFile, SetConfig, UpdateDone
    <2>3. CASE WriteFile(v) \/ InternetHandler(v)
        BY <1>1, <2>1, <2>3 DEF WriteFile, InternetHandler
    <2>4. CASE Updated(v) \/ SchedulerHandler(v) \/ IntranetHandler(v)
        BY <1>1, <2>4 DEF Updated, SchedulerHandler, IntranetHandler
    <2>5. CASE (\E x \in Stores : Migrate(v, x)) \/ SetProcessed(v) \/ Migrated(v)
        BY <1>1, <2>5 DEF Migrate, SetProcessed, Migrated
    <2> QED
        BY <2>2, <2>3, <2>4, <2>5 DEF Reload
<1>3. CASE upload'[u] = upload[u]
    BY <1>3 DEF Past
<1>4. CASE v = u
    <2>1. CASE w.pc \in {"panicked", "done"}
        <3>1. ~Reload(u)
            BY <2>1 DEF Reload, At, Next1, PostConfigHandler, TruncateFile, WriteFile, SetConfig,
               Updated, SchedulerHandler, InternetHandler, IntranetHandler, Migrate, SetProcessed,
               Migrated, UpdateDone, IInv, Progress
        <3> QED
            BY <1>4, <3>1
    <2>2. CASE w.pc = "handlers" /\ "intranet" \notin Range(w.left)
        <3>1. ASSUME w.left # <<>> PROVE Range(Rest(u)) \subseteq Range(w.left) /\ Head(w.left) \in Range(w.left)
            BY <1>1, <3>1, RestTail DEF Rest
        <3>2. w.store = {}
            BY <2>2 DEF IInv, Progress
        <3>3. CASE SchedulerHandler(u)
            <4>1. upload' = [upload EXCEPT ![u].left = Rest(u)] /\ w.left # <<>>
                BY <3>3 DEF SchedulerHandler, Next1
            <4>2. upload'[u].pc = w.pc /\ upload'[u].left = Rest(u)
                BY <1>1, <4>1 DEF UploadT
            <4> QED
                BY <2>2, <3>1, <4>1, <4>2 DEF Past
        <3>4. CASE InternetHandler(u)
            <4>1. w.left # <<>> /\ (\/ upload' = [upload EXCEPT ![u].left = Rest(u)]
                                    \/ upload' = [upload EXCEPT ![u].pc = "panicked"])
                BY <3>4 DEF InternetHandler, Next1, Goto
            <4>2. \/ upload'[u].pc = w.pc /\ upload'[u].left = Rest(u)
                  \/ upload'[u].pc = "panicked"
                BY <1>1, <4>1 DEF UploadT
            <4> QED
                BY <2>2, <3>1, <4>1, <4>2 DEF Past
        <3>5. CASE UpdateDone(u)
            <4>1. upload'[u].pc = "done"
                BY <1>1, <3>5 DEF UpdateDone, Goto, UploadT
            <4> QED
                BY <4>1 DEF Past
        <3>6. ~IntranetHandler(u)
            BY <2>2, <3>1 DEF IntranetHandler, Next1
        <3> QED
            BY <1>4, <2>2, <3>2, <3>3, <3>4, <3>5, <3>6
               DEF Reload, At, PostConfigHandler, TruncateFile, WriteFile, SetConfig, Updated,
                   Migrate, SetProcessed, Migrated
    <2>3. CASE w.pc = "migrate" /\ s \notin w.stores
        <3>1. CASE Migrated(u)
            <4>1. w.left # <<>> /\ Head(w.left) = "intranet"
                BY <2>3 DEF IInv, Progress
            <4>2. upload'[u].pc = "handlers" /\ upload'[u].left = Tail(w.left)
                BY <1>1, <3>1 DEF Migrated, Rest, UploadT
            <4> QED
                BY <1>1, <4>1, <4>2, IntranetOnce DEF Past
        <3>2. ASSUME NEW x \in Stores, Migrate(u, x) PROVE Past(u, s)'
            <4>1. \/ upload' = [upload EXCEPT ![u].stores = @ \ {x}]
                  \/ upload' = [upload EXCEPT ![u].stores = @ \ {x}, ![u].store = {x}]
                BY <3>2 DEF Migrate
            <4>2. upload'[u].pc = w.pc /\ upload'[u].stores = w.stores \ {x}
                BY <1>1, <4>1 DEF UploadT
            <4> QED
                BY <2>3, <4>2 DEF Past
        <3>3. CASE SetProcessed(u)
            <4>1. upload'[u].pc = w.pc /\ upload'[u].stores = w.stores
                BY <1>1, <3>3 DEF SetProcessed, UploadT
            <4> QED
                BY <2>3, <4>1 DEF Past
        <3> QED
            BY <1>4, <2>3, <3>1, <3>2, <3>3
               DEF Reload, At, Next1, PostConfigHandler, TruncateFile, WriteFile, SetConfig, Updated,
                   SchedulerHandler, InternetHandler, IntranetHandler, UpdateDone
    <2> HIDE DEF w
    <2> QED
        BY <2>1, <2>2, <2>3 DEF Past, w
<1> QED
    BY <1>2, <1>3, <1>4

LEMMA OnlyMigratePushes ==
    ASSUME IInv, Next, NEW u \in Uploads, NEW s \in Stores, outcome[<<u, s>>] = "none",
           outcome'[<<u, s>>] # "none"
    PROVE  Migrate(u, s) /\ Past(u, s)'
<1>1. outcome \in [Migrations -> {"none", "pending", "answered"}] /\ <<u, s>> \in Migrations
    BY DEF IInv, Typed, Migrations
<1>2. outcome' # outcome
    OBVIOUS
<1>3. ASSUME NEW v \in Uploads, NEW x \in Stores, Migrate(v, x) PROVE v = u /\ x = s
    <2>1. <<v, x>> \in Migrations /\ Queue!Submit(<<v, x>>)
        BY <1>2, <1>3 DEF Migrate, Migrations
    <2> QED
        BY <1>1, <2>1 DEF Queue!Submit
<1>4. ASSUME NEW v \in Uploads, Reload(v) PROVE Migrate(u, s)
    BY <1>2, <1>3, <1>4
       DEF Reload, PostConfigHandler, TruncateFile, WriteFile, SetConfig, Updated, SchedulerHandler,
           InternetHandler, IntranetHandler, SetProcessed, Migrated, UpdateDone, migrations
<1>5. ~BuildRoutes /\ \A g \in Servers : ~ReadHandlers(g) /\ ~OnUpdate(g)
    BY <1>2 DEF BuildRoutes, ReadHandlers, OnUpdate, migrations
<1>6. \A t \in Migrations : ~StartMigration(t) /\ ~FinishMigration(t)
    <2> SUFFICES ASSUME NEW t \in Migrations, StartMigration(t) \/ FinishMigration(t) PROVE FALSE
        OBVIOUS
    <2> QED
        BY <1>1 DEF StartMigration, FinishMigration, Queue!Start, Queue!Answer
<1>7. ~Restart
    BY <1>1 DEF Restart
<1>8. Migrate(u, s)
    BY <1>4, <1>5, <1>6, <1>7 DEF Next
<1>9. upload[u] \in UploadT /\ upload[u].pc = "migrate"
    BY <1>8 DEF IInv, Typed, Migrate, At
<1>10. upload' = [upload EXCEPT ![u].stores = @ \ {s}, ![u].store = {s}]
    BY <1>2, <1>8 DEF Migrate
<1>11. upload'[u].pc = "migrate" /\ upload'[u].stores = upload[u].stores \ {s}
    BY <1>9, <1>10 DEF IInv, Typed, UploadT
<1> QED
    BY <1>8, <1>11 DEF Past

PushedIsPast == \A u \in Uploads : \A s \in Stores : outcome[<<u, s>>] # "none" => Past(u, s)

LEMMA PushedStep == IInv /\ PushedIsPast /\ [Next]_vars => PushedIsPast'
<1> SUFFICES ASSUME IInv, PushedIsPast, [Next]_vars, NEW u \in Uploads, NEW s \in Stores,
                    outcome'[<<u, s>>] # "none"
             PROVE  Past(u, s)'
    BY DEF PushedIsPast
<1>1. ASSUME UNCHANGED upload, Past(u, s) PROVE Past(u, s)'
    BY <1>1 DEF Past
<1>2. CASE UNCHANGED vars
    <2>1. UNCHANGED <<upload, outcome>>
        BY <1>2 DEF vars, migrations
    <2> QED
        BY <1>1, <2>1 DEF PushedIsPast
<1>3. CASE Next /\ outcome[<<u, s>>] = "none"
    BY <1>3, OnlyMigratePushes
<1>4. CASE Next /\ outcome[<<u, s>>] # "none"
    <2>1. Past(u, s)
        BY <1>4 DEF PushedIsPast
    <2>2. ~Restart
        BY DEF Restart, Migrations
    <2>3. ASSUME NEW v \in Uploads, Reload(v) PROVE Past(u, s)'
        BY <2>1, <2>3, PastStays
    <2>4. ASSUME BuildRoutes \/ (\E g \in Servers : ReadHandlers(g) \/ OnUpdate(g))
                 \/ (\E t \in Migrations : StartMigration(t) \/ FinishMigration(t))
          PROVE  UNCHANGED upload
        BY <2>4 DEF BuildRoutes, ReadHandlers, OnUpdate, StartMigration, FinishMigration
    <2> QED
        BY <1>1, <1>4, <2>1, <2>2, <2>3, <2>4 DEF Next
<1> QED
    BY <1>2, <1>3, <1>4

(* No migration of an upload is pushed twice in one life of the process: what Migrate gives
   to the queue is new, so the promise of TaskService, which is about tasks submitted once,
   covers all of them and keeps none from being submitted. *)
SubmissionsAreNew ==
    \A u \in Uploads : \A s \in upload[u].stores : At(u, "migrate") => outcome[<<u, s>>] = "none"

THEOREM SubmitsOnce == Spec => []SubmissionsAreNew
<1>1. Init => PushedIsPast
    BY DEF Init, Queue!Init, PushedIsPast, Migrations
<1>2. IInv /\ PushedIsPast => SubmissionsAreNew
    <2> SUFFICES ASSUME IInv, PushedIsPast, NEW u \in Uploads, NEW s \in upload[u].stores,
                        upload[u].pc = "migrate"
                 PROVE  outcome[<<u, s>>] = "none"
        BY DEF SubmissionsAreNew, At
    <2>1. s \in Stores
        BY DEF IInv, Typed, UploadT
    <2> QED
        BY <2>1 DEF PushedIsPast, Past
<1> QED
    BY <1>1, <1>2, PushedStep, Invariance, PTL DEF Spec

----
(* The two servers append their handlers without a lock.  One of them may be lost, never
   both, and never to a server that has not come up. *)
LostToTheOther ==
    \A g \in Servers : boot[g].at = "up" /\ g \notin Range(handlers) =>
        \A h \in Servers \ {g} : boot[h].at = "up" /\ h \in Range(handlers)

LEMMA LostStep == IInv /\ LostToTheOther /\ [Next]_vars => LostToTheOther'
<1> SUFFICES ASSUME IInv, LostToTheOther, [Next]_vars PROVE LostToTheOther'
    OBVIOUS
<1>1. boot \in [Servers -> BootT]
    BY DEF IInv, Typed
<1>2. CASE UNCHANGED <<handlers, boot>>
    BY <1>2 DEF LostToTheOther
<1>3. CASE BuildRoutes \/ \E g \in Servers : ReadHandlers(g)
    <2>1. handlers' = handlers /\ \A h \in Servers : boot'[h].at = "up" <=> boot[h].at = "up"
        BY <1>1, <1>3 DEF BuildRoutes, ReadHandlers, BootT
    <2> QED
        BY <2>1 DEF LostToTheOther
<1>4. ASSUME NEW g \in Servers, OnUpdate(g) PROVE LostToTheOther'
    <2>1. boot[g].at = "append" /\ boot[g].saw \in Orders
        BY <1>1, <1>4 DEF OnUpdate, BootT
    <2>2. g \notin Range(boot[g].saw)
        BY <2>1 DEF IInv, BootOK
    <2>3. g \in Range(handlers')
        BY <1>4, <2>1, <2>2, AppendServer DEF OnUpdate
    <2>4. boot'[g].at = "up" /\ \A h \in Servers \ {g} : boot'[h] = boot[h]
        BY <1>1, <1>4 DEF OnUpdate, BootT
    <2> QED
        BY <2>3, <2>4 DEF LostToTheOther, Servers
<1>5. CASE Restart
    <2>1. \A g \in Servers : boot'[g].at # "up"
        BY <1>5 DEF Restart, Boot
    <2> QED
        BY <2>1 DEF LostToTheOther
<1>6. ASSUME NEW u \in Uploads, Reload(u) PROVE UNCHANGED <<handlers, boot>>
    BY <1>6 DEF Reload, PostConfigHandler, TruncateFile, WriteFile, SetConfig, Updated,
       SchedulerHandler, InternetHandler, IntranetHandler, Migrate, SetProcessed, Migrated,
       UpdateDone, start
<1>7. ASSUME NEW t \in Migrations, StartMigration(t) \/ FinishMigration(t)
      PROVE  UNCHANGED <<handlers, boot>>
    BY <1>7 DEF StartMigration, FinishMigration, start
<1>8. CASE UNCHANGED vars
    BY <1>2, <1>8 DEF vars, start
<1> QED
    BY <1>2, <1>3, <1>4, <1>5, <1>6, <1>7, <1>8 DEF Next

(* Of two handlers appended at the same time one stays in storeUpdateHandlers. *)
THEOREM OneHandlerStays == Spec => []LostToTheOther
<1>1. Init => LostToTheOther
    BY DEF Init, Boot, LostToTheOther
<1> QED
    BY <1>1, LostStep, Invariance, PTL DEF Spec
====
