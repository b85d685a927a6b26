---- MODULE Config ----
(***************************************************************************)
(* Configuration updates: POST /config of the intranet (PostConfigHandler, *)
(* ReloadConfig), the handlers that the packages register for them         *)
(* (OnUpdate), and the migrations that the intranet's handler runs over    *)
(* what the task queue promises (TaskService).  Uploads run concurrently,  *)
(* next to the start of the two servers.                                   *)
(*                                                                         *)
(* A configuration is the upload it came with; Version says which stores   *)
(* it has and of which version.  Its hooks and actions are the same in all *)
(* of them.  Uploads are served with NODE_ENV=DEV only: there a            *)
(* config.json that does not parse is an empty configuration at the start. *)
(***************************************************************************)
EXTENDS Integers, Functions, Sequences, FiniteSets

CONSTANTS Uploads, Stores,
          Initial,      \* the configuration of the first start
          Empty, Torn,  \* what a truncated or mixed config.json makes of it
          Version,      \* Version[c]: the stores of configuration c and their versions
          Migrating,    \* stores with migration scripts
          MaxCrashes    \* restarts (a bound)

Configs == Uploads \cup {Initial, Empty, Torn}

ASSUME ConfigAssumption ==
    /\ {Initial, Empty, Torn} \cap Uploads = {}
    /\ Initial \notin {Empty, Torn} /\ Empty # Torn
    /\ \A c \in Configs : DOMAIN Version[c] \subseteq Stores
    /\ MaxCrashes \in Nat

VARIABLES
    upload,            \* the uploads
    config, disk,      \* the configuration of the process, and of config.json
    handlers, boot,    \* storeUpdateHandlers, and how far the start of the servers has come
    cron, told,        \* the configurations the scheduler and the workers heard of last
    mounted,           \* stores with a route in the router of internet
    processed,         \* storeMigrationVersion
    migrated,          \* migrations done in this life of the process, and for whom
    outcome, started,  \* the queue
    overlapped, last,  \* uploads that ran next to another; the last one begun
    crashes

Servers    == {"internet", "intranet"}
Migrations == Uploads \X Stores

Queue == INSTANCE TaskService WITH Tasks <- Migrations, TimedTasks <- {}

files      == <<config, disk>>
start      == <<handlers, boot>>
heard      == <<cron, told, mounted>>
migrations == <<processed, migrated, outcome, started>>
history    == <<overlapped, last, crashes>>
vars == <<upload, files, start, heard, migrations, history>>

----
(* An upload: where it is; whether config.json was written; the configuration that the
   handlers are called with and the handlers left; the stores left to migrate, and the
   one whose migration is waited for. *)
NewUpload == [pc |-> "new", saved |-> FALSE, of |-> Empty, left |-> <<>>,
              stores |-> {}, store |-> {}]

Ended   == {"new", "refused", "panicked", "done", "lost"}
Running == {u \in Uploads : upload[u].pc \notin Ended}
Steps   == Ended \cup {"save", "write", "set", "update", "handlers", "migrate"}

Orders == {<<"scheduler">>, <<"scheduler", "internet">>, <<"scheduler", "intranet">>,
           <<"scheduler", "internet", "intranet">>, <<"scheduler", "intranet", "internet">>}
Rests  == Orders \cup {Tail(o) : o \in Orders} \cup {<<"internet">>, <<"intranet">>}

TypeOK ==
    /\ upload \in [Uploads -> [pc : Steps, saved : BOOLEAN, of : Configs, left : Rests,
                               stores : SUBSET Stores,
                               store : {{}} \cup {{s} : s \in Stores}]]
    /\ {config, disk, cron, told} \subseteq Configs
    /\ handlers \in Orders
    /\ boot \in [Servers -> [at : {"new", "ready", "append", "up"}, saw : Orders]]
    /\ mounted \subseteq Stores
    /\ overlapped \subseteq Uploads
    /\ \A u \in Uploads : \A s \in Stores :
           outcome[<<u, s>>] = "pending" =>
               upload[u].pc = "migrate" /\ upload[u].store = {s}

Boot == [g \in Servers |-> [at |-> IF g = "internet" THEN "new" ELSE "ready",
                            saw |-> <<"scheduler">>]]

Init ==
    /\ upload = [u \in Uploads |-> NewUpload]
    /\ config = Initial /\ disk = Initial
    /\ handlers = <<"scheduler">> /\ boot = Boot
    /\ cron = Initial /\ told = Empty /\ mounted = {}
    /\ processed = {} /\ migrated = {} /\ Queue!Init
    /\ overlapped = {} /\ last = Empty /\ crashes = 0

At(u, pc)   == upload[u].pc = pc
Goto(u, pc) == upload' = [upload EXCEPT ![u].pc = pc]

----
(* The start.  The scheduler's handler is there from the first; internet builds its
   routes; then both servers, each in a goroutine of its own, append their handler to a
   slice without a lock.  The intranet goes on to serve uploads. *)

BuildRoutes ==
    /\ boot["internet"].at = "new"
    /\ boot' = [boot EXCEPT !["internet"].at = "ready"]
    /\ mounted' = DOMAIN Version[config]
    /\ UNCHANGED <<upload, files, handlers, cron, told, migrations, history>>

ReadHandlers(g) ==
    /\ boot[g].at = "ready"
    /\ boot' = [boot EXCEPT ![g] = [at |-> "append", saw |-> handlers]]
    /\ UNCHANGED <<upload, files, handlers, heard, migrations, history>>

OnUpdate(g) ==
    /\ boot[g].at = "append"
    /\ handlers' = Append(boot[g].saw, g)
    /\ boot' = [boot EXCEPT ![g].at = "up"]
    /\ UNCHANGED <<upload, files, heard, migrations, history>>

----
(* PostConfigHandler and ReloadConfig *)

PostConfigHandler(u) ==
    /\ At(u, "new")
    /\ boot["intranet"].at = "up"
    /\ \/ Goto(u, "refused") /\ UNCHANGED <<overlapped, last>>
       \/ /\ Goto(u, "save")
          /\ overlapped' = IF Running = {} THEN overlapped
                                           ELSE overlapped \cup Running \cup {u}
          /\ last' = u
    /\ UNCHANGED <<files, start, heard, migrations, crashes>>

(* ioutil.WriteFile truncates, then writes: what is written over a longer text that
   came in between leaves the rest of it.  An error is logged. *)
TruncateFile(u) ==
    /\ At(u, "save")
    /\ \/ Goto(u, "write") /\ disk' = Empty
       \/ Goto(u, "set") /\ UNCHANGED disk
    /\ UNCHANGED <<config, start, heard, migrations, history>>

WriteFile(u) ==
    /\ At(u, "write")
    /\ \/ /\ disk' \in IF disk = Empty THEN {u} ELSE {u, Torn}
          /\ upload' = [upload EXCEPT ![u].pc = "set", ![u].saved = TRUE]
       \/ Goto(u, "set") /\ disk' = Torn
    /\ UNCHANGED <<config, start, heard, migrations, history>>

(* Mutant: the handlers are called with the configuration of before. *)
UpdateWithOld(u) ==
    /\ At(u, "set")
    /\ config' = u
    /\ upload' = [upload EXCEPT ![u].pc = "handlers", ![u].of = config, ![u].left = handlers]
    /\ UNCHANGED <<disk, start, heard, migrations, history>>

SetConfig(u) ==
    /\ At(u, "set")
    /\ config' = u
    /\ Goto(u, "update")
    /\ UNCHANGED <<disk, start, heard, migrations, history>>

(* updated(config): the variable is read again, without the lock. *)
Updated(u) ==
    /\ At(u, "update")
    /\ upload' = [upload EXCEPT ![u].pc = "handlers", ![u].of = config, ![u].left = handlers]
    /\ UNCHANGED <<files, start, heard, migrations, history>>

----
(* The handlers, one after the other. *)

Next1(u, name) == At(u, "handlers") /\ upload[u].left # <<>> /\ Head(upload[u].left) = name
Rest(u) == Tail(upload[u].left)
Given(u) == DOMAIN Version[upload[u].of]

SchedulerHandler(u) ==
    /\ Next1(u, "scheduler")
    /\ cron' = upload[u].of
    /\ upload' = [upload EXCEPT ![u].left = Rest(u)]
    /\ UNCHANGED <<files, start, told, mounted, migrations, history>>

(* The router panics when a path is mounted again; stores that the loop over the map
   visits before have their routes by then. *)
InternetHandler(u) ==
    /\ Next1(u, "internet")
    /\ IF Given(u) \cap mounted = {}
       THEN /\ mounted' = mounted \cup Given(u)
            /\ upload' = [upload EXCEPT ![u].left = Rest(u)]
       ELSE /\ \E K \in SUBSET (Given(u) \ mounted) : mounted' = mounted \cup K
            /\ Goto(u, "panicked")
    /\ UNCHANGED <<files, start, cron, told, migrations, history>>

IntranetHandler(u) ==
    /\ Next1(u, "intranet")
    /\ told' = upload[u].of
    /\ upload' = [upload EXCEPT ![u].pc = "migrate", ![u].stores = Given(u) \cap Migrating]
    /\ UNCHANGED <<files, start, cron, mounted, migrations, history>>

UpdateDone(u) ==
    /\ At(u, "handlers")
    /\ upload[u].left = <<>>
    /\ Goto(u, "done")
    /\ UNCHANGED <<files, start, heard, migrations, history>>

----
(* runMigrationScripts *)

VersionOf(u, s) == <<s, Version[upload[u].of][s]>>

(* Mutant: the task is pushed and not waited for. *)
PushMigration(u, s) ==
    /\ At(u, "migrate") /\ s \in upload[u].stores /\ upload[u].store = {}
    /\ upload' = [upload EXCEPT ![u].stores = @ \ {s}]
    /\ IF VersionOf(u, s) \in processed THEN UNCHANGED <<outcome, started>>
                                        ELSE Queue!Submit(<<u, s>>)
    /\ UNCHANGED <<files, start, heard, processed, migrated, history>>

Migrate(u, s) ==
    /\ At(u, "migrate") /\ s \in upload[u].stores /\ upload[u].store = {}
    /\ IF VersionOf(u, s) \in processed
       THEN /\ upload' = [upload EXCEPT ![u].stores = @ \ {s}]
            /\ UNCHANGED <<outcome, started>>
       ELSE /\ upload' = [upload EXCEPT ![u].stores = @ \ {s}, ![u].store = {s}]
            /\ Queue!Submit(<<u, s>>)
    /\ UNCHANGED <<files, start, heard, processed, migrated, history>>

(* The worker. *)
StartMigration(t) ==
    /\ Queue!Start(t)
    /\ UNCHANGED <<upload, files, start, heard, processed, migrated, history>>

FinishMigration(t) ==
    /\ Queue!Answer(t)
    /\ \/ migrated' = migrated \cup {<<t[1], VersionOf(t[1], t[2])>>}
       \/ UNCHANGED migrated
    /\ UNCHANGED <<upload, files, start, heard, processed, history>>

(* Mutant: the version is not recorded. *)
ForgetVersion(u) ==
    /\ \E s \in upload[u].store : outcome[<<u, s>>] = "answered"
    /\ upload' = [upload EXCEPT ![u].store = {}]
    /\ UNCHANGED <<files, start, heard, migrations, history>>

(* setProcessedStoreVersion, unless the migration has failed. *)
SetProcessed(u) ==
    /\ \E s \in upload[u].store :
           /\ outcome[<<u, s>>] = "answered"
           /\ processed' = IF <<u, VersionOf(u, s)>> \in migrated
                           THEN processed \cup {VersionOf(u, s)} ELSE processed
    /\ upload' = [upload EXCEPT ![u].store = {}]
    /\ UNCHANGED <<files, start, heard, migrated, outcome, started, history>>

Migrated(u) ==
    /\ At(u, "migrate") /\ upload[u].stores = {} /\ upload[u].store = {}
    /\ upload' = [upload EXCEPT ![u].pc = "handlers", ![u].left = Rest(u)]
    /\ UNCHANGED <<files, start, heard, migrations, history>>

----
(* The process stops and starts again: config.Init reads config.json and calls the
   handler that is there, the scheduler's. *)
Restart ==
    /\ crashes < MaxCrashes
    /\ crashes' = crashes + 1
    /\ upload' = [u \in Uploads |-> IF u \in Running
                                    THEN [NewUpload EXCEPT !.pc = "lost"] ELSE upload[u]]
    /\ config' = disk /\ cron' = disk
    /\ handlers' = <<"scheduler">> /\ boot' = Boot
    /\ told' = Empty /\ mounted' = {} /\ processed' = {} /\ migrated' = {}
    /\ outcome' = [t \in Migrations |-> "none"] /\ started' = {}
    /\ UNCHANGED <<disk, overlapped, last>>

----
Reload(u) == \/ PostConfigHandler(u) \/ TruncateFile(u) \/ WriteFile(u)
             \/ SetConfig(u) \/ Updated(u)
             \/ SchedulerHandler(u) \/ InternetHandler(u) \/ IntranetHandler(u)
             \/ (\E s \in Stores : Migrate(u, s)) \/ SetProcessed(u) \/ Migrated(u)
             \/ UpdateDone(u)

Next == \/ BuildRoutes
        \/ \E g \in Servers : ReadHandlers(g) \/ OnUpdate(g)
        \/ \E u \in Uploads : Reload(u)
        \/ \E t \in Migrations : StartMigration(t) \/ FinishMigration(t)
        \/ Restart

Spec == Init /\ [][Next]_vars

----
(* An upload that ran alone is installed when it is through, whatever came before, and
   stays so until the next: the process has it, or what config.json had if that could not
   be written and the process was restarted, and the scheduler what the process has.  If
   no handler was lost and the router did not panic, the workers have heard of it, and
   each migration of it was recorded or has failed. *)
Installed(u) ==
    /\ upload[u].saved => disk = u
    /\ config = u \/ (crashes > 0 /\ config = disk)
    /\ cron = config

Announced(u) ==
    /\ told # u => \/ "intranet" \notin Range(handlers)
                   \/ told = Empty /\ crashes > 0
    /\ told = u => \A s \in DOMAIN Version[u] \cap Migrating :
           \/ <<s, Version[u][s]>> \in processed
           \/ <<u, <<s, Version[u][s]>>>> \notin migrated

AloneIsInstalled ==
    \A u \in Uploads \ overlapped :
        u = last => /\ At(u, "panicked") \/ At(u, "done") => Installed(u)
                    /\ At(u, "done") => Announced(u)

(* isStoreVersionProcessed and setProcessedStoreVersion take the lock one after the
   other: a migration is done twice in one life of the process only by uploads that ran
   next to others. *)
MigratedTwiceOnlyIfOverlapped ==
    \A m, n \in migrated : m[2] = n[2] /\ m # n => {m[1], n[1]} \subseteq overlapped
====
