------------------------------- MODULE Import -------------------------------
(***************************************************************************)
(* How a process gets its database: src/internal/db/database.go (migrate,   *)
(* bootstrapLocked, crossProcessLock), import.go (importLocked) and         *)
(* migrate.go (runMigrations, verifyMigratedDatabase).                      *)
(*                                                                         *)
(* Several processes open one path.  Under an advisory file lock, the first *)
(* to find no database copies the one an earlier installation left          *)
(* (source): it stages the copy beside the target, upgrades it, ends the    *)
(* claims it carries, verifies it, syncs it and renames it into place.      *)
(* Then, import or not, the target is created if absent, put into WAL mode, *)
(* migrated one transaction per revision and verified.                      *)
(*                                                                         *)
(* A file is what the steps tell apart: whether it has the version table,   *)
(* its revision, whether it passes quick_check (sound) and the foreign-key  *)
(* check (linked), whether it holds active claims (live), whether its       *)
(* content was synced, and which process staged it.  No version table and   *)
(* revision 0 is an empty file; no version table and tables is a database   *)
(* nobody migrated; Head + 1 is a revision this program does not know.      *)
(*                                                                         *)
(* durable is the target a power failure cannot take back: a rename is kept *)
(* once the directory is synced, and SQLite keeps what it committed once    *)
(* it has checkpointed, which closing the only connection does.  What       *)
(* SQLite and the file system do is external: they are modelled by what     *)
(* the code relies on.                                                      *)
(*                                                                         *)
(* Each process has one store, as app.go makes it, so the mutex of          *)
(* initializationLock, which orders the stores of one process, is free.     *)
(* The installation that wrote source has stopped (import.go:12-14).        *)
(* Bounds: MaxFailures calls that fail, MaxCrashes crashes and power        *)
(* failures together.                                                       *)
(***************************************************************************)
EXTENDS Naturals, FiniteSets

CONSTANTS
  Processes,    \* the extension processes that open the database
  Nobody,       \* no process
  NoFile,       \* no file at a path
  Head,         \* the number of packaged migrations
  MaxFailures,  \* how many calls to the file system or SQLite fail
  MaxCrashes    \* how many crashes of a process or of the machine happen

ASSUME ImportAssumption ==
  /\ Processes # {} /\ IsFiniteSet(Processes) /\ Nobody \notin Processes
  /\ Head \in Nat \ {0} /\ MaxFailures \in Nat /\ MaxCrashes \in Nat

VARIABLES
  source,    \* the database of the earlier installation
  target,    \* the database at the store's path, as processes see it
  durable,   \* the target a power failure leaves
  staging,   \* the staged copy, target + ".import"
  journal,   \* whether a rollback journal of the staged copy was left
  lock,      \* the holder of the migration lock file
  pc,        \* the next step of each process
  failures,  \* calls that failed so far
  crashes    \* crashes so far

files == <<source, target, durable, staging, journal>>
vars == <<files, lock, pc, failures, crashes>>

File == [version : BOOLEAN, rev : 0..(Head + 1), live : BOOLEAN,
         sound : BOOLEAN, linked : BOOLEAN, synced : BOOLEAN,
         by : Processes \cup {Nobody}]

ASSUME FileAssumption == NoFile \notin File

\* What a new, empty database is.
Blank == [version |-> FALSE, rev |-> 0, live |-> FALSE, sound |-> TRUE,
          linked |-> TRUE, synced |-> TRUE, by |-> Nobody]

\* The steps of an import that leave the staged copy to be removed, and all
\* the steps a process takes while it holds the lock.
StagingSteps ==
  {"copying", "upgrading", "releasing", "checking", "syncing", "renaming"}
LockedSteps ==
  {"importing", "clearing", "publishing", "bootstrapping", "configuring",
   "migrating", "verifying"} \cup StagingSteps

Go(p, step) == pc' = [pc EXCEPT ![p] = step]

\* An error return: the deferred unlock runs.  Slip: it does not.
RejectLocked(p) == Go(p, "failed") /\ UNCHANGED lock
Reject(p) == Go(p, "failed") /\ lock' = Nobody

\* removeStaging: the staged copy and its journal.  Slip: only the copy.
RemoveCopyOnly == staging' = NoFile /\ UNCHANGED journal
RemoveStaging == staging' = NoFile /\ journal' = FALSE

Empty(file) == ~file.version /\ file.rev = 0
Unversioned(file) == ~file.version /\ file.rev > 0

\* What verifyMigratedDatabase accepts.
Verified(file) ==
  file.sound /\ file.linked /\ file.version /\ file.rev = Head

(***************************************************************************)
(* Taking the lock.                                                         *)
(***************************************************************************)

\* Store.database with no pool yet: the first operation, and every one after
\* an initialization that failed.
Begin(p) ==
  /\ pc[p] \in {"closed", "failed"}
  /\ Go(p, "locking")
  /\ UNCHANGED <<files, lock, failures, crashes>>

\* Store.Close: the process is done with the database.
Close(p) ==
  /\ pc[p] = "open"
  /\ Go(p, "closed")
  /\ UNCHANGED <<files, lock, failures, crashes>>

\* crossProcessLock.  Slip: the lock does not exclude.
LockShared(p) ==
  /\ pc[p] = "locking"
  /\ lock' = p
  /\ Go(p, "importing")
  /\ UNCHANGED <<files, failures, crashes>>

Lock(p) ==
  /\ pc[p] = "locking"
  /\ lock = Nobody
  /\ lock' = p
  /\ Go(p, "importing")
  /\ UNCHANGED <<files, failures, crashes>>

(***************************************************************************)
(* importLocked.                                                            *)
(***************************************************************************)

\* There is a target, or nothing to import.
SkipImport(p) ==
  /\ pc[p] = "importing"
  /\ target = NoFile /\ source # NoFile => source.sound /\ Empty(source)
  /\ Go(p, "bootstrapping")
  /\ UNCHANGED <<files, lock, failures, crashes>>

\* The source fails quick_check, or has tables and no version table.
RejectSource(p) ==
  /\ pc[p] = "importing"
  /\ target = NoFile /\ source # NoFile
  /\ ~source.sound \/ Unversioned(source)
  /\ Reject(p)
  /\ UNCHANGED <<files, failures, crashes>>

\* Slip: a target no import finished is taken for absent.
StartImportOverOlder(p) ==
  /\ pc[p] = "importing"
  /\ source # NoFile
  /\ source.sound /\ source.version
  /\ target # NoFile => target.rev < Head
  /\ Go(p, "clearing")
  /\ UNCHANGED <<files, lock, failures, crashes>>

StartImport(p) ==
  /\ pc[p] = "importing"
  /\ target = NoFile /\ source # NoFile
  /\ source.sound /\ source.version
  /\ Go(p, "clearing")
  /\ UNCHANGED <<files, lock, failures, crashes>>

\* What an import that died left is removed first.
Clear(p) ==
  /\ pc[p] = "clearing"
  /\ RemoveStaging
  /\ Go(p, "copying")
  /\ UNCHANGED <<source, target, durable, lock, failures, crashes>>

\* VACUUM INTO refuses a file that exists; a journal left beside it would be
\* rolled back into the new copy.
Copy(p) ==
  /\ pc[p] = "copying"
  /\ staging = NoFile
  /\ staging' = [source EXCEPT !.sound = ~journal, !.synced = FALSE,
                               !.by = p]
  /\ Go(p, "upgrading")
  /\ UNCHANGED <<source, target, durable, journal, lock, failures, crashes>>

\* runMigrations on the copy, one transaction per revision.
Upgrade(p) ==
  /\ pc[p] = "upgrading"
  /\ staging.sound /\ staging.rev <= Head
  /\ IF staging.rev < Head
       THEN staging' = [staging EXCEPT !.rev = @ + 1] /\ UNCHANGED pc
       ELSE Go(p, "releasing") /\ UNCHANGED staging
  /\ UNCHANGED <<source, target, durable, journal, lock, failures, crashes>>

\* releaseImportedClaims: no claim of the copy can still be live.
Release(p) ==
  /\ pc[p] = "releasing"
  /\ staging' = [staging EXCEPT !.live = FALSE]
  /\ Go(p, "checking")
  /\ UNCHANGED <<source, target, durable, journal, lock, failures, crashes>>

\* verifyMigratedDatabase on the copy.
Check(p) ==
  /\ pc[p] = "checking"
  /\ Verified(staging)
  /\ Go(p, "syncing")
  /\ UNCHANGED <<files, lock, failures, crashes>>

\* The copy already exists, does not open as a database, is at a revision
\* this program does not know, or fails verification.
RejectCopy(p) ==
  /\ \/ pc[p] = "copying" /\ staging # NoFile
     \/ pc[p] = "upgrading" /\ (~staging.sound \/ staging.rev > Head)
     \/ pc[p] = "checking" /\ ~Verified(staging)
  /\ RemoveStaging
  /\ Reject(p)
  /\ UNCHANGED <<source, target, durable, failures, crashes>>

\* syncPath on the copy.  Slip: the rename is trusted to order the writes.
SyncNothing(p) ==
  /\ pc[p] = "syncing"
  /\ Go(p, "renaming")
  /\ UNCHANGED <<files, lock, failures, crashes>>

Sync(p) ==
  /\ pc[p] = "syncing"
  /\ staging' = [staging EXCEPT !.synced = TRUE]
  /\ Go(p, "renaming")
  /\ UNCHANGED <<source, target, durable, journal, lock, failures, crashes>>

Rename(p) ==
  /\ pc[p] = "renaming"
  /\ target' = staging
  /\ staging' = NoFile
  /\ Go(p, "publishing")
  /\ UNCHANGED <<source, durable, journal, lock, failures, crashes>>

\* syncPath on the directory.
Publish(p) ==
  /\ pc[p] = "publishing"
  /\ durable' = target
  /\ Go(p, "bootstrapping")
  /\ UNCHANGED <<source, target, staging, journal, lock, failures, crashes>>

(***************************************************************************)
(* bootstrapLocked.                                                         *)
(***************************************************************************)

\* An absent or empty target, or one with a version table.
Inspect(p) ==
  /\ pc[p] = "bootstrapping"
  /\ target # NoFile => target.sound /\ ~Unversioned(target)
  /\ Go(p, "configuring")
  /\ UNCHANGED <<files, lock, failures, crashes>>

\* configureDatabaseFile: WAL mode is written through a synced journal, into
\* a file SQLite creates if there is none.
Configure(p) ==
  /\ pc[p] = "configuring"
  /\ target' = IF target = NoFile THEN Blank ELSE target
  /\ durable' = target'
  /\ Go(p, "migrating")
  /\ UNCHANGED <<source, staging, journal, lock, failures, crashes>>

\* runMigrations on the target: the version table in a statement of its own,
\* then one transaction per revision, checkpointed when it closes.
Migrate(p) ==
  /\ pc[p] = "migrating"
  /\ target.rev <= Head
  /\ IF Verified([target EXCEPT !.linked = TRUE])
       THEN Go(p, "verifying") /\ durable' = target /\ UNCHANGED target
       ELSE /\ target' = IF target.version
                           THEN [target EXCEPT !.rev = @ + 1]
                           ELSE [target EXCEPT !.version = TRUE]
            /\ UNCHANGED <<durable, pc>>
  /\ UNCHANGED <<source, staging, journal, lock, failures, crashes>>

\* Slip: the foreign keys are not checked.
VerifyRevision(p) ==
  /\ pc[p] = "verifying"
  /\ target.sound /\ target.rev = Head
  /\ lock' = Nobody
  /\ Go(p, "open")
  /\ UNCHANGED <<files, failures, crashes>>

\* verifyMigratedDatabase on the target; the pool is opened after the unlock.
Verify(p) ==
  /\ pc[p] = "verifying"
  /\ Verified(target)
  /\ lock' = Nobody
  /\ Go(p, "open")
  /\ UNCHANGED <<files, failures, crashes>>

\* The target is damaged, has tables and no version table, is at a revision
\* this program does not know, or fails verification.
RejectTarget(p) ==
  /\ \/ /\ pc[p] = "bootstrapping"
        /\ target # NoFile /\ (~target.sound \/ Unversioned(target))
     \/ pc[p] = "migrating" /\ target.rev > Head
     \/ pc[p] = "verifying" /\ ~Verified(target)
  /\ Reject(p)
  /\ UNCHANGED <<files, failures, crashes>>

(***************************************************************************)
(* What goes wrong.                                                         *)
(***************************************************************************)

\* A call of the step at hand fails: a transaction rolls back, an import
\* removes its copy, and a failed directory sync returns after the rename.
Break(p) ==
  /\ pc[p] \in LockedSteps
  /\ failures < MaxFailures
  /\ failures' = failures + 1
  /\ IF pc[p] \in StagingSteps THEN RemoveStaging
                               ELSE UNCHANGED <<staging, journal>>
  /\ Reject(p)
  /\ UNCHANGED <<source, target, durable, crashes>>

\* The process dies: the kernel drops its lock, and a transaction it had open
\* on the copy leaves its journal.
Crash(p) ==
  /\ pc[p] # "closed"
  /\ crashes < MaxCrashes
  /\ crashes' = crashes + 1
  /\ lock' = IF lock = p THEN Nobody ELSE lock
  /\ journal' \in IF pc[p] \in {"upgrading", "releasing"} THEN {TRUE, FALSE}
                                                          ELSE {journal}
  /\ Go(p, "closed")
  /\ UNCHANGED <<source, target, durable, staging, failures>>

Torn(file) ==
  IF file = NoFile \/ file.synced THEN {file}
  ELSE {file, [file EXCEPT !.sound = FALSE]}

\* The machine dies: a file that was not synced may be torn, and commits or
\* a rename that are not durable may be undone.
LosePower ==
  /\ crashes < MaxCrashes
  /\ crashes' = crashes + 1
  /\ \/ target' \in Torn(target) /\ staging' \in Torn(staging)
     \/ /\ durable # target
        /\ target' = durable
        /\ staging' \in Torn(IF durable = NoFile THEN target ELSE staging)
  /\ durable' = target'
  /\ lock' = Nobody
  /\ pc' = [p \in Processes |-> "closed"]
  /\ UNCHANGED <<source, journal, failures>>

\* The remedy the error message names: the user moves the source aside, with
\* no start under way.
MoveSourceAside ==
  /\ source # NoFile
  /\ lock = Nobody /\ \E p \in Processes : pc[p] = "failed"
  /\ source' = NoFile
  /\ UNCHANGED <<target, durable, staging, journal, lock, pc, failures,
                 crashes>>

(***************************************************************************)
(* The specification.                                                       *)
(***************************************************************************)

\* A database found on disk: damage hides what is in it, and a table-less
\* database holds no rows.
Found ==
  {file \in File :
     /\ file.by = Nobody /\ file.synced
     /\ file.rev = 0 \/ ~file.sound => file.linked /\ ~file.live}

Init ==
  /\ source \in Found \cup {NoFile}
  /\ target \in {file \in Found : ~file.live} \cup {NoFile}
  /\ durable = target
  /\ staging = NoFile /\ journal = FALSE
  /\ lock = Nobody /\ pc = [p \in Processes |-> "closed"]
  /\ failures = 0 /\ crashes = 0

Step(p) ==
  \/ Lock(p) \/ SkipImport(p) \/ RejectSource(p) \/ StartImport(p)
  \/ Clear(p) \/ Copy(p) \/ Upgrade(p) \/ Release(p) \/ Check(p)
  \/ RejectCopy(p) \/ Sync(p) \/ Rename(p) \/ Publish(p) \/ Inspect(p)
  \/ Configure(p) \/ Migrate(p) \/ Verify(p) \/ RejectTarget(p)

Next ==
  \/ \E p \in Processes : Begin(p) \/ Close(p) \/ Step(p) \/ Break(p)
                         \/ Crash(p)
  \/ LosePower \/ MoveSourceAside

\* A start that has begun runs on unless the process dies, flock wakes its
\* waiters, and operations keep asking for a database that failed to open.
Fairness ==
  \A p \in Processes :
    /\ WF_vars(Begin(p)) /\ WF_vars(Step(p)) /\ SF_vars(Lock(p))

Spec == Init /\ [][Next]_vars /\ Fairness

(***************************************************************************)
(* What is claimed.                                                         *)
(***************************************************************************)

\* The type of every variable, and the lock: whoever is between Lock and its
\* release is the only holder (database.go:195 "serializes migrations across
\* extension processes").
ImportTypeOK ==
  /\ source \in File \cup {NoFile} /\ target \in File \cup {NoFile}
  /\ durable \in File \cup {NoFile} /\ staging \in File \cup {NoFile}
  /\ journal \in BOOLEAN /\ lock \in Processes \cup {Nobody}
  /\ pc \in [Processes ->
               LockedSteps \cup {"closed", "failed", "locking", "open"}]
  /\ failures \in 0..MaxFailures /\ crashes \in 0..MaxCrashes
  /\ \A p \in Processes : pc[p] \in LockedSteps <=> lock = p

\* import.go:18-20, "staged beside target, upgraded, verified, and only then
\* renamed into place": an imported database that is visible, also after a
\* crash or a power failure, is whole, at the head revision and without the
\* claims of processes that are gone.
ImportsArriveWhole ==
  target # NoFile /\ target.by # Nobody =>
    Verified(target) /\ ~target.live

\* A process that has opened the database, whatever another does after it,
\* works on one that is migrated, and that no power failure takes back.
OpenIsForGood ==
  (\E p \in Processes : pc[p] = "open") =>
    target # NoFile /\ Verified(target) /\ durable = target

\* A database is never replaced or removed, by an import or by anything else,
\* but for a rename the machine lost before the directory was synced; its
\* revision only goes up.
NothingIsReplaced ==
  [][target # NoFile =>
       \/ /\ target' # NoFile /\ target'.by = target.by
          /\ target'.rev >= target.rev
       \/ target' = durable /\ durable # target /\ crashes' # crashes]_vars

\* What the program can make a database at the head revision of.
Usable(file) ==
  \/ file = NoFile
  \/ Empty(file) /\ file.sound
  \/ file.version /\ file.sound /\ file.linked /\ file.rev <= Head

\* A start fails for what is wrong with the database it was given, or for a
\* call that failed in it: never for what an earlier import, cut short
\* anywhere, left behind.
LeftoversDoNotFailStarts ==
  [][\A p \in Processes :
       pc[p] # "failed" /\ pc'[p] = "failed" =>
         \/ failures' # failures
         \/ ~Usable(IF target = NoFile THEN source ELSE target)]_vars

\* Once both databases can be used, every process opens the target, whoever
\* failed, or died with the lock or a half-made copy, before.
EveryProcessOpens ==
  \A p \in Processes :
    (Usable(source) /\ Usable(target)) ~> pc[p] = "open"
==============================================================================
