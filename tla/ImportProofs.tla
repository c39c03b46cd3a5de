---------------------------- MODULE ImportProofs ----------------------------
(***************************************************************************)
(* Proofs about Import for all values of its constants: any number of       *)
(* processes, packaged revisions, failing calls and crashes.                *)
(*                                                                          *)
(* The lock makes the argument: only its holder is between two steps, so    *)
(* what was true of the files when it took its last step still is, unless   *)
(* it or the machine has died.  PhaseOK says what that is at each step.     *)
(***************************************************************************)
EXTENDS Import, TLAPS

-----------------------------------------------------------------------------
(* The inductive invariant.                                                *)

(* A database that was imported is whole, and nothing that a process sees  *)
(* or that a power failure leaves still waits for the disk.                *)
FileOK(file) ==
  file # NoFile =>
    /\ file.synced
    /\ file.by # Nobody => Verified(file) /\ ~file.live

Importing(step) ==
  step \in {"clearing"} \cup StagingSteps =>
    /\ target = NoFile
    /\ source # NoFile /\ source.sound /\ source.version

\* The staged copy of each step of an import.
Staged(step) ==
  /\ step = "copying" => staging = NoFile /\ journal = FALSE
  /\ step \in StagingSteps \ {"copying"} =>
       /\ staging # NoFile
       /\ staging.sound /\ staging.version
       /\ staging.linked = source.linked
       /\ staging.rev <= Head \/ staging.rev = source.rev
  /\ step \in {"releasing", "checking", "syncing", "renaming"} =>
       staging.rev = Head
  /\ step \in {"checking", "syncing", "renaming"} => ~staging.live
  /\ step \in {"syncing", "renaming"} => Verified(staging)
  /\ step = "renaming" => staging.synced

\* The target of each step after an import.
Opening(step) ==
  /\ step \in {"publishing", "migrating", "verifying"} => target # NoFile
  /\ step \in {"configuring", "migrating"} /\ target # NoFile =>
       target.sound /\ ~Unversioned(target)
  /\ step = "verifying" =>
       /\ durable = target
       /\ target.sound /\ target.version /\ target.rev = Head

PhaseOK(step) == Importing(step) /\ Staged(step) /\ Opening(step)

ImportInv ==
  /\ ImportTypeOK
  /\ FileOK(target) /\ FileOK(durable)
  /\ OpenIsForGood
  /\ \A p \in Processes : pc[p] \in LockedSteps => PhaseOK(pc[p])

-----------------------------------------------------------------------------
(* What every step of the lock's holder leaves alone.                      *)

Steps == LockedSteps \cup {"closed", "failed", "locking", "open"}

LEMMA HolderStep ==
  ASSUME ImportTypeOK, NEW p \in Processes, pc[p] \in LockedSteps,
         NEW step \in Steps \ {"locking"}, Go(p, step),
         lock' = IF step \in LockedSteps THEN lock ELSE Nobody
  PROVE  /\ lock = p
         /\ pc' \in [Processes -> Steps] /\ lock' \in Processes \cup {Nobody}
         /\ \A q \in Processes : pc'[q] \in LockedSteps <=> lock' = q
         /\ pc'[p] = step
         /\ \A q \in Processes \ {p} :
               pc'[q] = pc[q] /\ pc'[q] \notin LockedSteps
<1>1. /\ lock = p /\ pc \in [Processes -> Steps]
      /\ Nobody \notin Processes
      /\ \A q \in Processes : pc[q] \in LockedSteps <=> lock = q
  BY ImportAssumption DEF ImportTypeOK, Steps
<1>2. /\ pc' \in [Processes -> Steps] /\ pc'[p] = step
      /\ \A q \in Processes \ {p} : pc'[q] = pc[q]
  BY <1>1 DEF Go
<1>3. \A q \in Processes \ {p} : pc'[q] \notin LockedSteps
  BY <1>1, <1>2
<1>4. \A q \in Processes : pc'[q] \in LockedSteps <=> lock' = q
  BY <1>1, <1>2, <1>3
<1>5. QED
  BY <1>1, <1>2, <1>3, <1>4

(* To keep the invariant, a step of the holder has to account for the      *)
(* files, for its own next step, and for the processes that are open.      *)
LEMMA HolderInv ==
  ASSUME ImportInv, NEW p \in Processes, pc[p] \in LockedSteps,
         NEW step \in Steps \ {"locking"}, Go(p, step),
         lock' = IF step \in LockedSteps THEN lock ELSE Nobody,
         source' \in File \cup {NoFile}, target' \in File \cup {NoFile},
         durable' \in File \cup {NoFile}, staging' \in File \cup {NoFile},
         journal' \in BOOLEAN,
         failures' \in 0..MaxFailures, crashes' \in 0..MaxCrashes,
         FileOK(target)', FileOK(durable)',
         step \in LockedSteps => PhaseOK(step)',
         (\E q \in Processes : pc[q] = "open") =>
            target' = target /\ durable' = target,
         step = "open" =>
            target' # NoFile /\ Verified(target)' /\ durable' = target'
  PROVE  ImportInv'
<1>1. ImportTypeOK /\ OpenIsForGood
  BY DEF ImportInv
<1>2. /\ pc' \in [Processes -> Steps] /\ lock' \in Processes \cup {Nobody}
      /\ \A q \in Processes : pc'[q] \in LockedSteps <=> lock' = q
      /\ pc'[p] = step
      /\ \A q \in Processes \ {p} :
            pc'[q] = pc[q] /\ pc'[q] \notin LockedSteps
  BY <1>1, HolderStep
<1>3. ImportTypeOK'
  BY <1>2 DEF ImportTypeOK, Steps
<1>4. OpenIsForGood'
  <2>1. SUFFICES ASSUME NEW q \in Processes, pc'[q] = "open"
                 PROVE  /\ target' # NoFile /\ Verified(target)'
                        /\ durable' = target'
    BY DEF OpenIsForGood
  <2>2. CASE q = p
    BY <1>2, <2>1, <2>2
  <2>3. CASE q # p
    <3>1. pc[q] = "open"
      BY <1>2, <2>1, <2>3
    <3>2. target' = target /\ durable' = target
      BY <3>1
    <3>3. target # NoFile /\ Verified(target)
      BY <1>1, <3>1 DEF OpenIsForGood
    <3>4. QED
      BY <3>2, <3>3 DEF Verified
  <2>4. QED
    BY <2>2, <2>3
<1>5. \A q \in Processes : pc'[q] \in LockedSteps => PhaseOK(pc[q])'
  <2>1. SUFFICES ASSUME NEW q \in Processes, pc'[q] \in LockedSteps
                 PROVE  PhaseOK(pc[q])'
    OBVIOUS
  <2>2. q = p /\ pc'[q] = step
    BY <1>2, <2>1
  <2>3. PhaseOK(step)'
    BY <2>1, <2>2
  <2>4. QED
    BY <2>2, <2>3 DEF PhaseOK, Importing, Staged, Opening
<1>6. QED
  BY <1>3, <1>4, <1>5 DEF ImportInv

(* The facts every proof about a step of the holder starts from.           *)
LEMMA PhaseFacts ==
  ASSUME ImportInv, NEW p \in Processes, pc[p] \in LockedSteps
  PROVE  /\ source \in File \cup {NoFile} /\ target \in File \cup {NoFile}
         /\ durable \in File \cup {NoFile} /\ staging \in File \cup {NoFile}
         /\ journal \in BOOLEAN
         /\ failures \in 0..MaxFailures /\ crashes \in 0..MaxCrashes
         /\ FileOK(target) /\ FileOK(durable)
         /\ PhaseOK(pc[p]) /\ lock = p
         /\ (\E q \in Processes : pc[q] = "open") =>
              target # NoFile /\ Verified(target) /\ durable = target
BY DEF ImportInv, ImportTypeOK, OpenIsForGood

LEMMA KeepFilesInv ==
  ASSUME ImportInv, NEW p \in Processes, pc[p] \in LockedSteps,
         NEW step \in Steps \ {"locking"}, Go(p, step),
         lock' = IF step \in LockedSteps THEN lock ELSE Nobody,
         UNCHANGED <<files, crashes>>, failures' \in 0..MaxFailures,
         step \in LockedSteps => PhaseOK(step),
         step = "open" =>
            target # NoFile /\ Verified(target) /\ durable = target
  PROVE  ImportInv'
<1>1. UNCHANGED <<source, target, durable, staging, journal>>
  BY DEF files
<1>2. step \in LockedSteps => PhaseOK(step)'
  BY <1>1 DEF PhaseOK, Importing, Staged, Opening
<1>3. /\ FileOK(target)' /\ FileOK(durable)'
      /\ step = "open" =>
            target' # NoFile /\ Verified(target)' /\ durable' = target'
  BY <1>1, PhaseFacts DEF FileOK, Verified
<1>4. QED
  BY <1>1, <1>2, <1>3, PhaseFacts, HolderInv

(* An error return: the staged copy may be removed.                        *)
LEMMA RejectInv ==
  ASSUME ImportInv, NEW p \in Processes, pc[p] \in LockedSteps, Reject(p),
         UNCHANGED <<source, target, durable, crashes>>,
         RemoveStaging \/ UNCHANGED <<staging, journal>>,
         failures' \in 0..MaxFailures
  PROVE  ImportInv'
<1>1. /\ Go(p, "failed") /\ lock' = Nobody
      /\ "failed" \in Steps \ {"locking"} /\ "failed" \notin LockedSteps
  BY DEF Reject, Steps, LockedSteps, StagingSteps
<1>2. staging' \in File \cup {NoFile} /\ journal' \in BOOLEAN
  BY PhaseFacts DEF RemoveStaging
<1>3. FileOK(target)' /\ FileOK(durable)'
  BY PhaseFacts DEF FileOK, Verified
<1>4. QED
  BY <1>1, <1>2, <1>3, PhaseFacts, HolderInv

(* The named steps.                                                        *)
LEMMA NamedSteps ==
  /\ LockedSteps =
       {"importing", "clearing", "copying", "upgrading", "releasing",
        "checking", "syncing", "renaming", "publishing", "bootstrapping",
        "configuring", "migrating", "verifying"}
  /\ StagingSteps =
       {"copying", "upgrading", "releasing", "checking", "syncing",
        "renaming"}
  /\ LockedSteps \subseteq Steps \ {"locking"}
  /\ "open" \in Steps \ {"locking"} /\ "open" \notin LockedSteps
BY DEF LockedSteps, StagingSteps, Steps

(***************************************************************************)
(* The steps of an import.                                                  *)
(***************************************************************************)

LEMMA BeforeImportInv ==
  ASSUME ImportInv, NEW p \in Processes, SkipImport(p) \/ StartImport(p)
  PROVE  ImportInv'
<1>1. CASE SkipImport(p)
  <2>1. pc[p] \in LockedSteps /\ PhaseOK("bootstrapping")
    BY <1>1, NamedSteps
    DEF SkipImport, PhaseOK, Importing, Staged, Opening
  <2>2. QED
    BY <1>1, <2>1, NamedSteps, PhaseFacts, KeepFilesInv DEF SkipImport
<1>2. CASE StartImport(p)
  <2>1. pc[p] \in LockedSteps /\ PhaseOK("clearing")
    BY <1>2, NamedSteps
    DEF StartImport, PhaseOK, Importing, Staged, Opening
  <2>2. QED
    BY <1>2, <2>1, NamedSteps, PhaseFacts, KeepFilesInv DEF StartImport
<1>3. QED
  BY <1>1, <1>2

LEMMA ClearInv ==
  ASSUME ImportInv, NEW p \in Processes, Clear(p)
  PROVE  ImportInv'
<1>1. /\ pc[p] = "clearing" /\ pc[p] \in LockedSteps
      /\ staging' = NoFile /\ journal' = FALSE /\ Go(p, "copying")
      /\ UNCHANGED <<source, target, durable, lock, failures, crashes>>
  BY NamedSteps DEF Clear, RemoveStaging
<1>2. PhaseOK("copying")'
  BY <1>1, PhaseFacts, NamedSteps DEF PhaseOK, Importing, Staged, Opening
<1>3. FileOK(target)' /\ FileOK(durable)'
  BY <1>1, PhaseFacts DEF FileOK, Verified
<1>4. QED
  BY <1>1, <1>2, <1>3, NamedSteps, PhaseFacts, HolderInv

LEMMA CopyInv ==
  ASSUME ImportInv, NEW p \in Processes, Copy(p)
  PROVE  ImportInv'
<1>1. /\ pc[p] = "copying" /\ pc[p] \in LockedSteps
      /\ staging' = [source EXCEPT !.sound = ~journal, !.synced = FALSE,
                                   !.by = p]
      /\ Go(p, "upgrading")
      /\ UNCHANGED <<source, target, durable, journal, lock, failures,
                     crashes>>
  BY NamedSteps DEF Copy
<1>2. PhaseOK("copying") /\ source \in File
  BY <1>1, PhaseFacts, NamedSteps DEF PhaseOK, Importing
<1>3. journal = FALSE /\ source.version
  BY <1>2, NamedSteps DEF PhaseOK, Importing, Staged
<1>4. /\ staging' \in File
      /\ staging'.sound /\ staging'.version = source.version
      /\ staging'.linked = source.linked /\ staging'.rev = source.rev
  BY <1>1, <1>2, <1>3 DEF File
<1>5. PhaseOK("upgrading")'
  BY <1>1, <1>2, <1>3, <1>4, NamedSteps, FileAssumption
  DEF PhaseOK, Importing, Staged, Opening
<1>6. FileOK(target)' /\ FileOK(durable)'
  BY <1>1, PhaseFacts DEF FileOK, Verified
<1>7. QED
  BY <1>1, <1>4, <1>5, <1>6, NamedSteps, PhaseFacts, HolderInv

LEMMA UpgradeInv ==
  ASSUME ImportInv, NEW p \in Processes, Upgrade(p)
  PROVE  ImportInv'
<1>1. /\ pc[p] = "upgrading" /\ pc[p] \in LockedSteps
      /\ staging.rev <= Head
      /\ UNCHANGED <<source, target, durable, journal, lock, failures,
                     crashes>>
  BY NamedSteps DEF Upgrade
<1>2. PhaseOK("upgrading") /\ staging \in File
  BY <1>1, PhaseFacts, NamedSteps DEF PhaseOK, Staged
<1>3. FileOK(target)' /\ FileOK(durable)'
  BY <1>1, PhaseFacts DEF FileOK, Verified
<1>4. pc \in [Processes -> Steps]
  BY DEF ImportInv, ImportTypeOK, Steps
<1>5. CASE staging.rev < Head
  <2>1. staging' = [staging EXCEPT !.rev = @ + 1] /\ Go(p, "upgrading")
    BY <1>1, <1>4, <1>5 DEF Upgrade, Go
  <2>2. /\ staging' \in File /\ staging'.rev <= Head
        /\ staging'.sound = staging.sound
        /\ staging'.version = staging.version
        /\ staging'.linked = staging.linked
    BY <1>2, <1>5, <2>1, ImportAssumption DEF File
  <2>3. PhaseOK("upgrading")'
    BY <1>1, <1>2, <2>2, NamedSteps, FileAssumption
    DEF PhaseOK, Importing, Staged, Opening
  <2>4. QED
    BY <1>1, <1>3, <2>1, <2>2, <2>3, NamedSteps, PhaseFacts, HolderInv
<1>6. CASE ~ (staging.rev < Head)
  <2>1. staging' = staging /\ Go(p, "releasing")
    BY <1>6 DEF Upgrade
  <2>2. staging.rev = Head
    BY <1>1, <1>2, <1>6, ImportAssumption DEF File
  <2>3. PhaseOK("releasing")
    BY <1>2, <2>2, NamedSteps DEF PhaseOK, Importing, Staged, Opening
  <2>4. PhaseOK("releasing")'
    BY <1>1, <2>1, <2>3 DEF PhaseOK, Importing, Staged, Opening
  <2>5. QED
    BY <1>1, <1>3, <2>1, <2>4, NamedSteps, PhaseFacts, HolderInv
<1>7. QED
  BY <1>5, <1>6

LEMMA ReleaseInv ==
  ASSUME ImportInv, NEW p \in Processes, Release(p)
  PROVE  ImportInv'
<1>1. /\ pc[p] = "releasing" /\ pc[p] \in LockedSteps
      /\ staging' = [staging EXCEPT !.live = FALSE] /\ Go(p, "checking")
      /\ UNCHANGED <<source, target, durable, journal, lock, failures,
                     crashes>>
  BY NamedSteps DEF Release
<1>2. PhaseOK("releasing") /\ staging \in File
  BY <1>1, PhaseFacts, NamedSteps DEF PhaseOK, Staged
<1>3. /\ staging' \in File /\ ~staging'.live
      /\ staging'.rev = staging.rev /\ staging'.sound = staging.sound
      /\ staging'.version = staging.version
      /\ staging'.linked = staging.linked
  BY <1>1, <1>2 DEF File
<1>4. PhaseOK("checking")'
  BY <1>1, <1>2, <1>3, NamedSteps, FileAssumption
  DEF PhaseOK, Importing, Staged, Opening
<1>5. FileOK(target)' /\ FileOK(durable)'
  BY <1>1, PhaseFacts DEF FileOK, Verified
<1>6. QED
  BY <1>1, <1>3, <1>4, <1>5, NamedSteps, PhaseFacts, HolderInv

LEMMA CheckInv ==
  ASSUME ImportInv, NEW p \in Processes, Check(p)
  PROVE  ImportInv'
<1>1. /\ pc[p] = "checking" /\ pc[p] \in LockedSteps
      /\ Verified(staging) /\ Go(p, "syncing")
      /\ UNCHANGED <<files, lock, failures, crashes>>
  BY NamedSteps DEF Check
<1>2. PhaseOK("syncing")
  BY <1>1, PhaseFacts, NamedSteps DEF PhaseOK, Importing, Staged, Opening
<1>3. QED
  BY <1>1, <1>2, NamedSteps, PhaseFacts, KeepFilesInv

LEMMA SyncInv ==
  ASSUME ImportInv, NEW p \in Processes, Sync(p)
  PROVE  ImportInv'
<1>1. /\ pc[p] = "syncing" /\ pc[p] \in LockedSteps
      /\ staging' = [staging EXCEPT !.synced = TRUE] /\ Go(p, "renaming")
      /\ UNCHANGED <<source, target, durable, journal, lock, failures,
                     crashes>>
  BY NamedSteps DEF Sync
<1>2. PhaseOK("syncing") /\ staging \in File
  BY <1>1, PhaseFacts, NamedSteps DEF PhaseOK, Staged
<1>3. /\ staging' \in File /\ staging'.synced
      /\ staging'.live = staging.live
      /\ staging'.rev = staging.rev /\ staging'.sound = staging.sound
      /\ staging'.version = staging.version
      /\ staging'.linked = staging.linked
  BY <1>1, <1>2 DEF File
<1>4. PhaseOK("renaming")'
  BY <1>1, <1>2, <1>3, NamedSteps, FileAssumption
  DEF PhaseOK, Importing, Staged, Opening, Verified
<1>5. FileOK(target)' /\ FileOK(durable)'
  BY <1>1, PhaseFacts DEF FileOK, Verified
<1>6. QED
  BY <1>1, <1>3, <1>4, <1>5, NamedSteps, PhaseFacts, HolderInv

(* Nobody has the database open: there was none.                           *)
LEMMA RenameInv ==
  ASSUME ImportInv, NEW p \in Processes, Rename(p)
  PROVE  ImportInv'
<1>1. /\ pc[p] = "renaming" /\ pc[p] \in LockedSteps
      /\ target' = staging /\ staging' = NoFile /\ Go(p, "publishing")
      /\ UNCHANGED <<source, durable, journal, lock, failures, crashes>>
  BY NamedSteps DEF Rename
<1>2. PhaseOK("renaming") /\ staging \in File
  BY <1>1, PhaseFacts, NamedSteps DEF PhaseOK, Staged
<1>3. /\ target = NoFile /\ staging # NoFile
      /\ staging.synced /\ Verified(staging) /\ ~staging.live
  BY <1>2, NamedSteps DEF PhaseOK, Importing, Staged
<1>4. PhaseOK("publishing")'
  BY <1>1, <1>3, NamedSteps DEF PhaseOK, Importing, Staged, Opening
<1>5. FileOK(target)' /\ FileOK(durable)'
  BY <1>1, <1>3, PhaseFacts DEF FileOK, Verified
<1>6. QED
  BY <1>1, <1>2, <1>3, <1>4, <1>5, NamedSteps, PhaseFacts, HolderInv

LEMMA PublishInv ==
  ASSUME ImportInv, NEW p \in Processes, Publish(p)
  PROVE  ImportInv'
<1>1. /\ pc[p] = "publishing" /\ pc[p] \in LockedSteps
      /\ durable' = target /\ Go(p, "bootstrapping")
      /\ UNCHANGED <<source, target, staging, journal, lock, failures,
                     crashes>>
  BY NamedSteps DEF Publish
<1>2. PhaseOK("bootstrapping")'
  BY NamedSteps DEF PhaseOK, Importing, Staged, Opening
<1>3. FileOK(target)' /\ FileOK(durable)'
  BY <1>1, PhaseFacts DEF FileOK, Verified
<1>4. QED
  BY <1>1, <1>2, <1>3, NamedSteps, PhaseFacts, HolderInv

(***************************************************************************)
(* The steps after it.                                                      *)
(***************************************************************************)

LEMMA InspectInv ==
  ASSUME ImportInv, NEW p \in Processes, Inspect(p)
  PROVE  ImportInv'
<1>1. /\ pc[p] = "bootstrapping" /\ pc[p] \in LockedSteps
      /\ Go(p, "configuring") /\ UNCHANGED <<files, lock, failures, crashes>>
  BY NamedSteps DEF Inspect
<1>2. PhaseOK("configuring")
  BY NamedSteps DEF Inspect, PhaseOK, Importing, Staged, Opening
<1>3. QED
  BY <1>1, <1>2, NamedSteps, PhaseFacts, KeepFilesInv

LEMMA BlankFile ==
  /\ Blank \in File /\ Blank # NoFile /\ FileOK(Blank)
  /\ Blank.sound /\ ~Unversioned(Blank)
<1>1. Blank \in File
  BY ImportAssumption DEF Blank, File
<1>2. Blank # NoFile
  BY <1>1, FileAssumption
<1>3. /\ Blank.synced /\ Blank.by = Nobody /\ Blank.sound
      /\ Blank.rev = 0
  BY DEF Blank
<1>4. QED
  BY <1>1, <1>2, <1>3 DEF FileOK, Unversioned

LEMMA ConfigureInv ==
  ASSUME ImportInv, NEW p \in Processes, Configure(p)
  PROVE  ImportInv'
<1>1. /\ pc[p] = "configuring" /\ pc[p] \in LockedSteps
      /\ target' = IF target = NoFile THEN Blank ELSE target
      /\ durable' = target' /\ Go(p, "migrating")
      /\ UNCHANGED <<source, staging, journal, lock, failures, crashes>>
  BY NamedSteps DEF Configure
<1>2. PhaseOK("configuring")
  BY <1>1, PhaseFacts
<1>3. /\ target' \in File /\ target' # NoFile /\ FileOK(target')
      /\ target'.sound /\ ~Unversioned(target')
  BY <1>1, <1>2, PhaseFacts, BlankFile DEF PhaseOK, Opening
<1>4. PhaseOK("migrating")'
  BY <1>3, NamedSteps DEF PhaseOK, Importing, Staged, Opening, Unversioned
<1>5. FileOK(target)' /\ FileOK(durable)'
  BY <1>1, <1>3 DEF FileOK, Verified
<1>6. QED
  BY <1>1, <1>3, <1>4, <1>5, NamedSteps, PhaseFacts, HolderInv

(* The branch Migrate takes: Verified but for the foreign keys.            *)
LEMMA MigratedFile ==
  ASSUME NEW file \in File
  PROVE  Verified([file EXCEPT !.linked = TRUE])
           <=> file.sound /\ file.version /\ file.rev = Head
BY DEF Verified, File

(* A verified target is not written: neither is one that is open.          *)
LEMMA MigrateInv ==
  ASSUME ImportInv, NEW p \in Processes, Migrate(p)
  PROVE  ImportInv'
<1>1. /\ pc[p] = "migrating" /\ pc[p] \in LockedSteps /\ target.rev <= Head
      /\ UNCHANGED <<source, staging, journal, lock, failures, crashes>>
  BY NamedSteps DEF Migrate
<1>2. PhaseOK("migrating") /\ target \in File
  BY <1>1, PhaseFacts DEF PhaseOK, Opening
<1>3. target # NoFile /\ target.sound /\ ~Unversioned(target)
  BY <1>2 DEF PhaseOK, Opening
<1>4. CASE Verified([target EXCEPT !.linked = TRUE])
  <2>1. Go(p, "verifying") /\ durable' = target /\ target' = target
    BY <1>4 DEF Migrate
  <2>2. target.version /\ target.rev = Head
    BY <1>2, <1>4, MigratedFile
  <2>3. PhaseOK("verifying")'
    BY <1>3, <2>1, <2>2, NamedSteps
    DEF PhaseOK, Importing, Staged, Opening
  <2>4. FileOK(target)' /\ FileOK(durable)'
    BY <1>1, <2>1, PhaseFacts DEF FileOK, Verified
  <2>5. QED
    BY <1>1, <2>1, <2>3, <2>4, NamedSteps, PhaseFacts, HolderInv
<1>5. CASE ~Verified([target EXCEPT !.linked = TRUE])
  <2>1. /\ target' = IF target.version
                       THEN [target EXCEPT !.rev = @ + 1]
                       ELSE [target EXCEPT !.version = TRUE]
        /\ durable' = durable /\ pc' = pc
    BY <1>5 DEF Migrate
  <2>2. ~ (target.version /\ target.rev = Head)
    BY <1>2, <1>3, <1>5, MigratedFile
  <2>3. /\ target.by = Nobody
        /\ \A q \in Processes : pc[q] # "open"
    BY <1>3, <2>2, PhaseFacts, <1>1 DEF FileOK, Verified
  <2>4. /\ target' \in File /\ target'.sound /\ ~Unversioned(target')
        /\ target'.by = Nobody /\ target'.synced = target.synced
    <3>1. target.rev \in 0..(Head + 1) /\ target.version \in BOOLEAN
      BY <1>2 DEF File
    <3>2. CASE target.version
      <4>1. target' = [target EXCEPT !.rev = @ + 1] /\ target.rev + 1 <= Head
        BY <1>1, <2>1, <2>2, <3>1, <3>2, ImportAssumption
      <4>2. target.rev + 1 \in 0..(Head + 1)
        BY <3>1, <4>1, ImportAssumption
      <4>3. /\ target' \in File /\ target'.version
            /\ target'.sound = target.sound
            /\ target'.by = target.by /\ target'.synced = target.synced
        BY <1>2, <3>2, <4>1, <4>2 DEF File
      <4>4. QED
        BY <1>3, <2>3, <4>3 DEF Unversioned
    <3>3. CASE ~target.version
      <4>1. target' = [target EXCEPT !.version = TRUE]
        BY <2>1, <3>3
      <4>2. /\ target' \in File /\ target'.version
            /\ target'.sound = target.sound
            /\ target'.by = target.by /\ target'.synced = target.synced
        BY <1>2, <4>1 DEF File
      <4>3. QED
        BY <1>3, <2>3, <4>2 DEF Unversioned
    <3>4. QED
      BY <3>2, <3>3
  <2>5. PhaseOK("migrating")'
    BY <2>4, NamedSteps, FileAssumption
    DEF PhaseOK, Importing, Staged, Opening, Unversioned
  <2>6. FileOK(target)' /\ FileOK(durable)'
    BY <1>1, <1>3, <2>1, <2>4, PhaseFacts DEF FileOK, Verified
  <2>7. Go(p, "migrating")
    BY <1>1, <2>1 DEF Go, ImportInv, ImportTypeOK
  <2>8. QED
    BY <1>1, <2>1, <2>3, <2>4, <2>5, <2>6, <2>7, NamedSteps, PhaseFacts,
       HolderInv
<1>6. QED
  BY <1>4, <1>5

LEMMA VerifyInv ==
  ASSUME ImportInv, NEW p \in Processes, Verify(p)
  PROVE  ImportInv'
<1>1. /\ pc[p] = "verifying" /\ pc[p] \in LockedSteps
      /\ Verified(target) /\ lock' = Nobody /\ Go(p, "open")
      /\ UNCHANGED <<files, failures, crashes>>
  BY NamedSteps DEF Verify
<1>2. target # NoFile /\ durable = target
  BY <1>1, PhaseFacts DEF PhaseOK, Opening
<1>3. QED
  BY <1>1, <1>2, NamedSteps, PhaseFacts, KeepFilesInv

(***************************************************************************)
(* Errors, crashes and the rest.                                            *)
(***************************************************************************)

LEMMA ErrorInv ==
  ASSUME ImportInv, NEW p \in Processes,
         RejectSource(p) \/ RejectCopy(p) \/ RejectTarget(p) \/ Break(p)
  PROVE  ImportInv'
<1>1. pc[p] \in LockedSteps
  BY NamedSteps DEF RejectSource, RejectCopy, RejectTarget, Break
<1>2. /\ Reject(p) /\ UNCHANGED <<source, target, durable, crashes>>
      /\ RemoveStaging \/ UNCHANGED <<staging, journal>>
  BY DEF RejectSource, RejectCopy, RejectTarget, Break, files
<1>3. failures' \in 0..MaxFailures
  <2>1. \/ failures' = failures
        \/ failures < MaxFailures /\ failures' = failures + 1
    BY DEF RejectSource, RejectCopy, RejectTarget, Break
  <2>2. QED
    BY <1>1, <2>1, PhaseFacts, ImportAssumption
<1>4. QED
  BY <1>1, <1>2, <1>3, RejectInv

(* A step of a process that is not between Lock and its release, or that   *)
(* leaves: nobody else's steps or files change.                            *)
LEMMA OutsideInv ==
  ASSUME ImportInv, NEW p \in Processes,
         NEW step \in {"closed", "locking"}, Go(p, step),
         UNCHANGED <<source, target, durable, staging, failures>>,
         crashes' \in 0..MaxCrashes, journal' \in BOOLEAN,
         journal' # journal => lock = p,
         lock' = IF lock = p THEN Nobody ELSE lock
  PROVE  ImportInv'
<1>1. /\ ImportTypeOK /\ pc \in [Processes -> Steps]
      /\ Nobody \notin Processes
      /\ \A q \in Processes : pc[q] \in LockedSteps <=> lock = q
  BY ImportAssumption DEF ImportInv, ImportTypeOK, Steps
<1>2. step \in Steps /\ step \notin LockedSteps /\ step # "open"
  BY NamedSteps DEF Steps
<1>3. /\ pc' \in [Processes -> Steps] /\ pc'[p] = step
      /\ \A q \in Processes \ {p} : pc'[q] = pc[q]
  BY <1>1, <1>2 DEF Go
<1>4. \A q \in Processes : pc'[q] \in LockedSteps <=> lock' = q
  BY <1>1, <1>2, <1>3
<1>5. ImportTypeOK'
  BY <1>1, <1>3, <1>4 DEF ImportTypeOK, Steps
<1>6. FileOK(target)' /\ FileOK(durable)'
  BY DEF ImportInv, FileOK, Verified
<1>7. OpenIsForGood'
  BY <1>2, <1>3 DEF ImportInv, OpenIsForGood, Verified
<1>8. ASSUME NEW q \in Processes, pc'[q] \in LockedSteps
      PROVE  PhaseOK(pc[q])'
  <2>1. q # p /\ pc'[q] = pc[q] /\ lock = q
    BY <1>1, <1>2, <1>3, <1>8
  <2>2. journal' = journal
    BY <2>1
  <2>3. PhaseOK(pc[q])
    BY <1>1, <2>1 DEF ImportInv
  <2>4. QED
    BY <2>1, <2>2, <2>3 DEF PhaseOK, Importing, Staged, Opening
<1>9. QED
  BY <1>5, <1>6, <1>7, <1>8 DEF ImportInv

LEMMA ArriveInv ==
  ASSUME ImportInv, NEW p \in Processes, Begin(p) \/ Close(p) \/ Crash(p)
  PROVE  ImportInv'
<1>1. /\ journal \in BOOLEAN /\ crashes \in 0..MaxCrashes
      /\ pc[p] \in LockedSteps <=> lock = p
  BY DEF ImportInv, ImportTypeOK
<1>2. CASE Begin(p) \/ Close(p)
  <2>1. lock # p
    BY <1>1, <1>2, NamedSteps DEF Begin, Close
  <2>2. QED
    BY <1>1, <1>2, <2>1, OutsideInv DEF Begin, Close, files
<1>3. CASE Crash(p)
  <2>1. journal' \in BOOLEAN /\ (journal' # journal => lock = p)
    BY <1>1, <1>3, NamedSteps DEF Crash
  <2>2. crashes' \in 0..MaxCrashes
    BY <1>1, <1>3, ImportAssumption DEF Crash
  <2>3. QED
    BY <1>3, <2>1, <2>2, OutsideInv DEF Crash
<1>4. QED
  BY <1>2, <1>3

LEMMA LockInv ==
  ASSUME ImportInv, NEW p \in Processes, Lock(p)
  PROVE  ImportInv'
<1>1. /\ pc \in [Processes -> Steps]
      /\ Nobody \notin Processes
      /\ \A q \in Processes : pc[q] \in LockedSteps <=> lock = q
      /\ lock = Nobody /\ lock' = p
      /\ UNCHANGED <<source, target, durable, staging, journal, failures,
                     crashes>>
  BY ImportAssumption DEF ImportInv, ImportTypeOK, Steps, Lock, files
<1>2. /\ pc' \in [Processes -> Steps] /\ pc'[p] = "importing"
      /\ \A q \in Processes \ {p} : pc'[q] = pc[q]
  BY <1>1 DEF Lock, Go, Steps, LockedSteps
<1>3. \A q \in Processes : pc'[q] \in LockedSteps <=> lock' = q
  BY <1>1, <1>2, NamedSteps
<1>4. ImportTypeOK'
  BY <1>1, <1>2, <1>3 DEF ImportInv, ImportTypeOK, Steps
<1>5. FileOK(target)' /\ FileOK(durable)' /\ OpenIsForGood'
  BY <1>1, <1>2 DEF ImportInv, FileOK, OpenIsForGood, Verified
<1>6. ASSUME NEW q \in Processes, pc'[q] \in LockedSteps
      PROVE  PhaseOK(pc[q])'
  <2>1. pc'[q] = "importing"
    BY <1>1, <1>2, <1>3, <1>6
  <2>2. QED
    BY <2>1, NamedSteps DEF PhaseOK, Importing, Staged, Opening
<1>7. QED
  BY <1>4, <1>5, <1>6 DEF ImportInv

LEMMA TornFile ==
  ASSUME NEW file \in File \cup {NoFile}, NEW after \in Torn(file)
  PROVE  /\ after \in File \cup {NoFile}
         /\ FileOK(file) => after = file
         /\ file # NoFile => after # NoFile /\ after.by = file.by
                             /\ after.rev = file.rev
BY FileAssumption DEF Torn, FileOK, File

(* What is torn was not yet in place, and everything starts anew.          *)
LEMMA LosePowerInv ==
  ASSUME ImportInv, LosePower
  PROVE  ImportInv'
<1>1. /\ source \in File \cup {NoFile} /\ target \in File \cup {NoFile}
      /\ durable \in File \cup {NoFile} /\ staging \in File \cup {NoFile}
      /\ FileOK(target) /\ FileOK(durable)
      /\ crashes \in 0..MaxCrashes
      /\ failures \in 0..MaxFailures /\ journal \in BOOLEAN
  BY DEF ImportInv, ImportTypeOK
<1>2. /\ lock' = Nobody /\ pc' = [p \in Processes |-> "closed"]
      /\ durable' = target' /\ UNCHANGED <<source, journal, failures>>
      /\ crashes' \in 0..MaxCrashes
  BY <1>1, ImportAssumption DEF LosePower
<1>3. target' = target \/ target' = durable
  BY <1>1, TornFile DEF LosePower
<1>4. staging' \in File \cup {NoFile}
  <2>1. \/ staging' \in Torn(staging)
        \/ staging' \in Torn(IF durable = NoFile THEN target ELSE staging)
    BY DEF LosePower
  <2>2. QED
    BY <1>1, <2>1, TornFile
<1>5. \A p \in Processes : pc'[p] = "closed"
  BY <1>2
<1>6. \A p \in Processes : pc'[p] \notin LockedSteps /\ pc'[p] # "open"
  BY <1>5, NamedSteps
<1>7. /\ FileOK(target)' /\ FileOK(durable)'
  BY <1>1, <1>2, <1>3 DEF FileOK, Verified
<1>8. ImportTypeOK'
  BY <1>1, <1>2, <1>3, <1>4, <1>6, ImportAssumption, NamedSteps
  DEF ImportTypeOK
<1>9. QED
  BY <1>6, <1>7, <1>8 DEF ImportInv, OpenIsForGood

LEMMA MoveSourceAsideInv ==
  ASSUME ImportInv, MoveSourceAside
  PROVE  ImportInv'
<1>1. /\ source' = NoFile /\ lock = Nobody
      /\ UNCHANGED <<target, durable, staging, journal, lock, pc, failures,
                     crashes>>
  BY DEF MoveSourceAside
<1>2. \A p \in Processes : pc[p] \notin LockedSteps
  BY <1>1, ImportAssumption DEF ImportInv, ImportTypeOK
<1>3. ImportTypeOK' /\ OpenIsForGood' /\ FileOK(target)' /\ FileOK(durable)'
  BY <1>1 DEF ImportInv, ImportTypeOK, OpenIsForGood, FileOK, Verified
<1>4. QED
  BY <1>1, <1>2, <1>3 DEF ImportInv

(***************************************************************************)
(* The theorems.                                                            *)
(***************************************************************************)

\* A step of a start that does not fail it.
Advance(p) ==
  \/ Lock(p) \/ SkipImport(p) \/ StartImport(p) \/ Clear(p) \/ Copy(p)
  \/ Upgrade(p) \/ Release(p) \/ Check(p) \/ Sync(p) \/ Rename(p)
  \/ Publish(p) \/ Inspect(p) \/ Configure(p) \/ Migrate(p) \/ Verify(p)

\* A step that fails it.
Fail(p) ==
  RejectSource(p) \/ RejectCopy(p) \/ RejectTarget(p) \/ Break(p)

LEMMA NextCases ==
  ASSUME Next
  PROVE  \/ \E p \in Processes : Begin(p) \/ Close(p) \/ Crash(p)
         \/ \E p \in Processes : Advance(p) \/ Fail(p)
         \/ LosePower \/ MoveSourceAside
BY DEF Next, Step, Advance, Fail

LEMMA NextInv ==
  ASSUME ImportInv, [Next]_vars
  PROVE  ImportInv'
<1>1. CASE UNCHANGED vars
  BY <1>1
  DEF vars, files, ImportInv, ImportTypeOK, FileOK, Verified, OpenIsForGood,
      PhaseOK, Importing, Staged, Opening
<1>2. ASSUME NEW p \in Processes, Begin(p) \/ Close(p) \/ Crash(p)
      PROVE  ImportInv'
  BY <1>2, ArriveInv
<1>3. ASSUME NEW p \in Processes, Advance(p)
      PROVE  ImportInv'
  <2>1. CASE Lock(p) \/ SkipImport(p) \/ StartImport(p) \/ Clear(p)
    BY <2>1, LockInv, BeforeImportInv, ClearInv
  <2>2. CASE Copy(p) \/ Upgrade(p) \/ Release(p) \/ Check(p)
    BY <2>2, CopyInv, UpgradeInv, ReleaseInv, CheckInv
  <2>3. CASE Sync(p) \/ Rename(p) \/ Publish(p)
    BY <2>3, SyncInv, RenameInv, PublishInv
  <2>4. CASE Inspect(p) \/ Configure(p) \/ Migrate(p) \/ Verify(p)
    BY <2>4, InspectInv, ConfigureInv, MigrateInv, VerifyInv
  <2>5. QED
    BY <1>3, <2>1, <2>2, <2>3, <2>4 DEF Advance
<1>4. ASSUME NEW p \in Processes, Fail(p)
      PROVE  ImportInv'
  BY <1>4, ErrorInv DEF Fail
<1>5. CASE Next
  BY <1>2, <1>3, <1>4, <1>5, NextCases, LosePowerInv, MoveSourceAsideInv
<1>6. QED
  BY <1>1, <1>5

LEMMA InitInv == Init => ImportInv
<1>1. SUFFICES ASSUME Init PROVE ImportInv
  OBVIOUS
<1>2. /\ source \in File \cup {NoFile} /\ target \in File \cup {NoFile}
      /\ target # NoFile => target.by = Nobody /\ target.synced
      /\ durable = target /\ staging = NoFile /\ journal = FALSE
      /\ lock = Nobody /\ failures = 0 /\ crashes = 0
      /\ pc = [p \in Processes |-> "closed"]
  BY <1>1 DEF Init, Found
<1>3. \A p \in Processes : pc[p] = "closed"
  BY <1>2
<1>4. \A p \in Processes : pc[p] \notin LockedSteps /\ pc[p] # "open"
  BY <1>3, NamedSteps
<1>5. ImportTypeOK
  <2>1. \A p \in Processes : pc[p] \in LockedSteps <=> lock = p
    BY <1>2, <1>4, ImportAssumption
  <2>2. pc \in [Processes ->
                 LockedSteps \cup {"closed", "failed", "locking", "open"}]
    BY <1>2
  <2>3. failures \in 0..MaxFailures /\ crashes \in 0..MaxCrashes
    BY <1>2, ImportAssumption
  <2>4. QED
    BY <1>2, <2>1, <2>2, <2>3 DEF ImportTypeOK
<1>6. FileOK(target) /\ FileOK(durable)
  BY <1>2 DEF FileOK
<1>7. QED
  BY <1>4, <1>5, <1>6 DEF ImportInv, OpenIsForGood

LEMMA Invariance == Spec => []ImportInv
<1>1. Init => ImportInv
  BY InitInv
<1>2. ImportInv /\ [Next]_vars => ImportInv'
  BY NextInv
<1>3. QED
  BY <1>1, <1>2, PTL DEF Spec

(* ImportTypeOK: the types, and that the file lock has one holder: the     *)
(* process between crossProcessLock and its release (database.go:195).     *)
THEOREM ImportTypesHold == Spec => []ImportTypeOK
<1>1. ImportInv => ImportTypeOK
  BY DEF ImportInv
<1>2. QED
  BY <1>1, Invariance, PTL

(* ImportsArriveWhole: a database importLocked renamed into place is at    *)
(* the head revision, sound, and without the claims of processes that are  *)
(* gone, also after a power failure (import.go:18-20).                     *)
THEOREM ImportsAlwaysArriveWhole == Spec => []ImportsArriveWhole
<1>1. ImportInv => ImportsArriveWhole
  BY DEF ImportInv, FileOK, ImportsArriveWhole
<1>2. QED
  BY <1>1, Invariance, PTL

(* OpenIsForGood: a process that went through migrate works on a verified  *)
(* database that a power failure leaves as it is.                          *)
THEOREM OpenStaysGood == Spec => []OpenIsForGood
<1>1. ImportInv => OpenIsForGood
  BY DEF ImportInv
<1>2. QED
  BY <1>1, Invariance, PTL

(* NothingIsReplaced: no step of importLocked, bootstrapLocked or of a     *)
(* failure puts another database, or an older revision, at the path.       *)
THEOREM NothingIsEverReplaced == Spec => NothingIsReplaced
<1> DEFINE Kept ==
      \/ /\ target' # NoFile /\ target'.by = target.by
         /\ target'.rev >= target.rev
      \/ target' = durable /\ durable # target /\ crashes' # crashes
<1>1. ASSUME ImportInv, [Next]_vars, target # NoFile
      PROVE  Kept
  <2>1. /\ target \in File /\ target.rev \in 0..(Head + 1)
        /\ crashes \in 0..MaxCrashes
    BY <1>1 DEF ImportInv, ImportTypeOK, File
  <2>2. target.rev >= target.rev
    BY <2>1, ImportAssumption
  <2>3. ASSUME target' = target
        PROVE  Kept
    BY <1>1, <2>2, <2>3
  <2>4. ASSUME NEW p \in Processes,
               Begin(p) \/ Close(p) \/ Crash(p) \/ Fail(p)
        PROVE  Kept
    <3>1. target' = target
      BY <2>4 DEF Begin, Close, Crash, Fail, RejectSource, RejectCopy,
                  RejectTarget, Break, files
    <3>2. QED
      BY <2>3, <3>1
  <2>5. ASSUME NEW p \in Processes, Advance(p)
        PROVE  Kept
    <3>1. CASE Rename(p)
      <4>1. pc[p] \in LockedSteps /\ pc[p] = "renaming"
        BY <3>1, NamedSteps DEF Rename
      <4>2. target = NoFile
        BY <1>1, <4>1, PhaseFacts, NamedSteps DEF PhaseOK, Importing
      <4>3. QED
        BY <1>1, <4>2
    <3>2. CASE Migrate(p)
      <4>1. CASE target' = target
        BY <2>3, <4>1
      <4>2. CASE target' = [target EXCEPT !.rev = @ + 1]
        <5>1. /\ target'.rev = target.rev + 1 /\ target'.by = target.by
              /\ target.rev + 1 \in 0..(Head + 2)
          BY <2>1, <4>2, ImportAssumption DEF File
        <5>2. target' # NoFile
          <6>1. PhaseOK("migrating") /\ pc[p] \in LockedSteps
            BY <1>1, <3>2, NamedSteps, PhaseFacts DEF Migrate
          <6>2. ImportInv'
            BY <1>1, <3>2, MigrateInv
          <6>3. pc' = pc \/ pc'[p] = "verifying"
            BY <1>1, <3>2 DEF Migrate, Go, ImportInv, ImportTypeOK
          <6>4. pc'[p] = "migrating" \/ pc'[p] = "verifying"
            BY <3>2, <6>3 DEF Migrate
          <6>5. PhaseOK(pc[p])'
            BY <6>2, <6>4, NamedSteps DEF ImportInv
          <6>6. QED
            BY <6>4, <6>5 DEF PhaseOK, Opening
        <5>3. QED
          BY <2>1, <5>1, <5>2, ImportAssumption
      <4>3. CASE target' = [target EXCEPT !.version = TRUE]
        <5>1. target' \in File /\ target'.by = target.by
              /\ target'.rev = target.rev
          BY <2>1, <4>3 DEF File
        <5>2. QED
          BY <2>2, <5>1, FileAssumption
      <4>4. QED
        BY <3>2, <4>1, <4>2, <4>3 DEF Migrate
    <3>3. CASE ~Rename(p) /\ ~Migrate(p)
      <4>1. target' = target
        BY <1>1, <2>5, <3>3
        DEF Advance, Lock, SkipImport, StartImport, Clear, Copy, Upgrade,
            Release, Check, Sync, Publish, Inspect, Configure, Verify, files
      <4>2. QED
        BY <2>3, <4>1
    <3>4. QED
      BY <3>1, <3>2, <3>3
  <2>6. CASE LosePower
    <3>1. crashes' # crashes
      BY <2>1, <2>6 DEF LosePower
    <3>2. CASE target' \in Torn(target)
      BY <1>1, <2>1, <2>2, <3>2, TornFile
    <3>3. CASE durable # target /\ target' = durable
      BY <3>1, <3>3
    <3>4. QED
      BY <2>6, <3>2, <3>3 DEF LosePower
  <2>7. CASE MoveSourceAside
    BY <2>3, <2>7 DEF MoveSourceAside
  <2>8. CASE UNCHANGED vars
    BY <2>3, <2>8 DEF vars, files
  <2>9. QED
    BY <1>1, <2>4, <2>5, <2>6, <2>7, <2>8, NextCases
<1>2. ImportInv /\ [Next]_vars => [target # NoFile => Kept]_vars
  BY <1>1
<1>3. QED
  BY <1>2, Invariance, PTL DEF Spec, NothingIsReplaced

(* A start fails where the database it works on cannot be used.            *)
LEMMA FailureHasACause ==
  ASSUME ImportInv, NEW p \in Processes, Fail(p)
  PROVE  \/ failures' # failures
         \/ ~Usable(IF target = NoFile THEN source ELSE target)
<1>1. CASE RejectSource(p)
  BY <1>1 DEF RejectSource, Usable, Empty, Unversioned
<1>2. CASE RejectCopy(p)
  <2>1. pc[p] \in LockedSteps
    BY <1>2, NamedSteps DEF RejectCopy
  <2>2. PhaseOK(pc[p]) /\ source \in File \cup {NoFile}
    BY <2>1, PhaseFacts
  <2>3. /\ target = NoFile /\ source # NoFile /\ source \in File
        /\ source.version
    BY <1>2, <2>2, NamedSteps DEF RejectCopy, PhaseOK, Importing
  <2>4. source.rev > Head \/ ~source.linked
    <3>1. CASE pc[p] = "copying" /\ staging # NoFile
      BY <2>2, <3>1 DEF PhaseOK, Staged
    <3>2. CASE pc[p] = "upgrading" /\ (~staging.sound \/ staging.rev > Head)
      <4>1. /\ staging.sound
            /\ staging.rev <= Head \/ staging.rev = source.rev
        BY <2>2, <3>2, NamedSteps DEF PhaseOK, Staged
      <4>2. staging \in File
        BY <2>1, <2>2, <3>2, NamedSteps, PhaseFacts DEF PhaseOK, Staged
      <4>3. QED
        BY <3>2, <4>1, <4>2, ImportAssumption DEF File
    <3>3. CASE pc[p] = "checking" /\ ~Verified(staging)
      BY <2>2, <3>3, NamedSteps DEF PhaseOK, Staged, Verified
    <3>4. QED
      BY <1>2, <3>1, <3>2, <3>3 DEF RejectCopy
  <2>5. source.rev \in 0..(Head + 1)
    BY <2>3 DEF File
  <2>6. ~Usable(source)
    BY <2>3, <2>4, <2>5, ImportAssumption DEF Usable, Empty
  <2>7. QED
    BY <2>3, <2>6
<1>3. CASE RejectTarget(p)
  <2>1. pc[p] \in LockedSteps
    BY <1>3, NamedSteps DEF RejectTarget
  <2>2. PhaseOK(pc[p]) /\ target \in File \cup {NoFile}
    BY <2>1, PhaseFacts
  <2>3. CASE /\ pc[p] = "bootstrapping"
             /\ target # NoFile /\ (~target.sound \/ Unversioned(target))
    BY <2>3 DEF Usable, Empty, Unversioned
  <2>4. CASE pc[p] = "migrating" /\ target.rev > Head
    <3>1. target # NoFile /\ target.rev \in 0..(Head + 1)
      BY <2>2, <2>4 DEF PhaseOK, Opening, File
    <3>2. QED
      BY <2>4, <3>1, ImportAssumption DEF Usable, Empty
  <2>5. CASE pc[p] = "verifying" /\ ~Verified(target)
    BY <2>2, <2>5 DEF PhaseOK, Opening, Verified, Usable, Empty
  <2>6. QED
    BY <1>3, <2>3, <2>4, <2>5 DEF RejectTarget
<1>4. CASE Break(p)
  BY <1>4, PhaseFacts, ImportAssumption DEF Break
<1>5. QED
  BY <1>1, <1>2, <1>3, <1>4 DEF Fail

(* LeftoversDoNotFailStarts: a staged copy, a journal or a half-migrated   *)
(* target that a start before it left behind never fails a start; an       *)
(* unusable database or a failing call does.                               *)
THEOREM StartsFailForACause == Spec => LeftoversDoNotFailStarts
<1> DEFINE Caused ==
      \/ failures' # failures
      \/ ~Usable(IF target = NoFile THEN source ELSE target)
<1>1. ASSUME ImportInv, [Next]_vars, NEW p \in Processes,
             pc[p] # "failed", pc'[p] = "failed"
      PROVE  Caused
  <2>1. pc \in [Processes -> Steps]
    BY <1>1 DEF ImportInv, ImportTypeOK, Steps
  <2>2. ASSUME NEW q \in Processes, NEW step \in Steps \ {"failed"},
               Go(q, step)
        PROVE  FALSE
    <3>1. pc'[p] = pc[p] \/ pc'[p] = step
      BY <2>1, <2>2 DEF Go
    <3>2. QED
      BY <1>1, <2>2, <3>1
  <2>3. ASSUME NEW q \in Processes, Begin(q) \/ Close(q) \/ Crash(q)
        PROVE  FALSE
    BY <2>2, <2>3 DEF Begin, Close, Crash, Steps
  <2>4. ASSUME NEW q \in Processes, Advance(q)
        PROVE  FALSE
    <3>1. pc' # pc
      BY <1>1
    <3>2. CASE Lock(q) \/ SkipImport(q) \/ StartImport(q) \/ Clear(q)
      BY <2>2, <3>2, NamedSteps
      DEF Lock, SkipImport, StartImport, Clear, Steps
    <3>3. CASE Copy(q) \/ Upgrade(q) \/ Release(q) \/ Check(q)
      BY <2>2, <3>1, <3>3, NamedSteps
      DEF Copy, Upgrade, Release, Check, Steps
    <3>4. CASE Sync(q) \/ Rename(q) \/ Publish(q)
      BY <2>2, <3>4, NamedSteps DEF Sync, Rename, Publish, Steps
    <3>5. CASE Inspect(q) \/ Configure(q) \/ Migrate(q) \/ Verify(q)
      BY <2>2, <3>1, <3>5, NamedSteps
      DEF Inspect, Configure, Migrate, Verify, Steps
    <3>6. QED
      BY <2>4, <3>2, <3>3, <3>4, <3>5 DEF Advance
  <2>5. ASSUME NEW q \in Processes, Fail(q)
        PROVE  Caused
    BY <1>1, <2>5, FailureHasACause
  <2>6. pc' # pc
    BY <1>1
  <2>7. ~LosePower /\ ~MoveSourceAside /\ ~UNCHANGED vars
    BY <1>1, <2>6 DEF LosePower, MoveSourceAside, vars
  <2>8. QED
    BY <1>1, <2>3, <2>4, <2>5, <2>7, NextCases
<1>2. ImportInv /\ [Next]_vars =>
        [\A p \in Processes :
           pc[p] # "failed" /\ pc'[p] = "failed" => Caused]_vars
  BY <1>1
<1>3. QED
  BY <1>2, Invariance, PTL DEF Spec, LeftoversDoNotFailStarts
=============================================================================
