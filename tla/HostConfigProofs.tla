-------------------------- MODULE HostConfigProofs --------------------------
(***************************************************************************)
(* What migrations, rollbacks and the helper's operations leave on a host, *)
(* for any configurations, operations and bounds.                          *)
(***************************************************************************)
EXTENDS HostConfig, TLAPS

\* What backups hold
Saved == copies \cup Range(kept)

\* The helper works on an operation without a result and restores only where it
\* knows the configuration; the administrator wrote a configuration.
WorkOK ==
  /\ hpc # "idle" => hop \in Ops /\ ledger[hop] = "none"
  /\ hpc = "save" => hres \in {"succeeded", "failed", "rolled_back"}
  /\ hpc \in {"swap", "restart_restored", "recheck"} => kind # "none"
  /\ hpc = "swap" => kind = "dir"
  /\ latest \in Contents

\* A migration saves what it read before it replaces it.  What was written by
\* hand is saved once an operation has made its backup, and is saved or was
\* read when a migration began.
BackupsOK ==
  /\ mpc \notin {"idle", "backup"} => mread \in copies
  /\ ~raced => /\ mpc # "idle" => latest \in {mread} \cup Saved
               /\ \A op \in Ops : Unfinished(op) => latest \in Saved

\* A command and an operation that have not met do not work at the same time.
\* After a sound edit there is nothing but sound configurations to go back to.
SoundOK ==
  /\ ~cut => mpc = "idle" \/ hpc = "idle"
  /\ ~cut /\ ~raced /\ latest \notin Broken =>
       /\ mpc = "idle" => config \notin Broken
       /\ mpc # "idle" => mread \notin Broken
       /\ mpc \in {"backup", "install", "restart_old", "wait_old"} => config = mread
       /\ mpc = "wait" => running \in {Down, config}
       /\ \A op \in Ops : Unfinished(op) => kept[op] \notin Broken
       /\ displaced \notin Broken

\* A command that nobody disturbs: the file is the one it read or the one it
\* wrote, and the core runs it or nothing.
CommandAlone ==
  alone /\ mpc # "idle" =>
    /\ hpc = "idle"
    /\ config = IF mpc \in {"restart", "wait", "restore"} THEN mnew ELSE mread
    /\ mpc \in {"wait", "wait_old"} => running \in {Down, config}

\* An operation that nobody disturbs: the file is the one it found until it
\* installs its backup.  The core runs one of the two, or what it ran before.
OperationAlone ==
  alone /\ hpc # "idle" =>
    /\ mpc = "idle"
    /\ hpc \in {"backup", "restart", "check", "restore"} => config = found
    /\ hpc = "swap" => displaced = found /\ config = Absent
    /\ hpc \in {"restart_restored", "recheck"} => config = kept[hop] /\ kept[hop] # Absent
    /\ hpc # "save" => running \in {Down, found, ran, kept[hop]}

HostInv ==
  TypeOK /\ WorkOK /\ BackupsOK /\ LatestIsKept /\ SoundOK /\ CommandAlone /\ OperationAlone

\* What the core may run after a start
LEMMA StartedRuns ==
  ASSUME NEW c \in Contents \cup {Absent}
  PROVE  Started(c) \subseteq {c, Down} /\ Started(c) \subseteq Contents \cup {Down}
<1>1. CASE c = Absent
  BY <1>1 DEF Started
<1>2. CASE c # Absent
  BY <1>2 DEF Started
<1> QED BY <1>1, <1>2

\* Backups are added, and none is replaced.
Grows == copies \subseteq copies' /\ \A op \in Ops : kept[op] # Absent => kept'[op] = kept[op]

\* What a backup holds stays there.
LEMMA SavedGrows ==
  ASSUME kept \in [Ops -> Contents \cup {Absent}], kept' \in [Ops -> Contents \cup {Absent}],
         Grows, NEW c \in Saved, c \in Contents
  PROVE  c \in Saved'
BY HostBounds DEF Saved, Grows, Range

\* A step of the core alone, or a restart by hand
LEMMA CoreOK ==
  ASSUME HostInv, CoreFails \/ CoreComesBack \/ RestartByHand
  PROVE  HostInv'
<1>1. /\ UNCHANGED <<disk, backups, migration, helper, latest, raced, cut>>
      /\ running' \in {Down} \cup Started(config) /\ (alone' => alone)
  BY DEF CoreFails, CoreComesBack, RestartByHand, history
<1>2. running' \in {Down, config} /\ running' \in Contents \cup {Down}
  BY <1>1, StartedRuns DEF HostInv, TypeOK
<1> USE DEF disk, backups, migration, helper
<1>3. TypeOK' /\ WorkOK'
  BY <1>1, <1>2 DEF HostInv, TypeOK, WorkOK
<1>4. BackupsOK' /\ LatestIsKept'
  BY <1>1, Zenon DEF HostInv, BackupsOK, LatestIsKept, Saved, Unfinished
<1>5. SoundOK'
  BY <1>1, <1>2, Zenon DEF HostInv, SoundOK, Unfinished
<1>6. CommandAlone'
  BY <1>1, <1>2, Zenon DEF HostInv, CommandAlone
<1>7. OperationAlone'
  <2>1. alone /\ hpc \notin {"idle", "save"} => config \in {found, kept[hop], Absent}
    BY DEF HostInv, TypeOK, OperationAlone
  <2>2. alone /\ hpc \notin {"idle", "save"} => running' \in {Down, found, ran, kept[hop]}
    BY <1>2, <2>1, HostBounds
  <2> QED BY <1>1, <2>2, Zenon DEF HostInv, OperationAlone
<1> QED BY <1>3, <1>4, <1>5, <1>6, <1>7 DEF HostInv

\* An edit by hand
LEMMA EditOK ==
  ASSUME HostInv, NEW c \in Written, EditConfig(c)
  PROVE  HostInv'
<1>1. /\ UNCHANGED <<kind, running, backups, migration, helper, cut>>
      /\ config # Absent /\ config' = c /\ latest' = c /\ alone' = FALSE
      /\ raced' = (raced \/ mpc # "idle" \/ hpc # "idle" \/ \E op \in Ops : Unfinished(op))
  BY DEF EditConfig
<1>2. c \in Contents /\ c # Absent
  BY HostBounds
<1> USE DEF backups, migration, helper
<1>3. TypeOK' /\ WorkOK'
  BY <1>1, <1>2 DEF HostInv, TypeOK, WorkOK
<1>4. BackupsOK' /\ LatestIsKept'
  BY <1>1, Zenon DEF HostInv, BackupsOK, LatestIsKept, Saved, Unfinished
<1>5. displaced = Absent \/ raced'
  BY <1>1, Zenon DEF HostInv, TypeOK
<1>6. SoundOK'
  BY <1>1, <1>2, <1>5, HostBounds, Zenon DEF HostInv, SoundOK, Unfinished
<1>7. CommandAlone' /\ OperationAlone'
  BY <1>1 DEF CommandAlone, OperationAlone
<1> QED BY <1>3, <1>4, <1>6, <1>7 DEF HostInv

\* A rewritten configuration is one.
LEMMA RewrittenType ==
  ASSUME NEW target \in {"http", "stats"}, NEW c \in Contents
  PROVE  RewriteRuntime(target, c) \in Contents
BY DEF RewriteRuntime, Contents, Runtimes

\* A command that ends at once, or begins with what it read
LEMMA CommandOK ==
  ASSUME HostInv,
         \/ CommandRefused
         \/ \E target \in {"http", "stats"} : Apply(target)
         \/ \E backup \in copies : Rollback(backup)
  PROVE  HostInv'
<1>1. /\ mpc = "idle" /\ UNCHANGED <<disk, running, backups, helper, latest, raced>>
      /\ alone' = (hpc = "idle") /\ cut' = (cut \/ hpc # "idle")
  BY DEF CommandRefused, Apply, Rollback, Command
<1> DEFINE Begun == \/ mpc' = "idle"
                    \/ /\ mpc' = "backup" /\ mread' = config /\ mnew' # config
                       /\ config \in Contents /\ mnew' \in Contents
<1>2. Begun
  <2>1. CASE CommandRefused
    BY <2>1 DEF CommandRefused, Report
  <2>2. ASSUME NEW target \in {"http", "stats"}, Apply(target)
        PROVE  Begun
    <3>1. config \in Contents
      BY <2>2, Zenon DEF Apply, HostInv, TypeOK
    <3>2. RewriteRuntime(target, config) \in Contents
      BY <3>1, RewrittenType
    <3>3. CASE RewriteRuntime(target, config) # config
      BY <2>2, <3>1, <3>2, <3>3 DEF Apply, Begin
    <3>4. CASE RewriteRuntime(target, config) = config
      BY <2>2, <3>4 DEF Apply, Report
    <3> QED BY <3>3, <3>4
  <2>3. ASSUME NEW backup \in copies, Rollback(backup)
        PROVE  Begun
    <3>1. config \in Contents /\ backup \in Contents
      BY <2>3 DEF Rollback, HostInv, TypeOK
    <3> QED BY <2>3, <3>1 DEF Rollback, Begin, Report
  <2> QED BY <2>1, <2>2, <2>3
<1> USE DEF disk, backups, helper
<1>3. TypeOK' /\ WorkOK'
  BY <1>1, <1>2 DEF HostInv, TypeOK, WorkOK
<1>4. BackupsOK' /\ LatestIsKept'
  BY <1>1, <1>2, Zenon DEF HostInv, BackupsOK, LatestIsKept, Saved, Unfinished
<1>5. SoundOK'
  BY <1>1, <1>2, Zenon DEF HostInv, SoundOK, Unfinished
<1>6. CommandAlone' /\ OperationAlone'
  BY <1>1, <1>2, Zenon DEF HostInv, CommandAlone, OperationAlone
<1> QED BY <1>3, <1>4, <1>5, <1>6 DEF HostInv

\* The backup of a migration
LEMMA WriteBackupOK ==
  ASSUME HostInv, writeBackup
  PROVE  HostInv'
<1>1. /\ mpc = "backup" /\ UNCHANGED <<disk, running, kept, helper, history>>
      /\ \/ copies' = copies \cup {mread} /\ mpc' = "install" /\ UNCHANGED <<mread, mnew>>
         \/ copies' = copies /\ mpc' = "idle"
  BY DEF writeBackup, Report
<1>2. mread \in Contents
  BY <1>1 DEF HostInv, TypeOK
<1> USE DEF disk, helper, history
<1>3. TypeOK' /\ WorkOK'
  BY <1>1, <1>2 DEF HostInv, TypeOK, WorkOK
<1>4. BackupsOK' /\ LatestIsKept'
  BY <1>1 DEF HostInv, BackupsOK, LatestIsKept, Saved, Unfinished
<1>5. SoundOK'
  BY <1>1, Zenon DEF HostInv, SoundOK, Unfinished
<1>6. CommandAlone' /\ OperationAlone'
  BY <1>1, Zenon DEF HostInv, CommandAlone, OperationAlone
<1> QED BY <1>3, <1>4, <1>5, <1>6 DEF HostInv

\* A command replaces the file, or fails to.
LEMMA WriteConfigOK ==
  ASSUME HostInv, InstallConfig \/ RestoreConfig
  PROVE  HostInv'
<1>1. /\ UNCHANGED <<kind, running, backups, helper, latest, raced>>
      /\ alone' = (alone /\ hpc = "idle")
      /\ \/ mpc = "install" /\ mpc' = "restart" /\ config' = mnew /\ UNCHANGED <<mread, mnew, cut>>
         \/ mpc = "restore" /\ mpc' = "restart_old" /\ config' = mread
            /\ UNCHANGED <<mread, mnew, cut>>
         \/ mpc \in {"install", "restore"} /\ mpc' = "idle" /\ cut' = TRUE
            /\ config' \in {config, mread, mnew}
  BY DEF InstallConfig, RestoreConfig, writeAtomic, Report
<1>2. /\ mread \in Contents /\ mnew \in Contents /\ mread \in copies
      /\ mread # Absent /\ mnew # Absent
  BY <1>1, HostBounds, Zenon DEF HostInv, TypeOK, BackupsOK
<1> USE DEF backups, helper
<1>3. TypeOK' /\ WorkOK'
  BY <1>1, <1>2 DEF HostInv, TypeOK, WorkOK
<1>4. ~raced => latest \in Saved
  BY <1>1, <1>2, Zenon DEF HostInv, BackupsOK, Saved
<1>5. BackupsOK' /\ LatestIsKept'
  BY <1>1, <1>2, <1>4, Zenon DEF BackupsOK, LatestIsKept, Saved, Unfinished
<1>6. SoundOK'
  BY <1>1, Zenon DEF HostInv, SoundOK, Unfinished
<1>7. CommandAlone' /\ OperationAlone'
  BY <1>1, Zenon DEF HostInv, CommandAlone, OperationAlone
<1> QED BY <1>3, <1>5, <1>6, <1>7 DEF HostInv

\* A command restarts the core.
LEMMA RestartMigratedOK ==
  ASSUME HostInv, RestartMigrated
  PROVE  HostInv'
<1>1. /\ UNCHANGED <<disk, backups, helper, latest, raced, cut>>
      /\ alone' = (alone /\ hpc = "idle")
      /\ running' \in {Down} \cup Started(config) \/ (running' = running /\ mpc' \in {"restore", "idle"})
      /\ \/ mpc = "restart" /\ mpc' \in {"wait", "restore"} /\ UNCHANGED <<mread, mnew>>
         \/ mpc = "restart_old" /\ mpc' = "wait_old" /\ UNCHANGED <<mread, mnew>>
         \/ mpc = "restart_old" /\ mpc' = "idle"
  BY DEF RestartMigrated, Restart, Goto, Report
<1>2. /\ running' \in {Down, config} \/ mpc' \in {"restore", "idle"}
      /\ running' \in Contents \cup {Down}
  BY <1>1, StartedRuns, Zenon DEF HostInv, TypeOK
<1> USE DEF disk, backups, helper
<1>3. TypeOK' /\ WorkOK'
  BY <1>1, <1>2 DEF HostInv, TypeOK, WorkOK
<1>4. BackupsOK' /\ LatestIsKept'
  BY <1>1, Zenon DEF HostInv, BackupsOK, LatestIsKept, Saved, Unfinished
<1>5. SoundOK'
  BY <1>1, <1>2, Zenon DEF HostInv, SoundOK, Unfinished
<1>6. CommandAlone' /\ OperationAlone'
  BY <1>1, <1>2, Zenon DEF HostInv, CommandAlone, OperationAlone
<1> QED BY <1>3, <1>4, <1>5, <1>6 DEF HostInv

\* A command waits for the core to stay up.
LEMMA WaitOK ==
  ASSUME HostInv, WaitMigrated \/ WaitRestored
  PROVE  HostInv'
<1>1. /\ UNCHANGED <<disk, running, backups, helper, history>>
      /\ \/ mpc = "wait" /\ mpc' = "idle" /\ running # Down /\ running \notin Broken
         \/ mpc = "wait" /\ mpc' = "restore" /\ UNCHANGED <<mread, mnew>>
         \/ mpc = "wait_old" /\ mpc' = "idle"
  BY DEF WaitMigrated, WaitRestored, Stable, Report, Goto
<1> USE DEF disk, backups, helper, history
<1>2. TypeOK' /\ WorkOK'
  BY <1>1 DEF HostInv, TypeOK, WorkOK
<1>3. BackupsOK' /\ LatestIsKept'
  BY <1>1, Zenon DEF HostInv, BackupsOK, LatestIsKept, Saved, Unfinished
<1>4. SoundOK'
  BY <1>1, Zenon DEF HostInv, SoundOK, Unfinished
<1>5. CommandAlone' /\ OperationAlone'
  BY <1>1, Zenon DEF HostInv, CommandAlone, OperationAlone
<1> QED BY <1>2, <1>3, <1>4, <1>5 DEF HostInv

\* The helper takes an operation up.
LEMMA HandleOK ==
  ASSUME HostInv, NEW op \in Ops, Handle(op)
  PROVE  HostInv'
<1>1. /\ hpc = "idle" /\ ledger[op] = "none" /\ hop' = op /\ found' = config /\ ran' = running
      /\ waiting' = TRUE /\ hpc' = "backup"
      /\ alone' = (mpc = "idle") /\ cut' = (cut \/ mpc # "idle")
      /\ UNCHANGED <<disk, running, backups, migration, displaced, ledger, pending, latest, raced>>
  BY DEF Handle
<1> USE DEF disk, backups, migration
<1>2. TypeOK' /\ WorkOK'
  BY <1>1 DEF HostInv, TypeOK, WorkOK
<1>3. BackupsOK' /\ LatestIsKept'
  BY <1>1, Zenon DEF HostInv, BackupsOK, LatestIsKept, Saved, Unfinished
<1>4. SoundOK'
  BY <1>1, Zenon DEF HostInv, SoundOK, Unfinished
<1>5. CommandAlone' /\ OperationAlone'
  BY <1>1, Zenon DEF HostInv, CommandAlone, OperationAlone
<1> QED BY <1>2, <1>3, <1>4, <1>5 DEF HostInv

\* The helper makes its backup, finds one, or goes on without one.
LEMMA CreateBackupOK ==
  ASSUME HostInv, createBackup
  PROVE  HostInv'
<1>1. /\ hpc = "backup" /\ UNCHANGED <<disk, running, copies, migration, history>>
      /\ UNCHANGED <<hop, ledger, pending, waiting>> /\ (hpc' = "save" \/ UNCHANGED <<found, ran>>)
      /\ \/ hpc' = "save" /\ hres' \in {"succeeded", "failed"} /\ displaced' = Absent
         \/ hpc' = "restart" /\ UNCHANGED <<hres, displaced>>
            /\ (kind = "none" \/ kept'[hop] # Absent)
      /\ \/ kept' = kept
         \/ kept[hop] = Absent /\ config # Absent /\ kept' = [kept EXCEPT ![hop] = config]
  <2> USE DEF AfterBackup, Answer, Continue
  <2>1. hpc = "backup" /\ UNCHANGED <<disk, running, copies, migration, history>>
    BY Zenon DEF createBackup
  <2>2. hop \in Ops /\ kept \in [Ops -> Contents \cup {Absent}] /\ (config = Absent => kind = "dir")
    BY <2>1 DEF HostInv, TypeOK, WorkOK
  <2>3. CASE existingOperationBackup /\ AfterBackup /\ UNCHANGED kept
    BY <2>1, <2>2, <2>3 DEF existingOperationBackup
  <2>4. CASE ~existingOperationBackup /\ (createFileBackup \/ createDirectoryBackup) /\ AfterBackup
    <3>1. /\ config # Absent /\ kept[hop] = Absent /\ kept' = [kept EXCEPT ![hop] = config]
      BY <2>2, <2>4 DEF existingOperationBackup, createFileBackup, createDirectoryBackup,
          publishBackup
    <3>2. kept'[hop] # Absent
      BY <2>2, <3>1
    <3> QED BY <2>1, <2>4, <3>1, <3>2, Zenon
  <2>5. CASE Answer("failed") /\ UNCHANGED kept
    BY <2>1, <2>5
  <2>6. CASE /\ kind = "none" /\ UNCHANGED kept
             /\ IF Type[hop] = "backup_config" THEN Answer("failed") ELSE Continue("restart")
    BY <2>1, <2>6
  <2> QED BY <2>3, <2>4, <2>5, <2>6, Zenon DEF createBackup
<1> USE DEF disk, migration, history
<1>2. /\ hop \in Ops /\ kept \in [Ops -> Contents \cup {Absent}] /\ ledger[hop] = "none"
      /\ displaced = Absent /\ config \in Contents \cup {Absent}
  BY <1>1, Zenon DEF HostInv, TypeOK, WorkOK
<1>3. /\ kept' \in [Ops -> Contents \cup {Absent}] /\ Grows
      /\ \A op \in Ops : kept'[op] = kept[op] \/ (op = hop /\ kept'[op] = config)
  BY <1>1, <1>2 DEF Grows
<1>4. TypeOK' /\ WorkOK'
  BY <1>1, <1>2, <1>3 DEF HostInv, TypeOK, WorkOK
<1>5. latest \in Contents /\ (latest \in Saved => latest \in Saved')
  BY <1>2, <1>3, SavedGrows DEF HostInv, WorkOK
<1>6. LatestIsKept'
  BY <1>1, <1>5, Zenon DEF HostInv, LatestIsKept, Saved
<1>7. BackupsOK'
  <2>1. CASE kept' = kept
    BY <1>1, <1>5, <2>1, Zenon DEF HostInv, BackupsOK, Unfinished, Saved
  <2>2. CASE kept[hop] = Absent /\ config # Absent /\ kept' = [kept EXCEPT ![hop] = config]
    <3>1. config \in Saved'
      BY <1>2, <2>2 DEF Saved, Range
    <3>2. ~raced => latest \in Saved'
      BY <1>5, <3>1 DEF HostInv, LatestIsKept, Saved
    <3> QED BY <1>1, <3>2, Zenon DEF HostInv, BackupsOK
  <2> QED BY <1>1, <2>1, <2>2
<1>8. SoundOK'
  BY <1>1, <1>2, <1>3, Zenon DEF HostInv, SoundOK, Unfinished
<1>9. CommandAlone'
  BY <1>1, Zenon DEF HostInv, CommandAlone
<1>10. OperationAlone'
  <2>1. /\ alone => running \in {Down, found, ran, kept[hop]} /\ config = found
        /\ running \in Contents \cup {Down} /\ running' = running
    BY <1>1, Zenon DEF HostInv, TypeOK, OperationAlone
  <2>2. kept'[hop] = kept[hop] \/ kept[hop] = Absent
    BY <1>1
  <2>3. alone => running' \in {Down, found, ran, kept'[hop]}
    BY <2>1, <2>2, HostBounds
  <2> QED BY <1>1, <2>3, Zenon DEF HostInv, OperationAlone
<1> QED BY <1>4, <1>6, <1>7, <1>8, <1>9, <1>10 DEF HostInv

\* The helper restarts the core, looks at it and answers.
LEMMA HelperRestartOK ==
  ASSUME HostInv, restartCore \/ CheckActive \/ RestartRestored \/ CheckRestored
  PROVE  HostInv'
<1>1. /\ UNCHANGED <<disk, backups, migration, latest, raced, cut>>
      /\ UNCHANGED <<hop, ledger, pending, waiting>> /\ (hpc' = "save" \/ UNCHANGED <<found, ran>>)
      /\ alone' => alone
      /\ \/ hpc = "restart" /\ hpc' \in {"check", "restore"} /\ UNCHANGED <<hres, displaced>>
         \/ hpc = "check" /\ hpc' = "restore" /\ UNCHANGED <<hres, displaced>>
         \/ hpc = "restart_restored" /\ hpc' = "recheck" /\ UNCHANGED <<hres, displaced>>
         \/ /\ hpc \in {"check", "recheck"} /\ hpc' = "save" /\ displaced' = Absent
            /\ hres' \in {"succeeded", "failed", "rolled_back"}
      /\ \/ running' \in {Down} \cup Started(config)
         \/ running' = running
  <2>1. CASE restartCore
    BY <2>1, ZenonT(30) DEF restartCore, Restart, Continue
  <2>2. CASE CheckActive
    BY <2>2, Zenon DEF CheckActive, Continue, Answer, history
  <2>3. CASE RestartRestored
    <3>1. /\ hpc = "restart_restored" /\ hpc' = "recheck"
          /\ UNCHANGED <<disk, backups, migration, latest, raced, cut>>
          /\ UNCHANGED <<hop, hres, displaced, ledger, found, ran, pending, waiting>>
      BY <2>3, Zenon DEF RestartRestored, Restart, Continue
    <3>2. running' \in {Down, running} \cup Started(config)
      BY <2>3 DEF RestartRestored, Restart
    <3>3. alone' => alone
      BY <2>3, Zenon DEF RestartRestored
    <3> QED BY <3>1, <3>2, <3>3
  <2>4. CASE CheckRestored
    BY <2>4 DEF CheckRestored, Answer, history
  <2> QED BY <2>1, <2>2, <2>3, <2>4, Zenon
<1>2. /\ running' \in {Down, config} \/ running' = running
      /\ running' \in Contents \cup {Down}
  BY <1>1, StartedRuns, Zenon DEF HostInv, TypeOK
<1> USE DEF disk, backups, migration
<1>3. TypeOK' /\ WorkOK'
  BY <1>1, <1>2 DEF HostInv, TypeOK, WorkOK
<1>4. BackupsOK' /\ LatestIsKept'
  BY <1>1, Zenon DEF HostInv, BackupsOK, LatestIsKept, Saved, Unfinished
<1>5. SoundOK'
  BY <1>1, <1>2, HostBounds, Zenon DEF HostInv, SoundOK, Unfinished
<1>6. CommandAlone' /\ OperationAlone'
  BY <1>1, <1>2, Zenon DEF HostInv, CommandAlone, OperationAlone
<1> QED BY <1>3, <1>4, <1>5, <1>6 DEF HostInv

\* The helper installs its backup, in one rename or in two.
LEMMA RestoreOK ==
  ASSUME HostInv, restoreBackup \/ replaceHelperDirectory
  PROVE  HostInv'
<1>1. /\ UNCHANGED <<kind, running, backups, migration, latest, raced, cut>>
      /\ UNCHANGED <<hop, ledger, pending, waiting>> /\ (hpc' = "save" \/ UNCHANGED <<found, ran>>)
      /\ alone' = (alone /\ mpc = "idle")
      /\ \/ /\ hpc = "restore" /\ kind = "file" /\ hpc' = "restart_restored"
            /\ config' = kept[hop] /\ UNCHANGED <<hres, displaced>>
         \/ /\ hpc = "restore" /\ kind = "file" /\ hpc' = "save" /\ config' \in {config, kept[hop]}
            /\ hres' = "failed" /\ displaced' = Absent
         \/ /\ hpc = "restore" /\ kind = "dir" /\ hpc' = "swap" /\ config # Absent
            /\ config' = Absent /\ displaced' = config /\ hres' = hres
         \/ /\ hpc = "restore" /\ hpc' = "save" /\ config' = config
            /\ hres' = "failed" /\ displaced' = Absent
         \/ /\ hpc = "swap" /\ hpc' = "restart_restored" /\ config' = kept[hop]
            /\ displaced' = Absent /\ hres' = hres
         \/ /\ hpc = "swap" /\ hpc' = "save" /\ config' \in {displaced, Absent, kept[hop]}
            /\ hres' = "failed" /\ displaced' = Absent
  <2>1. CASE restoreBackup
    BY <2>1, Zenon DEF restoreBackup, restoreFileBackup, restoreDirectoryBackup, Restored, Answer, Continue
  <2>2. CASE replaceHelperDirectory
    BY <2>2, Zenon DEF replaceHelperDirectory, Restored, Answer
  <2> QED BY <2>1, <2>2, Zenon
<1> USE DEF backups, migration
<1>2. /\ hop \in Ops /\ ledger[hop] = "none" /\ kept \in [Ops -> Contents \cup {Absent}]
      /\ kind = "none" \/ (kept[hop] \in Contents /\ kept[hop] # Absent)
      /\ hpc = "swap" => displaced \in Contents /\ displaced # Absent
  BY <1>1, HostBounds, Zenon DEF HostInv, TypeOK, WorkOK
<1>3. TypeOK' /\ WorkOK'
  BY <1>1, <1>2 DEF HostInv, TypeOK, WorkOK
<1>4. kind # "none" => Unfinished(hop)
  BY <1>2 DEF Unfinished
<1>5. kind # "none" /\ ~raced => latest \in Saved
  BY <1>2, <1>4 DEF HostInv, BackupsOK
<1>6. config' = config \/ kind # "none"
  BY <1>1, Zenon DEF HostInv, WorkOK
<1>7. BackupsOK' /\ LatestIsKept'
  BY <1>1, <1>5, <1>6, Zenon DEF HostInv, BackupsOK, LatestIsKept, Saved, Unfinished
<1>8. SoundOK'
  BY <1>1, <1>2, <1>4, <1>6, HostBounds, Zenon DEF HostInv, SoundOK, Unfinished
<1>9. CommandAlone' /\ OperationAlone'
  <2>1. CommandAlone'
    BY <1>1, Zenon DEF HostInv, CommandAlone
  <2>2. OperationAlone'
    BY <1>1, <1>2, Zenon DEF HostInv, WorkOK, OperationAlone
  <2> QED BY <2>1, <2>2
<1> QED BY <1>3, <1>7, <1>8, <1>9 DEF HostInv

\* The helper ends with its result saved or not; the agent takes note, or not.
LEMMA HelperEndsOK ==
  ASSUME HostInv, saveResult \/ HelperKilled \/ AgentLeaves \/ \E op \in Ops : loadResult(op)
  PROVE  HostInv'
<1>1. /\ UNCHANGED <<disk, running, backups, migration, history>>
      /\ pending' \subseteq pending
      /\ \/ hpc' = "idle" /\ displaced' = Absent /\ waiting' = FALSE
         \/ UNCHANGED <<hpc, hop, hres, displaced, ledger, found, ran>> /\ waiting' \in {waiting, FALSE}
            /\ (waiting' => waiting)
      /\ \/ ledger' = ledger
         \/ hpc = "save" /\ hpc' = "idle" /\ ledger' = [ledger EXCEPT ![hop] = hres]
  <2>1. CASE saveResult
    BY <2>1 DEF saveResult, Exit
  <2>2. CASE HelperKilled
    BY <2>2, Zenon DEF HelperKilled, Exit
  <2>3. CASE AgentLeaves
    BY <2>3, Zenon DEF AgentLeaves
  <2>4. CASE \E op \in Ops : loadResult(op)
    BY <2>4 DEF loadResult
  <2> QED BY <2>1, <2>2, <2>3, <2>4, Zenon
<1> USE DEF disk, backups, migration, history
<1>2. TypeOK' /\ WorkOK'
  <2>1. waiting' \in BOOLEAN /\ (waiting' => hpc' # "idle")
    BY <1>1, Zenon DEF HostInv, TypeOK
  <2>2. ledger' \in [Ops -> {"none", "succeeded", "failed", "rolled_back"}]
    BY <1>1, Zenon DEF HostInv, TypeOK, WorkOK
  <2>3. TypeOK'
    BY <1>1, <2>1, <2>2, ZenonT(30) DEF HostInv, TypeOK
  <2>4. WorkOK'
    BY <1>1, Zenon DEF HostInv, WorkOK
  <2> QED BY <2>3, <2>4
<1>3. \A op \in Ops : Unfinished(op)' => Unfinished(op)
  BY <1>1, Zenon DEF HostInv, TypeOK, WorkOK, Unfinished
<1>4. BackupsOK' /\ LatestIsKept'
  BY <1>1, <1>3, Zenon DEF HostInv, BackupsOK, LatestIsKept, Saved
<1>5. SoundOK'
  BY <1>1, <1>3, HostBounds, Zenon DEF HostInv, SoundOK
<1>6. CommandAlone' /\ OperationAlone'
  BY <1>1, Zenon DEF HostInv, CommandAlone, OperationAlone
<1> QED BY <1>2, <1>4, <1>5, <1>6 DEF HostInv

\* A command is killed, or the host restarts.
LEMMA KillOK ==
  ASSUME HostInv, MigrationKilled \/ Reboot
  PROVE  HostInv'
<1>1. /\ UNCHANGED <<disk, backups, ledger, latest, raced, alone>> /\ pending' = pending
      /\ \/ mpc # "idle" /\ mpc' = "idle" /\ cut' = TRUE
         \/ UNCHANGED <<mpc, mread, mnew, cut>> /\ mpc = "idle"
      /\ \/ hpc' = "idle" /\ displaced' = Absent /\ waiting' = FALSE
            /\ running' \in Started(config)
         \/ UNCHANGED <<hpc, hop, hres, displaced, found, ran, waiting, running>>
  <2>1. CASE MigrationKilled
    BY <2>1, Zenon DEF MigrationKilled, Report, helper
  <2>2. CASE Reboot
    BY <2>2, Zenon DEF Reboot, Report, Exit, migration
  <2> QED BY <2>1, <2>2, Zenon
<1>2. running' \in Contents \cup {Down} /\ (running' \in {Down, config} \/ running' = running)
  BY <1>1, StartedRuns, Zenon DEF HostInv, TypeOK
<1> USE DEF disk, backups
<1>3. TypeOK' /\ WorkOK'
  <2>1. waiting' \in BOOLEAN /\ (waiting' => hpc' # "idle")
    <3>1. CASE waiting' = FALSE
      BY <3>1, ZenonT(30)
    <3>2. CASE waiting' = waiting /\ hpc' = hpc
      BY <3>2 DEF HostInv, TypeOK
    <3> QED BY <1>1, <3>1, <3>2, Zenon
  <2>2. TypeOK'
    BY <1>1, <1>2, <2>1 DEF HostInv, TypeOK
  <2>3. WorkOK'
    BY <1>1 DEF HostInv, WorkOK
  <2> QED BY <2>2, <2>3
<1>4. BackupsOK' /\ LatestIsKept'
  BY <1>1, Zenon DEF HostInv, BackupsOK, LatestIsKept, Saved, Unfinished
<1>5. SoundOK'
  BY <1>1, HostBounds DEF HostInv, SoundOK, Unfinished
<1>6. CommandAlone' /\ OperationAlone'
  BY <1>1, <1>2, Zenon DEF HostInv, CommandAlone, OperationAlone
<1> QED BY <1>3, <1>4, <1>5, <1>6 DEF HostInv

\* A host with its first configuration satisfies the invariant.
LEMMA HostInit == Init => HostInv
<1> SUFFICES ASSUME Init PROVE HostInv
  OBVIOUS
<1>1. config \in Contents /\ config # Absent
  BY HostBounds DEF Init, Contents, Runtimes
<1>2. TypeOK /\ WorkOK
  BY <1>1, Zenon DEF Init, TypeOK, WorkOK
<1>3. BackupsOK /\ LatestIsKept
  BY DEF Init, BackupsOK, LatestIsKept, Unfinished
<1>4. SoundOK
  BY HostBounds DEF Init, SoundOK, Unfinished
<1>5. CommandAlone /\ OperationAlone
  BY DEF Init, CommandAlone, OperationAlone
<1> QED BY <1>2, <1>3, <1>4, <1>5 DEF HostInv

\* Every step preserves the invariant.
LEMMA HostStep == HostInv /\ [Next]_vars => HostInv'
<1> SUFFICES ASSUME HostInv, [Next]_vars PROVE HostInv'
  OBVIOUS
<1>1. CASE Migration
  BY <1>1, WriteBackupOK, WriteConfigOK, RestartMigratedOK, WaitOK DEF Migration
<1>2. CASE Helper
  BY <1>2, CreateBackupOK, HelperRestartOK, RestoreOK, HelperEndsOK DEF Helper
<1>3. CASE \E op \in Ops : Handle(op) \/ loadResult(op)
  BY <1>3, HandleOK, HelperEndsOK
<1>4. CASE Administrator
  BY <1>4, EditOK, CoreOK, CommandOK DEF Administrator
<1>5. CASE CoreFails \/ CoreComesBack
  BY <1>5, CoreOK
<1>6. CASE MigrationKilled \/ HelperKilled \/ AgentLeaves \/ Reboot
  BY <1>6, KillOK, HelperEndsOK
<1>7. CASE UNCHANGED vars
  <2> USE <1>7 DEF vars, disk, backups, migration, helper, history
  <2>1. TypeOK' /\ WorkOK'
    BY DEF HostInv, TypeOK, WorkOK
  <2>2. BackupsOK' /\ LatestIsKept' /\ SoundOK'
    BY Zenon DEF HostInv, BackupsOK, LatestIsKept, SoundOK, Saved, Unfinished
  <2>3. CommandAlone' /\ OperationAlone'
    BY Zenon DEF HostInv, CommandAlone, OperationAlone
  <2> QED BY <2>1, <2>2, <2>3, Zenon DEF HostInv
<1> QED BY <1>1, <1>2, <1>3, <1>4, <1>5, <1>6, <1>7 DEF Next

\* Files, backups and the two programs agree at every step (the migration
\* command and the helper's restart_core and backup_config).
THEOREM HostInvariant == Spec => []HostInv
BY HostInit, HostStep, PTL DEF Spec

\* The state stays well formed, and a helper that knows the configuration
\* restarts and restores only what it has a copy of (createBackup).
THEOREM HostTyped == Spec => []TypeOK
<1>1. HostInv => TypeOK
  BY DEF HostInv
<1> QED BY <1>1, HostInvariant, PTL

\* What was last written by hand is on disk or in a backup (writeBackup,
\* createBackup and the restores).
THEOREM LatestNeverLost == Spec => []LatestIsKept
<1>1. HostInv => LatestIsKept
  BY DEF HostInv
<1> QED BY <1>1, HostInvariant, PTL

\* A migration or rollback leaves no configuration behind that the core does
\* not survive with (the wait for a stable service, and the restore after it).
THEOREM MigrationLeavesRunnable == Spec => []LeftRunnable
<1>1. HostInv => LeftRunnable
  BY DEF HostInv, SoundOK, LeftRunnable
<1> QED BY <1>1, HostInvariant, PTL

\* A command that nobody disturbed reports what is on disk and what the core
\* runs (the results of the migration and rollback commands).
THEOREM CommandReportsTruth == Spec => ReportIsTrue
<1> DEFINE Truth ==
      mpc # "idle" /\ mpc' = "idle" /\ alone =>
        /\ mres' = "changed" => config = mnew /\ running = mnew
        /\ mres' = "restored" => config = mread /\ running = mread
<1>1. ASSUME HostInv, [Next]_vars, mpc # "idle", mpc' = "idle", alone,
             mres' \in {"changed", "restored"}
      PROVE  /\ running # Down
             /\ mres' = "changed" => mpc = "wait"
             /\ mres' = "restored" => mpc = "wait_old"
  <2>1. CASE Migration
    BY <1>1, <2>1, Zenon DEF Migration, writeBackup, InstallConfig, RestoreConfig, writeAtomic,
        RestartMigrated, Restart, Goto, WaitMigrated, WaitRestored, Stable, Report
  <2>2. CASE MigrationKilled \/ Reboot
    BY <1>1, <2>2, Zenon DEF MigrationKilled, Reboot, Report
  <2>3. CASE Administrator
    BY <1>1, <2>3, Zenon DEF Administrator, EditConfig, RestartByHand, CommandRefused, Apply, Rollback,
        Command, migration
  <2>4. CASE UNCHANGED migration
    BY <1>1, <2>4 DEF migration
  <2>5. Migration \/ MigrationKilled \/ Reboot \/ Administrator \/ UNCHANGED migration
    BY <1>1, Zenon DEF Next, Helper, createBackup, restartCore, CheckActive, restoreBackup,
        replaceHelperDirectory, RestartRestored, CheckRestored, saveResult, Handle, loadResult,
        CoreFails, CoreComesBack, HelperKilled, AgentLeaves, vars
  <2> QED BY <2>1, <2>2, <2>3, <2>4, <2>5
<1>2. HostInv /\ [Next]_vars => [Truth]_vars
  BY <1>1 DEF HostInv, CommandAlone
<1> QED BY <1>2, HostInvariant, PTL DEF Spec, ReportIsTrue

\* An operation that nobody disturbed leaves the configuration as it found it, or
\* none when a directory could not be put back; when it says so the core runs it,
\* or was never restarted (restartCore and restoreBackup).
THEOREM OperationKeepsConfig == Spec => RestartKeepsConfig
<1> DEFINE Keeps ==
      hpc # "save" /\ hpc' = "save" /\ alone /\ kept[hop] \in {found, Absent} =>
        /\ \/ config' = found
           \/ config' = Absent /\ hres' = "failed" /\ kept[hop] = found
        /\ hres' = "rolled_back" => running' \in {found, ran}
<1>1. ASSUME HostInv, [Next]_vars, hpc # "save", hpc' = "save", alone,
             kept[hop] \in {found, Absent}
      PROVE  /\ \/ config' = found
                \/ config' = Absent /\ hres' = "failed" /\ kept[hop] = found
             /\ hres' = "rolled_back" => running' \in {found, ran}
  <2>1. createBackup \/ CheckActive \/ restoreBackup \/ replaceHelperDirectory \/ CheckRestored
    BY <1>1, Zenon DEF Next, Helper, restartCore, RestartRestored, Restart, Continue, saveResult, Exit,
        Migration, writeBackup, InstallConfig, RestoreConfig, writeAtomic, RestartMigrated,
        WaitMigrated, WaitRestored, Handle, loadResult, Administrator, EditConfig, RestartByHand,
        CommandRefused, Apply, Rollback, Command, CoreFails, CoreComesBack, MigrationKilled,
        HelperKilled, AgentLeaves, Reboot, helper, vars
  <2>2. CASE createBackup
    BY <1>1, <2>2, Zenon DEF createBackup, AfterBackup, Answer, Continue, HostInv, OperationAlone, disk
  <2>3. CASE CheckActive
    BY <1>1, <2>3, Zenon DEF CheckActive, Answer, Continue, HostInv, OperationAlone, disk
  <2>4. CASE restoreBackup
    BY <1>1, <2>4, Zenon DEF restoreBackup, restoreFileBackup, restoreDirectoryBackup, Restored, Answer,
        Continue, HostInv, TypeOK, OperationAlone
  <2>5. CASE replaceHelperDirectory
    BY <1>1, <2>5, Zenon DEF replaceHelperDirectory, Restored, Answer, HostInv, TypeOK, WorkOK,
        OperationAlone
  <2>6. CASE CheckRestored
    BY <1>1, <2>6 DEF CheckRestored, Answer, HostInv, OperationAlone, disk
  <2> QED BY <2>1, <2>2, <2>3, <2>4, <2>5, <2>6
<1>2. HostInv /\ [Next]_vars => [Keeps]_vars
  BY <1>1
<1> QED BY <1>2, HostInvariant, PTL DEF Spec, RestartKeepsConfig
=============================================================================
