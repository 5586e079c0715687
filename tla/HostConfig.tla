----------------------------- MODULE HostConfig -----------------------------
(***************************************************************************)
(* The configuration of a core on its host, and the two programs that      *)
(* change it.                                                              *)
(*                                                                         *)
(* The migration command of the agent binary rewrites the configuration of *)
(* Hysteria, restarts the core and restores the old file when the core     *)
(* does not stay up; its rollback command does the same with a backup.     *)
(* The root helper executes restart_core, which copies the configuration,  *)
(* restarts the core and restores the copy when the core does not answer,  *)
(* and backup_config; its other operations only read.  Helpers exclude     *)
(* each other by a lock; a migration takes no lock and may run beside a    *)
(* helper.  The agent hands an operation over again only if it stopped     *)
(* before it noted the answer.  The administrator edits the configuration  *)
(* by hand.                                                                *)
(*                                                                         *)
(* A configuration is a pair of what the administrator wrote and of the    *)
(* sections a migration rewrites; its layout is left out.  The core is     *)
(* what it runs, or Down.                                                  *)
(***************************************************************************)
EXTENDS Naturals, Functions

CONSTANTS
  Bases,        \* what the administrator writes
  Written,      \* configurations the administrator writes later on
  Broken,       \* configurations the core does not survive with
  Ops,          \* operations handed to the helper
  Type,         \* Type[op]: "restart_core" or "backup_config"
  Down, Absent,
  MaxEdits,     \* bound: edits and restarts by hand
  MaxCommands,  \* bound: migration and rollback commands
  MaxFaults     \* bound: kills and failed writes and restarts

Runtimes == {"password", "http", "stats"}
Contents == Bases \X Runtimes

ASSUME HostBounds ==
  /\ Broken \subseteq Contents /\ Written \subseteq Contents
  /\ Type \in [Ops -> {"restart_core", "backup_config"}]
  /\ Down \notin Contents /\ Absent \notin Contents
  /\ MaxEdits \in Nat /\ MaxCommands \in Nat /\ MaxFaults \in Nat

VARIABLES
  kind,      \* the configuration is a "file" or a "dir", or the helper knows "none"
  config,    \* its content on disk, or Absent
  running,   \* the content the core runs, or Down
  copies,    \* backups written by migrations
  kept,      \* kept[op]: backup the helper made for op, or Absent
  ledger,    \* ledger[op]: result saved by the helper
  mpc, goal, mread, mnew,   \* the migration or rollback command
  mres,      \* how the last command ended
  hpc, hop, hres,           \* the helper
  displaced, \* the directory a restore has moved away
  pending,   \* operations of which the agent has noted no answer
  waiting,   \* the agent waits for the helper
  edits, commands, faults,
  latest,    \* history: what was last written by hand
  found,     \* history: the configuration the helper's operation found
  ran,       \* history: what the core ran then
  raced,     \* history: an edit by hand met an unfinished command or operation
  alone,     \* history: nobody else touched the host since a program started
  cut        \* history: a command was cut short or met an operation

disk == <<kind, config>>
backups == <<copies, kept>>
migration == <<mpc, goal, mread, mnew, mres>>
helper == <<hpc, hop, hres, displaced, ledger, found, ran, pending, waiting>>
budget == <<edits, commands, faults>>
history == <<latest, raced, alone, cut>>
vars == <<disk, running, backups, migration, helper, budget, history>>

Init ==
  /\ kind \in {"file", "dir", "none"}
  /\ config \in {<<b, "password">> : b \in Bases}
  /\ config \notin Broken
  /\ running = config
  /\ copies = {} /\ kept = [op \in Ops |-> Absent]
  /\ ledger = [op \in Ops |-> "none"]
  /\ mpc = "idle" /\ goal = "none" /\ mread = Absent /\ mnew = Absent
  /\ mres = "none"
  /\ hpc = "idle" /\ hop = Absent /\ hres = "none"
  /\ displaced = Absent /\ found = Absent /\ ran = Down
  /\ pending = Ops /\ waiting = FALSE
  /\ edits = 0 /\ commands = 0 /\ faults = 0
  /\ latest = config /\ raced = FALSE /\ alone = TRUE /\ cut = FALSE

Fault == faults < MaxFaults /\ faults' = faults + 1 /\ UNCHANGED <<edits, commands>>

(***************************************************************************)
(* The core under systemd (external)                                       *)
(***************************************************************************)
\* What the core may run after a start: a broken configuration may take it
\* down at once or a moment later.
Started(c) ==
  IF c = Absent THEN {Down} ELSE IF c \in Broken THEN {c, Down} ELSE {c}

\* systemctl restart.  It may fail with the core up or down, and without having
\* touched it (the unit is masked, the service manager does not answer), and then
\* goes on failing like that.
Restart(next, failed) ==
  \/ /\ running' \in Started(config)
     /\ next
     /\ UNCHANGED budget
  \/ /\ Fault
     /\ running' \in {Down, running} \cup Started(config)
     /\ failed
  \/ /\ faults > 0 /\ UNCHANGED budget
     /\ running' = running
     /\ failed

CoreFails ==
  /\ running # Down
  /\ \/ running \in Broken /\ UNCHANGED budget
     \/ Fault
  /\ running' = Down
  /\ UNCHANGED <<disk, backups, migration, helper, history>>

\* Restart=on-failure of the unit.
CoreComesBack ==
  /\ running = Down
  /\ running' \in Started(config) \ {Down}
  /\ UNCHANGED <<disk, backups, migration, helper, budget, history>>

(***************************************************************************)
(* The administrator                                                       *)
(***************************************************************************)
Unfinished(op) == kept[op] # Absent /\ ledger[op] = "none"

EditConfig(c) ==
  /\ edits < MaxEdits
  /\ config # Absent /\ c # config
  /\ config' = c /\ latest' = c
  /\ raced' = (raced \/ mpc # "idle" \/ hpc # "idle" \/ \E op \in Ops : Unfinished(op))
  /\ alone' = FALSE
  /\ edits' = edits + 1
  /\ UNCHANGED <<kind, running, backups, migration, helper, commands, faults, cut>>

RestartByHand ==
  /\ edits < MaxEdits
  /\ running' \in Started(config)
  /\ alone' = FALSE
  /\ edits' = edits + 1
  /\ UNCHANGED <<disk, backups, migration, helper, commands, faults, latest, raced, cut>>

(***************************************************************************)
(* Migration and rollback                                                  *)
(***************************************************************************)
\* The auth section is replaced; the stats section is added or left alone.
RewriteRuntime(target, c) ==
  <<c[1], IF target = "http" /\ c[2] = "stats" THEN "stats" ELSE target>>

\* The stats endpoint of the running core answers.
ProbeStatsEndpoint == running # Down /\ running[2] = "stats"

Report(result) ==
  /\ mpc' = "idle" /\ mres' = result
  /\ goal' = "none" /\ mread' = Absent /\ mnew' = Absent

Command ==
  /\ mpc = "idle"
  /\ commands < MaxCommands /\ commands' = commands + 1
  /\ alone' = (hpc = "idle") /\ cut' = (cut \/ hpc # "idle")
  /\ UNCHANGED <<disk, running, backups, helper, edits, faults, latest, raced>>

\* The endpoint of the agent does not answer, or the configuration is not a
\* regular file: nothing is done.
CommandRefused == Command /\ Report("refused")

Begin(target, new) ==
  /\ mpc' = "backup" /\ mres' = "none"
  /\ goal' = target /\ mread' = config /\ mnew' = new

Apply(target) ==
  LET updated == RewriteRuntime(target, config)
  IN /\ Command
     /\ kind # "dir"
     /\ IF updated # config THEN Begin(target, updated)
        ELSE Report(IF target = "stats" /\ ~ProbeStatsEndpoint THEN "refused"
                    ELSE "unchanged")

Rollback(backup) ==
  /\ Command
  /\ kind # "dir"
  /\ IF backup # config THEN Begin("rollback", backup) ELSE Report("unchanged")

\* A mutant that installs without a backup.
writeBackupNone ==
  /\ mpc = "backup"
  /\ mpc' = "install"
  /\ UNCHANGED <<disk, running, backups, goal, mread, mnew, mres, helper, budget,
                 history>>

writeBackup ==
  /\ mpc = "backup"
  /\ \/ /\ copies' = copies \cup {mread}
        /\ mpc' = "install"
        /\ UNCHANGED <<goal, mread, mnew, mres, budget>>
     \/ /\ Fault
        /\ Report("refused")
        /\ UNCHANGED copies
  /\ UNCHANGED <<disk, running, kept, helper, history>>

\* A rename fails, or the sync of the directory after it: the error leaves
\* the file as it was, or replaced.
writeAtomic(new, at, result) ==
  /\ \/ /\ config' = new
        /\ mpc' = at
        /\ UNCHANGED <<goal, mread, mnew, mres, budget, cut>>
     \/ /\ Fault
        /\ config' \in {config, new}
        /\ Report(result) /\ cut' = TRUE
  /\ alone' = (alone /\ hpc = "idle")
  /\ UNCHANGED <<kind, running, backups, helper, latest, raced>>

InstallConfig == mpc = "install" /\ writeAtomic(mnew, "restart", "install_failed")

RestoreConfig == mpc = "restore" /\ writeAtomic(mread, "restart_old", "restore_failed")

Goto(at) == mpc' = at /\ UNCHANGED <<goal, mread, mnew, mres>>

RestartMigrated ==
  /\ \/ mpc = "restart" /\ Restart(Goto("wait"), Goto("restore"))
     \/ mpc = "restart_old" /\ Restart(Goto("wait_old"), Report("restart_failed"))
  /\ alone' = (alone /\ hpc = "idle")
  /\ UNCHANGED <<disk, backups, helper, latest, raced, cut>>

\* A mutant that takes the first answer of the service manager.
StableOnce == running # Down

\* The service stays active for two seconds: a broken configuration is taken to
\* show within them, and one that lets the core down later is not called broken.
Stable == running # Down /\ running \notin Broken

WaitMigrated ==
  /\ mpc = "wait"
  /\ IF Stable /\ (goal = "stats" => ProbeStatsEndpoint)
     THEN Report("changed") ELSE Goto("restore")
  /\ UNCHANGED <<disk, running, backups, helper, budget, history>>

\* A mutant that does not look at the core once the old file is back.
WaitRestoredBlindly ==
  /\ mpc = "wait_old"
  /\ Report("restored")
  /\ UNCHANGED <<disk, running, backups, helper, budget, history>>

WaitRestored ==
  /\ mpc = "wait_old"
  /\ Report(IF Stable THEN "restored" ELSE "restart_failed")
  /\ UNCHANGED <<disk, running, backups, helper, budget, history>>

MigrationKilled ==
  /\ mpc # "idle"
  /\ Fault
  /\ Report("killed") /\ cut' = TRUE
  /\ UNCHANGED <<disk, running, backups, helper, latest, raced, alone>>

(***************************************************************************)
(* The helper                                                              *)
(***************************************************************************)
Handle(op) ==
  /\ hpc = "idle" /\ op \in pending /\ ledger[op] = "none"
  /\ hop' = op /\ found' = config /\ ran' = running /\ waiting' = TRUE
  /\ hpc' = "backup"
  /\ alone' = (mpc = "idle") /\ cut' = (cut \/ mpc # "idle")
  /\ UNCHANGED <<disk, running, backups, migration, hres, displaced, ledger, pending,
                 budget, latest, raced>>

\* An operation with a saved result is answered from the ledger.
loadResult(op) ==
  /\ hpc = "idle" /\ op \in pending /\ ledger[op] # "none"
  /\ pending' = pending \ {op}
  /\ UNCHANGED <<disk, running, backups, migration, hpc, hop, hres, displaced, ledger,
                 found, ran, waiting, budget, history>>

Continue(at) ==
  /\ hpc' = at
  /\ UNCHANGED <<hop, hres, displaced, ledger, found, ran, pending, waiting>>

Answer(result) ==
  /\ hres' = result /\ hpc' = "save" /\ displaced' = Absent
  /\ found' = Absent /\ ran' = Down
  /\ UNCHANGED <<hop, ledger, pending, waiting>>

\* The helper process ends; what it worked with is gone.
Exit == hpc' = "idle" /\ hop' = Absent /\ hres' = "none" /\ displaced' = Absent
        /\ found' = Absent /\ ran' = Down /\ waiting' = FALSE

AfterBackup ==
  IF Type[hop] = "backup_config" THEN Answer("succeeded") ELSE Continue("restart")

\* An earlier attempt at the operation left its backup.  It is looked for by the
\* type of the configuration, and so only while there is one.
existingOperationBackup == config # Absent /\ kept[hop] # Absent

publishBackup == kept' = [kept EXCEPT ![hop] = config]
createFileBackup == kind = "file" /\ publishBackup
createDirectoryBackup == kind = "dir" /\ config # Absent /\ publishBackup

\* A helper without a path restarts without a backup.
createBackup ==
  /\ hpc = "backup"
  /\ \/ /\ existingOperationBackup
        /\ AfterBackup /\ UNCHANGED <<kept, budget>>
     \/ /\ ~existingOperationBackup
        /\ createFileBackup \/ createDirectoryBackup
        /\ AfterBackup /\ UNCHANGED budget
     \/ /\ config = Absent
        /\ Answer("failed") /\ UNCHANGED <<kept, budget>>
     \/ /\ kind = "none"
        /\ IF Type[hop] = "backup_config" THEN Answer("failed") ELSE Continue("restart")
        /\ UNCHANGED <<kept, budget>>
     \/ kind # "none" /\ Fault /\ Answer("failed") /\ UNCHANGED kept
  /\ UNCHANGED <<disk, running, copies, migration, history>>

restartCore ==
  /\ hpc = "restart"
  /\ Restart(Continue("check"), Continue("restore"))
  /\ alone' = (alone /\ mpc = "idle")
  /\ UNCHANGED <<disk, backups, migration, latest, raced, cut>>

\* One look at the service, right after the restart.
CheckActive ==
  /\ hpc = "check"
  /\ IF running # Down THEN Answer("succeeded") ELSE Continue("restore")
  /\ UNCHANGED <<disk, running, backups, migration, budget, history>>

\* A mutant that restores the backup of another operation when there is one.
RestoredOther(op) ==
  IF \E o \in Ops \ {op} : kept[o] # Absent
  THEN kept[CHOOSE o \in Ops \ {op} : kept[o] # Absent] ELSE kept[op]

\* What a restore installs: the backup made for this operation.
Restored(op) == kept[op]

\* A file is replaced by one rename; the checks after it may fail as well.
restoreFileBackup ==
  /\ kind = "file"
  /\ \/ config' = Restored(hop) /\ Continue("restart_restored") /\ UNCHANGED budget
     \/ Fault /\ config' \in {config, Restored(hop)} /\ Answer("failed")

\* A directory is unpacked beside the old one and takes its place by two renames.
restoreDirectoryBackup ==
  /\ kind = "dir" /\ config # Absent
  /\ \/ /\ config' = Absent /\ displaced' = config /\ hpc' = "swap"
        /\ UNCHANGED <<hop, hres, ledger, found, ran, pending, waiting, budget>>
     \/ Fault /\ UNCHANGED config /\ Answer("failed")

restoreBackup ==
  /\ hpc = "restore"
  /\ \/ restoreFileBackup
     \/ restoreDirectoryBackup
     \/ /\ kind = "none"
        /\ Answer("failed") /\ UNCHANGED <<config, budget>>
  /\ alone' = (alone /\ mpc = "idle")
  /\ UNCHANGED <<kind, running, backups, migration, latest, raced, cut>>

\* The second rename.  When it fails the old directory is put back, if it can be;
\* the replaced one may also be left behind, which is an error as well.
replaceHelperDirectory ==
  /\ hpc = "swap"
  /\ \/ /\ config' = Restored(hop) /\ hpc' = "restart_restored" /\ displaced' = Absent
        /\ UNCHANGED <<hop, hres, ledger, found, ran, pending, waiting, budget>>
     \/ Fault /\ config' \in {displaced, Absent, Restored(hop)} /\ Answer("failed")
  /\ alone' = (alone /\ mpc = "idle")
  /\ UNCHANGED <<kind, running, backups, migration, latest, raced, cut>>

\* An error of this restart is not looked at.
RestartRestored ==
  /\ hpc = "restart_restored"
  /\ Restart(Continue("recheck"), Continue("recheck"))
  /\ alone' = (alone /\ mpc = "idle")
  /\ UNCHANGED <<disk, backups, migration, latest, raced, cut>>

CheckRestored ==
  /\ hpc = "recheck"
  /\ Answer(IF running # Down THEN "rolled_back" ELSE "failed")
  /\ UNCHANGED <<disk, running, backups, migration, budget, history>>

\* The result is saved, or the agent is told that it could not be saved.
saveResult ==
  /\ hpc = "save"
  /\ \/ ledger' = [ledger EXCEPT ![hop] = hres] /\ UNCHANGED budget
     \/ Fault /\ UNCHANGED ledger
  /\ pending' = IF waiting THEN pending \ {hop} ELSE pending
  /\ Exit
  /\ UNCHANGED <<disk, running, backups, migration, history>>

\* The agent notes a failure when the helper dies under it.
HelperKilled ==
  /\ hpc # "idle"
  /\ Fault
  /\ pending' = IF waiting THEN pending \ {hop} ELSE pending
  /\ Exit
  /\ UNCHANGED <<disk, running, backups, migration, ledger, history>>

\* The agent gives up after 45 s and notes a failure, or stops without a note.
AgentLeaves ==
  /\ hpc # "idle" /\ waiting
  /\ Fault
  /\ waiting' = FALSE
  /\ pending' \in {pending, pending \ {hop}}
  /\ UNCHANGED <<disk, running, backups, migration, hpc, hop, hres, displaced, ledger,
                 found, ran, history>>

Reboot ==
  /\ Fault
  /\ running' \in Started(config)
  /\ IF mpc # "idle" THEN Report("killed") /\ cut' = TRUE ELSE UNCHANGED <<migration, cut>>
  /\ Exit
  /\ UNCHANGED <<disk, backups, ledger, pending, latest, raced, alone>>

Migration ==
  \/ writeBackup \/ InstallConfig \/ RestartMigrated \/ WaitMigrated
  \/ RestoreConfig \/ WaitRestored

Helper ==
  \/ createBackup \/ restartCore \/ CheckActive \/ restoreBackup
  \/ replaceHelperDirectory \/ RestartRestored \/ CheckRestored \/ saveResult

Administrator ==
  \/ \E c \in Written : EditConfig(c)
  \/ RestartByHand \/ CommandRefused
  \/ \E target \in {"http", "stats"} : Apply(target)
  \/ \E backup \in copies : Rollback(backup)

Next ==
  \/ Migration \/ Helper
  \/ \E op \in Ops : Handle(op) \/ loadResult(op)
  \/ Administrator \/ CoreFails \/ CoreComesBack
  \/ MigrationKilled \/ HelperKilled \/ AgentLeaves \/ Reboot

Spec == Init /\ [][Next]_vars

(***************************************************************************)
(* Properties                                                              *)
(***************************************************************************)
\* The state stays well formed, and a helper that knows the configuration
\* restarts and restores only what it has a copy of.
TypeOK ==
  /\ kind \in {"file", "dir", "none"}
  /\ config \in Contents \cup {Absent} /\ running \in Contents \cup {Down}
  /\ config = Absent => kind = "dir"
  /\ copies \subseteq Contents
  /\ kept \in [Ops -> Contents \cup {Absent}]
  /\ ledger \in [Ops -> {"none", "succeeded", "failed", "rolled_back"}]
  /\ mpc \in {"idle", "backup", "install", "restart", "wait", "restore",
              "restart_old", "wait_old"}
  /\ mpc # "idle" => mread \in Contents /\ mnew \in Contents /\ mread # mnew
  /\ hpc \in {"idle", "backup", "restart", "check", "restore", "swap",
              "restart_restored", "recheck", "save"}
  /\ hpc \in {"restart", "check", "restore", "swap", "restart_restored", "recheck"}
       => kind = "none" \/ kept[hop] # Absent
  /\ displaced \in Contents \cup {Absent} /\ (displaced # Absent <=> hpc = "swap")
  /\ pending \subseteq Ops /\ waiting \in BOOLEAN /\ (waiting => hpc # "idle")

\* What was last written by hand is on disk or in a backup, whatever a
\* migration, a rollback or a restart did and wherever it was interrupted.
\* Not covered: an edit made while a program was at work, or before an
\* operation that has already made its backup was finished.
LatestIsKept ==
  ~raced => latest \in {config} \cup copies \cup Range(kept)

\* No migration or rollback leaves a configuration behind that the core does not
\* survive with, when the one written by hand was sound.  Not covered: commands
\* cut short or run beside the helper, and the edits LatestIsKept excepts.
LeftRunnable ==
  mpc = "idle" /\ ~cut /\ ~raced /\ latest \notin Broken => config \notin Broken

\* A command that nobody disturbed reports the truth: "changed" means that the
\* core runs the new configuration, "restored" that it runs the old one again.
ReportIsTrue ==
  [][ mpc # "idle" /\ mpc' = "idle" /\ alone =>
        /\ mres' = "changed" => config = mnew /\ running = mnew
        /\ mres' = "restored" => config = mread /\ running = mread ]_vars

\* An operation that nobody disturbed leaves the configuration as it found it,
\* whatever its result; only when a directory could not be put back either is
\* there none, and then the operation has failed and its backup holds what it
\* found.  "rolled_back" means that the core runs what was found, or that no
\* restart touched it and it runs what it ran before.  Not covered: an attempt
\* that goes on with the backup of an interrupted one.
RestartKeepsConfig ==
  [][ hpc # "save" /\ hpc' = "save" /\ alone /\ kept[hop] \in {found, Absent} =>
        /\ \/ config' = found
           \/ config' = Absent /\ hres' = "failed" /\ kept[hop] = found
        /\ hres' = "rolled_back" => running' \in {found, ran} ]_vars
====
