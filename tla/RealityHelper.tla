---------------------------- MODULE RealityHelper ----------------------------
(***************************************************************************)
(* Applying a desired snapshot to a sing_box_vless_reality node.           *)
(*                                                                         *)
(* The agent sends the snapshot to the root helper, one process per        *)
(* request, serialised by a file lock.  The helper pins the Reality key    *)
(* pair in the identity file, replaces the core's configuration, restarts  *)
(* the core, rolls everything back if that fails, and records the applied  *)
(* snapshot; only then does the agent acknowledge it.  A helper may be     *)
(* killed at any step (RuntimeMaxSec, a crash of the host), any write or   *)
(* command may fail, and the agent may give up waiting and ask again while *)
(* its first request is still queued on the lock.                          *)
(***************************************************************************)
EXTENDS Naturals

CONSTANTS
    Settings,       \* what a snapshot configures, a set of [users, port]
    MaxVersion,     \* bound on desired_version
    MaxGeneration,  \* bound on key_generation
    MaxFaults,      \* bound on kills, failed calls and abandoned requests
    LapseKinds      \* the sets of lapses considered: faults that leave a step done
                    \* and unreported, or undone

\* "kill": the helper dies while the core does not run the file on disk.
\* "deadline": systemctl has no effect, the 40 s of the request being over.
\* "sync": a rename has its effect, and the directory sync after it fails.
ASSUME RealityAssumption ==
    /\ Settings # {} /\ \A s \in Settings : s = [users |-> s.users, port |-> s.port]
    /\ MaxVersion \in Nat \ {0} /\ MaxGeneration \in Nat \ {0} /\ MaxFaults \in Nat
    /\ LapseKinds \subseteq SUBSET {"kill", "deadline", "sync"} /\ LapseKinds # {}

VARIABLES
    desired,    \* server: the node's desired snapshot
    acked,      \* agent: the snapshot it persisted and acknowledges, with its key
    waiting,    \* agent: the snapshot it waits for a reply to
    requests,   \* requests queued on the helper's lock
    config,     \* disk: the core's configuration
    identity,   \* disk: the Reality identity
    applied,    \* disk: the snapshot recorded as applied, with its key
    core,       \* the configuration the core runs
    keys,       \* key pairs generated so far
    pc,         \* step of the helper that holds the lock
    req,        \* its request
    prior,      \* the identity it found
    was,        \* the applied record it found
    backup,     \* the configuration it saved before replacing it
    saveFailed, \* recording the applied snapshot failed
    verdict,    \* what it replied, or is about to
    lapses,     \* the lapses that may happen on this host
    faults

helper == <<pc, req, prior, was, backup, saveFailed, verdict>>
disk == <<config, identity, applied>>
agent == <<acked, waiting>>
vars == <<desired, agent, requests, disk, core, keys, helper, lapses, faults>>

None == [absent |-> TRUE]       \* no file, no snapshot
Down == [down |-> TRUE]         \* the core does not run
Untouched == [kept |-> TRUE]    \* the helper has not replaced the configuration

Snapshot == [version : 1..MaxVersion, gen : 1..MaxGeneration, settings : Settings]
Key == 1..(MaxGeneration + MaxFaults)
Identity == [gen : 1..MaxGeneration, key : Key]
Config == [settings : Settings, key : Key]
Record == [snap : Snapshot, key : Key]

Steps == {"idle", "ensure", "health", "candidate", "ready", "replaced", "record",
          "rollback", "restored", "unwind", "unrecord"}

\* Every file, message and program counter has its shape.
TypeOK ==
    /\ desired \in Snapshot
    /\ acked \in Record \cup {None} /\ waiting \in Snapshot \cup {None}
    /\ requests \subseteq Snapshot
    /\ config \in Config \cup {None} /\ identity \in Identity \cup {None}
    /\ applied \in Record \cup {None}
    /\ core \in Config \cup {Down}
    /\ keys \in 0..(MaxGeneration + MaxFaults)
    /\ pc \in Steps /\ req \in Snapshot \cup {None}
    /\ prior \in Identity \cup {None} /\ was \in Record \cup {None}
    /\ backup \in Config \cup {None, Untouched}
    /\ saveFailed \in BOOLEAN /\ verdict \in {"none", "succeeded", "failed", "rolledBack"}
    /\ lapses \in LapseKinds /\ faults \in 0..MaxFaults

\* A new node: nothing on disk, and its first snapshot published.
Init ==
    /\ desired \in {s \in Snapshot : s.version = 1 /\ s.gen = 1}
    /\ acked = None /\ waiting = None /\ requests = {}
    /\ config = None /\ identity = None /\ applied = None
    /\ core = Down /\ keys = 0
    /\ pc = "idle" /\ req = None /\ prior = None /\ was = None /\ backup = Untouched
    /\ saveFailed = FALSE /\ verdict = "none" /\ lapses \in LapseKinds /\ faults = 0

Fault == faults < MaxFaults /\ faults' = faults + 1

----------------------------------------------------------------------------
(* The server and the agent *)

Publish(s) ==
    /\ desired.version < MaxVersion
    /\ desired' = [desired EXCEPT !.version = @ + 1, !.settings = s]
    /\ UNCHANGED <<agent, requests, disk, core, keys, helper, faults>>

\* The current snapshot must be acknowledged.
RotateVLESSRealityIdentity ==
    /\ desired.version < MaxVersion /\ desired.gen < MaxGeneration
    /\ acked # None /\ acked.snap = desired
    /\ desired' = [desired EXCEPT !.version = @ + 1, !.gen = @ + 1]
    /\ UNCHANGED <<agent, requests, disk, core, keys, helper, faults>>

RequestApply ==
    /\ waiting = None
    /\ acked # None => acked.snap.version < desired.version
    /\ waiting' = desired /\ requests' = requests \cup {desired}
    /\ UNCHANGED <<desired, acked, disk, core, keys, helper, faults>>

\* The agent times out or restarts; its request stays queued.
GiveUp ==
    /\ waiting # None /\ Fault
    /\ waiting' = None
    /\ UNCHANGED <<desired, acked, requests, disk, core, keys, helper>>

\* A request that does not get the lock in time.
LockTimeout(r) ==
    /\ r \in requests /\ Fault
    /\ requests' = requests \ {r}
    /\ waiting' = IF waiting = r THEN None ELSE waiting
    /\ UNCHANGED <<desired, acked, disk, core, keys, helper>>

----------------------------------------------------------------------------
(* The reply reaches the agent if it is still waiting for it. *)

Succeed(r, key) ==
    /\ pc' = "idle" /\ verdict' = "succeeded"
    /\ waiting' = IF waiting = r THEN None ELSE waiting
    /\ acked' = IF waiting = r THEN [snap |-> r, key |-> key] ELSE acked

Fail(r, rolledBack) ==
    /\ pc' = "idle" /\ verdict' = IF rolledBack THEN "rolledBack" ELSE "failed"
    /\ waiting' = IF waiting = r THEN None ELSE waiting
    /\ acked' = acked

----------------------------------------------------------------------------
(* applyReality: the checks before anything is written *)

\* Mutant of Conflict: the recorded snapshot is refused when it comes again.
ConflictRepeated(r) == applied # None /\ r.version <= applied.snap.version

Conflict(r) ==
    /\ applied # None
    /\ \/ r.version < applied.snap.version
       \/ r.version = applied.snap.version /\ r # applied.snap

StaleGeneration(r) == applied # None /\ r.gen < applied.snap.gen

IdentityMismatch(r) ==
    /\ applied # None /\ r.gen = applied.snap.gen
    /\ identity # [gen |-> applied.snap.gen, key |-> applied.key]

Same(r) == applied # None /\ r.version = applied.snap.version /\ r.gen = applied.snap.gen

Accepted(r) ==
    /\ pc = "idle" /\ r \in requests
    /\ requests' = requests \ {r}
    /\ req' = r /\ prior' = identity /\ was' = applied /\ backup' = Untouched /\ saveFailed' = FALSE
    /\ UNCHANGED <<desired, disk, core, keys>>

\* Also an unsupported binary, or a file that cannot be read.
Refuse(r) ==
    /\ Accepted(r)
    /\ \/ (Conflict(r) \/ StaleGeneration(r) \/ IdentityMismatch(r)) /\ faults' = faults
       \/ Fault
    /\ Fail(r, FALSE)

\* The same version and hash again.
AcceptSame(r) ==
    /\ Accepted(r)
    /\ ~Conflict(r) /\ ~StaleGeneration(r) /\ ~IdentityMismatch(r)
    /\ Same(r)
    /\ Succeed(r, applied.key)
    /\ UNCHANGED faults

AcceptNew(r) ==
    /\ Accepted(r)
    /\ ~Conflict(r) /\ ~StaleGeneration(r) /\ ~IdentityMismatch(r) /\ ~Same(r)
    /\ pc' = "ensure" /\ verdict' = "none"
    /\ UNCHANGED <<agent, faults>>

----------------------------------------------------------------------------
(* applyReality: identity, candidate, publication, activation, record *)

renderRealityConfig == [settings |-> req.settings, key |-> identity.key]

Settled == <<desired, requests, req, prior, was, saveFailed>>   \* what a later step leaves alone

\* Mutant of Ensured: every apply makes a new key pair.
EnsuredAfresh == [gen |-> req.gen, key |-> keys + 1]

\* ensureRealityIdentity: a key pair per generation.
Ensured ==
    IF identity # None /\ identity.gen = req.gen
    THEN identity ELSE [gen |-> req.gen, key |-> keys + 1]

\* Mutant of Unchanged: the key in the file is not compared.
UnchangedSettings ==
    applied # None /\ config # None /\ config.settings = req.settings

\* realityConfigMatches, with the identity kept
Unchanged ==
    /\ applied # None /\ Ensured = prior
    /\ config = [settings |-> req.settings, key |-> Ensured.key]

IdentityStale == identity # None /\ req.gen < identity.gen

\* The identity is on disk before the configuration that holds its key; a
\* configuration that is already on disk is only checked for health.
EnsureIdentity ==
    /\ pc = "ensure" /\ ~IdentityStale
    /\ identity' = Ensured /\ keys' = IF Ensured = identity THEN keys ELSE keys + 1
    /\ pc' = IF Unchanged THEN "health" ELSE "candidate"
    /\ UNCHANGED <<Settled, agent, config, applied, core, backup, verdict, faults>>

EnsureIdentityFails ==
    /\ pc = "ensure"
    /\ \/ /\ IdentityStale /\ UNCHANGED <<identity, keys, faults>>
       \/ /\ ~IdentityStale /\ Ensured # identity /\ Fault
          /\ keys' = keys + 1
          /\ \/ identity' = identity
             \/ "sync" \in lapses /\ identity' = Ensured
    /\ Fail(req, FALSE)
    /\ UNCHANGED <<Settled, config, applied, core, backup>>

Healthy == core # Down /\ core.settings.port = req.settings.port

CheckHealth ==
    /\ pc = "health"
    /\ \/ Healthy /\ pc' = "record" /\ UNCHANGED faults
       \/ ~Healthy /\ pc' = "unwind" /\ UNCHANGED faults
       \/ Healthy /\ Fault /\ pc' = "unwind"
    /\ UNCHANGED <<Settled, agent, disk, core, keys, backup, verdict>>

\* sing-box check of the candidate, then the backup of the current file
PrepareCandidate ==
    /\ pc = "candidate"
    /\ \/ pc' = "ready" /\ backup' = config /\ UNCHANGED faults
       \/ pc' = "unwind" /\ Fault /\ UNCHANGED backup
    /\ UNCHANGED <<Settled, agent, disk, core, keys, verdict>>

ReplaceConfig ==
    /\ pc = "ready"
    /\ \/ pc' = "replaced" /\ config' = renderRealityConfig /\ UNCHANGED faults
       \/ pc' = "unwind" /\ UNCHANGED config /\ Fault
       \/ pc' = "rollback" /\ config' = renderRealityConfig /\ "sync" \in lapses /\ Fault
    /\ UNCHANGED <<Settled, agent, identity, applied, core, keys, backup, verdict>>

\* The core restarts with the file, or does not start, or nothing happens; and
\* a restart that worked may be reported late.
RestartCore ==
    /\ pc = "replaced"
    /\ \/ core' = config /\ pc' = "record" /\ UNCHANGED faults
       \/ /\ pc' = "rollback" /\ Fault
          /\ core' \in {config, Down} \cup (IF "deadline" \in lapses THEN {core} ELSE {})
    /\ UNCHANGED <<Settled, agent, disk, keys, backup, verdict>>

RecordApplied ==
    /\ pc = "record"
    /\ applied' = [snap |-> req, key |-> identity.key]
    /\ Succeed(req, identity.key)
    /\ UNCHANGED <<Settled, config, identity, core, keys, backup, faults>>

RecordFails ==
    /\ pc = "record" /\ Fault
    /\ \/ applied' = applied
       \/ "sync" \in lapses /\ applied' = [snap |-> req, key |-> identity.key]
    /\ pc' = "rollback" /\ saveFailed' = TRUE
    /\ UNCHANGED <<desired, agent, requests, config, identity, core, keys,
                   req, prior, was, backup, verdict>>

----------------------------------------------------------------------------
(* rollbackRealityApply and the restores that follow it *)

\* Where there was no file, the core is stopped and the new file removed;
\* where the file was not replaced there is nothing to restore.
RollbackConfig ==
    /\ pc = "rollback"
    /\ \/ /\ backup = Untouched
          /\ pc' = "unwind" /\ UNCHANGED <<config, core, verdict, faults>>
       \/ /\ backup = None
          /\ config' = None /\ core' = Down
          /\ pc' = "unwind" /\ verdict' = "rolledBack" /\ UNCHANGED faults
       \/ /\ backup \notin {None, Untouched}
          /\ config' = backup /\ pc' = "restored" /\ UNCHANGED <<core, verdict, faults>>
    /\ UNCHANGED <<Settled, agent, identity, applied, keys, backup>>

RollbackConfigFails ==
    /\ pc = "rollback" /\ Fault
    /\ \/ backup = None /\ core' = Down /\ UNCHANGED config
       \/ backup = None /\ "deadline" \in lapses /\ config' = None /\ UNCHANGED core
       \/ backup \notin {None, Untouched} /\ UNCHANGED <<config, core>>
    /\ pc' = "unwind"
    /\ UNCHANGED <<Settled, agent, identity, applied, keys, backup, verdict>>

\* Mutant of RestartPrevious: the old file is restored, and not put to use.
RestartPreviousSkipped ==
    /\ pc = "restored"
    /\ pc' = "unwind" /\ verdict' = "rolledBack"
    /\ UNCHANGED <<Settled, agent, disk, core, keys, backup, faults>>

RestartPrevious ==
    /\ pc = "restored"
    /\ \/ core' = config /\ verdict' = "rolledBack" /\ UNCHANGED faults
       \/ /\ Fault /\ UNCHANGED verdict
          /\ \/ core' \in {config, Down}
             \/ lapses \cap {"deadline", "sync"} # {} /\ core' = core
    /\ pc' = "unwind"
    /\ UNCHANGED <<Settled, agent, disk, keys, backup>>

RolledBack == verdict = "rolledBack"

\* restoreRealityIdentity, when this request changed the identity
RestoreIdentity(restored, ok) ==
    /\ pc = "unwind"
    /\ identity' = restored
    /\ \/ /\ saveFailed
          /\ pc' = "unrecord" /\ verdict' = IF RolledBack /\ ok THEN verdict ELSE "none"
          /\ UNCHANGED agent
       \/ ~saveFailed /\ Fail(req, RolledBack /\ ok)
    /\ UNCHANGED <<Settled, config, applied, core, keys, backup>>

Unwind ==
    \/ RestoreIdentity(prior, TRUE) /\ UNCHANGED faults
    \/ prior # identity /\ RestoreIdentity(identity, FALSE) /\ Fault
    \/ prior # identity /\ "sync" \in lapses /\ RestoreIdentity(prior, FALSE) /\ Fault

\* restoreRealityApplied
RestoreApplied(restored, ok) ==
    /\ pc = "unrecord"
    /\ applied' = restored
    /\ Fail(req, RolledBack /\ ok)
    /\ UNCHANGED <<Settled, config, identity, core, keys, backup>>

Unrecord ==
    \/ RestoreApplied(was, TRUE) /\ UNCHANGED faults
    \/ RestoreApplied(applied, FALSE) /\ Fault
    \/ "sync" \in lapses /\ RestoreApplied(was, FALSE) /\ Fault

----------------------------------------------------------------------------
(* Faults of the host *)

\* The core does not run the file on disk.
InWindow == core \notin {Down, config}

Kill ==
    /\ pc # "idle" /\ (InWindow => "kill" \in lapses) /\ Fault
    /\ pc' = "idle" /\ verdict' = "none"
    /\ waiting' = IF waiting = req THEN None ELSE waiting
    /\ UNCHANGED <<Settled, acked, disk, core, keys, backup>>

Reboot ==
    /\ Fault
    /\ pc' = "idle" /\ verdict' = "none" /\ core' = Down
    /\ requests' = {} /\ waiting' = None
    /\ UNCHANGED <<desired, acked, disk, keys, req, prior, was, backup, saveFailed>>

CoreFails ==
    /\ core # Down /\ Fault
    /\ core' = Down
    /\ UNCHANGED <<desired, agent, requests, disk, keys, helper>>

\* Restart=on-failure, and the start of the host
CoreStarts ==
    /\ core = Down /\ config # None
    /\ core' = config
    /\ UNCHANGED <<desired, agent, requests, disk, keys, helper, faults>>

HelperStep ==
    /\ \/ \E r \in requests : Refuse(r) \/ AcceptSame(r) \/ AcceptNew(r)
       \/ EnsureIdentity \/ EnsureIdentityFails \/ CheckHealth \/ PrepareCandidate
       \/ ReplaceConfig \/ RestartCore \/ RecordApplied \/ RecordFails
       \/ RollbackConfig \/ RollbackConfigFails \/ RestartPrevious \/ Unwind \/ Unrecord
    /\ UNCHANGED lapses

AgentStep == RequestApply /\ UNCHANGED lapses
SystemdStep == CoreStarts /\ UNCHANGED lapses

EnvironmentStep ==
    /\ \/ \E s \in Settings : Publish(s)
       \/ RotateVLESSRealityIdentity \/ GiveUp
       \/ \E r \in requests : LockTimeout(r)
       \/ Kill \/ Reboot \/ CoreFails
    /\ UNCHANGED lapses

Next == AgentStep \/ HelperStep \/ SystemdStep \/ EnvironmentStep

Spec == Init /\ [][Next]_vars

\* The agent polls, the helper's process runs, systemd restarts the core.
FairSpec == Spec /\ WF_vars(AgentStep) /\ WF_vars(HelperStep) /\ WF_vars(SystemdStep)

----------------------------------------------------------------------------
(* Properties *)

\* What the core runs, unless it is down, is what is newly acknowledged: the
\* users, the settings and the key of that very snapshot.
Served == core' \in {Down, [settings |-> acked'.snap.settings, key |-> acked'.key]}

\* A snapshot is acknowledged only after the core runs it (applyReality reports
\* "succeeded" only after the activation), whatever fails before or after, is
\* rolled back or comes again, on a host without lapses.
AckedIsServed == [][lapses = {} /\ acked' # acked => Served]_vars

\* rolled_back=true is the truth: configuration, identity and applied record
\* are those found by the request, and the core runs that configuration.
RolledBackIsPrevious ==
    lapses = {} /\ pc = "idle" /\ RolledBack =>
        config = backup /\ identity = prior /\ applied = was /\ core \in {Down, backup}

\* No silent rotation: two acknowledgements with the same key generation carry
\* the same key, whatever restarts, retries and rollbacks lie between them.
KeyIsPinned ==
    [][acked # None /\ acked' # acked /\ acked'.snap.gen = acked.snap.gen
        => acked'.key = acked.key]_vars

\* The node ends up with the last snapshot published, on a host without lapses;
\* after a failed sync of the applied record a lost rollback may refuse it.
Converges == <>[](lapses # {} \/ (acked # None /\ acked.snap = desired))

============================================================================
