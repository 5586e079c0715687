---------------------------- MODULE DesiredSync ----------------------------
(***************************************************************************)
(* Desired-state synchronisation of one native_hysteria2 node.             *)
(*                                                                         *)
(* The server keeps the rows nodes, node_user_assignments,                 *)
(* user_credentials and node_snapshots; every operation of an operator is  *)
(* one immediate SQLite transaction that publishes a new immutable         *)
(* snapshot.  The agent polls, replaces its authentication cache, records  *)
(* the version in its state file and acknowledges it.  Requests and        *)
(* responses get lost, an acknowledgement may arrive after the agent gave  *)
(* up on it, the agent crashes between any two steps, its files cannot be  *)
(* written, and its state is lost and the node enrolled again.             *)
(*                                                                         *)
(* A snapshot is identified by its version: the hash that travels with it  *)
(* is that of an immutable row.                                            *)
(***************************************************************************)
EXTENDS Naturals, FiniteSets

CONSTANTS
    Users,          \* user ids
    CredIds,        \* names of the credentials a user gets, one by one
    NoCred,         \* the NULL of applied_credential_id
    MaxVersion,     \* bound on desired_version
    MaxInst,        \* bound on the number of agent installations
    MaxFaults       \* bound on lost messages, crashes and failed writes

ASSUME BoundsAssumption ==
    /\ MaxVersion \in Nat \ {0}
    /\ MaxInst \in Nat \ {0}
    /\ MaxFaults \in Nat
ASSUME NoCredAssumption == NoCred \notin Users \X CredIds

VARIABLES
    desiredVersion, \* nodes.desired_version
    snap,           \* node_snapshots: version -> user -> entry
    node,           \* the other columns of nodes
    userState,      \* users.enabled / users.archived_at
    asg,            \* node_user_assignments, state "none" for no row
    credState,      \* user_credentials.state, "unused" for no row
    file,           \* the agent's state file
    mem,            \* the agent's copy of it in memory
    cache,          \* the agent's authentication cache
    pc,             \* where the agent's loop is
    env,            \* version of the snapshot being applied
    late,           \* acknowledgements still in the network
    faults          \* faults so far

serverVars == <<desiredVersion, snap, node, userState, asg, credState>>
agentVars == <<file, mem, cache, pc, env>>
vars == <<serverVars, agentVars, late, faults>>

----------------------------------------------------------------------------
(* The rows and files *)

Versions == 1..MaxVersion
Creds == Users \X CredIds            \* <<user_id, id>> of user_credentials
Entry == [cred : Creds \cup {NoCred}, on : BOOLEAN]
NoEntry == [cred |-> NoCred, on |-> FALSE]
Assignment ==
    [ state   : {"none", "pending", "applied", "failed"},
      enabled : BOOLEAN,
      cred    : Creds \cup {NoCred},     \* desired_credential_id
      acred   : Creds \cup {NoCred},     \* applied_credential_id
      desired : 0..MaxVersion,           \* desired_version
      applied : 0..MaxVersion ]          \* applied_version
NoAssignment ==
    [ state |-> "none", enabled |-> FALSE, cred |-> NoCred, acred |-> NoCred,
      desired |-> 0, applied |-> 0 ]
Ack == [inst : 1..MaxInst, version : Versions, status : {"applied", "failed"}]

ServerTypeOK ==
    /\ desiredVersion \in Versions
    /\ snap \in [Versions -> [Users -> Entry]]
    /\ node \in [ applied : 0..MaxVersion, inst : 0..MaxInst, enabled : BOOLEAN,
                  status : {"pending", "online", "degraded", "disabled"},
                  archived : {"no", "plain", "forced"} ]
    /\ userState \in [Users -> {"enabled", "disabled", "archived"}]
    /\ asg \in [Users -> Assignment]
    /\ credState \in [Creds -> {"unused", "staged", "applied", "retired", "revoked"}]

AgentTypeOK ==
    /\ file \in [ inst : 1..MaxInst, enrolled : BOOLEAN,
                  applied : 0..MaxVersion, pending : 0..MaxVersion ]
    /\ mem \in [applied : 0..MaxVersion, pending : 0..MaxVersion]
    /\ cache \in [version : 0..MaxVersion, users : [Users -> Entry]]
    /\ pc \in {"start", "idle", "fetched", "cached", "failing"}
    /\ env \in 0..MaxVersion
    /\ late \subseteq Ack
    /\ faults \in 0..MaxFaults

\* Every row, file and message has its shape.
TypeOK == ServerTypeOK /\ AgentTypeOK

\* What insertSnapshot writes for user u: the desired credential of an
\* assignment of a user that is not archived, if it is staged or applied.
EntryOf(us, as, cs, enabled, u) ==
    IF /\ as[u].state # "none"
       /\ us[u] # "archived"
       /\ cs[as[u].cred] \in {"staged", "applied"}
    THEN [ cred |-> as[u].cred,
           on |-> us[u] = "enabled" /\ as[u].enabled /\ enabled ]
    ELSE NoEntry

Init ==
    /\ desiredVersion = 1
    /\ snap = [v \in Versions |-> [u \in Users |-> NoEntry]]
    /\ node = [ applied |-> 0, inst |-> 0, enabled |-> TRUE,
                status |-> "pending", archived |-> "no" ]
    /\ userState = [u \in Users |-> "enabled"]
    /\ asg = [u \in Users |-> NoAssignment]
    /\ credState = [c \in Creds |-> "unused"]
    /\ file = [inst |-> 1, enrolled |-> FALSE, applied |-> 0, pending |-> 0]
    /\ mem = [applied |-> 0, pending |-> 0]
    /\ cache = [version |-> 0, users |-> [u \in Users |-> NoEntry]]
    /\ pc = "start"
    /\ env = 0
    /\ late = {}
    /\ faults = 0

----------------------------------------------------------------------------
(* Operations of an operator.  Each names the rows it writes and ends by   *)
(* publishing the snapshot of what it wrote.                               *)

\* bumpNodeSnapshot: the next version, with the content of the new rows.
BumpNodeSnapshot(us, as, cs, enabled) ==
    /\ node.archived = "no"
    /\ desiredVersion < MaxVersion
    /\ desiredVersion' = desiredVersion + 1
    /\ snap' = [snap EXCEPT ![desiredVersion + 1] =
                    [u \in Users |-> EntryOf(us, as, cs, enabled, u)]]
    /\ UNCHANGED <<agentVars, late, faults>>

\* markAssignmentPending
Pending(a) == [a EXCEPT !.state = "pending", !.desired = desiredVersion + 1]

AssignUser(u, c) ==
    LET as == [asg EXCEPT ![u] =
                  [ state |-> "pending", enabled |-> TRUE, cred |-> c,
                    acred |-> NoCred, desired |-> desiredVersion + 1, applied |-> 0 ]]
        cs == [credState EXCEPT ![c] = "staged"]
    IN  /\ userState[u] # "archived"
        /\ asg[u].state = "none"
        /\ credState[c] = "unused"
        /\ asg' = as
        /\ credState' = cs
        /\ BumpNodeSnapshot(userState, as, cs, node.enabled)
        /\ UNCHANGED <<node, userState>>

\* rotateAssignmentCredentialTx: refused while an earlier change is pending.
RotateCredential(u, c) ==
    LET as == [asg EXCEPT ![u] = Pending([@ EXCEPT !.cred = c])]
        cs == [credState EXCEPT ![c] = "staged"]
    IN  /\ userState[u] # "archived"
        /\ asg[u].state = "applied"
        /\ asg[u].applied >= asg[u].desired
        /\ asg[u].cred = asg[u].acred
        /\ credState[c] = "unused"
        /\ asg' = as
        /\ credState' = cs
        /\ BumpNodeSnapshot(userState, as, cs, node.enabled)
        /\ UNCHANGED <<node, userState>>

\* Mutant of UnassignUser: deletes the row and publishes nothing.
UnassignUserUnpublished(u) ==
    /\ asg[u].state # "none"
    /\ asg' = [asg EXCEPT ![u] = NoAssignment]
    /\ credState' = [credState EXCEPT ![asg[u].cred] = "revoked"]
    /\ UNCHANGED <<desiredVersion, snap, node, userState, agentVars, late, faults>>

\* UnassignUser: like the kick it requests, it does not look at
\* users.archived_at.
UnassignUser(u) ==
    LET as == [asg EXCEPT ![u] = NoAssignment]
        cs == [credState EXCEPT ![asg[u].cred] = "revoked"]
    IN  /\ asg[u].state # "none"
        /\ asg' = as
        /\ credState' = cs
        /\ BumpNodeSnapshot(userState, as, cs, node.enabled)
        /\ UNCHANGED <<node, userState>>

\* updateUserTx: with an assignment, the user row and then the snapshot.
UpdateUser(u, enabled) ==
    LET us == [userState EXCEPT ![u] = IF enabled THEN "enabled" ELSE "disabled"]
        as == [asg EXCEPT ![u] = Pending(@)]
    IN  /\ userState[u] # "archived"
        /\ asg[u].state # "none"
        /\ userState' = us
        /\ asg' = as
        /\ BumpNodeSnapshot(us, as, credState, node.enabled)
        /\ UNCHANGED <<node, credState>>

\* updateUserTx without one publishes nothing.
UpdateIdleUser(u, enabled) ==
    /\ userState[u] # "archived"
    /\ asg[u].state = "none"
    /\ userState' = [userState EXCEPT ![u] = IF enabled THEN "enabled" ELSE "disabled"]
    /\ UNCHANGED <<desiredVersion, snap, node, asg, credState, agentVars, late, faults>>

\* UpdateAssignment and the kick that disabling requests do not look at
\* users.archived_at either.
UpdateAssignment(u, enabled) ==
    LET as == [asg EXCEPT ![u] = Pending([@ EXCEPT !.enabled = enabled])]
    IN  /\ asg[u].state # "none"
        /\ asg' = as
        /\ BumpNodeSnapshot(userState, as, credState, node.enabled)
        /\ UNCHANGED <<node, userState, credState>>

\* Every staged or applied credential of the user is revoked.
RevokeAll(u) ==
    [c \in Creds |-> IF c[1] = u /\ credState[c] \in {"staged", "applied"}
                      THEN "revoked" ELSE credState[c]]

ArchiveUser(u) ==
    LET us == [userState EXCEPT ![u] = "archived"]
        as == [asg EXCEPT ![u] = Pending(@)]
    IN  /\ userState[u] # "archived"
        /\ asg[u].state # "none"
        /\ userState' = us
        /\ asg' = as
        /\ credState' = RevokeAll(u)
        /\ BumpNodeSnapshot(us, as, RevokeAll(u), node.enabled)
        /\ UNCHANGED node

ArchiveIdleUser(u) ==
    /\ userState[u] # "archived"
    /\ asg[u].state = "none"
    /\ userState' = [userState EXCEPT ![u] = "archived"]
    /\ credState' = RevokeAll(u)
    /\ UNCHANGED <<desiredVersion, snap, node, asg, agentVars, late, faults>>

\* UpdateNode and RetryNodeSync put every assignment back to pending.
AllPending == [u \in Users |-> IF asg[u].state = "none" THEN asg[u] ELSE Pending(asg[u])]

UpdateNode(enabled) ==
    /\ node' = [node EXCEPT !.enabled = enabled,
                            !.status = IF enabled THEN "pending" ELSE "disabled"]
    /\ asg' = AllPending
    /\ BumpNodeSnapshot(userState, AllPending, credState, enabled)
    /\ UNCHANGED <<userState, credState>>

RetryNodeSync ==
    /\ node.inst # 0
    /\ node' = [node EXCEPT !.status = IF node.enabled THEN "pending" ELSE "disabled"]
    /\ asg' = AllPending
    /\ BumpNodeSnapshot(userState, AllPending, credState, node.enabled)
    /\ UNCHANGED <<userState, credState>>

\* ArchiveNodeWithForce
ArchiveNode(force) ==
    /\ node.archived = "no"
    /\ force => ~node.enabled
    /\ \A u \in Users : asg[u].state # "none" => userState[u] = "archived"
    /\ ~force =>
          /\ \A u \in Users : asg[u].state # "none" =>
                asg[u].state = "applied" /\ asg[u].applied >= asg[u].desired
          /\ node.inst # 0 => node.applied >= desiredVersion
    /\ node' = [node EXCEPT !.enabled = FALSE, !.status = "disabled",
                            !.archived = IF force THEN "forced" ELSE "plain"]
    /\ UNCHANGED <<desiredVersion, snap, userState, asg, credState, agentVars, late, faults>>

----------------------------------------------------------------------------
(* The server's side of the agent endpoints *)

\* The agent's credential is the one bound to the node.
Authenticated == file.enrolled /\ node.inst = file.inst /\ node.archived = "no"

\* Mutant of Acceptable: any version published so far.
AcceptableOld(m) ==
    node.archived = "no" /\ m.version <= desiredVersion /\ m.inst = node.inst

\* AcknowledgeDesiredWithMaterial refuses any other version or installation.
Acceptable(m) ==
    node.archived = "no" /\ m.version = desiredVersion /\ m.inst = node.inst

IsDesired(c) == \E u \in Users : asg[u].state # "none" /\ asg[u].cred = c

AckApplied(v) ==
    /\ node' = [node EXCEPT !.applied = v,
                            !.status = IF node.enabled THEN "online" ELSE "disabled"]
    /\ credState' = [c \in Creds |->
          CASE credState[c] = "applied" /\ ~IsDesired(c) -> "retired"
            [] credState[c] = "staged" /\ IsDesired(c) -> "applied"
            [] OTHER -> credState[c]]
    /\ asg' = [u \in Users |->
          IF asg[u].state # "none" /\ asg[u].desired <= v
          THEN [asg[u] EXCEPT !.acred = asg[u].cred, !.applied = v, !.state = "applied"]
          ELSE asg[u]]

AckFailed(v) ==
    /\ node' = [node EXCEPT !.status = "degraded"]
    /\ asg' = [u \in Users |->
          IF asg[u].state # "none" /\ asg[u].desired <= v
          THEN [asg[u] EXCEPT !.state = "failed"] ELSE asg[u]]
    /\ UNCHANGED credState

AcknowledgeDesired(m) ==
    /\ IF Acceptable(m)
       THEN IF m.status = "applied" THEN AckApplied(m.version) ELSE AckFailed(m.version)
       ELSE UNCHANGED <<node, asg, credState>>
    /\ UNCHANGED <<desiredVersion, snap, userState>>

\* RecordHeartbeat, for a compatible adapter
Heartbeat ==
    /\ Authenticated
    /\ node' = [node EXCEPT !.status = IF node.enabled THEN "online" ELSE "disabled"]
    /\ UNCHANGED <<desiredVersion, snap, userState, asg, credState, agentVars, late, faults>>

\* Mutant of EnrollAgent: binds the installation and keeps the rows.
EnrollAgentKeepsRows ==
    /\ ~file.enrolled
    /\ node.archived = "no"
    /\ node' = [node EXCEPT !.inst = file.inst, !.applied = 0, !.status = "pending"]
    /\ UNCHANGED <<desiredVersion, snap, userState, asg, credState, agentVars, late, faults>>

\* EnrollAgent with an unused token, on behalf of the agent's installation:
\* whatever an earlier installation acknowledged is forgotten.
EnrollAgent ==
    /\ ~file.enrolled
    /\ node.archived = "no"
    /\ node' = [node EXCEPT !.inst = file.inst, !.applied = 0, !.status = "pending"]
    /\ credState' = [c \in Creds |->
          IF credState[c] = "applied"
          THEN IF IsDesired(c) THEN "staged" ELSE "retired"
          ELSE credState[c]]
    /\ asg' = [u \in Users |->
          IF asg[u].state = "none" THEN asg[u]
          ELSE [asg[u] EXCEPT !.acred = NoCred, !.applied = 0, !.state = "pending"]]
    /\ UNCHANGED <<desiredVersion, snap, userState, agentVars, late, faults>>

----------------------------------------------------------------------------
(* The agent *)

Fault == faults < MaxFaults /\ faults' = faults + 1

\* The enrollment response, possibly replayed, reaches the agent.
EnrollResponse ==
    /\ ~file.enrolled /\ node.inst = file.inst
    /\ file' = [file EXCEPT !.enrolled = TRUE]
    /\ UNCHANGED <<serverVars, mem, cache, pc, env, late, faults>>

\* pollDesired: a newer snapshot was returned.  At start-up the poll happens
\* whether or not the pending acknowledgement went through.
PollDesired ==
    /\ Authenticated
    /\ pc = "start" \/ (pc = "idle" /\ mem.pending = 0)
    /\ IF desiredVersion > mem.applied
       THEN pc' = "fetched" /\ env' = desiredVersion
       ELSE pc' = "idle" /\ UNCHANGED env
    /\ UNCHANGED <<serverVars, file, mem, cache, late, faults>>

PollLost ==
    /\ pc = "start" /\ file.enrolled
    /\ pc' = "idle"
    /\ Fault
    /\ UNCHANGED <<serverVars, file, mem, cache, env, late>>

\* authCache.Apply: the file is replaced, then the index in memory.
ApplyCache ==
    /\ pc = "fetched"
    /\ env >= cache.version
    /\ cache' = [version |-> env, users |-> snap[env]]
    /\ pc' = "cached"
    /\ UNCHANGED <<serverVars, file, mem, env, late, faults>>

ApplyCacheFails ==
    /\ pc = "fetched"
    /\ pc' = "failing"
    /\ Fault
    /\ UNCHANGED <<serverVars, file, mem, cache, env, late>>

\* executePendingKicks fails after the cache was replaced.
ExecuteKicksFails ==
    /\ pc = "cached"
    /\ pc' = "failing"
    /\ Fault
    /\ UNCHANGED <<serverVars, file, mem, cache, env, late>>

\* The version and the acknowledgement to send are set in memory and saved.
PersistState ==
    /\ pc = "cached"
    /\ mem' = [applied |-> env, pending |-> env]
    /\ file' = [file EXCEPT !.applied = env, !.pending = env]
    /\ pc' = "idle"
    /\ UNCHANGED <<serverVars, cache, env, late, faults>>

\* SaveState fails: memory keeps the new values, the file the old ones.
PersistStateFails ==
    /\ pc = "cached"
    /\ mem' = [applied |-> env, pending |-> env]
    /\ pc' = "idle"
    /\ Fault
    /\ UNCHANGED <<serverVars, file, cache, env, late>>

AckOf(v, status) == [inst |-> file.inst, version |-> v, status |-> status]
Sending == pc \in {"start", "idle"} /\ mem.pending # 0

\* Mutant of SendPendingAck: a refused acknowledgement is kept for ever.
SendPendingAckKeepsStale ==
    /\ Sending /\ Authenticated
    /\ AcknowledgeDesired(AckOf(mem.pending, "applied"))
    /\ Acceptable(AckOf(mem.pending, "applied"))
    /\ mem' = [mem EXCEPT !.pending = 0]
    /\ file' = [file EXCEPT !.applied = mem.applied, !.pending = 0]
    /\ UNCHANGED <<cache, pc, env, late, faults>>

\* sendPendingAck: accepted, or refused and confirmed superseded by a newer
\* version; either way the pending acknowledgement is cleared and saved.
SendPendingAck ==
    /\ Sending /\ Authenticated
    /\ AcknowledgeDesired(AckOf(mem.pending, "applied"))
    /\ Acceptable(AckOf(mem.pending, "applied")) \/ desiredVersion > mem.pending
    /\ mem' = [mem EXCEPT !.pending = 0]
    /\ file' = [file EXCEPT !.applied = mem.applied, !.pending = 0]
    /\ UNCHANGED <<cache, pc, env, late, faults>>

\* The response is lost, or the cleared state cannot be saved and is put back.
SendPendingAckUnconfirmed ==
    /\ Sending /\ Authenticated
    /\ AcknowledgeDesired(AckOf(mem.pending, "applied"))
    /\ Fault
    /\ UNCHANGED <<agentVars, late>>

\* The request is still under way when the agent's client times out.
SendPendingAckDelayed ==
    /\ Sending /\ Authenticated
    /\ late' = late \cup {AckOf(mem.pending, "applied")}
    /\ Fault
    /\ UNCHANGED <<serverVars, agentVars>>

\* ackFailed; its outcome is not remembered.
SendFailedAck ==
    /\ pc = "failing"
    /\ AcknowledgeDesired(AckOf(env, "failed"))
    /\ pc' = "idle"
    /\ UNCHANGED <<file, mem, cache, env, late, faults>>

SendFailedAckLost ==
    /\ pc = "failing"
    /\ pc' = "idle"
    /\ late' \in {late, late \cup {AckOf(env, "failed")}}
    /\ Fault
    /\ UNCHANGED <<serverVars, file, mem, cache, env>>

\* A delayed acknowledgement, authenticated when it was sent, is processed.
DeliverLateAck ==
    /\ \E m \in late : AcknowledgeDesired(m) /\ late' = late \ {m}
    /\ UNCHANGED <<agentVars, faults>>

\* The agent restarts from its files.
Crash ==
    /\ pc' = "start"
    /\ mem' = [applied |-> file.applied, pending |-> file.pending]
    /\ Fault
    /\ UNCHANGED <<serverVars, file, cache, env, late>>

\* The state file is gone, with or without the cache: LoadState makes up a
\* new installation, which has to enroll.
LoseState(keepCache) ==
    /\ file.inst < MaxInst
    /\ file' = [inst |-> file.inst + 1, enrolled |-> FALSE, applied |-> 0, pending |-> 0]
    /\ mem' = [applied |-> 0, pending |-> 0]
    /\ cache' = IF keepCache THEN cache
                ELSE [version |-> 0, users |-> [u \in Users |-> NoEntry]]
    /\ pc' = "start"
    /\ Fault
    /\ UNCHANGED <<serverVars, env, late>>

----------------------------------------------------------------------------
Operator ==
    \/ \E u \in Users : \/ \E c \in Creds : c[1] = u /\ (AssignUser(u, c) \/ RotateCredential(u, c))
                        \/ UnassignUser(u)
                        \/ \E b \in BOOLEAN : \/ UpdateUser(u, b)
                                              \/ UpdateIdleUser(u, b)
                                              \/ UpdateAssignment(u, b)
                        \/ ArchiveUser(u)
                        \/ ArchiveIdleUser(u)
    \/ \E b \in BOOLEAN : UpdateNode(b) \/ ArchiveNode(b)
    \/ RetryNodeSync

AgentStep ==
    \/ EnrollAgent \/ EnrollResponse
    \/ PollDesired \/ ApplyCache \/ PersistState
    \/ SendPendingAck \/ SendFailedAck
    \/ DeliverLateAck

Faulty ==
    \/ PollLost \/ ApplyCacheFails \/ ExecuteKicksFails \/ PersistStateFails
    \/ SendPendingAckUnconfirmed \/ SendPendingAckDelayed \/ SendFailedAckLost
    \/ Crash
    \/ \E b \in BOOLEAN : LoseState(b)

Next == Operator \/ Heartbeat \/ AgentStep \/ Faulty

Spec == Init /\ [][Next]_vars

\* The operator stops, the agent's loop, the network and the disk keep
\* working: the desired-state timer fires again and again, and an HTTP
\* request under way is processed or dropped.
Fairness ==
    /\ WF_vars(EnrollAgent) /\ WF_vars(EnrollResponse)
    /\ WF_vars(PollDesired) /\ WF_vars(ApplyCache) /\ WF_vars(PersistState)
    /\ WF_vars(SendPendingAck) /\ WF_vars(SendFailedAck)
    /\ WF_vars(DeliverLateAck)

FairSpec == Spec /\ Fairness

----------------------------------------------------------------------------
(* Properties *)

\* The endpoint row ResolveSubscription selects for a native node.
Rendered(u) ==
    /\ userState[u] = "enabled"
    /\ node.archived = "no" /\ node.enabled
    /\ node.status \notin {"pending", "degraded", "disabled"}
    /\ asg[u].state = "applied" /\ asg[u].enabled
    /\ asg[u].applied >= asg[u].desired
    /\ asg[u].acred # NoCred
    /\ credState[asg[u].acred] = "applied"

CurrentEntry(u) == EntryOf(userState, asg, credState, node.enabled, u)

\* The agent's data belongs to the installation bound to the node.
Bound == node.inst = file.inst

\* A subscription never renders a credential the node would refuse: what
\* ResolveSubscription hands out is in the cache the agent authenticates
\* against, enabled, whatever was lost, delayed or restarted in between.
RenderedCredentialIsAccepted ==
    Bound => \A u \in Users : Rendered(u) =>
        cache.users[u] = [cred |-> asg[u].acred, on |-> TRUE]

\* When nodes.applied_version has caught up with desired_version, the agent
\* authenticates exactly the users and credentials of the server's rows:
\* every disabled, unassigned or archived user is refused by then.
AcknowledgedMeansInstalled ==
    Bound /\ node.applied = desiredVersion =>
        \A u \in Users : cache.users[u] = CurrentEntry(u)

\* ArchiveNode without force waits until the agent has withdrawn everybody:
\* a node archived that way leaves no agent that still admits a user.
WithdrawnBeforeArchive ==
    node.archived = "plain" => \A u \in Users : ~cache.users[u].on

\* Once the present installation has acknowledged anything, a credential
\* that the server retired is no longer accepted by the node.
RetiredCredentialIsRefused ==
    Bound /\ node.applied > 0 =>
        \A u \in Users : cache.users[u].cred # NoCred =>
            credState[cache.users[u].cred] # "retired"

\* The server's record of what the node runs never goes back to an older
\* version, however late acknowledgements arrive; only an installation that
\* enrolls starts again from nothing.
AppliedNeverRegresses ==
    [][node'.applied < node.applied => node'.applied = 0 /\ ~file.enrolled]_vars

\* Nothing is left to do: the agent is at the desired version, owes no
\* acknowledgement and none is under way.
Quiescent ==
    /\ Authenticated
    /\ pc = "idle" /\ mem = [applied |-> desiredVersion, pending |-> 0]
    /\ file.pending = 0 /\ file.applied = desiredVersion
    /\ late = {}

\* Then the server's rows say so.
QuiescentAgreement ==
    Quiescent => \A u \in Users : asg[u].state \in {"none", "applied"}

\* With finitely many operator changes and faults every change reaches the
\* node's cache and its acknowledgement the server, and the agent owes no
\* acknowledgement, unless the node is archived: a pending acknowledgement
\* that was superseded does not hold the loop up.
Converges ==
    <>[](\/ node.archived # "no"
         \/ /\ node.applied = desiredVersion
            /\ file.applied = desiredVersion /\ file.pending = 0)

----------------------------------------------------------------------------
(* The inductive invariant: why the safety properties hold *)

\* An assignment row names a credential of its user, and is "applied" only
\* while its desired version is acknowledged.
RowsOK ==
    \A u \in Users : asg[u].state # "none" =>
        /\ asg[u].cred \in Creds /\ asg[u].cred[1] = u
        /\ 0 < asg[u].desired /\ asg[u].desired <= desiredVersion
        /\ asg[u].applied <= node.applied
        /\ asg[u].state = "applied" =>
              asg[u].acred = asg[u].cred /\ asg[u].desired <= asg[u].applied

\* Since an assignment's desired version every snapshot says the same of its
\* user as the rows do now; the newest one says so of every user.
SnapshotsOK ==
    \A u \in Users, v \in Versions :
        /\ v <= desiredVersion
        /\ v = desiredVersion \/ (asg[u].state # "none" /\ asg[u].desired <= v)
        => snap[v][u] = CurrentEntry(u)

\* No snapshot from the acknowledged one on names a retired credential.
RetiredOK ==
    node.applied > 0 =>
        \A u \in Users, v \in Versions :
            node.applied <= v /\ v <= desiredVersion /\ snap[v][u].cred # NoCred =>
                credState[snap[v][u].cred] # "retired"

ArchivedOK ==
    /\ node.applied <= desiredVersion
    /\ node.archived # "no" =>
          \A u \in Users : asg[u].state # "none" => userState[u] = "archived"
    /\ node.archived = "plain" => node.inst = 0 \/ node.applied = desiredVersion

\* The cache is one of the snapshots, not older than what was acknowledged
\* (an empty cache belongs to an installation that has yet to enroll).
CacheOK ==
    /\ cache.version <= desiredVersion
    /\ cache.version = 0 => cache.users = [u \in Users |-> NoEntry]
    /\ cache.version # 0 => cache.users = snap[cache.version]
    /\ node.inst = 0 => cache.version = 0
    /\ cache.version = 0 \/ node.applied <= cache.version
    /\ Bound => node.applied <= cache.version

\* What the agent acknowledges, now or later, is in its cache.
AgentOK ==
    /\ node.inst <= file.inst
    /\ file.enrolled => Bound
    /\ pc \in {"fetched", "cached", "failing"} =>
          file.enrolled /\ env \in Versions /\ env <= desiredVersion
    /\ pc = "cached" => env = cache.version
    /\ mem.pending <= cache.version
    /\ file.pending <= cache.version

\* A delayed acknowledgement of the present installation is of a version in
\* the cache; one of an earlier installation is of a version the cache had.
LateOK ==
    \A m \in late :
        /\ m.inst <= file.inst
        /\ m.version <= desiredVersion
        /\ m.status = "applied" =>
              /\ cache.version = 0 \/ m.version <= cache.version
              /\ m.inst = file.inst => m.version <= cache.version
              /\ pc = "fetched" => m.version <= env

\* The conjunction is preserved by every step of the server, the agent and
\* the network, and implies the safety properties above.
IInv ==
    TypeOK /\ RowsOK /\ SnapshotsOK /\ RetiredOK /\ ArchivedOK /\ CacheOK /\ AgentOK /\ LateOK
=============================================================================
