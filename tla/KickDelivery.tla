---------------------------- MODULE KickDelivery ----------------------------
(***************************************************************************)
(* Disconnecting users of a native_hysteria2 node, from the transaction    *)
(* that takes their right to the node (UserAccess) to the core that drops  *)
(* their sessions.                                                         *)
(*                                                                         *)
(* The agent queues the kicks of a snapshot in agent.db, replaces its      *)
(* authentication cache, and asks the core to drop the sessions of the     *)
(* queued users, so many in one call; the usage cycle executes what is     *)
(* left.  Meanwhile clients connect whenever the cache admits them.        *)
(***************************************************************************)
EXTENDS UserAccess

CONSTANTS
    Host,       \* the native node whose agent is modelled
    KickLimit   \* how many kicks one call of executePendingKicks lists (256)

ASSUME HostAssumption == Host \in Nodes /\ Adapter[Host] = "native_hysteria2"
ASSUME KickLimitAssumption == KickLimit \in Nat \ {0}

VARIABLES
    applied,    \* agent: applied_version in memory
    saved,      \* agent: applied_version in the state file
    cache,      \* agent: the authentication cache
    queued,     \* agent.db: kick_outbox, generation 0 for no row
    done,       \* agent.db: kick_state.applied_generation
    kicking,    \* kicks listed by executePendingKicks
    pc,         \* where the agent's loop is
    env,        \* snapshot being applied
    session,    \* core: users connected
    split,      \* a fault fell between queueKicks and authCache.Apply
    full        \* the last call of executePendingKicks listed KickLimit kicks

agent == <<applied, saved, cache, queued, done, kicking, pc, env, session, split, full>>
vars == <<access, agent>>

NoKicks == [u \in Users |-> 0]
NoSnapshot == [version |-> 0, users |-> [u \in Users |-> NoEntry], kicks |-> NoKicks]

\* The agent is up to date.
Init ==
    /\ AccessInit
    /\ applied = 1 /\ saved = 1 /\ cache = pub[Host]
    /\ queued = NoKicks /\ done = NoKicks /\ kicking = NoKicks
    /\ pc = "idle" /\ env = NoSnapshot
    /\ session = {} /\ split = FALSE /\ full = FALSE

Server == AccessNext /\ UNCHANGED agent

----------------------------------------------------------------------------
(* The core's clients *)

\* AuthCache.Authenticate: the expiry is compared with the node's own clock.
Connect(u) ==
    /\ bound.agent
    /\ u \notin session /\ Admits(cache, u) /\ clock < cache.users[u].expires
    /\ session' = session \cup {u}
    /\ UNCHANGED <<access, applied, saved, cache, queued, done, kicking, pc, env, split, full>>

Disconnect(u) ==
    /\ u \in session
    /\ session' = session \ {u}
    /\ UNCHANGED <<access, applied, saved, cache, queued, done, kicking, pc, env, split, full>>

----------------------------------------------------------------------------
(* The agent's loop *)

PollDesired ==
    /\ bound.agent
    /\ pc = "idle" /\ ~node[Host].archived /\ pub[Host].version > applied
    /\ pc' = "fetched" /\ env' = pub[Host]
    /\ UNCHANGED <<access, applied, saved, cache, queued, done, kicking, session, split, full>>

\* queueKicks: generations already executed are skipped.
QueueKicks ==
    /\ pc = "fetched"
    /\ queued' = [u \in Users |->
          IF env.kicks[u] > done[u] /\ env.kicks[u] > queued[u] THEN env.kicks[u] ELSE queued[u]]
    /\ pc' = "queued"
    /\ UNCHANGED <<access, applied, saved, cache, done, kicking, env, session, split, full>>

ApplyCache ==
    /\ pc = "queued" /\ env.version >= cache.version
    /\ cache' = env
    /\ pc' = "cached"
    /\ UNCHANGED <<access, applied, saved, queued, done, kicking, env, session, split, full>>

Waiting == {u \in Users : queued[u] # 0}

\* listPendingKicks: as many of the waiting rows as the limit allows.  Which
\* ones come first (created_at, user_id) is left open.
ListPendingKicks ==
    {S \in SUBSET Waiting : /\ Cardinality(S) <= KickLimit
                            /\ S = Waiting \/ Cardinality(S) = KickLimit}

\* executePendingKicks: the core drops the sessions of the listed users.
ExecuteKicks(from, to) ==
    /\ pc = from
    /\ from = "idle" => bound.agent /\ queued # NoKicks
    /\ \E S \in ListPendingKicks :
          /\ kicking' = [u \in Users |-> IF u \in S THEN queued[u] ELSE 0]
          /\ session' = session \ S
    /\ pc' = to
    /\ UNCHANGED <<access, applied, saved, cache, queued, done, env, split, full>>

\* Mutant of MarkKicksApplied: the queue is emptied, the state not written.
MarkKicksForgotten(from, to) ==
    /\ pc = from
    /\ queued' = [u \in Users |-> IF queued[u] <= kicking[u] THEN 0 ELSE queued[u]]
    /\ kicking' = NoKicks
    /\ full' = (Cardinality({u \in Users : kicking[u] # 0}) = KickLimit)
    /\ pc' = to
    /\ UNCHANGED <<access, applied, saved, cache, done, env, session, split>>

\* Mutant of MarkKicksApplied: the whole queue is emptied.
MarkKicksAppliedAll(from, to) ==
    /\ pc = from
    /\ done' = [u \in Users |-> IF kicking[u] > done[u] THEN kicking[u] ELSE done[u]]
    /\ queued' = NoKicks
    /\ kicking' = NoKicks
    /\ full' = (Cardinality({u \in Users : kicking[u] # 0}) = KickLimit)
    /\ pc' = to
    /\ UNCHANGED <<access, applied, saved, cache, env, session, split>>

\* markKicksApplied
MarkKicksApplied(from, to) ==
    /\ pc = from
    /\ done' = [u \in Users |-> IF kicking[u] > done[u] THEN kicking[u] ELSE done[u]]
    /\ queued' = [u \in Users |-> IF queued[u] <= kicking[u] THEN 0 ELSE queued[u]]
    /\ kicking' = NoKicks
    /\ full' = (Cardinality({u \in Users : kicking[u] # 0}) = KickLimit)
    /\ pc' = to
    /\ UNCHANGED <<access, applied, saved, cache, env, session, split>>

PersistState ==
    /\ pc = "kicked"
    /\ applied' = env.version /\ saved' = env.version
    /\ pc' = "idle" /\ env' = NoSnapshot
    /\ UNCHANGED <<access, cache, queued, done, kicking, session, split, full>>

Fault ==
    /\ faults < bound.faults /\ faults' = faults + 1
    /\ split' = (split \/ pc = "queued")
    /\ env' = NoSnapshot /\ full' = full
    /\ UNCHANGED <<bound, clock, user, asg, node, gen, pub, request, sweep, late, asked, writes>>

\* A call of the poll fails: agent.db, the cache file or the core's API; the
\* failed acknowledgement changes nothing here.
StepFails ==
    /\ pc \notin {"idle", "kicked"}
    /\ pc' = "idle" /\ kicking' = NoKicks
    /\ Fault
    /\ UNCHANGED <<applied, saved, cache, queued, done, session>>

\* SaveState fails: memory is ahead of the file.
PersistStateFails ==
    /\ pc = "kicked"
    /\ applied' = env.version
    /\ pc' = "idle"
    /\ Fault
    /\ UNCHANGED <<saved, cache, queued, done, kicking, session>>

Crash ==
    /\ bound.agent
    /\ pc' = "idle" /\ kicking' = NoKicks /\ applied' = saved
    /\ Fault
    /\ UNCHANGED <<saved, cache, queued, done, session>>

Next ==
    \/ Server
    \/ \E u \in Users : Connect(u) \/ Disconnect(u)
    \/ PollDesired \/ QueueKicks \/ ApplyCache
    \/ ExecuteKicks("cached", "mark") \/ MarkKicksApplied("mark", "kicked")
    \/ ExecuteKicks("idle", "usageMark") \/ MarkKicksApplied("usageMark", "idle")
    \/ PersistState
    \/ StepFails \/ PersistStateFails \/ Crash

Spec == Init /\ [][Next]_vars

\* The timers of the agent keep firing, the usage cycle's too, and calls return.
FairSpec ==
    /\ Spec /\ AccessFairness
    /\ SF_vars(PollDesired)
    /\ WF_vars(QueueKicks) /\ WF_vars(ApplyCache)
    /\ WF_vars(ExecuteKicks("cached", "mark")) /\ WF_vars(MarkKicksApplied("mark", "kicked"))
    /\ WF_vars(ExecuteKicks("idle", "usageMark"))
    /\ WF_vars(MarkKicksApplied("usageMark", "idle")) /\ WF_vars(PersistState)

----------------------------------------------------------------------------
(* Properties *)

\* Once the agent has applied the server's newest snapshot, a user who has
\* no right to the node any more is not connected to it, whichever calls
\* failed and whenever the agent restarted: unless the last call of
\* executePendingKicks listed as many kicks as it may and left the user's in
\* the queue, where the usage cycle finds it (the version is acknowledged
\* nevertheless).  The exceptions are a kick queued by a poll that ended
\* before it replaced the cache (the usage cycle executes it while the old
\* cache still admits the user, who connects again) and a node that was
\* disabled, which kicks nobody.
DeniedIsDisconnected ==
    pc = "idle" /\ applied = pub[Host].version /\ ~split
        => \A u \in session : Entitled(Host, u) \/ (full /\ queued[u] # 0)

\* A kick is executed for every generation requested, sooner or later, however
\* many wait for the calls of executePendingKicks.
KicksAreExecuted ==
    bound.agent => <>[](node[Host].archived \/ (done = gen[Host] /\ queued = NoKicks))

=============================================================================
