-------------------------- MODULE TrafficAccounting --------------------------
(***************************************************************************)
(* Traffic accounting of one node, from the counters of the proxy core to  *)
(* the totals of the control plane.                                        *)
(*                                                                         *)
(* The agent reads the core's cumulative counters, writes the differences  *)
(* to its baselines as immutable batches into an outbox (one SQLite        *)
(* transaction), and posts the batches one by one until the server says    *)
(* accepted or duplicate.  The server ingests a batch in one transaction;  *)
(* the quota states, kicks and snapshots that transaction also changes are *)
(* in UserAccess.                                                          *)
(*                                                                         *)
(* The core restarts and its counters start from zero; a request or a      *)
(* response is lost, or processed after the agent gave up on it; operators *)
(* unassign, reassign and archive users; and the agent's state file is     *)
(* deleted to bind the node again while agent.db is kept.                  *)
(***************************************************************************)
EXTENDS Naturals, FiniteSets, Functions

CONSTANTS
    Users,
    BatchSize,      \* MaxTrafficItemsPerBatch
    MaxCarried,     \* bound on the bytes carried
    MaxCores,       \* bound on the incarnations of the core
    MaxChanges,     \* bound on operator changes
    MaxFaults       \* bound on lost and late requests

ASSUME TrafficAssumption ==
    /\ IsFiniteSet(Users)
    /\ BatchSize \in Nat \ {0}
    /\ MaxCarried \in Nat /\ MaxCores \in Nat \ {0}
    /\ MaxChanges \in Nat /\ MaxFaults \in Nat

Dirs == {"tx", "rx"}
Counter == [Dirs -> Nat]
Zero == [d \in Dirs |-> 0]

\* A row of traffic_outbox.  Fresh identifiers are drawn in increasing
\* order, so id is also the ordinal.  core is not in the code: it names the
\* incarnation that carried the bytes.
Batch == [ id : Nat, inst : Nat, source : Nat, seq : Nat, core : Nat,
           items : [Users -> Counter] ]
\* A row of usage_baselines; core as above.
Baseline == [core : Nat, bytes : Counter]
NoBaseline == [core |-> 0, bytes |-> Zero]
Dispositions == {"none", "accounted", "unassigned", "archived_user"}

VARIABLES
    core,       \* the core: whether it names its incarnation, which one, its counters
    carried,    \* history: all bytes ever carried
    missed,     \* history: bytes no sample could see
    db,         \* agent.db: usage_runtime and usage_baselines
    outbox,     \* agent.db: traffic_outbox
    drawn,      \* identifiers drawn so far
    inst,       \* installation of the agent, bound to the node
    posts,      \* requests under way that the agent gave up on
    rows,       \* server: traffic_batches with the items' dispositions
    total,      \* server: traffic of users, assignments and traffic_totals
    nodeTotal,  \* server: traffic of the node
    unattributed,   \* server: nodes.traffic_unattributed_bytes
    userState,  \* server: assigned to the node, unassigned or archived
    budget      \* changes and faults so far

coreVars == <<core, carried, missed>>
agentVars == <<db, outbox, drawn, inst>>
ledgerVars == <<rows, total, nodeTotal, unattributed>>
vars == <<coreVars, agentVars, posts, ledgerVars, userState, budget>>

\* Every counter, row and message has its shape.
TypeOK ==
    /\ core \in [named : BOOLEAN, epoch : Nat, bytes : [Users -> Counter]]
    /\ carried \in [Users -> Counter]
    /\ missed \in [Users -> Counter]
    /\ db \in [ source : Nat, seq : Nat, init : BOOLEAN, counterEpoch : Nat,
                base : [Users -> Baseline] ]
    /\ outbox \subseteq Batch
    /\ drawn \in [batch : Nat, source : Nat]
    /\ inst \in Nat
    /\ posts \subseteq [batch : Batch, inst : Nat]
    /\ rows \subseteq [batch : Batch, disp : [Users -> Dispositions]]
    /\ total \in [Users -> Counter]
    /\ nodeTotal \in Counter
    /\ unattributed \in Nat
    /\ userState \in [Users -> {"assigned", "unassigned", "archived"}]
    /\ budget \in [changes : Nat, faults : Nat]

Init ==
    /\ core \in [named : BOOLEAN, epoch : {1}, bytes : {[u \in Users |-> Zero]}]
    /\ carried = [u \in Users |-> Zero]
    /\ missed = [u \in Users |-> Zero]
    /\ db = [ source |-> 1, seq |-> 1, init |-> FALSE, counterEpoch |-> 0,
              base |-> [u \in Users |-> NoBaseline] ]
    /\ outbox = {}
    /\ drawn = [batch |-> 0, source |-> 1]
    /\ inst = 1
    /\ posts = {}
    /\ rows = {}
    /\ total = [u \in Users |-> Zero]
    /\ nodeTotal = Zero
    /\ unattributed = 0
    /\ userState = [u \in Users |-> "assigned"]
    /\ budget = [changes |-> 0, faults |-> 0]

----------------------------------------------------------------------------
(* The core *)

Plus(a, b) == [d \in Dirs |-> a[d] + b[d]]
Minus(a, b) == [d \in Dirs |-> a[d] - b[d]]
Bytes(a) == a["tx"] + a["rx"]

\* A byte of user u goes through in direction d.
Carry(u, d) ==
    /\ SumFunction([v \in Users |-> Bytes(carried[v])]) < MaxCarried
    /\ core' = [core EXCEPT !.bytes[u][d] = @ + 1]
    /\ carried' = [carried EXCEPT ![u][d] = @ + 1]
    /\ UNCHANGED <<missed, agentVars, posts, ledgerVars, userState, budget>>

\* What the agent has seen of this incarnation's counter.
Seen(u) == IF db.init /\ db.base[u].core = core.epoch THEN db.base[u].bytes ELSE Zero

\* Bytes not yet sampled are gone with the incarnation.
RestartCore ==
    /\ core.epoch < MaxCores
    /\ core' = [core EXCEPT !.epoch = @ + 1, !.bytes = [u \in Users |-> Zero]]
    /\ missed' = [u \in Users |-> Plus(missed[u], Minus(core.bytes[u], Seen(u)))]
    /\ UNCHANGED <<carried, agentVars, posts, ledgerVars, userState, budget>>

----------------------------------------------------------------------------
(* recordTrafficSample *)

\* The core lists the users it has counted anything for.
Listed == {u \in Users : core.bytes[u] # Zero}
\* Mutant of Baselines: written once per user.
BaselinesOnce(old) ==
    [u \in Users |-> IF u \in Listed /\ old[u] = NoBaseline
                     THEN [core |-> core.epoch, bytes |-> core.bytes[u]] ELSE old[u]]
Baselines(old) ==
    [u \in Users |-> IF u \in Listed THEN [core |-> core.epoch, bytes |-> core.bytes[u]]
                     ELSE old[u]]

\* The epoch a Reality core names; the API of Hysteria has none.
CounterEpoch == IF core.named THEN core.epoch ELSE 0

\* The first sample only sets the baselines.
SampleFirst ==
    /\ ~db.init
    /\ db' = [db EXCEPT !.init = TRUE, !.base = Baselines(db.base),
                        !.counterEpoch = CounterEpoch]
    /\ missed' = [u \in Users |-> Plus(missed[u], core.bytes[u])]
    /\ UNCHANGED <<core, carried, outbox, drawn, inst, posts, ledgerVars, userState, budget>>

\* Mutant of NewCounterEpoch: only a database without an epoch takes one.
NewCounterEpochOnce == core.named /\ db.counterEpoch = 0

\* A new counter epoch drops the baselines.
NewCounterEpoch == core.named /\ db.counterEpoch # core.epoch
OldBase == IF NewCounterEpoch THEN [u \in Users |-> NoBaseline] ELSE db.base

\* Users one of whose counters went back.
ResetUsers == {u \in Listed : \E d \in Dirs : core.bytes[u][d] < OldBase[u].bytes[d]}
Rotated == NewCounterEpoch \/ ResetUsers # {}

Delta(u) ==
    IF u \notin Listed THEN Zero
    ELSE IF u \in ResetUsers THEN core.bytes[u]
    ELSE Minus(core.bytes[u], OldBase[u].bytes)
Items == {u \in Users : Delta(u) # Zero}

\* The items, sorted by user, are cut into batches of BatchSize: part[u] is
\* the batch of u.
Partitions ==
    {part \in [Items -> 1..Cardinality(Items)] :
        \A k \in 1..Cardinality(Items) :
            LET size == Cardinality({u \in Items : part[u] = k})
            IN  size <= BatchSize /\ (size < BatchSize =>
                    \A u \in Items : part[u] <= k)}

Source == IF Rotated THEN drawn.source + 1 ELSE db.source
FirstSeq == IF Rotated THEN 1 ELSE db.seq

NewBatch(part, k) ==
    [ id |-> drawn.batch + k, inst |-> inst, source |-> Source,
      seq |-> FirstSeq + k - 1, core |-> core.epoch,
      items |-> [u \in Users |-> IF u \in Items /\ part[u] = k THEN Delta(u) ELSE Zero] ]

SampleWith(part) ==
    LET count == Cardinality({part[u] : u \in Items})
    IN  /\ outbox' = outbox \cup {NewBatch(part, k) : k \in 1..count}
        /\ drawn' = [batch |-> drawn.batch + count, source |-> IF Rotated THEN drawn.source + 1 ELSE drawn.source]
        /\ db' = [db EXCEPT !.source = Source, !.seq = FirstSeq + count,
                            !.counterEpoch = CounterEpoch,
                            !.base = Baselines(OldBase)]

Sample ==
    /\ db.init
    /\ \E part \in Partitions : SampleWith(part)
    /\ UNCHANGED <<coreVars, inst, posts, ledgerVars, userState, budget>>

----------------------------------------------------------------------------
(* IngestTrafficBatch.  who is the installation the request authenticated   *)
(* as.                                                                      *)

Ledger == {r.batch : r \in rows}

\* Mutant of Status: the batch id is not looked up.
StatusUnchecked(b, who) ==
    IF b.inst # who THEN "installation_conflict" ELSE "accepted"

Status(b, who) ==
    CASE b.inst # who -> "installation_conflict"
      [] b \in Ledger -> "duplicate"
      [] \E r \in Ledger : r.id = b.id /\ r # b -> "batch_id_conflict"
      [] \E r \in Ledger : /\ r.id # b.id /\ r.inst = b.inst
                           /\ r.source = b.source /\ r.seq = b.seq -> "sequence_conflict"
      [] OTHER -> "accepted"

\* classifyTrafficItemTx
Disposition(b, u) ==
    CASE b.items[u] = Zero -> "none"
      [] userState[u] = "archived" -> "archived_user"
      [] userState[u] = "unassigned" -> "unassigned"
      [] OTHER -> "accounted"

\* The rows and the totals of users, assignments and the node: one transaction.
Account(b) ==
    LET disp == [u \in Users |-> Disposition(b, u)]
        after == [u \in Users |-> IF disp[u] = "accounted" THEN Plus(total[u], b.items[u])
                                  ELSE total[u]]
    IN  /\ rows' = rows \cup {[batch |-> b, disp |-> disp]}
        /\ total' = after
        /\ nodeTotal' = [d \in Dirs |->
              nodeTotal[d] + SumFunction([u \in Users |-> b.items[u][d]])]
        /\ unattributed' = unattributed +
              SumFunction([u \in {v \in Users : disp[v] \in {"unassigned", "archived_user"}}
                              |-> Bytes(b.items[u])])

IngestTrafficBatch(b, who) ==
    IF Status(b, who) = "accepted" THEN Account(b) ELSE UNCHANGED ledgerVars

----------------------------------------------------------------------------
(* flushTrafficOutbox: the oldest batch first; a batch that is not taken    *)
(* ends the cycle.                                                          *)

Head(b) == b \in outbox /\ \A c \in outbox : b.id <= c.id
Taken(b, who) == Status(b, who) \in {"accepted", "duplicate"}

\* Mutant of FlushHead: any answer removes the batch.
FlushHeadDrops ==
    /\ \E b \in outbox :
          /\ Head(b)
          /\ IngestTrafficBatch(b, inst)
          /\ outbox' = outbox \ {b}
    /\ UNCHANGED <<coreVars, db, drawn, inst, posts, userState, budget>>

\* Mutant of FlushHead: the batch is not deleted.
FlushHeadKeeps ==
    /\ \E b \in outbox : Head(b) /\ IngestTrafficBatch(b, inst)
    /\ UNCHANGED <<coreVars, agentVars, posts, userState, budget>>

FlushHead ==
    /\ \E b \in outbox :
          /\ Head(b)
          /\ IngestTrafficBatch(b, inst)
          /\ outbox' = IF Taken(b, inst) THEN outbox \ {b} ELSE outbox
    /\ UNCHANGED <<coreVars, db, drawn, inst, posts, userState, budget>>

Fault == budget.faults < MaxFaults /\ budget' = [budget EXCEPT !.faults = @ + 1]

\* The response is lost, or the agent stops before it deletes the batch.
FlushUnconfirmed ==
    /\ \E b \in outbox : Head(b) /\ IngestTrafficBatch(b, inst)
    /\ Fault
    /\ UNCHANGED <<coreVars, agentVars, posts, userState>>

\* The request is still under way when the agent's client gives up.
FlushDelayed ==
    /\ \E b \in outbox : Head(b) /\ posts' = posts \cup {[batch |-> b, inst |-> inst]}
    /\ Fault
    /\ UNCHANGED <<coreVars, agentVars, ledgerVars, userState>>

DeliverLatePost ==
    /\ \E p \in posts : IngestTrafficBatch(p.batch, p.inst) /\ posts' = posts \ {p}
    /\ UNCHANGED <<coreVars, agentVars, userState, budget>>

----------------------------------------------------------------------------
(* Operators *)

Change == budget.changes < MaxChanges /\ budget' = [budget EXCEPT !.changes = @ + 1]

\* UnassignUser and ArchiveUser: the user's bytes have no assignment any more.
Withdraw(u, state) ==
    /\ userState[u] = "assigned"
    /\ userState' = [userState EXCEPT ![u] = state]
    /\ Change
    /\ UNCHANGED <<coreVars, agentVars, posts, ledgerVars>>

\* assignUserTxWithMode continues from traffic_totals.
AssignUser(u) ==
    /\ userState[u] = "unassigned"
    /\ userState' = [userState EXCEPT ![u] = "assigned"]
    /\ Change
    /\ UNCHANGED <<coreVars, agentVars, posts, ledgerVars>>

\* agent-state.json is deleted and the node enrolled again; agent.db stays.
Rebind ==
    /\ inst' = inst + 1
    /\ Change
    /\ UNCHANGED <<coreVars, db, outbox, drawn, posts, ledgerVars, userState>>

----------------------------------------------------------------------------
Next ==
    \/ \E u \in Users : \/ \E d \in Dirs : Carry(u, d)
                        \/ Withdraw(u, "unassigned") \/ Withdraw(u, "archived")
                        \/ AssignUser(u)
    \/ RestartCore
    \/ SampleFirst \/ Sample
    \/ FlushHead \/ FlushUnconfirmed \/ FlushDelayed \/ DeliverLatePost
    \/ Rebind

Spec == Init /\ [][Next]_vars

\* The usage timer fires again and again: the agent keeps flushing.
FairSpec == Spec /\ WF_vars(FlushHead)

----------------------------------------------------------------------------
(* Properties *)

Recorded == outbox \cup Ledger
SumOf(S, u, d) == SumFunction([b \in S |-> b.items[u][d]])
Unsampled(u, d) == core.bytes[u][d] - Seen(u)[d]

\* With counter epochs (Reality) every byte the core carried since the agent
\* first sampled is, at any moment, in exactly one place: not yet sampled, in
\* exactly one batch of the outbox or the ledger, or lost with an incarnation
\* of the core that ended before it was sampled.
EveryByteOnce ==
    core.named => \A u \in Users, d \in Dirs :
        carried[u][d] = missed[u][d] + SumOf(Recorded, u, d) + Unsampled(u, d)

\* Without them (Hysteria) a restart can hide bytes, but no byte is ever
\* counted twice, whatever is lost, late or repeated.
NeverOvercounts ==
    \A u \in Users, d \in Dirs :
        missed[u][d] + SumOf(Recorded, u, d) + Unsampled(u, d) <= carried[u][d]

\* The cached totals of users, assignments and nodes are those of the ledger:
\* every ingested batch counts once, for its user or as unattributed.
TotalsMatchLedger ==
    /\ \A u \in Users, d \in Dirs :
          total[u][d] = SumFunction([r \in {q \in rows : q.disp[u] = "accounted"}
                                         |-> r.batch.items[u][d]])
    /\ \A d \in Dirs :
          nodeTotal[d] = SumFunction([u \in Users |-> SumOf(Ledger, u, d)])
    /\ SumFunction([u \in Users |-> Bytes(total[u])]) + unattributed = Bytes(nodeTotal)

\* No batch of the bound installation is refused: at the head of the outbox
\* it would block all later ones.
NothingIsRefused ==
    \A b \in outbox : b.inst = inst => Taken(b, inst)

\* Every batch reaches the ledger: the outbox drains once no bytes are
\* carried.  Not covered: a node that was bound again, whose old batches are
\* refused and stay at the head of the outbox.
BoundOutboxDrains == <>[](outbox = {} \/ inst > 1)

\* The outbox and the ledger together implement BatchLedger: transport that
\* repeats, loses and delays batches credits each of them at most once, and
\* forgets none that is not credited.
Abstract == INSTANCE BatchLedger WITH pending <- outbox \ Ledger, credited <- Ledger
ImplementsLedger == Abstract!Spec

----------------------------------------------------------------------------
(* The inductive invariant behind NothingIsRefused and ImplementsLedger.   *)

Posted == {p.batch : p \in posts}

\* Identifiers in use have been drawn; in the current source epoch the
\* sequence numbers in use are below the next one.
IdsDrawn ==
    /\ db.source \in Nat /\ db.seq \in Nat \ {0} /\ inst \in Nat
    /\ drawn.batch \in Nat /\ drawn.source \in Nat
    /\ db.source <= drawn.source
    /\ \A b \in Recorded :
          /\ b.id \in Nat /\ b.id <= drawn.batch
          /\ b.source \in Nat /\ b.source <= drawn.source
          /\ b.seq \in Nat
          /\ b.source = db.source => b.seq < db.seq

\* Identifiers, and sequence numbers within a source epoch, are unique.
IdsUnique ==
    \A b, c \in Recorded :
        b.id = c.id \/ (b.source = c.source /\ b.seq = c.seq) => b = c

\* The conjunction is preserved by every step: a late request is for a batch
\* still in the outbox or already in the ledger.
LedgerInv ==
    /\ IdsDrawn /\ IdsUnique
    /\ Posted \subseteq Recorded
=============================================================================
