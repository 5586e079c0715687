--------------------------- MODULE NodeOperations ---------------------------
(***************************************************************************)
(* Operations of an administrator on a node: restart_core and its like.    *)
(*                                                                         *)
(* The server numbers the operations of a node and hands the queued ones   *)
(* to the agent, which marks them running.  The agent's operation cycle    *)
(* executes them in order through the root helper, records each result in  *)
(* agent.db and reports the recorded results before it asks for more.  The *)
(* helper keeps a ledger of its results, by operation.  An operation that  *)
(* was not handed out in its time to live expires; a failed or expired one *)
(* may be retried as a new operation.  Replies, reports and processes may  *)
(* be lost at any step, and the agent may stop waiting for the helper.     *)
(***************************************************************************)
EXTENDS Naturals, FiniteSets, FiniteSetsExt

CONSTANTS
    Types,          \* types of operations
    Last,           \* bound on the sequence numbers
    Capacity,       \* MaxPendingNodeOperations
    Keep,           \* reported results that agent.db keeps
    MaxFaults       \* bound on lost messages, failed calls and crashes

ASSUME OperationsAssumption ==
    /\ Types # {} /\ Last \in Nat \ {0} /\ Capacity \in Nat \ {0} /\ Keep \in Nat \ {0}
    /\ MaxFaults \in Nat

VARIABLES
    kind,       \* server: type of each operation created
    status,     \* server: node_operations.status
    overdue,    \* operations whose expires_at has passed
    alert,      \* server: an operation_failed alert is active
    result,     \* agent.db: operation_results, by sequence
    reported,   \* agent.db: the results with reported_at
    lastSeq,    \* agent.db: operation_runtime.last_sequence
    ahead,      \* results completed_at more than 5 minutes after the server's clock
    pc,         \* step of the agent's operation cycle
    todo,       \* operations of the last response still to execute
    outcome,    \* what the agent takes as the result of the first of them
    requests,   \* requests waiting for the helper's lock
    helper,     \* the request that holds it, and its step
    ledger,     \* the helper's ledger
    late,       \* reports still under way although the agent gave up on them
    ran,        \* operations that took effect
    again,      \* operations that took effect twice
    lost,       \* operations that took effect without reaching the ledger
    faults

server == <<kind, status, overdue, alert>>
db == <<result, reported, lastSeq, ahead>>
cycle == <<pc, todo, outcome>>
root == <<requests, helper, ledger, ran, again, lost>>
vars == <<server, db, cycle, root, late, faults>>

Ops == 1..Last
Outcomes == {"succeeded", "failed"}
Idle == [op |-> 0, live |-> FALSE, step |-> "idle", outcome |-> "none"]

\* Every row, message and program counter has its shape.
TypeOK ==
    /\ kind \in [Ops -> Types \cup {"none"}]
    /\ status \in [Ops -> {"none", "queued", "running", "expired"} \cup Outcomes]
    /\ overdue \subseteq Ops /\ alert \in BOOLEAN
    /\ result \in [Ops -> {"none"} \cup Outcomes] /\ reported \subseteq Ops /\ lastSeq \in 0..Last
    /\ ahead \subseteq Ops
    /\ pc \in {"idle", "flush", "list", "next", "exchange", "record", "advance", "report"}
    /\ todo \subseteq Ops /\ outcome \in {"none"} \cup Outcomes
    /\ requests \subseteq [op : Ops, live : BOOLEAN]
    /\ helper \in [op : 0..Last, live : BOOLEAN, step : {"idle", "execute", "save"},
                   outcome : {"none"} \cup Outcomes]
    /\ ledger \in [Ops -> {"none"} \cup Outcomes]
    /\ late \subseteq [op : Ops, outcome : Outcomes]
    /\ ran \subseteq Ops /\ again \subseteq ran /\ lost \subseteq ran
    /\ faults \in 0..MaxFaults

Init ==
    /\ kind = [o \in Ops |-> "none"] /\ status = kind
    /\ overdue = {} /\ alert = FALSE
    /\ result = kind /\ reported = {} /\ lastSeq = 0 /\ ahead = {}
    /\ pc = "idle" /\ todo = {} /\ outcome = "none"
    /\ requests = {} /\ helper = Idle /\ ledger = kind
    /\ late = {} /\ ran = {} /\ again = {} /\ lost = {} /\ faults = 0

Fault == faults < MaxFaults /\ faults' = faults + 1

----------------------------------------------------------------------------
(* The server *)

Created == {o \in Ops : status[o] # "none"}
PendingAt(s) == {o \in Ops : s[o] \in {"queued", "running"}}

\* Failed and expired operations without a later success of the same type
Unrecovered(s) ==
    {o \in Ops : /\ s[o] \in {"failed", "expired"}
                 /\ ~\E r \in Ops : r > o /\ kind[r] = kind[o] /\ s[r] = "succeeded"}

\* ensureOperationQueueCapacity and insertNodeOperationTx
Insert(t) ==
    LET o == Cardinality(Created) + 1 IN
    /\ o \in Ops /\ Cardinality(PendingAt(status)) < Capacity
    /\ kind' = [kind EXCEPT ![o] = t]
    /\ status' = [status EXCEPT ![o] = "queued"]
    /\ UNCHANGED <<overdue, alert, db, cycle, root, late, faults>>

CreateNodeOperation(t) == Insert(t)

RetryNodeOperation(o) == status[o] \in {"failed", "expired"} /\ Insert(kind[o])

\* Time passes an operation's expires_at.
PassExpiry(o) ==
    /\ o \in PendingAt(status) \ overdue
    /\ overdue' = overdue \cup {o}
    /\ UNCHANGED <<kind, status, alert, db, cycle, root, late, faults>>

\* Mutant of Expired: running operations expire as well.
ExpiredAny(s, after) ==
    [o \in Ops |-> IF s[o] \in {"queued", "running"} /\ o \in overdue /\ o > after
                   THEN "expired" ELSE s[o]]

Expired(s, after) ==
    [o \in Ops |-> IF s[o] = "queued" /\ o \in overdue /\ o > after THEN "expired" ELSE s[o]]

\* ReconcileAlerts, as far as operations go
ReconcileAlerts ==
    LET s == Expired(status, 0) IN
    /\ <<s, Unrecovered(s) # {}>> # <<status, alert>>
    /\ status' = s
    /\ alert' = (Unrecovered(s) # {})
    /\ UNCHANGED <<kind, overdue, db, cycle, root, late, faults>>

\* Mutant of Settled: any success resolves the alert.
SettledByAny(o, r) ==
    /\ status' = [status EXCEPT ![o] = r]
    /\ alert' = (r = "failed")

Settled(o, r) ==
    LET s == [status EXCEPT ![o] = r] IN
    /\ status' = s
    /\ alert' = IF r = "failed" THEN TRUE ELSE alert /\ Unrecovered(s) # {}

\* Mutant of Accepts: a repeated result is refused.
AcceptsOnce(o, r) == status[o] \in {"queued", "running"}

\* RecordNodeOperationResult accepts the result, anew or as recorded.
Accepts(o, r) == status[o] \notin {"none", "expired"} \cup (Outcomes \ {r})

RecordNodeOperationResult(o, r) ==
    /\ IF Accepts(o, r) /\ status[o] \notin Outcomes
       THEN Settled(o, r) ELSE UNCHANGED <<status, alert>>
    /\ UNCHANGED <<kind, overdue>>

\* handleAgentOperationResult refuses a result from the future.
HandleResult(o, r) ==
    IF o \in ahead THEN UNCHANGED server ELSE RecordNodeOperationResult(o, r)

\* The server's clock reaches the time of a result.
ClockCatchesUp(o) ==
    /\ o \in ahead
    /\ ahead' = ahead \ {o}
    /\ UNCHANGED <<server, result, reported, lastSeq, cycle, root, late, faults>>

DeliverLate(m) ==
    /\ HandleResult(m.op, m.outcome)
    /\ late' = late \ {m}
    /\ UNCHANGED <<db, cycle, root, faults>>

----------------------------------------------------------------------------
(* The agent: the cycle reports, lists, and executes what it listed *)

Head == Min(todo)
Unreported == {o \in Ops : result[o] # "none" /\ o \notin reported}

\* lastOperationSequence
Cursor == Max({lastSeq} \cup {o \in Ops : result[o] # "none"})

\* The agent no longer waits for the helper.
HangUp ==
    /\ requests' = {[q EXCEPT !.live = FALSE] : q \in requests}
    /\ helper' = [helper EXCEPT !.live = FALSE]

EndCycle == pc' = "idle" /\ todo' = {} /\ outcome' = "none"

StartCycle ==
    /\ pc = "idle"
    /\ pc' = "flush"
    /\ UNCHANGED <<server, db, todo, outcome, root, late, faults>>

\* markOperationResultReported: reported rows beyond the newest ones go.
MarkReported(o) ==
    LET rows == {r \in Ops : result[r] # "none"}
        done == reported \cup {o}
        old == {r \in rows \cap done : Cardinality({n \in rows : n > r}) >= Keep}
    IN /\ result' = [r \in Ops |-> IF r \in old THEN "none" ELSE result[r]]
       /\ reported' = done \ old

\* flushOperationResults, one result; a refusal ends the cycle.
ReportResult ==
    /\ pc \in {"flush", "report"} /\ Unreported # {}
    /\ LET o == Min(Unreported) IN
       /\ HandleResult(o, result[o])
       /\ IF o \notin ahead /\ Accepts(o, result[o])
          THEN MarkReported(o) /\ UNCHANGED cycle
          ELSE EndCycle /\ UNCHANGED <<result, reported>>
    /\ UNCHANGED <<lastSeq, ahead, root, late, faults>>

\* The server takes the result, its answer is lost.
ReportUnconfirmed ==
    /\ pc \in {"flush", "report"} /\ Unreported # {} /\ Fault
    /\ LET o == Min(Unreported) IN HandleResult(o, result[o])
    /\ EndCycle
    /\ UNCHANGED <<db, root, late>>

\* The request times out and may still arrive.
ReportDelayed ==
    /\ pc \in {"flush", "report"} /\ Unreported # {} /\ Fault
    /\ LET o == Min(Unreported) IN late' = late \cup {[op |-> o, outcome |-> result[o]]}
    /\ EndCycle
    /\ UNCHANGED <<server, db, root>>

Flushed ==
    /\ pc \in {"flush", "report"} /\ Unreported = {}
    /\ pc' = IF pc = "flush" THEN "list" ELSE "next"
    /\ UNCHANGED <<server, db, todo, outcome, root, late, faults>>

\* ListPendingNodeOperations: the operations handed out, and their new status
HandedOut(after) == {o \in PendingAt(Expired(status, after)) : o > after}

ListPending ==
    status' = [o \in Ops |-> IF o \in HandedOut(Cursor) THEN "running"
                             ELSE Expired(status, Cursor)[o]]

ListOperations ==
    /\ pc = "list"
    /\ ListPending
    /\ todo' = HandedOut(Cursor) /\ pc' = "next"
    /\ UNCHANGED <<kind, overdue, alert, db, outcome, root, late, faults>>

ListUnanswered ==
    /\ pc = "list" /\ Fault
    /\ ListPending
    /\ EndCycle
    /\ UNCHANGED <<kind, overdue, alert, db, root, late>>

\* executeNodeOperationWithHelper sends the next operation.
ExecuteNext ==
    /\ pc = "next" /\ todo # {}
    /\ requests' = requests \cup {[op |-> Head, live |-> TRUE]}
    /\ pc' = "exchange"
    /\ UNCHANGED <<server, db, todo, outcome, helper, ledger, ran, again, lost, late, faults>>

CycleDone ==
    /\ pc = "next" /\ todo = {}
    /\ EndCycle
    /\ UNCHANGED <<server, db, root, late, faults>>

\* The 45 s of the exchange are over: failedOperationResult.
GiveUp ==
    /\ pc = "exchange" /\ Fault
    /\ HangUp
    /\ outcome' = "failed" /\ pc' = "record"
    /\ UNCHANGED <<server, db, todo, ledger, ran, again, lost, late>>

\* recordOperationResult: the row, then the runtime's last sequence.  A row
\* of this sequence cannot exist, the list being above the cursor.  The clock of
\* the node may be wrong.
RecordResult ==
    /\ pc = "record"
    /\ result' = [result EXCEPT ![Head] = outcome]
    /\ \/ UNCHANGED <<ahead, faults>>
       \/ Fault /\ ahead' = ahead \cup {Head}
    /\ pc' = "advance"
    /\ UNCHANGED <<server, reported, lastSeq, todo, outcome, root, late>>

\* Mutant of AdvanceSequence: all that was handed out counts as done.
AdvanceSequenceAll ==
    /\ pc = "advance"
    /\ lastSeq' = Max({lastSeq} \cup todo)
    /\ todo' = todo \ {Head} /\ outcome' = "none" /\ pc' = "report"
    /\ UNCHANGED <<server, result, reported, ahead, root, late, faults>>

AdvanceSequence ==
    /\ pc = "advance"
    /\ lastSeq' = Max({lastSeq, Head})
    /\ todo' = todo \ {Head} /\ outcome' = "none" /\ pc' = "report"
    /\ UNCHANGED <<server, result, reported, ahead, root, late, faults>>

\* A write to agent.db fails.
StoreFails ==
    /\ pc \in {"record", "advance"} /\ Fault
    /\ EndCycle
    /\ UNCHANGED <<server, db, root, late>>

Crash ==
    /\ pc # "idle" /\ Fault
    /\ EndCycle /\ HangUp
    /\ UNCHANGED <<server, db, ledger, ran, again, lost, late>>

----------------------------------------------------------------------------
(* The root helper *)

\* The reply r to a request, of no consequence once the agent has hung up
Reply(live, r) ==
    /\ outcome' = IF live THEN r ELSE outcome
    /\ pc' = IF live THEN "record" ELSE pc
    /\ UNCHANGED <<server, db, todo, late>>

\* Mutant of AcquireLock: the ledger is not read.
AcquireLockOnly(q) ==
    /\ q \in requests /\ helper = Idle
    /\ requests' = requests \ {q}
    /\ helper' = [op |-> q.op, live |-> q.live, step |-> "execute", outcome |-> "none"]
    /\ UNCHANGED <<server, db, cycle, ledger, ran, again, lost, late, faults>>

\* The lock, then Handle up to loadResult
AcquireLock(q) ==
    /\ q \in requests /\ helper = Idle
    /\ requests' = requests \ {q}
    /\ IF ledger[q.op] # "none"
       THEN Reply(q.live, ledger[q.op]) /\ UNCHANGED helper
       ELSE /\ helper' = [op |-> q.op, live |-> q.live, step |-> "execute", outcome |-> "none"]
            /\ UNCHANGED <<server, db, cycle, late>>
    /\ UNCHANGED <<ledger, ran, again, lost, faults>>

\* Another request keeps the lock too long.
LockTimeout(q) ==
    /\ q \in requests /\ helper # Idle
    /\ requests' = requests \ {q}
    /\ Reply(q.live, "failed")
    /\ UNCHANGED <<helper, ledger, ran, again, lost, faults>>

\* restartCore and its like
Execute(r) ==
    /\ helper.step = "execute"
    /\ helper' = [helper EXCEPT !.step = "save", !.outcome = r]
    /\ ran' = ran \cup {helper.op}
    /\ again' = again \cup ({helper.op} \cap ran)
    /\ UNCHANGED <<server, db, cycle, requests, ledger, lost, late, faults>>

SaveResult ==
    /\ helper.step = "save"
    /\ ledger' = [ledger EXCEPT ![helper.op] = helper.outcome]
    /\ helper' = Idle
    /\ Reply(helper.live, helper.outcome)
    /\ UNCHANGED <<requests, ran, again, lost, faults>>

\* The process of the helper ends, perhaps before saveResult.
HelperEnds ==
    /\ helper' = Idle
    /\ lost' = IF helper.step = "save" THEN lost \cup {helper.op} ELSE lost

\* saveResult fails, or the helper is killed: its client fails to read.
HelperFails ==
    /\ helper # Idle /\ Fault
    /\ HelperEnds
    /\ Reply(helper.live, "failed")
    /\ UNCHANGED <<requests, ledger, ran, again>>

\* The host restarts.
Reboot ==
    /\ Fault
    /\ EndCycle
    /\ requests' = {} /\ HelperEnds
    /\ UNCHANGED <<server, db, ledger, ran, again, late>>

----------------------------------------------------------------------------

CycleStep ==
    \/ StartCycle \/ ReportResult \/ Flushed \/ ListOperations
    \/ ExecuteNext \/ CycleDone \/ RecordResult \/ AdvanceSequence

HelperStep ==
    \/ \E q \in requests : AcquireLock(q)
    \/ \E r \in Outcomes : Execute(r)
    \/ SaveResult

Next ==
    \/ \E t \in Types : CreateNodeOperation(t)
    \/ \E o \in Ops : RetryNodeOperation(o) \/ PassExpiry(o)
    \/ ReconcileAlerts
    \/ \E m \in late : DeliverLate(m)
    \/ \E o \in ahead : ClockCatchesUp(o)
    \/ CycleStep \/ HelperStep
    \/ \E q \in requests : LockTimeout(q)
    \/ ReportUnconfirmed \/ ReportDelayed \/ ListUnanswered \/ GiveUp
    \/ StoreFails \/ Crash \/ HelperFails \/ Reboot

Spec == Init /\ [][Next]_vars

\* The operation timer keeps firing, started processes run on and time passes.
FairSpec ==
    /\ Spec /\ WF_vars(CycleStep) /\ WF_vars(HelperStep)
    /\ WF_vars(\E o \in ahead : ClockCatchesUp(o))

----------------------------------------------------------------------------
(* Properties *)

\* No recorded result is ever refused by RecordNodeOperationResult.  A refused
\* one would stay first in the outbox and stop all later operations; the handler
\* refuses one from a clock that is ahead, until its own clock has caught up.
OutboxIsAccepted == \A o \in Unreported : Accepts(o, result[o])

\* An operation takes effect once, however often it is handed out: a core is
\* not restarted again after a crash, a lost report or an abandoned exchange.
\* The exception is an operation whose helper ended between its effect and
\* the ledger entry.
ExecutedOnce == again \subseteq lost

\* What the administrator reads is what happened: a succeeded operation took
\* effect, an expired one did not and is not under way.
StatusIsTrue ==
    \A o \in Ops :
        /\ status[o] = "succeeded" => o \in ran
        /\ status[o] = "expired" => o \notin ran \cup todo /\ result[o] = "none"

\* The operation_failed alert is active while a failed operation has no later
\* success of its type, and only while a failed or expired one has none.
AlertTracksFailures ==
    /\ (\E o \in Unrecovered(status) : status[o] = "failed") => alert
    /\ alert => Unrecovered(status) # {}

\* Every queued operation is settled in the end: executed and reported, or
\* expired; none is skipped or blocks the queue.
OperationsSettle ==
    \A o \in Ops : status[o] = "queued" ~> status[o] \in Outcomes \cup {"expired"}
=============================================================================
