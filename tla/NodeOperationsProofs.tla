------------------------ MODULE NodeOperationsProofs ------------------------
(***************************************************************************)
(* The properties of NodeOperations for any types, bounds and capacities:  *)
(* what server, agent and helper know of an operation, and that every step *)
(* keeps it so.                                                            *)
(***************************************************************************)
EXTENDS NodeOperations, FiniteSetTheorems, WellFoundedInduction, TLAPS

Done == Outcomes \cup {"expired"}

\* The agent's cursor has passed o.
Covered(o) == o <= lastSeq \/ \E r \in Ops : result[r] # "none" /\ o <= r

\* Sequence numbers are given without gaps.
Numbered == Created = 1..Cardinality(Created)

\* An operation that left the server is neither queued nor expired.
HandedOutOnly ==
    \A o \in Ops :
        status[o] \in {"none", "queued", "expired"} =>
            /\ o \notin todo \cup ran \cup reported /\ result[o] = "none" /\ helper.op # o
            /\ \A q \in requests : q.op # o
            /\ \A m \in late : m.op # o

\* What the server has recorded of an operation is what the agent has, as
\* long as the agent has it.
RecordsAgree ==
    /\ \A o \in Ops : /\ status[o] \in Outcomes => Covered(o) /\ result[o] \in {"none", status[o]}
                      /\ status[o] = "succeeded" => o \in ran
                      /\ result[o] = "succeeded" => o \in ran
                      /\ Covered(o) => status[o] \in Done \/ result[o] # "none"
    /\ \A o \in reported : status[o] \in Outcomes
    /\ \A m \in late : \/ result[m.op] = m.outcome
                       \/ result[m.op] = "none" /\ status[m.op] \in Outcomes

\* Operations are settled in the order of their numbers.
InOrder ==
    /\ \A o, r \in Ops : o < r /\ status[r] \in Outcomes => status[o] \in Done
    /\ \A m \in late : \A o \in Ops : o < m.op => status[o] \in Done

\* The list of the cycle is above the cursor and without gaps.
CycleOK ==
    /\ pc \in {"idle", "flush", "list"} => todo = {}
    /\ pc \in {"exchange", "record", "advance"} => todo # {}
    /\ pc = "advance" => result[Head] # "none"
    /\ \A t \in todo : (pc = "advance" /\ t = Head) \/ ~Covered(t)
    /\ \A t \in todo, o \in Ops :
            o < t /\ o \notin todo /\ ~Covered(o) => status[o] = "expired"
    /\ pc \in {"record", "advance"} => outcome \in Outcomes
    /\ pc \in {"record", "advance"} /\ outcome = "succeeded" => Head \in ran

\* The ledger has every effect that is not lost, and the agent waits for at
\* most one request, that of the first operation of its list.
HelperOK ==
    /\ helper.step = "idle" => helper = Idle
    /\ helper.step # "idle" => helper.op \in Ops
    /\ helper.step = "execute" => ledger[helper.op] = "none"
    /\ helper.step = "save" => helper.op \in ran /\ helper.outcome \in Outcomes
    /\ \A o \in Ops : ledger[o] # "none" => o \in ran
    /\ \A o \in ran : \/ ledger[o] # "none" \/ o \in lost
                      \/ helper.step = "save" /\ helper.op = o
    /\ helper.live => pc = "exchange" /\ helper.op = Head
    /\ \A q \in requests : q.live => pc = "exchange" /\ q.op = Head /\ ~helper.live

OpsInv ==
    /\ TypeOK /\ Numbered /\ HandedOutOnly /\ RecordsAgree /\ InOrder /\ CycleOK /\ HelperOK
    /\ ExecutedOnce /\ AlertTracksFailures

----------------------------------------------------------------------------
(* The operators of the model *)

\* A set of natural numbers that is not empty has a smallest element.
LEMMA MinOf ==
    ASSUME NEW S, S \subseteq Nat, S # {}
    PROVE  Min(S) \in S /\ \A y \in S : Min(S) <= y
<1>1. PICK x \in S : \A y \in S : ~(<<y, x>> \in OpToRel(<, Nat))
    BY NatLessThanWellFounded, WFMin, Zenon
<1>2. ASSUME NEW y \in S PROVE x <= y
    <2>1. y \in Nat /\ x \in Nat
        OBVIOUS
    <2>2. y < x => <<y, x>> \in OpToRel(<, Nat)
        BY <2>1 DEF OpToRel
    <2>3. ~(y < x)
        BY <1>1, <2>2, Zenon
    <2> QED BY <2>1, <2>3
<1> QED BY <1>2, Zenon DEF Min

\* A bounded set of natural numbers that is not empty has a greatest element.
LEMMA MaxOf ==
    ASSUME NEW n \in Nat, NEW S, S \subseteq 0..n, S # {}
    PROVE  Max(S) \in S /\ \A y \in S : y <= Max(S)
<1> DEFINE T == {n - y : y \in S}
<1>1. T \subseteq Nat /\ T # {}
    <2>1. \A y \in S : n - y \in Nat
        OBVIOUS
    <2> QED BY <2>1, Zenon
<1>2. PICK x \in S : Min(T) = n - x
    BY <1>1, MinOf, Zenon
<1>3. ASSUME NEW y \in S PROVE x >= y
    <2>1. n - x <= n - y
        BY <1>1, <1>2, MinOf
    <2> QED BY <2>1
<1> QED BY <1>3, Zenon DEF Max

\* The operations above lastOperationSequence are those the cursor has not
\* passed.
LEMMA CursorCovers ==
    ASSUME TypeOK
    PROVE  \A o \in Ops : o > Cursor <=> ~Covered(o)
<1> DEFINE S == {lastSeq} \cup {o \in Ops : result[o] # "none"}
<1>1. S \subseteq 0..Last /\ S # {} /\ Last \in Nat
    BY OperationsAssumption DEF TypeOK, Ops
<1>2. Max(S) \in S /\ \A y \in S : y <= Max(S)
    BY <1>1, MaxOf
<1>3. Cursor = Max(S)
    BY DEF Cursor
<1> HIDE DEF S
<1>4. Cursor \in S /\ \A y \in S : y <= Cursor
    BY <1>2, <1>3, Zenon
<1>5. Cursor \in Nat /\ \A y \in S : y \in Nat
    BY <1>1, <1>4
<1> QED BY <1>4, <1>5 DEF S, Ops, Covered

\* The first operation of the list, and of the outbox.
LEMMA FirstOf ==
    ASSUME NEW S, S \subseteq Ops, S # {}
    PROVE  Min(S) \in S /\ Min(S) \in Ops /\ \A y \in S : Min(S) <= y
<1>1. S \subseteq Nat
    BY OperationsAssumption DEF Ops
<1> QED BY <1>1, MinOf, Zenon

\* The count of faults keeps to its bound.
LEMMA FaultType ==
    ASSUME TypeOK, Fault
    PROVE  faults' \in 0..MaxFaults
BY OperationsAssumption DEF TypeOK, Fault

\* What the cursor has passed depends on agent.db only.
LEMMA CoveredStays ==
    ASSUME UNCHANGED <<result, lastSeq>>
    PROVE  \A o \in Ops : Covered(o)' <=> Covered(o)
BY DEF Covered

----------------------------------------------------------------------------
(* The server's steps that settle no operation *)

\* The status of o stays, or it is created, handed out or expired.
Moves(o) ==
    \/ status'[o] = status[o]
    \/ status[o] = "none" /\ status'[o] = "queued"
    \/ status[o] = "queued" /\ status'[o] \in {"running", "expired"}

\* Such steps keep what server and agent have recorded.
LEMMA MovesKeepRecords ==
    ASSUME OpsInv, TypeOK', UNCHANGED <<db, root, late>>, \A o \in Ops : Moves(o)
    PROVE  RecordsAgree' /\ InOrder' /\ ExecutedOnce'
<1> USE DEF OpsInv, db, root
<1>1. \A o \in Ops : Covered(o)' <=> Covered(o)
    BY CoveredStays
<1>2. \A o \in Ops : /\ status[o] \in Done => status'[o] = status[o]
                     /\ status'[o] \in Outcomes => status[o] = status'[o]
    BY DEF Moves, Done, Outcomes
<1>3. \A m \in late : m.op \in Ops
    BY Zenon DEF TypeOK
<1>4. RecordsAgree'
    <2>1. \A o \in Ops : /\ status'[o] \in Outcomes => Covered(o)' /\ result'[o] \in {"none", status'[o]}
                         /\ status'[o] = "succeeded" => o \in ran'
                         /\ result'[o] = "succeeded" => o \in ran'
                         /\ Covered(o)' => status'[o] \in Done \/ result'[o] # "none"
        BY <1>1, <1>2, Zenon DEF RecordsAgree, Outcomes
    <2>2. \A o \in reported : status'[o] \in Outcomes
        BY <1>2, Zenon DEF RecordsAgree, TypeOK, Done
    <2>3. \A m \in late : \/ result'[m.op] = m.outcome
                          \/ result'[m.op] = "none" /\ status'[m.op] \in Outcomes
        BY <1>2, <1>3, Zenon DEF RecordsAgree, Done
    <2> QED BY <2>1, <2>2, <2>3, Zenon DEF RecordsAgree
<1>5. InOrder'
    BY <1>2, Zenon DEF InOrder
<1>6. ExecutedOnce'
    BY DEF ExecutedOnce
<1> QED BY <1>4, <1>5, <1>6

\* They keep the agent's cycle, which does not see them.
LEMMA MovesKeepCycle ==
    ASSUME OpsInv, TypeOK', UNCHANGED <<db, root, late, cycle>>, \A o \in Ops : Moves(o)
    PROVE  HandedOutOnly' /\ CycleOK' /\ HelperOK'
<1> USE DEF OpsInv, db, root, cycle
<1>1. \A o \in Ops : Covered(o)' <=> Covered(o)
    BY CoveredStays
<1>2. Head' = Head
    BY DEF Head
<1>3. \A o \in Ops : /\ status'[o] \in {"none", "queued", "expired"}
                            => status[o] \in {"none", "queued", "expired"}
                     /\ status[o] = "expired" => status'[o] = "expired"
    BY Zenon DEF Moves
<1>4. HandedOutOnly'
    BY <1>3, Zenon DEF HandedOutOnly
<1>5. CycleOK'
    <2>1. \A t \in todo : t \in Ops
        BY Zenon DEF TypeOK
    <2> QED BY <1>1, <1>2, <1>3, <2>1, Zenon DEF CycleOK
<1>6. HelperOK'
    BY <1>2, Zenon DEF HelperOK
<1> QED BY <1>4, <1>5, <1>6

\* Created operations stay created when none is added.
LEMMA NumberedStays ==
    ASSUME OpsInv, \A o \in Ops : status'[o] = "none" <=> status[o] = "none"
    PROVE  Numbered'
<1>1. Created' = Created
    BY DEF Created
<1> QED BY <1>1 DEF OpsInv, Numbered

\* CreateNodeOperation and RetryNodeOperation
LEMMA InsertOK ==
    ASSUME OpsInv, NEW t \in Types \cup {"none"}, Insert(t)
    PROVE  OpsInv'
<1> DEFINE n == Cardinality(Created)
           o == n + 1
<1>1. n \in Nat /\ Created = 1..n
    <2>1. IsFiniteSet(Ops)
        BY FS_Interval, OperationsAssumption DEF Ops
    <2>2. IsFiniteSet(Created)
        BY <2>1, FS_Subset DEF Created
    <2> QED BY <2>2, FS_CardinalityType DEF OpsInv, Numbered
<1>2. /\ o \in Ops
      /\ kind' = [kind EXCEPT ![o] = t] /\ status' = [status EXCEPT ![o] = "queued"]
      /\ UNCHANGED <<overdue, alert, db, cycle, root, late, faults>>
    BY DEF Insert
<1> HIDE DEF n
<1>3. status[o] = "none"
    <2>1. o \notin Created
        BY <1>1
    <2> QED BY <1>2, <2>1 DEF Created
<1>4. TypeOK'
    BY <1>2 DEF OpsInv, TypeOK, db, cycle, root
<1>5. \A p \in Ops : Moves(p)
    BY <1>2, <1>3, Zenon DEF Moves, OpsInv, TypeOK
<1>6. Numbered'
    <2>1. Created' = Created \cup {o}
        BY <1>2 DEF Created, OpsInv, TypeOK
    <2>2. Created' = 1..o
        BY <1>1, <2>1
    <2>3. Cardinality(1..o) = o
        BY <1>1, FS_Interval
    <2> QED BY <2>2, <2>3 DEF Numbered
<1>7. AlertTracksFailures'
    <2>1. \A p \in Ops : status[p] # "none" => p # o /\ status'[p] = status[p] /\ kind'[p] = kind[p]
        BY <1>2, <1>3, Zenon DEF OpsInv, TypeOK
    <2>2. \A p \in Ops : status'[p] \in {"failed", "expired", "succeeded"} => p # o /\ status'[p] = status[p]
        BY <1>2, Zenon DEF OpsInv, TypeOK
    <2>3. Unrecovered(status)' = Unrecovered(status)
        BY <2>1, <2>2 DEF Unrecovered
    <2>4. \A p \in Unrecovered(status) : status'[p] = status[p]
        BY <2>1 DEF Unrecovered
    <2> QED BY <1>2, <2>3, <2>4, Zenon DEF OpsInv, AlertTracksFailures
<1> QED BY <1>2, <1>4, <1>5, <1>6, <1>7, MovesKeepRecords, MovesKeepCycle, Zenon DEF OpsInv

\* Time passes.
LEMMA PassExpiryOK ==
    ASSUME OpsInv, NEW o \in Ops, PassExpiry(o)
    PROVE  OpsInv'
<1> USE DEF PassExpiry
<1>1. TypeOK'
    BY DEF OpsInv, TypeOK, db, cycle, root
<1>2. \A p \in Ops : Moves(p)
    BY DEF Moves
<1>3. Numbered'
    BY NumberedStays
<1>4. AlertTracksFailures'
    BY Zenon DEF OpsInv, AlertTracksFailures, Unrecovered
<1> QED BY <1>1, <1>2, <1>3, <1>4, MovesKeepRecords, MovesKeepCycle, Zenon DEF OpsInv

\* Expiry concerns queued operations only.
LEMMA ExpiredOnlyQueued ==
    ASSUME TypeOK, NEW a
    PROVE  \A o \in Ops : \/ Expired(status, a)[o] = status[o]
                          \/ status[o] = "queued" /\ Expired(status, a)[o] = "expired"
BY DEF Expired

\* ReconcileAlerts expires operations and reckons the alert anew.
LEMMA ReconcileAlertsOK ==
    ASSUME OpsInv, ReconcileAlerts
    PROVE  OpsInv'
<1>1. /\ status' = Expired(status, 0) /\ alert' = (Unrecovered(status') # {})
      /\ UNCHANGED <<kind, overdue, db, cycle, root, late, faults>>
    BY DEF ReconcileAlerts
<1>2. \A o \in Ops : \/ status'[o] = status[o]
                     \/ status[o] = "queued" /\ status'[o] = "expired"
    BY <1>1, ExpiredOnlyQueued DEF OpsInv
<1>3. TypeOK'
    BY <1>1, <1>2, Zenon DEF OpsInv, TypeOK, db, cycle, root, Expired
<1>4. \A p \in Ops : Moves(p)
    BY <1>2 DEF Moves
<1>5. Numbered'
    BY <1>2, NumberedStays
<1>6. AlertTracksFailures'
    BY <1>1, Zenon DEF AlertTracksFailures, Unrecovered
<1> QED BY <1>1, <1>3, <1>4, <1>5, <1>6, MovesKeepRecords, MovesKeepCycle, Zenon DEF OpsInv

\* Moves add no success and take away no failure.
LEMMA MovesKeepAlert ==
    ASSUME AlertTracksFailures, UNCHANGED <<kind, alert>>, \A o \in Ops : Moves(o)
    PROVE  AlertTracksFailures'
<1>1. Unrecovered(status) \subseteq Unrecovered(status)'
    BY DEF Unrecovered, Moves
<1>2. \A o \in Unrecovered(status)' :
            status'[o] = "failed" => o \in Unrecovered(status) /\ status[o] = "failed"
    BY DEF Unrecovered, Moves
<1> QED BY <1>1, <1>2 DEF AlertTracksFailures

\* ListPendingNodeOperations hands out what is above the cursor and pending;
\* what else is above the cursor has expired.
LEMMA ListPendingMoves ==
    ASSUME OpsInv, ListPending
    PROVE  /\ \A o \in Ops : Moves(o) /\ (status'[o] = "none" <=> status[o] = "none")
           /\ status' \in [Ops -> {"none", "queued", "running", "expired"} \cup Outcomes]
           /\ HandedOut(Cursor) \subseteq Ops
           /\ \A o \in HandedOut(Cursor) : status'[o] = "running" /\ ~Covered(o)
           /\ \A o \in Ops \ HandedOut(Cursor) :
                ~Covered(o) /\ status[o] # "none" => status'[o] = "expired"
<1> DEFINE E == Expired(status, Cursor)
           H == HandedOut(Cursor)
<1>1. \A o \in Ops : E[o] = status[o] \/ (status[o] = "queued" /\ E[o] = "expired")
    BY ExpiredOnlyQueued DEF OpsInv
<1>2. \A o \in Ops : o \in H <=> E[o] \in {"queued", "running"} /\ ~Covered(o)
    <2>1. \A o \in Ops : o \in H <=> E[o] \in {"queued", "running"} /\ o > Cursor
        BY DEF HandedOut, PendingAt
    <2>2. \A o \in Ops : o > Cursor <=> ~Covered(o)
        BY CursorCovers DEF OpsInv
    <2> QED BY <2>1, <2>2
<1>3. status' = [o \in Ops |-> IF o \in H THEN "running" ELSE E[o]]
    BY DEF ListPending
<1>4. H \subseteq Ops
    BY DEF HandedOut, PendingAt
<1> HIDE DEF E, H
<1>5. \A o \in Ops : ~Covered(o) => status[o] \notin Outcomes
    BY DEF OpsInv, RecordsAgree
<1>6. \A o \in Ops : Moves(o) /\ (status'[o] = "none" <=> status[o] = "none")
    BY <1>1, <1>2, <1>3 DEF Moves
<1>7. status' \in [Ops -> {"none", "queued", "running", "expired"} \cup Outcomes]
    BY <1>1, <1>3, Zenon DEF OpsInv, TypeOK
<1>8. \A o \in H : status'[o] = "running" /\ ~Covered(o)
    BY <1>2, <1>3, <1>4
<1>9. \A o \in Ops \ H : ~Covered(o) /\ status[o] # "none" => status'[o] = "expired"
    <2> SUFFICES ASSUME NEW o \in Ops, o \notin H, ~Covered(o), status[o] # "none"
                 PROVE  status'[o] = "expired"
        OBVIOUS
    <2>1. E[o] \notin {"queued", "running"} /\ status'[o] = E[o]
        BY <1>2, <1>3
    <2>2. status[o] \in {"none", "queued", "running", "expired"} \cup Outcomes
        BY Zenon DEF OpsInv, TypeOK
    <2> QED BY <1>1, <1>5, <2>1, <2>2
<1> QED BY <1>4, <1>6, <1>7, <1>8, <1>9 DEF H

----------------------------------------------------------------------------
(* The agent *)

\* Outside the exchange no request is one the agent waits for.
LEMMA NobodyWaits ==
    ASSUME OpsInv, pc # "exchange"
    PROVE  ~helper.live /\ \A q \in requests : ~q.live
<1>1. helper.live \in BOOLEAN /\ \A q \in requests : q.live \in BOOLEAN
    BY DEF OpsInv, TypeOK
<1> QED BY <1>1, Zenon DEF OpsInv, HelperOK

\* A step outside the exchange leaves the helper as it is.
LEMMA HelperUnseen ==
    ASSUME OpsInv, pc # "exchange", UNCHANGED root
    PROVE  HelperOK'
<1>1. ~helper.live /\ \A q \in requests : ~q.live
    BY NobodyWaits
<1> QED BY <1>1, Zenon DEF OpsInv, HelperOK, root

\* The end of the cycle forgets the list.
LEMMA EndCycleKeeps ==
    ASSUME EndCycle
    PROVE  CycleOK'
BY DEF EndCycle, CycleOK

\* A result that comes too early for the server's clock changes nothing but the
\* cycle, and neither does that clock.
LEMMA RefusedOK ==
    ASSUME OpsInv, UNCHANGED <<server, root>>, UNCHANGED <<result, reported, lastSeq>>,
           late' \subseteq late, ahead' \subseteq Ops, faults' \in 0..MaxFaults,
           UNCHANGED cycle \/ (EndCycle /\ pc # "exchange")
    PROVE  OpsInv'
<1>1. \A o \in Ops : Covered(o)' <=> Covered(o)
    BY CoveredStays
<1>2. /\ todo' \subseteq todo /\ pc' \in {pc, "idle"} /\ outcome' \in {outcome, "none"}
    BY Zenon DEF cycle, EndCycle
<1>3. TypeOK'
    BY <1>2, Zenon DEF OpsInv, TypeOK, server, root
<1>4. Numbered'
    BY NumberedStays DEF server
<1>5. HandedOutOnly'
    BY <1>2, Zenon DEF OpsInv, HandedOutOnly, server, root
<1>6. RecordsAgree' /\ InOrder'
    BY <1>1, Zenon DEF OpsInv, RecordsAgree, InOrder, server, root
<1>7. CycleOK' /\ HelperOK'
    <2>1. CASE UNCHANGED cycle
        <3>1. Head' = Head
            BY <2>1 DEF Head, cycle
        <3> QED BY <1>1, <2>1, <3>1, Zenon DEF OpsInv, CycleOK, HelperOK, TypeOK, server, root, cycle
    <2>2. CASE EndCycle /\ pc # "exchange"
        BY <2>2, EndCycleKeeps, HelperUnseen
    <2> QED BY <2>1, <2>2
<1>8. ExecutedOnce' /\ AlertTracksFailures'
    BY Zenon DEF OpsInv, ExecutedOnce, AlertTracksFailures, Unrecovered, server, root
<1> QED BY <1>3, <1>4, <1>5, <1>6, <1>7, <1>8 DEF OpsInv

\* The server's clock reaches the time of a result.
LEMMA ClockOK ==
    ASSUME OpsInv, NEW o \in ahead, ClockCatchesUp(o)
    PROVE  OpsInv'
<1>1. /\ ahead' \subseteq Ops /\ faults' \in 0..MaxFaults
      /\ UNCHANGED <<server, root>> /\ UNCHANGED <<result, reported, lastSeq>>
      /\ UNCHANGED cycle /\ late' = late
    BY Zenon DEF ClockCatchesUp, OpsInv, TypeOK
<1> QED BY <1>1, RefusedOK

\* The steps between the phases of a cycle
LEMMA StartCycleOK ==
    ASSUME OpsInv, StartCycle \/ Flushed \/ CycleDone
    PROVE  OpsInv'
<1>1. /\ UNCHANGED <<server, db, root, late, faults>> /\ pc # "exchange"
      /\ pc' \in {"idle", "flush", "list", "next"} /\ todo' = todo /\ todo \subseteq Ops
      /\ pc' \in {"idle", "flush", "list"} => todo = {}
      /\ outcome' \in {"none"} \cup Outcomes /\ pc # "advance"
    BY Zenon DEF StartCycle, Flushed, CycleDone, EndCycle, OpsInv, TypeOK, CycleOK
<1> USE <1>1 DEF server
<1>2. TypeOK'
    BY Zenon DEF OpsInv, TypeOK, db, root
<1>3. \A o \in Ops : Moves(o)
    BY DEF Moves
<1>4. Numbered'
    BY NumberedStays
<1>5. HandedOutOnly'
    BY Zenon DEF OpsInv, HandedOutOnly, db, root
<1>6. CycleOK'
    <2>1. \A o \in Ops : Covered(o)' <=> Covered(o)
        BY CoveredStays DEF db
    <2> QED BY <2>1, Zenon DEF OpsInv, CycleOK
<1> QED BY <1>2, <1>3, <1>4, <1>5, <1>6, MovesKeepRecords, MovesKeepAlert, HelperUnseen, Zenon
        DEF OpsInv

\* The answer to a list is the operations above the cursor, or is lost.
LEMMA ListOK ==
    ASSUME OpsInv, ListOperations \/ ListUnanswered
    PROVE  OpsInv'
<1> DEFINE H == HandedOut(Cursor)
<1>1. /\ ListPending /\ pc = "list" /\ UNCHANGED <<kind, overdue, alert, db, root, late>>
      /\ \/ todo' = H /\ pc' = "next" /\ UNCHANGED <<outcome, faults>>
         \/ EndCycle /\ Fault
    BY DEF ListOperations, ListUnanswered
<1>2. /\ \A o \in Ops : Moves(o) /\ (status'[o] = "none" <=> status[o] = "none")
      /\ status' \in [Ops -> {"none", "queued", "running", "expired"} \cup Outcomes]
      /\ H \subseteq Ops
      /\ \A o \in H : status'[o] = "running" /\ ~Covered(o)
      /\ \A o \in Ops \ H : ~Covered(o) /\ status[o] # "none" => status'[o] = "expired"
    BY <1>1, ListPendingMoves, Zenon
<1> HIDE DEF H
<1>3. TypeOK'
    <2>1. faults' \in 0..MaxFaults
        BY <1>1, FaultType, Zenon DEF OpsInv, TypeOK
    <2> QED BY <1>1, <1>2, <2>1 DEF OpsInv, TypeOK, db, root, EndCycle
<1>4. Numbered'
    BY <1>2, NumberedStays
<1>5. HandedOutOnly'
    <2>1. \A o \in Ops : status'[o] \in {"none", "queued", "expired"}
                            => status[o] \in {"none", "queued", "expired"} /\ o \notin todo'
        BY <1>1, <1>2, Zenon DEF Moves, EndCycle
    <2> QED BY <1>1, <2>1, Zenon DEF OpsInv, HandedOutOnly, db, root
<1>6. CycleOK'
    <2>1. CASE todo' = H /\ pc' = "next" /\ UNCHANGED <<outcome, faults>>
        <3>1. \A o \in Ops : Covered(o)' <=> Covered(o)
            BY <1>1, CoveredStays DEF db
        <3>2. ASSUME NEW t \in H, NEW o \in Ops, o < t, o \notin H, ~Covered(o)
              PROVE  status'[o] = "expired"
            <4>1. status'[t] # "none"
                BY <1>2
            <4>2. t \in Created'
                BY <1>2, <4>1 DEF Created
            <4>3. o \in Created'
                <5>1. Created' = 1..Cardinality(Created') /\ Cardinality(Created') \in Nat
                    <6>1. IsFiniteSet(Ops)
                        BY FS_Interval, OperationsAssumption DEF Ops
                    <6>2. IsFiniteSet(Created')
                        BY <6>1, FS_Subset DEF Created
                    <6> QED BY <1>4, <6>2, FS_CardinalityType DEF Numbered
                <5> QED BY <3>2, <4>2, <5>1 DEF Ops
            <4>4. status[o] # "none"
                BY <1>2, <4>3 DEF Created
            <4> QED BY <1>2, <3>2, <4>4
        <3> QED BY <1>2, <2>1, <3>1, <3>2 DEF CycleOK
    <2>2. CASE EndCycle
        BY <2>2, EndCycleKeeps
    <2> QED BY <1>1, <2>1, <2>2
<1> QED BY <1>1, <1>2, <1>3, <1>4, <1>5, <1>6, MovesKeepRecords, MovesKeepAlert, HelperUnseen, Zenon
        DEF OpsInv

\* The outbox is reported in order and never refused.
LEMMA FirstUnreported ==
    ASSUME OpsInv, Unreported # {}, NEW o, o = Min(Unreported)
    PROVE  /\ o \in Ops /\ o \in Unreported /\ result[o] \in Outcomes /\ Covered(o)
           /\ status[o] \in {"running", result[o]} /\ Accepts(o, result[o])
           /\ \A p \in Ops : p < o => status[p] \in Done
<1>1. o \in Ops /\ o \in Unreported /\ \A p \in Unreported : o <= p
    BY FirstOf DEF Unreported
<1>2. result[o] \in Outcomes
    BY <1>1, Zenon DEF Unreported, OpsInv, TypeOK
<1>3. Covered(o)
    BY <1>1, OperationsAssumption DEF Covered, Unreported, Ops
<1>4. status[o] \in {"running", result[o]}
    <2>1. status[o] \notin {"none", "queued", "expired"}
        BY <1>1, <1>2 DEF OpsInv, HandedOutOnly, Outcomes
    <2>2. status[o] \in Outcomes => status[o] = result[o]
        BY <1>1, <1>2, Zenon DEF OpsInv, RecordsAgree, Outcomes
    <2> QED BY <1>1, <2>1, <2>2 DEF OpsInv, TypeOK
<1>5. Accepts(o, result[o])
    BY <1>2, <1>4 DEF Accepts, Outcomes
<1>6. ASSUME NEW p \in Ops, p < o PROVE status[p] \in Done
    <2>1. Covered(p)
        BY <1>1, <1>6, OperationsAssumption DEF Covered, Unreported, Ops
    <2>2. p \notin Unreported
        BY <1>1, <1>6, OperationsAssumption DEF Ops
    <2> QED BY <2>1, <2>2, Zenon DEF Unreported, OpsInv, RecordsAgree, Done
<1> QED BY <1>1, <1>2, <1>3, <1>4, <1>5, <1>6

\* What RecordNodeOperationResult does to an operation that was handed out and
\* below which all is settled.
LEMMA ResultRecorded ==
    ASSUME OpsInv, NEW o \in Ops, NEW r \in Outcomes, RecordNodeOperationResult(o, r),
           status[o] \in {"running"} \cup Outcomes, \A p \in Ops : p < o => status[p] \in Done
    PROVE  /\ \A p \in Ops : \/ status'[p] = status[p]
                             \/ p = o /\ status[o] = "running" /\ status'[o] = r
           /\ status[o] \in {"running", r} => status'[o] = r
           /\ status'[o] \in Outcomes
           /\ status' \in [Ops -> {"none", "queued", "running", "expired"} \cup Outcomes]
           /\ alert' \in BOOLEAN /\ UNCHANGED <<kind, overdue>>
           /\ Numbered' /\ AlertTracksFailures'
           /\ \A p, q \in Ops : p < q /\ status'[q] \in Outcomes => status'[p] \in Done
<1> DEFINE s == [status EXCEPT ![o] = r]
<1>1. CASE status[o] \in Outcomes
    <2>1. UNCHANGED <<kind, overdue, status, alert>>
        BY <1>1 DEF RecordNodeOperationResult
    <2>2. Numbered'
        BY <2>1, NumberedStays
    <2>3. AlertTracksFailures'
        BY <2>1 DEF OpsInv, AlertTracksFailures, Unrecovered
    <2> QED BY <1>1, <2>1, <2>2, <2>3, Zenon DEF OpsInv, TypeOK, InOrder, Outcomes
<1>2. CASE status[o] = "running"
    <2>1. /\ status' = s /\ UNCHANGED <<kind, overdue>>
          /\ alert' = IF r = "failed" THEN TRUE ELSE alert /\ Unrecovered(s) # {}
        BY <1>2, Zenon DEF RecordNodeOperationResult, Accepts, Settled, Outcomes
    <2>2. \A p \in Ops : status'[p] = IF p = o THEN r ELSE status[p]
        BY <2>1, Zenon DEF OpsInv, TypeOK
    <2>3. \A p, q \in Ops : p < q /\ status'[q] \in Outcomes => status'[p] \in Done
        BY <2>2 DEF OpsInv, InOrder, Done
    <2>4. Numbered'
        BY <1>2, <2>2, NumberedStays DEF Outcomes
    <2>5. Unrecovered(status)' = Unrecovered(s)
        BY <2>1 DEF Unrecovered
    <2>6. r = "failed" => o \in Unrecovered(s)
        <3>1. \A p \in Ops : p > o => status[p] # "succeeded"
            BY <1>2, OperationsAssumption DEF OpsInv, InOrder, Done, Outcomes, Ops
        <3> QED BY <3>1, <2>2, <2>1, OperationsAssumption DEF Unrecovered, Ops
    <2>7. \A p \in Unrecovered(s) : r # "failed" /\ s[p] = "failed"
                => p \in Unrecovered(status) /\ status[p] = "failed"
        BY <1>2, <2>1, <2>2, Zenon DEF Unrecovered, Outcomes
    <2>8. AlertTracksFailures'
        BY <2>1, <2>5, <2>6, <2>7, Zenon DEF OpsInv, AlertTracksFailures
    <2>9. alert' \in BOOLEAN /\ status' \in [Ops -> {"none", "queued", "running", "expired"} \cup Outcomes]
        BY <2>1, Zenon DEF OpsInv, TypeOK
    <2> QED BY <1>2, <2>1, <2>2, <2>3, <2>4, <2>8, <2>9, Zenon
<1> QED BY <1>1, <1>2, Zenon

\* A late report is of an operation that was handed out, and all below it is
\* settled.
LEMMA DeliverLateOK ==
    ASSUME OpsInv, NEW m \in late, DeliverLate(m), m.op \notin ahead
    PROVE  OpsInv'
<1>1. m.op \in Ops /\ m.outcome \in Outcomes
    BY Zenon DEF OpsInv, TypeOK
<1>2. /\ RecordNodeOperationResult(m.op, m.outcome) /\ late' = late \ {m}
      /\ UNCHANGED <<db, cycle, root, faults>>
    BY DEF DeliverLate, HandleResult
<1>3. status[m.op] \in {"running"} \cup Outcomes
    BY <1>1 DEF OpsInv, HandedOutOnly, TypeOK
<1>4. \A p \in Ops : p < m.op => status[p] \in Done
    BY DEF OpsInv, InOrder
<1>5. /\ \A p \in Ops : \/ status'[p] = status[p]
                        \/ p = m.op /\ status[p] = "running" /\ status'[p] = m.outcome
      /\ status' \in [Ops -> {"none", "queued", "running", "expired"} \cup Outcomes]
      /\ alert' \in BOOLEAN /\ UNCHANGED <<kind, overdue>>
      /\ Numbered' /\ AlertTracksFailures'
      /\ \A p, q \in Ops : p < q /\ status'[q] \in Outcomes => status'[p] \in Done
    BY <1>1, <1>2, <1>3, <1>4, ResultRecorded
<1>6. status[m.op] = "running" => result[m.op] = m.outcome
    BY Zenon DEF OpsInv, RecordsAgree, Outcomes
<1>7. \A o \in Ops : Covered(o)' <=> Covered(o)
    BY <1>2, CoveredStays DEF db
<1>8. TypeOK'
    BY <1>2, <1>5, Zenon DEF OpsInv, TypeOK, db, cycle, root
<1>9. \A p \in Ops : /\ status'[p] \in {"none", "queued", "expired"} => status'[p] = status[p]
                     /\ status[p] \in Done => status'[p] = status[p]
    BY <1>1, <1>5 DEF Outcomes, Done
<1>10. HandedOutOnly'
    BY <1>2, <1>9, Zenon DEF OpsInv, HandedOutOnly, db, cycle, root
<1>11. RecordsAgree'
    <2>1. \A o \in Ops : /\ status'[o] \in Outcomes => Covered(o)' /\ result'[o] \in {"none", status'[o]}
                         /\ status'[o] = "succeeded" => o \in ran'
                         /\ result'[o] = "succeeded" => o \in ran'
                         /\ Covered(o)' => status'[o] \in Done \/ result'[o] # "none"
        <3>1. result[m.op] \in Outcomes => Covered(m.op)
            BY <1>1, OperationsAssumption DEF Covered, Ops, Outcomes
        <3> QED BY <1>1, <1>2, <1>5, <1>6, <1>7, <1>9, <3>1 DEF OpsInv, RecordsAgree, Outcomes, db, root
    <2>2. \A o \in reported : o \in Ops /\ status[o] \in Done
        BY Zenon DEF OpsInv, RecordsAgree, TypeOK, Done
    <2>3. \A l \in late : l.op \in Ops
        BY DEF OpsInv, TypeOK
    <2> QED BY <1>2, <1>9, <2>1, <2>2, <2>3, Zenon DEF OpsInv, RecordsAgree, Done, db
<1>12. InOrder'
    BY <1>2, <1>5, <1>9, Zenon DEF OpsInv, InOrder
<1>13. CycleOK'
    <2>1. Head' = Head
        BY <1>2 DEF Head, cycle
    <2>2. \A o \in Ops : status[o] = "expired" => status'[o] = "expired"
        BY <1>9 DEF Done
    <2>3. \A t \in todo : t \in Ops
        BY Zenon DEF OpsInv, TypeOK
    <2> QED BY <1>2, <1>7, <2>1, <2>2, <2>3, Zenon DEF OpsInv, CycleOK, db, cycle, root
<1>14. HelperOK' /\ ExecutedOnce'
    BY <1>2, Zenon DEF OpsInv, HelperOK, ExecutedOnce, Head, cycle, root
<1> QED BY <1>5, <1>8, <1>10, <1>11, <1>12, <1>13, <1>14 DEF OpsInv

\* markOperationResultReported keeps the newest row, and with it the cursor.
LEMMA MarkReportedKeepsCursor ==
    ASSUME TypeOK, NEW o \in Ops, result[o] # "none", MarkReported(o), lastSeq' = lastSeq
    PROVE  /\ \A p \in Ops : Covered(p)' <=> Covered(p)
           /\ \A p \in Ops : result'[p] = result[p] \/ (result'[p] = "none" /\ p \in reported \cup {o})
           /\ result' \in [Ops -> {"none"} \cup Outcomes] /\ reported' \subseteq reported \cup {o}
           /\ \A p \in reported \cup {o} : result'[p] # "none" => p \in reported'
<1> DEFINE rows == {r \in Ops : result[r] # "none"}
           done == reported \cup {o}
           old == {r \in rows \cap done : Cardinality({n \in rows : n > r}) >= Keep}
           mx == Max(rows)
<1>1. /\ result' = [r \in Ops |-> IF r \in old THEN "none" ELSE result[r]]
      /\ reported' = done \ old
    BY Zenon DEF MarkReported
<1>2. mx \in rows /\ \A r \in rows : r <= mx
    <2>1. rows \subseteq 0..Last /\ rows # {} /\ Last \in Nat
        BY OperationsAssumption DEF Ops
    <2> QED BY <2>1, MaxOf
<1>3. mx \notin old
    <2>1. {n \in rows : n > mx} = {}
        BY <1>2, OperationsAssumption DEF Ops
    <2>2. Cardinality({n \in rows : n > mx}) = 0
        BY <2>1, FS_EmptySet, Zenon
    <2> QED BY <2>2, OperationsAssumption
<1>4. mx \in Ops /\ result'[mx] # "none" /\ \A r \in Ops : result[r] # "none" => r <= mx
    BY <1>1, <1>2, <1>3, Zenon
<1>5. \A r \in old : r \in done
    OBVIOUS
<1> HIDE DEF rows, done, old, mx
<1>6. \A p \in Ops : result'[p] = result[p] \/ (result'[p] = "none" /\ p \in done)
    BY <1>1, <1>5
<1>7. \A p \in Ops : Covered(p)' <=> Covered(p)
    <2> SUFFICES ASSUME NEW p \in Ops PROVE Covered(p)' <=> Covered(p)
        OBVIOUS
    <2>1. Covered(p)' => Covered(p)
        BY <1>6 DEF Covered
    <2>2. ASSUME NEW r \in Ops, result[r] # "none", p <= r PROVE Covered(p)'
        <3>1. p <= mx
            BY <1>4, <2>2, OperationsAssumption DEF Ops
        <3> QED BY <1>4, <3>1 DEF Covered
    <2>3. p <= lastSeq => Covered(p)'
        BY DEF Covered
    <2> QED BY <2>1, <2>2, <2>3 DEF Covered
<1>8. result' \in [Ops -> {"none"} \cup Outcomes]
    BY <1>1 DEF TypeOK
<1>9. \A p \in done : result'[p] # "none" => p \in reported'
    <2>1. done \subseteq Ops
        BY DEF TypeOK, done
    <2> QED BY <1>1, <2>1
<1> QED BY <1>1, <1>6, <1>7, <1>8, <1>9 DEF done

\* A report settles the first operation of the outbox; the agent marks it, or
\* does not hear of it.
LEMMA ReportOK ==
    ASSUME OpsInv, ReportResult \/ ReportUnconfirmed, Min(Unreported) \notin ahead
    PROVE  OpsInv'
<1> DEFINE o == Min(Unreported)
<1>1. /\ pc \in {"flush", "report"} /\ Unreported # {}
      /\ RecordNodeOperationResult(o, result[o])
      /\ UNCHANGED <<lastSeq, ahead, root, late>>
    BY DEF ReportResult, ReportUnconfirmed, HandleResult, db
<1>2. /\ o \in Ops /\ o \in Unreported /\ result[o] \in Outcomes /\ Covered(o)
      /\ status[o] \in {"running", result[o]} /\ Accepts(o, result[o])
      /\ \A p \in Ops : p < o => status[p] \in Done
    BY <1>1, FirstUnreported, Zenon
<1>3. \/ MarkReported(o) /\ UNCHANGED <<cycle, faults>>
      \/ EndCycle /\ UNCHANGED <<result, reported>> /\ Fault
    BY <1>2, Zenon DEF ReportResult, ReportUnconfirmed, db
<1>4. o \in Unreported /\ result[o] # "none"
    BY <1>2, Zenon DEF Unreported
<1> HIDE DEF o
<1>5. /\ \A p \in Ops : \/ status'[p] = status[p]
                        \/ p = o /\ status[p] = "running" /\ status'[p] = result[o]
      /\ status'[o] = result[o]
      /\ status' \in [Ops -> {"none", "queued", "running", "expired"} \cup Outcomes]
      /\ alert' \in BOOLEAN /\ UNCHANGED <<kind, overdue>>
      /\ Numbered' /\ AlertTracksFailures'
      /\ \A p, q \in Ops : p < q /\ status'[q] \in Outcomes => status'[p] \in Done
    <2>1. status[o] \in {"running"} \cup Outcomes
        BY <1>2
    <2> QED BY <1>1, <1>2, <2>1, ResultRecorded
<1>6. /\ \A p \in Ops : Covered(p)' <=> Covered(p)
      /\ \A p \in Ops : result'[p] = result[p] \/ (result'[p] = "none" /\ p \in reported \cup {o})
      /\ result' \in [Ops -> {"none"} \cup Outcomes] /\ reported' \subseteq reported \cup {o}
    <2>1. CASE MarkReported(o)
        BY <1>1, <1>2, <1>4, <2>1, MarkReportedKeepsCursor, Zenon DEF OpsInv
    <2>2. CASE UNCHANGED <<result, reported>>
        <3>1. \A p \in Ops : Covered(p)' <=> Covered(p)
            BY <1>1, <2>2, CoveredStays
        <3> QED BY <2>2, <3>1 DEF OpsInv, TypeOK
    <2> QED BY <1>3, <2>1, <2>2
<1>7. \A p \in Ops : /\ status'[p] \in {"none", "queued", "expired"} => status'[p] = status[p]
                     /\ status[p] \in Done => status'[p] = status[p]
    BY <1>2, <1>5 DEF Outcomes, Done
<1>8. TypeOK'
    <2>1. faults' \in 0..MaxFaults
        BY <1>3, FaultType, Zenon DEF OpsInv, TypeOK
    <2>2. reported' \subseteq Ops
        BY <1>2, <1>6, Zenon DEF OpsInv, TypeOK
    <2> QED BY <1>1, <1>3, <1>5, <1>6, <2>1, <2>2, Zenon DEF OpsInv, TypeOK, cycle, root, EndCycle
<1>9. HandedOutOnly'
    <2>1. todo' \subseteq todo
        BY <1>3 DEF cycle, EndCycle
    <2>2. \A p \in Ops : status'[p] \in {"none", "queued", "expired"} => p # o
        BY <1>2, <1>5 DEF Outcomes
    <2> QED BY <1>1, <1>6, <1>7, <2>1, <2>2 DEF OpsInv, HandedOutOnly, root
<1>10. RecordsAgree'
    <2>1. \A p \in Ops : /\ status'[p] \in Outcomes => Covered(p)' /\ result'[p] \in {"none", status'[p]}
                         /\ status'[p] = "succeeded" => p \in ran'
                         /\ result'[p] = "succeeded" => p \in ran'
        BY <1>1, <1>2, <1>5, <1>6 DEF OpsInv, RecordsAgree, Outcomes, root
    <2>2. \A p \in reported \cup {o} : p \in Ops /\ status'[p] \in Outcomes
        BY <1>2, <1>5, <1>7 DEF OpsInv, RecordsAgree, TypeOK, Done
    <2>3. \A p \in Ops : Covered(p)' => status'[p] \in Done \/ result'[p] # "none"
        BY <1>6, <1>7, <2>2, Zenon DEF OpsInv, RecordsAgree, Done
    <2>4. \A l \in late : l.op \in Ops
        BY DEF OpsInv, TypeOK
    <2>5. \A l \in late : \/ result'[l.op] = l.outcome
                          \/ result'[l.op] = "none" /\ status'[l.op] \in Outcomes
        BY <1>6, <1>7, <2>2, <2>4 DEF OpsInv, RecordsAgree, Done
    <2> QED BY <1>1, <1>6, <2>1, <2>2, <2>3, <2>5 DEF RecordsAgree
<1>11. InOrder'
    BY <1>1, <1>5, <1>7, Zenon DEF OpsInv, InOrder
<1>12. CycleOK'
    <2>1. CASE UNCHANGED cycle
        <3>1. \A p \in Ops : status[p] = "expired" => status'[p] = "expired"
            BY <1>7 DEF Done
        <3>2. \A t \in todo : t \in Ops
            BY DEF OpsInv, TypeOK
        <3> QED BY <1>1, <1>6, <2>1, <3>1, <3>2, Zenon DEF OpsInv, CycleOK, cycle
    <2> QED BY <1>3, <2>1, EndCycleKeeps
<1>13. HelperOK' /\ ExecutedOnce'
    BY <1>1, HelperUnseen DEF OpsInv, ExecutedOnce, root
<1> QED BY <1>5, <1>8, <1>9, <1>10, <1>11, <1>12, <1>13 DEF OpsInv

\* The server refuses a report from a clock that is ahead.
LEMMA ReportRefusedOK ==
    ASSUME OpsInv, ReportResult \/ ReportUnconfirmed, Min(Unreported) \in ahead
    PROVE  OpsInv'
<1>1. /\ UNCHANGED <<server, root>> /\ UNCHANGED <<result, reported, lastSeq>>
      /\ late' = late /\ ahead' = ahead /\ EndCycle /\ pc # "exchange"
      /\ faults' = faults \/ Fault
    BY Zenon DEF ReportResult, ReportUnconfirmed, HandleResult, db
<1>2. ahead' \subseteq Ops /\ faults' \in 0..MaxFaults
    BY <1>1, FaultType DEF OpsInv, TypeOK
<1> QED BY <1>1, <1>2, RefusedOK

\* It refuses a late one in the same way.
LEMMA LateRefusedOK ==
    ASSUME OpsInv, NEW m \in late, DeliverLate(m), m.op \in ahead
    PROVE  OpsInv'
<1>1. /\ UNCHANGED <<server, root>> /\ UNCHANGED <<result, reported, lastSeq>>
      /\ late' \subseteq late /\ ahead' = ahead /\ UNCHANGED cycle /\ faults' = faults
    BY Zenon DEF DeliverLate, HandleResult, db
<1>2. ahead' \subseteq Ops /\ faults' \in 0..MaxFaults
    BY <1>1 DEF OpsInv, TypeOK
<1> QED BY <1>1, <1>2, RefusedOK

\* A report under way carries the recorded result of the first operation of the
\* outbox.
LEMMA ReportDelayedOK ==
    ASSUME OpsInv, ReportDelayed
    PROVE  OpsInv'
<1> DEFINE o == Min(Unreported)
<1>1. /\ pc \in {"flush", "report"} /\ Unreported # {} /\ Fault
      /\ late' = late \cup {[op |-> o, outcome |-> result[o]]}
      /\ EndCycle /\ UNCHANGED <<server, db, root>>
    BY DEF ReportDelayed
<1>2. /\ o \in Ops /\ result[o] \in Outcomes
      /\ status[o] \in {"running", result[o]}
      /\ \A p \in Ops : p < o => status[p] \in Done
    BY <1>1, FirstUnreported, Zenon
<1> HIDE DEF o
<1>3. TypeOK'
    <2>1. faults' \in 0..MaxFaults
        BY <1>1, FaultType DEF OpsInv
    <2> QED BY <1>1, <1>2, <2>1 DEF OpsInv, TypeOK, EndCycle, server, db, root
<1>4. \A p \in Ops : Covered(p)' <=> Covered(p)
    BY <1>1, CoveredStays DEF db
<1>5. Numbered'
    BY <1>1, NumberedStays DEF server
<1>6. HandedOutOnly'
    BY <1>1, <1>2 DEF OpsInv, HandedOutOnly, EndCycle, Outcomes, server, db, root
<1>7. RecordsAgree'
    BY <1>1, <1>4 DEF OpsInv, RecordsAgree, server, db, root
<1>8. InOrder'
    BY <1>1, <1>2 DEF OpsInv, InOrder, server
<1>9. CycleOK' /\ HelperOK' /\ ExecutedOnce' /\ AlertTracksFailures'
    BY <1>1, EndCycleKeeps, HelperUnseen, Zenon
       DEF OpsInv, ExecutedOnce, AlertTracksFailures, Unrecovered, server, root
<1> QED BY <1>3, <1>5, <1>6, <1>7, <1>8, <1>9 DEF OpsInv

\* What server and agent.db hold is unaffected by the cycle and the helper.
LEMMA RecordsStay ==
    ASSUME OpsInv, UNCHANGED <<server, db, late>>, ran \subseteq ran'
    PROVE  Numbered' /\ RecordsAgree' /\ InOrder' /\ AlertTracksFailures'
<1>1. \A o \in Ops : Covered(o)' <=> Covered(o)
    BY CoveredStays DEF db
<1>2. Numbered'
    BY NumberedStays DEF server
<1>3. RecordsAgree'
    BY <1>1, Zenon DEF OpsInv, RecordsAgree, server, db
<1>4. InOrder'
    BY DEF OpsInv, InOrder, server
<1>5. AlertTracksFailures'
    BY Zenon DEF OpsInv, AlertTracksFailures, Unrecovered, server
<1> QED BY <1>2, <1>3, <1>4, <1>5

\* The first operation of the list was handed out and has no result, unless it
\* has just been recorded.
LEMMA HeadFacts ==
    ASSUME OpsInv, todo # {}
    PROVE  /\ Head \in Ops /\ Head \in todo /\ \A t \in todo : t \in Ops /\ Head <= t
           /\ status[Head] \in {"running"} \cup Outcomes
           /\ pc # "advance" => ~Covered(Head) /\ status[Head] = "running"
<1>1. todo \subseteq Ops
    BY DEF OpsInv, TypeOK
<1>2. Head \in Ops /\ Head \in todo /\ \A t \in todo : t \in Ops /\ Head <= t
    BY <1>1, FirstOf DEF Head
<1>3. status[Head] \in {"running"} \cup Outcomes
    BY <1>2 DEF OpsInv, HandedOutOnly, TypeOK
<1>4. pc # "advance" => ~Covered(Head)
    BY <1>2 DEF OpsInv, CycleOK
<1>5. ~Covered(Head) => status[Head] \notin Outcomes
    BY <1>2 DEF OpsInv, RecordsAgree
<1> QED BY <1>2, <1>3, <1>4, <1>5

\* The agent sends the first operation of its list.
LEMMA ExecuteNextOK ==
    ASSUME OpsInv, ExecuteNext
    PROVE  OpsInv'
<1>1. /\ pc = "next" /\ todo # {} /\ requests' = requests \cup {[op |-> Head, live |-> TRUE]}
      /\ pc' = "exchange"
      /\ UNCHANGED <<server, db, todo, outcome, helper, ledger, ran, again, lost, late, faults>>
    BY DEF ExecuteNext
<1>2. Head \in Ops /\ status[Head] = "running" /\ Head' = Head
    BY <1>1, HeadFacts DEF Head
<1>3. ~helper.live /\ \A q \in requests : ~q.live
    BY <1>1, NobodyWaits
<1>4. TypeOK'
    <2>1. \A h \in Ops : [op |-> h, live |-> TRUE] \in [op : Ops, live : BOOLEAN]
        OBVIOUS
    <2>2. requests' \subseteq [op : Ops, live : BOOLEAN]
        BY <1>1, <1>2, <2>1, Zenon DEF OpsInv, TypeOK
    <2> QED BY <1>1, <2>2, Zenon DEF OpsInv, TypeOK, server, db
<1>5. HandedOutOnly'
    <2>1. HandedOutOnly
        BY DEF OpsInv
    <2>2. /\ status' = status /\ result' = result /\ reported' = reported /\ todo' = todo
          /\ ran' = ran /\ helper' = helper /\ late' = late
        BY <1>1 DEF server, db
    <2>3. \A q \in requests' : q \in requests \/ q.op = Head
        BY <1>1
    <2>4. \A o \in Ops : status[o] \in {"none", "queued", "expired"} => o # Head
        BY <1>2
    <2> HIDE DEF Head
    <2> QED BY <2>1, <2>2, <2>3, <2>4 DEF HandedOutOnly
<1>6. CycleOK'
    <2>1. \A o \in Ops : Covered(o)' <=> Covered(o)
        BY <1>1, CoveredStays DEF db
    <2>2. \A t \in todo : t \in Ops
        BY DEF OpsInv, TypeOK
    <2> QED BY <1>1, <1>2, <2>1, <2>2, Zenon DEF OpsInv, CycleOK, server
<1>7. HelperOK' /\ ExecutedOnce'
    BY <1>1, <1>2, <1>3 DEF OpsInv, HelperOK, ExecutedOnce
<1> QED BY <1>1, <1>4, <1>5, <1>6, <1>7, RecordsStay DEF OpsInv

\* Nobody is waited for after HangUp; the requests stay.
LEMMA HangUpFacts ==
    ASSUME OpsInv, HangUp
    PROVE  /\ requests' \subseteq [op : Ops, live : BOOLEAN]
           /\ \A q \in requests' : q.live = FALSE /\ \E p \in requests : p.op = q.op
           /\ helper' = [helper EXCEPT !.live = FALSE]
           /\ helper' \in [op : 0..Last, live : BOOLEAN, step : {"idle", "execute", "save"},
                           outcome : {"none"} \cup Outcomes]
           /\ helper'.op = helper.op /\ helper'.step = helper.step
           /\ helper'.outcome = helper.outcome /\ helper'.live = FALSE
           /\ helper = Idle => helper' = Idle
<1>1. /\ requests \subseteq [op : Ops, live : BOOLEAN]
      /\ helper \in [op : 0..Last, live : BOOLEAN, step : {"idle", "execute", "save"},
                     outcome : {"none"} \cup Outcomes]
    BY DEF OpsInv, TypeOK
<1>2. requests' = {[q EXCEPT !.live = FALSE] : q \in requests}
    BY DEF HangUp
<1>3. \A q \in requests : /\ [q EXCEPT !.live = FALSE] \in [op : Ops, live : BOOLEAN]
                          /\ [q EXCEPT !.live = FALSE].live = FALSE
                          /\ [q EXCEPT !.live = FALSE].op = q.op
    BY <1>1, Zenon
<1>4. /\ requests' \subseteq [op : Ops, live : BOOLEAN]
      /\ \A q \in requests' : q.live = FALSE /\ \E p \in requests : p.op = q.op
    BY <1>2, <1>3
<1>5. helper' = [helper EXCEPT !.live = FALSE]
    BY DEF HangUp
<1>6. helper = Idle => helper' = Idle
    <2>1. helper = Idle => helper.live = FALSE
        BY DEF Idle
    <2>2. helper.live = FALSE => helper' = helper
        BY <1>1, <1>5
    <2> QED BY <2>1, <2>2
<1> QED BY <1>1, <1>4, <1>5, <1>6, Zenon

\* The agent gives up, crashes or fails to write; the helper goes on.
LEMMA GiveUpOK ==
    ASSUME OpsInv, GiveUp \/ Crash \/ StoreFails
    PROVE  OpsInv'
<1>1. /\ UNCHANGED <<server, db, ledger, ran, again, lost, late>> /\ Fault
      /\ \/ HangUp
         \/ UNCHANGED <<requests, helper>> /\ pc # "exchange"
      /\ \/ pc = "exchange" /\ outcome' = "failed" /\ pc' = "record" /\ todo' = todo
         \/ EndCycle
    BY DEF GiveUp, Crash, StoreFails, root
<1>2. /\ requests' \subseteq [op : Ops, live : BOOLEAN]
      /\ \A q \in requests' : ~q.live /\ \E p \in requests : p.op = q.op
      /\ helper' \in [op : 0..Last, live : BOOLEAN, step : {"idle", "execute", "save"},
                      outcome : {"none"} \cup Outcomes]
      /\ helper'.op = helper.op /\ helper'.step = helper.step
      /\ helper'.outcome = helper.outcome /\ ~helper'.live
      /\ helper = Idle => helper' = Idle
    <2>1. CASE HangUp
        BY <2>1, HangUpFacts, Zenon
    <2>2. CASE UNCHANGED <<requests, helper>> /\ pc # "exchange"
        BY <2>2, NobodyWaits, Zenon DEF OpsInv, TypeOK
    <2> QED BY <1>1, <2>1, <2>2, Zenon
<1>3. TypeOK'
    <2>1. faults' \in 0..MaxFaults
        BY <1>1, FaultType DEF OpsInv
    <2>2. pc' \in {"idle", "record"} /\ todo' \subseteq Ops /\ outcome' \in {"none"} \cup Outcomes
        BY <1>1, Zenon DEF OpsInv, TypeOK, EndCycle, Outcomes
    <2> QED BY <1>1, <1>2, <2>1, <2>2, Zenon DEF OpsInv, TypeOK, server, db
<1>4. HandedOutOnly'
    <2>1. todo' \subseteq todo
        BY <1>1 DEF EndCycle
    <2> QED BY <1>1, <1>2, <2>1 DEF OpsInv, HandedOutOnly, server, db
<1>5. CycleOK'
    <2>1. CASE pc = "exchange" /\ outcome' = "failed" /\ pc' = "record" /\ todo' = todo
        <3>1. \A o \in Ops : Covered(o)' <=> Covered(o)
            BY <1>1, CoveredStays DEF db
        <3>2. \A t \in todo : t \in Ops
            BY DEF OpsInv, TypeOK
        <3> QED BY <1>1, <2>1, <3>1, <3>2 DEF OpsInv, CycleOK, Outcomes, server
    <2> QED BY <1>1, <2>1, EndCycleKeeps
<1>6. HelperOK' /\ ExecutedOnce'
    BY <1>1, <1>2, Zenon DEF OpsInv, HelperOK, ExecutedOnce
<1> QED BY <1>1, <1>3, <1>4, <1>5, <1>6, RecordsStay DEF OpsInv

\* recordOperationResult moves the cursor to the operation, past expired ones only.
LEMMA RecordResultOK ==
    ASSUME OpsInv, RecordResult
    PROVE  OpsInv'
<1>1. /\ pc = "record" /\ result' = [result EXCEPT ![Head] = outcome] /\ pc' = "advance"
      /\ UNCHANGED <<server, reported, lastSeq, todo, outcome, root, late>>
      /\ (ahead' = ahead /\ faults' = faults) \/ (Fault /\ ahead' = ahead \cup {Head})
    BY DEF RecordResult
<1>2. /\ todo # {} /\ outcome \in Outcomes /\ outcome # "none"
      /\ outcome = "succeeded" => Head \in ran
    BY <1>1 DEF OpsInv, CycleOK, Outcomes
<1>3. /\ Head \in Ops /\ Head \in todo /\ \A t \in todo : t \in Ops /\ Head <= t
      /\ ~Covered(Head) /\ status[Head] = "running" /\ Head' = Head
    BY <1>1, <1>2, HeadFacts DEF Head
<1>4. \A o \in Ops : result'[o] = IF o = Head THEN outcome ELSE result[o]
    BY <1>1, Zenon DEF OpsInv, TypeOK
<1>5. \A o \in Ops : Covered(o)' <=> Covered(o) \/ o <= Head
    <2> SUFFICES ASSUME NEW o \in Ops PROVE Covered(o)' <=> Covered(o) \/ o <= Head
        OBVIOUS
    <2>1. result[Head] = "none"
        BY <1>3, OperationsAssumption DEF Covered, Ops
    <2>2. Covered(o)' <=> o <= lastSeq \/ \E r \in Ops : result'[r] # "none" /\ o <= r
        BY <1>1 DEF Covered
    <2> QED BY <1>2, <1>3, <1>4, <2>1, <2>2 DEF Covered
<1>6. TypeOK'
    <2>1. faults' \in 0..MaxFaults /\ ahead' \subseteq Ops
        BY <1>1, <1>3, FaultType DEF OpsInv, TypeOK
    <2> QED BY <1>1, <1>2, <2>1, Zenon DEF OpsInv, TypeOK, server, root
<1>7. Numbered'
    BY <1>1, NumberedStays DEF server
<1>8. HandedOutOnly'
    BY <1>1, <1>3, <1>4, ZenonT(30) DEF OpsInv, HandedOutOnly, server, root
<1>9. RecordsAgree'
    <2>1. \A o \in Ops : o < Head /\ ~Covered(o) => status[o] = "expired"
        <3> SUFFICES ASSUME NEW o \in Ops, o < Head, ~Covered(o) PROVE status[o] = "expired"
            OBVIOUS
        <3>1. o \notin todo
            BY <1>3, OperationsAssumption DEF Ops
        <3> QED BY <1>3, <3>1 DEF OpsInv, CycleOK
    <2>2. \A o \in Ops : Covered(o)' => status[o] \in Done \/ result'[o] # "none"
        <3> SUFFICES ASSUME NEW o \in Ops, Covered(o)'
                     PROVE  status[o] \in Done \/ result'[o] # "none"
            OBVIOUS
        <3>1. CASE o = Head
            BY <1>2, <1>4, <3>1
        <3>2. CASE o # Head /\ Covered(o)
            BY <1>4, <3>2 DEF OpsInv, RecordsAgree
        <3>3. CASE o < Head /\ ~Covered(o)
            BY <2>1, <3>3 DEF Done
        <3> QED BY <1>3, <1>5, <3>1, <3>2, <3>3, OperationsAssumption DEF Ops
    <2>3. \A o \in Ops : /\ status[o] \in Outcomes => Covered(o)' /\ result'[o] \in {"none", status[o]}
                         /\ result'[o] = "succeeded" => o \in ran
        BY <1>2, <1>3, <1>4, <1>5 DEF OpsInv, RecordsAgree, Outcomes
    <2>4. \A l \in late : l.op \in Ops /\ l.op # Head
        <3> SUFFICES ASSUME NEW l \in late PROVE l.op \in Ops /\ l.op # Head
            OBVIOUS
        <3>1. l.op \in Ops /\ l.outcome \in Outcomes
            BY DEF OpsInv, TypeOK
        <3>2. result[l.op] # "none" => Covered(l.op)
            BY <3>1, OperationsAssumption DEF Covered, Ops
        <3>3. status[l.op] \in Outcomes => Covered(l.op)
            BY <3>1 DEF OpsInv, RecordsAgree
        <3> QED BY <1>3, <3>1, <3>2, <3>3 DEF OpsInv, RecordsAgree, Outcomes
    <2> QED BY <1>1, <1>4, <2>2, <2>3, <2>4 DEF OpsInv, RecordsAgree, server, root
<1>10. InOrder'
    BY <1>1 DEF OpsInv, InOrder, server
<1>11. CycleOK'
    <2>1. result'[Head] # "none"
        BY <1>2, <1>3, <1>4
    <2>2. \A t \in todo : t = Head \/ ~Covered(t)'
        BY <1>1, <1>3, <1>5, OperationsAssumption DEF OpsInv, CycleOK, Ops
    <2>3. \A t \in todo, o \in Ops : o < t /\ o \notin todo /\ ~Covered(o)' => status[o] = "expired"
        BY <1>5 DEF OpsInv, CycleOK
    <2> QED BY <1>1, <1>2, <1>3, <2>1, <2>2, <2>3 DEF CycleOK, server, root
<1>12. HelperOK' /\ ExecutedOnce' /\ AlertTracksFailures'
    BY <1>1, HelperUnseen, Zenon DEF OpsInv, ExecutedOnce, AlertTracksFailures, Unrecovered, server, root
<1> QED BY <1>6, <1>7, <1>8, <1>9, <1>10, <1>11, <1>12 DEF OpsInv

\* The runtime's last sequence follows the row that was recorded.
LEMMA AdvanceSequenceOK ==
    ASSUME OpsInv, AdvanceSequence
    PROVE  OpsInv'
<1>1. /\ pc = "advance" /\ lastSeq' = Max({lastSeq, Head})
      /\ todo' = todo \ {Head} /\ outcome' = "none" /\ pc' = "report"
      /\ UNCHANGED <<server, result, reported, ahead, root, late, faults>>
    BY DEF AdvanceSequence
<1>2. todo # {} /\ result[Head] # "none"
    BY <1>1 DEF OpsInv, CycleOK
<1>3. Head \in Ops /\ Head \in todo
    BY <1>2, HeadFacts
<1>4. /\ lastSeq' \in {lastSeq, Head} /\ lastSeq <= lastSeq' /\ lastSeq' \in 0..Last
    <2>1. {lastSeq, Head} \subseteq 0..Last /\ {lastSeq, Head} # {} /\ Last \in Nat
        BY <1>3, OperationsAssumption DEF OpsInv, TypeOK, Ops
    <2>2. /\ Max({lastSeq, Head}) \in {lastSeq, Head}
          /\ \A y \in {lastSeq, Head} : y <= Max({lastSeq, Head})
        BY <2>1, MaxOf
    <2> QED BY <1>1, <2>1, <2>2
<1>5. \A o \in Ops : Covered(o)' <=> Covered(o)
    <2>1. \A o \in Ops : Covered(o)' <=> o <= lastSeq' \/ \E r \in Ops : result[r] # "none" /\ o <= r
        BY <1>1 DEF Covered
    <2>2. \A o \in Ops : /\ o <= lastSeq' => o <= lastSeq \/ o <= Head
                         /\ o <= lastSeq => o <= lastSeq'
        <3>1. lastSeq \in Nat /\ lastSeq' \in Nat /\ \A o \in Ops : o \in Nat
            BY <1>4, OperationsAssumption DEF OpsInv, TypeOK, Ops
        <3> QED BY <1>4, <3>1
    <2> QED BY <1>2, <1>3, <2>1, <2>2 DEF Covered
<1>6. TypeOK'
    BY <1>1, <1>4, Zenon DEF OpsInv, TypeOK, server, root
<1>7. Numbered'
    BY <1>1, NumberedStays DEF server
<1>8. HandedOutOnly'
    BY <1>1, ZenonT(30) DEF OpsInv, HandedOutOnly, server, root
<1>9. RecordsAgree'
    BY <1>1, <1>5, Zenon DEF OpsInv, RecordsAgree, server, root
<1>10. InOrder'
    BY <1>1 DEF OpsInv, InOrder, server
<1>11. CycleOK'
    <2>1. Covered(Head)
        BY <1>2, <1>3, OperationsAssumption DEF Covered, Ops
    <2>2. \A t \in todo' : t \in Ops /\ ~Covered(t)'
        BY <1>1, <1>5, Zenon DEF OpsInv, CycleOK, TypeOK
    <2>3. \A t \in todo', o \in Ops :
                o < t /\ o \notin todo' /\ ~Covered(o)' => status[o] = "expired"
        BY <1>1, <1>5, <2>1 DEF OpsInv, CycleOK
    <2> QED BY <1>1, <2>2, <2>3 DEF CycleOK, server
<1>12. HelperOK' /\ ExecutedOnce' /\ AlertTracksFailures'
    BY <1>1, HelperUnseen, Zenon DEF OpsInv, ExecutedOnce, AlertTracksFailures, Unrecovered, server, root
<1> QED BY <1>6, <1>7, <1>8, <1>9, <1>10, <1>11, <1>12 DEF OpsInv

----------------------------------------------------------------------------
(* The helper *)

\* A reply ends the exchange the agent waits in, and nothing else.
LEMMA ReplyKeepsCycle ==
    ASSUME OpsInv, NEW live \in BOOLEAN, NEW r \in Outcomes, Reply(live, r), ran \subseteq ran',
           live => pc = "exchange", live /\ r = "succeeded" => Head \in ran'
    PROVE  /\ CycleOK' /\ Head' = Head /\ UNCHANGED <<server, db, late, todo>>
           /\ pc' = IF live THEN "record" ELSE pc
           /\ outcome' \in {"none"} \cup Outcomes
<1>1. /\ outcome' = IF live THEN r ELSE outcome
      /\ pc' = IF live THEN "record" ELSE pc
      /\ UNCHANGED <<server, db, todo, late>>
    BY DEF Reply
<1>2. \A o \in Ops : Covered(o)' <=> Covered(o)
    BY <1>1, CoveredStays DEF db
<1>3. Head' = Head
    BY <1>1 DEF Head
<1>4. \A t \in todo : t \in Ops
    BY Zenon DEF OpsInv, TypeOK
<1>5. CASE live
    BY <1>1, <1>2, <1>3, <1>4, <1>5 DEF OpsInv, CycleOK, server
<1>6. CASE ~live
    BY <1>1, <1>2, <1>3, <1>4, <1>6, Zenon DEF OpsInv, CycleOK, TypeOK, server, db
<1> QED BY <1>1, <1>3, <1>5, <1>6

\* A request finds the lock free: its reply comes from the ledger, or it runs.
LEMMA AcquireLockOK ==
    ASSUME OpsInv, NEW q \in requests, AcquireLock(q)
    PROVE  OpsInv'
<1>1. q \in [op : Ops, live : BOOLEAN] /\ \A p \in requests : p \in [op : Ops, live : BOOLEAN]
    BY DEF OpsInv, TypeOK
<1>2. /\ helper = Idle /\ requests' = requests \ {q} /\ UNCHANGED <<ledger, ran, again, lost, faults>>
    BY DEF AcquireLock
<1>3. q.live => pc = "exchange" /\ q.op = Head
    BY DEF OpsInv, HelperOK
<1>4. q.live => \A p \in requests' : ~p.live
    BY <1>1, <1>2, <1>3 DEF OpsInv, HelperOK
<1>5. CASE ledger[q.op] # "none"
    <2>1. Reply(q.live, ledger[q.op]) /\ helper' = helper
        BY <1>5 DEF AcquireLock
    <2>2. ledger[q.op] \in Outcomes /\ q.op \in ran
        BY <1>1, <1>5, Zenon DEF OpsInv, TypeOK, HelperOK
    <2>3. /\ CycleOK' /\ Head' = Head /\ UNCHANGED <<server, db, late, todo>>
          /\ pc' = IF q.live THEN "record" ELSE pc
          /\ outcome' \in {"none"} \cup Outcomes
        BY <1>1, <1>2, <1>3, <2>1, <2>2, ReplyKeepsCycle
    <2>4. TypeOK'
        BY <1>2, <2>1, <2>3, Zenon DEF OpsInv, TypeOK, server, db
    <2>5. HandedOutOnly'
        BY <1>2, <2>1, <2>3, ZenonT(30) DEF OpsInv, HandedOutOnly, server, db
    <2>6. HelperOK' /\ ExecutedOnce'
        BY <1>2, <1>4, <2>1, <2>3, Zenon DEF OpsInv, HelperOK, ExecutedOnce, Idle
    <2> QED BY <1>2, <2>3, <2>4, <2>5, <2>6, RecordsStay DEF OpsInv
<1>6. CASE ledger[q.op] = "none"
    <2>1. /\ helper' = [op |-> q.op, live |-> q.live, step |-> "execute", outcome |-> "none"]
          /\ UNCHANGED <<server, db, cycle, late>>
        BY <1>6 DEF AcquireLock
    <2>2. TypeOK'
        <3>1. helper' \in [op : 0..Last, live : BOOLEAN, step : {"idle", "execute", "save"},
                           outcome : {"none"} \cup Outcomes]
            BY <1>1, <2>1, OperationsAssumption DEF Ops
        <3> QED BY <1>2, <2>1, <3>1, Zenon DEF OpsInv, TypeOK, server, db, cycle
    <2>3. HandedOutOnly'
        BY <1>2, <2>1, Zenon DEF OpsInv, HandedOutOnly, server, db, cycle
    <2>4. CycleOK'
        BY <1>2, <2>1, CoveredStays, Zenon DEF OpsInv, CycleOK, TypeOK, Head, server, db, cycle
    <2>5. HelperOK' /\ ExecutedOnce'
        <3>1. Head' = Head /\ pc' = pc
            BY <2>1 DEF Head, cycle
        <3>2. ~(helper.step = "save")
            BY <1>2 DEF Idle
        <3> QED BY <1>1, <1>2, <1>3, <1>4, <1>6, <2>1, <3>1, <3>2, Zenon DEF OpsInv, HelperOK, ExecutedOnce
    <2> QED BY <1>2, <2>1, <2>2, <2>3, <2>4, <2>5, RecordsStay DEF OpsInv
<1> QED BY <1>5, <1>6

\* A request finds the lock taken for too long.
LEMMA LockTimeoutOK ==
    ASSUME OpsInv, NEW q \in requests, LockTimeout(q)
    PROVE  OpsInv'
<1>1. q \in [op : Ops, live : BOOLEAN] /\ \A p \in requests : p \in [op : Ops, live : BOOLEAN]
    BY DEF OpsInv, TypeOK
<1>2. /\ requests' = requests \ {q} /\ Reply(q.live, "failed")
      /\ UNCHANGED <<helper, ledger, ran, again, lost, faults>>
    BY DEF LockTimeout
<1>3. q.live => pc = "exchange" /\ q.op = Head /\ ~helper.live
    BY DEF OpsInv, HelperOK
<1>4. q.live => \A p \in requests' : ~p.live
    BY <1>1, <1>2, <1>3 DEF OpsInv, HelperOK
<1>5. /\ CycleOK' /\ Head' = Head /\ UNCHANGED <<server, db, late, todo>>
      /\ pc' = IF q.live THEN "record" ELSE pc
      /\ outcome' \in {"none"} \cup Outcomes
    BY <1>1, <1>2, <1>3, ReplyKeepsCycle DEF Outcomes
<1>6. TypeOK'
    BY <1>2, <1>5, Zenon DEF OpsInv, TypeOK, server, db
<1>7. HandedOutOnly'
    BY <1>2, <1>5, ZenonT(30) DEF OpsInv, HandedOutOnly, server, db
<1>8. HelperOK' /\ ExecutedOnce'
    BY <1>2, <1>3, <1>4, <1>5, Zenon DEF OpsInv, HelperOK, ExecutedOnce
<1> QED BY <1>2, <1>5, <1>6, <1>7, <1>8, RecordsStay DEF OpsInv

\* An operation takes effect: it was not in the ledger, so if it had taken effect
\* before, the entry was lost.
LEMMA ExecuteOK ==
    ASSUME OpsInv, NEW r \in Outcomes, Execute(r)
    PROVE  OpsInv'
<1>1. /\ helper.step = "execute" /\ helper' = [helper EXCEPT !.step = "save", !.outcome = r]
      /\ ran' = ran \cup {helper.op} /\ again' = again \cup ({helper.op} \cap ran)
      /\ UNCHANGED <<server, db, cycle, requests, ledger, lost, late, faults>>
    BY DEF Execute
<1>2. /\ helper.op \in Ops /\ ledger[helper.op] = "none"
      /\ helper \in [op : 0..Last, live : BOOLEAN, step : {"idle", "execute", "save"},
                     outcome : {"none"} \cup Outcomes]
    BY <1>1, Zenon DEF OpsInv, HelperOK, TypeOK
<1>3. /\ helper' \in [op : 0..Last, live : BOOLEAN, step : {"idle", "execute", "save"},
                      outcome : {"none"} \cup Outcomes]
      /\ helper'.op = helper.op /\ helper'.live = helper.live
      /\ helper'.step = "save" /\ helper'.outcome = r
    BY <1>1, <1>2, Zenon
<1>4. helper.op \in ran => helper.op \in lost
    BY <1>1, <1>2 DEF OpsInv, HelperOK
<1>5. Head' = Head
    BY <1>1 DEF Head, cycle
<1>6. TypeOK'
    BY <1>1, <1>2, <1>3, Zenon DEF OpsInv, TypeOK, server, db, cycle
<1>7. HandedOutOnly'
    BY <1>1, <1>2, <1>3 DEF OpsInv, HandedOutOnly, server, db, cycle
<1>8. CycleOK'
    BY <1>1, <1>5, CoveredStays, Zenon DEF OpsInv, CycleOK, TypeOK, server, db, cycle
<1>9. HelperOK'
    BY <1>1, <1>2, <1>3, <1>5 DEF OpsInv, HelperOK, cycle
<1>10. ExecutedOnce'
    BY <1>1, <1>4 DEF OpsInv, ExecutedOnce
<1> QED BY <1>1, <1>6, <1>7, <1>8, <1>9, <1>10, RecordsStay DEF OpsInv

\* The helper writes its result to the ledger and replies.
LEMMA SaveResultOK ==
    ASSUME OpsInv, SaveResult
    PROVE  OpsInv'
<1>1. /\ helper.step = "save" /\ ledger' = [ledger EXCEPT ![helper.op] = helper.outcome]
      /\ helper' = Idle /\ Reply(helper.live, helper.outcome)
      /\ UNCHANGED <<requests, ran, again, lost, faults>>
    BY DEF SaveResult
<1>2. /\ helper.op \in Ops /\ helper.op \in ran /\ helper.outcome \in Outcomes
      /\ helper.live \in BOOLEAN
      /\ helper.live => pc = "exchange" /\ helper.op = Head
    BY <1>1, Zenon DEF OpsInv, HelperOK, TypeOK
<1>3. /\ CycleOK' /\ Head' = Head /\ UNCHANGED <<server, db, late, todo>>
      /\ pc' = IF helper.live THEN "record" ELSE pc
      /\ outcome' \in {"none"} \cup Outcomes
    BY <1>1, <1>2, ReplyKeepsCycle
<1>4. \A o \in Ops : ledger'[o] = IF o = helper.op THEN helper.outcome ELSE ledger[o]
    BY <1>1 DEF OpsInv, TypeOK
<1>5. TypeOK'
    <2>1. helper' \in [op : 0..Last, live : BOOLEAN, step : {"idle", "execute", "save"},
                       outcome : {"none"} \cup Outcomes]
        BY <1>1, OperationsAssumption DEF Idle
    <2>2. ledger' \in [Ops -> {"none"} \cup Outcomes]
        BY <1>1, <1>2 DEF OpsInv, TypeOK
    <2> QED BY <1>1, <1>3, <2>1, <2>2, Zenon DEF OpsInv, TypeOK, server, db
<1>6. HandedOutOnly'
    BY <1>1, <1>3, OperationsAssumption DEF OpsInv, HandedOutOnly, Idle, Ops, server, db
<1>7. HelperOK' /\ ExecutedOnce'
    <2>1. \A q \in requests : q.live => ~helper.live
        BY DEF OpsInv, HelperOK
    <2>2. \A o \in Ops : ledger'[o] # "none" => o \in ran
        BY <1>2, <1>4 DEF OpsInv, HelperOK
    <2>3. \A o \in ran : o \in Ops /\ (ledger'[o] # "none" \/ o \in lost)
        BY <1>1, <1>2, <1>4 DEF OpsInv, HelperOK, TypeOK, Outcomes
    <2> QED BY <1>1, <1>3, <2>1, <2>2, <2>3, Zenon DEF OpsInv, HelperOK, ExecutedOnce, Idle
<1> QED BY <1>1, <1>3, <1>5, <1>6, <1>7, RecordsStay DEF OpsInv

\* The helper ends without a reply; what took effect and is not in the ledger is
\* lost.
LEMMA HelperEndsOK ==
    ASSUME OpsInv, HelperFails \/ Reboot
    PROVE  OpsInv'
<1>1. /\ HelperEnds /\ Fault /\ UNCHANGED <<server, db, ledger, ran, again, late>>
      /\ \/ Reply(helper.live, "failed") /\ UNCHANGED requests
         \/ EndCycle /\ requests' = {}
    BY DEF HelperFails, Reboot, Reply
<1>2. /\ helper.live \in BOOLEAN
      /\ helper.live => pc = "exchange" /\ helper.op = Head
    BY Zenon DEF OpsInv, HelperOK, TypeOK
<1>3. /\ CycleOK' /\ todo' \subseteq todo /\ requests' \subseteq requests
      /\ outcome' \in {"none"} \cup Outcomes /\ pc' \in {"idle", "record", pc}
      /\ \A q \in requests' : q.live => pc' = pc /\ Head' = Head
    <2>1. CASE Reply(helper.live, "failed") /\ UNCHANGED requests
        <3>1. /\ CycleOK' /\ Head' = Head /\ todo' = todo
              /\ pc' = IF helper.live THEN "record" ELSE pc
              /\ outcome' \in {"none"} \cup Outcomes
            BY <1>1, <1>2, <2>1, ReplyKeepsCycle DEF Outcomes
        <3>2. \A q \in requests : q.live => ~helper.live
            BY Zenon DEF OpsInv, HelperOK
        <3> QED BY <2>1, <3>1, <3>2
    <2>2. CASE EndCycle /\ requests' = {}
        BY <2>2, EndCycleKeeps DEF EndCycle
    <2> QED BY <1>1, <2>1, <2>2
<1>4. helper' = Idle /\ lost' = IF helper.step = "save" THEN lost \cup {helper.op} ELSE lost
    BY <1>1 DEF HelperEnds
<1>5. helper.step = "save" => helper.op \in ran
    BY DEF OpsInv, HelperOK
<1>6. TypeOK'
    <2>1. helper' \in [op : 0..Last, live : BOOLEAN, step : {"idle", "execute", "save"},
                       outcome : {"none"} \cup Outcomes]
        BY <1>4, OperationsAssumption DEF Idle
    <2>2. faults' \in 0..MaxFaults
        BY <1>1, FaultType DEF OpsInv
    <2>3. lost' \subseteq ran
        BY <1>4, <1>5 DEF OpsInv, TypeOK
    <2> QED BY <1>1, <1>3, <2>1, <2>2, <2>3, Zenon DEF OpsInv, TypeOK, server, db
<1>7. HandedOutOnly'
    BY <1>1, <1>3, <1>4, OperationsAssumption DEF OpsInv, HandedOutOnly, Idle, Ops, server, db
<1>8. HelperOK' /\ ExecutedOnce'
    BY <1>1, <1>3, <1>4, Zenon DEF OpsInv, HelperOK, ExecutedOnce, Idle
<1> QED BY <1>1, <1>3, <1>6, <1>7, <1>8, RecordsStay DEF OpsInv

----------------------------------------------------------------------------
(* The properties *)

\* Every step of server, agent and helper keeps the invariant.
LEMMA OpsStep ==
    ASSUME OpsInv, [Next]_vars
    PROVE  OpsInv'
<1>1. CASE \E t \in Types : CreateNodeOperation(t)
    BY <1>1, InsertOK DEF CreateNodeOperation
<1>2. CASE \E o \in Ops : RetryNodeOperation(o)
    <2>1. PICK o \in Ops : Insert(kind[o])
        BY <1>2 DEF RetryNodeOperation
    <2>2. kind[o] \in Types \cup {"none"}
        BY DEF OpsInv, TypeOK
    <2> QED BY <2>1, <2>2, InsertOK
<1>3. CASE \E o \in Ops : PassExpiry(o)
    BY <1>3, PassExpiryOK
<1>4. CASE ReconcileAlerts
    BY <1>4, ReconcileAlertsOK
<1>5. CASE \E m \in late : DeliverLate(m)
    BY <1>5, DeliverLateOK, LateRefusedOK
<1>6. CASE CycleStep
    BY <1>6, StartCycleOK, ReportOK, ReportRefusedOK, ListOK, ExecuteNextOK, RecordResultOK, AdvanceSequenceOK
       DEF CycleStep
<1>7. CASE HelperStep
    BY <1>7, AcquireLockOK, ExecuteOK, SaveResultOK DEF HelperStep
<1>8. CASE \E q \in requests : LockTimeout(q)
    BY <1>8, LockTimeoutOK
<1>9. CASE ReportUnconfirmed \/ ReportDelayed \/ ListUnanswered \/ GiveUp \/ StoreFails \/ Crash
           \/ HelperFails \/ Reboot
    BY <1>9, ReportOK, ReportRefusedOK, ReportDelayedOK, ListOK, GiveUpOK, HelperEndsOK
<1>10. CASE UNCHANGED vars
    <2>1. /\ UNCHANGED <<server, root>> /\ UNCHANGED <<result, reported, lastSeq>>
          /\ late' = late /\ ahead' \subseteq Ops /\ faults' \in 0..MaxFaults /\ UNCHANGED cycle
        BY <1>10, Zenon DEF vars, db, OpsInv, TypeOK
    <2> QED BY <2>1, RefusedOK
<1>11. CASE \E o \in ahead : ClockCatchesUp(o)
    BY <1>11, ClockOK
<1> QED BY <1>1, <1>2, <1>3, <1>4, <1>5, <1>6, <1>7, <1>8, <1>9, <1>10, <1>11 DEF Next

\* Nothing has happened to a new node.
LEMMA OpsInit ==
    ASSUME Init
    PROVE  OpsInv
<1> USE DEF Init
<1>1. TypeOK
    <2>1. helper \in [op : 0..Last, live : BOOLEAN, step : {"idle", "execute", "save"},
                     outcome : {"none"} \cup Outcomes]
        BY OperationsAssumption DEF Idle
    <2>2. lastSeq \in 0..Last /\ faults \in 0..MaxFaults
        BY OperationsAssumption
    <2>3. kind \in [Ops -> {"none"}]
        OBVIOUS
    <2>4. /\ kind \in [Ops -> Types \cup {"none"}]
          /\ status \in [Ops -> {"none", "queued", "running", "expired"} \cup Outcomes]
          /\ result \in [Ops -> {"none"} \cup Outcomes] /\ ledger \in [Ops -> {"none"} \cup Outcomes]
        BY <2>3
    <2> QED BY <2>1, <2>2, <2>4, Zenon DEF TypeOK
<1>2. Created = {}
    BY DEF Created
<1>3. Numbered
    BY <1>2, FS_EmptySet DEF Numbered
<1>4. Unrecovered(status) = {}
    BY DEF Unrecovered
<1>5. \A o \in Ops : ~Covered(o)
    BY OperationsAssumption DEF Covered, Ops
<1>6. HandedOutOnly /\ RecordsAgree /\ InOrder /\ CycleOK
    BY <1>5, OperationsAssumption
       DEF HandedOutOnly, RecordsAgree, InOrder, CycleOK, Outcomes, Idle, Ops
<1>7. HelperOK /\ ExecutedOnce /\ AlertTracksFailures
    BY <1>4 DEF HelperOK, ExecutedOnce, AlertTracksFailures, Idle
<1> QED BY <1>1, <1>3, <1>6, <1>7 DEF OpsInv

\* The inductive invariant holds in every reachable state.
THEOREM OperationsInvariant == Spec => []OpsInv
BY OpsInit, OpsStep, PTL DEF Spec

\* Rows, messages and program counters keep their shape, whatever is lost,
\* repeated or crashes.
THEOREM OperationsTyped == Spec => []TypeOK
<1>1. OpsInv => TypeOK
    BY DEF OpsInv
<1> QED BY <1>1, OperationsInvariant, PTL

\* RecordNodeOperationResult never refuses a result that the agent recorded,
\* so no result stops the outbox, for any number of operations and faults.
THEOREM OutboxNeverBlocks == Spec => []OutboxIsAccepted
<1>1. OpsInv => OutboxIsAccepted
    <2> SUFFICES ASSUME OpsInv, NEW o \in Unreported PROVE Accepts(o, result[o])
        BY DEF OutboxIsAccepted
    <2>1. o \in Ops /\ result[o] \in Outcomes
        BY DEF Unreported, OpsInv, TypeOK
    <2>2. status[o] \notin {"none", "queued", "expired"}
        BY <2>1 DEF OpsInv, HandedOutOnly, Outcomes
    <2>3. status[o] \in Outcomes => status[o] = result[o]
        BY <2>1 DEF OpsInv, RecordsAgree, Outcomes
    <2> QED BY <2>1, <2>2, <2>3 DEF Accepts
<1> QED BY <1>1, OperationsInvariant, PTL

\* The root helper executes an operation again only if it ended between the
\* effect and the ledger entry of an earlier execution.
THEOREM ExecutedAtMostOnce == Spec => []ExecutedOnce
<1>1. OpsInv => ExecutedOnce
    BY DEF OpsInv
<1> QED BY <1>1, OperationsInvariant, PTL

\* A succeeded operation took effect, an expired one neither did nor will.
THEOREM StatusNeverLies == Spec => []StatusIsTrue
<1>1. OpsInv => StatusIsTrue
    BY Zenon DEF OpsInv, StatusIsTrue, RecordsAgree, HandedOutOnly
<1> QED BY <1>1, OperationsInvariant, PTL

\* The operation_failed alert is active while a failure is not made good, and
\* not after all are, whatever the order in which results come in.
THEOREM AlertIsTrue == Spec => []AlertTracksFailures
<1>1. OpsInv => AlertTracksFailures
    BY DEF OpsInv
<1> QED BY <1>1, OperationsInvariant, PTL
=============================================================================
