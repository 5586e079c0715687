---------------------------- MODULE TrafficBudget ----------------------------
(***************************************************************************)
(* The monthly traffic budget of a node.                                   *)
(*                                                                         *)
(* The server keeps, beside the ledger of traffic batches, a cache of the  *)
(* bytes of the current cycle.  A cycle starts on the node's reset day,    *)
(* clamped to the length of the month.  An administrator may calibrate the *)
(* budget with the provider's own figure.  The cache is brought up to date *)
(* by whichever comes first: a batch, a calibration or an edit of the      *)
(* node.  Time is counted in days, day 1 being the first of month 1;       *)
(* upload and download are one number.                                     *)
(***************************************************************************)
EXTENDS Integers, Sequences, FiniteSets, FiniteSetsExt

CONSTANTS
    MonthLengths,   \* the calendar, a sequence of month lengths
    FirstDays,      \* days on which a history may start
    Span,           \* bound on the days a history lasts
    ResetDays,      \* the reset days the administrator chooses from
    Figures,        \* the provider's figures
    MaxLag,         \* bound on how long a batch is under way
    MaxBatches      \* bound on the number of batches, of one byte each

Months == 1..Len(MonthLengths)

ASSUME BudgetAssumption ==
    /\ \A m \in Months : MonthLengths[m] \in 28..31
    /\ FirstDays \subseteq Nat /\ FirstDays # {} /\ Span \in Nat
    /\ ResetDays \subseteq 1..31 /\ ResetDays # {} /\ Figures \subseteq Nat
    /\ MaxLag \in Nat /\ MaxBatches \in Nat

VARIABLES
    now,
    batches,    \* traffic_batches: bytes by the day they were sampled on
    resetDay,   \* nodes.traffic_reset_day
    cycleStart, \* nodes.traffic_cycle_started_at
    cycleBytes, \* nodes.traffic_cycle_upload_bytes and _download_bytes
    calibration \* nodes.traffic_calibration_*, a set of at most one

vars == <<now, batches, resetDay, cycleStart, cycleBytes, calibration>>

----------------------------------------------------------------------------
(* The calendar: package time *)

DaysBefore[m \in 1..(Len(MonthLengths) + 1)] ==
    IF m = 1 THEN 0 ELSE DaysBefore[m - 1] + MonthLengths[m - 1]

\* A day beyond the end of its month falls into the next one.
Date(month, day) == DaysBefore[month] + day
Month(at) == CHOOSE m \in Months : DaysBefore[m] < at /\ at <= DaysBefore[m + 1]
Day(at) == at - DaysBefore[Month(at)]
AddMonths(at, n) == Date(Month(at) + n, Day(at))

----------------------------------------------------------------------------
(* traffic_budget.go *)

trafficCycleBoundary(month, day) ==
    Date(month, IF day > MonthLengths[month] THEN MonthLengths[month] ELSE day)

\* Mutant of trafficCycleStart: the boundary belongs to the old cycle.
TrafficCycleStartLate(at, day) ==
    LET start == trafficCycleBoundary(Month(at), day) IN
    IF at <= start THEN trafficCycleBoundary(Month(AddMonths(at, -1)), day) ELSE start

trafficCycleStart(at, day) ==
    LET start == trafficCycleBoundary(Month(at), day) IN
    IF at < start THEN trafficCycleBoundary(Month(AddMonths(at, -1)), day) ELSE start

trafficCycleNextStart(start, day) ==
    trafficCycleBoundary(Month(AddMonths(start, 1)), day)

InCycle(at, start, day) == start <= at /\ at < trafficCycleNextStart(start, day)

Days == DOMAIN batches

trafficCycleTotals(ledger, start, day) ==
    MapThenSumSet(LAMBDA d : ledger[d], {d \in DOMAIN ledger : InCycle(d, start, day)})

EffectiveNodeTrafficUsed ==
    IF calibration = {} THEN cycleBytes
    ELSE LET c == CHOOSE c \in calibration : TRUE IN
         c.bytes + Max({0, cycleBytes - c.proxy})

----------------------------------------------------------------------------

\* Every column has its shape.
TypeOK ==
    /\ now \in Days /\ batches \in [Days -> 0..MaxBatches]
    /\ resetDay \in ResetDays
    /\ cycleStart \in Int /\ cycleBytes \in 0..MaxBatches
    /\ calibration \subseteq [bytes : Figures, proxy : 0..MaxBatches, at : Days]
    /\ Cardinality(calibration) <= 1

\* CreateNode
Init ==
    /\ now \in FirstDays
    /\ batches = [d \in (now - MaxLag)..(now + Span + 1) |-> 0]
    /\ resetDay \in ResetDays
    /\ cycleStart = trafficCycleStart(now, resetDay)
    /\ cycleBytes = 0 /\ calibration = {}

NextDay ==
    /\ now + 2 \in Days
    /\ now' = now + 1
    /\ UNCHANGED <<batches, resetDay, cycleStart, cycleBytes, calibration>>

\* Mutant of AddNodeTraffic: a batch of an earlier cycle counts in this one.
AddNodeTrafficAnyCycle(sampled) ==
    LET start == trafficCycleStart(now, resetDay)
        ledger == [batches EXCEPT ![sampled] = @ + 1]
        changed == start # cycleStart
    IN /\ batches' = ledger
       /\ cycleStart' = start
       /\ cycleBytes' = IF changed THEN trafficCycleTotals(ledger, start, resetDay)
                        ELSE cycleBytes + 1
       /\ calibration' = {c \in calibration : changed => c.at >= start}

\* IngestTrafficBatch has inserted the batch; addNodeTrafficTx
AddNodeTraffic(sampled) ==
    LET start == trafficCycleStart(now, resetDay)
        ledger == [batches EXCEPT ![sampled] = @ + 1]
        changed == start # cycleStart
    IN /\ batches' = ledger
       /\ cycleStart' = start
       /\ cycleBytes' =
             IF changed THEN trafficCycleTotals(ledger, start, resetDay)
             ELSE IF InCycle(sampled, start, resetDay) THEN cycleBytes + 1 ELSE cycleBytes
       /\ calibration' = {c \in calibration : changed => c.at >= start}

\* The agent's clock may be ahead: ten minutes are enough to sample tomorrow.
Ingest(sampled) ==
    /\ MapThenSumSet(LAMBDA d : batches[d], Days) < MaxBatches
    /\ now - MaxLag <= sampled /\ sampled <= now + 1
    /\ AddNodeTraffic(sampled)
    /\ UNCHANGED <<now, resetDay>>

\* Mutant of CalibrateNodeTraffic: the bytes cached for the old cycle are taken.
CalibrateNodeTrafficStale(figure) ==
    LET start == trafficCycleStart(now, resetDay) IN
    /\ cycleStart' = start
    /\ cycleBytes' = trafficCycleTotals(batches, start, resetDay)
    /\ calibration' = {[bytes |-> figure, proxy |-> cycleBytes, at |-> now]}
    /\ UNCHANGED <<now, batches, resetDay>>

CalibrateNodeTraffic(figure) ==
    LET start == trafficCycleStart(now, resetDay)
        total == trafficCycleTotals(batches, start, resetDay)
    IN /\ cycleStart' = start /\ cycleBytes' = total
       /\ calibration' = {[bytes |-> figure, proxy |-> total, at |-> now]}
       /\ UNCHANGED <<now, batches, resetDay>>

UpdateNode(day) ==
    LET start == trafficCycleStart(now, day) IN
    /\ resetDay' = day
    /\ cycleStart' = start
    /\ cycleBytes' = trafficCycleTotals(batches, start, day)
    /\ calibration' = IF day = resetDay THEN calibration ELSE {}
    /\ UNCHANGED <<now, batches>>

Next ==
    \/ NextDay
    \/ \E d \in Days : Ingest(d)
    \/ \E f \in Figures : CalibrateNodeTraffic(f)
    \/ \E d \in ResetDays : UpdateNode(d)

Spec == Init /\ [][Next]_vars

----------------------------------------------------------------------------
(* Properties *)

\* The cached bytes are those of the ledger in the cached cycle, whatever the
\* order in which batches, calibrations, edits and month ends came.
CacheMatchesLedger ==
    cycleBytes = trafficCycleTotals(batches, cycleStart, resetDay)

\* The cycle of a day starts on the latest reset day that is not after it,
\* the reset day of a short month being its last day.  Not covered: days before
\* the reset day that the month before does not have (29 and 30 March), where
\* AddDate(0, -1, 0) stays in the month and the cycle starts in the future.
ShortMonthsClamp ==
    \/ /\ now < trafficCycleBoundary(Month(now), resetDay)
       /\ Day(now) > MonthLengths[Month(now) - 1]
    \/ trafficCycleStart(now, resetDay) =
          Max({b \in {trafficCycleBoundary(m, resetDay) : m \in Months} : b <= now})

\* In the cycle of a calibration the figure shown is the provider's plus what
\* was counted since: late batches of earlier cycles and the month's end leave
\* it alone.
EstimateFollowsUse ==
    \A c \in calibration :
        c.at >= cycleStart => EffectiveNodeTrafficUsed = c.bytes + cycleBytes - c.proxy
=============================================================================
