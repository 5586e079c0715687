--------------------------- MODULE Notifications ---------------------------
(***************************************************************************)
(* Alerts and their delivery to the notification channels.                 *)
(*                                                                         *)
(* One alert type of one node (operation_failed, the one that a request    *)
(* handler and the maintenance loop both raise and resolve).  Raising or   *)
(* resolving an alert queues, in the same transaction, one delivery for    *)
(* each enabled notifier that subscribes to the event.  The maintenance    *)
(* loop of the server reconciles the alerts, lists the due deliveries, and *)
(* then sends them one by one and records each outcome, all of a cycle     *)
(* under one 20 second deadline; a single request ends within 15 seconds.  *)
(* The reminders and Telegram commands the loop turns to afterwards are in *)
(* Reminders.                                                              *)
(*                                                                         *)
(* The clock is abstracted to the order it puts on what happens: "due"     *)
(* has the rows whose next_attempt_at has passed and the readings of the   *)
(* clock that are still in use, the oldest first.  A handler, the          *)
(* reconciliation and the listing each read the clock before they wait for *)
(* the database: a new row takes the place of the reading its transaction  *)
(* was given, however late the transaction is.  A row in backoff joins the *)
(* end when its delay ends.                                                *)
(***************************************************************************)
EXTENDS Naturals, Sequences, SequencesExt

CONSTANTS
  Notifiers,    \* notifier ids
  Subscribed,   \* bound: the events n ever subscribes to, at first all of them
  MaxAlerts,    \* bound: alerts raised over a behaviour
  Delays,       \* number of backoff delays (5 in the code)
  Limit,        \* deliveries listed per cycle (20 in the code)
  Scenarios     \* bounds, one of which holds throughout a behaviour: notifiers at
                \* first, alerts raised, requests of operators, faults, reminder
                \* rules, Telegram commands, and whether transactions wait

ASSUME NotificationBounds ==
  /\ Subscribed \in [Notifiers -> (SUBSET {"created", "resolved"}) \ {{}}]
  /\ MaxAlerts \in Nat /\ Delays \in Nat
  /\ Limit \in Nat \ {0}

Events == {"created", "resolved"}
Alerts == 1 .. MaxAlerts
\* A delivery is known by its notifier, its alert and the event.
Keys == {k \in Notifiers \X Alerts \X Events : k[3] \in Subscribed[k[1]]}

\* Readings of the clock: by the handler of a failure and of a recovery, at the
\* start of a cycle and before the listing.
Readings == {<<"failure">>, <<"recovery">>, <<"cycle">>, <<"listing">>}

VARIABLES
  bound,     \* the scenario
  failing,   \* an unrecovered failed or expired operation exists
  alert,     \* alert[a]: "none", "open", "acknowledged" or "resolved"
  crossed,   \* history: alerts resolved at an earlier time than they were raised
  notifier,  \* notifier[n]: "absent", "enabled" or "disabled"
  events,    \* events[n]: the events n subscribes to
  row,       \* row[k]: status of the delivery, "none" when there is none
  attempts,  \* attempt_count of the delivery
  due,       \* the due rows and the readings of the clock, in the order of time
  pc,        \* the maintenance loop
  batch,     \* deliveries of the cycle still to be handled
  outcome,   \* how the request at the head of batch ended
  first,     \* the head of batch is the first delivery of the cycle
  changes, faults,
  heard,     \* history: messages a channel took
  repeated,  \* history: messages a channel took more than once
  unsure     \* history: messages of which an answer or a record was lost

alertVars == <<failing, alert, crossed>>
rowVars == <<row, attempts, due>>
loopVars == <<pc, batch, outcome, first>>
history == <<heard, repeated, unsure>>
notifications == <<bound, alertVars, notifier, events, rowVars, loopVars,
                   changes, faults, history>>

NotificationInit ==
  /\ bound \in Scenarios
  /\ failing = FALSE
  /\ alert = [a \in Alerts |-> "none"] /\ crossed = {}
  /\ notifier = [n \in Notifiers |-> IF n \in bound.channels THEN "enabled" ELSE "absent"]
  /\ events = Subscribed
  /\ row = [k \in Keys |-> "none"]
  /\ attempts = [k \in Keys |-> 0]
  /\ due = << >>
  /\ pc = "reconcile" /\ batch = << >> /\ outcome = "none" /\ first = TRUE
  /\ changes = 0 /\ faults = 0
  /\ heard = {} /\ repeated = {} /\ unsure = {}

Pending(k) == row[k] \in {"queued", "retry"}

\* A request of an operator, and a fault.
Change == changes < bound.changes /\ changes' = changes + 1
Fault == faults < bound.faults /\ faults' = faults + 1

(***************************************************************************)
(* Raising and resolving                                                   *)
(***************************************************************************)
\* The notifiers an event of an alert is queued for.
Targets(a, e) ==
  {<<n, a, e>> : n \in {m \in Notifiers : notifier[m] = "enabled"
                                          /\ e \in events[m]}}

\* The clock is read, and later the reading used up: what is queued takes its
\* place.  Who need not wait for the database reads it just then.  Bound: only
\* in the scenarios that say so does anybody wait.
ReadClock(now) ==
  /\ bound.waits /\ ~Contains(due, now)
  /\ due' = Append(due, now)
Place(now) == IF Contains(due, now) THEN SelectInSeq(due, LAMBDA x : x = now)
                                    ELSE Len(due) + 1
Before(now) == SubSeq(due, 1, Place(now) - 1)
After(now) == SubSeq(due, Place(now) + 1, Len(due))

\* The rows of one transaction carry the same time, so their order in the
\* queue is not determined.
Queue(new, now) ==
  /\ row' = [k \in Keys |-> IF k \in new THEN "queued" ELSE row[k]]
  /\ \E order \in SetToSeqs(new) : due' = Before(now) \o order \o After(now)
  /\ UNCHANGED attempts

enqueueAlertNotificationTx(a, e, now) ==
  Queue({k \in Targets(a, e) : row[k] = "none"}, now)

Unresolved == {a \in Alerts : alert[a] \in {"open", "acknowledged"}}
Unused == {a \in 1 .. bound.alerts : alert[a] = "none"}

\* An unresolved alert is only refreshed; otherwise a new one is opened.
upsertAlertTx(now) ==
  /\ IF Unresolved # {}
     THEN UNCHANGED alert /\ Queue({}, now)
     ELSE LET a == CHOOSE x \in Unused : \A y \in Unused : x <= y
          IN /\ alert' = [alert EXCEPT ![a] = "open"]
             /\ enqueueAlertNotificationTx(a, "created", now)
  /\ UNCHANGED crossed

resolveAlertTx(now) ==
  IF Unresolved = {}
  THEN UNCHANGED <<alert, crossed>> /\ Queue({}, now)
  ELSE LET a == CHOOSE x \in Unresolved : TRUE
       IN /\ alert' = [alert EXCEPT ![a] = "resolved"]
          /\ crossed' = IF \E n \in Notifiers : Contains(After(now), <<n, a, "created">>)
                        THEN crossed \cup {a} ELSE crossed
          /\ enqueueAlertNotificationTx(a, "resolved", now)

\* A result reported by the agent reaches its handler, which reads the clock and
\* then waits for the database.
HandlerWaits(now) ==
  /\ Unused # {} \/ Unresolved # {}
  /\ ReadClock(now)
  /\ UNCHANGED <<bound, alertVars, notifier, events, row, attempts, loopVars, changes,
                 faults, history>>

\* A failure.  An operation fails only while the bound leaves an alert to raise.
ReportFailed ==
  /\ Unused # {} \/ Unresolved # {}
  /\ failing' = TRUE
  /\ upsertAlertTx(<<"failure">>)
  /\ UNCHANGED <<bound, notifier, events, loopVars, changes, faults, history>>

\* A success that leaves no failure unrecovered.
ReportRecovered ==
  /\ failing' = FALSE
  /\ resolveAlertTx(<<"recovery">>)
  /\ UNCHANGED <<bound, notifier, events, loopVars, changes, faults, history>>

\* An operation that expires raises nothing before the next reconciliation.
OperationExpires ==
  /\ ~failing /\ Unused # {}
  /\ failing' = TRUE
  /\ UNCHANGED <<bound, alert, crossed, notifier, events, rowVars, loopVars, changes,
                 faults, history>>

AcknowledgeAlert(a) ==
  /\ Change
  /\ alert[a] = "open"
  /\ alert' = [alert EXCEPT ![a] = "acknowledged"]
  /\ UNCHANGED <<bound, failing, crossed, notifier, events, rowVars, loopVars, faults,
                 history>>

(***************************************************************************)
(* Operators edit the notifiers                                            *)
(***************************************************************************)
\* Saving a notifier leaves its deliveries as they are.  Bound: an edit
\* changes one of the two fields.
UpsertNotificationNotifier(n, state, subscribed) ==
  /\ Change
  /\ <<state, subscribed>> # <<notifier[n], events[n]>>
  /\ state = notifier[n] \/ subscribed = events[n]
  /\ notifier' = [notifier EXCEPT ![n] = state]
  /\ events' = [events EXCEPT ![n] = subscribed]
  /\ UNCHANGED <<bound, alertVars, rowVars, loopVars, faults, history>>

\* Deleting one cascades to its deliveries.  A delivery the loop has already
\* listed stays in its hands.
DeleteNotificationNotifier(n) ==
  /\ Change
  /\ notifier[n] # "absent"
  /\ notifier' = [notifier EXCEPT ![n] = "absent"]
  /\ row' = [k \in Keys |-> IF k[1] = n THEN "none" ELSE row[k]]
  /\ attempts' = [k \in Keys |-> IF k[1] = n THEN 0 ELSE attempts[k]]
  /\ due' = SelectSeq(due, LAMBDA k : k[1] # n)
  /\ UNCHANGED <<bound, alertVars, events, loopVars, faults, history>>

(***************************************************************************)
(* The maintenance loop                                                    *)
(***************************************************************************)
\* A cycle begins; users who expired are dealt with before the alerts.
BeginCycle ==
  /\ pc = "reconcile"
  /\ ReadClock(<<"cycle">>)
  /\ pc' = "alerts"
  /\ UNCHANGED <<bound, alertVars, notifier, events, row, attempts, batch, outcome, first,
                 changes, faults, history>>

ReconcileAlerts ==
  /\ pc = IF bound.waits THEN "alerts" ELSE "reconcile"
  /\ IF failing THEN upsertAlertTx(<<"cycle">>) ELSE resolveAlertTx(<<"cycle">>)
  /\ pc' = "list"
  /\ UNCHANGED <<bound, failing, notifier, events, batch, outcome, first, changes,
                 faults, history>>

BeginDispatch ==
  /\ pc = "list"
  /\ ReadClock(<<"listing">>)
  /\ pc' = "query"
  /\ UNCHANGED <<bound, alertVars, notifier, events, row, attempts, batch, outcome, first,
                 changes, faults, history>>

FirstOf(rows) == SubSeq(rows, 1, IF Len(rows) < Limit THEN Len(rows) ELSE Limit)
ByEnabled(rows) == SelectSeq(rows, LAMBDA k : notifier[k[1]] = "enabled")

\* The rows that were due when the clock was read.
DueRows == SelectSeq(Before(<<"listing">>), LAMBDA k : k \notin Readings)

\* A mutant that lists the newest rows first.
ListedNewestFirst == FirstOf(Reverse(ByEnabled(DueRows)))

\* A mutant that filters the disabled notifiers after the limit.
ListedThenFiltered == ByEnabled(FirstOf(DueRows))

Listed == FirstOf(ByEnabled(DueRows))

ListDueNotificationDeliveries ==
  /\ pc = IF bound.waits THEN "query" ELSE "list"
  /\ batch' = Listed
  /\ due' = Remove(due, <<"listing">>)
  /\ pc' = IF Listed = << >> THEN "remind" ELSE "send"
  /\ UNCHANGED <<bound, alertVars, notifier, events, row, attempts, outcome, first,
                 changes, faults, history>>

Hear(k) ==
  /\ heard' = heard \cup {k}
  /\ repeated' = repeated \cup (heard \cap {k})

\* The request is taken, refused, or taken with the answer lost; the last two
\* are both reported as an error.
deliverNotification ==
  /\ pc = "send"
  /\ \/ /\ outcome' = "delivered"
        /\ Hear(Head(batch))
        /\ UNCHANGED <<unsure, faults>>
     \/ /\ outcome' = "error"
        /\ UNCHANGED <<heard, repeated, unsure, faults>>
     \/ /\ Fault
        /\ outcome' = "error"
        /\ Hear(Head(batch))
        /\ unsure' = unsure \cup {Head(batch)}
  /\ pc' = "record"
  /\ UNCHANGED <<bound, alertVars, notifier, events, rowVars, batch, first, changes>>

\* The loop goes on to the next delivery, or to the reminders.
NextDelivery ==
  /\ batch' = Tail(batch)
  /\ pc' = IF Tail(batch) = << >> THEN "remind" ELSE "send"
  /\ outcome' = "none"
  /\ first' = (Tail(batch) = << >>)

AfterAttempt(k, final) ==
  /\ attempts' = [attempts EXCEPT ![k] = @ + 1]
  /\ due' = Remove(due, k)
  /\ row' = [row EXCEPT ![k] =
               CASE outcome = "delivered" -> "delivered"
                 [] outcome = "error" /\ attempts[k] + 1 > final -> "failed"
                 [] OTHER -> "retry"]

\* A mutant that records a success only of a row that is still queued.
WriteOutcomeQueuedOnly(k) ==
  IF ~Pending(k) \/ (outcome = "delivered" /\ row[k] = "retry")
  THEN UNCHANGED rowVars ELSE AfterAttempt(k, Delays)

\* Only a pending row is changed: a row deleted meanwhile is a conflict.
WriteOutcome(k) ==
  IF ~Pending(k) THEN UNCHANGED rowVars ELSE AfterAttempt(k, Delays)

RecordNotificationDelivery ==
  /\ pc = "record"
  /\ WriteOutcome(Head(batch))
  /\ NextDelivery
  /\ UNCHANGED <<bound, alertVars, notifier, events, changes, faults, history>>

\* The write fails: the loop keeps the error and goes on.
RecordFails ==
  /\ pc = "record"
  /\ Fault
  /\ unsure' = unsure \cup {Head(batch)}
  /\ NextDelivery
  /\ UNCHANGED <<bound, alertVars, notifier, events, rowVars, changes, heard, repeated>>

\* The deadline of the deliveries passes: every later request and write fails
\* on the expired context, and an outcome in hand is lost.  A request ends
\* within 15 of the 20 seconds, so the first delivery is always recorded.
DeadlinePasses ==
  /\ pc \in {"send", "record"} /\ ~first
  /\ unsure' = IF pc = "record" THEN unsure \cup {Head(batch)} ELSE unsure
  /\ batch' = << >> /\ pc' = "remind" /\ outcome' = "none" /\ first' = TRUE
  /\ UNCHANGED <<bound, alertVars, notifier, events, rowVars, changes, faults, heard,
                 repeated>>

\* The backoff of a delivery ends.
BackoffEnds(k) ==
  /\ row[k] = "retry" /\ ~Contains(due, k)
  /\ due' = Append(due, k)
  /\ UNCHANGED <<bound, alertVars, notifier, events, row, attempts, loopVars, changes,
                 faults, history>>

Dispatch ==
  \/ BeginCycle \/ ReconcileAlerts \/ BeginDispatch \/ ListDueNotificationDeliveries
  \/ deliverNotification \/ RecordNotificationDelivery

EditNotifier ==
  \E n \in Notifiers, state \in {"enabled", "disabled"} :
    \E subscribed \in SUBSET Subscribed[n] \ {{}} :
      UpsertNotificationNotifier(n, state, subscribed)

\* All but the fair steps of the loop and the deletion of a notifier, which
\* reaches further than its deliveries.
NotificationNext ==
  \/ RecordFails \/ DeadlinePasses
  \/ (\E now \in {<<"failure">>, <<"recovery">>} : HandlerWaits(now))
  \/ ReportFailed \/ ReportRecovered \/ OperationExpires
  \/ (\E a \in Alerts : AcknowledgeAlert(a)) \/ EditNotifier

(***************************************************************************)
(* Properties                                                              *)
(***************************************************************************)
\* A channel hears the same delivery, the same reminder within its interval or
\* the same answer to a command twice only if the answer to the first, or the
\* record of it, was lost: stale batches, edits and retries repeat nothing.
\* Not covered: a rule that is run by hand while the loop has it in hand.
RepeatedOnlyWhenUnsure == repeated \subseteq unsure

\* No channel hears that an alert is resolved while its creation, queued for
\* the same channel, was never tried: whatever the limit of a cycle, the edits
\* of the notifier and the restarts in between.  Not covered: a recovery whose
\* handler read the clock before the failure was given its own time and then
\* waited for the database until the failure was recorded.
CreatedComesFirst ==
  \A k, l \in Keys :
    /\ k[1] = l[1] /\ k[2] = l[2] /\ k[3] = "created" /\ l[3] = "resolved"
    /\ l \in heard /\ row[k] = "queued"
    => k \in unsure \/ k[2] \in crossed
====
