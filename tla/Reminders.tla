----------------------------- MODULE Reminders -----------------------------
(***************************************************************************)
(* Reminder rules and the commands of a Telegram chat, beside the alert    *)
(* deliveries of Notifications: the three share the channels and the       *)
(* maintenance loop of the server.                                         *)
(*                                                                         *)
(* After the deliveries a cycle lists the due rules and runs them one by   *)
(* one: render, read the channel, send, record.  Then it fetches the       *)
(* commands from the stored offset on, answers each, and records the       *)
(* offset after the last.  Rules and deliveries and commands have a        *)
(* deadline of 20 seconds each.  Meanwhile operators edit, delete and run  *)
(* rules by hand, and switch the bot off and on.                           *)
(*                                                                         *)
(* next_run_at is abstracted as the deliveries' next_attempt_at is: a rule *)
(* is due, or waits for its interval or for the five minutes after a       *)
(* failed run; "dueRules" has the due ones in the order of next_run_at.    *)
(*                                                                         *)
(* The message of rule r is <<r>>, counted anew each time its interval     *)
(* ends or somebody runs it by hand; the answer to command i is <<Bot, i>>.*)
(***************************************************************************)
EXTENDS Notifications, FiniteSets

CONSTANTS
  Rules,       \* reminder rule ids
  Kind,        \* kind of each rule
  Bot,         \* the Telegram notifier whose chat may ask
  PollLimit    \* updates fetched at once (25 in the code)

ASSUME ReminderBounds ==
  /\ Kind \in [Rules -> {"fleet_summary", "active_alerts", "asset_expiry",
                      "traffic_usage"}]
  /\ Bot \in Notifiers /\ PollLimit \in Nat \ {0}
  /\ Scenarios \subseteq [channels : SUBSET Notifiers, alerts : 0 .. MaxAlerts,
                          changes : Nat, faults : Nat, rules : SUBSET Rules, updates : Nat,
                          waits : BOOLEAN]
  /\ \A s \in Scenarios : s.rules # {} \/ s.updates > 0 => Bot \in s.channels

VARIABLES
  rule,        \* rule[r]: its state, its notifier, and what it waits for
  dueRules,    \* rules whose next_run_at has passed, in that order
  reminding,   \* the loop: rules of the cycle still to be run, as they were listed
  byHand,      \* a run requested by an operator that is under way
  chat,        \* Telegram: the last update, and the first one it still keeps
  access,      \* the bot's row of telegram_bot_access
  answering,   \* the loop: updates left to answer, answered, and the offset to record
  enabling     \* a request to enable the bot that is under way

ruleVars == <<rule, dueRules>>
botVars == <<chat, access>>
reminders == <<ruleVars, reminding, byHand, botVars, answering, enabling>>
vars == <<notifications, reminders>>

NoRun == [id |-> "none"]
NoPoll == [left |-> {}, answered |-> {}, offset |-> 0]
NoRequest == [step |-> "none"]
NoAccess == [state |-> "absent", offset |-> 0]

Init ==
  /\ NotificationInit
  /\ rule = [r \in Rules |->
       [state |-> IF r \in bound.rules THEN "enabled" ELSE "absent",
        to |-> Bot, wait |-> "interval"]]
  /\ dueRules = << >> /\ reminding = << >> /\ byHand = NoRun
  /\ chat = [last |-> 0, kept |-> 1]
  /\ access = IF bound.updates = 0 THEN NoAccess ELSE [state |-> "enabled", offset |-> 0]
  /\ answering = NoPoll /\ enabling = NoRequest

(***************************************************************************)
(* Running a rule                                                          *)
(***************************************************************************)
\* Whether there is something to say: a summary always, alerts while one is
\* open; the thresholds of assets and of traffic are not in this model.
renderNotificationReminder(r) ==
  CASE Kind[r] = "fleet_summary" -> {TRUE}
    [] Kind[r] = "active_alerts" -> {\E a \in Alerts : alert[a] = "open"}
    [] OTHER -> BOOLEAN

\* How a run may end: nothing to say, sent, sent with the answer lost, or an
\* error, of which a channel disabled or deleted meanwhile is one.
executeNotificationReminder(m) ==
  {"error"}
  \cup (IF FALSE \in renderNotificationReminder(m.id) THEN {"nothing"} ELSE {})
  \cup (IF TRUE \in renderNotificationReminder(m.id) /\ notifier[m.to] = "enabled"
        THEN {"sent", "lost"} ELSE {})

Succeeded(result) == result \in {"nothing", "sent"}
Sent(result) == result \in {"sent", "lost"}
FaultIf(lost) == IF lost THEN Fault ELSE UNCHANGED faults

Wait(r, next) ==
  /\ rule' = [rule EXCEPT ![r].wait = next]
  /\ dueRules' = SelectSeq(dueRules, LAMBDA x : x # r)

\* The row may be gone, disabled or edited by now.
RecordNotificationReminderRun(r, result) ==
  IF rule[r].state = "absent" THEN UNCHANGED ruleVars
  ELSE Wait(r, IF Succeeded(result) THEN "interval" ELSE "retry")

(***************************************************************************)
(* The loop: reminders                                                     *)
(***************************************************************************)
DueRules ==
  FirstOf(SelectSeq(dueRules, LAMBDA r : /\ rule[r].state = "enabled"
                                         /\ notifier[rule[r].to] = "enabled"))

\* The Telegram row and its notifier are enabled.
BotEnabled == access.state = "enabled" /\ notifier[Bot] = "enabled"

\* With no bot enabled there is nothing to poll.
AfterReminders == IF BotEnabled THEN "bot" ELSE "reconcile"

\* A rule somebody runs by hand at the same time may be heard twice.
ListDueNotificationReminderRules ==
  /\ pc = "remind"
  /\ reminding' = [i \in DOMAIN DueRules |->
                     [id |-> DueRules[i], to |-> rule[DueRules[i]].to]]
  /\ pc' = IF DueRules = << >> THEN AfterReminders ELSE "run"
  /\ unsure' = unsure \cup {<<r>> : r \in ToSet(DueRules) \cap {byHand.id}}
  /\ UNCHANGED <<bound, alertVars, notifier, events, rowVars, batch, outcome, first,
                 changes, faults, heard, repeated, ruleVars, byHand, botVars,
                 answering, enabling>>

RunReminder ==
  /\ pc = "run"
  /\ LET m == Head(reminding) IN
     \E result \in executeNotificationReminder(m) :
       /\ outcome' = result
       /\ IF Sent(result) THEN Hear(<<m.id>>) ELSE UNCHANGED <<heard, repeated>>
       /\ unsure' = IF result = "lost" THEN unsure \cup {<<m.id>>} ELSE unsure
       /\ FaultIf(result = "lost")
  /\ pc' = "ran"
  /\ UNCHANGED <<bound, alertVars, notifier, events, rowVars, batch, first, changes,
                 reminders>>

NextReminder ==
  /\ reminding' = Tail(reminding)
  /\ pc' = IF Tail(reminding) = << >> THEN AfterReminders ELSE "run"
  /\ outcome' = "none"
  /\ first' = (Tail(reminding) = << >>)

RecordReminder ==
  /\ pc = "ran"
  /\ RecordNotificationReminderRun(Head(reminding).id, outcome)
  /\ NextReminder
  /\ UNCHANGED <<bound, alertVars, notifier, events, rowVars, batch, changes, faults,
                 history, byHand, botVars, answering, enabling>>

RecordReminderFails ==
  /\ pc = "ran"
  /\ Fault
  /\ unsure' = unsure \cup {<<Head(reminding).id>>}
  /\ NextReminder
  /\ UNCHANGED <<bound, alertVars, notifier, events, rowVars, batch, changes, heard,
                 repeated, ruleVars, byHand, botVars, answering, enabling>>

\* As for the deliveries, the first rule of a cycle is always recorded.
ReminderDeadlinePasses ==
  /\ pc \in {"run", "ran"} /\ ~first
  /\ unsure' = IF pc = "ran" THEN unsure \cup {<<Head(reminding).id>>} ELSE unsure
  /\ reminding' = << >> /\ pc' = AfterReminders /\ outcome' = "none" /\ first' = TRUE
  /\ UNCHANGED <<bound, alertVars, notifier, events, rowVars, batch, changes, faults,
                 heard, repeated, ruleVars, byHand, botVars, answering, enabling>>

\* next_run_at passes, at least five minutes after it was set and so never in
\* the same cycle.  After an interval a new message is due.
NextRunComes(r) ==
  /\ rule[r].state # "absent" /\ rule[r].wait # "due"
  /\ \A i \in DOMAIN reminding : reminding[i].id # r
  /\ rule' = [rule EXCEPT ![r].wait = "due"]
  /\ dueRules' = Append(dueRules, r)
  /\ LET old == IF rule[r].wait = "interval" THEN {<<r>>} ELSE {} IN
       heard' = heard \ old /\ repeated' = repeated \ old /\ unsure' = unsure \ old
  /\ UNCHANGED <<bound, alertVars, notifier, events, rowVars, loopVars, changes, faults,
                 reminding, byHand, botVars, answering, enabling>>

(***************************************************************************)
(* Operators and the rules                                                 *)
(***************************************************************************)
\* Saving a rule starts its interval anew only if the rule is new or its
\* interval changes.  Bound: an edit changes one field.
UpsertNotificationReminderRule(r, state, to, anew) ==
  /\ Change
  /\ notifier[to] # "absent"
  /\ IF rule[r].state = "absent" THEN anew
     ELSE Cardinality({b \in 1 .. 3 : <<state # rule[r].state, to # rule[r].to, anew>>[b]}) = 1
  /\ LET saved == [rule EXCEPT ![r].state = state, ![r].to = to] IN
       IF anew
       THEN /\ rule' = [saved EXCEPT ![r].wait = "interval"]
            /\ dueRules' = SelectSeq(dueRules, LAMBDA x : x # r)
       ELSE rule' = saved /\ UNCHANGED dueRules
  /\ UNCHANGED <<bound, alertVars, notifier, events, rowVars, loopVars, faults, history,
                 reminding, byHand, botVars, answering, enabling>>

Without(gone) ==
  /\ rule' = [r \in Rules |-> IF r \in gone THEN [rule[r] EXCEPT !.state = "absent"]
                                            ELSE rule[r]]
  /\ dueRules' = SelectSeq(dueRules, LAMBDA r : r \notin gone)

DeleteNotificationReminderRule(r) ==
  /\ Change
  /\ rule[r].state # "absent"
  /\ Without({r})
  /\ UNCHANGED <<bound, alertVars, notifier, events, rowVars, loopVars, faults, history,
                 reminding, byHand, botVars, answering, enabling>>

\* A rule is run by hand whether it is due or enabled or not.  The operator
\* asks for one message more; the loop may have the rule in hand already.
RunNotificationReminderRule(r) ==
  /\ Change
  /\ byHand = NoRun /\ rule[r].state # "absent"
  /\ \E result \in executeNotificationReminder([id |-> r, to |-> rule[r].to]) :
       /\ byHand' = [id |-> r, result |-> result]
       /\ heard' = IF Sent(result) THEN heard \cup {<<r>>} ELSE heard \ {<<r>>}
       /\ unsure' = IF result = "lost" \/ \E i \in DOMAIN reminding : reminding[i].id = r
                    THEN unsure \cup {<<r>>} ELSE unsure \ {<<r>>}
       /\ FaultIf(result = "lost")
  /\ repeated' = repeated \ {<<r>>}
  /\ UNCHANGED <<bound, alertVars, notifier, events, rowVars, loopVars, ruleVars,
                 reminding, botVars, answering, enabling>>

RecordRunByHand ==
  /\ byHand # NoRun
  /\ RecordNotificationReminderRun(byHand.id, byHand.result)
  /\ byHand' = NoRun
  /\ UNCHANGED <<notifications, reminding, botVars, answering, enabling>>

\* The operator's browser hangs up and the record fails with its request.
RunByHandCut ==
  /\ byHand # NoRun
  /\ Fault
  /\ unsure' = unsure \cup {<<byHand.id>>}
  /\ byHand' = NoRun
  /\ UNCHANGED <<bound, alertVars, notifier, events, rowVars, loopVars, changes, heard,
                 repeated, ruleVars, reminding, botVars, answering, enabling>>

(***************************************************************************)
(* The loop: commands of the Telegram chat                                 *)
(***************************************************************************)
CommandArrives ==
  /\ chat.last < bound.updates
  /\ chat' = [chat EXCEPT !.last = @ + 1]
  /\ UNCHANGED <<notifications, ruleVars, reminding, byHand, access, answering, enabling>>

Larger(a, b) == IF a > b THEN a ELSE b
Smaller(a, b) == IF a < b THEN a ELSE b

\* Telegram forgets what precedes the offset it is asked for.
fetchTelegramUpdates(offset) ==
  LET from == Larger(offset, chat.kept)
  IN from .. Smaller(chat.last, from + PollLimit - 1)

PollTelegramBots ==
  /\ pc = "bot"
  /\ LET got == IF BotEnabled THEN fetchTelegramUpdates(access.offset) ELSE {} IN
       /\ chat' = IF BotEnabled THEN [chat EXCEPT !.kept = Larger(access.offset, @)] ELSE chat
       /\ answering' = IF got = {} THEN NoPoll
                       ELSE [left |-> got, answered |-> {}, offset |-> Max(got) + 1]
       /\ pc' = IF got = {} THEN "reconcile" ELSE "answer"
  /\ UNCHANGED <<bound, alertVars, notifier, events, rowVars, batch, outcome, first,
                 changes, faults, history, ruleVars, reminding, byHand, access, enabling>>

PollFails ==
  /\ pc = "bot" /\ BotEnabled
  /\ Fault
  /\ pc' = "reconcile"
  /\ UNCHANGED <<bound, alertVars, notifier, events, rowVars, batch, outcome, first,
                 changes, history, reminders>>

\* An answer that cannot be sent is not tried again.
AnswerCommand ==
  /\ pc = "answer"
  /\ LET i == Min(answering.left) IN
       /\ Hear(<<Bot, i>>) \/ UNCHANGED <<heard, repeated>>
       /\ answering' = [answering EXCEPT !.left = @ \ {i}, !.answered = @ \cup {<<Bot, i>>}]
       /\ pc' = IF answering.left = {i} THEN "answered" ELSE "answer"
  /\ UNCHANGED <<bound, alertVars, notifier, events, rowVars, batch, outcome, first,
                 changes, faults, unsure, ruleVars, reminding, byHand, botVars, enabling>>

RecordedOffset(offset) ==
  IF access.state = "enabled" THEN [access EXCEPT !.offset = Larger(@, offset)] ELSE access

\* Nothing is recorded of a bot that was switched off meanwhile.
RecordTelegramBotPoll ==
  /\ pc = "answered"
  /\ access' = RecordedOffset(answering.offset)
  /\ unsure' = IF access.state = "enabled" THEN unsure ELSE unsure \cup answering.answered
  /\ answering' = NoPoll
  /\ pc' = "reconcile"
  /\ UNCHANGED <<bound, alertVars, notifier, events, rowVars, batch, outcome, first,
                 changes, faults, heard, repeated, ruleVars, reminding, byHand, chat,
                 enabling>>

\* The write fails, or the deadline passes before it: none of the answers
\* counts, and all these commands are fetched again.
PollNotRecorded ==
  /\ pc \in {"answer", "answered"}
  /\ Fault
  /\ unsure' = unsure \cup answering.answered
  /\ answering' = NoPoll
  /\ pc' = "reconcile"
  /\ UNCHANGED <<bound, alertVars, notifier, events, rowVars, batch, outcome, first,
                 changes, heard, repeated, ruleVars, reminding, byHand, botVars, enabling>>

(***************************************************************************)
(* Switching the bot on and off                                            *)
(***************************************************************************)
\* Enabling skips what was asked before: it fetches the last update, upon
\* which Telegram forgets the others, saves the row, and records the offset
\* after that update.  The loop may poll between the last two.
EnableTelegramBot ==
  /\ Change
  /\ enabling = NoRequest /\ notifier[Bot] # "absent"
  /\ enabling' = [step |-> "save",
                  offset |-> IF chat.kept <= chat.last THEN chat.last + 1 ELSE 0]
  /\ chat' = [chat EXCEPT !.kept = Larger(@, chat.last)]
  /\ UNCHANGED <<bound, alertVars, notifier, events, rowVars, loopVars, faults, history,
                 ruleVars, reminding, byHand, access, answering>>

\* The row keeps its offset.  Nothing is saved once the notifier is gone.
UpsertTelegramBotAccess ==
  /\ enabling.step = "save"
  /\ IF notifier[Bot] = "absent"
     THEN enabling' = NoRequest /\ UNCHANGED access
     ELSE /\ enabling' = [enabling EXCEPT !.step = "record"]
          /\ access' = [access EXCEPT !.state = "enabled"]
  /\ UNCHANGED <<notifications, ruleVars, reminding, byHand, chat, answering>>

RecordBaseline ==
  /\ enabling.step = "record"
  /\ access' = RecordedOffset(enabling.offset)
  /\ enabling' = NoRequest
  /\ UNCHANGED <<notifications, ruleVars, reminding, byHand, chat, answering>>

EnablingCut ==
  /\ enabling # NoRequest
  /\ Fault
  /\ enabling' = NoRequest
  /\ UNCHANGED <<bound, alertVars, notifier, events, rowVars, loopVars, changes, history,
                 ruleVars, reminding, byHand, botVars, answering>>

DisableTelegramBot ==
  /\ Change
  /\ notifier[Bot] # "absent" /\ access.state # "disabled"
  /\ access' = [access EXCEPT !.state = "disabled"]
  /\ UNCHANGED <<bound, alertVars, notifier, events, rowVars, loopVars, faults, history,
                 ruleVars, reminding, byHand, chat, answering, enabling>>

(***************************************************************************)
(* Deleting a notifier, stopping the server                                *)
(***************************************************************************)
\* The deletion cascades to the rules and to the bot's row, and with it to
\* the record of the commands that were answered.
DeleteNotifier(n) ==
  /\ DeleteNotificationNotifier(n)
  /\ unsure' = IF n = Bot THEN unsure \cup {m \in heard : Len(m) = 2} ELSE unsure
  /\ Without({r \in Rules : rule[r].to = n})
  /\ access' = IF n = Bot THEN NoAccess ELSE access
  /\ UNCHANGED <<heard, repeated, reminding, byHand, chat, answering, enabling>>

\* Messages whose outcome is only in the memory of the server.
InHand ==
  (CASE pc = "record" -> {Head(batch)}
     [] pc = "ran" -> {<<Head(reminding).id>>}
     [] pc \in {"answer", "answered"} -> answering.answered
     [] OTHER -> {})
  \cup (IF byHand = NoRun THEN {} ELSE {<<byHand.id>>})

ServerRestarts ==
  /\ pc # "reconcile" \/ due # << >> \/ byHand # NoRun \/ enabling # NoRequest
  /\ Fault
  /\ unsure' = unsure \cup InHand
  /\ pc' = "reconcile" /\ outcome' = "none" /\ first' = TRUE
  /\ batch' = << >> /\ reminding' = << >> /\ answering' = NoPoll
  /\ byHand' = NoRun /\ enabling' = NoRequest
  /\ due' = SelectSeq(due, LAMBDA k : k \notin Readings)
  /\ UNCHANGED <<bound, alertVars, notifier, events, row, attempts, changes, heard,
                 repeated, ruleVars, botVars>>

(***************************************************************************)
(* The specification                                                       *)
(***************************************************************************)
MaintenanceLoop ==
  \/ Dispatch /\ UNCHANGED reminders
  \/ ListDueNotificationReminderRules \/ RunReminder \/ RecordReminder
  \/ PollTelegramBots \/ AnswerCommand \/ RecordTelegramBotPoll

Requests ==
  \/ \E r \in bound.rules :
       \/ \E state \in {"enabled", "disabled"}, to \in Notifiers, anew \in BOOLEAN :
            UpsertNotificationReminderRule(r, state, to, anew)
       \/ DeleteNotificationReminderRule(r) \/ RunNotificationReminderRule(r)
  \/ RecordRunByHand \/ RunByHandCut
  \/ /\ bound.updates > 0
     /\ EnableTelegramBot \/ DisableTelegramBot
  \/ UpsertTelegramBotAccess \/ RecordBaseline \/ EnablingCut
  \/ \E n \in Notifiers : DeleteNotifier(n)

Elapses == \E k \in Keys : BackoffEnds(k) /\ UNCHANGED reminders

Next ==
  \/ MaintenanceLoop
  \/ NotificationNext /\ UNCHANGED reminders
  \/ RecordReminderFails \/ ReminderDeadlinePasses \/ PollFails \/ PollNotRecorded
  \/ Requests \/ CommandArrives \/ ServerRestarts
  \/ Elapses
  \/ \E r \in Rules : NextRunComes(r)

Spec == Init /\ [][Next]_vars

\* The maintenance ticker keeps coming, and time passes.  A delivery is in
\* backoff a bounded number of times, so that fairness to all is fairness to
\* each.
FairSpec == Spec /\ WF_vars(MaintenanceLoop) /\ WF_vars(Elapses)

(***************************************************************************)
(* Properties                                                              *)
(***************************************************************************)
\* What the loop owes a channel that is enabled: a delivery that is queued or
\* in backoff, and the message of an enabled rule that is due.
Owed(m) ==
  IF m \in Keys
  THEN Pending(m) /\ notifier[m[1]] = "enabled"
  ELSE LET r == rule[m[1]] IN
       r.wait = "due" /\ r.state = "enabled" /\ notifier[r.to] = "enabled"

\* Whatever the loop owes a channel is delivered, given up after its attempts,
\* run and recorded, or no longer wanted: neither a full cycle, a slow channel,
\* a run by hand nor what is owed to a disabled notifier starves it.  Not
\* covered: commands of the chat, whose answers have no time of their own.
OwedIsSettled ==
  \A m \in Keys \cup {<<r>> : r \in Rules} : Owed(m) ~> ~Owed(m)
====
