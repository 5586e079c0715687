-------------------------- MODULE MCNotifications --------------------------
(* Notifications and Reminders on a small instance: see MCNotifications.cfg. *)
EXTENDS Reminders

CONSTANTS n1, n2, r1, r2

\* One channel hears of both events, the other only that an alert ended.
MCSubscribed ==
  [n \in {n1, n2} |-> IF n = n1 THEN {"created", "resolved"} ELSE {"resolved"}]

\* One rule speaks of open alerts, the other of the traffic of the nodes.
MCKind == [r \in {r1, r2} |-> IF r = r1 THEN "active_alerts" ELSE "traffic_usage"]

Scenario(channels, alerts, changes_, faults_, rules, updates, waits) ==
  [channels |-> channels, alerts |-> alerts, changes |-> changes_, faults |-> faults_,
   rules |-> rules, updates |-> updates, waits |-> waits]

\* Alerts alone, handled at once or late; rules and their runs by hand; a rule
\* about an alert; commands.
MCScenarios ==
  { Scenario({n1}, 1, 1, 1, {}, 0, FALSE),
    Scenario({n1, n2}, 1, 1, 0, {}, 0, FALSE),
    Scenario({n1}, 1, 0, 1, {}, 0, TRUE),
    Scenario({n1, n2}, 0, 1, 1, {r1, r2}, 0, FALSE),
    Scenario({n1}, 0, 2, 1, {r2}, 0, FALSE),
    Scenario({n1}, 1, 0, 1, {r1}, 0, FALSE),
    Scenario({n1}, 0, 2, 1, {}, 2, FALSE) }
====
