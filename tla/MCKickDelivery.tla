--------------------------- MODULE MCKickDelivery ---------------------------
\* A native node, whose agent is modelled, and a Reality node.
EXTENDS KickDelivery, TLC

CONSTANTS u1, u2, hy, vl

MCAdapter == (hy :> "native_hysteria2") @@ (vl :> "sing_box_vless_reality")

\* Who takes part, with how many requests, how much traffic, how many faults
MCScenarios ==
    { [users |-> {u1}, writes |-> 2, traffic |-> 1, faults |-> 0, agent |-> FALSE],
      [users |-> {u1}, writes |-> 1, traffic |-> 1, faults |-> 1, agent |-> TRUE],
      [users |-> {u1}, writes |-> 1, traffic |-> 0, faults |-> 2, agent |-> TRUE],
      [users |-> {u1, u2}, writes |-> 0, traffic |-> 0, faults |-> 1, agent |-> TRUE] }
=============================================================================
