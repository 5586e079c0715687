----------------------------- MODULE BatchLedger -----------------------------
(***************************************************************************)
(* What traffic accounting promises: a batch, once recorded, stays pending *)
(* until it is credited, is credited once, and stays credited.             *)
(***************************************************************************)
VARIABLES
    pending,    \* recorded, not yet credited
    credited    \* credited

Init == pending = {} /\ credited = {}

\* New batches are recorded.
Record ==
    /\ pending \subseteq pending'
    /\ (pending' \ pending) \cap credited = {}
    /\ UNCHANGED credited

\* One pending batch is credited.
Credit ==
    \E b \in pending : pending' = pending \ {b} /\ credited' = credited \cup {b}

Next == Record \/ Credit

Spec == Init /\ [][Next]_<<pending, credited>>
=============================================================================
