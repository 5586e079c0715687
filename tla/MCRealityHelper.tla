--------------------------- MODULE MCRealityHelper ---------------------------
(* Small instances of RealityHelper.                                        *)
EXTENDS RealityHelper

\* The same users on two ports, and other users on the first port
MCSettings == {[users |-> 1, port |-> 1], [users |-> 2, port |-> 1], [users |-> 1, port |-> 2]}

\* A host without lapses, and one with all of them
MCLapses == {{}, {"kill", "deadline", "sync"}}

============================================================================
