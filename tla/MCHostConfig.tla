---------------------------- MODULE MCHostConfig ----------------------------
(* HostConfig on a small instance: one operation of each type.             *)
EXTENDS HostConfig, TLC

CONSTANTS old, new, restart, backup

\* The second base does not survive HTTP authentication.
MCBroken == {<<new, "http">>, <<new, "stats">>}
MCWritten == {<<new, "http">>, <<old, "stats">>}
MCType == (restart :> "restart_core") @@ (backup :> "backup_config")
====
