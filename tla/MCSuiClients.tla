---------------------------- MODULE MCSuiClients ----------------------------
(* SuiClients on a small instance: see MCSuiClients.cfg and                *)
(* MCSuiTakeover.cfg.                                                      *)
EXTENDS SuiClients
====
