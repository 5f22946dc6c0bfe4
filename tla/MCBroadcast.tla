----------------------------- MODULE MCBroadcast -----------------------------
(* Small instance of Broadcast: see MCBroadcast.cfg.                          *)
EXTENDS Broadcast, TLC

CONSTANTS s1, s2, k1
==============================================================================
