-------------------------- MODULE MCBrowserSessions --------------------------
(* Small instances of BrowserSessions: see the MCBrowserSessions*.cfg files. *)
EXTENDS BrowserSessions, TLC

CONSTANTS k1, k2

\* One thread does everything; the other takes the window away from it.
MCAsks == [k \in Keys |-> IF k = k1 THEN AllOperations ELSE {"render"}]
==============================================================================
