-------------------------- MODULE MCTerminalBridge --------------------------
(* Small instances of TerminalBridge: see the MCTerminalBridge*.cfg files.   *)
EXTENDS TerminalBridge
==============================================================================
