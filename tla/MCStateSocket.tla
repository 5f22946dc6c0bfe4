---------------------------- MODULE MCStateSocket ----------------------------
(* Small instances of StateSocket: see the MCStateSocket*.cfg files.         *)
EXTENDS StateSocket

\* Each version reads differently from the one before and like the one before that.
MCPayload == [v \in 0 .. MaxVersion |-> v % 2]
==============================================================================
