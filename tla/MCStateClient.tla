---------------------------- MODULE MCStateClient ----------------------------
(* Small instances of StateClient: see the MCStateClient*.cfg files.         *)
EXTENDS StateClient

BadVersions == {1}
==============================================================================
