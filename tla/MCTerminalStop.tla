--------------------------- MODULE MCTerminalStop ---------------------------
(***************************************************************************)
(* Two backend processes with one worker each and a second worker in the    *)
(* first.                                                                   *)
(***************************************************************************)
EXTENDS TerminalStop, TLC

CONSTANTS t1, t2, p1, p2, w1, w2, w3

HomeOf == w1 :> p1 @@ w2 :> p1 @@ w3 :> p2

\* Every two operations meet within a process, but for two openings, and across
\* the processes, but for two settlements; one addition and one unsettlement.
Asked ==
    w1 :> Requests
    @@ w2 :> Requests \ {"addThread", "unsettle", "open"}
    @@ w3 :> Ops \ {"settle"}

=============================================================================
