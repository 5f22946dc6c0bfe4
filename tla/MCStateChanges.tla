--------------------------- MODULE MCStateChanges ---------------------------
(* Two channels for two threads of a project, woken by the status of one     *)
(* thread, by a change to everything, and by throttled browser input.        *)
EXTENDS StateChanges, TLC

CONSTANTS status, browser, p1, t1, t2, first, second

At(p, t) == [project |-> p, thread |-> t]
MCInterest ==
    first  :> [topics |-> {status, browser}, scope |-> At(p1, t1)] @@
    second :> [topics |-> {status}, scope |-> At(p1, t2)]
MCBrowserChanges == {[topic |-> browser, scope |-> At(p1, t1)]}
MCLiveChanges == {[topic |-> status, scope |-> At(p1, AnyId)]} \cup MCBrowserChanges
==============================================================================
