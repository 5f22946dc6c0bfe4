------------------------------ MODULE EventFeed ------------------------------
(***************************************************************************)
(* What an in-process subscription promises its consumer, whatever queue   *)
(* and goroutine deliver it: the values arrive in publication order; a     *)
(* value may be skipped only when the subscription's mode says that a      *)
(* newer one supersedes it; a subscription ends at most once and delivers  *)
(* nothing afterwards.  Broadcast refines this module.                     *)
(***************************************************************************)
EXTENDS Naturals, Sequences

CONSTANTS Subscribers, Keys, NoKey, MaxPublished

VARIABLES log,     \* keys of the values published so far
          mode,    \* how each subscriber wants bursts treated
          seen,    \* position in log of the value delivered last
          feed     \* "none", "open" or "ended"

feedVars == <<log, mode, seen, feed>>

Modes == {"ordered", "latest", "coalesced"}

\* A consumer that has seen everything up to a may be given b next.
MayFollow(m, a, b) ==
    \/ b = a + 1
    \/ m = "latest" /\ b > a
    \/ /\ m = "coalesced"
       /\ b > a
       /\ \A q \in a + 1 .. b : log[q] = log[b] /\ log[b] # NoKey

Init ==
    /\ log = <<>>
    /\ mode = [s \in Subscribers |-> "ordered"]
    /\ seen = [s \in Subscribers |-> 0]
    /\ feed = [s \in Subscribers |-> "none"]

Begin(s, m) ==
    /\ feed[s] = "none"
    /\ feed' = [feed EXCEPT ![s] = "open"]
    /\ mode' = [mode EXCEPT ![s] = m]
    /\ seen' = [seen EXCEPT ![s] = Len(log)]
    /\ UNCHANGED log

Publish(k) ==
    /\ Len(log) < MaxPublished
    /\ log' = Append(log, k)
    /\ UNCHANGED <<mode, seen, feed>>

Receive(s) ==
    /\ feed[s] = "open"
    /\ \E p \in seen[s] + 1 .. Len(log) :
          /\ MayFollow(mode[s], seen[s], p)
          /\ seen' = [seen EXCEPT ![s] = p]
    /\ UNCHANGED <<log, mode, feed>>

End(s) ==
    /\ feed[s] = "open"
    /\ feed' = [feed EXCEPT ![s] = "ended"]
    /\ UNCHANGED <<log, mode, seen>>

Next ==
    \/ \E k \in Keys \cup {NoKey} : Publish(k)
    \/ \E s \in Subscribers :
          \/ \E m \in Modes : Begin(s, m)
          \/ Receive(s)
          \/ End(s)

Spec == Init /\ [][Next]_feedVars
==============================================================================
