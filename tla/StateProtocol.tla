---------------------------- MODULE StateProtocol ----------------------------
(***************************************************************************)
(* What a client may rely on, per subscription id, when it reads one state *)
(* connection (the contract web/src/wire/client.ts is written against):    *)
(* nothing is said of an id before its subscription was read; snapshot     *)
(* sequence numbers grow and the state they show is never older than what  *)
(* was shown before; a subscription that has shown something ends with     *)
(* subend, one that has not with suberr, and then it shows nothing more.   *)
(* The one other frame about an id is the suberr that answers a client     *)
(* which subscribes under an id again, at any time and no more often than  *)
(* the client does so.  StateSocket refines this module.                   *)
(***************************************************************************)
EXTENDS Naturals

CONSTANTS Ids, MaxVersion

VARIABLES
    last,    \* highest id the client has subscribed under
    misused, \* how often it used an id that was not higher, by id
    seq,     \* sequence number of the last snapshot on the wire, 0 before the first
    shown,   \* version of the state in that snapshot
    over,    \* "no", "subend" or "suberr"
    refused  \* answers to misuse on the wire

protocolVars == <<last, misused, seq, shown, over, refused>>

Init ==
    /\ last = 0
    /\ misused = [i \in Ids |-> 0]
    /\ seq = [i \in Ids |-> 0]
    /\ shown = [i \in Ids |-> 0]
    /\ over = [i \in Ids |-> "no"]
    /\ refused = [i \in Ids |-> 0]

Subscribe(i) ==
    /\ i > last
    /\ last' = i
    /\ UNCHANGED <<misused, seq, shown, over, refused>>

Misuse(i) ==
    /\ i <= last
    /\ misused' = [misused EXCEPT ![i] = @ + 1]
    /\ UNCHANGED <<last, seq, shown, over, refused>>

Snap(i) ==
    /\ i <= last /\ over[i] = "no"
    /\ seq'[i] > seq[i] /\ shown'[i] \in shown[i] .. MaxVersion
    /\ seq' = [seq EXCEPT ![i] = seq'[i]]
    /\ shown' = [shown EXCEPT ![i] = shown'[i]]
    /\ UNCHANGED <<last, misused, over, refused>>

SubEnd(i) ==
    /\ i <= last /\ over[i] = "no" /\ seq[i] > 0
    /\ over' = [over EXCEPT ![i] = "subend"]
    /\ UNCHANGED <<last, misused, seq, shown, refused>>

SubErr(i) ==
    /\ i <= last /\ over[i] = "no" /\ seq[i] = 0
    /\ over' = [over EXCEPT ![i] = "suberr"]
    /\ UNCHANGED <<last, misused, seq, shown, refused>>

Refuse(i) ==
    /\ refused[i] < misused[i]
    /\ refused' = [refused EXCEPT ![i] = @ + 1]
    /\ UNCHANGED <<last, misused, seq, shown, over>>

Next ==
    \E i \in Ids :
        Subscribe(i) \/ Misuse(i) \/ Snap(i) \/ SubEnd(i) \/ SubErr(i) \/ Refuse(i)

Spec == Init /\ [][Next]_protocolVars
==============================================================================
